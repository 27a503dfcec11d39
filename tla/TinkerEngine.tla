---------------------------- MODULE TinkerEngine ----------------------------
(***************************************************************************)
(* The future queue of the Tinker service: the API process commits         *)
(* requests to the futures table, the engine process polls the table with  *)
(* eight SELECT statements, runs what it found in batches on its backend   *)
(* and writes the results.  src/skyrl/tinker/engine.py, api.py.            *)
(*                                                                         *)
(* request_id is the position in requests: ids are assigned and committed  *)
(* in one order (SQLite, one writer at a time).  Each SELECT sees every    *)
(* commit made before it: no transaction spans the reads of an iteration.  *)
(***************************************************************************)
EXTENDS AdapterBackend, FiniteSetsExt

CONSTANTS
  Kinds,          \* the request types clients use here
  MaxRequests,    \* bound on the requests committed
  MaxRestarts,    \* bound on the exits of the engine
  BackendMayFail, \* a pass, a load or a save may raise
  CleanupEnabled  \* stale sessions are cleaned up

Passes == {"forward_backward", "forward"}

(* The request types that _find_destructive_barriers looks for.            *)
Destructive == {"optim_step", "load_weights"}

Saves == {"save_weights", "save_weights_for_sampler"}

(* What find_single_requests returns: neither pass nor sample.             *)
Single == {"create_model", "unload_model"} \cup Destructive \cup Saves

RequestTypes == Passes \cup Single \cup {"sample"}

ASSUME EngineAssumption ==
  /\ Kinds \subseteq RequestTypes
  /\ MaxRequests \in Nat
  /\ MaxRestarts \in Nat
  /\ BackendMayFail \in BOOLEAN
  /\ CleanupEnabled \in BOOLEAN

VARIABLES
  requests,    \* the rows of FutureDB: type, model and checkpoint
  status,      \* the status of each row
  checkpoint,  \* CheckpointDB: the status of each save's row
  file,        \* the checkpoint each save wrote
  expired,     \* the models whose session has expired; each has its own
  phase,       \* what the engine is doing: select, run, write or down
  at,          \* with which statement or group of requests
  barrier,     \* result of the last barrier query; 0 is no entry
  blocked,     \* blocked_pass_barriers of find_single_requests
  passes,      \* forward_backward_requests and forward_requests
  samples,     \* sample_requests
  singles,     \* other_requests not processed yet
  results,     \* results not written yet
  restarts,    \* exits of the engine so far
  executed,    \* history: requests run and not undone by an exit
  raced,       \* history: requests committed between two SELECTs
  sampled      \* history: the weights each sample was drawn with

futureVars == <<requests, status, raced>>
checkpointVars == <<checkpoint, file>>
foundVars == <<barrier, blocked, passes, samples, singles>>
serviceVars == <<expired, restarts>>
vars == <<futureVars, checkpointVars, foundVars, backendVars, serviceVars,
          phase, at, results, executed, sampled>>

Ids == DOMAIN requests

Type(i) == requests[i].type

ModelOf == [i \in Ids |-> requests[i].model]

Pending == {i \in Ids : status[i] = "pending"}

(* What a first SELECT finds; the engine is then back at its first one.    *)
FirstStatement == "forward_backward barriers"

(* The statement or group that follows each one in process_pending_requests *)
After ==
  [s \in {"forward_backward barriers", "forward_backward", "forward barriers",
          "forward", "samples", "single barriers", "blocked passes"} |->
     CASE s = "forward_backward barriers" -> "forward_backward"
       [] s = "forward_backward" -> "forward barriers"
       [] s = "forward barriers" -> "forward"
       [] s = "forward" -> "samples"
       [] s = "samples" -> "single barriers"
       [] s = "single barriers" -> "blocked passes"
       [] s = "blocked passes" -> "singles"]

NextGroup ==
  [g \in {"forward_backward", "forward", "samples"} |->
     CASE g = "forward_backward" -> "forward"
       [] g = "forward" -> "samples"
       [] g = "samples" -> "singles"]

NothingFound ==
  /\ barrier = [m \in Models |-> 0]
  /\ blocked = [m \in Models |-> 0]
  /\ passes = [t \in Passes |-> {}]
  /\ samples = {}
  /\ singles = {}

ForgetFound ==
  /\ barrier' = [m \in Models |-> 0]
  /\ blocked' = [m \in Models |-> 0]
  /\ passes' = [t \in Passes |-> {}]
  /\ samples' = {}
  /\ singles' = {}

Init ==
  /\ requests = << >>
  /\ status = << >>
  /\ checkpoint = << >>
  /\ file = << >>
  /\ expired = {}
  /\ phase = "select"
  /\ at = FirstStatement
  /\ NothingFound
  /\ EmptyBackend
  /\ results = << >>
  /\ restarts = 0
  /\ executed = {}
  /\ raced = {}
  /\ sampled = << >>

----------------------------------------------------------------------------
(* The API process.                                                        *)

(* create_future and the commit of the handler.                            *)
CreateFuture(type, m, source) ==
  /\ type \in Kinds
  /\ Len(requests) < MaxRequests
  /\ requests' = Append(requests, [type |-> type, model |-> m, source |-> source])
  /\ status' = Append(status, "pending")
  /\ raced' = IF phase = "select" /\ at # FirstStatement
              THEN raced \cup {Len(requests) + 1} ELSE raced
  /\ UNCHANGED <<foundVars, backendVars, phase, at, results, serviceVars,
                 executed, sampled>>

(* get_model: the row that create_model committed with its future.         *)
ModelExists(m) == \E i \in Ids : Type(i) = "create_model" /\ ModelOf[i] = m

(* create_model: each call makes a new model id.                           *)
CommitCreateModel(m) ==
  /\ ~ModelExists(m)
  /\ CreateFuture("create_model", m, 0)
  /\ UNCHANGED checkpointVars

(* forward_backward, forward, optim_step and unload_model.                 *)
CommitRequest(type, m) ==
  /\ type \in Passes \cup {"optim_step", "unload_model"}
  /\ ModelExists(m)
  /\ CreateFuture(type, m, 0)
  /\ UNCHANGED checkpointVars

(* save_weights and save_weights_for_sampler: the future and the pending   *)
(* row of a new checkpoint in one commit.                                  *)
CommitSave(type, m) ==
  /\ type \in Saves
  /\ ModelExists(m)
  /\ CreateFuture(type, m, 0)
  /\ checkpoint' = [c \in DOMAIN checkpoint \cup {Len(requests) + 1} |->
                      IF c \in DOMAIN checkpoint THEN checkpoint[c] ELSE "pending"]
  /\ UNCHANGED file

(* validate_checkpoint: the row exists, is completed and of the kind.      *)
Usable(kind) ==
  {c \in DOMAIN checkpoint : Type(c) = kind /\ checkpoint[c] = "completed"}

(* load_weights, from a checkpoint of any model.                           *)
CommitLoad(m) ==
  /\ ModelExists(m)
  /\ \E c \in Usable("save_weights") : CreateFuture("load_weights", m, c)
  /\ UNCHANGED checkpointVars

(* asample of a model's sampler checkpoint, on the engine's own path.      *)
CommitSample(m) ==
  /\ \E c \in Usable("save_weights_for_sampler") :
       /\ ModelOf[c] = m
       /\ CreateFuture("sample", m, c)
  /\ UNCHANGED checkpointVars

APINext ==
  \E m \in Models :
    \/ CommitCreateModel(m)
    \/ \E type \in RequestTypes : CommitRequest(type, m) \/ CommitSave(type, m)
    \/ CommitLoad(m)
    \/ CommitSample(m)

----------------------------------------------------------------------------
(* The engine: the statements of one iteration.                            *)

(* The least of a set of request ids, 0 when there is none.                *)
First(ids) == IF ids = {} THEN 0 ELSE Min(ids)

(* _find_destructive_barriers: the first pending optim_step or             *)
(* load_weights of each model.                                             *)
SelectBarriers ==
  /\ phase = "select"
  /\ at \in {"forward_backward barriers", "forward barriers", "single barriers"}
  /\ barrier' = [m \in Models |->
       First({i \in Pending : Type(i) \in Destructive /\ ModelOf[i] = m})]
  /\ at' = After[at]
  /\ UNCHANGED <<futureVars, checkpointVars, backendVars, phase, blocked,
                 passes, samples, singles, results, serviceVars, executed, sampled>>

(* Request i comes before the limit set for its model, if there is one.    *)
ComesBefore(i, limit) ==
  limit[ModelOf[i]] = 0 \/ i < limit[ModelOf[i]]

(* Broken variant: a pass is batched whatever comes before it.             *)
SelectPassesUnbarred(t) ==
  /\ phase = "select"
  /\ at = t
  /\ passes' = [passes EXCEPT ![t] = {i \in Pending : Type(i) = t}]
  /\ at' = After[at]
  /\ UNCHANGED <<futureVars, checkpointVars, backendVars, phase, barrier,
                 blocked, samples, singles, results, serviceVars, executed, sampled>>

(* find_batchable_model_passes, its second statement and its filter.       *)
SelectPasses(t) ==
  /\ phase = "select"
  /\ at = t
  /\ passes' = [passes EXCEPT ![t] =
       {i \in Pending : Type(i) = t /\ ComesBefore(i, barrier)}]
  /\ at' = After[at]
  /\ UNCHANGED <<futureVars, checkpointVars, backendVars, phase, barrier,
                 blocked, samples, singles, results, serviceVars, executed, sampled>>

(* find_batchable_sample: one checkpoint per model, that of the model's    *)
(* first pending sample.                                                   *)
SelectSamples ==
  LET pending == {i \in Pending : Type(i) = "sample"}
      first(m) == Min({i \in pending : ModelOf[i] = m})
  IN
  /\ phase = "select"
  /\ at = "samples"
  /\ samples' = {i \in pending :
       requests[i].source = requests[first(ModelOf[i])].source}
  /\ at' = After[at]
  /\ UNCHANGED <<futureVars, checkpointVars, backendVars, phase, barrier,
                 blocked, passes, singles, results, serviceVars, executed, sampled>>

(* Broken variant: a blocked pass also blocks the update it waits for.     *)
SelectBlockedPassesFromBarrier ==
  /\ phase = "select"
  /\ at = "blocked passes"
  /\ blocked' = [m \in Models |->
       IF \E i \in Pending : /\ Type(i) \in Passes
                             /\ ModelOf[i] = m
                             /\ i >= barrier[m]
       THEN barrier[m] ELSE 0]
  /\ at' = After[at]
  /\ UNCHANGED <<futureVars, checkpointVars, backendVars, phase, barrier,
                 passes, samples, singles, results, serviceVars, executed, sampled>>

(* find_single_requests: the first pending pass of each model at or behind *)
(* its barrier.                                                            *)
SelectBlockedPasses ==
  /\ phase = "select"
  /\ at = "blocked passes"
  /\ blocked' = [m \in Models |->
       First({i \in Pending : /\ Type(i) \in Passes
                              /\ ModelOf[i] = m
                              /\ barrier[m] # 0
                              /\ i >= barrier[m]})]
  /\ at' = After[at]
  /\ UNCHANGED <<futureVars, checkpointVars, backendVars, phase, barrier,
                 passes, samples, singles, results, serviceVars, executed, sampled>>

(* find_single_requests: what is neither a pass nor a sample and is not    *)
(* behind a blocked pass.                                                  *)
SelectSingles ==
  /\ phase = "select"
  /\ at = "singles"
  /\ singles' = {i \in Pending : Type(i) \in Single /\ ComesBefore(i, blocked)}
  /\ phase' = "run"
  /\ at' = "forward_backward"
  /\ UNCHANGED <<futureVars, checkpointVars, backendVars, barrier, blocked,
                 passes, samples, results, serviceVars, executed, sampled>>

----------------------------------------------------------------------------
(* The engine: running what was found.                                     *)

(* _filter_valid_requests: a request whose model is loaded.                *)
Valid(i) == HasModel(ModelOf[i])

(* An empty group is passed over.                                          *)
SkipGroup ==
  /\ phase = "run"
  /\ at \in DOMAIN NextGroup
  /\ (IF at = "samples" THEN samples ELSE passes[at]) = {}
  /\ at' = NextGroup[at]
  /\ UNCHANGED <<futureVars, checkpointVars, foundVars, backendVars, phase,
                 results, serviceVars, executed, sampled>>

(* The results of a batch that ran: an error for each invalid request.     *)
BatchResults(batch) ==
  [i \in batch |-> IF Valid(i) THEN "completed" ELSE "failed"]

(* process_batch_requests with process_forward_backward, process_forward.  *)
RunPasses ==
  /\ phase = "run"
  /\ at \in Passes
  /\ passes[at] # {}
  /\ results' = BatchResults(passes[at])
  /\ executed' = executed \cup passes[at]
  /\ IF at = "forward_backward" THEN Accumulate(passes[at], ModelOf)
     ELSE UNCHANGED backendVars
  /\ phase' = "write"
  /\ UNCHANGED <<futureVars, checkpointVars, foundVars, at, serviceVars, sampled>>

(* The backend raises: every request of the batch fails, though some may   *)
(* have added their gradients.                                             *)
FailPasses ==
  /\ BackendMayFail
  /\ phase = "run"
  /\ at \in Passes
  /\ \E i \in passes[at] : Valid(i)
  /\ results' = [i \in passes[at] |-> "failed"]
  /\ executed' = executed \cup passes[at]
  /\ IF at = "forward_backward"
     THEN \E done \in SUBSET passes[at] : Accumulate(done, ModelOf)
     ELSE UNCHANGED backendVars
  /\ phase' = "write"
  /\ UNCHANGED <<futureVars, checkpointVars, foundVars, at, serviceVars, sampled>>

(* The checkpoint that the requests of each model ask for; a batch has one *)
(* for each model.                                                         *)
Wanted(S) ==
  [m \in {ModelOf[i] : i \in S} |->
     (CHOOSE r \in {requests[i] : i \in S} : r.model = m).source]

(* process_sample on the native path: the checkpoints that the requests in *)
(* read ask for are read into the slots of their models, and those in drawn*)
(* are sampled from the slots.                                             *)
SampleBatch(read, drawn) ==
  /\ phase = "run"
  /\ at = "samples"
  /\ IF NativeSampling
     THEN /\ LoadSamplerWeights(Wanted(read), file)
          /\ sampled' = [i \in DOMAIN sampled \cup drawn |->
               IF i \in drawn THEN weights'[slot[ModelOf[i]]] ELSE sampled[i]]
     ELSE UNCHANGED <<backendVars, sampled>>
  /\ executed' = executed \cup samples
  /\ phase' = "write"
  /\ UNCHANGED <<futureVars, checkpointVars, foundVars, at, serviceVars>>

RunSamples ==
  LET valid == {i \in samples : Valid(i)} IN
  /\ samples # {}
  /\ SampleBatch(valid, valid)
  /\ results' = BatchResults(samples)

(* The backend raises: every request fails, and some checkpoints were read.*)
FailSamples ==
  /\ BackendMayFail
  /\ \E i \in samples : Valid(i)
  /\ \E read \in SUBSET {i \in samples : Valid(i)} : SampleBatch(read, {})
  /\ results' = [i \in samples |-> "failed"]

(* Request i is the next one of process_single_requests.                   *)
NextSingle(i) ==
  /\ phase = "run"
  /\ at = "singles"
  /\ i \in singles
  /\ \A j \in singles : i <= j

(* The result of request i is kept until all single requests are done.     *)
Finish(i, outcome) ==
  /\ results' = [j \in DOMAIN results \cup {i} |->
                   IF j = i THEN outcome ELSE results[j]]
  /\ executed' = executed \cup {i}
  /\ singles' = singles \ {i}
  /\ UNCHANGED <<futureVars, phase, at, barrier, blocked, passes, samples,
                 serviceVars, sampled>>

(* process_create_model; no slot is free, or the rank asked for is not     *)
(* supported, and the model is never loaded.                               *)
RunCreateModel(i) ==
  /\ NextSingle(i)
  /\ Type(i) = "create_model"
  /\ \/ /\ FreeSlots # {}
        /\ CreateAdapter(ModelOf[i])
        /\ Finish(i, "completed")
     \/ /\ FreeSlots = {} \/ BackendMayFail
        /\ UNCHANGED backendVars
        /\ Finish(i, "failed")
  /\ UNCHANGED checkpointVars

(* process_unload_model: one that is not loaded is ignored.                *)
RunUnloadModel(i) ==
  /\ NextSingle(i)
  /\ Type(i) = "unload_model"
  /\ IF Valid(i) THEN DeleteAdapter(ModelOf[i]) ELSE UNCHANGED backendVars
  /\ Finish(i, "completed")
  /\ UNCHANGED checkpointVars

(* process_optim_step; the backend may raise before or after the update.   *)
RunOptimStep(i) ==
  /\ NextSingle(i)
  /\ Type(i) = "optim_step"
  /\ IF Valid(i)
     THEN \/ OptimStep(ModelOf[i]) /\ Finish(i, "completed")
          \/ /\ BackendMayFail
             /\ OptimStep(ModelOf[i]) \/ UNCHANGED backendVars
             /\ Finish(i, "failed")
     ELSE UNCHANGED backendVars /\ Finish(i, "failed")
  /\ UNCHANGED checkpointVars

(* process_load_weights; another rank or a lost file makes it raise.       *)
RunLoadWeights(i) ==
  /\ NextSingle(i)
  /\ Type(i) = "load_weights"
  /\ IF Valid(i)
     THEN \/ /\ LoadCheckpoint(ModelOf[i], file[requests[i].source])
             /\ Finish(i, "completed")
          \/ /\ BackendMayFail
             /\ UNCHANGED backendVars
             /\ Finish(i, "failed")
     ELSE UNCHANGED backendVars /\ Finish(i, "failed")
  /\ UNCHANGED checkpointVars

(* Broken variant: the row counts as saved from the start of the save.     *)
RunSaveCompletedEarly(i) ==
  /\ NextSingle(i)
  /\ Type(i) \in Saves
  /\ IF Valid(i)
     THEN /\ checkpoint' = [checkpoint EXCEPT ![i] = "completed"]
          /\ \/ /\ file' = [c \in DOMAIN file \cup {i} |->
                     IF c = i THEN weights[slot[ModelOf[i]]] ELSE file[c]]
                /\ Finish(i, "completed")
             \/ /\ BackendMayFail
                /\ UNCHANGED file
                /\ Finish(i, "failed")
     ELSE UNCHANGED checkpointVars /\ Finish(i, "failed")
  /\ UNCHANGED backendVars

(* process_save_weights and process_save_weights_for_sampler: a model that *)
(* is not loaded is reported before the checkpoint's row is looked at.     *)
RunSave(i) ==
  /\ NextSingle(i)
  /\ Type(i) \in Saves
  /\ IF Valid(i)
     THEN \/ /\ file' = [c \in DOMAIN file \cup {i} |->
                  IF c = i THEN weights[slot[ModelOf[i]]] ELSE file[c]]
             /\ checkpoint' = [checkpoint EXCEPT ![i] = "completed"]
             /\ Finish(i, "completed")
          \/ /\ BackendMayFail
             /\ checkpoint' = [checkpoint EXCEPT ![i] = "failed"]
             /\ UNCHANGED file
             /\ Finish(i, "failed")
     ELSE UNCHANGED checkpointVars /\ Finish(i, "failed")
  /\ UNCHANGED backendVars

(* Nothing left to run among the single requests.                          *)
EndSingles ==
  /\ phase = "run"
  /\ at = "singles"
  /\ singles = {}
  /\ phase' = "write"
  /\ UNCHANGED <<futureVars, checkpointVars, foundVars, backendVars, at,
                 results, serviceVars, executed, sampled>>

(* _complete_futures, then the next group or the next iteration.           *)
WriteResults ==
  /\ phase = "write"
  /\ status' = [i \in Ids |->
       IF i \in DOMAIN results THEN results[i] ELSE status[i]]
  /\ results' = << >>
  /\ IF at \in DOMAIN NextGroup
     THEN phase' = "run" /\ at' = NextGroup[at] /\ UNCHANGED foundVars
     ELSE phase' = "select" /\ at' = FirstStatement /\ ForgetFound
  /\ UNCHANGED <<requests, raced, checkpointVars, backendVars, serviceVars,
                 executed, sampled>>

(* The models of active sessions.  A session that expires before its       *)
(* client makes a model is one that expires while create_model is pending. *)
LiveSessions == {m \in Models \ expired : ModelExists(m)}

(* cleanup_stale_sessions, between two iterations of the loop: any session *)
(* may be stale, its client gone or late.  Commits between its statements  *)
(* change nothing it acts on: a model created after them is not loaded     *)
(* yet, one created before is read.                                        *)
CleanupStaleSessions ==
  /\ CleanupEnabled
  /\ phase = "select" /\ at = FirstStatement
  /\ \E S \in SUBSET LiveSessions \ {{}} :
       /\ DeleteAdapters(S \cap DOMAIN slot)
       /\ expired' = expired \cup S
  /\ UNCHANGED <<futureVars, checkpointVars, foundVars, phase, at, results,
                 restarts, executed, sampled>>

EngineNext ==
  \/ SelectBarriers
  \/ \E t \in Passes : SelectPasses(t)
  \/ SelectSamples
  \/ SelectBlockedPasses
  \/ SelectSingles
  \/ SkipGroup
  \/ RunPasses
  \/ FailPasses
  \/ RunSamples
  \/ FailSamples
  \/ \E i \in singles :
       \/ RunCreateModel(i)
       \/ RunUnloadModel(i)
       \/ RunOptimStep(i)
       \/ RunLoadWeights(i)
       \/ RunSave(i)
  \/ EndSingles
  \/ WriteResults
  \/ CleanupStaleSessions

----------------------------------------------------------------------------
(* Exits of the engine: a lost write, a query that raises, a crash.        *)

(* What was run but not written is forgotten; the rows stay pending.       *)
Crash ==
  /\ phase # "down"
  /\ restarts < MaxRestarts
  /\ restarts' = restarts + 1
  /\ phase' = "down"
  /\ at' = FirstStatement
  /\ executed' = executed \ Pending
  /\ results' = << >>
  /\ ForgetFound
  /\ LoseBackend
  /\ UNCHANGED <<futureVars, checkpointVars, expired, sampled>>

(* A new service on the same database.                                     *)
Restart ==
  /\ phase = "down"
  /\ phase' = "select"
  /\ UNCHANGED <<futureVars, checkpointVars, foundVars, backendVars, at,
                 results, serviceVars, executed, sampled>>

Next ==
  \/ APINext
  \/ EngineNext
  \/ Crash
  \/ Restart

Spec == Init /\ [][Next]_vars

(* The engine's loop runs, and a service that exited is started again.     *)
Fairness == WF_vars(EngineNext) /\ WF_vars(Restart)

FairSpec == Spec /\ Fairness

----------------------------------------------------------------------------
(* Properties.                                                             *)

Statuses == {"pending", "completed", "failed"}

Statements == DOMAIN After \cup {"singles"}

Groups == Passes \cup {"samples", "singles"}

History == Seq(SUBSET Nat)

QueueTypeOK ==
  /\ requests \in Seq([type : RequestTypes, model : Models,
                       source : Nat])
  /\ status \in Seq(Statuses)
  /\ Len(status) = Len(requests)
  /\ DOMAIN checkpoint \subseteq Ids
  /\ checkpoint \in [DOMAIN checkpoint -> Statuses]
  /\ DOMAIN file \subseteq DOMAIN checkpoint
  /\ file \in [DOMAIN file -> History]

BackendTypeOK ==
  /\ DOMAIN slot \subseteq Models
  /\ slot \in [DOMAIN slot -> Slots]
  /\ \A m, n \in DOMAIN slot : slot[m] = slot[n] => m = n
  /\ weights \in [Slots -> History]
  /\ grads \in [Slots -> SUBSET Ids]
  /\ loaded \in [DOMAIN slot -> Nat]

EngineTypeOK ==
  /\ phase \in {"select", "run", "write", "down"}
  /\ at \in IF phase \in {"run", "write"} THEN Groups ELSE Statements
  /\ barrier \in [Models -> Nat]
  /\ blocked \in [Models -> Nat]
  /\ passes \in [Passes -> SUBSET Ids]
  /\ samples \subseteq Ids
  /\ singles \subseteq Ids
  /\ DOMAIN results \subseteq Ids
  /\ results \in [DOMAIN results -> {"completed", "failed"}]
  /\ restarts \in 0..MaxRestarts /\ expired \subseteq Models
  /\ executed \subseteq Ids
  /\ raced \subseteq Ids
  /\ sampled \in [DOMAIN sampled -> History]

(* Type invariant; no two models share a slot.                             *)
TypeOK == QueueTypeOK /\ BackendTypeOK /\ EngineTypeOK

(* Requests i < j of one model whose order decides what the model becomes. *)
Ordered(i, j) ==
  /\ ModelOf[i] = ModelOf[j]
  /\ \/ Type(i) \in Single /\ Type(j) \in Single
     \/ /\ j \notin raced
        /\ \/ Type(i) \in Passes /\ Type(j) \in Destructive
           \/ Type(i) \in Destructive /\ Type(j) \in Passes

(* The look-ahead scheduling never reorders an update and a pass of one    *)
(* model, nor two single requests, unless the later one was committed      *)
(* between two SELECTs of an iteration: what a request must wait for was   *)
(* run before it.                                                          *)
CommitOrder ==
  \A j \in executed : \A i \in Ids \ executed :
    i < j => ~Ordered(i, j)

(* The gradients accumulated for a model are those of its own requests,    *)
(* none of them applied to the model's weights before.                     *)
OwnGradients ==
  \A m \in DOMAIN slot : \A i \in grads[slot[m]] :
    /\ ModelOf[i] = m
    /\ \A k \in DOMAIN weights[slot[m]] : i \notin weights[slot[m]][k]

(* A checkpoint that a client is told of holds a file, which load_weights  *)
(* and the samplers will find.                                             *)
CheckpointsHoldFiles ==
  /\ \A c \in DOMAIN checkpoint : checkpoint[c] = "completed" => c \in DOMAIN file
  /\ \A i \in Ids : Type(i) \in Saves /\ status[i] = "completed"
                      => checkpoint[i] = "completed"

(* No pending optim_step overtakes a forward_backward: "optim_step must    *)
(* not run before a preceding forward_backward for the same model".        *)
OptimAfterPasses ==
  \A i, j \in Ids :
    /\ i < j
    /\ ModelOf[i] = ModelOf[j]
    /\ Type(i) = "forward_backward"
    /\ Type(j) = "optim_step"
    /\ j \in executed
    => i \in executed

(* "Ensures all required checkpoints are loaded before sampling": a sample *)
(* is drawn with the weights of the checkpoint it names.                   *)
SampledFromCheckpoint ==
  \A i \in DOMAIN sampled : sampled[i] = file[requests[i].source]

(* No slot stays with a session that is gone, where nothing would free it: *)
(* the leak the clean-up was mended against, a client that made a model    *)
(* and died and "therefore kept its adapter slot allocated FOREVER".       *)
SlotsOfLiveSessions == \A m \in DOMAIN slot : m \notin expired

(* The engine as a serial trainer: a model's weights are those in its slot *)
Serial == INSTANCE SerialTraining WITH
  settled <- Ids \ Pending,
  weights <- [m \in DOMAIN slot |-> weights[slot[m]]],
  grads <- [m \in DOMAIN slot |-> grads[slot[m]]],
  saved <- file

(* Whatever is batched, delayed or rerun after an exit, each model goes    *)
(* through the history of its requests taken one after the other.          *)
ImplementsSerialTraining == Serial!Spec

(* Every committed request is answered: none is blocked for good by the    *)
(* barriers, and none is lost with an engine that exits.                   *)
EveryRequestAnswered ==
  \A i \in 1..MaxRequests : i \in Pending ~> i \in Ids \ Pending
=============================================================================
