------------------------- MODULE FullyAsyncTrainer -------------------------
(***************************************************************************)
(* FullyAsyncRayPPOTrainer: K generation workers fill a buffer that one    *)
(* training loop drains, a mini-batch at a time, epoch after epoch, under  *)
(* the admission control of AsyncStalenessManager, with checkpoints,       *)
(* process exits and restarts that resume from the latest checkpoint.      *)
(*                                                                         *)
(* The workers and the loop are coroutines of one asyncio thread: they     *)
(* interleave only at awaits, and an action below is the code between two  *)
(* awaits at which another coroutine can change what the code reads.       *)
(* Saving runs in a thread of its own while the workers go on.             *)
(***************************************************************************)
EXTENDS AsyncStalenessManager, AsyncDataloader, CheckpointStore, Sequences

VARIABLES
  pc,                (* where the training loop is                         *)
  afterSave,         (* where it goes once the checkpoint is written       *)
  globalStep,        (* self.global_step                                   *)
  epoch,             (* self.epoch                                         *)
  trainedSteps,      (* trained_steps_this_epoch                           *)
  buffer,            (* generation_output_group_buffer                     *)
  batch,             (* kept_groups of _collect_generation_mini_batch      *)
  worker,            (* worker |-> where its coroutine is                  *)
  job,               (* worker |-> the group it works on, or None          *)
  model,             (* the policy: steps trained, and what it has seen    *)
  sampler,           (* steps of the weights the inference engines hold    *)
  failure,           (* the error that ended the process, or "none"        *)
  restarts           (* relaunches so far                                  *)

trainerVars == <<pc, afterSave, globalStep, epoch, trainedSteps, batch>>
weightVars == <<model, sampler>>
processVars == <<failure, restarts>>
vars == <<managerVars, dataloaderVars, storeVars, trainerVars, buffer,
          worker, job, weightVars, processVars>>

BufferSize == MiniBatchSize * (MaxStalenessSteps + 1)

(* A GeneratedOutputGroup: its prompt, global_step_when_scheduled, and the *)
(* weights the engines held when its generation started.                   *)
Group == [uid : Uids, step : Nat, weights : Nat]

UidsOf(groups) == {groups[i].uid : i \in DOMAIN groups}

(* The uid assertion of mark_consumed_uids and mark_filtered_uids.         *)
Markable(groups) ==
  /\ UidsOf(groups) \cap consumedUids = {}
  /\ \A i, j \in DOMAIN groups : groups[i].uid = groups[j].uid => i = j

Generating == {w \in Workers : worker[w] = "generating"}

FreshModel == [steps |-> 0, seen |-> {}]

Train(m, e, uids) ==
  [steps |-> m.steps + 1, seen |-> m.seen \cup {<<e, u>> : u \in uids}]

(* Save a checkpoint, when saving is on, before going on at target.        *)
SaveThen(target) ==
  /\ pc' = IF CkptInterval > 0 THEN "save weights" ELSE target
  /\ afterSave' = target

(* Broken variant: the bound of the range loses its + 1.                   *)
NextIterationShort(step) ==
  IF step < (1 + epoch) * NumStepsPerEpoch THEN "collect" ELSE "epilogue"

(* The loop's range(global_step, (1 + epoch) * num_steps_per_epoch + 1).   *)
NextIteration(step) ==
  IF step <= (1 + epoch) * NumStepsPerEpoch THEN "collect" ELSE "epilogue"

(* The process dies: what it held in memory is gone.                       *)
LoseMemory ==
  /\ LoadManagerState(1)
  /\ LoadDataloaderState({}, {})
  /\ afterSave' = "none"
  /\ globalStep' = 0
  /\ epoch' = 0
  /\ trainedSteps' = 0
  /\ batch' = << >>
  /\ buffer' = << >>
  /\ worker' = [w \in Workers |-> "stopped"]
  /\ job' = [w \in Workers |-> None]
  /\ model' = FreshModel
  /\ sampler' = 0

(* An assertion or an exception ends the process.                          *)
Fail(reason) ==
  /\ LoseMemory
  /\ pc' = "failed"
  /\ failure' = reason
  /\ UNCHANGED <<storeVars, restarts>>

Init ==
  /\ StoreInit
  /\ submitted = 0 /\ accepted = 0 /\ running = 0 /\ filtered = 0
  /\ managerStep = 1
  /\ cursor = 0 /\ consumedUids = {} /\ filteredUids = {}
  /\ pc = "down" /\ afterSave = "none"
  /\ globalStep = 0 /\ epoch = 0 /\ trainedSteps = 0
  /\ batch = << >> /\ buffer = << >>
  /\ worker = [w \in Workers |-> "stopped"]
  /\ job = [w \in Workers |-> None]
  /\ model = FreshModel /\ sampler = 0
  /\ failure = "none" /\ restarts = 0

----------------------------------------------------------------------------
(* Generation workers: _run_generate_for_a_group_loop.                     *)

(* Pull the next prompt, or return when the epoch has none left.           *)
PullPrompt(w) ==
  /\ worker[w] = "pulling"
  /\ \/ \E u \in Undrawn :
          /\ DrawPrompt(u)
          /\ worker' = [worker EXCEPT ![w] = "waiting"]
          /\ job' = [job EXCEPT ![w] = [uid |-> u, step |-> 0, weights |-> 0]]
     \/ /\ DrawNothing
        /\ worker' = [worker EXCEPT ![w] = "finished"]
        /\ job' = [job EXCEPT ![w] = None]
  /\ UNCHANGED <<managerVars, storeVars, trainerVars, buffer, weightVars,
                 processVars>>

(* Acquire a slot and, with no await in between, read global_step and      *)
(* start generate().                                                       *)
StartGeneration(w) ==
  /\ worker[w] = "waiting"
  /\ AcquireSubmissionSlot
  /\ worker' = [worker EXCEPT ![w] = "generating"]
  /\ job' = [job EXCEPT ![w].step = globalStep, ![w].weights = sampler]
  /\ UNCHANGED <<dataloaderVars, storeVars, trainerVars, buffer, weightVars,
                 processVars>>

(* Broken variant: the group is stamped when it finishes.                  *)
EnqueueGroupStamped(w) ==
  /\ worker[w] = "generating"
  /\ Len(buffer) < BufferSize
  /\ buffer' = Append(buffer, [job[w] EXCEPT !.step = globalStep])
  /\ OnRolloutAccepted
  /\ worker' = [worker EXCEPT ![w] = "pulling"]
  /\ job' = [job EXCEPT ![w] = None]
  /\ UNCHANGED <<dataloaderVars, storeVars, trainerVars, weightVars,
                 processVars>>

(* put_nowait and on_rollout_accepted.  Whoever could see the group in the *)
(* buffer before it is accepted queues behind it on the manager's FIFO     *)
(* lock, so the two are one step.  QueueFull is turned into os._exit(1).   *)
EnqueueGroup(w) ==
  /\ worker[w] = "generating"
  /\ IF Len(buffer) < BufferSize
     THEN /\ buffer' = Append(buffer, job[w])
          /\ OnRolloutAccepted
          /\ worker' = [worker EXCEPT ![w] = "pulling"]
          /\ job' = [job EXCEPT ![w] = None]
          /\ UNCHANGED <<dataloaderVars, storeVars, trainerVars, weightVars,
                         processVars>>
     ELSE Fail("buffer full")

WorkerNext(w) ==
  \/ PullPrompt(w)
  \/ StartGeneration(w)
  \/ EnqueueGroup(w)

----------------------------------------------------------------------------
(* The training loop: train().                                             *)

(* Broken variant: the tracker is not looked at.                           *)
StartFreshAlways ==
  /\ pc = "down"
  /\ LoadManagerState(1)
  /\ LoadDataloaderState({}, {})
  /\ globalStep' = 1
  /\ epoch' = 0
  /\ pc' = "epoch"
  /\ UNCHANGED <<storeVars, afterSave, trainedSteps, batch, buffer, worker,
                 job, weightVars, processVars>>

(* A launch with no latest_ckpt_global_step.txt: from scratch.             *)
StartFresh ==
  /\ pc = "down"
  /\ latest = 0
  /\ LoadManagerState(1)
  /\ LoadDataloaderState({}, {})
  /\ globalStep' = 1
  /\ epoch' = 0
  /\ pc' = "epoch"
  /\ UNCHANGED <<storeVars, afterSave, trainedSteps, batch, buffer, worker,
                 job, weightVars, processVars>>

(* The trained prompts of a checkpoint make a whole number of steps.       *)
WholeSteps(state) ==
  (Cardinality(state.consumed) - Cardinality(state.filtered))
     % MiniBatchSize = 0

(* load_checkpoints, the state it restores, and the first weight sync.     *)
Resume ==
  /\ pc = "down"
  /\ latest # 0
  /\ IF Loadable /\ WholeSteps(folders[latest].state)
     THEN LET ckpt == folders[latest] IN
          /\ LoadManagerState(latest + 1)
          /\ LoadDataloaderState(ckpt.state.consumed, ckpt.state.filtered)
          /\ globalStep' = latest + 1
          /\ epoch' = ckpt.state.epoch
          /\ model' = ckpt.model
          /\ sampler' = ckpt.model.steps
          /\ pc' = "epoch"
          /\ UNCHANGED <<storeVars, afterSave, trainedSteps, batch, buffer,
                         worker, job, processVars>>
     ELSE Fail("checkpoint incomplete")

(* The per-epoch prologue, or the end of the last epoch.                   *)
StartEpoch ==
  /\ pc = "epoch"
  /\ IF epoch < Epochs
     THEN /\ worker' = [w \in Workers |-> "pulling"]
          /\ trainedSteps' = NumTrained \div MiniBatchSize
          /\ pc' = NextIteration(globalStep)
          /\ UNCHANGED <<epoch, afterSave>>
     ELSE /\ epoch' = Epochs
          /\ SaveThen("done")
          /\ UNCHANGED <<worker, trainedSteps>>
  /\ UNCHANGED <<managerVars, dataloaderVars, storeVars, globalStep, batch,
                 buffer, job, weightVars, processVars>>

(* One turn of _collect_generation_mini_batch that keeps the group.        *)
KeepGroup ==
  /\ pc = "collect"
  /\ Len(batch) < MiniBatchSize
  /\ buffer # << >>
  /\ batch' = Append(batch, Head(buffer))
  /\ buffer' = Tail(buffer)
  /\ UNCHANGED <<managerVars, dataloaderVars, storeVars, pc, afterSave,
                 globalStep, epoch, trainedSteps, worker, job, weightVars,
                 processVars>>

(* One that drops it: a zero-variance group under sample_full_batch.       *)
DropGroup ==
  /\ pc = "collect"
  /\ SampleFullBatch
  /\ Len(batch) < MiniBatchSize
  /\ buffer # << >>
  /\ IF Markable(<<Head(buffer)>>)
     THEN /\ buffer' = Tail(buffer)
          /\ OnRolloutFiltered(1)
          /\ MarkFiltered({Head(buffer).uid})
          /\ UNCHANGED <<storeVars, trainerVars, worker, job, weightVars,
                         processVars>>
     ELSE Fail("duplicate uid")

(* Broken variant: an exhausted epoch goes on as after a training step.     *)
ExhaustEpochAdvances ==
  /\ pc = "collect"
  /\ SampleFullBatch
  /\ Len(batch) < MiniBatchSize
  /\ buffer = << >>
  /\ \A w \in Workers : worker[w] = "finished"
  /\ IF Markable(batch)
     THEN /\ OnRolloutFiltered(Len(batch))
          /\ MarkFiltered(UidsOf(batch))
          /\ batch' = << >>
          /\ SaveThen("advance")
          /\ UNCHANGED <<storeVars, globalStep, epoch, trainedSteps, buffer,
                         worker, job, weightVars, processVars>>
     ELSE Fail("duplicate uid")

(* epoch_exhausted: all generators are done and the buffer is empty.  The  *)
(* partial batch is discarded and the epoch's checkpoint saved.            *)
ExhaustEpoch ==
  /\ pc = "collect"
  /\ SampleFullBatch
  /\ Len(batch) < MiniBatchSize
  /\ buffer = << >>
  /\ \A w \in Workers : worker[w] = "finished"
  /\ IF Markable(batch)
     THEN /\ OnRolloutFiltered(Len(batch))
          /\ MarkFiltered(UidsOf(batch))
          /\ batch' = << >>
          /\ SaveThen("epilogue")
          /\ UNCHANGED <<storeVars, globalStep, epoch, trainedSteps, buffer,
                         worker, job, weightVars, processVars>>
     ELSE Fail("duplicate uid")

(* _run_training on a full mini-batch, then mark_consumed_uids.            *)
RunTraining ==
  /\ pc = "collect"
  /\ Len(batch) = MiniBatchSize
  /\ IF Markable(batch)
     THEN /\ model' = Train(model, epoch, UidsOf(batch))
          /\ MarkConsumed(UidsOf(batch))
          /\ batch' = << >>
          /\ pc' = "sync"
          /\ UNCHANGED <<managerVars, storeVars, afterSave, globalStep, epoch,
                         trainedSteps, buffer, worker, job, sampler,
                         processVars>>
     ELSE Fail("duplicate uid")

(* dispatch.save_weights_for_sampler, and the decision to checkpoint.      *)
SyncWeights ==
  /\ pc = "sync"
  /\ sampler' = model.steps
  /\ trainedSteps' = trainedSteps + 1
  /\ pc' = IF /\ CkptInterval > 0
              /\ \/ trainedSteps + 1 = NumStepsPerEpoch
                 \/ globalStep % CkptInterval = 0
           THEN "save weights" ELSE "advance"
  /\ afterSave' = "advance"
  /\ UNCHANGED <<managerVars, dataloaderVars, storeVars, globalStep, epoch,
                 batch, buffer, worker, job, model, processVars>>

(* The check after global_step += 1, under the limit of this launch.       *)
ReachedMaxSteps ==
  /\ MaxTrainingSteps[restarts] # 0
  /\ globalStep + 1 > MaxTrainingSteps[restarts]

(* The tail of an iteration: the next step, its capacity and the check of  *)
(* the trained count.                                                      *)
AdvanceStep ==
  /\ pc = "advance"
  /\ ~ReachedMaxSteps
  /\ IF NumTrained = MiniBatchSize * trainedSteps
     THEN /\ globalStep' = globalStep + 1
          /\ NotifyCapacityChange(globalStep + 1)
          /\ pc' = NextIteration(globalStep + 1)
          /\ UNCHANGED <<dataloaderVars, storeVars, afterSave, epoch,
                         trainedSteps, batch, buffer, worker, job, weightVars,
                         processVars>>
     ELSE Fail("trained count")

(* max_training_steps is reached: the workers are cancelled, each giving   *)
(* its slot back, and the final checkpoint is saved.                       *)
StopAtMaxSteps ==
  /\ pc = "advance"
  /\ ReachedMaxSteps
  /\ globalStep' = globalStep + 1
  /\ OnRolloutRejected(Cardinality(Generating))
  /\ worker' = [w \in Workers |-> "stopped"]
  /\ job' = [w \in Workers |-> None]
  /\ SaveThen("done")
  /\ UNCHANGED <<dataloaderVars, storeVars, epoch, trainedSteps, batch,
                 buffer, weightVars, processVars>>

(* Broken variant: the loader is not rewound for the next epoch.           *)
EndEpochUnrewound ==
  /\ pc = "epilogue"
  /\ OnRolloutRejected(Cardinality(Generating))
  /\ worker' = [w \in Workers |-> "stopped"]
  /\ job' = [w \in Workers |-> None]
  /\ epoch' = epoch + 1
  /\ pc' = "epoch"
  /\ UNCHANGED <<dataloaderVars, storeVars, afterSave, globalStep,
                 trainedSteps, batch, buffer, weightVars, processVars>>

(* The per-epoch epilogue: cancel the workers, check that nothing is left, *)
(* rewind the loader, validate the manager.                                *)
EndEpoch ==
  /\ pc = "epilogue"
  /\ IF /\ buffer = << >>
        /\ ValidEpochEnd(globalStep, Cardinality(Generating))
     THEN /\ OnRolloutRejected(Cardinality(Generating))
          /\ LoadDataloaderState({}, {})
          /\ worker' = [w \in Workers |-> "stopped"]
          /\ job' = [w \in Workers |-> None]
          /\ epoch' = epoch + 1
          /\ pc' = "epoch"
          /\ UNCHANGED <<storeVars, afterSave, globalStep, trainedSteps, batch,
                         buffer, weightVars, processVars>>
     ELSE Fail("epoch leftovers")

----------------------------------------------------------------------------
(* save_checkpoints, in a thread: one action per file it writes.           *)

SaveWeights ==
  /\ pc = "save weights"
  /\ WriteModel(globalStep, model)
  /\ pc' = "save tracker"
  /\ UNCHANGED <<managerVars, dataloaderVars, afterSave, globalStep, epoch,
                 trainedSteps, batch, buffer, worker, job, weightVars,
                 processVars>>

SaveTracker ==
  /\ pc = "save tracker"
  /\ WriteLatest(globalStep)
  /\ pc' = "cleanup"
  /\ UNCHANGED <<managerVars, dataloaderVars, afterSave, globalStep, epoch,
                 trainedSteps, batch, buffer, worker, job, weightVars,
                 processVars>>

Cleanup ==
  /\ pc = "cleanup"
  /\ CleanupOldCheckpoints
  /\ pc' = "save state"
  /\ UNCHANGED <<managerVars, dataloaderVars, afterSave, globalStep, epoch,
                 trainedSteps, batch, buffer, worker, job, weightVars,
                 processVars>>

(* fully_async_state.pt, in the folder the base class returned.            *)
SaveFullyAsyncState ==
  /\ pc = "save state"
  /\ IF globalStep \in DOMAIN folders
     THEN /\ WriteFullyAsyncState(globalStep,
               [consumed |-> consumedUids, filtered |-> filteredUids,
                epoch |-> epoch])
          /\ pc' = afterSave
          /\ UNCHANGED <<managerVars, dataloaderVars, afterSave, globalStep,
                         epoch, trainedSteps, batch, buffer, worker, job,
                         weightVars, processVars>>
     ELSE Fail("checkpoint folder removed")

----------------------------------------------------------------------------
(* The process.                                                            *)

(* It is killed, or a worker's generate() raised and called os._exit(1).   *)
Crash ==
  /\ pc \notin {"down", "done", "failed"}
  /\ restarts < MaxRestarts
  /\ restarts' = restarts + 1
  /\ LoseMemory
  /\ pc' = "down"
  /\ UNCHANGED <<storeVars, failure>>

(* A finished job is launched again, perhaps with a higher step limit.     *)
Relaunch ==
  /\ pc = "done"
  /\ restarts < MaxRestarts
  /\ restarts' = restarts + 1
  /\ LoseMemory
  /\ pc' = "down"
  /\ UNCHANGED <<storeVars, failure>>

(* The process has ended for good.                                         *)
Terminated ==
  /\ pc = "failed" \/ (pc = "done" /\ restarts = MaxRestarts)
  /\ UNCHANGED vars

TrainerNext ==
  \/ StartFresh \/ Resume \/ StartEpoch
  \/ KeepGroup \/ DropGroup \/ ExhaustEpoch \/ RunTraining
  \/ SyncWeights \/ AdvanceStep \/ StopAtMaxSteps \/ EndEpoch
  \/ SaveWeights \/ SaveTracker \/ Cleanup \/ SaveFullyAsyncState

Next ==
  \/ \E w \in Workers : WorkerNext(w)
  \/ TrainerNext
  \/ Crash
  \/ Relaunch
  \/ Terminated

Spec == Init /\ [][Next]_vars

(* A coroutine that can run is run; every generate() returns.              *)
Fairness ==
  /\ WF_vars(TrainerNext)
  /\ \A w \in Workers : WF_vars(WorkerNext(w))

FairSpec == Spec /\ Fairness

----------------------------------------------------------------------------
(* Properties.                                                             *)

Saving == {"save weights", "save tracker", "cleanup", "save state"}

Locations ==
  {"down", "failed", "done", "epoch", "collect", "sync", "advance",
   "epilogue"} \cup Saving

FullyAsyncState ==
  {s \in [consumed : SUBSET Uids, filtered : SUBSET Uids, epoch : Nat] :
     s.filtered \subseteq s.consumed}

Model == [steps : Nat, seen : SUBSET (Nat \X Uids)]

Folder == [model : Model, state : FullyAsyncState \cup {None}]

StoreTypeOK ==
  /\ DOMAIN folders \subseteq Nat
  /\ folders \in [DOMAIN folders -> Folder]
  /\ latest \in Nat

LoopTypeOK ==
  /\ pc \in Locations
  /\ afterSave \in {"none", "advance", "epilogue", "done"}
  /\ globalStep \in Nat
  /\ epoch \in Nat
  /\ trainedSteps \in Nat
  /\ restarts \in 0..MaxRestarts

GroupTypeOK ==
  /\ buffer \in Seq(Group)
  /\ batch \in Seq(Group)
  /\ worker \in [Workers -> {"stopped", "pulling", "waiting", "generating",
                             "finished"}]
  /\ job \in [Workers -> Group \cup {None}]

WeightTypeOK ==
  /\ model \in Model
  /\ sampler \in Nat

(* Type invariant of the whole trainer; the manager's counters are never   *)
(* driven below zero by a cancellation or a completion counted twice.      *)
TypeOK ==
  /\ ManagerTypeOK
  /\ DataloaderTypeOK
  /\ StoreTypeOK
  /\ LoopTypeOK
  /\ GroupTypeOK
  /\ WeightTypeOK

(* The groups trained on since the manager last heard of a step.           *)
Unannounced ==
  IF \/ pc \in {"sync", "advance"}
     \/ pc \in Saving /\ afterSave = "advance"
     \/ globalStep > managerStep
  THEN MiniBatchSize ELSE 0

(* Everything ahead of training, generated or being generated, fits in the *)
(* buffer: put_nowait never finds it full ("Generation buffer should never *)
(* be full given staleness control").                                      *)
InFlightBound ==
  Len(buffer) + Len(batch) + Unannounced + Cardinality(Generating)
    <= BufferSize

(* Admission control: "accepted + running <= capacity" at every step, on   *)
(* the counters of the manager alone.                                      *)
CapacityRespected == accepted + running <= ConsumerCapacity

(* The counters of the manager count what they are documented to count:    *)
(* the groups being generated, and those trained on or about to be.        *)
StatMatchesGroups ==
  /\ running = Cardinality(Generating)
  /\ accepted = ConsumedBefore(managerStep) + Len(buffer) + Len(batch)
                + Unannounced

(* The manager and the loop agree on the step being worked on, except      *)
(* after the last step of a limited run, which is not announced.           *)
StepsAgree ==
  IF pc \in {"down", "failed"} THEN globalStep = 0 /\ managerStep = 1
  ELSE \/ globalStep = managerStep
       \/ /\ globalStep = managerStep + 1
          /\ pc \in Saving \cup {"done"}
          /\ afterSave = "done"

(* Between epochs, and when the process is not training.                   *)
OutsideEpoch ==
  \/ pc \in {"down", "failed", "done", "epoch"}
  \/ pc \in Saving /\ afterSave \notin {"advance", "epilogue"}

(* Workers exist during an epoch only, and one that waits or generates     *)
(* holds a group.                                                          *)
WorkersInEpoch ==
  /\ OutsideEpoch => \A w \in Workers : worker[w] = "stopped"
  /\ \A w \in Workers :
       worker[w] \in {"waiting", "generating"} => job[w] \in Group

(* A process that is not running holds nothing in memory.                  *)
NothingInMemory ==
  pc \in {"down", "failed"} => accepted = 0 /\ buffer = << >> /\ batch = << >>

(* Every save has somewhere to go on at.                                   *)
SaveReturns == pc \in Saving => afterSave # "none"

(* The inductive invariant behind InFlightBound and BufferNeverFull.       *)
AdmissionInv ==
  /\ TypeOK
  /\ StatMatchesGroups
  /\ CapacityRespected
  /\ StepsAgree
  /\ WorkersInEpoch
  /\ NothingInMemory
  /\ SaveReturns

(* No worker ever finds the generation buffer full when it puts a group:   *)
(* "Generation buffer should never be full given staleness control."       *)
BufferNeverFull == failure # "buffer full"

(* No assertion of the loop and the workers fails: the buffer is never     *)
(* full, no uid is marked twice, the trained count is right, and each epoch*)
(* ends with an empty buffer, no running group and balanced counters.      *)
(* Whether load_checkpoints finds its files is for LatestIsLoadable.       *)
NoAssertionFails ==
  failure \notin {"buffer full", "duplicate uid", "trained count",
                 "epoch leftovers"}

(* A prompt is in one place at a time: with one worker, in the buffer, in  *)
(* the batch being collected, or consumed.                                 *)
EachPromptOnce ==
  LET held == {w \in Workers : job[w] # None} IN
  /\ \A v, w \in held : job[v].uid = job[w].uid => v = w
  /\ Markable(buffer \o batch)
  /\ \A w \in held : job[w].uid \notin UidsOf(buffer \o batch) \cup consumedUids

(* The weights have been trained once on each prompt the dataloader's      *)
(* books call trained in this epoch, and on each one at most once per      *)
(* epoch: "to avoid training on the same data upon resuming".              *)
TrainedOnce ==
  pc \notin {"down", "failed"} =>
    /\ Cardinality(model.seen) = model.steps * MiniBatchSize
    /\ {x \in model.seen : x[1] = epoch}
         = {epoch} \X (consumedUids \ filteredUids)

(* Without filtering an epoch leaves no prompt of the effective dataset    *)
(* out, whatever was lost to restarts in between.                          *)
EpochsCovered ==
  pc \notin {"down", "failed"} =>
    (0..(epoch - 1)) \X Uids \subseteq model.seen

(* global_step - 1 is the number of steps the model has finished training. *)
StepCountsTraining == pc = "collect" => model.steps = globalStep - 1

(* max_staleness_steps = 0 is synchronous training: every group on its way *)
(* to the trainer was generated by the very weights it will update.        *)
SynchronousWhenZero ==
  MaxStalenessSteps = 0 =>
    /\ \A g \in {(buffer \o batch)[i] : i \in 1..(Len(buffer) + Len(batch))} :
         pc = "collect" => g.weights = model.steps
    /\ \A w \in Generating : job[w].weights = model.steps

(* The staleness reported for a group is never below the number of weight  *)
(* updates it really missed.                                               *)
StalenessNotUnderstated ==
  pc = "collect" =>
    \A i \in DOMAIN batch :
      globalStep - batch[i].step >= model.steps - batch[i].weights

(* The _RolloutStat docstring: submitted == accepted + filtered + running  *)
(* always holds.                                                           *)
SubmittedBalanced == submitted = accepted + filtered + running

(* The tracker is "written last after all saves succeed": the checkpoint   *)
(* it names can be resumed from.                                           *)
LatestIsLoadable == latest # 0 => Loadable

(* A restart never loses a checkpoint the tracker named: it only grows.    *)
LatestOnlyGrows == [][latest' > latest]_latest

(* The abstract run: alive between loading and the end of the process, and *)
(* able to go on from each folder that holds a complete checkpoint.        *)
Alive == pc \notin {"down", "failed"}

Snapshots ==
  {[epoch |-> folders[s].state.epoch, seen |-> folders[s].model.seen,
    dropped |-> folders[s].state.filtered] :
     s \in {t \in DOMAIN folders : folders[t].state # None}}

Training == INSTANCE EpochTraining WITH
  Prompts <- Uids, BatchSize <- MiniBatchSize, alive <- Alive,
  epoch <- epoch, seen <- model.seen, dropped <- filteredUids,
  saved <- Snapshots

(* The trainer, its buffer and its restarts do what EpochTraining promises *)
(* about data.                                                             *)
ImplementsEpochTraining == Training!Spec

(* Training finishes: no drop, cancellation or early end of an epoch       *)
(* leaves the loop waiting for a group that no worker will produce.        *)
TrainingFinishes == <>(pc = "done")
=============================================================================
