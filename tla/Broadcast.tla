----------------------------- MODULE Broadcast -----------------------------
(***************************************************************************)
(* The commands of a multi-process JAX backend: process 0 serves the       *)
(* Tinker engine and broadcasts each backend call to the other processes,  *)
(* every process executes it, and an acknowledgement through the           *)
(* coordination service ends it before the next.                           *)
(*                                                                         *)
(* The broadcast is a collective: one step, taken when every process is in *)
(* it.  The keys and the barrier of the acknowledgement belong to the      *)
(* coordination service of JAX, of which a barrier that has failed stays   *)
(* failed.  Of a backend call the model keeps which adapter slots the      *)
(* process uses and whether it raised; a call is assumed to return.        *)
(***************************************************************************)
EXTENDS Integers, FiniteSets

CONSTANTS
  Workers,      (* the processes other than the coordinator                *)
  Active,       (* the processes with a backend (active_worker_ids)        *)
  Models,
  MaxAdapters,  (* the adapter slots, without that of the base model       *)
  MaxCommands,  (* model bound: commands broadcast                         *)
  MaxFaults,    (* model bound: exceptions, and barriers timed out         *)
  None

Coordinator == 0

Processes == {Coordinator} \cup Workers

ASSUME BroadcastAssumption ==
  /\ Coordinator \notin Workers /\ IsFiniteSet(Workers)
  /\ Active \subseteq Processes
  /\ MaxAdapters \in Nat /\ MaxCommands \in Nat /\ MaxFaults \in Nat

VARIABLES
  at,           (* what each process does                                  *)
  command,      (* the command broadcast last                              *)
  sent,         (* how many have been                                      *)
  slots,        (* the adapter slot of each model at each process, or 0    *)
  outcome,      (* how the call went at each process                       *)
  sequence,     (* of each process: _RPC_ACK_SEQUENCE                      *)
  acks,         (* the acknowledgements under the keys of each sequence    *)
  arrived,      (* who has reached the barrier of each sequence number     *)
  barrier,      (* and how it ended                                        *)
  answer,       (* what the engine was told of the last command            *)
  faults

ackVars == <<acks, arrived, barrier, sequence>>
vars == <<at, command, sent, slots, outcome, ackVars, answer, faults>>

Sequences == 0..(MaxCommands - 1)

Methods == {"create_model", "forward_backward"}

Commands == [method : Methods, model : Models]

Init ==
  /\ at = [p \in Processes |-> "listening"]
  /\ command = None /\ sent = 0
  /\ slots = [p \in Processes |-> [m \in Models |-> 0]]
  /\ outcome = [p \in Processes |-> "none"]
  /\ sequence = [p \in Processes |-> 0]
  /\ acks = [s \in Sequences |-> [p \in Processes |-> "none"]]
  /\ arrived = [s \in Sequences |-> {}]
  /\ barrier = [s \in Sequences |-> "open"]
  /\ answer = "none" /\ faults = 0

----------------------------------------------------------------------------
(* The backend at one process.                                             *)

Used(p) == {slots[p][m] : m \in Models}

FreeSlots(p) == (1..MaxAdapters) \ Used(p)

FirstFree(p) == CHOOSE s \in FreeSlots(p) : \A t \in FreeSlots(p) : s <= t

(* create_model allocates on every process for itself.                     *)
Allocated(p, m) == [slots EXCEPT ![p][m] = FirstFree(p)]

(* A model that is there is not created again: the ids are fresh.          *)
MayBroadcast(c) ==
  IF c.method = "create_model"
  THEN \A p \in Processes : slots[p][c.model] = 0
  ELSE slots[Coordinator][c.model] # 0

Executable(p) ==
  IF command.method = "create_model" THEN FreeSlots(p) # {}
                                     ELSE slots[p][command.model] # 0

----------------------------------------------------------------------------
(* _broadcast_and_call, once every worker is back in its command loop.     *)
BroadcastCommand(c) ==
  /\ \A p \in Processes : at[p] = "listening"
  /\ sent < MaxCommands /\ MayBroadcast(c)
  /\ command' = c /\ sent' = sent + 1
  /\ at' = [p \in Processes |-> "calling"]
  /\ outcome' = [p \in Processes |-> "none"]
  /\ answer' = "none"
  /\ UNCHANGED <<slots, ackVars, faults>>

(* synchronize_rpc_result up to the barrier.                               *)
Acknowledges(p, ack) ==
  LET s == sequence[p]
  IN /\ sequence' = [sequence EXCEPT ![p] = s + 1]
     /\ acks' = [acks EXCEPT ![s][p] = ack]
     /\ arrived' = [arrived EXCEPT ![s] = @ \cup {p}]
     /\ UNCHANGED barrier

(* Broken variant: a process without a backend ignores the command.        *)
NoAcknowledgement(p) ==
  /\ at' = [at EXCEPT ![p] = "listening"]
  /\ UNCHANGED ackVars

InactiveAcknowledges(p) ==
  /\ at' = [at EXCEPT ![p] = "waiting"]
  /\ Acknowledges(p, "ok")

IgnoreCommand(p) ==
  /\ at[p] = "calling" /\ p \in Workers \ Active
  /\ InactiveAcknowledges(p)
  /\ UNCHANGED <<command, sent, slots, outcome, answer, faults>>

(* The method returns.                                                     *)
Succeed(p) ==
  /\ at[p] = "calling" /\ p \in Active /\ Executable(p)
  /\ slots' = IF command.method = "create_model" THEN Allocated(p, command.model)
                                                 ELSE slots
  /\ outcome' = [outcome EXCEPT ![p] = "ok"]
  /\ at' = [at EXCEPT ![p] = "waiting"]
  /\ Acknowledges(p, "ok")
  /\ UNCHANGED <<command, sent, answer, faults>>

(* The method raises what it raises in this state at every process, or the *)
(* coordinator has no backend.                                             *)
Raise(p) ==
  /\ at[p] = "calling"
  /\ IF p \in Active THEN ~ Executable(p) ELSE p = Coordinator
  /\ outcome' = [outcome EXCEPT ![p] = "failed"]
  /\ at' = [at EXCEPT ![p] = "waiting"]
  /\ Acknowledges(p, "error")
  /\ UNCHANGED <<command, sent, slots, answer, faults>>

Fault == faults < MaxFaults /\ faults' = faults + 1

(* It raises at this process only, where the model of create_model may be  *)
(* in place already.                                                       *)
RaiseHere(p) ==
  /\ at[p] = "calling" /\ p \in Active /\ Fault
  /\ \/ UNCHANGED slots
     \/ /\ command.method = "create_model" /\ Executable(p)
        /\ slots' = Allocated(p, command.model)
  /\ outcome' = [outcome EXCEPT ![p] = "failed"]
  /\ at' = [at EXCEPT ![p] = "waiting"]
  /\ Acknowledges(p, "error")
  /\ UNCHANGED <<command, sent, answer>>

(* The worker cannot rebuild the arguments; its acknowledgement of that is *)
(* not protected.                                                          *)
PreparationFails(p) ==
  /\ at[p] = "calling" /\ p \in Active \cap Workers /\ Fault
  /\ outcome' = [outcome EXCEPT ![p] = "unprepared"]
  /\ at' = [at EXCEPT ![p] = "waiting"]
  /\ Acknowledges(p, "error")
  /\ UNCHANGED <<command, sent, slots, answer>>

----------------------------------------------------------------------------
Last(p) == sequence[p] - 1

BarrierPasses(s) ==
  /\ barrier[s] = "open" /\ arrived[s] = Processes
  /\ barrier' = [barrier EXCEPT ![s] = "passed"]
  /\ UNCHANGED <<at, command, sent, slots, outcome, acks, arrived, sequence,
                 answer, faults>>

(* _RPC_ACK_TIMEOUT_MS passes while a process is still executing.          *)
BarrierTimesOut(s) ==
  /\ barrier[s] = "open" /\ arrived[s] # {} /\ arrived[s] # Processes /\ Fault
  /\ barrier' = [barrier EXCEPT ![s] = "failed"]
  /\ UNCHANGED <<at, command, sent, slots, outcome, acks, arrived, sequence,
                 answer>>

(* Whatever its call and the barrier gave, a worker that was executing the *)
(* command goes back to its loop.  The other two calls of                  *)
(* synchronize_rpc_result are outside a try: the exception ends the worker.*)
Leaves(p) ==
  /\ barrier[Last(p)] = "failed"
  /\ p \notin Active \/ outcome[p] = "unprepared"

WorkerContinues(p) ==
  /\ p \in Workers /\ at[p] = "waiting" /\ barrier[Last(p)] # "open"
  /\ at' = [at EXCEPT ![p] = IF Leaves(p) THEN "exited" ELSE "listening"]
  /\ UNCHANGED <<command, sent, slots, outcome, ackVars, answer, faults>>

(* Broken variant: process 0 trusts its own call.                          *)
OwnResult ==
  barrier[Last(Coordinator)] = "passed" /\ outcome[Coordinator] = "ok"

AllAcknowledged ==
  /\ barrier[Last(Coordinator)] = "passed"
  /\ \A p \in Processes : acks[Last(Coordinator)][p] # "error"

(* call_with_rpc_ack at process 0: it reads every acknowledgement and      *)
(* raises its own exception, that of the barrier or the peers' errors.     *)
AnswerEngine ==
  /\ at[Coordinator] = "waiting" /\ barrier[Last(Coordinator)] # "open"
  /\ answer' = IF AllAcknowledged THEN "ok" ELSE "failed"
  /\ at' = [at EXCEPT ![Coordinator] = "listening"]
  /\ UNCHANGED <<command, sent, slots, outcome, ackVars, faults>>

(* delete_model is not broadcast.                                          *)
DeleteModel(m) ==
  /\ at[Coordinator] = "listening" /\ slots[Coordinator][m] # 0
  /\ Coordinator \in Active
  /\ slots' = [slots EXCEPT ![Coordinator][m] = 0]
  /\ UNCHANGED <<at, command, sent, outcome, ackVars, answer, faults>>

Next ==
  \/ \E c \in Commands : BroadcastCommand(c)
  \/ \E p \in Processes : \/ IgnoreCommand(p) \/ Succeed(p) \/ Raise(p)
                          \/ RaiseHere(p) \/ PreparationFails(p)
                          \/ WorkerContinues(p)
  \/ \E s \in Sequences : BarrierPasses(s) \/ BarrierTimesOut(s)
  \/ AnswerEngine
  \/ \E m \in Models : DeleteModel(m)

Spec == Init /\ [][Next]_vars

(* Calls return, and the coordination service works.                       *)
Fairness ==
  /\ \A p \in Processes :
       /\ WF_vars(IgnoreCommand(p)) /\ WF_vars(Succeed(p)) /\ WF_vars(Raise(p))
       /\ WF_vars(WorkerContinues(p))
  /\ \A s \in Sequences : WF_vars(BarrierPasses(s))
  /\ WF_vars(AnswerEngine)

FairSpec == Spec /\ Fairness

----------------------------------------------------------------------------
(* The engine is told that a command succeeded only when it did so at every*)
(* process with a backend, whichever acknowledgements are late.            *)
SuccessIsEverywhere ==
  answer = "ok" => \A p \in Active : outcome[p] = "ok"

(* Every command ends: the engine gets an answer and, unless the barrier   *)
(* ended a worker, all processes are ready for the next one.               *)
CommandsEnd ==
  at[Coordinator] = "calling" ~>
    /\ answer # "none"
    /\ \A p \in Processes : at[p] \in {"listening", "exited"}

(* "A worker must not silently exit after process 0 has broadcast a        *)
(* command: the next model collective would otherwise hang forever"        *)
(* (rpc.py:97).                                                           *)
WorkersStay == \A p \in Workers : at[p] # "exited"

(* "keeps every process on the same method call in the same order"         *)
(* (rpc.py:6): a model has one adapter slot, in every process.             *)
SameSlot ==
  answer = "ok" /\ slots[Coordinator][command.model] # 0 => \A p \in Active :
    slots[p][command.model] = slots[Coordinator][command.model]
=============================================================================
