----------------------- MODULE AsyncStalenessManager -----------------------
(***************************************************************************)
(* The admission controller of fully asynchronous training: the counters   *)
(* of _RolloutStat and the methods of _AsyncStalenessManager.              *)
(*                                                                         *)
(* Every method runs under one asyncio.Condition whose FIFO lock is never  *)
(* held across an await other than wait(), so each method is one step.     *)
(* The operators below are pieces of actions: the module that owns the     *)
(* worker and trainer state (FullyAsyncTrainer) conjoins them with its     *)
(* own.                                                                    *)
(***************************************************************************)
EXTENDS FullyAsyncConfig

VARIABLES
  submitted, accepted, running, filtered,   (* _RolloutStat                *)
  managerStep                               (* _current_global_step        *)

managerVars == <<submitted, accepted, running, filtered, managerStep>>

ManagerTypeOK ==
  /\ submitted \in Nat
  /\ accepted \in Int
  /\ running \in Nat
  /\ filtered \in Nat
  /\ managerStep \in Nat \ {0}

(* The groups trained on when a step is the next one.                      *)
ConsumedBefore(step) == (step - 1) * MiniBatchSize

ConsumerCapacity == (MaxStalenessSteps + managerStep) * MiniBatchSize

(* Broken variant: the comparisons are off by one.                         *)
HasCapacityOffByOne ==
  /\ ConsumerCapacity - (accepted + running) >= 0
  /\ MaxConcurrentGenerationGroups - running > 0

(* _compute_capacity_unlocked() > 0, the minimum of two capacities.        *)
HasCapacity ==
  /\ ConsumerCapacity - (accepted + running) > 0
  /\ MaxConcurrentGenerationGroups - running > 0

(* Broken variant: the step being worked on counts as consumed.            *)
LoadManagerStateOffByOne(globalStep) ==
  /\ managerStep' = globalStep
  /\ accepted' = globalStep * MiniBatchSize
  /\ submitted' = globalStep * MiniBatchSize
  /\ running' = 0
  /\ filtered' = 0

(* A new manager, then load_state_from_checkpoint when a step is resumed.  *)
LoadManagerState(globalStep) ==
  /\ managerStep' = globalStep
  /\ accepted' = ConsumedBefore(globalStep)
  /\ submitted' = ConsumedBefore(globalStep)
  /\ running' = 0
  /\ filtered' = 0

(* Broken variant: the slot is counted as submitted, not as running.       *)
AcquireSubmissionSlotUnreserved ==
  /\ HasCapacity
  /\ submitted' = submitted + 1
  /\ UNCHANGED <<accepted, running, filtered, managerStep>>

AcquireSubmissionSlot ==
  /\ HasCapacity
  /\ submitted' = submitted + 1
  /\ running' = running + 1
  /\ UNCHANGED <<accepted, filtered, managerStep>>

(* Broken variant: the slot is freed and the group not counted.            *)
OnRolloutAcceptedUncounted ==
  /\ running' = running - 1
  /\ UNCHANGED <<submitted, accepted, filtered, managerStep>>

OnRolloutAccepted ==
  /\ accepted' = accepted + 1
  /\ running' = running - 1
  /\ UNCHANGED <<submitted, filtered, managerStep>>

(* Broken variants: a dropped group keeps its place in the capacity, or is *)
(* taken out of it without being counted as filtered.                      *)
OnRolloutFilteredKeepsCapacity(n) ==
  /\ filtered' = filtered + n
  /\ UNCHANGED <<submitted, accepted, running, managerStep>>

OnRolloutFilteredUncounted(n) ==
  /\ accepted' = accepted - n
  /\ UNCHANGED <<submitted, running, filtered, managerStep>>

(* n calls of on_rollout_filtered.                                         *)
OnRolloutFiltered(n) ==
  /\ accepted' = accepted - n
  /\ filtered' = filtered + n
  /\ UNCHANGED <<submitted, running, managerStep>>

(* n calls of on_rollout_rejected.                                         *)
OnRolloutRejected(n) ==
  /\ running' = running - n
  /\ UNCHANGED <<submitted, accepted, filtered, managerStep>>

NotifyCapacityChange(globalStep) ==
  /\ managerStep' = globalStep
  /\ UNCHANGED <<submitted, accepted, running, filtered>>

(* The assertions of validate_state_at_epoch_end, on the counters left by  *)
(* the cancellation of n running workers.                                  *)
ValidEpochEnd(globalStep, n) ==
  /\ running - n = 0
  /\ accepted = ConsumedBefore(globalStep)
  /\ managerStep = globalStep
  /\ submitted = accepted + filtered
=============================================================================
