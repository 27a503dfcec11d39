--------------------------- MODULE EpochTraining ---------------------------
(***************************************************************************)
(* What a training run promises about data, however its groups are         *)
(* generated, filtered, buffered and checkpointed: in each epoch every     *)
(* prompt is trained on once or dropped, a batch at a time, epochs are     *)
(* complete before the next one starts, and a run that is stopped goes on  *)
(* from a state it was in when it saved.                                   *)
(***************************************************************************)
EXTENDS Integers, FiniteSets

CONSTANTS
  Prompts,     (* the prompts of an epoch                                  *)
  BatchSize    (* how many one training step consumes                      *)

VARIABLES
  alive,       (* the run is going on                                      *)
  epoch,       (* the epoch it is in                                       *)
  seen,        (* <<epoch, prompt>>: what the weights were trained on      *)
  dropped,     (* the prompts of this epoch that are dropped               *)
  saved        (* the states a stopped run can go on from                  *)

vars == <<alive, epoch, seen, dropped, saved>>

Remaining == {p \in Prompts \ dropped : <<epoch, p>> \notin seen}

Start == [epoch |-> 0, seen |-> {}, dropped |-> {}]

Current == [epoch |-> epoch, seen |-> seen, dropped |-> dropped]

Init ==
  /\ alive = FALSE
  /\ epoch = 0 /\ seen = {} /\ dropped = {}
  /\ saved = {}

Launch ==
  /\ ~alive
  /\ alive' = TRUE
  /\ \E s \in saved \cup {Start} :
       epoch' = s.epoch /\ seen' = s.seen /\ dropped' = s.dropped
  /\ UNCHANGED saved

TrainBatch ==
  /\ alive
  /\ \E ps \in SUBSET Remaining :
       /\ Cardinality(ps) = BatchSize
       /\ seen' = seen \cup ({epoch} \X ps)
  /\ UNCHANGED <<alive, epoch, dropped, saved>>

Drop ==
  /\ alive
  /\ \E ps \in SUBSET Remaining : dropped' = dropped \cup ps
  /\ UNCHANGED <<alive, epoch, seen, saved>>

NextEpoch ==
  /\ alive
  /\ Remaining = {}
  /\ epoch' = epoch + 1
  /\ dropped' = {}
  /\ UNCHANGED <<alive, seen, saved>>

(* A snapshot of the present is added, others may be overwritten.          *)
Save ==
  /\ alive
  /\ saved' \in SUBSET (saved \cup {Current})
  /\ UNCHANGED <<alive, epoch, seen, dropped>>

Stop ==
  /\ alive
  /\ alive' = FALSE
  /\ epoch' = 0 /\ seen' = {} /\ dropped' = {}
  /\ UNCHANGED saved

Next == Launch \/ TrainBatch \/ Drop \/ NextEpoch \/ Save \/ Stop

Spec == Init /\ [][Next]_vars
=============================================================================
