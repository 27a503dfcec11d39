------------------------------ MODULE OneTenant ------------------------------
(***************************************************************************)
(* What a farm promises the runs that borrow it.  One lease at a time, at  *)
(* most one grant for an acquire, and none once its cancellation is        *)
(* acknowledged.  Work of the lease in force only, none new once it is     *)
(* over, and no handover while the farm counts any.                        *)
(*                                                                         *)
(* Not promised: that a handover finds the engines at rest.  A farm may    *)
(* give up work of a lease that is over; it does not count that work any   *)
(* more, while an engine may execute it under the leases that follow.      *)
(***************************************************************************)
CONSTANTS Acquires, None

VARIABLES
  holder,       (* the acquire whose lease is in force, or None            *)
  closed,       (* the lease in force is over: nothing more is admitted    *)
  working,      (* the acquires whose work the farm counts                 *)
  leftover,     (* the acquires whose work it gave up, still executed      *)
  granted,      (* the acquires that got a lease                           *)
  dismissed     (* the acquires whose cancellation was acknowledged        *)

vars == <<holder, closed, working, leftover, granted, dismissed>>

Init ==
  /\ holder = None /\ closed = FALSE
  /\ working = {} /\ leftover = {}
  /\ granted = {} /\ dismissed = {}

Grant(a) ==
  /\ working = {}
  /\ a \notin granted \cup dismissed
  /\ holder' = a /\ closed' = FALSE
  /\ granted' = granted \cup {a}
  /\ UNCHANGED <<working, leftover, dismissed>>

(* The tenant works while its lease is open; then its work ends or is      *)
(* given up.                                                               *)
Work ==
  /\ closed => closed'
  /\ working' \subseteq IF closed THEN working ELSE {holder} \ {None}
  /\ leftover' \subseteq IF closed THEN leftover \cup working ELSE leftover
  /\ UNCHANGED <<holder, granted, dismissed>>

Vacate ==
  /\ working = {}
  /\ holder' = None /\ closed' = FALSE
  /\ UNCHANGED <<working, leftover, granted, dismissed>>

Dismiss(a) ==
  /\ a \notin working
  /\ IF holder = a THEN holder' = None /\ closed' = FALSE
                   ELSE UNCHANGED <<holder, closed>>
  /\ dismissed' = dismissed \cup {a}
  /\ UNCHANGED <<working, leftover, granted>>

Next == Work \/ Vacate \/ \E a \in Acquires : Grant(a) \/ Dismiss(a)

Spec == Init /\ [][Next]_vars
=============================================================================
