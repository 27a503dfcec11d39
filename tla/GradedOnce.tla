----------------------------- MODULE GradedOnce -----------------------------
(***************************************************************************)
(* What the caller of ArenaQueueClient sees of the arena: every candidate  *)
(* gets one verdict, which never changes, until the caller stops waiting;  *)
(* no queue, no lease, no judge and no restart.                            *)
(***************************************************************************)
CONSTANTS
  Works,       (* the candidates handed in                                 *)
  Verdicts(_), (* the verdicts a candidate may get                         *)
  None

VARIABLES
  answer,      (* the verdict of each candidate, or None                   *)
  waiting      (* whether the caller still waits                           *)

vars == <<answer, waiting>>

Init == answer = [w \in Works |-> None] /\ waiting = TRUE

Answer(w) ==
  /\ waiting
  /\ answer[w] = None
  /\ \E v \in Verdicts(w) : answer' = [answer EXCEPT ![w] = v]
  /\ UNCHANGED waiting

Stop ==
  /\ waiting
  /\ waiting' = FALSE
  /\ UNCHANGED answer

Next == Stop \/ \E w \in Works : Answer(w)

(* The caller never waits for ever.                                        *)
Spec == Init /\ [][Next]_vars /\ WF_vars(Next)
=============================================================================
