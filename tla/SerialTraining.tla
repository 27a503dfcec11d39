--------------------------- MODULE SerialTraining ---------------------------
(***************************************************************************)
(* What the Tinker engine promises the clients of a model: its requests    *)
(* take effect once each and, where their order matters, in the order in   *)
(* which they were committed.  A pass and an update of its model, and any  *)
(* two requests that are neither passes nor samples, are ordered; passes   *)
(* commute.  The weights of a model then depend on its requests alone.     *)
(*                                                                         *)
(* The promise has a hole: a request in raced, committed while the engine  *)
(* was reading its queue, may overtake the passes or the update before it. *)
(***************************************************************************)
EXTENDS Naturals, Sequences

CONSTANTS Models, RequestTypes, Passes, Destructive, Single

VARIABLES
  requests,  \* every request committed, in order
  settled,   \* the requests whose result is known to the client
  raced,     \* the requests committed while the queue was being read
  executed,  \* the requests that took effect
  weights,   \* per loaded model, the steps applied to its weights
  grads,     \* per loaded model, the passes accumulated since the last one
  saved      \* the weights each checkpoint holds

vars == <<requests, settled, raced, executed, weights, grads, saved>>

Ids == DOMAIN requests

Type(i) == requests[i].type
ModelOf(i) == requests[i].model
Loaded == DOMAIN weights

(* Requests i < j of a model whose order matters.                          *)
Ordered(i, j) ==
  /\ ModelOf(i) = ModelOf(j)
  /\ \/ Type(i) \in Single /\ Type(j) \in Single
     \/ /\ j \notin raced
        /\ \/ Type(i) \in Passes /\ Type(j) \in Destructive
           \/ Type(i) \in Destructive /\ Type(j) \in Passes

(* Request j has not taken effect and nothing it must wait for is left.    *)
Ready(j) ==
  /\ j \in Ids \ executed
  /\ \A i \in Ids : i < j /\ Ordered(i, j) => i \in executed

Init ==
  /\ requests = << >>
  /\ settled = {}
  /\ raced = {}
  /\ executed = {}
  /\ weights = << >>
  /\ grads = << >>
  /\ saved = << >>

Commit ==
  /\ \E r \in [type : RequestTypes, model : Models, source : Ids \cup {0}] :
       requests' = Append(requests, r)
  /\ raced' \in {raced, raced \cup {Len(requests) + 1}}
  /\ UNCHANGED <<settled, executed, weights, grads, saved>>

(* A batch of passes or samples: no weights change, and the gradients of   *)
(* every pass that succeeds are added to those of its model.               *)
Batch(S) ==
  /\ \A i \in S : Ready(i) /\ Type(i) \notin Single
  /\ executed' = executed \cup S
  /\ \E added \in SUBSET {i \in S : Type(i) = "forward_backward"} :
       /\ grads' = [m \in Loaded |->
                      grads[m] \cup {i \in added : ModelOf(i) = m}]
  /\ UNCHANGED <<requests, settled, raced, weights, saved>>

(* A request that changes the model itself, or fails to.                   *)
Update(j) ==
  LET m == ModelOf(j) IN
  /\ Ready(j)
  /\ executed' = executed \cup {j}
  /\ \/ UNCHANGED <<weights, grads, saved>>
     \/ /\ Type(j) = "create_model"
        /\ weights' = [n \in Loaded \cup {m} |-> IF n = m THEN << >> ELSE weights[n]]
        /\ grads' = [n \in Loaded \cup {m} |-> IF n = m THEN {} ELSE grads[n]]
        /\ UNCHANGED saved
     \/ /\ Type(j) = "unload_model"
        /\ weights' = [n \in Loaded \ {m} |-> weights[n]]
        /\ grads' = [n \in Loaded \ {m} |-> grads[n]]
        /\ UNCHANGED saved
     \/ /\ Type(j) = "optim_step"
        /\ m \in Loaded
        /\ weights' = [weights EXCEPT ![m] = Append(@, grads[m])]
        /\ grads' = [grads EXCEPT ![m] = {}]
        /\ UNCHANGED saved
     \/ /\ Type(j) = "load_weights"
        /\ m \in Loaded
        /\ weights' = [weights EXCEPT ![m] = saved[requests[j].source]]
        /\ UNCHANGED <<grads, saved>>
     \/ /\ Type(j) \in {"save_weights", "save_weights_for_sampler"}
        /\ m \in Loaded
        /\ saved' = [c \in DOMAIN saved \cup {j} |->
                       IF c = j THEN weights[m] ELSE saved[c]]
        /\ UNCHANGED <<weights, grads>>
  /\ UNCHANGED <<requests, settled, raced>>

(* The models of clients that have gone are dropped.                       *)
Drop(S) ==
  /\ weights' = [n \in Loaded \ S |-> weights[n]]
  /\ grads' = [n \in Loaded \ S |-> grads[n]]
  /\ UNCHANGED <<requests, settled, raced, executed, saved>>

(* Results reach the client only for what took effect.                     *)
Settle(S) ==
  /\ S \subseteq executed
  /\ settled' = settled \cup S
  /\ UNCHANGED <<requests, raced, executed, weights, grads, saved>>

(* The engine exits: the models are gone, and what the clients were not    *)
(* told of will take effect again.                                         *)
Exit ==
  /\ weights' = << >>
  /\ grads' = << >>
  /\ executed' = settled
  /\ UNCHANGED <<requests, settled, raced, saved>>

Next ==
  \/ \E S \in SUBSET Ids : Batch(S) \/ Settle(S)
  \/ \E j \in Ids : Update(j)
  \/ \E S \in SUBSET Models : Drop(S)
  \/ Exit
  \/ Commit

Spec == Init /\ [][Next]_vars
=============================================================================
