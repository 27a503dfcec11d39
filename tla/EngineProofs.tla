---------------------------- MODULE EngineProofs ----------------------------
(***************************************************************************)
(* Proofs about TinkerEngine, for any models, slots, numbers of requests   *)
(* and exits: the look-ahead scheduling keeps the order of the requests    *)
(* that must keep it, a checkpoint that a client is told of holds a file,  *)
(* no request is applied twice, and, where slots are not reused, each      *)
(* model goes through its requests one after the other.                    *)
(***************************************************************************)
EXTENDS TinkerEngine, WellFoundedInduction, TLAPS

USE EngineAssumption, BackendAssumption
    DEF EngineAssumption, BackendAssumption

(* Natural numbers have least elements.                                    *)
LEMMA MinOfSet ==
  ASSUME NEW S \in SUBSET Nat, S # {}
  PROVE  Min(S) \in S /\ \A x \in S : Min(S) <= x
  <1> DEFINE R == {ss \in Nat \X Nat : ss[1] < ss[2]}
  <1>1. IsWellFoundedOn(R, Nat)
    BY NatLessThanWellFounded DEF OpToRel
  <1>2. PICK m \in S : \A y \in S : <<y, m>> \notin R
    BY <1>1, WFMin
  <1>3. ASSUME NEW y \in S PROVE m <= y
    <2>1. ~ (y < m)
      BY <1>2
    <2> QED
      BY <2>1
  <1> QED
    BY <1>3, Zenon DEF Min

(* A limit taken from a set of request ids is one of them, and the least.  *)
LEMMA FirstOfSet ==
  ASSUME NEW S \in SUBSET (Nat \ {0})
  PROVE  /\ First(S) \in Nat
         /\ First(S) # 0 => First(S) \in S
         /\ \A x \in S : First(S) # 0 /\ First(S) <= x
  <1>1. CASE S = {}
    BY <1>1 DEF First
  <1>2. CASE S # {}
    <2>1. Min(S) \in S /\ \A x \in S : Min(S) <= x
      BY <1>2, MinOfSet
    <2> QED
      BY <1>2, <2>1 DEF First
  <1> QED
    BY <1>1, <1>2

----------------------------------------------------------------------------
(* The inductive invariant.                                                *)

(* Between iterations and after an exit nothing is found or unwritten.     *)
ControlInv ==
  /\ phase = "down" => at = FirstStatement
  /\ phase \in {"select", "down"} => results = << >> /\ singles = {}
  /\ phase = "run" /\ at # "singles" => results = << >>

(* What was run is what has been answered and what will be.                *)
ExecutedInv ==
  /\ DOMAIN results \subseteq Ids
  /\ executed = (Ids \ Pending) \cup DOMAIN results

(* The groups hold requests of their own types, the singles left none run. *)
FoundInv ==
  /\ \A t \in Passes : \A i \in passes[t] : i \in Ids /\ Type(i) = t
  /\ \A i \in samples : i \in Ids /\ Type(i) = "sample"
  /\ \A i \in singles : i \in Ids \ executed /\ Type(i) \in Single

(* While the queue is read, a barrier is a pending update of its model ... *)
BarrierInv ==
  phase = "select" /\ at # FirstStatement =>
    \A m \in Models : barrier[m] # 0 =>
      /\ barrier[m] \in Pending
      /\ Type(barrier[m]) \in Destructive
      /\ ModelOf[barrier[m]] = m

(* ... and not behind one that is followed by a request not raced.         *)
FirstBarrierInv ==
  phase = "select" /\ at # FirstStatement =>
    \A j \in Pending \ raced, k \in Pending :
      k < j /\ Type(k) \in Destructive =>
        barrier[ModelOf[k]] # 0 /\ barrier[ModelOf[k]] <= k

(* No pending update precedes a pass that was selected.                    *)
PassesInv ==
  \A t \in Passes : \A j \in passes[t] \ raced, i \in Pending :
    i < j /\ ModelOf[i] = ModelOf[j] => Type(i) \notin Destructive

(* The statements behind the one that selects passes of type t.            *)
Behind(t) ==
  {"samples", "single barriers", "blocked passes"} \cup
    IF t = "forward" THEN {} ELSE {"forward barriers", "forward"}

(* A pass that was passed over has a pending update before it ...          *)
SkippedInv ==
  phase = "select" => \A t \in Passes : at \in Behind(t) =>
    \A j \in Pending \ raced, i \in Pending :
      i < j /\ Type(i) = t /\ i \notin passes[t] =>
        \E k \in Pending :
          k < i /\ Type(k) \in Destructive /\ ModelOf[k] = ModelOf[i]

(* ... so that it blocks what follows it.                                  *)
BlockedInv ==
  phase = "select" /\ at = "singles" =>
    \A j \in Pending \ raced, i \in Pending :
      i < j /\ Type(i) \in Passes /\ i \notin passes[Type(i)] =>
        blocked[ModelOf[i]] # 0 /\ blocked[ModelOf[i]] <= i

(* Before a single request all its predecessors are found with it.         *)
SinglesInv ==
  \A j \in singles, i \in Ids \ executed :
    i < j /\ ModelOf[i] = ModelOf[j] =>
      /\ Type(i) \in Single => i \in singles
      /\ Type(i) \in Passes /\ Type(j) \in Destructive /\ j \notin raced
           => i \in passes[Type(i)]

(* The passes found are run before the singles.                            *)
PassesFirstInv ==
  phase \in {"run", "write"} => \A t \in Passes :
    \/ t = "forward" /\ at \in {"samples", "singles"}
    \/ t = "forward_backward" /\ at \in {"forward", "samples", "singles"}
    \/ phase = "write" /\ at = t
    => passes[t] \subseteq executed

(* CommitOrder of the answered requests alone, which exits leave.          *)
SettledOrder ==
  \A j \in Ids \ Pending, i \in Pending : i < j => ~Ordered(i, j)

(* A request to read a checkpoint names one that holds a file.             *)
SourceInv ==
  \A i \in Ids : Type(i) \in {"load_weights", "sample"} =>
    requests[i].source \in DOMAIN file

(* A save that has run, answered or not, has completed its checkpoint.     *)
SavesInv ==
  \A i \in Ids : Type(i) \in Saves =>
    /\ i \in DOMAIN checkpoint
    /\ i \in DOMAIN results /\ results[i] = "completed"
         => checkpoint[i] = "completed"

SelectInv ==
  BarrierInv /\ FirstBarrierInv /\ SkippedInv /\ BlockedInv

RunInv == PassesInv /\ SinglesInv /\ PassesFirstInv

IInv ==
  /\ TypeOK
  /\ ControlInv /\ ExecutedInv /\ FoundInv
  /\ SelectInv /\ RunInv
  /\ SettledOrder /\ CommitOrder
  /\ SourceInv /\ SavesInv /\ CheckpointsHoldFiles

USE DEF Type, FirstStatement

LEMMA Elements ==
  ASSUME NEW S, NEW s \in Seq(S)
  PROVE  /\ Len(s) \in Nat /\ DOMAIN s = 1..Len(s)
         /\ \A i \in DOMAIN s : s[i] \in S
  OBVIOUS

LEMMA Appended ==
  ASSUME NEW S, NEW s \in Seq(S), NEW e \in S
  PROVE  /\ Append(s, e) \in Seq(S) /\ Len(Append(s, e)) = Len(s) + 1
         /\ DOMAIN Append(s, e) = 1..(Len(s) + 1)
         /\ Append(s, e)[Len(s) + 1] = e
         /\ \A i \in DOMAIN s : Append(s, e)[i] = s[i]
  OBVIOUS

Rows == [type : RequestTypes, model : Models, source : Nat]

(* A row, its id and its status.                                           *)
LEMMA RowTypes ==
  ASSUME QueueTypeOK
  PROVE  /\ Len(requests) \in Nat
         /\ Ids = 1..Len(requests) /\ DOMAIN status = Ids
         /\ Ids \subseteq Nat \ {0} /\ Pending \subseteq Ids
         /\ \A i \in Ids : /\ requests[i] \in Rows
                            /\ Type(i) \in RequestTypes
                            /\ ModelOf[i] \in Models
                            /\ requests[i].source \in Nat
                            /\ status[i] \in Statuses
  <1>1. /\ requests \in Seq(Rows)
        /\ status \in Seq(Statuses) /\ Len(status) = Len(requests)
    BY DEF QueueTypeOK, Rows
  <1>2. /\ Len(requests) \in Nat
        /\ Ids = 1..Len(requests) /\ DOMAIN status = Ids
    BY <1>1, Elements DEF Ids
  <1>3. ASSUME NEW i \in Ids
        PROVE  /\ requests[i] \in Rows
               /\ Type(i) \in RequestTypes /\ ModelOf[i] \in Models
               /\ requests[i].source \in Nat /\ status[i] \in Statuses
    <2>1. requests[i] \in Rows /\ status[i] \in Statuses
      BY <1>1, <1>2, Elements, Zenon
    <2> QED
      BY <2>1 DEF Rows, ModelOf
  <1>4. Ids \subseteq Nat \ {0} /\ Pending \subseteq Ids
    BY <1>2 DEF Pending
  <1> QED
    BY <1>2, <1>3, <1>4

----------------------------------------------------------------------------
(* Commits.                                                                *)

(* What a commit adds and what it leaves.                                  *)
LEMMA CommittedRow ==
  ASSUME QueueTypeOK,
         NEW type \in RequestTypes, NEW m \in Models, NEW source \in Nat,
         CreateFuture(type, m, source), NEW n, n = Len(requests) + 1
  PROVE  /\ n \in Nat \ {0} /\ n \notin Ids
         /\ Ids' = Ids \cup {n} /\ Pending' = Pending \cup {n}
         /\ requests' \in Seq(Rows) /\ status' \in Seq(Statuses)
         /\ Len(status') = Len(requests')
         /\ \A i \in Ids : /\ i < n /\ requests'[i] = requests[i]
                            /\ status'[i] = status[i] /\ ModelOf'[i] = ModelOf[i]
         /\ requests'[n].type = type /\ requests'[n].source = source
         /\ ModelOf'[n] = m
         /\ raced \subseteq raced' /\ raced' \subseteq raced \cup {n}
         /\ phase = "select" /\ at # FirstStatement => n \in raced'
  <1> DEFINE r == [type |-> type, model |-> m, source |-> source]
  <1>1. /\ requests' = Append(requests, r) /\ status' = Append(status, "pending")
        /\ raced' = IF phase = "select" /\ at # FirstStatement
                    THEN raced \cup {n} ELSE raced
    BY DEF CreateFuture
  <1>2. /\ requests \in Seq(Rows) /\ status \in Seq(Statuses)
        /\ Len(status) = Len(requests)
    BY DEF QueueTypeOK, Rows
  <1>3. r \in Rows /\ r.type = type /\ r.model = m /\ r.source = source
    BY DEF Rows
  <1>4. "pending" \in Statuses
    BY DEF Statuses
  <1> HIDE DEF r
  <1>5. /\ requests' \in Seq(Rows) /\ Len(requests') = n /\ Ids' = 1..n
        /\ requests'[n] = r /\ \A i \in Ids : requests'[i] = requests[i]
    <2>1. /\ Append(requests, r) \in Seq(Rows)
          /\ Len(Append(requests, r)) = Len(requests) + 1
          /\ DOMAIN Append(requests, r) = 1..(Len(requests) + 1)
          /\ Append(requests, r)[Len(requests) + 1] = r
          /\ \A i \in Ids : Append(requests, r)[i] = requests[i]
      BY <1>2, <1>3, Appended DEF Ids
    <2> QED
      BY <1>1, <2>1, Zenon DEF Ids
  <1>6. /\ status' \in Seq(Statuses) /\ Len(status') = n
        /\ status'[n] = "pending"
        /\ \A i \in Ids : status'[i] = status[i]
    <2>1. DOMAIN status = Ids
      BY RowTypes
    <2>2. /\ Append(status, "pending") \in Seq(Statuses)
          /\ Len(Append(status, "pending")) = Len(status) + 1
          /\ Append(status, "pending")[Len(status) + 1] = "pending"
          /\ \A i \in Ids : Append(status, "pending")[i] = status[i]
      BY <1>2, <1>4, <2>1, Appended
    <2> QED
      BY <1>1, <1>2, <2>2, Zenon
  <1>7. /\ n \in Nat \ {0} /\ n \notin Ids /\ Ids' = Ids \cup {n}
        /\ \A i \in Ids : i < n
    BY <1>5, RowTypes
  <1>8. Pending' = Pending \cup {n}
    BY <1>6, <1>7 DEF Pending
  <1>9. /\ \A i \in Ids : ModelOf'[i] = ModelOf[i]
        /\ ModelOf'[n] = m /\ requests'[n].type = type /\ requests'[n].source = source
    BY <1>3, <1>5, <1>7 DEF ModelOf
  <1> QED
    BY <1>1, <1>5, <1>6, <1>7, <1>8, <1>9

(* A commit disturbs nothing: what must wait for the new row comes later,  *)
(* and while the queue is read the row counts as raced.                    *)
LEMMA CommitStep ==
  ASSUME IInv,
         NEW type \in RequestTypes, NEW m \in Models, NEW source \in Nat,
         CreateFuture(type, m, source), file' = file,
         type \in {"load_weights", "sample"} => source \in DOMAIN file,
         \/ type \notin Saves /\ checkpoint' = checkpoint
         \/ type \in Saves
            /\ checkpoint' = [c \in DOMAIN checkpoint \cup {Len(requests) + 1} |->
                 IF c \in DOMAIN checkpoint THEN checkpoint[c] ELSE "pending"]
  PROVE  IInv'
  <1> DEFINE n == Len(requests) + 1
  <1>1. /\ UNCHANGED <<barrier, blocked, passes, samples, singles>>
        /\ UNCHANGED <<slot, weights, grads, loaded>>
        /\ UNCHANGED <<phase, at, results, expired, restarts, executed, sampled>>
    BY DEF CreateFuture, foundVars, backendVars, serviceVars
  <1>2. QueueTypeOK /\ BackendTypeOK /\ EngineTypeOK
    BY DEF IInv, TypeOK
  <1>3. /\ n \in Nat \ {0} /\ n \notin Ids
        /\ Ids' = Ids \cup {n} /\ Pending' = Pending \cup {n}
        /\ requests' \in Seq(Rows) /\ status' \in Seq(Statuses)
        /\ Len(status') = Len(requests')
        /\ \A i \in Ids : /\ i < n /\ requests'[i] = requests[i]
                           /\ status'[i] = status[i] /\ ModelOf'[i] = ModelOf[i]
        /\ requests'[n].type = type /\ requests'[n].source = source
        /\ ModelOf'[n] = m
        /\ raced \subseteq raced' /\ raced' \subseteq raced \cup {n}
        /\ phase = "select" /\ at # FirstStatement => n \in raced'
    BY <1>2, CommittedRow
  <1>4. Pending \subseteq Ids /\ Ids \subseteq Nat \ {0}
    BY <1>2, RowTypes
  <1> HIDE DEF n
  <1>5. ~ (n < n) /\ \A i \in Ids : ~ (n < i)
    <2>1. n \in Nat /\ \A i \in Ids : i \in Nat /\ i < n
      BY <1>3, <1>4, Zenon
    <2> QED
      BY <2>1
  <1>6. \A i, j \in Ids' : i < j => i \in Ids
    BY <1>3, <1>5
  <1>7. phase = "select" /\ at # FirstStatement =>
          Pending' \ raced' \subseteq Pending \ raced
    BY <1>3
  <1>8. \A i \in Pending', j \in Ids : i < j => i \in Pending
    BY <1>3, <1>5
  <1>9. /\ DOMAIN checkpoint \subseteq DOMAIN checkpoint'
        /\ DOMAIN checkpoint' \subseteq DOMAIN checkpoint \cup {n}
        /\ checkpoint' \in [DOMAIN checkpoint' -> Statuses]
        /\ \A c \in DOMAIN checkpoint : checkpoint'[c] = checkpoint[c]
        /\ \A c \in DOMAIN checkpoint' \ DOMAIN checkpoint : checkpoint'[c] = "pending"
        /\ type \in Saves => n \in DOMAIN checkpoint'
    BY <1>2 DEF QueueTypeOK, Statuses, n
  <1>10. TypeOK'
    <2>1. QueueTypeOK'
      BY <1>2, <1>3, <1>9 DEF QueueTypeOK, Rows
    <2>2. BackendTypeOK'
      BY <1>1, <1>2, <1>3 DEF BackendTypeOK
    <2>3. EngineTypeOK'
      BY <1>1, <1>2, <1>3 DEF EngineTypeOK, Groups, Statements, After
    <2> QED
      BY <2>1, <2>2, <2>3 DEF TypeOK
  <1>11. ControlInv' /\ ExecutedInv' /\ FoundInv'
    <2>1. ControlInv'
      BY <1>1 DEF IInv, ControlInv
    <2>2. ExecutedInv'
      BY <1>1, <1>3 DEF IInv, ExecutedInv
    <2>3. FoundInv'
      BY <1>1, <1>3 DEF IInv, FoundInv
    <2> QED
      BY <2>1, <2>2, <2>3
  <1>12. SelectInv'
    <2>1. BarrierInv'
      BY <1>1, <1>3, <1>4 DEF IInv, SelectInv, BarrierInv
    <2>2. FirstBarrierInv'
      BY <1>1, <1>3, <1>4, <1>7, <1>8 DEF IInv, SelectInv, FirstBarrierInv
    <2>3. ASSUME phase = "select", NEW t \in Passes, at \in Behind(t),
                 NEW j \in Pending' \ raced', NEW i \in Pending',
                 i < j, requests'[i].type = t, i \notin passes[t]
          PROVE  \E k \in Pending' : /\ k < i /\ requests'[k].type \in Destructive
                                     /\ ModelOf'[k] = ModelOf'[i]
      <3>1. at # FirstStatement
        BY <2>3 DEF Behind
      <3>2. j \in Pending \ raced /\ i \in Pending
        BY <1>4, <1>7, <1>8, <2>3, <3>1
      <3>3. requests[i].type = t
        BY <1>3, <1>4, <2>3, <3>2
      <3>4. \E k \in Pending : /\ k < i /\ requests[k].type \in Destructive
                               /\ ModelOf[k] = ModelOf[i]
        BY <2>3, <3>2, <3>3, Zenon DEF IInv, SelectInv, SkippedInv
      <3> QED
        BY <1>3, <1>4, <3>2, <3>4
    <2>4. SkippedInv'
      BY <1>1, <2>3 DEF SkippedInv, Behind
    <2>5. BlockedInv'
      BY <1>1, <1>3, <1>4 DEF IInv, SelectInv, BlockedInv
    <2> QED
      BY <2>1, <2>2, <2>4, <2>5 DEF SelectInv
  <1>13. RunInv'
    <2>1. ASSUME NEW t \in Passes, NEW j \in passes[t] \ raced', NEW i \in Pending',
                 i < j, ModelOf'[i] = ModelOf'[j]
          PROVE  requests'[i].type \notin Destructive
      <3>1. j \in Ids /\ j \notin raced /\ i \in Pending
        BY <1>3, <1>8, <2>1 DEF IInv, FoundInv
      <3> QED
        BY <1>3, <1>4, <2>1, <3>1 DEF IInv, RunInv, PassesInv
    <2>2. ASSUME NEW j \in singles, NEW i \in Ids' \ executed,
                 i < j, ModelOf'[i] = ModelOf'[j]
          PROVE  /\ requests'[i].type \in Single => i \in singles
                 /\ /\ requests'[i].type \in Passes
                    /\ requests'[j].type \in Destructive
                    /\ j \notin raced'
                    => i \in passes[requests'[i].type]
      <3>1. j \in Ids /\ i \in Ids
        BY <1>3, <1>6, <2>2 DEF IInv, FoundInv
      <3> QED
        BY <1>3, <2>2, <3>1 DEF IInv, RunInv, SinglesInv
    <2>3. PassesInv' /\ SinglesInv'
      BY <1>1, <2>1, <2>2 DEF PassesInv, SinglesInv
    <2>4. PassesFirstInv'
      BY <1>1 DEF IInv, RunInv, PassesFirstInv
    <2> QED
      BY <2>3, <2>4 DEF RunInv
  <1>14. SettledOrder' /\ CommitOrder'
    <2>1. ASSUME NEW i \in Ids, NEW j \in Ids, Ordered(i, j)' PROVE Ordered(i, j)
      BY <1>3, <2>1 DEF Ordered
    <2>2. executed \subseteq Ids
      BY DEF IInv, ExecutedInv
    <2>3. ASSUME NEW j \in Ids' \ Pending', NEW i \in Pending', i < j
          PROVE  ~Ordered(i, j)'
      <3>1. j \in Ids \ Pending /\ i \in Pending
        BY <1>3, <1>8, <2>3
      <3> QED
        BY <1>4, <2>1, <2>3, <3>1 DEF IInv, SettledOrder
    <2>4. ASSUME NEW j \in executed, NEW i \in Ids' \ executed, i < j
          PROVE  ~Ordered(i, j)'
      <3>1. j \in Ids /\ i \in Ids
        BY <1>3, <1>6, <2>2, <2>4
      <3> QED
        BY <2>1, <2>4, <3>1 DEF IInv, CommitOrder
    <2> QED
      BY <1>1, <2>3, <2>4 DEF SettledOrder, CommitOrder
  <1>15. SourceInv' /\ SavesInv' /\ CheckpointsHoldFiles'
    <2>1. SourceInv'
      BY <1>3 DEF IInv, SourceInv
    <2>2. SavesInv'
      BY <1>1, <1>3, <1>9 DEF IInv, SavesInv, ExecutedInv
    <2>3. ASSUME NEW c \in DOMAIN checkpoint', checkpoint'[c] = "completed"
          PROVE  c \in DOMAIN file
      BY <1>9, <2>3 DEF IInv, CheckpointsHoldFiles
    <2>4. ASSUME NEW i \in Ids', requests'[i].type \in Saves, status'[i] = "completed"
          PROVE  checkpoint'[i] = "completed"
      <3>1. i \in Ids \/ i \in Pending'
        BY <1>3
      <3>2. i \notin Pending'
        BY <2>4 DEF Pending
      <3> QED
        BY <1>3, <1>9, <2>4, <3>1, <3>2 DEF IInv, CheckpointsHoldFiles, SavesInv
    <2>5. CheckpointsHoldFiles'
      BY <2>3, <2>4 DEF CheckpointsHoldFiles
    <2> QED
      BY <2>1, <2>2, <2>5
  <1> QED
    BY <1>10, <1>11, <1>12, <1>13, <1>14, <1>15 DEF IInv

LEMMA APIStep ==
  ASSUME IInv, APINext
  PROVE  IInv'
  <1>1. PICK m \in Models :
          \/ CommitCreateModel(m)
          \/ \E type \in RequestTypes : CommitRequest(type, m) \/ CommitSave(type, m)
          \/ CommitLoad(m)
          \/ CommitSample(m)
    BY DEF APINext
  <1>2. ASSUME NEW c \in Usable("save_weights") \cup Usable("save_weights_for_sampler")
        PROVE  c \in Nat /\ c \in DOMAIN file
    <2>1. c \in DOMAIN checkpoint /\ checkpoint[c] = "completed"
      BY <1>2 DEF Usable
    <2>2. DOMAIN checkpoint \subseteq Ids /\ Ids \subseteq Nat
      BY RowTypes DEF IInv, TypeOK, QueueTypeOK
    <2> QED
      BY <2>1, <2>2 DEF IInv, CheckpointsHoldFiles
  <1>3. CASE CommitCreateModel(m)
    <2>1. /\ CreateFuture("create_model", m, 0)
          /\ file' = file /\ checkpoint' = checkpoint
          /\ "create_model" \in RequestTypes /\ "create_model" \notin Saves
      BY <1>3 DEF CommitCreateModel, checkpointVars, RequestTypes, Single, Saves
    <2> QED
      BY <2>1, CommitStep
  <1>4. ASSUME NEW type \in RequestTypes, CommitRequest(type, m)
        PROVE  IInv'
    <2>1. /\ CreateFuture(type, m, 0)
          /\ file' = file /\ checkpoint' = checkpoint
          /\ type \notin Saves \cup {"load_weights", "sample"}
      BY <1>4 DEF CommitRequest, checkpointVars, Passes, Saves
    <2> QED
      BY <2>1, CommitStep
  <1>5. ASSUME NEW type \in RequestTypes, CommitSave(type, m)
        PROVE  IInv'
    <2>1. /\ type \in Saves /\ CreateFuture(type, m, 0) /\ file' = file
          /\ checkpoint' = [c \in DOMAIN checkpoint \cup {Len(requests) + 1} |->
               IF c \in DOMAIN checkpoint THEN checkpoint[c] ELSE "pending"]
      BY <1>5 DEF CommitSave
    <2>2. type \notin {"load_weights", "sample"}
      BY <2>1 DEF Saves
    <2> QED
      BY <2>1, <2>2, CommitStep
  <1>6. CASE CommitLoad(m)
    <2>1. PICK c \in Usable("save_weights") : CreateFuture("load_weights", m, c)
      BY <1>6 DEF CommitLoad
    <2>2. /\ file' = file /\ checkpoint' = checkpoint
          /\ "load_weights" \in RequestTypes /\ "load_weights" \notin Saves
      BY <1>6 DEF CommitLoad, checkpointVars, RequestTypes, Single, Destructive, Saves
    <2> QED
      BY <1>2, <2>1, <2>2, CommitStep
  <1>7. CASE CommitSample(m)
    <2>1. PICK c \in Usable("save_weights_for_sampler") : CreateFuture("sample", m, c)
      BY <1>7 DEF CommitSample
    <2>2. /\ file' = file /\ checkpoint' = checkpoint
          /\ "sample" \in RequestTypes /\ "sample" \notin Saves
      BY <1>7 DEF CommitSample, checkpointVars, RequestTypes, Saves
    <2> QED
      BY <1>2, <2>1, <2>2, CommitStep
  <1> QED
    BY <1>1, <1>3, <1>4, <1>5, <1>6, <1>7

----------------------------------------------------------------------------
(* The statements of an iteration.                                         *)

(* Statements leave everything but what they find.                         *)
LEMMA SelectFrame ==
  ASSUME IInv, phase = "select", EngineTypeOK',
         UNCHANGED <<futureVars, checkpointVars, backendVars, results,
                     serviceVars, executed, sampled>>
  PROVE  /\ TypeOK' /\ ExecutedInv' /\ SettledOrder' /\ CommitOrder'
         /\ SourceInv' /\ SavesInv' /\ CheckpointsHoldFiles'
         /\ Ids' = Ids /\ Pending' = Pending /\ ModelOf' = ModelOf
         /\ requests' = requests /\ raced' = raced /\ executed' = executed
         /\ Ids \ executed \subseteq Pending
         /\ results' = << >> /\ singles = {} /\ executed = Ids \ Pending
  <1>1. /\ UNCHANGED <<requests, status, raced, checkpoint, file, results>>
        /\ UNCHANGED <<slot, weights, grads, loaded>>
        /\ UNCHANGED <<expired, restarts, executed, sampled>>
    BY DEF futureVars, checkpointVars, backendVars, serviceVars
  <1>2. Ids' = Ids /\ Pending' = Pending /\ ModelOf' = ModelOf
    BY <1>1 DEF Ids, Pending, ModelOf
  <1>3. TypeOK'
    <2>1. QueueTypeOK /\ BackendTypeOK /\ EngineTypeOK
      BY DEF IInv, TypeOK
    <2>2. QueueTypeOK' /\ BackendTypeOK'
      BY <1>1, <1>2, <2>1 DEF QueueTypeOK, BackendTypeOK
    <2> QED
      BY <2>2 DEF TypeOK
  <1>4. ExecutedInv' /\ SourceInv' /\ SavesInv' /\ CheckpointsHoldFiles'
    BY <1>1, <1>2 DEF IInv, ExecutedInv, SourceInv, SavesInv, CheckpointsHoldFiles
  <1>5. SettledOrder' /\ CommitOrder'
    BY <1>1, <1>2 DEF IInv, SettledOrder, CommitOrder, Ordered
  <1>6. results = << >> /\ singles = {} /\ DOMAIN results = {}
    BY DEF IInv, ControlInv
  <1>7. Pending \subseteq Ids /\ executed = Ids \ Pending
    BY <1>6 DEF IInv, ExecutedInv, Pending
  <1> QED
    BY <1>1, <1>2, <1>3, <1>4, <1>5, <1>6, <1>7

LEMMA SelectBarriersStep ==
  ASSUME IInv, SelectBarriers
  PROVE  IInv'
  <1> DEFINE B(m) == {i \in Pending : Type(i) \in Destructive /\ ModelOf[i] = m}
  <1>1. /\ phase = "select" /\ phase' = "select"
        /\ at \in {"forward_backward barriers", "forward barriers", "single barriers"}
        /\ barrier' = [m \in Models |-> First(B(m))]
        /\ at' = After[at]
        /\ UNCHANGED <<futureVars, checkpointVars, backendVars, blocked, passes,
                       samples, singles, results, serviceVars, executed, sampled>>
    BY DEF SelectBarriers
  <1>2. /\ at' \in {"forward_backward", "forward", "blocked passes"}
        /\ \A t \in Passes : at' \in Behind(t) => at \in Behind(t)
    BY <1>1 DEF After, Behind
  <1>3. QueueTypeOK /\ EngineTypeOK
    BY DEF IInv, TypeOK
  <1>4. \A m : B(m) \in SUBSET (Nat \ {0})
    BY <1>3, RowTypes
  <1>5. ASSUME NEW m \in Models
        PROVE  /\ barrier'[m] \in Nat
               /\ barrier'[m] # 0 => barrier'[m] \in B(m)
               /\ \A k \in B(m) : barrier'[m] # 0 /\ barrier'[m] <= k
    <2>1. barrier'[m] = First(B(m))
      BY <1>1
    <2> HIDE DEF B
    <2> QED
      BY <1>4, <2>1, FirstOfSet
  <1>6. /\ TypeOK' /\ ExecutedInv' /\ SettledOrder' /\ CommitOrder'
        /\ SourceInv' /\ SavesInv' /\ CheckpointsHoldFiles'
        /\ Ids' = Ids /\ Pending' = Pending /\ ModelOf' = ModelOf
        /\ requests' = requests /\ raced' = raced /\ executed' = executed
        /\ results' = << >> /\ singles = {}
    <2>1. barrier' \in [Models -> Nat]
      BY <1>1, <1>5
    <2>2. at' \in Statements
      BY <1>2 DEF Statements, After
    <2>3. EngineTypeOK'
      BY <1>1, <1>3, <2>1, <2>2
      DEF EngineTypeOK, futureVars, serviceVars, Ids
    <2>4. UNCHANGED <<futureVars, checkpointVars, backendVars, results,
                      serviceVars, executed, sampled>>
      BY <1>1
    <2> QED
      BY <1>1, <2>3, <2>4, SelectFrame, Zenon
  <1>7. /\ UNCHANGED <<blocked, passes, samples, singles>>
        /\ \A k \in Pending : ModelOf[k] \in Models
    BY <1>1, <1>3, RowTypes
  <1>8. ControlInv' /\ FoundInv'
    BY <1>1, <1>6, <1>7 DEF IInv, ControlInv, FoundInv
  <1>9. BarrierInv' /\ FirstBarrierInv'
    BY <1>1, <1>5, <1>6, <1>7 DEF BarrierInv, FirstBarrierInv
  <1>10. ASSUME NEW t \in Passes, at' \in Behind(t),
                NEW j \in Pending \ raced, NEW i \in Pending,
                i < j, Type(i) = t, i \notin passes'[t]
         PROVE  \E k \in Pending :
                  k < i /\ Type(k) \in Destructive /\ ModelOf[k] = ModelOf[i]
    <2>1. at \in Behind(t) /\ i \notin passes[t]
      BY <1>1, <1>2, <1>10
    <2> QED
      BY <1>1, <1>10, <2>1, Zenon DEF IInv, SelectInv, SkippedInv
  <1>11. SkippedInv'
    BY <1>6, <1>10 DEF SkippedInv
  <1>12. BlockedInv' /\ PassesInv' /\ SinglesInv' /\ PassesFirstInv'
    BY <1>1, <1>2, <1>6, <1>7
    DEF IInv, RunInv, BlockedInv, PassesInv, SinglesInv, PassesFirstInv
  <1> QED
    BY <1>6, <1>8, <1>9, <1>11, <1>12 DEF IInv, SelectInv, RunInv

(* A pass that is selected has no pending update before it, and one that   *)
(* is not has its barrier before it.                                       *)
LEMMA SelectPassesStep ==
  ASSUME IInv, NEW t \in Passes, SelectPasses(t)
  PROVE  IInv'
  <1>1. /\ phase = "select" /\ phase' = "select" /\ at = t
        /\ passes' = [passes EXCEPT ![t] =
             {i \in Pending : Type(i) = t /\ ComesBefore(i, barrier)}]
        /\ at' = After[at]
        /\ UNCHANGED <<futureVars, checkpointVars, backendVars, barrier, blocked,
                       samples, singles, results, serviceVars, executed, sampled>>
    BY DEF SelectPasses
  <1>2. /\ t \in {"forward_backward", "forward"} /\ at # FirstStatement
        /\ at' \in {"forward barriers", "samples"}
        /\ \A u \in Passes \ {t} : at' \in Behind(u) => at \in Behind(u)
    BY <1>1 DEF After, Behind, Passes
  <1>3. QueueTypeOK /\ EngineTypeOK
    BY DEF IInv, TypeOK
  <1>4. /\ passes \in [Passes -> SUBSET Ids] /\ Pending \subseteq Ids
        /\ Ids \subseteq Nat /\ barrier \in [Models -> Nat]
        /\ \A k \in Ids : ModelOf[k] \in Models
    BY <1>3, RowTypes DEF EngineTypeOK
  <1>5. /\ passes' \in [Passes -> SUBSET Ids]
        /\ passes'[t] = {i \in Pending : Type(i) = t /\ ComesBefore(i, barrier)}
        /\ \A u \in Passes \ {t} : passes'[u] = passes[u]
    BY <1>1, <1>4
  <1>6. /\ TypeOK' /\ ExecutedInv' /\ SettledOrder' /\ CommitOrder'
        /\ SourceInv' /\ SavesInv' /\ CheckpointsHoldFiles'
        /\ Ids' = Ids /\ Pending' = Pending /\ ModelOf' = ModelOf
        /\ requests' = requests /\ raced' = raced /\ executed' = executed
        /\ results' = << >> /\ singles = {}
    <2>1. at' \in Statements
      BY <1>2 DEF Statements, After
    <2>2. EngineTypeOK'
      BY <1>1, <1>3, <1>5, <2>1
      DEF EngineTypeOK, futureVars, serviceVars, Ids
    <2>3. UNCHANGED <<futureVars, checkpointVars, backendVars, results,
                      serviceVars, executed, sampled>>
      BY <1>1
    <2> QED
      BY <1>1, <2>2, <2>3, SelectFrame, Zenon
  <1>7. UNCHANGED <<barrier, blocked, samples, singles>>
    BY <1>1
  <1>8. ControlInv' /\ FoundInv'
    <2>1. ControlInv'
      BY <1>1, <1>6, <1>7 DEF ControlInv
    <2>2. FoundInv'
      BY <1>4, <1>5, <1>6, <1>7 DEF IInv, FoundInv
    <2> QED
      BY <2>1, <2>2
  <1>9. BarrierInv' /\ FirstBarrierInv'
    BY <1>1, <1>2, <1>6, <1>7 DEF IInv, SelectInv, BarrierInv, FirstBarrierInv
  <1>10. ASSUME NEW u \in Passes, at' \in Behind(u),
                NEW j \in Pending \ raced, NEW i \in Pending,
                i < j, Type(i) = u, i \notin passes'[u]
         PROVE  \E k \in Pending :
                  k < i /\ Type(k) \in Destructive /\ ModelOf[k] = ModelOf[i]
    <2>1. CASE u # t
      <3>1. at \in Behind(u) /\ i \notin passes[u]
        BY <1>2, <1>5, <1>10, <2>1
      <3> QED
        BY <1>1, <1>10, <3>1, Zenon DEF IInv, SelectInv, SkippedInv
    <2>2. CASE u = t
      <3> DEFINE k == barrier[ModelOf[i]]
      <3>1. k # 0 /\ ~ (i < k)
        BY <1>5, <1>10, <2>2 DEF ComesBefore
      <3>2. k \in Pending /\ Type(k) \in Destructive /\ ModelOf[k] = ModelOf[i]
        BY <1>1, <1>2, <1>4, <3>1 DEF IInv, SelectInv, BarrierInv
      <3>3. k # i
        BY <1>10, <3>2 DEF Passes, Destructive
      <3>4. k < i
        <4>1. k \in Nat /\ i \in Nat
          BY <1>4, <3>2
        <4> HIDE DEF k
        <4> QED
          BY <3>1, <3>3, <4>1
      <3> QED
        BY <3>2, <3>4
    <2> QED
      BY <2>1, <2>2
  <1>11. SkippedInv'
    BY <1>6, <1>10 DEF SkippedInv
  <1>12. ASSUME NEW u \in Passes, NEW j \in passes'[u] \ raced, NEW i \in Pending,
                i < j, ModelOf[i] = ModelOf[j]
         PROVE  Type(i) \notin Destructive
    <2>1. CASE u # t
      BY <1>5, <1>12, <2>1 DEF IInv, RunInv, PassesInv
    <2>2. CASE u = t
      <3>1. SUFFICES ASSUME Type(i) \in Destructive PROVE FALSE
        OBVIOUS
      <3> DEFINE b == barrier[ModelOf[i]]
      <3>2. j \in Pending \ raced /\ (b = 0 \/ j < b)
        BY <1>5, <1>12, <2>2 DEF ComesBefore
      <3>3. b # 0 /\ b <= i
        BY <1>1, <1>2, <1>12, <3>1, <3>2 DEF IInv, SelectInv, FirstBarrierInv
      <3>4. b \in Nat /\ i \in Nat /\ j \in Nat
        BY <1>4, <3>2
      <3> HIDE DEF b
      <3> QED
        BY <1>12, <3>2, <3>3, <3>4
    <2> QED
      BY <2>1, <2>2
  <1>13. PassesInv'
    BY <1>6, <1>12 DEF PassesInv
  <1>14. BlockedInv' /\ SinglesInv' /\ PassesFirstInv'
    BY <1>1, <1>2, <1>6, <1>7 DEF BlockedInv, SinglesInv, PassesFirstInv
  <1> QED
    BY <1>6, <1>8, <1>9, <1>11, <1>13, <1>14 DEF IInv, SelectInv, RunInv

LEMMA SelectSamplesStep ==
  ASSUME IInv, SelectSamples
  PROVE  IInv'
  <1>1. /\ phase = "select" /\ phase' = "select" /\ at = "samples"
        /\ samples' \subseteq {i \in Pending : Type(i) = "sample"}
        /\ at' = After[at]
        /\ UNCHANGED <<futureVars, checkpointVars, backendVars, barrier, blocked,
                       passes, singles, results, serviceVars, executed, sampled>>
    BY DEF SelectSamples
  <1>2. /\ at # FirstStatement /\ at' = "single barriers"
        /\ \A t \in Passes : at \in Behind(t)
    BY <1>1 DEF After, Behind
  <1>3. QueueTypeOK /\ EngineTypeOK
    BY DEF IInv, TypeOK
  <1>4. Pending \subseteq Ids
    BY <1>3, RowTypes
  <1>5. /\ TypeOK' /\ ExecutedInv' /\ SettledOrder' /\ CommitOrder'
        /\ SourceInv' /\ SavesInv' /\ CheckpointsHoldFiles'
        /\ Ids' = Ids /\ Pending' = Pending /\ ModelOf' = ModelOf
        /\ requests' = requests /\ raced' = raced /\ executed' = executed
        /\ results' = << >> /\ singles = {}
    <2>1. at' \in Statements /\ samples' \subseteq Ids
      BY <1>1, <1>2, <1>4 DEF Statements, After
    <2>2. EngineTypeOK'
      BY <1>1, <1>3, <2>1 DEF EngineTypeOK, futureVars, serviceVars, Ids
    <2>3. UNCHANGED <<futureVars, checkpointVars, backendVars, results,
                      serviceVars, executed, sampled>>
      BY <1>1
    <2> QED
      BY <1>1, <2>2, <2>3, SelectFrame, Zenon
  <1>6. UNCHANGED <<barrier, blocked, passes, singles>>
    BY <1>1
  <1>7. ControlInv' /\ FoundInv'
    BY <1>1, <1>4, <1>5, <1>6 DEF IInv, ControlInv, FoundInv
  <1>8. BarrierInv' /\ FirstBarrierInv'
    BY <1>1, <1>2, <1>5, <1>6 DEF IInv, SelectInv, BarrierInv, FirstBarrierInv
  <1>9. ASSUME NEW t \in Passes, at' \in Behind(t),
               NEW j \in Pending \ raced, NEW i \in Pending,
               i < j, Type(i) = t, i \notin passes'[t]
        PROVE  \E k \in Pending :
                 k < i /\ Type(k) \in Destructive /\ ModelOf[k] = ModelOf[i]
    <2>1. at \in Behind(t) /\ i \notin passes[t]
      BY <1>2, <1>6, <1>9
    <2> QED
      BY <1>1, <1>9, <2>1, Zenon DEF IInv, SelectInv, SkippedInv
  <1>10. SkippedInv'
    BY <1>5, <1>9 DEF SkippedInv
  <1>11. BlockedInv' /\ PassesInv' /\ SinglesInv' /\ PassesFirstInv'
    BY <1>1, <1>2, <1>5, <1>6
    DEF IInv, RunInv, BlockedInv, PassesInv, SinglesInv, PassesFirstInv
  <1> QED
    BY <1>5, <1>7, <1>8, <1>10, <1>11 DEF IInv, SelectInv, RunInv

(* A pass that was passed over is not before the barrier, so it counts.    *)
LEMMA SelectBlockedPassesStep ==
  ASSUME IInv, SelectBlockedPasses
  PROVE  IInv'
  <1> DEFINE B(m) == {i \in Pending : /\ Type(i) \in Passes
                                      /\ ModelOf[i] = m
                                      /\ barrier[m] # 0
                                      /\ i >= barrier[m]}
  <1>1. /\ phase = "select" /\ phase' = "select" /\ at = "blocked passes"
        /\ blocked' = [m \in Models |-> First(B(m))]
        /\ at' = After[at]
        /\ UNCHANGED <<futureVars, checkpointVars, backendVars, barrier, passes,
                       samples, singles, results, serviceVars, executed, sampled>>
    BY DEF SelectBlockedPasses
  <1>2. /\ at # FirstStatement /\ at' = "singles"
        /\ \A t \in Passes : at \in Behind(t) /\ at' \notin Behind(t)
    BY <1>1 DEF After, Behind
  <1>3. QueueTypeOK /\ EngineTypeOK
    BY DEF IInv, TypeOK
  <1>4. /\ Pending \subseteq Nat \ {0} /\ \A k \in Pending : ModelOf[k] \in Models
        /\ barrier \in [Models -> Nat]
    BY <1>3, RowTypes DEF EngineTypeOK
  <1>5. ASSUME NEW m \in Models
        PROVE  /\ blocked'[m] \in Nat
               /\ \A k \in B(m) : blocked'[m] # 0 /\ blocked'[m] <= k
    <2>1. blocked'[m] = First(B(m)) /\ B(m) \in SUBSET (Nat \ {0})
      BY <1>1, <1>4
    <2> HIDE DEF B
    <2> QED
      BY <2>1, FirstOfSet
  <1>6. /\ TypeOK' /\ ExecutedInv' /\ SettledOrder' /\ CommitOrder'
        /\ SourceInv' /\ SavesInv' /\ CheckpointsHoldFiles'
        /\ Ids' = Ids /\ Pending' = Pending /\ ModelOf' = ModelOf
        /\ requests' = requests /\ raced' = raced /\ executed' = executed
        /\ results' = << >> /\ singles = {}
    <2>1. at' \in Statements
      BY <1>2 DEF Statements
    <2>2. blocked' \in [Models -> Nat]
      BY <1>1, <1>5
    <2>3. EngineTypeOK'
      BY <1>1, <1>3, <2>1, <2>2 DEF EngineTypeOK, futureVars, serviceVars, Ids
    <2>4. UNCHANGED <<futureVars, checkpointVars, backendVars, results,
                      serviceVars, executed, sampled>>
      BY <1>1
    <2> QED
      BY <1>1, <2>3, <2>4, SelectFrame, Zenon
  <1>7. UNCHANGED <<barrier, passes, samples, singles>>
    BY <1>1
  <1>8. ControlInv' /\ FoundInv'
    BY <1>1, <1>6, <1>7 DEF IInv, ControlInv, FoundInv
  <1>9. BarrierInv' /\ FirstBarrierInv'
    BY <1>1, <1>2, <1>6, <1>7 DEF IInv, SelectInv, BarrierInv, FirstBarrierInv
  <1>10. SkippedInv'
    BY <1>2 DEF SkippedInv
  <1>11. ASSUME NEW j \in Pending \ raced, NEW i \in Pending,
                i < j, Type(i) \in Passes, i \notin passes[Type(i)]
         PROVE  blocked'[ModelOf[i]] # 0 /\ blocked'[ModelOf[i]] <= i
    <2>1. PICK k \in Pending :
            k < i /\ Type(k) \in Destructive /\ ModelOf[k] = ModelOf[i]
      BY <1>1, <1>2, <1>11, Zenon DEF IInv, SelectInv, SkippedInv
    <2>2. k < j
      BY <1>4, <1>11, <2>1
    <2>3. barrier[ModelOf[i]] # 0 /\ barrier[ModelOf[i]] <= k
      BY <1>1, <1>2, <2>1, <2>2 DEF IInv, SelectInv, FirstBarrierInv
    <2>4. i >= barrier[ModelOf[i]]
      <3>1. barrier[ModelOf[i]] \in Nat /\ k \in Nat /\ i \in Nat
        BY <1>4
      <3> QED
        BY <2>1, <2>3, <3>1
    <2>5. i \in B(ModelOf[i])
      BY <1>11, <2>3, <2>4
    <2> HIDE DEF B
    <2> QED
      BY <1>4, <1>5, <2>5
  <1>12. BlockedInv'
    BY <1>6, <1>7, <1>11 DEF BlockedInv
  <1>13. PassesInv' /\ SinglesInv' /\ PassesFirstInv'
    BY <1>1, <1>6, <1>7 DEF IInv, RunInv, PassesInv, SinglesInv, PassesFirstInv
  <1> QED
    BY <1>6, <1>8, <1>9, <1>10, <1>12, <1>13 DEF IInv, SelectInv, RunInv

(* A request that is found single has each single request of its model     *)
(* before it found as well, and each pass that it must wait for.           *)
LEMMA SelectSinglesStep ==
  ASSUME IInv, SelectSingles
  PROVE  IInv'
  <1>1. /\ phase = "select" /\ phase' = "run" /\ at = "singles"
        /\ at' = "forward_backward"
        /\ singles' = {i \in Pending : Type(i) \in Single /\ ComesBefore(i, blocked)}
        /\ UNCHANGED <<futureVars, checkpointVars, backendVars, barrier, blocked,
                       passes, samples, results, serviceVars, executed, sampled>>
    BY DEF SelectSingles
  <1>2. QueueTypeOK /\ EngineTypeOK
    BY DEF IInv, TypeOK
  <1>3. /\ Pending \subseteq Ids /\ Ids \subseteq Nat
        /\ \A k \in Ids : ModelOf[k] \in Models
        /\ blocked \in [Models -> Nat]
    BY <1>2, RowTypes DEF EngineTypeOK
  <1>4. /\ TypeOK' /\ ExecutedInv' /\ SettledOrder' /\ CommitOrder'
        /\ SourceInv' /\ SavesInv' /\ CheckpointsHoldFiles'
        /\ Ids' = Ids /\ Pending' = Pending /\ ModelOf' = ModelOf
        /\ requests' = requests /\ raced' = raced /\ executed' = executed
        /\ results' = << >> /\ executed = Ids \ Pending
    <2>1. at' \in Groups /\ singles' \subseteq Ids
      BY <1>1, <1>3 DEF Groups, Passes
    <2>2. EngineTypeOK'
      BY <1>1, <1>2, <2>1 DEF EngineTypeOK, futureVars, serviceVars, Ids
    <2>3. UNCHANGED <<futureVars, checkpointVars, backendVars, results,
                      serviceVars, executed, sampled>>
      BY <1>1
    <2> QED
      BY <1>1, <2>2, <2>3, SelectFrame, Zenon
  <1>5. UNCHANGED <<barrier, blocked, passes, samples>>
    BY <1>1
  <1>6. ControlInv' /\ FoundInv'
    BY <1>1, <1>3, <1>4, <1>5 DEF IInv, ControlInv, FoundInv
  <1>7. SelectInv'
    BY <1>1 DEF SelectInv, BarrierInv, FirstBarrierInv, SkippedInv, BlockedInv
  <1>8. PassesInv' /\ PassesFirstInv'
    BY <1>1, <1>4, <1>5 DEF IInv, RunInv, PassesInv, PassesFirstInv
  <1>9. ASSUME NEW j \in singles', NEW i \in Ids \ executed,
               i < j, ModelOf[i] = ModelOf[j]
        PROVE  /\ Type(i) \in Single => i \in singles'
               /\ Type(i) \in Passes /\ Type(j) \in Destructive /\ j \notin raced
                    => i \in passes[Type(i)]
    <2> DEFINE b == blocked[ModelOf[i]]
    <2>1. i \in Pending /\ j \in Pending /\ (b = 0 \/ j < b)
      BY <1>1, <1>4, <1>9 DEF ComesBefore
    <2>2. i \in Nat /\ j \in Nat /\ b \in Nat
      BY <1>3, <2>1
    <2>3. b = 0 \/ (i < b /\ ~ (b <= i))
      <3> HIDE DEF b
      <3> QED
        BY <1>9, <2>1, <2>2
    <2>4. ASSUME Type(i) \in Single PROVE i \in singles'
      BY <1>1, <2>1, <2>3, <2>4 DEF ComesBefore
    <2>5. ASSUME Type(i) \in Passes, j \notin raced PROVE i \in passes[Type(i)]
      BY <1>1, <1>9, <2>1, <2>3, <2>5 DEF IInv, SelectInv, BlockedInv
    <2> QED
      BY <2>4, <2>5
  <1>10. SinglesInv'
    BY <1>4, <1>5, <1>9 DEF SinglesInv
  <1> QED
    BY <1>4, <1>6, <1>7, <1>8, <1>10 DEF IInv, RunInv

----------------------------------------------------------------------------
(* The backend.                                                            *)

LEMMA HistoryExtends ==
  /\ << >> \in History
  /\ \A h \in History, S \in SUBSET Nat : Append(h, S) \in History
  BY DEF History

(* What the steps below have to know of the slots.                         *)
LEMMA SlotTypes ==
  ASSUME BackendTypeOK
  PROVE  /\ \A m \in DOMAIN slot : m \in Models /\ slot[m] \in Slots
         /\ \A s \in Slots : weights[s] \in History /\ grads[s] \in SUBSET Ids
         /\ DOMAIN loaded = DOMAIN slot
  BY DEF BackendTypeOK

LEMMA CreateAdapterTypes ==
  ASSUME BackendTypeOK, Ids' = Ids, NEW m \in Models,
         FreeSlots # {}, CreateAdapter(m)
  PROVE  BackendTypeOK'
  <1> DEFINE s == CHOOSE s \in FreeSlots : \A t \in FreeSlots : s <= t
  <1>1. s \in FreeSlots
    <2>1. FreeSlots \in SUBSET Nat
      BY DEF FreeSlots, Slots
    <2>2. \E x \in FreeSlots : \A t \in FreeSlots : x <= t
      BY <2>1, MinOfSet
    <2> QED
      BY <2>2, Zenon
  <1>2. /\ slot' = [n \in DOMAIN slot \cup {m} |-> IF n = m THEN s ELSE slot[n]]
        /\ weights' = [weights EXCEPT ![s] = << >>]
        /\ loaded' = [n \in DOMAIN slot \cup {m} |-> IF n = m THEN 0 ELSE loaded[n]]
        /\ grads' = grads
    BY DEF CreateAdapter
  <1> HIDE DEF s
  <1>3. s \in Slots /\ \A n \in DOMAIN slot : slot[n] # s
    BY <1>1 DEF FreeSlots
  <1>4. /\ DOMAIN slot' \subseteq Models
        /\ slot' \in [DOMAIN slot' -> Slots]
        /\ \A k, n \in DOMAIN slot' : slot'[k] = slot'[n] => k = n
    BY <1>2, <1>3 DEF BackendTypeOK
  <1>5. weights' \in [Slots -> History]
    BY <1>2, HistoryExtends DEF BackendTypeOK
  <1>6. loaded' \in [DOMAIN slot' -> Nat] /\ grads' \in [Slots -> SUBSET Ids']
    BY <1>2 DEF BackendTypeOK
  <1> QED
    BY <1>4, <1>5, <1>6 DEF BackendTypeOK

LEMMA DeleteAdaptersTypes ==
  ASSUME BackendTypeOK, Ids' = Ids, NEW S, DeleteAdapters(S)
  PROVE  BackendTypeOK'
  <1>1. /\ slot' = [n \in DOMAIN slot \ S |-> slot[n]]
        /\ loaded' = [n \in DOMAIN slot \ S |-> loaded[n]] /\ grads' = grads
    BY DEF DeleteAdapters
  <1>2. /\ DOMAIN slot' \subseteq Models
        /\ slot' \in [DOMAIN slot' -> Slots]
        /\ \A k, n \in DOMAIN slot' : slot'[k] = slot'[n] => k = n
        /\ loaded' \in [DOMAIN slot' -> Nat]
    BY <1>1 DEF BackendTypeOK
  <1>3. weights' \in [Slots -> History]
    BY HistoryExtends DEF BackendTypeOK, DeleteAdapters
  <1> QED
    BY <1>1, <1>2, <1>3 DEF BackendTypeOK

LEMMA OptimStepTypes ==
  ASSUME BackendTypeOK, Ids' = Ids, Ids \subseteq Nat, NEW m \in DOMAIN slot, OptimStep(m)
  PROVE  BackendTypeOK'
  <1>1. /\ weights' = [weights EXCEPT ![slot[m]] = Append(@, grads[slot[m]])]
        /\ grads' = [grads EXCEPT ![slot[m]] = {}]
        /\ UNCHANGED <<slot, loaded>>
    BY DEF OptimStep
  <1>2. Append(weights[slot[m]], grads[slot[m]]) \in History
    BY SlotTypes, HistoryExtends
  <1> QED
    BY <1>1, <1>2 DEF BackendTypeOK

LEMMA LoadCheckpointTypes ==
  ASSUME BackendTypeOK, Ids' = Ids, NEW m \in DOMAIN slot,
         NEW h \in History, LoadCheckpoint(m, h)
  PROVE  BackendTypeOK'
  BY DEF BackendTypeOK, LoadCheckpoint

LEMMA AccumulateTypes ==
  ASSUME BackendTypeOK, Ids' = Ids, NEW S \in SUBSET Ids, Accumulate(S, ModelOf)
  PROVE  BackendTypeOK'
  <1>1. /\ grads' = [s \in Slots |-> grads[s] \cup
                      {i \in S : HasModel(ModelOf[i]) /\ slot[ModelOf[i]] = s}]
        /\ UNCHANGED <<slot, weights, loaded>>
    BY DEF Accumulate
  <1>2. grads' \in [Slots -> SUBSET Ids']
    BY <1>1 DEF BackendTypeOK
  <1> QED
    BY <1>1, <1>2 DEF BackendTypeOK

LEMMA LoadSamplerWeightsTypes ==
  ASSUME BackendTypeOK, Ids' = Ids, NEW want,
         \A m \in DOMAIN want : want[m] \in Nat /\ want[m] \in DOMAIN file,
         DOMAIN want \subseteq DOMAIN slot,
         file \in [DOMAIN file -> History], LoadSamplerWeights(want, file)
  PROVE  BackendTypeOK'
  <1> DEFINE stale == {m \in DOMAIN want : loaded[m] # want[m]}
  <1>1. /\ weights' = [s \in Slots |->
             IF \E m \in stale : slot[m] = s
             THEN file[want[CHOOSE m \in stale : slot[m] = s]]
             ELSE weights[s]]
        /\ loaded' = [m \in DOMAIN loaded |->
                        IF m \in stale THEN want[m] ELSE loaded[m]]
        /\ UNCHANGED <<slot, grads>>
    BY DEF LoadSamplerWeights
  <1>2. stale \subseteq DOMAIN want
    OBVIOUS
  <1> HIDE DEF stale
  <1>3. ASSUME NEW s \in Slots PROVE weights'[s] \in History
    <2>1. CASE \E m \in stale : slot[m] = s
      <3> DEFINE c == CHOOSE m \in stale : slot[m] = s
      <3>1. c \in stale
        BY <2>1, Zenon
      <3>2. weights'[s] = file[want[c]]
        BY <1>1, <2>1
      <3> QED
        BY <1>2, <3>1, <3>2
    <2>2. CASE ~ \E m \in stale : slot[m] = s
      BY <1>1, <2>2, SlotTypes
    <2> QED
      BY <2>1, <2>2
  <1>4. weights' \in [Slots -> History]
    BY <1>1, <1>3
  <1>5. loaded' \in [DOMAIN slot' -> Nat]
    BY <1>1, <1>2 DEF BackendTypeOK
  <1> QED
    BY <1>1, <1>4, <1>5 DEF BackendTypeOK

----------------------------------------------------------------------------
(* Running what was found.                                                 *)

(* Types that are passes, samples or single exclude each other.            *)
LEMMA KindsDiffer ==
  /\ Passes \cap Single = {} /\ "sample" \notin Single \cup Passes
  /\ Saves \subseteq Single /\ Destructive \subseteq Single
  /\ Passes \cap Destructive = {}
  /\ Passes = {"forward_backward", "forward"}
  BY DEF Passes, Single, Saves, Destructive

(* A batch of passes or samples has been run.                              *)
LEMMA BatchStep ==
  ASSUME IInv, phase = "run", at \in {"forward_backward", "forward", "samples"},
         NEW S, S = IF at = "samples" THEN samples ELSE passes[at],
         results' \in [S -> {"completed", "failed"}],
         executed' = executed \cup S, phase' = "write",
         UNCHANGED <<futureVars, checkpointVars, foundVars, at, serviceVars>>,
         BackendTypeOK', sampled' \in [DOMAIN sampled' -> History]
  PROVE  IInv'
  <1>1. /\ UNCHANGED <<requests, status, raced, checkpoint, file>>
        /\ UNCHANGED <<barrier, blocked, passes, samples, singles>>
        /\ UNCHANGED <<at, expired, restarts>>
    BY DEF futureVars, checkpointVars, foundVars, serviceVars
  <1>2. Ids' = Ids /\ Pending' = Pending /\ ModelOf' = ModelOf
    BY <1>1 DEF Ids, Pending, ModelOf
  <1>3. /\ S \subseteq Ids
        /\ \A i \in S : Type(i) \notin Single /\ (Type(i) \in Passes => i \in passes[Type(i)])
        /\ at # "samples" => S = passes[at]
    BY KindsDiffer DEF IInv, FoundInv
  <1>4. results = << >> /\ DOMAIN results = {} /\ executed = Ids \ Pending
    BY DEF IInv, ControlInv, ExecutedInv
  <1>5. TypeOK'
    <2>1. QueueTypeOK /\ EngineTypeOK
      BY DEF IInv, TypeOK
    <2>2. QueueTypeOK'
      BY <1>1, <1>2, <2>1 DEF QueueTypeOK
    <2>3. at \in Groups
      BY DEF Groups, Passes
    <2>4. EngineTypeOK'
      BY <1>1, <1>2, <1>3, <2>1, <2>3 DEF EngineTypeOK
    <2> QED
      BY <2>2, <2>4 DEF TypeOK
  <1>6. ControlInv' /\ ExecutedInv' /\ FoundInv'
    <2>1. ControlInv' /\ ExecutedInv'
      BY <1>1, <1>2, <1>3, <1>4 DEF ControlInv, ExecutedInv
    <2>2. FoundInv'
      BY <1>1, <1>2, <1>3 DEF IInv, FoundInv
    <2> QED
      BY <2>1, <2>2
  <1>7. SelectInv'
    BY DEF SelectInv, BarrierInv, FirstBarrierInv, SkippedInv, BlockedInv
  <1>8. RunInv'
    <2>1. PassesInv' /\ SinglesInv'
      BY <1>1, <1>2 DEF IInv, RunInv, PassesInv, SinglesInv
    <2>2. ASSUME NEW t \in Passes,
                 \/ t = "forward" /\ at \in {"samples", "singles"}
                 \/ t = "forward_backward" /\ at \in {"forward", "samples", "singles"}
                 \/ at = t
          PROVE  passes[t] \subseteq executed \cup S
      <3>1. CASE at = t
        BY <3>1, KindsDiffer
      <3>2. CASE at # t
        <4>1. passes[t] \subseteq executed
          BY <2>2, <3>2 DEF IInv, RunInv, PassesFirstInv
        <4> QED
          BY <4>1
      <3> QED
        BY <3>1, <3>2
    <2>3. PassesFirstInv'
      BY <1>1, <2>2 DEF PassesFirstInv
    <2> QED
      BY <2>1, <2>3 DEF RunInv
  <1>9. SettledOrder'
    BY <1>1, <1>2 DEF IInv, SettledOrder, Ordered
  <1>10. CommitOrder'
    <2>1. ASSUME NEW j \in executed \cup S, NEW i \in Ids \ (executed \cup S), i < j
          PROVE  ~Ordered(i, j)
      <3>1. CASE j \in executed
        BY <2>1, <3>1 DEF IInv, CommitOrder
      <3>2. CASE j \in S
        <4>1. SUFFICES ASSUME Ordered(i, j) PROVE FALSE
          OBVIOUS
        <4>2. /\ j \notin raced /\ Type(i) \in Destructive /\ Type(j) \in Passes
              /\ ModelOf[i] = ModelOf[j]
          BY <1>3, <3>2, <4>1, KindsDiffer DEF Ordered
        <4>3. i \in Pending
          BY <1>4, <2>1
        <4> QED
          BY <1>3, <2>1, <3>2, <4>2, <4>3 DEF IInv, RunInv, PassesInv
      <3> QED
        BY <2>1, <3>1, <3>2
    <2> QED
      BY <1>1, <1>2, <2>1 DEF CommitOrder, Ordered
  <1>11. SourceInv' /\ SavesInv' /\ CheckpointsHoldFiles'
    BY <1>1, <1>2, <1>3, KindsDiffer
    DEF IInv, SourceInv, SavesInv, CheckpointsHoldFiles
  <1> QED
    BY <1>5, <1>6, <1>7, <1>8, <1>9, <1>10, <1>11 DEF IInv

LEMMA RunPassesStep ==
  ASSUME IInv, RunPasses \/ FailPasses
  PROVE  IInv'
  <1>1. /\ phase = "run" /\ at \in Passes
        /\ results' \in [passes[at] -> {"completed", "failed"}]
        /\ executed' = executed \cup passes[at] /\ phase' = "write"
        /\ \/ UNCHANGED backendVars
           \/ \E S \in SUBSET passes[at] : Accumulate(S, ModelOf)
        /\ UNCHANGED <<futureVars, checkpointVars, foundVars, at, serviceVars, sampled>>
    BY DEF RunPasses, FailPasses, BatchResults
  <1>2. BackendTypeOK /\ EngineTypeOK
    BY DEF IInv, TypeOK
  <1>3. Ids' = Ids
    BY <1>1 DEF futureVars, Ids
  <1>4. BackendTypeOK'
    <2>1. CASE UNCHANGED backendVars
      BY <1>2, <1>3, <2>1 DEF BackendTypeOK, backendVars
    <2>2. CASE \E S \in SUBSET passes[at] : Accumulate(S, ModelOf)
      <3>1. PICK S \in SUBSET passes[at] : Accumulate(S, ModelOf)
        BY <2>2
      <3>2. S \in SUBSET Ids
        BY <1>1, <1>2 DEF EngineTypeOK
      <3> QED
        BY <1>2, <1>3, <3>1, <3>2, AccumulateTypes
    <2> QED
      BY <1>1, <2>1, <2>2
  <1>5. sampled' \in [DOMAIN sampled' -> History]
    BY <1>1, <1>2 DEF EngineTypeOK
  <1>6. /\ at \in {"forward_backward", "forward", "samples"}
        /\ passes[at] = IF at = "samples" THEN samples ELSE passes[at]
        /\ UNCHANGED <<futureVars, checkpointVars, foundVars, at, serviceVars>>
    BY <1>1, KindsDiffer
  <1> QED
    BY <1>1, <1>4, <1>5, <1>6, BatchStep

(* A batch of samples, answered or failed: what was read and what was drawn. *)
LEMMA SampleBatches ==
  ASSUME RunSamples \/ FailSamples
  PROVE  \E read \in SUBSET {i \in samples : Valid(i)} : \E drawn \in SUBSET read :
           /\ SampleBatch(read, drawn)
           /\ results' \in [samples -> {"completed", "failed"}]
  <1> DEFINE valid == {i \in samples : Valid(i)}
  <1>1. CASE RunSamples
    <2>1. SampleBatch(valid, valid) /\ results' \in [samples -> {"completed", "failed"}]
      BY <1>1 DEF RunSamples, BatchResults
    <2>2. valid \in SUBSET valid
      OBVIOUS
    <2> QED
      BY <2>1, <2>2
  <1>2. CASE FailSamples
    <2>1. PICK read \in SUBSET valid : SampleBatch(read, {})
      BY <1>2 DEF FailSamples
    <2>2. {} \in SUBSET read
      OBVIOUS
    <2>3. results' \in [samples -> {"completed", "failed"}]
      BY <1>2 DEF FailSamples
    <2> QED
      BY <2>1, <2>2, <2>3
  <1> QED
    BY <1>1, <1>2

LEMMA RunSamplesStep ==
  ASSUME IInv, RunSamples \/ FailSamples
  PROVE  IInv'
  <1>0. PICK read \in SUBSET {i \in samples : Valid(i)} : \E drawn \in SUBSET read :
           /\ SampleBatch(read, drawn)
           /\ results' \in [samples -> {"completed", "failed"}]
    BY SampleBatches
  <1>a. PICK drawn \in SUBSET read :
           /\ SampleBatch(read, drawn)
           /\ results' \in [samples -> {"completed", "failed"}]
    BY <1>0
  <1> DEFINE want == Wanted(read)
  <1>1. /\ phase = "run" /\ at = "samples" /\ phase' = "write"
        /\ \/ /\ LoadSamplerWeights(want, file)
              /\ sampled' = [i \in DOMAIN sampled \cup drawn |->
                   IF i \in drawn THEN weights'[slot[ModelOf[i]]] ELSE sampled[i]]
           \/ UNCHANGED <<backendVars, sampled>>
        /\ executed' = executed \cup samples
        /\ UNCHANGED <<futureVars, checkpointVars, foundVars, at, serviceVars>>
    BY <1>a DEF SampleBatch
  <1>2. QueueTypeOK /\ BackendTypeOK /\ EngineTypeOK
    BY DEF IInv, TypeOK
  <1>3. Ids' = Ids
    BY <1>1 DEF futureVars, Ids
  <1>4. /\ \A i \in read : /\ i \in Ids /\ requests[i].source \in Nat
                             /\ requests[i].source \in DOMAIN file
                             /\ ModelOf[i] = requests[i].model
                             /\ ModelOf[i] \in DOMAIN slot
    <2>1. ASSUME NEW i \in read
          PROVE  /\ i \in Ids /\ requests[i].type = "sample"
                 /\ ModelOf[i] \in DOMAIN slot
      BY <2>1 DEF IInv, FoundInv, Valid, HasModel
    <2> QED
      BY <1>2, <2>1, RowTypes DEF IInv, SourceInv, ModelOf
  <1>5. ASSUME NEW m \in {ModelOf[i] : i \in read}
        PROVE  /\ want[m] \in Nat /\ want[m] \in DOMAIN file
               /\ m \in DOMAIN slot
    <2> DEFINE r == CHOOSE r \in {requests[i] : i \in read} : r.model = m
    <2>1. PICK k \in read : m = ModelOf[k]
      BY <1>5
    <2>2. requests[k] \in {requests[i] : i \in read} /\ requests[k].model = m
      BY <1>4, <2>1
    <2>3. r \in {requests[i] : i \in read}
      BY <2>2, Zenon
    <2>4. want[m] = r.source
      BY <1>5 DEF Wanted
    <2> HIDE DEF r
    <2>5. PICK i \in read : r = requests[i]
      BY <2>3
    <2> QED
      BY <1>4, <2>1, <2>4, <2>5
  <1>6. DOMAIN want = {ModelOf[i] : i \in read}
    BY DEF Wanted
  <1> HIDE DEF want
  <1>7. BackendTypeOK' /\ sampled' \in [DOMAIN sampled' -> History]
    <2>1. CASE UNCHANGED <<backendVars, sampled>>
      BY <1>2, <1>3, <2>1 DEF BackendTypeOK, EngineTypeOK, backendVars
    <2>2. CASE /\ LoadSamplerWeights(want, file)
               /\ sampled' = [i \in DOMAIN sampled \cup drawn |->
                    IF i \in drawn THEN weights'[slot[ModelOf[i]]] ELSE sampled[i]]
      <3>1. file \in [DOMAIN file -> History]
        BY <1>2 DEF QueueTypeOK
      <3>2. BackendTypeOK'
        BY <1>2, <1>3, <1>5, <1>6, <2>2, <3>1, LoadSamplerWeightsTypes
      <3>3. weights' \in [Slots -> History]
        BY <3>2 DEF BackendTypeOK
      <3>4. \A i \in drawn : weights'[slot[ModelOf[i]]] \in History
        BY <1>2, <1>4, <3>3, SlotTypes
      <3>5. sampled' \in [DOMAIN sampled' -> History]
        BY <1>2, <2>2, <3>4 DEF EngineTypeOK
      <3> QED
        BY <3>2, <3>5
    <2> QED
      BY <1>1, <2>1, <2>2
  <1>8. results' \in [samples -> {"completed", "failed"}]
    BY <1>a
  <1>9. /\ at \in {"forward_backward", "forward", "samples"}
        /\ samples = IF at = "samples" THEN samples ELSE passes[at]
    BY <1>1
  <1> QED
    BY <1>1, <1>7, <1>8, <1>9, BatchStep

(* A single request has been run, the first of those that were left.       *)
LEMMA SingleStep ==
  ASSUME IInv, NEW i \in singles, NextSingle(i),
         NEW outcome \in {"completed", "failed"}, Finish(i, outcome),
         BackendTypeOK',
         DOMAIN checkpoint' = DOMAIN checkpoint,
         checkpoint' \in [DOMAIN checkpoint -> Statuses],
         DOMAIN file \subseteq DOMAIN file', DOMAIN file' \subseteq DOMAIN checkpoint,
         file' \in [DOMAIN file' -> History],
         \A c \in DOMAIN checkpoint \ {i} : checkpoint'[c] = checkpoint[c],
         i \in DOMAIN checkpoint /\ checkpoint'[i] = "completed" => i \in DOMAIN file',
         Type(i) \in Saves /\ outcome = "completed" => checkpoint'[i] = "completed"
  PROVE  IInv'
  <1>1. /\ UNCHANGED <<requests, status, raced>>
        /\ UNCHANGED <<barrier, blocked, passes, samples>>
        /\ UNCHANGED <<phase, at, expired, restarts, sampled>>
        /\ executed' = executed \cup {i} /\ singles' = singles \ {i}
    BY DEF Finish, futureVars, serviceVars
  <1>2. Ids' = Ids /\ Pending' = Pending /\ ModelOf' = ModelOf
    BY <1>1 DEF Ids, Pending, ModelOf
  <1>3. /\ phase = "run" /\ at = "singles"
        /\ \A k \in singles : i <= k
    BY DEF NextSingle
  <1>4. QueueTypeOK /\ EngineTypeOK
    BY DEF IInv, TypeOK
  <1>5. /\ i \in Ids \ executed /\ Type(i) \in Single
        /\ executed = (Ids \ Pending) \cup DOMAIN results
        /\ DOMAIN results \subseteq Ids
    BY DEF IInv, FoundInv, ExecutedInv
  <1>6. i \in Pending /\ i \notin DOMAIN results /\ Ids \subseteq Nat
    BY <1>4, <1>5, RowTypes
  <1>7. /\ DOMAIN results' = DOMAIN results \cup {i}
        /\ results'[i] = outcome
        /\ \A k \in DOMAIN results : results'[k] = results[k]
        /\ results' \in [DOMAIN results' -> {"completed", "failed"}]
    BY <1>4, <1>6 DEF Finish, EngineTypeOK
  <1>8. TypeOK'
    <2>1. QueueTypeOK'
      BY <1>1, <1>2, <1>4 DEF QueueTypeOK
    <2>2. EngineTypeOK'
      BY <1>1, <1>2, <1>4, <1>5, <1>7 DEF EngineTypeOK
    <2> QED
      BY <2>1, <2>2 DEF TypeOK
  <1>9. ControlInv' /\ ExecutedInv' /\ FoundInv'
    <2>1. ControlInv' /\ ExecutedInv'
      BY <1>1, <1>2, <1>3, <1>5, <1>7 DEF ControlInv, ExecutedInv
    <2>2. FoundInv'
      BY <1>1, <1>2 DEF IInv, FoundInv
    <2> QED
      BY <2>1, <2>2
  <1>10. SelectInv'
    BY <1>1, <1>3 DEF SelectInv, BarrierInv, FirstBarrierInv, SkippedInv, BlockedInv
  <1>11. RunInv'
    <2>1. PassesInv' /\ SinglesInv'
      BY <1>1, <1>2 DEF IInv, RunInv, PassesInv, SinglesInv
    <2>2. PassesFirstInv'
      BY <1>1 DEF IInv, RunInv, PassesFirstInv
    <2> QED
      BY <2>1, <2>2 DEF RunInv
  <1>12. SettledOrder'
    BY <1>1, <1>2 DEF IInv, SettledOrder, Ordered
  <1>13. CommitOrder'
    <2>1. ASSUME NEW k \in Ids \ (executed \cup {i}), k < i, Ordered(k, i)
          PROVE  FALSE
      <3>1. k \notin singles
        BY <1>3, <1>5, <1>6, <2>1
      <3>2. ModelOf[k] = ModelOf[i] /\ Type(k) \notin Single
        BY <2>1, <3>1 DEF IInv, RunInv, SinglesInv, Ordered
      <3>3. Type(k) \in Passes /\ Type(i) \in Destructive /\ i \notin raced
        BY <1>5, <2>1, <3>2, KindsDiffer DEF Ordered
      <3>4. k \in passes[Type(k)]
        BY <2>1, <3>2, <3>3 DEF IInv, RunInv, SinglesInv
      <3>5. \A t \in Passes : passes[t] \subseteq executed
        BY <1>3, KindsDiffer DEF IInv, RunInv, PassesFirstInv
      <3> QED
        BY <2>1, <3>3, <3>4, <3>5
    <2>2. ASSUME NEW j \in executed \cup {i}, NEW k \in Ids \ (executed \cup {i}), k < j
          PROVE  ~Ordered(k, j)
      BY <2>1, <2>2 DEF IInv, CommitOrder
    <2> QED
      BY <1>1, <1>2, <2>2 DEF CommitOrder, Ordered
  <1>14. SourceInv'
    BY <1>1, <1>2 DEF IInv, SourceInv
  <1>15. SavesInv'
    BY <1>1, <1>2, <1>7 DEF IInv, SavesInv
  <1>16. CheckpointsHoldFiles'
    <2>1. ASSUME NEW c \in DOMAIN checkpoint, checkpoint'[c] = "completed"
          PROVE  c \in DOMAIN file'
      BY <2>1 DEF IInv, CheckpointsHoldFiles
    <2>2. ASSUME NEW k \in Ids, Type(k) \in Saves, status[k] = "completed"
          PROVE  checkpoint'[k] = "completed"
      <3>1. k # i
        BY <1>6, <2>2 DEF Pending
      <3> QED
        BY <2>2, <3>1 DEF IInv, CheckpointsHoldFiles, SavesInv
    <2> QED
      BY <1>1, <1>2, <2>1, <2>2 DEF CheckpointsHoldFiles
  <1> QED
    BY <1>8, <1>9, <1>10, <1>11, <1>12, <1>13, <1>14, <1>15, <1>16 DEF IInv

(* One that is no save, or a save that found no model.                     *)
LEMMA PlainSingleStep ==
  ASSUME IInv, NEW i \in singles, NextSingle(i),
         NEW outcome \in {"completed", "failed"}, Finish(i, outcome),
         BackendTypeOK', UNCHANGED checkpointVars,
         Type(i) \notin Saves \/ outcome = "failed"
  PROVE  IInv'
  <1>1. checkpoint' = checkpoint /\ file' = file
    BY DEF checkpointVars
  <1>2. /\ checkpoint \in [DOMAIN checkpoint -> Statuses]
        /\ DOMAIN file \subseteq DOMAIN checkpoint
        /\ file \in [DOMAIN file -> History]
    BY DEF IInv, TypeOK, QueueTypeOK
  <1>3. i \in DOMAIN checkpoint /\ checkpoint[i] = "completed" => i \in DOMAIN file
    BY DEF IInv, CheckpointsHoldFiles
  <1>4. /\ DOMAIN checkpoint' = DOMAIN checkpoint
        /\ checkpoint' \in [DOMAIN checkpoint -> Statuses]
        /\ DOMAIN file \subseteq DOMAIN file' /\ DOMAIN file' \subseteq DOMAIN checkpoint
        /\ file' \in [DOMAIN file' -> History]
        /\ \A c \in DOMAIN checkpoint \ {i} : checkpoint'[c] = checkpoint[c]
        /\ i \in DOMAIN checkpoint /\ checkpoint'[i] = "completed" => i \in DOMAIN file'
        /\ ~ (Type(i) \in Saves /\ outcome = "completed")
    BY <1>1, <1>2, <1>3
  <1> QED
    BY <1>4, SingleStep

LEMMA RunSaveStep ==
  ASSUME IInv, NEW i \in singles, RunSave(i)
  PROVE  IInv'
  <1>1. NextSingle(i) /\ Type(i) \in Saves /\ UNCHANGED backendVars
    BY DEF RunSave
  <1>2. QueueTypeOK /\ BackendTypeOK
    BY DEF IInv, TypeOK
  <1>3. BackendTypeOK'
    <2>1. Ids' = Ids
      BY DEF RunSave, Finish, futureVars, Ids
    <2> QED
      BY <1>1, <1>2, <2>1 DEF BackendTypeOK, backendVars
  <1>4. i \in DOMAIN checkpoint
    BY <1>1 DEF IInv, FoundInv, SavesInv
  <1>5. CASE ~Valid(i)
    <2>1. UNCHANGED checkpointVars /\ Finish(i, "failed")
      BY <1>5 DEF RunSave
    <2> QED
      BY <1>1, <1>3, <2>1, PlainSingleStep
  <1>6. CASE Valid(i)
    <2>1. CASE /\ file' = [c \in DOMAIN file \cup {i} |->
                     IF c = i THEN weights[slot[ModelOf[i]]] ELSE file[c]]
               /\ checkpoint' = [checkpoint EXCEPT ![i] = "completed"]
               /\ Finish(i, "completed")
      <3>1. weights[slot[ModelOf[i]]] \in History
        BY <1>2, <1>6, SlotTypes DEF Valid, HasModel
      <3>2. /\ DOMAIN checkpoint' = DOMAIN checkpoint
            /\ checkpoint' \in [DOMAIN checkpoint -> Statuses]
            /\ \A c \in DOMAIN checkpoint \ {i} : checkpoint'[c] = checkpoint[c]
            /\ checkpoint'[i] = "completed"
        BY <1>2, <1>4, <2>1 DEF QueueTypeOK, Statuses
      <3>3. /\ DOMAIN file \subseteq DOMAIN file' /\ DOMAIN file' \subseteq DOMAIN checkpoint
            /\ file' \in [DOMAIN file' -> History] /\ i \in DOMAIN file'
        BY <1>2, <1>4, <2>1, <3>1 DEF QueueTypeOK
      <3> QED
        BY <1>1, <1>3, <2>1, <3>2, <3>3, SingleStep
    <2>2. CASE /\ checkpoint' = [checkpoint EXCEPT ![i] = "failed"]
               /\ UNCHANGED file
               /\ Finish(i, "failed")
      <3>1. /\ DOMAIN checkpoint' = DOMAIN checkpoint
            /\ checkpoint' \in [DOMAIN checkpoint -> Statuses]
            /\ \A c \in DOMAIN checkpoint \ {i} : checkpoint'[c] = checkpoint[c]
            /\ checkpoint'[i] # "completed"
        BY <1>2, <1>4, <2>2 DEF QueueTypeOK, Statuses
      <3>2. /\ DOMAIN file \subseteq DOMAIN file' /\ DOMAIN file' \subseteq DOMAIN checkpoint
            /\ file' \in [DOMAIN file' -> History]
        BY <1>2, <2>2 DEF QueueTypeOK
      <3> QED
        BY <1>1, <1>3, <2>2, <3>1, <3>2, SingleStep
    <2> QED
      BY <1>6, <2>1, <2>2 DEF RunSave
  <1> QED
    BY <1>5, <1>6

LEMMA SinglesStep ==
  ASSUME IInv, NEW i \in singles,
         \/ RunCreateModel(i) \/ RunUnloadModel(i) \/ RunOptimStep(i)
         \/ RunLoadWeights(i) \/ RunSave(i)
  PROVE  IInv'
  <1>1. QueueTypeOK /\ BackendTypeOK
    BY DEF IInv, TypeOK
  <1>2. ASSUME NEW outcome, Finish(i, outcome) PROVE Ids' = Ids
    BY <1>2 DEF Finish, futureVars, Ids
  <1>3. ASSUME UNCHANGED backendVars, Ids' = Ids PROVE BackendTypeOK'
    BY <1>1, <1>3 DEF BackendTypeOK, backendVars
  <1>4. /\ i \in Ids /\ ModelOf[i] \in Models /\ Ids \subseteq Nat
    BY <1>1, RowTypes DEF IInv, FoundInv
  <1>5. CASE RunCreateModel(i)
    <2>1. PICK outcome \in {"completed", "failed"} :
            /\ Finish(i, outcome)
            /\ \/ FreeSlots # {} /\ CreateAdapter(ModelOf[i])
               \/ UNCHANGED backendVars
      BY <1>5 DEF RunCreateModel
    <2>2. BackendTypeOK'
      BY <1>1, <1>2, <1>3, <1>4, <2>1, CreateAdapterTypes
    <2>3. NextSingle(i) /\ Type(i) \notin Saves /\ UNCHANGED checkpointVars
      BY <1>5 DEF RunCreateModel, Saves
    <2> QED
      BY <2>1, <2>2, <2>3, PlainSingleStep
  <1>6. CASE RunUnloadModel(i)
    <2>1. /\ Finish(i, "completed")
          /\ DeleteAdapters({ModelOf[i]}) \/ UNCHANGED backendVars
      BY <1>6 DEF RunUnloadModel, DeleteAdapter
    <2>2. BackendTypeOK'
      BY <1>1, <1>2, <1>3, <2>1, DeleteAdaptersTypes
    <2>3. NextSingle(i) /\ Type(i) \notin Saves /\ UNCHANGED checkpointVars
      BY <1>6 DEF RunUnloadModel, Saves
    <2> QED
      BY <2>1, <2>2, <2>3, PlainSingleStep
  <1>7. CASE RunOptimStep(i)
    <2>1. PICK outcome \in {"completed", "failed"} :
            /\ Finish(i, outcome)
            /\ \/ ModelOf[i] \in DOMAIN slot /\ OptimStep(ModelOf[i])
               \/ UNCHANGED backendVars
      BY <1>7 DEF RunOptimStep, Valid, HasModel
    <2>2. BackendTypeOK'
      BY <1>1, <1>2, <1>3, <1>4, <2>1, OptimStepTypes
    <2>3. NextSingle(i) /\ Type(i) \notin Saves /\ UNCHANGED checkpointVars
      BY <1>7 DEF RunOptimStep, Saves
    <2> QED
      BY <2>1, <2>2, <2>3, PlainSingleStep
  <1>8. CASE RunLoadWeights(i)
    <2>1. PICK outcome \in {"completed", "failed"} :
            /\ Finish(i, outcome)
            /\ \/ /\ ModelOf[i] \in DOMAIN slot
                  /\ LoadCheckpoint(ModelOf[i], file[requests[i].source])
               \/ UNCHANGED backendVars
      BY <1>8 DEF RunLoadWeights, Valid, HasModel
    <2>2. file[requests[i].source] \in History
      <3>1. requests[i].source \in DOMAIN file
        BY <1>4, <1>8 DEF RunLoadWeights, IInv, SourceInv
      <3> QED
        BY <1>1, <3>1 DEF QueueTypeOK
    <2>3. BackendTypeOK'
      BY <1>1, <1>2, <1>3, <2>1, <2>2, LoadCheckpointTypes
    <2>4. NextSingle(i) /\ Type(i) \notin Saves /\ UNCHANGED checkpointVars
      BY <1>8 DEF RunLoadWeights, Saves
    <2> QED
      BY <2>1, <2>3, <2>4, PlainSingleStep
  <1>9. CASE RunSave(i)
    BY <1>9, RunSaveStep
  <1> QED
    BY <1>5, <1>6, <1>7, <1>8, <1>9

(* A group without requests is passed over, the singles come to an end.    *)
LEMMA NextGroupStep ==
  ASSUME IInv, SkipGroup \/ EndSingles
  PROVE  IInv'
  <1>1. /\ UNCHANGED <<requests, status, raced, checkpoint, file>>
        /\ UNCHANGED <<barrier, blocked, passes, samples, singles>>
        /\ UNCHANGED <<slot, weights, grads, loaded>>
        /\ UNCHANGED <<results, expired, restarts, executed, sampled>>
    BY DEF SkipGroup, EndSingles, futureVars, checkpointVars, foundVars,
           backendVars, serviceVars
  <1>2. Ids' = Ids /\ Pending' = Pending /\ ModelOf' = ModelOf
    BY <1>1 DEF Ids, Pending, ModelOf
  <1>3. /\ phase = "run"
        /\ \/ /\ phase' = "run"
              /\ \/ at = "forward_backward" /\ at' = "forward" /\ passes["forward_backward"] = {}
                 \/ at = "forward" /\ at' = "samples" /\ passes["forward"] = {}
                 \/ at = "samples" /\ at' = "singles"
           \/ phase' = "write" /\ at = "singles" /\ at' = "singles"
    BY DEF SkipGroup, EndSingles, NextGroup
  <1>4. TypeOK'
    <2>1. QueueTypeOK /\ BackendTypeOK /\ EngineTypeOK
      BY DEF IInv, TypeOK
    <2>2. QueueTypeOK' /\ BackendTypeOK'
      BY <1>1, <1>2, <2>1 DEF QueueTypeOK, BackendTypeOK
    <2>3. EngineTypeOK'
      <3>1. phase' \in {"run", "write"} /\ at' \in Groups
        BY <1>3 DEF Groups, Passes
      <3> QED
        BY <1>1, <1>2, <2>1, <3>1 DEF EngineTypeOK
    <2> QED
      BY <2>2, <2>3 DEF TypeOK
  <1>5. ControlInv' /\ ExecutedInv' /\ FoundInv'
    BY <1>1, <1>2, <1>3 DEF IInv, ControlInv, ExecutedInv, FoundInv
  <1>6. SelectInv'
    BY <1>3 DEF SelectInv, BarrierInv, FirstBarrierInv, SkippedInv, BlockedInv
  <1>7. PassesInv' /\ SinglesInv'
    BY <1>1, <1>2 DEF IInv, RunInv, PassesInv, SinglesInv
  <1>8. PassesFirstInv'
    <2>1. ASSUME NEW t \in Passes,
                 \/ t = "forward" /\ at' \in {"samples", "singles"}
                 \/ t = "forward_backward" /\ at' \in {"forward", "samples", "singles"}
                 \/ phase' = "write" /\ at' = t
          PROVE  passes[t] \subseteq executed
      <3>1. \/ passes[t] = {}
            \/ t = "forward" /\ at \in {"samples", "singles"}
            \/ t = "forward_backward" /\ at \in {"forward", "samples", "singles"}
        BY <1>3, <2>1, KindsDiffer
      <3> QED
        BY <1>3, <3>1 DEF IInv, RunInv, PassesFirstInv
    <2> QED
      BY <1>1, <2>1 DEF PassesFirstInv
  <1>9. SettledOrder' /\ CommitOrder'
    BY <1>1, <1>2 DEF IInv, SettledOrder, CommitOrder, Ordered
  <1>10. SourceInv' /\ SavesInv' /\ CheckpointsHoldFiles'
    BY <1>1, <1>2 DEF IInv, SourceInv, SavesInv, CheckpointsHoldFiles
  <1> QED
    BY <1>4, <1>5, <1>6, <1>7, <1>8, <1>9, <1>10 DEF IInv, RunInv

(* A status is written for every request that was run and no other.        *)
LEMMA WriteResultsStep ==
  ASSUME IInv, WriteResults
  PROVE  IInv'
  <1>1. /\ UNCHANGED <<requests, raced, checkpoint, file>>
        /\ UNCHANGED <<slot, weights, grads, loaded>>
        /\ UNCHANGED <<expired, restarts, executed, sampled>>
        /\ phase = "write" /\ results' = << >>
        /\ status' = [i \in Ids |->
             IF i \in DOMAIN results THEN results[i] ELSE status[i]]
    BY DEF WriteResults, checkpointVars, backendVars, serviceVars
  <1>2. Ids' = Ids /\ ModelOf' = ModelOf
    BY <1>1 DEF Ids, ModelOf
  <1>3. QueueTypeOK /\ BackendTypeOK /\ EngineTypeOK
    BY DEF IInv, TypeOK
  <1>4. /\ Len(requests) \in Nat /\ Ids = 1..Len(requests)
        /\ \A i \in Ids : status[i] \in Statuses
        /\ Pending \subseteq Ids
    BY <1>3, RowTypes
  <1>5. \A i \in DOMAIN results : results[i] \in {"completed", "failed"}
    BY <1>3 DEF EngineTypeOK
  <1>6. /\ Pending' = Pending \ DOMAIN results
        /\ executed = Ids \ Pending'
    BY <1>1, <1>2, <1>5 DEF IInv, ExecutedInv, Pending
  <1>7. /\ \/ /\ phase' = "run"
              /\ UNCHANGED <<barrier, blocked, passes, samples, singles>>
              /\ \/ at = "forward_backward" /\ at' = "forward"
                 \/ at = "forward" /\ at' = "samples"
                 \/ at = "samples" /\ at' = "singles"
           \/ /\ phase' = "select" /\ at' = FirstStatement
              /\ barrier' = [m \in Models |-> 0] /\ blocked' = [m \in Models |-> 0]
              /\ passes' = [t \in Passes |-> {}] /\ samples' = {} /\ singles' = {}
    BY DEF WriteResults, NextGroup, ForgetFound, foundVars
  <1>8. TypeOK'
    <2>1. \A i \in Ids : status'[i] \in Statuses
      BY <1>1, <1>4, <1>5 DEF Statuses
    <2>2. status' \in Seq(Statuses) /\ Len(status') = Len(requests')
      BY <1>1, <1>4, <2>1
    <2>3. QueueTypeOK' /\ BackendTypeOK'
      BY <1>1, <1>2, <1>3, <2>2 DEF QueueTypeOK, BackendTypeOK
    <2>4. /\ phase' \in {"select", "run", "write", "down"}
          /\ at' \in IF phase' \in {"run", "write"} THEN Groups ELSE Statements
      <3>1. CASE phase' = "run"
        BY <1>7, <3>1 DEF Groups, Passes
      <3>2. CASE phase' = "select" /\ at' = FirstStatement
        BY <3>2 DEF Statements, After
      <3> QED
        BY <1>7, <3>1, <3>2
    <2>5. /\ barrier' \in [Models -> Nat] /\ blocked' \in [Models -> Nat]
          /\ passes' \in [Passes -> SUBSET Ids]
          /\ samples' \subseteq Ids /\ singles' \subseteq Ids
      <3>1. CASE UNCHANGED <<barrier, blocked, passes, samples, singles>>
        BY <1>3, <3>1 DEF EngineTypeOK
      <3>2. CASE /\ barrier' = [m \in Models |-> 0] /\ blocked' = [m \in Models |-> 0]
                 /\ passes' = [t \in Passes |-> {}] /\ samples' = {} /\ singles' = {}
        BY <3>2
      <3> QED
        BY <1>7, <3>1, <3>2
    <2>6. DOMAIN results' = {} /\ results' \in [{} -> {"completed", "failed"}]
      BY <1>1
    <2>7. EngineTypeOK'
      BY <1>1, <1>2, <1>3, <2>4, <2>5, <2>6 DEF EngineTypeOK
    <2> QED
      BY <2>3, <2>7 DEF TypeOK
  <1>9. ControlInv' /\ ExecutedInv' /\ FoundInv'
    <2>1. ControlInv'
      BY <1>1, <1>7 DEF ControlInv
    <2>2. ExecutedInv'
      <3>1. DOMAIN results' = {}
        BY <1>1
      <3> QED
        BY <1>1, <1>2, <1>6, <3>1 DEF ExecutedInv
    <2>3. FoundInv'
      BY <1>1, <1>2, <1>7 DEF IInv, FoundInv
    <2> QED
      BY <2>1, <2>2, <2>3
  <1>10. SelectInv'
    BY <1>7 DEF SelectInv, BarrierInv, FirstBarrierInv, SkippedInv, BlockedInv, Behind
  <1>11. PassesInv' /\ SinglesInv'
    BY <1>1, <1>2, <1>6, <1>7 DEF IInv, RunInv, PassesInv, SinglesInv
  <1>12. PassesFirstInv'
    <2>1. ASSUME phase' = "run", NEW t \in Passes,
                 \/ t = "forward" /\ at' \in {"samples", "singles"}
                 \/ t = "forward_backward" /\ at' \in {"forward", "samples", "singles"}
          PROVE  passes[t] \subseteq executed
      <3>1. \/ t = "forward" /\ at \in {"samples", "singles"}
            \/ t = "forward_backward" /\ at \in {"forward", "samples", "singles"}
            \/ at = t
        BY <1>7, <2>1
      <3> QED
        BY <1>1, <3>1 DEF IInv, RunInv, PassesFirstInv
    <2> QED
      BY <1>1, <1>7, <2>1 DEF PassesFirstInv
  <1>13. SettledOrder' /\ CommitOrder'
    <2>1. CommitOrder'
      BY <1>1, <1>2 DEF IInv, CommitOrder, Ordered
    <2>2. Pending' = Ids \ executed
      BY <1>4, <1>6
    <2> QED
      BY <1>1, <1>2, <1>6, <2>1, <2>2 DEF SettledOrder, CommitOrder, Ordered
  <1>14. SourceInv' /\ SavesInv' /\ CheckpointsHoldFiles'
    BY <1>1, <1>2 DEF IInv, SourceInv, SavesInv, CheckpointsHoldFiles
  <1> QED
    BY <1>8, <1>9, <1>10, <1>11, <1>12, <1>13, <1>14 DEF IInv, RunInv

LEMMA CleanupStep ==
  ASSUME IInv, CleanupStaleSessions
  PROVE  IInv'
  <1>1. /\ UNCHANGED <<requests, status, raced, checkpoint, file>>
        /\ UNCHANGED <<barrier, blocked, passes, samples, singles>>
        /\ UNCHANGED <<phase, at, results, restarts, executed, sampled>>
    BY DEF CleanupStaleSessions, futureVars, checkpointVars, foundVars
  <1>2. Ids' = Ids /\ Pending' = Pending /\ ModelOf' = ModelOf
    BY <1>1 DEF Ids, Pending, ModelOf
  <1>3. PICK S \in SUBSET LiveSessions :
          DeleteAdapters(S \cap DOMAIN slot) /\ expired' = expired \cup S
    BY DEF CleanupStaleSessions
  <1>4. TypeOK'
    <2>1. QueueTypeOK /\ BackendTypeOK /\ EngineTypeOK
      BY DEF IInv, TypeOK
    <2>2. QueueTypeOK'
      BY <1>1, <1>2, <2>1 DEF QueueTypeOK
    <2>3. BackendTypeOK'
      BY <1>2, <1>3, <2>1, DeleteAdaptersTypes
    <2>4. EngineTypeOK'
      BY <1>1, <1>2, <1>3, <2>1 DEF EngineTypeOK, LiveSessions
    <2> QED
      BY <2>2, <2>3, <2>4 DEF TypeOK
  <1>5. ControlInv' /\ ExecutedInv' /\ FoundInv'
    BY <1>1, <1>2 DEF IInv, ControlInv, ExecutedInv, FoundInv
  <1>6. SelectInv'
    BY <1>1 DEF CleanupStaleSessions, SelectInv, BarrierInv, FirstBarrierInv,
                SkippedInv, BlockedInv, Behind
  <1>7. RunInv'
    BY <1>1, <1>2 DEF IInv, RunInv, PassesInv, SinglesInv, PassesFirstInv
  <1>8. SettledOrder' /\ CommitOrder'
    BY <1>1, <1>2 DEF IInv, SettledOrder, CommitOrder, Ordered
  <1>9. SourceInv' /\ SavesInv' /\ CheckpointsHoldFiles'
    BY <1>1, <1>2 DEF IInv, SourceInv, SavesInv, CheckpointsHoldFiles
  <1> QED
    BY <1>4, <1>5, <1>6, <1>7, <1>8, <1>9 DEF IInv

----------------------------------------------------------------------------
(* Exits, the start, and the theorems.                                     *)

(* A backend without models is typed, and so is an iteration's start.      *)
LEMMA EmptyTypes ==
  /\ DOMAIN << >> = {}
  /\ \A S : << >> \in [{} -> S]
  /\ [s \in Slots |-> << >>] \in [Slots -> History]
  BY HistoryExtends

(* An exit forgets what was run and not answered, all of it pending, so    *)
(* that the order kept is that of the answered requests.                   *)
LEMMA CrashStep ==
  ASSUME IInv, Crash
  PROVE  IInv'
  <1>1. /\ UNCHANGED <<requests, status, raced, checkpoint, file, expired, sampled>>
        /\ phase' = "down" /\ at' = FirstStatement /\ results' = << >>
        /\ executed' = executed \ Pending
        /\ restarts < MaxRestarts /\ restarts' = restarts + 1
        /\ barrier' = [m \in Models |-> 0] /\ blocked' = [m \in Models |-> 0]
        /\ passes' = [t \in Passes |-> {}] /\ samples' = {} /\ singles' = {}
    BY DEF Crash, ForgetFound, futureVars, checkpointVars
  <1>2. Ids' = Ids /\ Pending' = Pending /\ ModelOf' = ModelOf
    BY <1>1 DEF Ids, Pending, ModelOf
  <1>3. QueueTypeOK /\ BackendTypeOK /\ EngineTypeOK
    BY DEF IInv, TypeOK
  <1>4. DOMAIN results' = {} /\ results' \in [{} -> {"completed", "failed"}]
    BY <1>1, EmptyTypes
  <1>5. executed' = Ids \ Pending
    BY <1>1 DEF IInv, ExecutedInv
  <1>6. TypeOK'
    <2>1. QueueTypeOK'
      BY <1>1, <1>2, <1>3 DEF QueueTypeOK
    <2>2. BackendTypeOK'
      BY EmptyTypes DEF Crash, LoseBackend, BackendTypeOK
    <2>3. at' \in Statements
      BY <1>1 DEF Statements, After
    <2>4. restarts' \in 0..MaxRestarts
      <3>1. /\ restarts \in 0..MaxRestarts /\ MaxRestarts \in Nat
            /\ restarts < MaxRestarts /\ restarts' = restarts + 1
        BY <1>1, <1>3 DEF EngineTypeOK
      <3> QED
        BY <3>1
    <2>5. EngineTypeOK'
      BY <1>1, <1>2, <1>3, <1>4, <1>5, <2>3, <2>4 DEF EngineTypeOK
    <2> QED
      BY <2>1, <2>2, <2>5 DEF TypeOK
  <1>7. ControlInv' /\ ExecutedInv' /\ FoundInv'
    BY <1>1, <1>2, <1>4, <1>5 DEF ControlInv, ExecutedInv, FoundInv
  <1>8. SelectInv' /\ RunInv'
    BY <1>1 DEF SelectInv, BarrierInv, FirstBarrierInv, SkippedInv, BlockedInv,
                Behind, RunInv, PassesInv, SinglesInv, PassesFirstInv
  <1>9. SettledOrder' /\ CommitOrder'
    <2>1. SettledOrder'
      BY <1>1, <1>2 DEF IInv, SettledOrder, Ordered
    <2>2. executed' \subseteq Ids' /\ Ids' \ executed' = Pending'
      BY <1>2, <1>5 DEF Pending
    <2> QED
      BY <1>2, <1>5, <2>1, <2>2 DEF SettledOrder, CommitOrder
  <1>10. SourceInv' /\ SavesInv' /\ CheckpointsHoldFiles'
    BY <1>1, <1>2, <1>4 DEF IInv, SourceInv, SavesInv, CheckpointsHoldFiles
  <1> QED
    BY <1>6, <1>7, <1>8, <1>9, <1>10 DEF IInv

LEMMA RestartStep ==
  ASSUME IInv, Restart
  PROVE  IInv'
  <1>1. /\ UNCHANGED <<requests, status, raced, checkpoint, file, expired, sampled>>
        /\ UNCHANGED <<slot, weights, grads, loaded>>
        /\ UNCHANGED <<barrier, blocked, passes, samples, singles>>
        /\ UNCHANGED <<at, results, restarts, executed>>
        /\ phase = "down" /\ phase' = "select"
    BY DEF Restart, futureVars, checkpointVars, foundVars, backendVars, serviceVars
  <1>2. Ids' = Ids /\ Pending' = Pending /\ ModelOf' = ModelOf
    BY <1>1 DEF Ids, Pending, ModelOf
  <1>3. at = FirstStatement /\ results = << >> /\ singles = {}
    BY <1>1 DEF IInv, ControlInv
  <1>4. TypeOK'
    <2>1. QueueTypeOK /\ BackendTypeOK /\ EngineTypeOK
      BY DEF IInv, TypeOK
    <2>2. QueueTypeOK' /\ BackendTypeOK'
      BY <1>1, <1>2, <2>1 DEF QueueTypeOK, BackendTypeOK
    <2>3. EngineTypeOK'
      BY <1>1, <1>2, <2>1 DEF EngineTypeOK
    <2> QED
      BY <2>2, <2>3 DEF TypeOK
  <1>5. ControlInv' /\ ExecutedInv' /\ FoundInv'
    BY <1>1, <1>2, <1>3 DEF IInv, ControlInv, ExecutedInv, FoundInv
  <1>6. SelectInv'
    BY <1>1, <1>3 DEF SelectInv, BarrierInv, FirstBarrierInv, SkippedInv,
                      BlockedInv, Behind
  <1>7. RunInv'
    BY <1>1, <1>2 DEF IInv, RunInv, PassesInv, SinglesInv, PassesFirstInv
  <1>8. SettledOrder' /\ CommitOrder'
    BY <1>1, <1>2 DEF IInv, SettledOrder, CommitOrder, Ordered
  <1>9. SourceInv' /\ SavesInv' /\ CheckpointsHoldFiles'
    BY <1>1, <1>2 DEF IInv, SourceInv, SavesInv, CheckpointsHoldFiles
  <1> QED
    BY <1>4, <1>5, <1>6, <1>7, <1>8, <1>9 DEF IInv

LEMMA InitIInv == Init => IInv
  <1> SUFFICES ASSUME Init PROVE IInv
    OBVIOUS
  <1>1. /\ requests = << >> /\ status = << >> /\ checkpoint = << >> /\ file = << >>
        /\ results = << >> /\ sampled = << >> /\ slot = << >> /\ loaded = << >>
        /\ expired = {} /\ restarts = 0 /\ executed = {} /\ raced = {}
        /\ phase = "select" /\ at = FirstStatement
        /\ barrier = [m \in Models |-> 0] /\ blocked = [m \in Models |-> 0]
        /\ passes = [t \in Passes |-> {}] /\ samples = {} /\ singles = {}
    BY DEF Init, NothingFound, EmptyBackend
  <1>2. Ids = {} /\ Pending = {}
    BY <1>1, EmptyTypes DEF Ids, Pending
  <1>3. TypeOK
    <2>1. QueueTypeOK
      <3>1. \A S : << >> \in Seq(S)
        OBVIOUS
      <3>2. requests \in Seq([type : RequestTypes, model : Models, source : Nat])
            /\ status \in Seq(Statuses) /\ Len(status) = Len(requests)
        BY <1>1, <3>1
      <3>3. /\ DOMAIN checkpoint = {} /\ checkpoint \in [{} -> Statuses]
            /\ DOMAIN file = {} /\ file \in [{} -> History]
        BY <1>1, EmptyTypes
      <3> QED
        BY <3>2, <3>3 DEF QueueTypeOK
    <2>2. BackendTypeOK
      BY EmptyTypes DEF Init, EmptyBackend, BackendTypeOK
    <2>3. at \in Statements
      BY <1>1 DEF Statements, After
    <2>4. /\ DOMAIN results = {} /\ results \in [{} -> {"completed", "failed"}]
          /\ DOMAIN sampled = {} /\ sampled \in [{} -> History]
      BY <1>1, EmptyTypes
    <2>5. restarts \in 0..MaxRestarts
      <3>1. restarts = 0 /\ MaxRestarts \in Nat
        BY <1>1
      <3> QED
        BY <3>1
    <2>6. EngineTypeOK
      BY <1>1, <2>3, <2>4, <2>5 DEF EngineTypeOK
    <2> QED
      BY <2>1, <2>2, <2>6 DEF TypeOK
  <1>4. ControlInv /\ ExecutedInv /\ FoundInv
    BY <1>1, <1>2, EmptyTypes DEF ControlInv, ExecutedInv, FoundInv
  <1>5. SelectInv /\ RunInv
    BY <1>1 DEF SelectInv, BarrierInv, FirstBarrierInv, SkippedInv, BlockedInv,
                Behind, RunInv, PassesInv, SinglesInv, PassesFirstInv
  <1>6. /\ SettledOrder /\ CommitOrder
        /\ SourceInv /\ SavesInv /\ CheckpointsHoldFiles
    BY <1>1, <1>2, EmptyTypes DEF SettledOrder, CommitOrder, SourceInv, SavesInv,
                                  CheckpointsHoldFiles
  <1> QED
    BY <1>3, <1>4, <1>5, <1>6 DEF IInv

LEMMA NextIInv ==
  ASSUME IInv, [Next]_vars
  PROVE  IInv'
  <1>1. CASE APINext
    BY <1>1, APIStep
  <1>2. CASE EngineNext
    <2>1. CASE \E t \in Passes : SelectPasses(t)
      BY <2>1, SelectPassesStep
    <2>2. CASE SelectBarriers \/ SelectSamples \/ SelectBlockedPasses \/ SelectSingles
      BY <2>2, SelectBarriersStep, SelectSamplesStep, SelectBlockedPassesStep,
         SelectSinglesStep
    <2>3. CASE RunPasses \/ FailPasses \/ RunSamples \/ FailSamples
      BY <2>3, RunPassesStep, RunSamplesStep
    <2>4. CASE \E i \in singles : \/ RunCreateModel(i) \/ RunUnloadModel(i)
                                  \/ RunOptimStep(i) \/ RunLoadWeights(i)
                                  \/ RunSave(i)
      BY <2>4, SinglesStep
    <2>5. CASE SkipGroup \/ EndSingles \/ WriteResults
      BY <2>5, NextGroupStep, WriteResultsStep
    <2>6. CASE CleanupStaleSessions
      BY <2>6, CleanupStep
    <2> QED
      BY <1>2, <2>1, <2>2, <2>3, <2>4, <2>5, <2>6, Zenon DEF EngineNext
  <1>3. CASE Crash
    BY <1>3, CrashStep
  <1>4. CASE Restart
    BY <1>4, RestartStep
  <1>5. CASE UNCHANGED vars
    <2>1. /\ UNCHANGED <<requests, status, raced, checkpoint, file, expired, sampled>>
          /\ UNCHANGED <<slot, weights, grads, loaded>>
          /\ UNCHANGED <<barrier, blocked, passes, samples, singles>>
          /\ UNCHANGED <<phase, at, results, restarts, executed>>
      BY <1>5 DEF vars, futureVars, checkpointVars, foundVars, backendVars, serviceVars
    <2>2. Ids' = Ids /\ Pending' = Pending /\ ModelOf' = ModelOf
      BY <2>1 DEF Ids, Pending, ModelOf
    <2>3. TypeOK'
      BY <2>1, <2>2 DEF IInv, TypeOK, QueueTypeOK, BackendTypeOK, EngineTypeOK
    <2>4. ControlInv' /\ ExecutedInv' /\ FoundInv'
      BY <2>1, <2>2 DEF IInv, ControlInv, ExecutedInv, FoundInv
    <2>5. SelectInv'
      <3>1. BarrierInv' /\ FirstBarrierInv'
        BY <2>1, <2>2 DEF IInv, SelectInv, BarrierInv, FirstBarrierInv
      <3>2. SkippedInv'
        <4>1. SkippedInv /\ UNCHANGED <<phase, at, passes, requests, raced>>
          BY <2>1 DEF IInv, SelectInv
        <4> QED
          BY <2>2, <4>1 DEF SkippedInv
      <3>3. BlockedInv'
        BY <2>1, <2>2 DEF IInv, SelectInv, BlockedInv
      <3> QED
        BY <3>1, <3>2, <3>3 DEF SelectInv
    <2>6. RunInv'
      BY <2>1, <2>2 DEF IInv, RunInv, PassesInv, SinglesInv, PassesFirstInv
    <2>7. SettledOrder' /\ CommitOrder'
      BY <2>1, <2>2 DEF IInv, SettledOrder, CommitOrder, Ordered
    <2>8. SourceInv' /\ SavesInv' /\ CheckpointsHoldFiles'
      BY <2>1, <2>2 DEF IInv, SourceInv, SavesInv, CheckpointsHoldFiles
    <2> QED
      BY <2>3, <2>4, <2>5, <2>6, <2>7, <2>8 DEF IInv
  <1> QED
    BY <1>1, <1>2, <1>3, <1>4, <1>5 DEF Next

(* In every reachable state of the engine what its queries found so far    *)
(* is enough to keep the order: the strengthening the theorems below use.  *)
THEOREM EngineInvariant == Spec => []IInv
  <1>1. IInv /\ [Next]_vars => IInv'
    BY NextIInv
  <1> QED
    BY InitIInv, <1>1, PTL DEF Spec

(* Rows, checkpoints, slots and what an iteration found are well typed,    *)
(* and create_model never gives two models one slot, whatever is unloaded, *)
(* cleaned up or lost between.                                             *)
THEOREM EngineTypes == Spec => []TypeOK
  <1>1. IInv => TypeOK
    BY DEF IInv
  <1> QED
    BY EngineInvariant, <1>1, PTL

(* The eight SELECTs of an iteration, with commits between them, exits and *)
(* reruns, never let a request overtake one of its model that it must wait *)
(* for, unless it was committed while the queue was read.                  *)
THEOREM EngineKeepsOrder == Spec => []CommitOrder
  <1>1. IInv => CommitOrder
    BY DEF IInv
  <1> QED
    BY EngineInvariant, <1>1, PTL

(* A checkpoint is marked completed only after its file is written, a save *)
(* is answered only after that, and neither is undone by an exit.          *)
THEOREM CheckpointsAreWritten == Spec => []CheckpointsHoldFiles
  <1>1. IInv => CheckpointsHoldFiles
    BY DEF IInv
  <1> QED
    BY EngineInvariant, <1>1, PTL
----------------------------------------------------------------------------
(* Whose gradients are applied, and how often.                             *)

(* The requests whose result the clients know.                             *)
Settled == Ids \ Pending

(* Requests are of the kinds clients use, and no model is created twice.   *)
CreatedInv ==
  /\ \A i \in Ids : Type(i) \in Kinds
  /\ \A i, j \in Ids : /\ Type(i) = "create_model" /\ Type(j) = "create_model"
                       /\ ModelOf[i] = ModelOf[j]
                       => i = j

(* The passes of an iteration are answered before its single requests run. *)
ResultsInv == at = "singles" => \A i \in DOMAIN results : Type(i) \in Single

(* The groups of an iteration, and those run before each of them.          *)
Group(t) == IF t = "samples" THEN samples ELSE passes[t]

Earlier(t) ==
  {g \in {"forward_backward", "forward"} :
     t = "samples" \/ (t = "forward" /\ g = "forward_backward")}

(* A group whose turn has not come has not been run.                       *)
UnrunInv ==
  \A t \in {"forward_backward", "forward", "samples"} :
    \/ phase \in {"select", "down"}
    \/ phase = "run" /\ at = t
    \/ phase \in {"run", "write"} /\ at \in Earlier(t)
    => Group(t) \subseteq Ids \ executed

(* The histories that there are: of the slots and of the files.            *)
Histories == {weights[s] : s \in Slots} \cup {file[c] : c \in DOMAIN file}

(* A history is of answered requests, each applied in one step of it.      *)
AppliedInv ==
  \A h \in Histories :
    /\ \A k \in DOMAIN h : h[k] \subseteq Settled
    /\ \A k, l \in DOMAIN h : k # l => h[k] \cap h[l] = {}

(* A pass whose gradients are kept was run, is in one slot, and is in no   *)
(* step of any history, so that the next step is the first to apply it.    *)
GradsInv ==
  \A s \in Slots : \A i \in grads[s] :
    /\ i \in executed /\ Type(i) = "forward_backward"
    /\ \A t \in Slots \ {s} : i \notin grads[t]
    /\ \A h \in Histories : \A k \in DOMAIN h : i \notin h[k]

StepInv == CreatedInv /\ ResultsInv /\ UnrunInv /\ AppliedInv /\ GradsInv

----------------------------------------------------------------------------
(* What the actions do, as far as those invariants see it.                 *)

(* Statements, the ends of groups and of exits: no request is run.         *)
QuietNext ==
  \/ SelectBarriers \/ \E t \in Passes : SelectPasses(t)
  \/ SelectSamples \/ SelectBlockedPasses \/ SelectSingles
  \/ SkipGroup \/ EndSingles \/ WriteResults \/ Restart \/ UNCHANGED vars

LEMMA NextCases ==
  ASSUME [Next]_vars
  PROVE  \/ APINext \/ QuietNext
         \/ RunPasses \/ FailPasses
         \/ RunSamples \/ FailSamples
         \/ \E i \in singles : \/ RunCreateModel(i) \/ RunUnloadModel(i)
                               \/ RunOptimStep(i) \/ RunLoadWeights(i)
                               \/ RunSave(i)
         \/ CleanupStaleSessions
         \/ Crash
  BY Zenon DEF Next, EngineNext, QuietNext

LEMMA APIEffect ==
  ASSUME IInv, APINext
  PROVE  \E type \in Kinds, m \in Models, source \in Ids \cup {0} :
           /\ CreateFuture(type, m, source) /\ file' = file
           /\ type = "create_model" => ~ModelExists(m)
  <1>1. PICK m \in Models :
          \/ CommitCreateModel(m)
          \/ \E type \in RequestTypes : CommitRequest(type, m) \/ CommitSave(type, m)
          \/ CommitLoad(m)
          \/ CommitSample(m)
    BY DEF APINext
  <1>2. ASSUME NEW type, NEW source, CreateFuture(type, m, source)
        PROVE  type \in Kinds
    BY <1>2 DEF CreateFuture
  <1>3. \A kind : Usable(kind) \subseteq Ids
    BY DEF Usable, IInv, TypeOK, QueueTypeOK
  <1>4. CASE CommitCreateModel(m)
    BY <1>2, <1>4 DEF CommitCreateModel, checkpointVars
  <1>5. ASSUME NEW type \in RequestTypes, CommitRequest(type, m) \/ CommitSave(type, m)
        PROVE  /\ CreateFuture(type, m, 0) /\ file' = file
               /\ type # "create_model"
    BY <1>5 DEF CommitRequest, CommitSave, checkpointVars, Passes, Saves
  <1>6. CASE CommitLoad(m)
    BY <1>2, <1>3, <1>6 DEF CommitLoad, checkpointVars
  <1>7. CASE CommitSample(m)
    BY <1>2, <1>3, <1>7 DEF CommitSample, checkpointVars
  <1> QED
    BY <1>1, <1>2, <1>4, <1>5, <1>6, <1>7

(* Statements answer nothing; WriteResults answers what was run.           *)
LEMMA QuietEffect ==
  ASSUME IInv, QuietNext
  PROVE  /\ UNCHANGED <<requests, raced, file, slot, weights, grads, executed>>
         /\ Ids' = Ids /\ ModelOf' = ModelOf
         /\ Settled' = Settled \/ Settled' = Settled \cup DOMAIN results
  <1>1. /\ UNCHANGED <<requests, raced, file, slot, weights, grads, executed>>
        /\ status' = status \/ WriteResults
    BY DEF QuietNext, SelectBarriers, SelectPasses, SelectSamples,
           SelectBlockedPasses, SelectSingles, SkipGroup, EndSingles,
           WriteResults, Restart, vars, futureVars, checkpointVars, backendVars
  <1>2. Ids' = Ids /\ ModelOf' = ModelOf
    BY <1>1 DEF Ids, ModelOf
  <1>3. CASE status' = status
    BY <1>1, <1>2, <1>3 DEF Settled, Pending
  <1>4. CASE WriteResults
    <2>1. status' = [i \in Ids |-> IF i \in DOMAIN results THEN results[i] ELSE status[i]]
      BY <1>4 DEF WriteResults
    <2>2. \A i \in DOMAIN results : i \in Ids /\ results[i] # "pending"
      BY DEF IInv, TypeOK, EngineTypeOK
    <2>3. Pending' = Pending \ DOMAIN results
      BY <1>2, <2>1, <2>2 DEF Pending
    <2> QED
      BY <1>1, <1>2, <2>2, <2>3 DEF Settled
  <1> QED
    BY <1>1, <1>2, <1>3, <1>4

LEMMA PassesEffect ==
  ASSUME IInv, RunPasses \/ FailPasses
  PROVE  /\ UNCHANGED <<requests, status, raced, file, slot, weights>>
         /\ UNCHANGED <<passes, samples, at>>
         /\ phase = "run" /\ phase' = "write" /\ at \in Passes
         /\ executed' = executed \cup passes[at]
         /\ executed = Settled
         /\ \E S \in SUBSET passes[at] :
              /\ S = {} \/ at = "forward_backward"
              /\ grads' = [s \in Slots |-> grads[s] \cup
                    {i \in S : ModelOf[i] \in DOMAIN slot /\ slot[ModelOf[i]] = s}]
  <1>1. /\ UNCHANGED <<requests, status, raced, file, passes, samples, at>>
        /\ phase = "run" /\ phase' = "write" /\ at \in Passes
        /\ executed' = executed \cup passes[at]
        /\ \/ UNCHANGED backendVars
           \/ /\ at = "forward_backward"
              /\ \E S \in SUBSET passes[at] : Accumulate(S, ModelOf)
    BY DEF RunPasses, FailPasses, futureVars, checkpointVars, foundVars
  <1>2. executed = Settled
    <2>1. results = << >>
      BY <1>1 DEF IInv, ControlInv, Passes
    <2> QED
      BY <2>1, EmptyTypes DEF IInv, ExecutedInv, Settled
  <1>3. CASE UNCHANGED backendVars
    <2>1. {} \in SUBSET passes[at] /\ UNCHANGED <<slot, weights, grads>>
      BY <1>3 DEF backendVars
    <2>2. grads = [s \in Slots |-> grads[s] \cup
                {i \in {} : ModelOf[i] \in DOMAIN slot /\ slot[ModelOf[i]] = s}]
      BY DEF IInv, TypeOK, BackendTypeOK
    <2> QED
      BY <1>1, <1>2, <2>1, <2>2
  <1>4. ASSUME at = "forward_backward", NEW S \in SUBSET passes[at],
               Accumulate(S, ModelOf)
        PROVE  /\ UNCHANGED <<slot, weights>>
               /\ grads' = [s \in Slots |-> grads[s] \cup
                    {i \in S : ModelOf[i] \in DOMAIN slot /\ slot[ModelOf[i]] = s}]
    BY <1>4 DEF Accumulate, HasModel
  <1> QED
    BY <1>1, <1>2, <1>3, <1>4

LEMMA SamplesEffect ==
  ASSUME IInv, RunSamples \/ FailSamples
  PROVE  /\ UNCHANGED <<requests, status, raced, file, slot, grads>>
         /\ UNCHANGED <<passes, samples, at>>
         /\ phase = "run" /\ phase' = "write" /\ at = "samples"
         /\ executed' = executed \cup samples
         /\ ~NativeSampling => weights' = weights
         /\ \A s \in Slots : weights'[s] \in Histories
  <1>0. PICK read \in SUBSET {i \in samples : Valid(i)} :
           \E drawn \in SUBSET read : SampleBatch(read, drawn)
    BY SampleBatches
  <1> DEFINE want == Wanted(read)
  <1>1. /\ phase = "run" /\ at = "samples" /\ phase' = "write"
        /\ \/ NativeSampling /\ LoadSamplerWeights(want, file)
           \/ UNCHANGED backendVars
        /\ ~NativeSampling => UNCHANGED backendVars
        /\ executed' = executed \cup samples
        /\ UNCHANGED <<requests, status, raced, file, passes, samples, at>>
    BY <1>0 DEF SampleBatch, futureVars, checkpointVars, foundVars
  <1>2. \A s \in Slots : weights[s] \in Histories
    BY DEF Histories
  <1>3. CASE UNCHANGED backendVars
    BY <1>1, <1>2, <1>3 DEF backendVars
  <1>4. CASE NativeSampling /\ LoadSamplerWeights(want, file)
    <2>1. \A i \in read : /\ requests[i].source \in DOMAIN file
                            /\ ModelOf[i] = requests[i].model
      <3>1. ASSUME NEW i \in read PROVE i \in Ids /\ requests[i].type = "sample"
        BY <3>1 DEF IInv, FoundInv
      <3> QED
        BY <3>1 DEF IInv, SourceInv, ModelOf
    <2>2. ASSUME NEW m \in {ModelOf[i] : i \in read} PROVE want[m] \in DOMAIN file
      <3> DEFINE r == CHOOSE r \in {requests[i] : i \in read} : r.model = m
      <3>1. PICK k \in read : m = ModelOf[k]
        BY <2>2
      <3>2. requests[k] \in {requests[i] : i \in read} /\ requests[k].model = m
        BY <2>1, <3>1
      <3>3. r \in {requests[i] : i \in read}
        BY <3>2, Zenon
      <3>4. want[m] = r.source
        BY <2>2 DEF Wanted
      <3> HIDE DEF r
      <3> QED
        BY <2>1, <3>3, <3>4
    <2>3. DOMAIN want = {ModelOf[i] : i \in read}
      BY DEF Wanted
    <2> HIDE DEF want
    <2> DEFINE stale == {m \in DOMAIN want : loaded[m] # want[m]}
    <2>4. /\ weights' = [s \in Slots |->
               IF \E m \in stale : slot[m] = s
               THEN file[want[CHOOSE m \in stale : slot[m] = s]]
               ELSE weights[s]]
          /\ UNCHANGED <<slot, grads>>
      BY <1>4 DEF LoadSamplerWeights
    <2>5. stale \subseteq DOMAIN want
      OBVIOUS
    <2> HIDE DEF stale
    <2>6. ASSUME NEW s \in Slots PROVE weights'[s] \in Histories
      <3>1. CASE \E m \in stale : slot[m] = s
        <4> DEFINE c == CHOOSE m \in stale : slot[m] = s
        <4>1. c \in stale
          BY <3>1, Zenon
        <4>2. weights'[s] = file[want[c]] /\ want[c] \in DOMAIN file
          BY <2>2, <2>3, <2>4, <2>5, <3>1, <4>1
        <4> QED
          BY <4>2 DEF Histories
      <3>2. CASE ~ \E m \in stale : slot[m] = s
        BY <1>2, <2>4, <3>2
      <3> QED
        BY <3>1, <3>2
    <2> QED
      BY <1>1, <1>4, <2>4, <2>6
  <1> QED
    BY <1>1, <1>3, <1>4

(* The effects a single request can have on the slots and the files.       *)
SingleEffect(i) ==
  LET m == ModelOf[i] IN
  \/ UNCHANGED <<slot, weights, grads, file>>
  \/ /\ Type(i) = "create_model"
     /\ \E s \in FreeSlots :
          /\ slot' = [n \in DOMAIN slot \cup {m} |-> IF n = m THEN s ELSE slot[n]]
          /\ weights' = [weights EXCEPT ![s] = << >>]
          /\ UNCHANGED <<grads, file>>
  \/ /\ Type(i) = "unload_model" /\ m \in DOMAIN slot
     /\ DeleteAdapters({m}) /\ UNCHANGED file
  \/ /\ Type(i) = "optim_step" /\ m \in DOMAIN slot
     /\ OptimStep(m) /\ UNCHANGED file
  \/ /\ Type(i) = "load_weights" /\ m \in DOMAIN slot
     /\ requests[i].source \in DOMAIN file
     /\ LoadCheckpoint(m, file[requests[i].source]) /\ UNCHANGED file
  \/ /\ Type(i) \in Saves /\ m \in DOMAIN slot
     /\ UNCHANGED <<slot, weights, grads>>
     /\ file' = [c \in DOMAIN file \cup {i} |->
                   IF c = i THEN weights[slot[m]] ELSE file[c]]

LEMMA SinglesEffect ==
  ASSUME IInv, NEW i \in singles,
         \/ RunCreateModel(i) \/ RunUnloadModel(i) \/ RunOptimStep(i)
         \/ RunLoadWeights(i) \/ RunSave(i)
  PROVE  /\ UNCHANGED <<requests, status, raced, passes, samples, phase, at>>
         /\ phase = "run" /\ at = "singles"
         /\ i \in Ids \ executed /\ Type(i) \in Single
         /\ executed' = executed \cup {i}
         /\ DOMAIN results' = DOMAIN results \cup {i}
         /\ SingleEffect(i)
  <1>1. PICK outcome : Finish(i, outcome)
    BY DEF RunCreateModel, RunUnloadModel, RunOptimStep, RunLoadWeights, RunSave
  <1>2. phase = "run" /\ at = "singles"
    BY DEF RunCreateModel, RunUnloadModel, RunOptimStep, RunLoadWeights, RunSave,
           NextSingle
  <1>3. i \in Ids \ executed /\ Type(i) \in Single
    BY DEF IInv, FoundInv
  <1>4. /\ UNCHANGED <<requests, status, raced, passes, samples, phase, at>>
        /\ executed' = executed \cup {i}
        /\ DOMAIN results' = DOMAIN results \cup {i}
    BY <1>1 DEF Finish, futureVars
  <1>5. ASSUME UNCHANGED backendVars, UNCHANGED file
        PROVE  UNCHANGED <<slot, weights, grads, file>>
    BY <1>5 DEF backendVars
  <1>6. CASE RunCreateModel(i)
    <2>1. /\ Type(i) = "create_model" /\ UNCHANGED file
          /\ \/ FreeSlots # {} /\ CreateAdapter(ModelOf[i])
             \/ UNCHANGED backendVars
      BY <1>6 DEF RunCreateModel, checkpointVars
    <2>2. CASE FreeSlots # {} /\ CreateAdapter(ModelOf[i])
      <3> DEFINE s == CHOOSE s \in FreeSlots : \A t \in FreeSlots : s <= t
      <3>1. s \in FreeSlots
        <4>1. FreeSlots \in SUBSET Nat
          BY DEF FreeSlots, Slots
        <4>2. \E x \in FreeSlots : \A t \in FreeSlots : x <= t
          BY <2>2, <4>1, MinOfSet
        <4> QED
          BY <4>2, Zenon
      <3>2. /\ slot' = [n \in DOMAIN slot \cup {ModelOf[i]} |->
                          IF n = ModelOf[i] THEN s ELSE slot[n]]
            /\ weights' = [weights EXCEPT ![s] = << >>]
            /\ grads' = grads
        BY <2>2 DEF CreateAdapter
      <3> HIDE DEF s
      <3> QED
        BY <1>2, <1>3, <1>4, <2>1, <3>1, <3>2 DEF SingleEffect
    <2> QED
      BY <1>2, <1>3, <1>4, <1>5, <2>1, <2>2 DEF SingleEffect
  <1>7. CASE RunUnloadModel(i)
    <2>1. /\ Type(i) = "unload_model" /\ UNCHANGED file
          /\ \/ ModelOf[i] \in DOMAIN slot /\ DeleteAdapters({ModelOf[i]})
             \/ UNCHANGED backendVars
      BY <1>7 DEF RunUnloadModel, DeleteAdapter, Valid, HasModel, checkpointVars
    <2> QED
      BY <1>2, <1>3, <1>4, <1>5, <2>1 DEF SingleEffect
  <1>8. CASE RunOptimStep(i)
    <2>1. /\ Type(i) = "optim_step" /\ UNCHANGED file
          /\ \/ ModelOf[i] \in DOMAIN slot /\ OptimStep(ModelOf[i])
             \/ UNCHANGED backendVars
      BY <1>8 DEF RunOptimStep, Valid, HasModel, checkpointVars
    <2> QED
      BY <1>2, <1>3, <1>4, <1>5, <2>1 DEF SingleEffect
  <1>9. CASE RunLoadWeights(i)
    <2>1. /\ Type(i) = "load_weights" /\ UNCHANGED file
          /\ \/ /\ ModelOf[i] \in DOMAIN slot
                /\ LoadCheckpoint(ModelOf[i], file[requests[i].source])
             \/ UNCHANGED backendVars
      BY <1>9 DEF RunLoadWeights, Valid, HasModel, checkpointVars
    <2>2. requests[i].source \in DOMAIN file
      BY <1>3, <2>1 DEF IInv, SourceInv
    <2> QED
      BY <1>2, <1>3, <1>4, <1>5, <2>1, <2>2 DEF SingleEffect
  <1>10. CASE RunSave(i)
    <2>1. /\ Type(i) \in Saves /\ UNCHANGED <<slot, weights, grads>>
          /\ \/ /\ ModelOf[i] \in DOMAIN slot
                /\ file' = [c \in DOMAIN file \cup {i} |->
                     IF c = i THEN weights[slot[ModelOf[i]]] ELSE file[c]]
             \/ UNCHANGED file
      BY <1>10 DEF RunSave, Valid, HasModel, checkpointVars, backendVars
    <2> QED
      BY <1>2, <1>3, <1>4, <2>1 DEF SingleEffect
  <1> QED
    BY <1>6, <1>7, <1>8, <1>9, <1>10
----------------------------------------------------------------------------
(* StepInv is kept.                                                        *)

(* Without a commit the rows are the same ones.                            *)
LEMMA SameRows ==
  ASSUME requests' = requests
  PROVE  /\ Ids' = Ids /\ ModelOf' = ModelOf
         /\ status' = status => Pending' = Pending /\ Settled' = Settled
         /\ CreatedInv => CreatedInv'
  <1>1. Ids' = Ids /\ ModelOf' = ModelOf
    BY DEF Ids, ModelOf
  <1>2. status' = status => Pending' = Pending /\ Settled' = Settled
    BY <1>1 DEF Pending, Settled
  <1>3. CreatedInv => CreatedInv'
    BY <1>1 DEF CreatedInv
  <1> QED
    BY <1>1, <1>2, <1>3

LEMMA CleanupEffect ==
  ASSUME CleanupStaleSessions
  PROVE  /\ UNCHANGED <<requests, status, raced, file, executed, results>>
         /\ UNCHANGED <<passes, samples, phase, at>>
         /\ CleanupEnabled
         /\ \E S \in SUBSET Models : DeleteAdapters(S \cap DOMAIN slot)
  BY DEF CleanupStaleSessions, futureVars, checkpointVars, foundVars, LiveSessions

LEMMA CrashEffect ==
  ASSUME IInv, Crash
  PROVE  /\ UNCHANGED <<requests, status, raced, file>>
         /\ phase' = "down" /\ at' = FirstStatement
         /\ executed' = Settled
         /\ passes' = [t \in Passes |-> {}] /\ samples' = {}
         /\ slot' = << >>
         /\ weights' = [s \in Slots |-> << >>]
         /\ grads' = [s \in Slots |-> {}]
  BY DEF Crash, LoseBackend, ForgetFound, futureVars, checkpointVars, IInv, ExecutedInv, Settled

(* The row that a commit adds, with what it leaves alone.                  *)
LEMMA CommitEffect ==
  ASSUME IInv, NEW type \in Kinds, NEW m \in Models, NEW source \in Ids \cup {0},
         CreateFuture(type, m, source)
  PROVE  /\ UNCHANGED <<slot, weights, grads, executed, results>>
         /\ UNCHANGED <<passes, samples, phase, at>>
         /\ Ids' = Ids \cup {Len(requests) + 1}
         /\ Len(requests) + 1 \notin Ids
         /\ Settled' = Settled
         /\ \A i \in Ids : requests'[i] = requests[i] /\ ModelOf'[i] = ModelOf[i]
         /\ requests'[Len(requests) + 1].type = type
         /\ ModelOf'[Len(requests) + 1] = m
  <1>1. QueueTypeOK /\ Ids \subseteq Nat
    BY RowTypes DEF IInv, TypeOK
  <1>2. type \in RequestTypes /\ source \in Nat
    BY <1>1
  <1> DEFINE n == Len(requests) + 1
  <1>3. /\ n \notin Ids
        /\ Ids' = Ids \cup {n} /\ Pending' = Pending \cup {n}
        /\ \A i \in Ids : requests'[i] = requests[i] /\ ModelOf'[i] = ModelOf[i]
        /\ requests'[n].type = type /\ ModelOf'[n] = m
    <2>1. ASSUME NEW t \in RequestTypes, NEW c \in Nat, CreateFuture(t, m, c)
          PROVE  /\ n \in Nat \ {0} /\ n \notin Ids
                 /\ Ids' = Ids \cup {n} /\ Pending' = Pending \cup {n}
                 /\ requests' \in Seq(Rows) /\ status' \in Seq(Statuses)
                 /\ Len(status') = Len(requests')
                 /\ \A i \in Ids : /\ i < n /\ requests'[i] = requests[i]
                                    /\ status'[i] = status[i] /\ ModelOf'[i] = ModelOf[i]
                 /\ requests'[n].type = t /\ requests'[n].source = c
                 /\ ModelOf'[n] = m
                 /\ raced \subseteq raced' /\ raced' \subseteq raced \cup {n}
                 /\ phase = "select" /\ at # FirstStatement => n \in raced'
      BY <1>1, <2>1, CommittedRow
    <2> HIDE DEF n
    <2> QED
      BY <1>2, <2>1, Zenon
  <1>4. Settled' = Settled
    BY <1>3 DEF Settled
  <1>5. /\ UNCHANGED <<slot, weights, grads, executed, results>>
        /\ UNCHANGED <<passes, samples, phase, at>>
    BY DEF CreateFuture, foundVars, backendVars
  <1> QED
    BY <1>3, <1>4, <1>5

LEMMA CreatedStep ==
  ASSUME IInv, CreatedInv, [Next]_vars
  PROVE  CreatedInv'
  <1>1. CASE APINext
    <2>1. PICK type \in Kinds, m \in Models, source \in Ids \cup {0} :
            /\ CreateFuture(type, m, source)
            /\ type = "create_model" => ~ModelExists(m)
      BY <1>1, APIEffect
    <2> DEFINE n == Len(requests) + 1
    <2>2. /\ Ids' = Ids \cup {n} /\ n \notin Ids
          /\ \A i \in Ids : requests'[i] = requests[i] /\ ModelOf'[i] = ModelOf[i]
          /\ requests'[n].type = type /\ ModelOf'[n] = m
      BY <2>1, CommitEffect
    <2> HIDE DEF n
    <2>3. \A i \in Ids : type = "create_model" /\ requests[i].type = "create_model"
                           => ModelOf[i] # m
      BY <2>1 DEF ModelExists
    <2> QED
      BY <2>2, <2>3 DEF CreatedInv
  <1>2. CASE requests' = requests
    BY <1>2, SameRows
  <1>3. ASSUME NEW i \in singles,
               \/ RunCreateModel(i) \/ RunUnloadModel(i) \/ RunOptimStep(i)
               \/ RunLoadWeights(i) \/ RunSave(i)
        PROVE  requests' = requests
    BY <1>3, SinglesEffect
  <1> QED
    BY <1>1, <1>2, <1>3, NextCases, QuietEffect, PassesEffect, SamplesEffect,
       CleanupEffect, CrashEffect

LEMMA ResultsStep ==
  ASSUME IInv, IInv', ResultsInv, [Next]_vars
  PROVE  ResultsInv'
  <1>1. CASE DOMAIN results' = {}
    BY <1>1 DEF ResultsInv
  <1>2. CASE phase' = "select" \/ phase' = "down"
    <2>1. results' = << >>
      BY <1>2 DEF IInv, ControlInv
    <2> QED
      BY <1>1, <2>1, EmptyTypes
  <1>3. CASE UNCHANGED <<requests, results, at>>
    BY <1>3 DEF ResultsInv
  <1>4. CASE APINext
    <2>1. PICK type \in Kinds, m \in Models, source \in Ids \cup {0} :
            CreateFuture(type, m, source)
      BY <1>4, APIEffect
    <2>2. /\ UNCHANGED <<results, at>>
          /\ \A i \in Ids : requests'[i] = requests[i]
      BY <2>1, CommitEffect
    <2>3. DOMAIN results \subseteq Ids
      BY DEF IInv, ExecutedInv
    <2> QED
      BY <2>2, <2>3 DEF ResultsInv
  <1>5. CASE QuietNext
    <2>1. CASE \/ SelectBarriers \/ \E t \in Passes : SelectPasses(t)
               \/ SelectSamples \/ SelectBlockedPasses \/ Restart
      <3>1. phase' = "select"
        BY <2>1 DEF SelectBarriers, SelectPasses, SelectSamples,
                    SelectBlockedPasses, Restart
      <3> QED
        BY <1>2, <3>1
    <2>2. CASE SelectSingles \/ SkipGroup
      <3>1. results = << >> /\ results' = results
        BY <2>2 DEF SelectSingles, SkipGroup, IInv, ControlInv, NextGroup
      <3> QED
        BY <1>1, <3>1, EmptyTypes
    <2>3. CASE EndSingles \/ UNCHANGED vars
      BY <1>3, <2>3 DEF EndSingles, vars, futureVars
    <2>4. CASE WriteResults
      BY <1>1, <2>4, EmptyTypes DEF WriteResults
    <2> QED
      BY <1>5, <2>1, <2>2, <2>3, <2>4 DEF QuietNext
  <1>6. CASE RunPasses \/ FailPasses \/ RunSamples \/ FailSamples
    <2>1. at' # "singles"
      BY <1>6, PassesEffect, SamplesEffect, KindsDiffer
    <2> QED
      BY <2>1 DEF ResultsInv
  <1>7. ASSUME NEW i \in singles,
               \/ RunCreateModel(i) \/ RunUnloadModel(i) \/ RunOptimStep(i)
               \/ RunLoadWeights(i) \/ RunSave(i)
        PROVE  ResultsInv'
    <2>1. /\ UNCHANGED <<requests, at>> /\ DOMAIN results' = DOMAIN results \cup {i}
          /\ Type(i) \in Single
      BY <1>7, SinglesEffect
    <2> QED
      BY <2>1 DEF ResultsInv
  <1>8. CASE CleanupStaleSessions
    BY <1>3, <1>8, CleanupEffect
  <1>9. CASE Crash
    BY <1>2, <1>9, CrashEffect
  <1> QED
    BY <1>4, <1>5, <1>6, <1>7, <1>8, <1>9, NextCases

LEMMA UnrunStep ==
  ASSUME IInv, IInv', UnrunInv, [Next]_vars
  PROVE  UnrunInv'
  <1> DEFINE Turn(t) == \/ phase \in {"select", "down"}
                        \/ phase = "run" /\ at = t
                        \/ phase \in {"run", "write"} /\ at \in Earlier(t)
             Kind == {"forward_backward", "forward", "samples"}
  <1>1. ASSUME \A t \in Kind : Turn(t)' => Turn(t),
               \A t \in Kind : Turn(t)' => Group(t)' \subseteq Group(t),
               executed' = executed, Ids \subseteq Ids'
        PROVE  UnrunInv'
    BY <1>1 DEF UnrunInv
  <1>2. CASE UNCHANGED <<phase, at, passes, samples>> /\ executed' = executed
             /\ Ids \subseteq Ids'
    BY <1>1, <1>2 DEF Group, Earlier
  <1>3. CASE APINext
    <2>1. PICK type \in Kinds, m \in Models, source \in Ids \cup {0} :
            CreateFuture(type, m, source)
      BY <1>3, APIEffect
    <2> QED
      BY <1>2, <2>1, CommitEffect
  <1>4. CASE QuietNext
    <2>1. UNCHANGED executed /\ Ids' = Ids /\ ModelOf' = ModelOf
      BY <1>4, QuietEffect
    <2>2. ASSUME phase = "select" PROVE executed \cap Pending = {}
      BY <2>2, EmptyTypes DEF IInv, ExecutedInv, ControlInv
    <2>3. CASE SelectBarriers \/ SelectBlockedPasses \/ SelectSingles
      <3>1. phase = "select" /\ UNCHANGED <<passes, samples>>
        BY <2>3 DEF SelectBarriers, SelectBlockedPasses, SelectSingles
      <3> QED
        BY <1>1, <2>1, <3>1 DEF Group
    <2>4. ASSUME NEW t \in Passes, SelectPasses(t) PROVE UnrunInv'
      <3>1. /\ phase = "select" /\ phase' = "select" /\ samples' = samples
            /\ \A g \in Passes : \/ passes'[g] = passes[g]
                                 \/ passes'[g] \subseteq Pending
        BY <2>4 DEF SelectPasses, IInv, TypeOK, EngineTypeOK
      <3>2. Pending \subseteq Ids \ executed
        BY <2>2, <3>1 DEF Pending
      <3>3. ASSUME NEW g \in Kind PROVE Group(g)' \subseteq Ids \ executed
        <4>1. Group(g) \subseteq Ids \ executed
          BY <3>1 DEF UnrunInv
        <4> QED
          BY <3>1, <3>2, <4>1, KindsDiffer DEF Group
      <3> QED
        BY <2>1, <3>3 DEF UnrunInv
    <2>5. CASE SelectSamples
      <3>1. /\ phase = "select" /\ phase' = "select" /\ passes' = passes
            /\ samples' \subseteq Pending
        BY <2>5 DEF SelectSamples
      <3>2. Pending \subseteq Ids \ executed
        BY <2>2, <3>1 DEF Pending
      <3> QED
        BY <2>1, <3>1, <3>2 DEF UnrunInv, Group
    <2>6. CASE SkipGroup \/ EndSingles
      <3>1. /\ phase = "run" /\ phase' \in {"run", "write"}
            /\ UNCHANGED <<passes, samples>>
            /\ \/ at = "forward_backward" /\ at' = "forward"
               \/ at = "forward" /\ at' = "samples"
               \/ at = "samples" /\ at' = "singles"
               \/ at = "singles" /\ at' = "singles"
            /\ phase' = "write" => at' = "singles"
        BY <2>6 DEF SkipGroup, EndSingles, NextGroup, foundVars
      <3>2. \A t \in Kind : Turn(t)' => Turn(t)
        BY <3>1 DEF Earlier
      <3> HIDE DEF Turn
      <3> QED
        BY <1>1, <2>1, <3>1, <3>2 DEF Group
    <2>7. CASE WriteResults
      <3>1. /\ phase = "write"
            /\ \/ /\ phase' = "run" /\ UNCHANGED <<passes, samples>>
                  /\ \/ at = "forward_backward" /\ at' = "forward"
                     \/ at = "forward" /\ at' = "samples"
                     \/ at = "samples" /\ at' = "singles"
               \/ /\ phase' = "select"
                  /\ passes' = [t \in Passes |-> {}] /\ samples' = {}
        BY <2>7 DEF WriteResults, NextGroup, ForgetFound, foundVars
      <3>2. CASE phase' = "run" /\ UNCHANGED <<passes, samples>>
        <4>1. \A t \in Kind : Turn(t)' => Turn(t)
          BY <3>1, <3>2 DEF Earlier
        <4> HIDE DEF Turn
        <4> QED
          BY <1>1, <2>1, <3>2, <4>1 DEF Group
      <3>3. CASE passes' = [t \in Passes |-> {}] /\ samples' = {}
        BY <3>3, KindsDiffer DEF UnrunInv, Group
      <3> QED
        BY <3>1, <3>2, <3>3
    <2>8. CASE Restart
      <3>1. phase = "down" /\ UNCHANGED <<passes, samples>>
        BY <2>8 DEF Restart, foundVars
      <3> QED
        BY <2>1, <3>1 DEF UnrunInv, Group
    <2>9. CASE UNCHANGED vars
      BY <1>2, <2>1, <2>9 DEF vars, foundVars
    <2> QED
      BY <1>4, <2>3, <2>4, <2>5, <2>6, <2>7, <2>8, <2>9 DEF QuietNext
  <1>5. CASE RunPasses \/ FailPasses \/ RunSamples \/ FailSamples
    <2>1. /\ phase = "run" /\ phase' = "write" /\ at \in Kind
          /\ UNCHANGED <<requests, passes, samples, at>>
          /\ executed' = executed \cup Group(at)
      BY <1>5, PassesEffect, SamplesEffect, KindsDiffer DEF Group
    <2>2. Ids' = Ids
      BY <2>1 DEF Ids
    <2>3. ASSUME NEW t \in Kind, at \in Earlier(t)
          PROVE  Group(t)' \subseteq Ids \ executed'
      <3>1. Group(t)' = Group(t) /\ Group(t) \subseteq Ids \ executed
        BY <2>1, <2>3 DEF UnrunInv, Group
      <3>2. at # t /\ \A i \in Group(t) : i \notin Group(at)
        BY <2>1, <2>3, KindsDiffer DEF IInv, FoundInv, Group, Earlier
      <3> QED
        BY <2>1, <3>1, <3>2
    <2> QED
      BY <2>1, <2>2, <2>3 DEF UnrunInv
  <1>6. ASSUME NEW i \in singles,
               \/ RunCreateModel(i) \/ RunUnloadModel(i) \/ RunOptimStep(i)
               \/ RunLoadWeights(i) \/ RunSave(i)
        PROVE  UnrunInv'
    <2>1. UNCHANGED <<phase, at>> /\ phase = "run" /\ at = "singles"
      BY <1>6, SinglesEffect
    <2> QED
      BY <2>1 DEF UnrunInv, Earlier
  <1>7. CASE CleanupStaleSessions
    BY <1>2, <1>7, CleanupEffect, SameRows
  <1>8. CASE Crash
    <2>1. \A t \in Kind : Group(t)' = {}
      BY <1>8, CrashEffect, KindsDiffer DEF Group
    <2> QED
      BY <2>1 DEF UnrunInv
  <1> QED
    BY <1>3, <1>4, <1>5, <1>6, <1>7, <1>8, NextCases
(* Copies of histories, fresh ones and dropped gradients disturb nothing.  *)
LEMMA HistoriesKept ==
  ASSUME AppliedInv, GradsInv, Settled \subseteq Settled',
         \A s \in Slots : weights'[s] \in Histories \cup {<< >>},
         \A c \in DOMAIN file' : file'[c] \in Histories,
         \A s \in Slots : grads'[s] \subseteq grads[s],
         \A s \in Slots : \A i \in grads'[s] :
           i \in executed' /\ requests'[i].type = requests[i].type
  PROVE  AppliedInv' /\ GradsInv'
  <1>1. Histories' \subseteq Histories \cup {<< >>}
    BY DEF Histories
  <1>2. DOMAIN << >> = {}
    BY EmptyTypes
  <1>3. AppliedInv'
    <2>1. ASSUME NEW h \in Histories'
          PROVE  /\ \A k \in DOMAIN h : h[k] \subseteq Settled'
                 /\ \A k, l \in DOMAIN h : k # l => h[k] \cap h[l] = {}
      BY <1>1, <1>2 DEF AppliedInv
    <2> QED
      BY <2>1 DEF AppliedInv
  <1>4. GradsInv'
    <2>1. ASSUME NEW s \in Slots, NEW i \in grads'[s]
          PROVE  /\ \A t \in Slots \ {s} : i \notin grads'[t]
                 /\ \A h \in Histories' : \A k \in DOMAIN h : i \notin h[k]
      BY <1>1, <1>2 DEF GradsInv
    <2>2. ASSUME NEW s \in Slots, NEW i \in grads'[s]
          PROVE  i \in executed' /\ requests'[i].type = "forward_backward"
      BY <2>2 DEF GradsInv
    <2> QED
      BY <2>1, <2>2 DEF GradsInv
  <1> QED
    BY <1>3, <1>4

(* The gradients of a batch are of passes that were not run before.        *)
LEMMA HistoriesAfterPasses ==
  ASSUME IInv, StepInv, RunPasses \/ FailPasses
  PROVE  AppliedInv' /\ GradsInv'
  <1>1. PICK S \in SUBSET passes[at] :
          /\ S = {} \/ at = "forward_backward"
          /\ grads' = [s \in Slots |-> grads[s] \cup
                {i \in S : ModelOf[i] \in DOMAIN slot /\ slot[ModelOf[i]] = s}]
    BY PassesEffect
  <1>2. /\ UNCHANGED <<requests, status, file, weights>>
        /\ phase = "run" /\ at \in Passes
        /\ executed' = executed \cup passes[at] /\ executed = Settled
    BY PassesEffect
  <1>3. Histories' = Histories /\ Settled' = Settled
    BY <1>2, SameRows DEF Histories
  <1>4. ASSUME NEW i \in S
        PROVE  i \in executed' /\ i \notin executed /\ Type(i) = "forward_backward"
    <2>1. at = "forward_backward" /\ i \in passes[at]
      BY <1>1
    <2>2. Type(i) = "forward_backward"
      BY <2>1, KindsDiffer DEF IInv, FoundInv
    <2>3. i \notin executed
      BY <1>2, <2>1 DEF StepInv, UnrunInv, Group
    <2> QED
      BY <1>2, <2>1, <2>2, <2>3
  <1>5. AppliedInv'
    BY <1>3 DEF StepInv, AppliedInv
  <1>6. ASSUME NEW s \in Slots, NEW i \in grads'[s]
        PROVE  /\ i \in executed' /\ requests'[i].type = "forward_backward"
               /\ \A t \in Slots \ {s} : i \notin grads'[t]
               /\ \A h \in Histories' : \A k \in DOMAIN h : i \notin h[k]
    <2>1. CASE i \in grads[s]
      <3>1. i \notin S
        BY <1>4, <2>1 DEF StepInv, GradsInv
      <3> QED
        BY <1>1, <1>2, <1>3, <2>1, <3>1 DEF StepInv, GradsInv
    <2>2. CASE i \notin grads[s]
      <3>1. i \in S /\ slot[ModelOf[i]] = s
        BY <1>1, <1>6, <2>2
      <3>2. \A t \in Slots : i \notin grads[t]
        BY <1>4, <3>1 DEF StepInv, GradsInv
      <3>3. \A h \in Histories : \A k \in DOMAIN h : i \notin h[k]
        BY <1>2, <1>4, <3>1 DEF StepInv, AppliedInv
      <3> QED
        BY <1>1, <1>2, <1>3, <1>4, <3>1, <3>2, <3>3
    <2> QED
      BY <2>1, <2>2
  <1>7. GradsInv'
    BY <1>6 DEF GradsInv
  <1> QED
    BY <1>5, <1>7

(* A step applies gradients of answered passes that no step applied.       *)
LEMMA HistoriesAfterOptimStep ==
  ASSUME IInv, StepInv, NEW m \in DOMAIN slot, OptimStep(m),
         at = "singles", executed \subseteq executed',
         UNCHANGED <<requests, status, file>>
  PROVE  AppliedInv' /\ GradsInv'
  <1> DEFINE s == slot[m]
             h == weights[s]
             g == Append(h, grads[s])
  <1>1. /\ BackendTypeOK /\ s \in Slots /\ h \in History /\ grads[s] \in SUBSET Nat
        /\ weights \in [Slots -> History] /\ grads \in [Slots -> SUBSET Ids]
    BY SlotTypes, RowTypes DEF IInv, TypeOK, BackendTypeOK
  <1>2. weights' = [weights EXCEPT ![s] = g] /\ grads' = [grads EXCEPT ![s] = {}]
    BY <1>1 DEF OptimStep
  <1>3. /\ DOMAIN g = DOMAIN h \cup {Len(h) + 1}
        /\ g[Len(h) + 1] = grads[s] /\ \A k \in DOMAIN h : g[k] = h[k]
    <2> HIDE DEF h
    <2>1. h \in Seq(SUBSET Nat)
      BY <1>1 DEF History
    <2>2. /\ DOMAIN h = 1..Len(h) /\ Len(h) \in Nat
          /\ DOMAIN g = 1..(Len(h) + 1)
          /\ g[Len(h) + 1] = grads[s] /\ \A k \in DOMAIN h : g[k] = h[k]
      BY <1>1, <2>1, Elements, Appended
    <2> QED
      BY <2>2
  <1>4. h \in Histories
    BY <1>1 DEF Histories
  <1>5. Settled' = Settled
    BY SameRows
  <1>6. grads[s] \subseteq Settled
    <2>1. ASSUME NEW i \in grads[s] PROVE i \in Settled
      <3>1. i \in executed /\ Type(i) = "forward_backward"
        BY <1>1, <2>1 DEF StepInv, GradsInv
      <3>2. i \notin DOMAIN results
        BY <3>1, KindsDiffer DEF StepInv, ResultsInv
      <3> QED
        BY <3>1, <3>2 DEF IInv, ExecutedInv, Settled
    <2> QED
      BY <2>1
  <1> HIDE DEF s, h, g
  <1>7. Histories' \subseteq Histories \cup {g}
    BY <1>1, <1>2 DEF Histories
  <1>8. AppliedInv'
    <2>1. ASSUME NEW k \in DOMAIN h PROVE h[k] \cap grads[s] = {}
      BY <1>1, <1>4, <2>1 DEF StepInv, GradsInv
    <2>2. /\ \A k \in DOMAIN h : h[k] \subseteq Settled
          /\ \A k, l \in DOMAIN h : k # l => h[k] \cap h[l] = {}
      BY <1>4 DEF StepInv, AppliedInv
    <2>3. /\ \A k \in DOMAIN g : g[k] \subseteq Settled
          /\ \A k, l \in DOMAIN g : k # l => g[k] \cap g[l] = {}
      BY <1>3, <1>6, <2>1, <2>2
    <2>4. ASSUME NEW f \in Histories'
          PROVE  /\ \A k \in DOMAIN f : f[k] \subseteq Settled
                 /\ \A k, l \in DOMAIN f : k # l => f[k] \cap f[l] = {}
      <3>1. CASE f \in Histories
        BY <3>1 DEF StepInv, AppliedInv
      <3>2. CASE f = g
        BY <2>3, <3>2
      <3> QED
        BY <1>7, <3>1, <3>2
    <2> QED
      BY <1>5, <2>4 DEF AppliedInv
  <1>9. ASSUME NEW t \in Slots, NEW i \in grads'[t]
        PROVE  /\ i \in executed' /\ requests'[i].type = "forward_backward"
               /\ \A u \in Slots \ {t} : i \notin grads'[u]
               /\ \A f \in Histories' : \A k \in DOMAIN f : i \notin f[k]
    <2>1. t # s /\ i \in grads[t] /\ \A u \in Slots : grads'[u] \subseteq grads[u]
      BY <1>1, <1>2, <1>9
    <2>2. /\ i \in executed /\ Type(i) = "forward_backward"
          /\ \A u \in Slots \ {t} : i \notin grads[u]
          /\ \A f \in Histories : \A k \in DOMAIN f : i \notin f[k]
      BY <2>1 DEF StepInv, GradsInv
    <2>3. \A k \in DOMAIN g : i \notin g[k]
      BY <1>1, <1>3, <1>4, <2>1, <2>2
    <2> QED
      BY <1>7, <2>1, <2>2, <2>3
  <1>10. GradsInv'
    BY <1>9 DEF GradsInv
  <1> QED
    BY <1>8, <1>10

LEMMA HistoriesStep ==
  ASSUME IInv, StepInv, [Next]_vars
  PROVE  AppliedInv' /\ GradsInv'
  <1>1. /\ AppliedInv /\ GradsInv
        /\ weights \in [Slots -> History] /\ grads \in [Slots -> SUBSET Ids]
        /\ \A s \in Slots : weights[s] \in Histories
        /\ \A c \in DOMAIN file : file[c] \in Histories
        /\ \A s \in Slots : \A i \in grads[s] : i \in executed /\ i \in Ids
    <2>1. AppliedInv /\ GradsInv
      BY DEF StepInv
    <2>2. /\ \A s \in Slots : weights[s] \in Histories
          /\ \A c \in DOMAIN file : file[c] \in Histories
      BY DEF Histories
    <2>3. weights \in [Slots -> History] /\ grads \in [Slots -> SUBSET Ids]
      BY DEF IInv, TypeOK, BackendTypeOK
    <2> QED
      BY <2>1, <2>2, <2>3 DEF GradsInv
  <1>2. CASE APINext
    <2>1. PICK type \in Kinds, m \in Models, source \in Ids \cup {0} :
            CreateFuture(type, m, source) /\ file' = file
      BY <1>2, APIEffect
    <2>2. /\ UNCHANGED <<weights, grads, executed>> /\ Settled' = Settled
          /\ \A i \in Ids : requests'[i] = requests[i]
      BY <2>1, CommitEffect
    <2> QED
      BY <1>1, <2>1, <2>2, HistoriesKept
  <1>3. CASE QuietNext
    <2>1. /\ UNCHANGED <<requests, file, weights, grads, executed>>
          /\ Settled \subseteq Settled'
      BY <1>3, QuietEffect
    <2> QED
      BY <1>1, <2>1, HistoriesKept
  <1>4. CASE RunPasses \/ FailPasses
    BY <1>4, HistoriesAfterPasses
  <1>5. CASE RunSamples \/ FailSamples
    <2>1. /\ UNCHANGED <<requests, status, file, grads>>
          /\ executed \subseteq executed'
          /\ \A s \in Slots : weights'[s] \in Histories
      BY <1>5, SamplesEffect
    <2>2. Settled' = Settled
      BY <2>1, SameRows
    <2> QED
      BY <1>1, <2>1, <2>2, HistoriesKept
  <1>6. ASSUME NEW i \in singles,
               \/ RunCreateModel(i) \/ RunUnloadModel(i) \/ RunOptimStep(i)
               \/ RunLoadWeights(i) \/ RunSave(i)
        PROVE  AppliedInv' /\ GradsInv'
    <2>1. /\ UNCHANGED <<requests, status>> /\ at = "singles"
          /\ executed \subseteq executed' /\ SingleEffect(i)
      BY <1>6, SinglesEffect
    <2>2. Settled' = Settled
      BY <2>1, SameRows
    <2>3. CASE OptimStep(ModelOf[i]) /\ ModelOf[i] \in DOMAIN slot /\ UNCHANGED file
      BY <2>1, <2>3, HistoriesAfterOptimStep
    <2>4. CASE ~ (OptimStep(ModelOf[i]) /\ ModelOf[i] \in DOMAIN slot /\ UNCHANGED file)
      <3>1. grads' = grads
        BY <2>1, <2>4 DEF SingleEffect, DeleteAdapters, LoadCheckpoint
      <3>2. ModelOf[i] \in DOMAIN slot => slot[ModelOf[i]] \in Slots
        BY SlotTypes DEF IInv, TypeOK
      <3>3. /\ \A s \in Slots : weights'[s] \in Histories \cup {<< >>}
            /\ \A c \in DOMAIN file' : file'[c] \in Histories
        <4>1. CASE UNCHANGED <<weights, file>>
          BY <1>1, <4>1
        <4>2. ASSUME NEW s \in FreeSlots, weights' = [weights EXCEPT ![s] = << >>]
              PROVE  \A t \in Slots : weights'[t] \in Histories \cup {<< >>}
          BY <1>1, <4>2
        <4>3. CASE DeleteAdapters({ModelOf[i]}) /\ UNCHANGED file
          BY <1>1, <4>3 DEF DeleteAdapters
        <4>4. CASE /\ requests[i].source \in DOMAIN file
                   /\ LoadCheckpoint(ModelOf[i], file[requests[i].source])
                   /\ UNCHANGED file
          BY <1>1, <4>4 DEF LoadCheckpoint
        <4>5. CASE /\ ModelOf[i] \in DOMAIN slot /\ UNCHANGED weights
                   /\ file' = [c \in DOMAIN file \cup {i} |->
                        IF c = i THEN weights[slot[ModelOf[i]]] ELSE file[c]]
          BY <1>1, <3>2, <4>5
        <4> QED
          BY <1>1, <2>1, <2>4, <4>1, <4>2, <4>3, <4>4, <4>5 DEF SingleEffect
      <3> QED
        BY <1>1, <2>1, <2>2, <3>1, <3>3, HistoriesKept
    <2> QED
      BY <2>3, <2>4
  <1>7. CASE CleanupStaleSessions
    <2>1. /\ UNCHANGED <<requests, status, file, executed>>
          /\ \E S : DeleteAdapters(S)
      BY <1>7, CleanupEffect
    <2>2. /\ grads' = grads
          /\ \A s \in Slots : weights'[s] \in Histories \cup {<< >>}
      BY <1>1, <2>1 DEF DeleteAdapters
    <2>3. Settled' = Settled
      BY <2>1, SameRows
    <2> QED
      BY <1>1, <2>1, <2>2, <2>3, HistoriesKept
  <1>8. CASE Crash
    <2>1. /\ UNCHANGED <<requests, status, file>>
          /\ \A s \in Slots : weights'[s] = << >> /\ grads'[s] = {}
      BY <1>8, CrashEffect
    <2>2. Settled' = Settled
      BY <2>1, SameRows
    <2> QED
      BY <1>1, <2>1, <2>2, HistoriesKept
  <1> QED
    BY <1>2, <1>3, <1>4, <1>5, <1>6, <1>7, <1>8, NextCases

LEMMA InitStepInv == Init => StepInv
  <1> SUFFICES ASSUME Init PROVE StepInv
    OBVIOUS
  <1>1. /\ requests = << >> /\ results = << >> /\ samples = {} /\ file = << >>
        /\ passes = [t \in Passes |-> {}]
        /\ weights = [s \in Slots |-> << >>] /\ grads = [s \in Slots |-> {}]
    BY DEF Init, NothingFound, EmptyBackend
  <1>2. Ids = {} /\ DOMAIN results = {} /\ DOMAIN file = {}
    BY <1>1, EmptyTypes DEF Ids
  <1>3. CreatedInv /\ ResultsInv
    BY <1>2 DEF CreatedInv, ResultsInv
  <1>4. UnrunInv
    BY <1>1, KindsDiffer DEF UnrunInv, Group
  <1>5. Histories \subseteq {<< >>}
    BY <1>1, <1>2 DEF Histories
  <1>6. AppliedInv /\ GradsInv
    BY <1>1, <1>5, EmptyTypes DEF AppliedInv, GradsInv
  <1> QED
    BY <1>3, <1>4, <1>6 DEF StepInv

(* With what is pending and what was run, the passes whose gradients are   *)
(* kept are known in every reachable state.                                *)
THEOREM StepInvariant == Spec => []StepInv
  <1>1. IInv /\ IInv' /\ StepInv /\ [Next]_vars => StepInv'
    <2> SUFFICES ASSUME IInv, IInv', StepInv, [Next]_vars PROVE StepInv'
      OBVIOUS
    <2>1. CreatedInv' /\ ResultsInv' /\ UnrunInv'
      BY CreatedStep, ResultsStep, UnrunStep DEF StepInv
    <2> QED
      BY <2>1, HistoriesStep DEF StepInv
  <1> QED
    BY EngineInvariant, InitStepInv, <1>1, PTL DEF Spec
(* The gradients of a request are in at most one step of any slot and of   *)
(* any checkpoint, no step holds a request that may still be run again,    *)
(* and those kept for the next step are in no earlier one.                 *)
AppliedOnce ==
  /\ \A h \in Histories :
       /\ \A k \in DOMAIN h : h[k] \subseteq Ids \ Pending
       /\ \A k, l \in DOMAIN h : k # l => h[k] \cap h[l] = {}
  /\ \A s \in Slots, h \in Histories : \A k \in DOMAIN h : grads[s] \cap h[k] = {}

(* Whatever is batched, unloaded, loaded again, sampled from or rerun      *)
(* after an exit, slots reused or not: no weights that the engine holds or *)
(* saved have the gradients of a request applied twice.                    *)
THEOREM GradientsAppliedOnce == Spec => []AppliedOnce
  <1>1. StepInv => AppliedOnce
    BY DEF StepInv, AppliedInv, GradsInv, AppliedOnce, Settled
  <1> QED
    BY StepInvariant, <1>1, PTL

----------------------------------------------------------------------------
(* Slots that are not reused.                                              *)

(* A slot that a model has left keeps the gradients it accumulated, and    *)
(* the next model in it starts with them.  It is not given to another      *)
(* model when there is one only, or when no model is unloaded.             *)
OneModel == \A m, n \in Models : m = n

SlotsNotReused == OneModel \/ ("unload_model" \notin Kinds /\ ~CleanupEnabled)

(* The request to create model m has run.                                  *)
Created(m) == \E i \in executed : Type(i) = "create_model" /\ ModelOf[i] = m

OwnInv ==
  /\ \A m \in DOMAIN slot : Created(m)
  /\ \A s \in Slots : \A i \in grads[s] : Created(ModelOf[i])
  /\ \A m \in DOMAIN slot : \A i \in grads[slot[m]] : ModelOf[i] = m
  /\ OneModel \/ \A s \in FreeSlots : grads[s] = {}

(* What is given to a model that is created is a clear slot.               *)
LEMMA SlotIsClear ==
  ASSUME IInv, StepInv, OwnInv, NEW i \in Ids \ executed,
         Type(i) = "create_model"
  PROVE  /\ ModelOf[i] \notin DOMAIN slot
         /\ \A s \in FreeSlots : grads[s] = {}
  <1>1. executed \subseteq Ids
    BY DEF IInv, TypeOK, EngineTypeOK
  <1>2. ~Created(ModelOf[i])
    BY <1>1 DEF Created, StepInv, CreatedInv
  <1>3. ModelOf[i] \notin DOMAIN slot
    BY <1>2 DEF OwnInv
  <1>4. ASSUME NEW s \in FreeSlots, NEW j \in grads[s]
        PROVE  FALSE
    <2>1. OneModel
      BY <1>4 DEF OwnInv
    <2>2. s \in Slots
      BY DEF FreeSlots
    <2>3. j \in Ids
      BY <1>1, <1>4, <2>2 DEF StepInv, GradsInv
    <2>4. ModelOf[i] \in Models /\ ModelOf[j] \in Models
      BY <2>3, RowTypes DEF IInv, TypeOK
    <2>5. ModelOf[i] = ModelOf[j]
      BY <2>1, <2>4 DEF OneModel
    <2> QED
      BY <1>2, <1>4, <2>2, <2>5 DEF OwnInv
  <1> QED
    BY <1>3, <1>4

LEMMA CreatedKept ==
  ASSUME IInv, executed \subseteq executed',
         \A i \in Ids : requests'[i] = requests[i] /\ ModelOf'[i] = ModelOf[i]
  PROVE  \A m : Created(m) => Created(m)'
  <1>1. executed \subseteq Ids
    BY DEF IInv, TypeOK, EngineTypeOK
  <1> QED
    BY <1>1 DEF Created

(* No slot is given away and no gradient added.                            *)
LEMMA OwnKept ==
  ASSUME IInv, StepInv, OwnInv, executed \subseteq executed',
         \A i \in Ids : requests'[i] = requests[i] /\ ModelOf'[i] = ModelOf[i],
         \A s \in Slots : grads'[s] \subseteq grads[s],
         \/ slot' = slot
         \/ OneModel /\ \E S : slot' = [m \in DOMAIN slot \ S |-> slot[m]]
  PROVE  OwnInv'
  <1>1. \A m : Created(m) => Created(m)'
    BY CreatedKept
  <1>2. \A s \in Slots : \A i \in grads[s] : i \in Ids
    BY DEF IInv, TypeOK, BackendTypeOK
  <1>3. /\ DOMAIN slot' \subseteq DOMAIN slot
        /\ \A m \in DOMAIN slot' : slot'[m] = slot[m] /\ slot[m] \in Slots
    <2>1. \A m \in DOMAIN slot : slot[m] \in Slots
      BY SlotTypes DEF IInv, TypeOK
    <2> QED
      BY <2>1
  <1>4. \A m \in DOMAIN slot' : Created(m)'
    BY <1>1, <1>3 DEF OwnInv
  <1>5. ASSUME NEW s \in Slots, NEW i \in grads'[s]
        PROVE  Created(ModelOf[i])'
    <2>1. Created(ModelOf[i]) /\ i \in Ids
      BY <1>2, <1>5 DEF OwnInv
    <2>2. ModelOf'[i] = ModelOf[i]
      BY <2>1
    <2> QED
      BY <1>1, <2>1, <2>2 DEF Created
  <1>6. \A m \in DOMAIN slot' : \A i \in grads'[slot'[m]] : ModelOf'[i] = m
    BY <1>2, <1>3 DEF OwnInv
  <1>7. OneModel \/ \A s \in FreeSlots' : grads'[s] = {}
    <2>1. CASE slot' = slot
      BY <2>1 DEF OwnInv, FreeSlots
    <2> QED
      BY <2>1
  <1> QED
    BY <1>4, <1>5, <1>6, <1>7 DEF OwnInv, OneModel

LEMMA OwnAfterPasses ==
  ASSUME IInv, StepInv, OwnInv, RunPasses \/ FailPasses
  PROVE  OwnInv'
  <1>1. PICK S \in SUBSET passes[at] :
          grads' = [s \in Slots |-> grads[s] \cup
             {i \in S : ModelOf[i] \in DOMAIN slot /\ slot[ModelOf[i]] = s}]
    BY PassesEffect
  <1>2. /\ requests' = requests /\ slot' = slot
        /\ executed \subseteq executed' /\ ModelOf' = ModelOf
    BY PassesEffect, SameRows
  <1>3. \A m : Created(m) => Created(m)'
    BY <1>2, CreatedKept
  <1>4. /\ \A m \in DOMAIN slot : slot[m] \in Slots
        /\ \A m, n \in DOMAIN slot : slot[m] = slot[n] => m = n
    BY SlotTypes DEF IInv, TypeOK, BackendTypeOK
  <1>5. \A m \in DOMAIN slot' : Created(m)'
    BY <1>2, <1>3 DEF OwnInv
  <1>6. ASSUME NEW s \in Slots, NEW i \in grads'[s]
        PROVE  Created(ModelOf[i])'
    <2>1. i \in grads[s] \/ ModelOf[i] \in DOMAIN slot
      BY <1>1, <1>6
    <2>2. Created(ModelOf[i])
      BY <2>1 DEF OwnInv
    <2> QED
      BY <1>2, <1>3, <2>2 DEF Created
  <1>7. \A m \in DOMAIN slot' : \A i \in grads'[slot'[m]] : ModelOf'[i] = m
    BY <1>1, <1>2, <1>4 DEF OwnInv
  <1>8. OneModel \/ \A s \in FreeSlots' : grads'[s] = {}
    <2>1. \A s \in FreeSlots : grads'[s] = grads[s]
      BY <1>1 DEF FreeSlots
    <2> QED
      BY <1>2, <2>1 DEF OwnInv, FreeSlots
  <1> QED
    BY <1>5, <1>6, <1>7, <1>8 DEF OwnInv, OneModel

LEMMA OwnAfterCreate ==
  ASSUME IInv, StepInv, OwnInv, NEW i \in Ids \ executed,
         Type(i) = "create_model", executed' = executed \cup {i},
         requests' = requests, grads' = grads, NEW s \in FreeSlots,
         NEW m, m = ModelOf[i],
         slot' = [n \in DOMAIN slot \cup {m} |-> IF n = m THEN s ELSE slot[n]]
  PROVE  OwnInv'
  <1>1. ModelOf' = ModelOf
    BY SameRows
  <1>2. m \notin DOMAIN slot /\ grads[s] = {}
    BY SlotIsClear
  <1>3. \A n : Created(n) => Created(n)'
    BY <1>1, CreatedKept
  <1>4. Created(m)'
    BY <1>1 DEF Created
  <1>5. /\ DOMAIN slot' = DOMAIN slot \cup {m} /\ slot'[m] = s
        /\ \A n \in DOMAIN slot : n # m /\ slot'[n] = slot[n]
    BY <1>2
  <1>6. \A n \in DOMAIN slot' : Created(n)'
    BY <1>3, <1>4, <1>5 DEF OwnInv, Created
  <1>7. ASSUME NEW t \in Slots, NEW j \in grads'[t]
        PROVE  Created(ModelOf[j])'
    <2>1. Created(ModelOf[j])
      BY <1>7 DEF OwnInv
    <2> QED
      BY <1>1, <1>3, <2>1 DEF Created
  <1>8. \A n \in DOMAIN slot' : \A j \in grads'[slot'[n]] : ModelOf'[j] = n
    BY <1>1, <1>2, <1>5 DEF OwnInv
  <1>9. OneModel \/ \A t \in FreeSlots' : grads'[t] = {}
    <2>1. FreeSlots' \subseteq FreeSlots
      BY <1>5 DEF FreeSlots
    <2> QED
      BY <2>1 DEF OwnInv
  <1> QED
    BY <1>6, <1>7, <1>8, <1>9 DEF OwnInv, OneModel

LEMMA OwnStep ==
  ASSUME SlotsNotReused, IInv, StepInv, OwnInv, [Next]_vars
  PROVE  OwnInv'
  <1>1. CASE APINext
    <2>1. PICK type \in Kinds, m \in Models, source \in Ids \cup {0} :
            CreateFuture(type, m, source)
      BY <1>1, APIEffect
    <2>2. /\ UNCHANGED <<slot, grads, executed>>
          /\ \A i \in Ids : requests'[i] = requests[i] /\ ModelOf'[i] = ModelOf[i]
      BY <2>1, CommitEffect
    <2> QED
      BY <2>2, OwnKept
  <1>2. CASE QuietNext
    BY <1>2, QuietEffect, OwnKept
  <1>3. CASE RunPasses \/ FailPasses
    BY <1>3, OwnAfterPasses
  <1>4. CASE RunSamples \/ FailSamples
    BY <1>4, SamplesEffect, SameRows, OwnKept
  <1>5. ASSUME NEW i \in singles,
               \/ RunCreateModel(i) \/ RunUnloadModel(i) \/ RunOptimStep(i)
               \/ RunLoadWeights(i) \/ RunSave(i)
        PROVE  OwnInv'
    <2>1. /\ requests' = requests /\ i \in Ids \ executed
          /\ executed' = executed \cup {i} /\ SingleEffect(i)
      BY <1>5, SinglesEffect
    <2>2. ModelOf' = ModelOf
      BY <2>1, SameRows
    <2>3. CASE UNCHANGED <<slot, grads>>
      BY <2>1, <2>2, <2>3, OwnKept
    <2>4. CASE Type(i) = "create_model" /\ ~ UNCHANGED <<slot, grads>>
      <3>1. PICK s \in FreeSlots :
              /\ slot' = [n \in DOMAIN slot \cup {ModelOf[i]} |->
                            IF n = ModelOf[i] THEN s ELSE slot[n]]
              /\ grads' = grads
        BY <2>1, <2>4 DEF SingleEffect, Saves
      <3> QED
        BY <2>1, <2>4, <3>1, OwnAfterCreate
    <2>5. CASE Type(i) = "unload_model" /\ DeleteAdapters({ModelOf[i]})
      <3>1. OneModel
        BY <2>1, <2>5 DEF SlotsNotReused, StepInv, CreatedInv
      <3>2. /\ slot' = [m \in DOMAIN slot \ {ModelOf[i]} |-> slot[m]]
            /\ grads' = grads
        BY <2>5 DEF DeleteAdapters
      <3> QED
        BY <2>1, <2>2, <3>1, <3>2, OwnKept
    <2>6. CASE OptimStep(ModelOf[i]) /\ ModelOf[i] \in DOMAIN slot
      <3>1. grads \in [Slots -> SUBSET Ids]
        BY DEF IInv, TypeOK, BackendTypeOK
      <3>2. slot' = slot /\ \A s \in Slots : grads'[s] \subseteq grads[s]
        BY <2>6, <3>1 DEF OptimStep
      <3> QED
        BY <2>1, <2>2, <3>2, OwnKept
    <2> QED
      BY <2>1, <2>3, <2>4, <2>5, <2>6 DEF SingleEffect, LoadCheckpoint
  <1>6. CASE CleanupStaleSessions
    <2>1. /\ UNCHANGED <<requests, executed>> /\ CleanupEnabled
          /\ \E S : DeleteAdapters(S)
      BY <1>6, CleanupEffect
    <2>2. OneModel
      BY <2>1 DEF SlotsNotReused
    <2>3. grads' = grads /\ \E S : slot' = [m \in DOMAIN slot \ S |-> slot[m]]
      BY <2>1 DEF DeleteAdapters
    <2>4. ModelOf' = ModelOf
      BY <2>1, SameRows
    <2> QED
      BY <2>1, <2>2, <2>3, <2>4, OwnKept
  <1>7. CASE Crash
    <2>1. DOMAIN slot' = {} /\ \A s \in Slots : grads'[s] = {}
      BY <1>7, CrashEffect, EmptyTypes
    <2>2. FreeSlots' \subseteq Slots
      BY DEF FreeSlots
    <2> QED
      BY <2>1, <2>2 DEF OwnInv
  <1> QED
    BY <1>1, <1>2, <1>3, <1>4, <1>5, <1>6, <1>7, NextCases

LEMMA InitOwnInv == Init => OwnInv
  <1> SUFFICES ASSUME Init PROVE OwnInv
    OBVIOUS
  <1>1. DOMAIN slot = {} /\ \A s \in Slots : grads[s] = {}
    BY EmptyTypes DEF Init, EmptyBackend
  <1>2. FreeSlots \subseteq Slots
    BY DEF FreeSlots
  <1> QED
    BY <1>1, <1>2 DEF OwnInv

(* Where no slot is reused, loaded models were created once, and the       *)
(* gradients in a slot are of the model in it, or of none to come.         *)
THEOREM OwnInvariant ==
  ASSUME SlotsNotReused
  PROVE  Spec => []OwnInv
  <1>1. IInv /\ StepInv /\ OwnInv /\ [Next]_vars => OwnInv'
    BY OwnStep
  <1> QED
    BY EngineInvariant, StepInvariant, InitOwnInv, <1>1, PTL DEF Spec

(* Where no slot is reused, a model is only ever moved by the gradients of *)
(* its own requests, and by those of each once.                            *)
THEOREM OwnGradientsHolds ==
  ASSUME SlotsNotReused
  PROVE  Spec => []OwnGradients
  <1>1. IInv /\ StepInv /\ OwnInv => OwnGradients
    <2> SUFFICES ASSUME IInv, StepInv, OwnInv,
                        NEW m \in DOMAIN slot, NEW i \in grads[slot[m]]
                 PROVE  /\ ModelOf[i] = m
                        /\ \A k \in DOMAIN weights[slot[m]] : i \notin weights[slot[m]][k]
      BY DEF OwnGradients
    <2>1. slot[m] \in Slots
      BY SlotTypes DEF IInv, TypeOK
    <2>2. weights[slot[m]] \in Histories
      BY <2>1 DEF Histories
    <2> QED
      BY <2>1, <2>2 DEF OwnInv, StepInv, GradsInv
  <1> QED
    BY EngineInvariant, StepInvariant, OwnInvariant, <1>1, PTL
----------------------------------------------------------------------------
(* The engine implements SerialTraining.                                   *)

(* The weights and the gradients of each loaded model.                     *)
ModelWeights == [m \in DOMAIN slot |-> weights[slot[m]]]
ModelGrads == [m \in DOMAIN slot |-> grads[slot[m]]]

(* What the abstract specification speaks of, in the engine's terms.       *)
LEMMA SerialTerms ==
  /\ Serial!Ids = Ids /\ Serial!Loaded = DOMAIN slot
  /\ \A i \in Ids : Serial!Type(i) = Type(i) /\ Serial!ModelOf(i) = ModelOf[i]
  /\ \A i, j \in Ids : Serial!Ordered(i, j) <=> Ordered(i, j)
  <1>1. Serial!Ids = Ids
    BY DEF Serial!Ids, Ids
  <1>2. Serial!Loaded = DOMAIN slot
    BY DEF Serial!Loaded
  <1>3. \A i \in Ids : Serial!Type(i) = Type(i) /\ Serial!ModelOf(i) = ModelOf[i]
    BY DEF Serial!Type, Serial!ModelOf, ModelOf
  <1>4. \A i, j \in Ids : Serial!Ordered(i, j) <=> Ordered(i, j)
    BY <1>3 DEF Serial!Ordered, Ordered
  <1> QED
    BY <1>1, <1>2, <1>3, <1>4

(* A request is run when what it must wait for has been.                   *)
LEMMA SerialReady ==
  ASSUME IInv', UNCHANGED <<requests, raced>>,
         NEW j \in Ids \ executed, j \in executed',
         \A i \in executed' \ executed : i < j => ~Ordered(i, j)
  PROVE  Serial!Ready(j)
  <1>1. Ids' = Ids /\ ModelOf' = ModelOf
    BY SameRows
  <1>2. ASSUME NEW i \in Ids, i < j, Ordered(i, j) PROVE i \in executed
    <2>1. Ordered(i, j)'
      BY <1>1, <1>2 DEF Ordered
    <2>2. i \in executed'
      BY <1>1, <1>2, <2>1 DEF IInv, CommitOrder
    <2> QED
      BY <1>2, <2>2
  <1> QED
    BY <1>2, SerialTerms DEF Serial!Ready

LEMMA SerialCommit ==
  ASSUME IInv, APINext
  PROVE  Serial!Next
  <1>1. PICK type \in Kinds, m \in Models, source \in Ids \cup {0} :
          CreateFuture(type, m, source) /\ file' = file
    BY APIEffect
  <1>2. /\ UNCHANGED <<slot, weights, grads, executed>> /\ Settled' = Settled
    BY <1>1, CommitEffect
  <1> DEFINE r == [type |-> type, model |-> m, source |-> source]
  <1>3. /\ requests' = Append(requests, r)
        /\ raced' \in {raced, raced \cup {Len(requests) + 1}}
    BY <1>1 DEF CreateFuture
  <1>4. r \in [type : RequestTypes, model : Models, source : Serial!Ids \cup {0}]
    BY SerialTerms
  <1> HIDE DEF r
  <1>5. Serial!Commit
    BY <1>1, <1>2, <1>3, <1>4 DEF Serial!Commit, Settled
  <1> QED
    BY <1>5 DEF Serial!Next

LEMMA SerialSettle ==
  ASSUME IInv, QuietNext
  PROVE  [Serial!Next]_(Serial!vars)
  <1>1. /\ UNCHANGED <<requests, raced, file, slot, weights, grads, executed>>
        /\ Settled' = Settled \/ Settled' = Settled \cup DOMAIN results
    BY QuietEffect
  <1>2. CASE Settled' = Settled
    BY <1>1, <1>2 DEF Serial!vars, Settled
  <1>3. CASE Settled' = Settled \cup DOMAIN results
    <2>1. DOMAIN results \in SUBSET Serial!Ids /\ DOMAIN results \subseteq executed
      BY SerialTerms DEF IInv, ExecutedInv
    <2>2. Serial!Settle(DOMAIN results)
      BY <1>1, <1>3, <2>1 DEF Serial!Settle, Settled
    <2> QED
      BY <2>1, <2>2 DEF Serial!Next
  <1> QED
    BY <1>1, <1>2, <1>3

(* A batch of passes or samples, all of them ready.                        *)
LEMMA SerialBatch ==
  ASSUME IInv, IInv', UNCHANGED <<requests, status, raced, file, slot, weights>>,
         NEW S \in SUBSET (Ids \ executed), executed' = executed \cup S,
         NEW t, t \notin Single, \A i \in S : Type(i) = t,
         NEW added \in SUBSET S, \A i \in added : Type(i) = "forward_backward",
         \A m \in DOMAIN slot :
           grads'[slot[m]] = grads[slot[m]] \cup {i \in added : ModelOf[i] = m}
  PROVE  Serial!Next
  <1>1. Settled' = Settled
    BY SameRows
  <1>2. ASSUME NEW i \in S PROVE Serial!Ready(i) /\ Serial!Type(i) \notin Single
    <2>1. \A k \in executed' \ executed : ~Ordered(k, i)
      BY KindsDiffer DEF Ordered
    <2>2. i \in executed'
      OBVIOUS
    <2>3. Serial!Ready(i)
      BY <2>1, <2>2, SerialReady
    <2> QED
      BY <2>3, SerialTerms
  <1>3. added \in SUBSET {i \in S : Serial!Type(i) = "forward_backward"}
    BY SerialTerms
  <1>4. ModelGrads' = [m \in Serial!Loaded |->
                         ModelGrads[m] \cup {i \in added : Serial!ModelOf(i) = m}]
    <2>1. \A m \in DOMAIN slot :
            {i \in added : Serial!ModelOf(i) = m} = {i \in added : ModelOf[i] = m}
      BY SerialTerms
    <2> QED
      BY <2>1, SerialTerms DEF ModelGrads
  <1>5. Serial!Batch(S)
    BY <1>1, <1>2, <1>3, <1>4 DEF Serial!Batch, ModelGrads, Settled
  <1> QED
    BY <1>5, SerialTerms DEF Serial!Next

LEMMA SerialPasses ==
  ASSUME IInv, IInv', StepInv, RunPasses \/ FailPasses
  PROVE  Serial!Next
  <1>1. PICK S \in SUBSET passes[at] :
          /\ S = {} \/ at = "forward_backward"
          /\ grads' = [s \in Slots |-> grads[s] \cup
                {i \in S : ModelOf[i] \in DOMAIN slot /\ slot[ModelOf[i]] = s}]
    BY PassesEffect
  <1>2. /\ UNCHANGED <<requests, status, raced, file, slot, weights>>
        /\ phase = "run" /\ at \in Passes
        /\ executed' = executed \cup passes[at]
    BY PassesEffect
  <1>3. /\ passes[at] \in SUBSET (Ids \ executed)
        /\ at \notin Single
        /\ \A i \in passes[at] : Type(i) = at
    BY <1>2, KindsDiffer DEF StepInv, UnrunInv, Group, IInv, FoundInv
  <1>4. /\ S \in SUBSET passes[at]
        /\ \A i \in S : Type(i) = "forward_backward"
    BY <1>1, <1>3
  <1>5. ASSUME NEW m \in DOMAIN slot
        PROVE  grads'[slot[m]] = grads[slot[m]] \cup {i \in S : ModelOf[i] = m}
    <2>1. /\ slot[m] \in Slots
          /\ \A n \in DOMAIN slot : slot[n] = slot[m] => n = m
      BY SlotTypes DEF IInv, TypeOK, BackendTypeOK
    <2>2. {i \in S : ModelOf[i] \in DOMAIN slot /\ slot[ModelOf[i]] = slot[m]}
            = {i \in S : ModelOf[i] = m}
      BY <2>1
    <2> QED
      BY <1>1, <2>1, <2>2
  <1> QED
    BY <1>2, <1>3, <1>4, <1>5, SerialBatch

LEMMA SerialSamples ==
  ASSUME ~NativeSampling, IInv, IInv', StepInv, RunSamples \/ FailSamples
  PROVE  Serial!Next
  <1>1. /\ UNCHANGED <<requests, status, raced, file, slot, weights, grads>>
        /\ phase = "run" /\ at = "samples"
        /\ executed' = executed \cup samples
    BY SamplesEffect
  <1>2. /\ samples \in SUBSET (Ids \ executed)
        /\ "sample" \notin Single
        /\ \A i \in samples : Type(i) = "sample"
    BY <1>1, KindsDiffer DEF StepInv, UnrunInv, Group, IInv, FoundInv
  <1>3. /\ {} \in SUBSET samples /\ \A i \in {} : Type(i) = "forward_backward"
        /\ \A m \in DOMAIN slot :
             grads'[slot[m]] = grads[slot[m]] \cup {i \in {} : ModelOf[i] = m}
    BY <1>1
  <1> QED
    BY <1>1, <1>2, <1>3, SerialBatch

(* A model that is deleted is gone, and the others are what they were.     *)
LEMMA ModelsDropped ==
  ASSUME IInv, NEW S \in SUBSET DOMAIN slot, DeleteAdapters(S)
  PROVE  /\ ModelWeights' = [n \in DOMAIN slot \ S |-> ModelWeights[n]]
         /\ ModelGrads' = [n \in DOMAIN slot \ S |-> ModelGrads[n]]
  <1>1. /\ slot' = [n \in DOMAIN slot \ S |-> slot[n]]
        /\ grads' = grads
        /\ weights' = [s \in Slots |->
             IF \E m \in S : slot[m] = s THEN << >> ELSE weights[s]]
    BY DEF DeleteAdapters
  <1>2. DOMAIN slot' = DOMAIN slot \ S
    BY <1>1
  <1>3. ASSUME NEW n \in DOMAIN slot \ S
        PROVE  slot'[n] = slot[n] /\ weights'[slot[n]] = weights[slot[n]]
    <2>1. /\ slot[n] \in Slots
          /\ \A m \in DOMAIN slot : slot[m] = slot[n] => m = n
      BY SlotTypes DEF IInv, TypeOK, BackendTypeOK
    <2> QED
      BY <1>1, <2>1
  <1> QED
    BY <1>1, <1>2, <1>3 DEF ModelWeights, ModelGrads

(* The effect of a single request on the slots is its effect on the models *)
(* in them.                                                                *)
LEMMA SerialSingle ==
  ASSUME IInv, IInv', StepInv, OwnInv, NEW i \in singles,
         \/ RunCreateModel(i) \/ RunUnloadModel(i) \/ RunOptimStep(i)
         \/ RunLoadWeights(i) \/ RunSave(i)
  PROVE  Serial!Next
  <1>1. /\ UNCHANGED <<requests, status, raced>>
        /\ i \in Ids \ executed /\ executed' = executed \cup {i}
        /\ SingleEffect(i)
    BY SinglesEffect
  <1>2. Settled' = Settled
    BY <1>1, SameRows
  <1>3. Serial!Ready(i)
    <2>1. ~ (i < i)
      BY <1>1, RowTypes DEF IInv, TypeOK
    <2>2. \A k \in executed' \ executed : k < i => ~Ordered(k, i)
      BY <1>1, <2>1
    <2> QED
      BY <1>1, <2>2, SerialReady
  <1>4. /\ Serial!Type(i) = Type(i) /\ Serial!ModelOf(i) = ModelOf[i]
        /\ Serial!Loaded = DOMAIN slot
    BY <1>1, SerialTerms
  <1>5. /\ \A m \in DOMAIN slot : slot[m] \in Slots
        /\ \A m, n \in DOMAIN slot : slot[m] = slot[n] => m = n
        /\ weights \in [Slots -> History] /\ grads \in [Slots -> SUBSET Ids]
    BY SlotTypes DEF IInv, TypeOK, BackendTypeOK
  <1> DEFINE Moved ==
    \/ UNCHANGED <<ModelWeights, ModelGrads, file>>
    \/ /\ Type(i) = "create_model"
       /\ ModelWeights' = [n \in DOMAIN slot \cup {ModelOf[i]} |->
                             IF n = ModelOf[i] THEN << >> ELSE ModelWeights[n]]
       /\ ModelGrads' = [n \in DOMAIN slot \cup {ModelOf[i]} |->
                           IF n = ModelOf[i] THEN {} ELSE ModelGrads[n]]
       /\ UNCHANGED file
    \/ /\ Type(i) = "unload_model"
       /\ ModelWeights' = [n \in DOMAIN slot \ {ModelOf[i]} |-> ModelWeights[n]]
       /\ ModelGrads' = [n \in DOMAIN slot \ {ModelOf[i]} |-> ModelGrads[n]]
       /\ UNCHANGED file
    \/ /\ Type(i) = "optim_step"
       /\ ModelOf[i] \in DOMAIN slot
       /\ ModelWeights' = [ModelWeights EXCEPT ![ModelOf[i]] =
                             Append(@, ModelGrads[ModelOf[i]])]
       /\ ModelGrads' = [ModelGrads EXCEPT ![ModelOf[i]] = {}]
       /\ UNCHANGED file
    \/ /\ Type(i) = "load_weights"
       /\ ModelOf[i] \in DOMAIN slot
       /\ ModelWeights' = [ModelWeights EXCEPT ![ModelOf[i]] = file[requests[i].source]]
       /\ UNCHANGED <<ModelGrads, file>>
    \/ /\ Type(i) \in Saves
       /\ ModelOf[i] \in DOMAIN slot
       /\ file' = [c \in DOMAIN file \cup {i} |->
                     IF c = i THEN ModelWeights[ModelOf[i]] ELSE file[c]]
       /\ UNCHANGED <<ModelWeights, ModelGrads>>
  <1>6. Moved
    <2>1. CASE UNCHANGED <<slot, weights, grads, file>>
      BY <2>1 DEF ModelWeights, ModelGrads
    <2>2. ASSUME Type(i) = "create_model", NEW s \in FreeSlots, NEW m, m = ModelOf[i],
                 slot' = [n \in DOMAIN slot \cup {m} |-> IF n = m THEN s ELSE slot[n]],
                 weights' = [weights EXCEPT ![s] = << >>],
                 UNCHANGED <<grads, file>>
          PROVE  Moved
      <3>1. m \notin DOMAIN slot /\ grads[s] = {}
        BY <1>1, <2>2, SlotIsClear
      <3>2. s \in Slots /\ \A n \in DOMAIN slot : slot[n] # s
        BY DEF FreeSlots
      <3>3. /\ ModelWeights' = [n \in DOMAIN slot \cup {m} |->
                                  IF n = m THEN << >> ELSE ModelWeights[n]]
            /\ ModelGrads' = [n \in DOMAIN slot \cup {m} |->
                                IF n = m THEN {} ELSE ModelGrads[n]]
        BY <1>5, <2>2, <3>1, <3>2 DEF ModelWeights, ModelGrads
      <3> QED
        BY <2>2, <3>3
    <2>3. CASE /\ Type(i) = "unload_model" /\ ModelOf[i] \in DOMAIN slot
               /\ DeleteAdapters({ModelOf[i]}) /\ UNCHANGED file
      <3>1. {ModelOf[i]} \in SUBSET DOMAIN slot
        BY <2>3
      <3>2. /\ ModelWeights' = [n \in DOMAIN slot \ {ModelOf[i]} |-> ModelWeights[n]]
            /\ ModelGrads' = [n \in DOMAIN slot \ {ModelOf[i]} |-> ModelGrads[n]]
        BY <2>3, <3>1, ModelsDropped
      <3> QED
        BY <2>3, <3>2
    <2>4. CASE /\ Type(i) = "optim_step" /\ ModelOf[i] \in DOMAIN slot
               /\ OptimStep(ModelOf[i]) /\ UNCHANGED file
      <3>1. /\ ModelWeights' = [ModelWeights EXCEPT ![ModelOf[i]] =
                                  Append(@, ModelGrads[ModelOf[i]])]
            /\ ModelGrads' = [ModelGrads EXCEPT ![ModelOf[i]] = {}]
        BY <1>5, <2>4 DEF OptimStep, ModelWeights, ModelGrads
      <3> QED
        BY <2>4, <3>1
    <2>5. CASE /\ Type(i) = "load_weights" /\ ModelOf[i] \in DOMAIN slot
               /\ requests[i].source \in DOMAIN file
               /\ LoadCheckpoint(ModelOf[i], file[requests[i].source])
               /\ UNCHANGED file
      <3>1. /\ ModelWeights' = [ModelWeights EXCEPT ![ModelOf[i]] =
                                  file[requests[i].source]]
            /\ ModelGrads' = ModelGrads
        BY <1>5, <2>5 DEF LoadCheckpoint, ModelWeights, ModelGrads
      <3> QED
        BY <2>5, <3>1
    <2>6. CASE /\ Type(i) \in Saves /\ ModelOf[i] \in DOMAIN slot
               /\ UNCHANGED <<slot, weights, grads>>
               /\ file' = [c \in DOMAIN file \cup {i} |->
                    IF c = i THEN weights[slot[ModelOf[i]]] ELSE file[c]]
      BY <2>6 DEF ModelWeights, ModelGrads
    <2> HIDE DEF Moved
    <2> QED
      BY <1>1, <2>1, <2>2, <2>3, <2>4, <2>5, <2>6 DEF SingleEffect
  <1>7. Serial!Update(i)
    <2>1. ASSUME Type(i) = "create_model",
                 ~ UNCHANGED <<ModelWeights, ModelGrads, file>>
          PROVE  /\ ModelWeights' = [n \in Serial!Loaded \cup {Serial!ModelOf(i)} |->
                      IF n = Serial!ModelOf(i) THEN << >> ELSE ModelWeights[n]]
                 /\ ModelGrads' = [n \in Serial!Loaded \cup {Serial!ModelOf(i)} |->
                      IF n = Serial!ModelOf(i) THEN {} ELSE ModelGrads[n]]
                 /\ UNCHANGED file
      BY <1>4, <1>6, <2>1 DEF Saves
    <2> USE <1>1, <1>2, <1>3, <1>4
    <2> USE DEF Serial!Update, Settled, ModelWeights, ModelGrads
    <2>2. CASE UNCHANGED <<ModelWeights, ModelGrads, file>>
      BY <2>2
    <2>3. CASE Type(i) = "create_model" /\ ~ UNCHANGED <<ModelWeights, ModelGrads, file>>
      BY <2>1, <2>3
    <2>4. CASE Type(i) = "unload_model"
      BY <1>6, <2>4 DEF Saves
    <2>5. CASE Type(i) = "optim_step"
      BY <1>6, <2>5 DEF Saves
    <2>6. CASE Type(i) = "load_weights"
      BY <1>6, <2>6 DEF Saves
    <2>7. CASE Type(i) \in Saves
      BY <1>6, <2>7 DEF Saves
    <2> QED
      BY <1>6, <2>2, <2>3, <2>4, <2>5, <2>6, <2>7
  <1> QED
    BY <1>1, <1>7, SerialTerms DEF Serial!Next

LEMMA SerialDrop ==
  ASSUME IInv, CleanupStaleSessions
  PROVE  Serial!Next
  <1>1. /\ UNCHANGED <<requests, status, raced, file, executed>>
        /\ \E S \in SUBSET Models : DeleteAdapters(S \cap DOMAIN slot)
    BY CleanupEffect
  <1>2. PICK S \in SUBSET Models : DeleteAdapters(S \cap DOMAIN slot)
    BY <1>1
  <1>3. Settled' = Settled
    BY <1>1, SameRows
  <1>4. DOMAIN slot \ (S \cap DOMAIN slot) = DOMAIN slot \ S
    OBVIOUS
  <1>5. /\ ModelWeights' = [n \in DOMAIN slot \ (S \cap DOMAIN slot) |-> ModelWeights[n]]
        /\ ModelGrads' = [n \in DOMAIN slot \ (S \cap DOMAIN slot) |-> ModelGrads[n]]
    BY <1>2, ModelsDropped
  <1>6. Serial!Drop(S)
    BY <1>1, <1>3, <1>4, <1>5, SerialTerms
    DEF Serial!Drop, Settled, ModelWeights, ModelGrads
  <1> QED
    BY <1>6 DEF Serial!Next

LEMMA NoModels ==
  ASSUME slot = << >>
  PROVE  ModelWeights = << >> /\ ModelGrads = << >>
  BY EmptyTypes DEF ModelWeights, ModelGrads

LEMMA SerialExit ==
  ASSUME IInv, Crash
  PROVE  Serial!Next
  <1>1. /\ UNCHANGED <<requests, status, raced, file>>
        /\ executed' = Settled /\ slot' = << >>
    BY CrashEffect
  <1>2. Settled' = Settled
    BY <1>1, SameRows
  <1>3. ModelWeights' = << >> /\ ModelGrads' = << >>
    BY <1>1, EmptyTypes DEF ModelWeights, ModelGrads
  <1>4. Serial!Exit
    BY <1>1, <1>2, <1>3 DEF Serial!Exit, Settled, ModelWeights, ModelGrads
  <1> QED
    BY <1>4 DEF Serial!Next

LEMMA SerialStep ==
  ASSUME ~NativeSampling, IInv, IInv', StepInv, OwnInv, [Next]_vars
  PROVE  [Serial!Next]_(Serial!vars)
  BY NextCases, SerialCommit, SerialSettle, SerialPasses, SerialSamples,
     SerialSingle, SerialDrop, SerialExit

(* Where no slot is reused and samples are not drawn from the slots, the   *)
(* engine implements SerialTraining: batches, barriers, exits and reruns   *)
(* leave each model with the history of its requests taken one at a time.  *)
THEOREM ImplementsSerialTrainingHolds ==
  ASSUME SlotsNotReused, ~NativeSampling
  PROVE  Spec => ImplementsSerialTraining
  <1>1. Init => Serial!Init
    <2> SUFFICES ASSUME Init PROVE Serial!Init
      OBVIOUS
    <2>1. /\ requests = << >> /\ raced = {} /\ executed = {} /\ file = << >>
          /\ slot = << >>
      BY DEF Init, EmptyBackend
    <2>2. Ids \ Pending = {}
      BY <2>1, EmptyTypes DEF Ids
    <2>3. ModelWeights = << >> /\ ModelGrads = << >>
      BY <2>1, NoModels
    <2> QED
      BY <2>1, <2>2, <2>3 DEF Serial!Init, ModelWeights, ModelGrads
  <1>2. IInv /\ IInv' /\ StepInv /\ OwnInv /\ [Next]_vars
          => [Serial!Next]_(Serial!vars)
    BY SerialStep
  <1> QED
    BY <1>1, <1>2, EngineInvariant, StepInvariant, OwnInvariant, PTL
       DEF Spec, ImplementsSerialTraining, Serial!Spec
=============================================================================
