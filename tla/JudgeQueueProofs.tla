-------------------------- MODULE JudgeQueueProofs --------------------------
(***************************************************************************)
(* Proofs about JudgeQueue, for any candidates, judges, lease time and     *)
(* number of restarts and faults: no item is lost or queued twice, a       *)
(* verdict stands, the client's verdicts are those of its own candidates,  *)
(* and every step is one of GradedOnce or changes nothing there.           *)
(***************************************************************************)
EXTENDS JudgeQueue, FiniteSetTheorems, TLAPS

USE JudgeQueueAssumption, NoneAssumption
    DEF JudgeQueueAssumption, NoneAssumption

(* Ids are the numbers up to some natural number.                          *)
LEMMA IdsNat == Ids \subseteq Nat \ {0} /\ IsFiniteSet(Ids)
  <1>1. Cardinality(Works) \in Nat
    BY FS_CardinalityType
  <1>2. PICK m \in Nat : Ids = 1..m
    BY <1>1 DEF Ids
  <1>3. IsFiniteSet(1..m)
    BY FS_Interval
  <1> QED
    BY <1>2, <1>3

----------------------------------------------------------------------------
(* The deque.                                                              *)

InFifo(q, i) == \E k \in 1..Len(q) : q[k] = i

Distinct(q) == \A k, h \in 1..Len(q) : q[k] = q[h] => k = h

(* What a deque and the states of the items have to do with each other.    *)
(* A leased item is in no deque, or an expired lease would put it there    *)
(* twice.                                                                  *)
FifoOf(q, st, n) ==
  /\ Distinct(q)
  /\ \A i \in Ids : st[i] = "queued" => InFifo(q, i)
  /\ \A k \in 1..Len(q) : st[q[k]] \in {"queued", "done"}
  /\ \A i \in Ids : n <= i <=> st[i] = "absent"

States == {"absent", "queued", "leased", "done", "unknown"}

(* The order of a sweep has every expired item once.                       *)
LEMMA OrderOfSweep ==
  ASSUME NEW S \in SUBSET Ids, NEW s \in YoungestFirst(S)
  PROVE  /\ s \in Seq(S) /\ Distinct(s)
         /\ \A i \in S : InFifo(s, i)
  <1> DEFINE n == Cardinality(S)
  <1>1. IsFiniteSet(S) /\ n \in Nat
    BY IdsNat, FS_Subset, FS_CardinalityType
  <1> HIDE DEF n
  <1>2. s \in [1..n -> S] /\ \A a, b \in 1..n : a < b => s[a] > s[b]
    BY DEF YoungestFirst, n
  <1>3. s \in Seq(S) /\ Len(s) = n
    BY <1>1, <1>2
  <1>4. ASSUME NEW a \in 1..n, NEW b \in 1..n, s[a] = s[b] PROVE a = b
    <2>1. s[a] \in Nat /\ s[b] \in Nat
      BY <1>2, IdsNat
    <2>2. ~ (a < b) /\ ~ (b < a)
      BY <1>2, <1>4, <2>1
    <2> QED
      BY <1>1, <2>2
  <1>5. s \in Injection(1..n, S)
    BY <1>2, <1>4 DEF Injection, IsInjective
  <1>6. IsFiniteSet(1..n) /\ Cardinality(1..n) = n
    BY <1>1, FS_Interval
  <1>7. s \in Surjection(1..n, S)
    BY <1>1, <1>5, <1>6, FS_Injection DEF n
  <1>8. \A i \in S : \E k \in 1..n : s[k] = i
    BY <1>7 DEF Surjection
  <1> QED
    BY <1>3, <1>4, <1>8 DEF Distinct, InFifo

(* Putting distinct items in front of a deque that has none of them.       *)
LEMMA Prepend ==
  ASSUME NEW s \in Seq(Ids), NEW q \in Seq(Ids), Distinct(s), Distinct(q),
         \A k \in 1..Len(s), h \in 1..Len(q) : s[k] # q[h]
  PROVE  /\ s \o q \in Seq(Ids)
         /\ Distinct(s \o q)
         /\ \A i : InFifo(s \o q, i) <=> InFifo(s, i) \/ InFifo(q, i)
  <1>1. /\ s \o q \in Seq(Ids)
        /\ Len(s) \in Nat /\ Len(q) \in Nat
        /\ Len(s \o q) = Len(s) + Len(q)
    OBVIOUS
  <1>2. /\ \A k \in 1..Len(s) : (s \o q)[k] = s[k]
        /\ \A h \in 1..Len(q) : (s \o q)[Len(s) + h] = q[h]
    OBVIOUS
  <1>3. ASSUME NEW k \in 1..Len(s \o q)
        PROVE  \/ k \in 1..Len(s)
               \/ \E h \in 1..Len(q) : k = Len(s) + h
    <2>1. CASE k <= Len(s)
      BY <1>1, <2>1
    <2>2. CASE ~ (k <= Len(s))
      <3>1. k - Len(s) \in 1..Len(q) /\ k = Len(s) + (k - Len(s))
        BY <1>1, <2>2
      <3> QED
        BY <3>1
    <2> QED
      BY <2>1, <2>2
  <1>4. ASSUME NEW k \in 1..Len(s \o q), NEW h \in 1..Len(s \o q),
               (s \o q)[k] = (s \o q)[h]
        PROVE  k = h
    <2>1. CASE k \in 1..Len(s) /\ h \in 1..Len(s)
      BY <1>2, <1>4, <2>1 DEF Distinct
    <2>2. ASSUME NEW x \in 1..Len(q), NEW y \in 1..Len(q),
                 k = Len(s) + x, h = Len(s) + y
          PROVE  k = h
      BY <1>2, <1>4, <2>2 DEF Distinct
    <2>3. ASSUME NEW x \in 1..Len(q), k = Len(s) + x, h \in 1..Len(s)
          PROVE  FALSE
      BY <1>2, <1>4, <2>3
    <2>4. ASSUME NEW y \in 1..Len(q), h = Len(s) + y, k \in 1..Len(s)
          PROVE  FALSE
      BY <1>2, <1>4, <2>4
    <2> QED
      BY <1>3, <2>1, <2>2, <2>3, <2>4
  <1>5. \A i : InFifo(s, i) \/ InFifo(q, i) => InFifo(s \o q, i)
    <2>1. \A k \in 1..Len(s) : k \in 1..Len(s \o q)
      BY <1>1
    <2>2. \A h \in 1..Len(q) : Len(s) + h \in 1..Len(s \o q)
      BY <1>1
    <2> QED
      BY <1>2, <2>1, <2>2 DEF InFifo
  <1>6. \A i : InFifo(s \o q, i) => InFifo(s, i) \/ InFifo(q, i)
    BY <1>2, <1>3 DEF InFifo
  <1> QED
    BY <1>1, <1>4, <1>5, <1>6 DEF Distinct


LEMMA SweepFifo ==
  ASSUME TypeOK, FifoOf(fifo, state, nextId),
         NEW s \in YoungestFirst(Expired)
  PROVE  /\ SweptFifo(s) \in Seq(Ids)
         /\ SweptState \in [Ids -> States]
         /\ FifoOf(SweptFifo(s), SweptState, nextId)
  <1>1. /\ Expired \in SUBSET Ids /\ fifo \in Seq(Ids)
        /\ state \in [Ids -> States]
    BY DEF Expired, TypeOK, States
  <1>2. /\ s \in Seq(Expired) /\ s \in Seq(Ids) /\ Distinct(s)
        /\ \A i \in Expired : InFifo(s, i)
    BY <1>1, OrderOfSweep
  <1>3. ASSUME NEW k \in 1..Len(s), NEW h \in 1..Len(fifo)
        PROVE  s[k] \in Expired /\ s[k] # fifo[h]
    <2>1. s[k] \in Expired
      BY <1>2
    <2>2. state[s[k]] = "leased" /\ state[fifo[h]] # "leased"
      BY <2>1 DEF Expired, FifoOf
    <2> QED
      BY <2>1, <2>2
  <1>4. /\ SweptFifo(s) \in Seq(Ids)
        /\ Distinct(SweptFifo(s))
        /\ \A i : InFifo(SweptFifo(s), i) <=> InFifo(s, i) \/ InFifo(fifo, i)
    BY <1>1, <1>2, <1>3, Prepend DEF FifoOf, SweptFifo
  <1>5. /\ SweptState \in [Ids -> States]
        /\ \A i \in Ids : SweptState[i] =
             IF i \in Expired THEN "queued" ELSE state[i]
    BY <1>1 DEF SweptState, States
  <1>6. \A i \in Ids : SweptState[i] = "queued" => InFifo(SweptFifo(s), i)
    BY <1>2, <1>4, <1>5 DEF FifoOf
  <1>7. ASSUME NEW k \in 1..Len(SweptFifo(s))
        PROVE  SweptState[SweptFifo(s)[k]] \in {"queued", "done"}
    <2> DEFINE i == SweptFifo(s)[k]
    <2>1. i \in Ids
      BY <1>4
    <2>2. InFifo(s, i) \/ InFifo(fifo, i)
      BY <1>4 DEF InFifo
    <2>3. CASE InFifo(s, i)
      BY <1>2, <1>5, <2>1, <2>3 DEF InFifo
    <2>4. CASE InFifo(fifo, i)
      <3>1. state[i] \in {"queued", "done"}
        BY <2>4 DEF InFifo, FifoOf
      <3> QED
        BY <1>5, <2>1, <3>1 DEF Expired
    <2> QED
      BY <2>2, <2>3, <2>4
  <1>8. \A i \in Ids : nextId <= i <=> SweptState[i] = "absent"
    BY <1>5 DEF FifoOf, Expired
  <1> QED
    BY <1>4, <1>5, <1>6, <1>7, <1>8 DEF FifoOf

(* What leasing the item at one place leaves.                              *)
LEMMA GrantFifo ==
  ASSUME TypeOK, NEW q \in Seq(Ids), NEW st \in [Ids -> States],
         FifoOf(q, st, nextId), NEW k \in FirstQueued(q, st),
         GrantLease(q, st, k)
  PROVE  /\ q[k] \in Ids /\ st[q[k]] = "queued"
         /\ fifo' \in Seq(Ids)
         /\ state' = [st EXCEPT ![q[k]] = "leased"]
         /\ state' \in [Ids -> States]
         /\ attempts' \in [Ids -> Nat] /\ ttl' \in [Ids -> 0..LeaseTime]
         /\ \A i \in Ids : i # q[k] => attempts'[i] = attempts[i]
         /\ FifoOf(fifo', state', nextId)
  <1>1. /\ k \in 1..Len(q) /\ st[q[k]] = "queued"
        /\ \A h \in 1..(k - 1) : st[q[h]] # "queued"
    BY DEF FirstQueued
  <1>2. q[k] \in Ids
    BY <1>1
  <1>3. /\ fifo' = SubSeq(q, k + 1, Len(q))
        /\ state' = [st EXCEPT ![q[k]] = "leased"]
        /\ ttl' = [ttl EXCEPT ![q[k]] = LeaseTime]
        /\ attempts' = [attempts EXCEPT ![q[k]] = @ + 1]
    BY DEF GrantLease
  <1>4. state' \in [Ids -> States]
    BY <1>2, <1>3 DEF States
  <1>5. /\ attempts' \in [Ids -> Nat]
        /\ \A i \in Ids : i # q[k] => attempts'[i] = attempts[i]
    BY <1>2, <1>3 DEF TypeOK
  <1>6. ttl' \in [Ids -> 0..LeaseTime]
    <2>1. LeaseTime \in 0..LeaseTime
      OBVIOUS
    <2> QED
      BY <1>2, <1>3, <2>1 DEF TypeOK
  <1>7. /\ fifo' \in Seq(Ids) /\ Len(fifo') \in Nat
        /\ Len(fifo') = Len(q) - k
        /\ \A h \in 1..Len(fifo') : h + k \in 1..Len(q) /\ fifo'[h] = q[h + k]
    BY <1>1, <1>3
  <1>8. Distinct(fifo')
    <2> SUFFICES ASSUME NEW a \in 1..Len(fifo'), NEW b \in 1..Len(fifo'),
                        fifo'[a] = fifo'[b]
                 PROVE  a = b
      BY DEF Distinct
    <2>1. a + k = b + k
      BY <1>7 DEF FifoOf, Distinct
    <2> QED
      BY <1>1, <1>7, <2>1
  <1>9. ASSUME NEW i \in Ids, state'[i] = "queued" PROVE InFifo(fifo', i)
    <2>1. i # q[k] /\ st[i] = "queued"
      BY <1>2, <1>3, <1>9
    <2>2. PICK h \in 1..Len(q) : q[h] = i
      BY <2>1 DEF FifoOf, InFifo
    <2>3. h > k
      BY <1>1, <2>1, <2>2
    <2>4. h - k \in 1..Len(fifo') /\ (h - k) + k = h
      BY <1>1, <1>7, <2>2, <2>3
    <2> QED
      BY <1>7, <2>2, <2>4 DEF InFifo
  <1>10. ASSUME NEW h \in 1..Len(fifo')
         PROVE  state'[fifo'[h]] \in {"queued", "done"}
    <2>1. h + k \in 1..Len(q) /\ fifo'[h] = q[h + k] /\ h + k # k
      BY <1>1, <1>7
    <2>2. q[h + k] # q[k]
      BY <1>1, <2>1 DEF FifoOf, Distinct
    <2>3. st[q[h + k]] \in {"queued", "done"} /\ q[h + k] \in Ids
      BY <2>1 DEF FifoOf
    <2> QED
      BY <1>3, <2>1, <2>2, <2>3
  <1>11. \A i \in Ids : nextId <= i <=> state'[i] = "absent"
    BY <1>1, <1>2, <1>3 DEF FifoOf
  <1> QED
    BY <1>1, <1>2, <1>3, <1>4, <1>5, <1>6, <1>7, <1>8, <1>9, <1>10, <1>11
       DEF FifoOf

(* A new item at the end.                                                  *)
LEMMA EnqueueFifo ==
  ASSUME TypeOK, FifoOf(fifo, state, nextId), NEW w \in Works, Enqueue(w)
  PROVE  /\ nextId \in Ids /\ state[nextId] = "absent"
         /\ fifo' \in Seq(Ids) /\ nextId' \in Nat
         /\ state' = [state EXCEPT ![nextId] = "queued"]
         /\ state' \in [Ids -> States]
         /\ payload' = [payload EXCEPT ![nextId] = w]
         /\ payload' \in [Ids -> Works \cup {None}]
         /\ FifoOf(fifo', state', nextId')
  <1>1. /\ nextId \in Ids /\ nextId \in Nat
        /\ state' = [state EXCEPT ![nextId] = "queued"]
        /\ payload' = [payload EXCEPT ![nextId] = w]
        /\ fifo' = Append(fifo, nextId) /\ nextId' = nextId + 1
    BY DEF Enqueue, TypeOK
  <1>2. state[nextId] = "absent"
    BY <1>1 DEF FifoOf
  <1>3. /\ fifo \in Seq(Ids) /\ state \in [Ids -> States]
        /\ payload \in [Ids -> Works \cup {None}]
    BY DEF TypeOK, States
  <1>4. /\ fifo' \in Seq(Ids) /\ Len(fifo) \in Nat
        /\ Len(fifo') = Len(fifo) + 1
        /\ \A k \in 1..Len(fifo) : fifo'[k] = fifo[k]
        /\ fifo'[Len(fifo) + 1] = nextId
    BY <1>1, <1>3
  <1>5. \A k \in 1..Len(fifo) : fifo[k] # nextId /\ fifo[k] \in Ids
    BY <1>2, <1>3 DEF FifoOf
  <1>6. \A k \in 1..Len(fifo') : k \in 1..Len(fifo) \/ k = Len(fifo) + 1
    BY <1>4
  <1>7. Distinct(fifo')
    BY <1>4, <1>5, <1>6 DEF Distinct, FifoOf
  <1>8. \A i \in Ids : state'[i] = "queued" => InFifo(fifo', i)
    <2>1. \A k \in 1..Len(fifo) : k \in 1..Len(fifo')
      BY <1>4
    <2>2. Len(fifo) + 1 \in 1..Len(fifo')
      BY <1>4
    <2> QED
      BY <1>1, <1>3, <1>4, <2>1, <2>2 DEF FifoOf, InFifo
  <1>9. \A k \in 1..Len(fifo') : state'[fifo'[k]] \in {"queued", "done"}
    BY <1>1, <1>3, <1>4, <1>5, <1>6 DEF FifoOf
  <1>10. \A i \in Ids : nextId' <= i <=> state'[i] = "absent"
    <2> SUFFICES ASSUME NEW i \in Ids
                 PROVE  nextId' <= i <=> state'[i] = "absent"
      OBVIOUS
    <2>1. i \in Nat
      BY IdsNat
    <2>2. CASE i = nextId
      BY <1>1, <1>3, <2>2
    <2>3. CASE i # nextId
      <3>1. state'[i] = state[i]
        BY <1>1, <1>3, <2>3
      <3>2. nextId' <= i <=> nextId <= i
        BY <1>1, <2>1, <2>3
      <3> QED
        BY <3>1, <3>2 DEF FifoOf
    <2> QED
      BY <2>2, <2>3
  <1>11. state' \in [Ids -> States] /\ payload' \in [Ids -> Works \cup {None}]
    BY <1>1, <1>3 DEF States
  <1> QED
    BY <1>1, <1>2, <1>4, <1>7, <1>8, <1>9, <1>10, <1>11 DEF FifoOf

(* A verdict leaves a stale pointer at most.                               *)
LEMMA RecordFifo ==
  ASSUME TypeOK, FifoOf(fifo, state, nextId), NEW i \in Ids,
         NEW v \in Verdict, Record(i, v)
  PROVE  /\ fifo' \in Seq(Ids) /\ state' \in [Ids -> States]
         /\ result' \in [Ids -> Verdict \cup {None}]
         /\ attempts' \in [Ids -> Nat] /\ ttl' \in [Ids -> 0..LeaseTime]
         /\ FifoOf(fifo', state', nextId)
         /\ \A h \in Ids :
              IF h = i /\ Known(i) /\ state[i] # "done"
              THEN result'[h] = v /\ state'[h] = "done"
              ELSE result'[h] = result[h] /\ state'[h] = state[h]
  <1>1. /\ fifo' = fifo /\ attempts' = attempts /\ ttl' = ttl
        /\ state \in [Ids -> States] /\ result \in [Ids -> Verdict \cup {None}]
    BY DEF Record, TypeOK, States
  <1>2. CASE Known(i) /\ state[i] # "done"
    <2>1. /\ result' = [result EXCEPT ![i] = v]
          /\ state' = [state EXCEPT ![i] = "done"]
          /\ state[i] # "absent"
      BY <1>2 DEF Record, Known
    <2>2. FifoOf(fifo, state', nextId)
      BY <1>1, <2>1 DEF FifoOf, TypeOK
    <2> QED
      BY <1>1, <1>2, <2>1, <2>2 DEF TypeOK, States
  <1>3. CASE ~ (Known(i) /\ state[i] # "done")
    BY <1>1, <1>3 DEF Record, TypeOK
  <1> QED
    BY <1>2, <1>3

----------------------------------------------------------------------------
(* The invariant.                                                          *)

(* A verdict that may be told of candidate w.                              *)
Fits(v, w) == v.work = w \/ (CompileBudget /\ v.watchdog)

FifoInv == FifoOf(fifo, state, nextId)

(* Every place a verdict passes through, with the candidate it is for.     *)
VerdictsFit ==
  /\ \A i \in Ids : result[i] # None => i < nextId /\ Fits(result[i], payload[i])
  /\ \A i \in Ids : state[i] = "done" => result[i] # None
  /\ \A p \in posts : p.id < nextId /\ Fits(p.verdict, payload[p.id])
  /\ \A w \in Works : answer[w] # None => Fits(answer[w], w)

(* Ids that are in use stand for a candidate, the client's for its own.    *)
IdsInUse ==
  /\ \A i \in Ids : i < nextId => payload[i] \in Works
  /\ \A j \in Judges : job[j] # None => job[j].id < nextId
  /\ \A j \in Judges : overrun[j] # None => CompileBudget
  /\ \A w \in Works : alias[w] # None =>
       alias[w] < nextId /\ payload[alias[w]] = w

ClientInv ==
  /\ pc \in {"waiting", "resubmitting"} => \A w \in Works : alias[w] # None
  /\ pc = "resubmitting" => asked \in Works

IInv == TypeOK /\ FifoInv /\ VerdictsFit /\ IdsInUse /\ ClientInv

LEMMA InitIInv == Init => IInv
  <1> SUFFICES ASSUME Init PROVE IInv
    OBVIOUS
  <1>1. TypeOK
    BY IdsNat DEF Init, TypeOK
  <1>2. FifoInv
    BY IdsNat DEF Init, FifoInv, FifoOf, Distinct, InFifo
  <1>3. VerdictsFit /\ IdsInUse /\ ClientInv
    BY IdsNat DEF Init, VerdictsFit, IdsInUse, ClientInv
  <1> QED
    BY <1>1, <1>2, <1>3 DEF IInv

(* What a step of the client that leaves the queue alone keeps.            *)
LEMMA FifoUnchanged ==
  ASSUME FifoInv, UNCHANGED <<fifo, state, nextId>>
  PROVE  FifoInv'
  BY DEF FifoInv, FifoOf, Distinct, InFifo

(* Leasing an item of a swept deque changes no verdict.                    *)
LEMMA LeaseStep ==
  ASSUME IInv, NEW s \in YoungestFirst(Expired),
         NEW k \in FirstQueued(SweptFifo(s), SweptState),
         GrantLease(SweptFifo(s), SweptState, k),
         UNCHANGED <<result, payload, nextId, posts, answer>>
  PROVE  /\ FifoInv' /\ VerdictsFit'
         /\ fifo' \in Seq(Ids) /\ state' \in [Ids -> States]
         /\ attempts' \in [Ids -> Nat] /\ ttl' \in [Ids -> 0..LeaseTime]
         /\ SweptFifo(s)[k] \in Ids /\ SweptFifo(s)[k] < nextId
         /\ \A i \in Ids : state[i] = "done" =>
              state'[i] = "done" /\ attempts'[i] = attempts[i]
  <1> DEFINE q == SweptFifo(s)
  <1>1. /\ q \in Seq(Ids) /\ SweptState \in [Ids -> States]
        /\ FifoOf(q, SweptState, nextId)
    BY SweepFifo DEF IInv, FifoInv
  <1>2. /\ q[k] \in Ids /\ SweptState[q[k]] = "queued"
        /\ fifo' \in Seq(Ids)
        /\ state' = [SweptState EXCEPT ![q[k]] = "leased"]
        /\ state' \in [Ids -> States]
        /\ attempts' \in [Ids -> Nat] /\ ttl' \in [Ids -> 0..LeaseTime]
        /\ \A i \in Ids : i # q[k] => attempts'[i] = attempts[i]
        /\ FifoOf(fifo', state', nextId)
    BY <1>1, GrantFifo DEF IInv
  <1>3. FifoInv'
    BY <1>2 DEF FifoInv, FifoOf, Distinct, InFifo
  <1>4. ~ (nextId <= q[k])
    BY <1>1, <1>2 DEF FifoOf
  <1> HIDE DEF q
  <1>5. q[k] < nextId
    <2>1. q[k] \in Nat /\ nextId \in Nat
      BY <1>2, IdsNat DEF IInv, TypeOK
    <2> QED
      BY <1>4, <2>1
  <1>6. \A i \in Ids : state'[i] = "done" <=> state[i] = "done"
    BY <1>1, <1>2 DEF SweptState, Expired
  <1>7. \A i \in Ids : state[i] = "done" => i # q[k]
    BY <1>1, <1>2 DEF SweptState, Expired
  <1>8. VerdictsFit'
    BY <1>6 DEF IInv, VerdictsFit, Fits
  <1> QED
    BY <1>2, <1>3, <1>5, <1>6, <1>7, <1>8 DEF q

(* Recording a verdict that fits.                                          *)
LEMMA RecordStep ==
  ASSUME IInv, NEW i \in Ids, NEW v \in Verdict, Record(i, v),
         Fits(v, payload[i]), i < nextId,
         posts' \subseteq posts, UNCHANGED <<payload, nextId, answer>>
  PROVE  /\ FifoInv' /\ VerdictsFit'
         /\ fifo' \in Seq(Ids) /\ state' \in [Ids -> States]
         /\ attempts' \in [Ids -> Nat] /\ ttl' \in [Ids -> 0..LeaseTime]
         /\ result' \in [Ids -> Verdict \cup {None}]
         /\ \A h \in Ids : state[h] = "done" =>
              /\ state'[h] = "done" /\ result'[h] = result[h]
              /\ attempts'[h] = attempts[h]
  <1>1. /\ fifo' \in Seq(Ids) /\ state' \in [Ids -> States]
        /\ result' \in [Ids -> Verdict \cup {None}]
        /\ attempts' \in [Ids -> Nat] /\ ttl' \in [Ids -> 0..LeaseTime]
        /\ FifoOf(fifo', state', nextId)
        /\ \A h \in Ids :
             IF h = i /\ Known(i) /\ state[i] # "done"
             THEN result'[h] = v /\ state'[h] = "done"
             ELSE result'[h] = result[h] /\ state'[h] = state[h]
    BY RecordFifo DEF IInv, FifoInv
  <1>2. FifoInv'
    BY <1>1 DEF FifoInv, FifoOf, Distinct, InFifo
  <1>3. v # None
    OBVIOUS
  <1>4. VerdictsFit'
    <2>1. ASSUME NEW h \in Ids, result'[h] # None
          PROVE  h < nextId /\ Fits(result'[h], payload[h])
      BY <1>1, <2>1 DEF IInv, VerdictsFit
    <2>2. ASSUME NEW h \in Ids, state'[h] = "done" PROVE result'[h] # None
      BY <1>1, <1>3, <2>2 DEF IInv, VerdictsFit
    <2> QED
      BY <2>1, <2>2 DEF IInv, VerdictsFit, Fits
  <1>5. attempts' = attempts
    BY DEF Record
  <1> QED
    BY <1>1, <1>2, <1>4, <1>5

(* A candidate enqueued under the next id.                                 *)
LEMMA EnqueueStep ==
  ASSUME IInv, NEW w \in Works, Enqueue(w), UNCHANGED <<posts, answer>>
  PROVE  /\ FifoInv' /\ VerdictsFit'
         /\ fifo' \in Seq(Ids) /\ state' \in [Ids -> States]
         /\ payload' \in [Ids -> Works \cup {None}]
         /\ attempts' = attempts /\ ttl' = ttl /\ result' = result
         /\ nextId \in Ids /\ nextId' = nextId + 1 /\ nextId' \in Nat
         /\ payload'[nextId] = w
         /\ \A i \in Ids : i # nextId => payload'[i] = payload[i]
         /\ \A h \in Ids : state[h] = "done" => state'[h] = "done"
  <1>1. /\ nextId \in Ids /\ state[nextId] = "absent"
        /\ fifo' \in Seq(Ids) /\ nextId' \in Nat
        /\ state' = [state EXCEPT ![nextId] = "queued"]
        /\ state' \in [Ids -> States]
        /\ payload' = [payload EXCEPT ![nextId] = w]
        /\ payload' \in [Ids -> Works \cup {None}]
        /\ FifoOf(fifo', state', nextId')
    BY EnqueueFifo DEF IInv, FifoInv
  <1>2. /\ attempts' = attempts /\ ttl' = ttl /\ result' = result
        /\ nextId' = nextId + 1 /\ nextId \in Nat
    BY DEF Enqueue, IInv, TypeOK
  <1>3. FifoInv'
    BY <1>1 DEF FifoInv, FifoOf, Distinct, InFifo
  <1>4. /\ payload'[nextId] = w
        /\ \A i \in Ids : i # nextId => payload'[i] = payload[i]
        /\ \A i \in Ids : i # nextId => state'[i] = state[i]
        /\ state'[nextId] = "queued"
    BY <1>1 DEF IInv, TypeOK
  <1>5. VerdictsFit'
    <2>1. ASSUME NEW i \in Ids, result'[i] # None
          PROVE  i < nextId' /\ Fits(result'[i], payload'[i])
      <3>1. i < nextId /\ Fits(result[i], payload[i]) /\ i \in Nat
        BY <1>2, <2>1, IdsNat DEF IInv, VerdictsFit
      <3> QED
        BY <1>2, <1>4, <3>1
    <2>2. ASSUME NEW i \in Ids, state'[i] = "done" PROVE result'[i] # None
      BY <1>2, <1>4, <2>2 DEF IInv, VerdictsFit
    <2>3. ASSUME NEW p \in posts
          PROVE  p.id < nextId' /\ Fits(p.verdict, payload'[p.id])
      <3>1. p.id < nextId /\ Fits(p.verdict, payload[p.id]) /\ p.id \in Ids
        BY DEF IInv, VerdictsFit, TypeOK, Post
      <3>2. p.id \in Nat
        BY <3>1, IdsNat
      <3> QED
        BY <1>2, <1>4, <3>1, <3>2
    <2> QED
      BY <2>1, <2>2, <2>3 DEF IInv, VerdictsFit, Fits
  <1> QED
    BY <1>1, <1>2, <1>3, <1>4, <1>5

(* Ids stay in use when one more is.                                       *)
LEMMA EnqueueIds ==
  ASSUME IInv, NEW w \in Works, Enqueue(w), UNCHANGED <<posts, answer>>,
         UNCHANGED <<job, overrun>>,
         alias' \in {alias, [alias EXCEPT ![w] = nextId]}
  PROVE  IdsInUse' /\ alias' \in [Works -> Ids \cup {None}]
  <1>1. /\ nextId \in Ids /\ nextId' = nextId + 1
        /\ payload'[nextId] = w
        /\ \A i \in Ids : i # nextId => payload'[i] = payload[i]
    BY EnqueueStep
  <1>2. /\ Ids \subseteq Nat /\ nextId \in Nat
        /\ alias \in [Works -> Ids \cup {None}]
        /\ job \in [Judges -> Lease \cup {None}]
    BY IdsNat DEF IInv, TypeOK
  <1>3. \A i \in Ids : i < nextId' => payload'[i] \in Works
    <2> SUFFICES ASSUME NEW i \in Ids, i < nextId' PROVE payload'[i] \in Works
      OBVIOUS
    <2>1. i = nextId \/ (i < nextId /\ i # nextId)
      BY <1>1, <1>2
    <2> QED
      BY <1>1, <2>1 DEF IInv, IdsInUse
  <1>4. \A j \in Judges : job'[j] # None => job'[j].id < nextId'
    <2> SUFFICES ASSUME NEW j \in Judges, job[j] # None
                 PROVE  job[j].id < nextId'
      OBVIOUS
    <2>1. job[j].id < nextId
      BY DEF IInv, IdsInUse
    <2>2. job[j] \in Lease
      BY <1>2
    <2>3. job[j].id \in Nat
      BY <1>2, <2>2 DEF Lease
    <2> QED
      BY <1>1, <1>2, <2>1, <2>3
  <1>5. ASSUME NEW u \in Works, alias'[u] # None
        PROVE  alias'[u] < nextId' /\ payload'[alias'[u]] = u
    <2>1. CASE alias'[u] = alias[u]
      <3>0. alias[u] # None /\ alias[u] \in Ids
        BY <1>2, <1>5, <2>1
      <3>1. /\ alias[u] \in Ids /\ alias[u] < nextId
            /\ payload[alias[u]] = u
        BY <3>0 DEF IInv, IdsInUse
      <3>4. alias[u] \in Nat /\ nextId \in Nat
        BY <1>2, <3>0
      <3>2. alias[u] # nextId /\ alias[u] < nextId + 1
        BY <3>1, <3>4
      <3>3. payload'[alias[u]] = payload[alias[u]]
        BY <1>1, <3>1, <3>2
      <3> QED
        BY <1>1, <2>1, <3>1, <3>2, <3>3
    <2>2. CASE alias'[u] # alias[u]
      <3>1. u = w /\ alias'[u] = nextId
        BY <1>2, <2>2
      <3> QED
        BY <1>1, <1>2, <3>1
    <2> QED
      BY <2>1, <2>2
  <1>6. alias' \in [Works -> Ids \cup {None}]
    BY <1>1, <1>2
  <1>7. \A j \in Judges : overrun'[j] # None => CompileBudget
    BY DEF IInv, IdsInUse
  <1> QED
    BY <1>3, <1>4, <1>5, <1>6, <1>7 DEF IdsInUse

(* Every step keeps the invariant.                                         *)
LEMMA StepIInv == IInv /\ Next => IInv'
  <1> SUFFICES ASSUME IInv, Next PROVE IInv'
    OBVIOUS
  <1> USE DEF IInv
  <1>0. state \in [Ids -> States] /\ nextId \in Nat /\ Ids \subseteq Nat
    BY IdsNat DEF TypeOK, States
  <1>2. ASSUME NEW j \in Judges, GetWork(j) PROVE IInv'
    <2>0. UNCHANGED <<result, overrun, posts, pc, asked, alias, answer,
                      payload, nextId, restarts, faults>>
      BY <1>2 DEF GetWork, clientVars, idVars
    <2>1. PICK s \in YoungestFirst(Expired) :
            \/ \E k \in FirstQueued(SweptFifo(s), SweptState) :
                 /\ GrantLease(SweptFifo(s), SweptState, k)
                 /\ job' = [job EXCEPT ![j] =
                      [id |-> SweptFifo(s)[k],
                       attempt |-> attempts[SweptFifo(s)[k]] + 1]]
            \/ NothingToGrade(SweptFifo(s), SweptState) /\ UNCHANGED job
      BY <1>2 DEF GetWork
    <2>2. ASSUME NEW k \in FirstQueued(SweptFifo(s), SweptState),
                 GrantLease(SweptFifo(s), SweptState, k),
                 job' = [job EXCEPT ![j] =
                   [id |-> SweptFifo(s)[k],
                    attempt |-> attempts[SweptFifo(s)[k]] + 1]]
          PROVE  IInv'
      <3> DEFINE i == SweptFifo(s)[k]
      <3>1. /\ FifoInv' /\ VerdictsFit'
            /\ fifo' \in Seq(Ids) /\ state' \in [Ids -> States]
            /\ attempts' \in [Ids -> Nat] /\ ttl' \in [Ids -> 0..LeaseTime]
            /\ i \in Ids /\ i < nextId
        BY <2>0, <2>2, LeaseStep
      <3>2. job' = [job EXCEPT ![j] = [id |-> i, attempt |-> attempts[i] + 1]]
        BY <2>2
      <3> HIDE DEF i
      <3>3. [id |-> i, attempt |-> attempts[i] + 1] \in Lease
        BY <3>1 DEF TypeOK, Lease
      <3>4. /\ job' \in [Judges -> Lease \cup {None}]
            /\ \A h \in Judges : job'[h] # None => job'[h].id < nextId
        BY <3>1, <3>2, <3>3 DEF TypeOK, IdsInUse
      <3>5. TypeOK'
        BY <2>0, <3>1, <3>4 DEF TypeOK, States
      <3>6. IdsInUse' /\ ClientInv'
        BY <2>0, <3>4 DEF IdsInUse, ClientInv
      <3> QED
        BY <3>1, <3>5, <3>6
    <2>3. CASE NothingToGrade(SweptFifo(s), SweptState) /\ UNCHANGED job
      <3>1. /\ SweptFifo(s) \in Seq(Ids) /\ SweptState \in [Ids -> States]
            /\ FifoOf(SweptFifo(s), SweptState, nextId)
        BY SweepFifo DEF FifoInv
      <3>2. /\ fifo' = <<>> /\ state' = SweptState
            /\ UNCHANGED <<ttl, attempts>>
            /\ \A k \in 1..Len(SweptFifo(s)) :
                 SweptState[SweptFifo(s)[k]] # "queued"
        BY <2>3 DEF NothingToGrade
      <3>3. \A i \in Ids : SweptState[i] # "queued"
        BY <3>1, <3>2 DEF FifoOf, InFifo
      <3>4. FifoInv'
        BY <2>0, <3>1, <3>2, <3>3 DEF FifoInv, FifoOf, Distinct, InFifo
      <3>5. TypeOK'
        BY <2>0, <2>3, <3>1, <3>2 DEF TypeOK, States
      <3>6. \A i \in Ids : state'[i] = "done" => state[i] = "done"
        BY <3>2, <1>0 DEF SweptState
      <3>7. VerdictsFit' /\ IdsInUse' /\ ClientInv'
        BY <2>0, <2>3, <3>6
           DEF VerdictsFit, Fits, IdsInUse, ClientInv
      <3> QED
        BY <3>4, <3>5, <3>7
    <2> QED
      BY <2>1, <2>2, <2>3
  <1>3. ASSUME NEW j \in Judges, GetWorkLost(j) PROVE IInv'
    <2>0. /\ UNCHANGED <<result, job, overrun, posts, pc, asked, alias, answer,
                         payload, nextId, restarts>>
          /\ faults' = faults + 1
      BY <1>3 DEF GetWorkLost, Fault, clientVars, idVars, judgeVars
    <2>1. PICK s \in YoungestFirst(Expired) :
            \E k \in FirstQueued(SweptFifo(s), SweptState) :
              GrantLease(SweptFifo(s), SweptState, k)
      BY <1>3 DEF GetWorkLost
    <2>2. /\ FifoInv' /\ VerdictsFit'
          /\ fifo' \in Seq(Ids) /\ state' \in [Ids -> States]
          /\ attempts' \in [Ids -> Nat] /\ ttl' \in [Ids -> 0..LeaseTime]
      BY <2>0, <2>1, LeaseStep
    <2>3. TypeOK'
      BY <2>0, <2>2 DEF TypeOK, States
    <2>4. IdsInUse' /\ ClientInv'
      BY <2>0 DEF IdsInUse, ClientInv
    <2> QED
      BY <2>2, <2>3, <2>4
  <1>4. ASSUME NEW j \in Judges, Heartbeat(j) PROVE IInv'
    <2>1. /\ UNCHANGED <<fifo, state, attempts, result, job, overrun, posts, pc,
                         asked, alias, answer, payload, nextId, restarts,
                         faults>>
          /\ ttl' = [ttl EXCEPT ![job[j].id] = LeaseTime]
      BY <1>4 DEF Heartbeat, clientVars, idVars, judgeVars
    <2>2. ttl' \in [Ids -> 0..LeaseTime]
      <3>1. LeaseTime \in 0..LeaseTime
        OBVIOUS
      <3> QED
        BY <2>1, <3>1 DEF TypeOK
    <2>3. TypeOK'
      BY <2>1, <2>2 DEF TypeOK
    <2>4. FifoInv'
      BY <2>1, FifoUnchanged
    <2>5. VerdictsFit' /\ IdsInUse' /\ ClientInv'
      BY <2>1 DEF VerdictsFit, Fits, IdsInUse, ClientInv
    <2> QED
      BY <2>3, <2>4, <2>5
  <1>5. ASSUME NEW j \in Judges, Finish(j) PROVE IInv'
    <2> DEFINE i == job[j].id
    <2> DEFINE v == [work |-> payload[i], watchdog |-> FALSE]
    <2>0. /\ UNCHANGED <<overrun, posts, pc, asked, alias, answer, payload,
                         nextId, restarts, faults>>
          /\ job' = [job EXCEPT ![j] = None]
          /\ Record(i, v)
      BY <1>5 DEF Finish, PostFor, clientVars, idVars
    <2>1. i \in Ids /\ i < nextId /\ payload[i] \in Works
      BY <1>5 DEF Finish, TypeOK, Lease, IdsInUse
    <2>2. v \in Verdict /\ Fits(v, payload[i])
      BY <2>1 DEF Verdict, Fits
    <2> HIDE DEF i, v
    <2>3. /\ FifoInv' /\ VerdictsFit'
          /\ fifo' \in Seq(Ids) /\ state' \in [Ids -> States]
          /\ attempts' \in [Ids -> Nat] /\ ttl' \in [Ids -> 0..LeaseTime]
          /\ result' \in [Ids -> Verdict \cup {None}]
      BY <2>0, <2>1, <2>2, RecordStep
    <2>4. TypeOK'
      BY <2>0, <2>3 DEF TypeOK, States
    <2>5. IdsInUse' /\ ClientInv'
      BY <2>0 DEF IdsInUse, ClientInv, TypeOK
    <2> QED
      BY <2>3, <2>4, <2>5
  <1>6. ASSUME NEW j \in Judges, FinishUnheard(j) PROVE IInv'
    <2> DEFINE i == job[j].id
    <2> DEFINE v == [work |-> payload[i], watchdog |-> FALSE]
    <2>0. /\ UNCHANGED <<fifo, state, attempts, ttl, result, overrun, pc, asked,
                         alias, answer, payload, nextId, restarts>>
          /\ faults' = faults + 1
          /\ job' = [job EXCEPT ![j] = None]
          /\ posts' = posts \cup {[id |-> i, verdict |-> v]}
      BY <1>6 DEF FinishUnheard, Fault, PostFor, clientVars, idVars, queueVars
    <2>1. i \in Ids /\ i < nextId /\ payload[i] \in Works
      BY <1>6 DEF FinishUnheard, TypeOK, Lease, IdsInUse
    <2>2. v \in Verdict /\ Fits(v, payload[i])
      BY <2>1 DEF Verdict, Fits
    <2> HIDE DEF i, v
    <2>3. TypeOK'
      BY <2>0, <2>1, <2>2 DEF TypeOK, Post
    <2>4. FifoInv'
      BY <2>0, FifoUnchanged
    <2>5. VerdictsFit'
      <3>1. \A p \in posts' : p.id < nextId /\ Fits(p.verdict, payload[p.id])
        BY <2>0, <2>1, <2>2 DEF VerdictsFit
      <3> QED
        BY <2>0, <3>1 DEF VerdictsFit, Fits
    <2>6. IdsInUse' /\ ClientInv'
      BY <2>0 DEF IdsInUse, ClientInv, TypeOK
    <2> QED
      BY <2>3, <2>4, <2>5, <2>6
  <1>7. ASSUME NEW j \in Judges, WatchdogFires(j) PROVE IInv'
    <2>1. /\ UNCHANGED <<fifo, state, attempts, ttl, result, job, posts, pc,
                         asked, alias, answer, payload, nextId, restarts,
                         faults>>
          /\ CompileBudget
          /\ overrun' = [overrun EXCEPT ![j] = payload[job[j].id]]
      BY <1>7 DEF WatchdogFires, clientVars, idVars, queueVars
    <2>2. payload[job[j].id] \in Works
      BY <1>7 DEF WatchdogFires, TypeOK, Lease, IdsInUse
    <2>3. TypeOK'
      BY <2>1, <2>2 DEF TypeOK
    <2>4. FifoInv'
      BY <2>1, FifoUnchanged
    <2>5. VerdictsFit' /\ IdsInUse' /\ ClientInv'
      BY <2>1 DEF VerdictsFit, Fits, IdsInUse, ClientInv
    <2> QED
      BY <2>3, <2>4, <2>5
  <1>8. ASSUME NEW j \in Judges, WatchdogPosts(j) PROVE IInv'
    <2>0. /\ UNCHANGED <<posts, pc, asked, alias, answer, payload, nextId,
                         restarts, faults>>
          /\ overrun[j] # None
          /\ job' = [job EXCEPT ![j] = None]
          /\ overrun' = [overrun EXCEPT ![j] = None]
      BY <1>8 DEF WatchdogPosts, clientVars, idVars
    <2>1. CASE job[j] = None
      <3>1. UNCHANGED <<fifo, state, attempts, ttl, result>>
        BY <1>8, <2>1 DEF WatchdogPosts, queueVars
      <3>2. TypeOK'
        BY <2>0, <3>1 DEF TypeOK
      <3>3. FifoInv'
        BY <2>0, <3>1, FifoUnchanged
      <3>4. VerdictsFit' /\ IdsInUse' /\ ClientInv'
        BY <2>0, <3>1 DEF VerdictsFit, Fits, IdsInUse, ClientInv, TypeOK
      <3> QED
        BY <3>2, <3>3, <3>4
    <2>2. CASE job[j] # None
      <3> DEFINE i == job[j].id
      <3> DEFINE v == [work |-> overrun[j], watchdog |-> TRUE]
      <3>1. Record(i, v)
        BY <1>8, <2>2 DEF WatchdogPosts, PostFor
      <3>2. /\ i \in Ids /\ i < nextId /\ payload[i] \in Works
            /\ overrun[j] \in Works /\ CompileBudget
        BY <2>0, <2>2 DEF TypeOK, Lease, IdsInUse
      <3>3. v \in Verdict /\ Fits(v, payload[i])
        BY <3>2 DEF Verdict, Fits
      <3> HIDE DEF i, v
      <3>4. /\ FifoInv' /\ VerdictsFit'
            /\ fifo' \in Seq(Ids) /\ state' \in [Ids -> States]
            /\ attempts' \in [Ids -> Nat] /\ ttl' \in [Ids -> 0..LeaseTime]
            /\ result' \in [Ids -> Verdict \cup {None}]
        BY <2>0, <3>1, <3>2, <3>3, RecordStep
      <3>5. TypeOK'
        BY <2>0, <3>4 DEF TypeOK, States
      <3>6. IdsInUse' /\ ClientInv'
        BY <2>0 DEF IdsInUse, ClientInv, TypeOK
      <3> QED
        BY <3>4, <3>5, <3>6
    <2> QED
      BY <2>1, <2>2
  <1>9. ASSUME NEW j \in Judges, JudgeDies(j) PROVE IInv'
    <2>0. /\ UNCHANGED <<fifo, state, attempts, ttl, result, posts, pc, asked,
                         alias, answer, payload, nextId, restarts>>
          /\ faults' = faults + 1
          /\ job' = [job EXCEPT ![j] = None]
          /\ overrun' = [overrun EXCEPT ![j] = None]
      BY <1>9 DEF JudgeDies, Fault, clientVars, idVars, queueVars
    <2>1. TypeOK'
      BY <2>0 DEF TypeOK
    <2>2. FifoInv'
      BY <2>0, FifoUnchanged
    <2>3. VerdictsFit' /\ IdsInUse' /\ ClientInv'
      BY <2>0 DEF VerdictsFit, Fits, IdsInUse, ClientInv, TypeOK
    <2> QED
      BY <2>1, <2>2, <2>3
  <1>10. CASE PostResult
    <2>0. /\ UNCHANGED <<job, overrun, pc, asked, alias, answer, payload,
                         nextId, restarts, faults>>
          /\ \E p \in posts : Record(p.id, p.verdict) /\ posts' = posts \ {p}
      BY <1>10 DEF PostResult, judgeVars, clientVars, idVars
    <2>1. PICK p \in posts : Record(p.id, p.verdict) /\ posts' = posts \ {p}
      BY <2>0
    <2>2. /\ p.id \in Ids /\ p.verdict \in Verdict /\ posts' \subseteq posts
          /\ p.id < nextId /\ Fits(p.verdict, payload[p.id])
      BY <2>1 DEF TypeOK, Post, VerdictsFit
    <2>3. /\ FifoInv' /\ VerdictsFit'
          /\ fifo' \in Seq(Ids) /\ state' \in [Ids -> States]
          /\ attempts' \in [Ids -> Nat] /\ ttl' \in [Ids -> 0..LeaseTime]
          /\ result' \in [Ids -> Verdict \cup {None}]
      BY <2>0, <2>1, <2>2, RecordStep
    <2>4. TypeOK'
      BY <2>0, <2>2, <2>3 DEF TypeOK, States
    <2>5. IdsInUse' /\ ClientInv'
      BY <2>0 DEF IdsInUse, ClientInv
    <2> QED
      BY <2>3, <2>4, <2>5
  <1>11. CASE PostLost
    <2>0. /\ UNCHANGED <<fifo, state, attempts, ttl, result, job, overrun, pc,
                         asked, alias, answer, payload, nextId, restarts,
                         faults>>
          /\ posts' \subseteq posts
      BY <1>11 DEF PostLost, queueVars, judgeVars, clientVars, idVars
    <2>1. TypeOK'
      BY <2>0 DEF TypeOK
    <2>2. FifoInv'
      BY <2>0, FifoUnchanged
    <2>3. VerdictsFit' /\ IdsInUse' /\ ClientInv'
      BY <2>0 DEF VerdictsFit, Fits, IdsInUse, ClientInv
    <2> QED
      BY <2>1, <2>2, <2>3
  <1>12. ASSUME NEW w \in Works, Submit(w) PROVE IInv'
    <2>0. /\ UNCHANGED <<job, overrun, posts, pc, asked, answer, restarts,
                         faults>>
          /\ pc = "submitting" /\ Enqueue(w)
          /\ alias' = [alias EXCEPT ![w] = nextId]
      BY <1>12 DEF Submit, judgeVars
    <2>1. /\ FifoInv' /\ VerdictsFit'
          /\ fifo' \in Seq(Ids) /\ state' \in [Ids -> States]
          /\ payload' \in [Ids -> Works \cup {None}]
          /\ attempts' = attempts /\ ttl' = ttl /\ result' = result
          /\ nextId' \in Nat
      BY <2>0, EnqueueStep
    <2>2. IdsInUse' /\ alias' \in [Works -> Ids \cup {None}]
      BY <2>0, EnqueueIds
    <2>3. TypeOK'
      BY <2>0, <2>1, <2>2 DEF TypeOK, States
    <2>4. ClientInv'
      BY <2>0 DEF ClientInv
    <2> QED
      BY <2>1, <2>2, <2>3, <2>4
  <1>13. CASE Resubmit
    <2> DEFINE w == asked
    <2>1. /\ asked \in Works /\ alias[asked] \in Ids
          /\ payload[alias[asked]] = asked
      BY <1>13 DEF Resubmit, ClientInv, IdsInUse, TypeOK
    <2>2. /\ UNCHANGED <<job, overrun, posts, answer, restarts, faults>>
          /\ pc = "resubmitting" /\ Enqueue(asked)
          /\ alias' = [alias EXCEPT ![asked] = nextId]
          /\ pc' = "waiting" /\ asked' = None
      BY <1>13, <2>1 DEF Resubmit, judgeVars
    <2>3. /\ FifoInv' /\ VerdictsFit'
          /\ fifo' \in Seq(Ids) /\ state' \in [Ids -> States]
          /\ payload' \in [Ids -> Works \cup {None}]
          /\ attempts' = attempts /\ ttl' = ttl /\ result' = result
          /\ nextId' \in Nat /\ nextId \in Ids
      BY <2>1, <2>2, EnqueueStep
    <2>4. IdsInUse' /\ alias' \in [Works -> Ids \cup {None}]
      BY <2>1, <2>2, EnqueueIds
    <2>5. TypeOK'
      BY <2>2, <2>3, <2>4 DEF TypeOK, States
    <2>6. ClientInv'
      BY <2>1, <2>2, <2>3 DEF ClientInv, TypeOK
    <2> QED
      BY <2>3, <2>4, <2>5, <2>6
  <1>14. CASE SubmitFails
    <2>0. /\ UNCHANGED <<job, overrun, posts, alias, answer, restarts, faults>>
          /\ pc' = "raised" /\ asked' = None
      BY <1>14 DEF SubmitFails, judgeVars
    <2>1. (\E w \in Works : Enqueue(w)) \/ UNCHANGED <<queueVars, idVars>>
      <3>1. CASE pc = "resubmitting" /\ Enqueue(payload[alias[asked]])
        <4>1. asked \in Works /\ payload[alias[asked]] = asked
          BY <3>1 DEF ClientInv, IdsInUse
        <4> QED
          BY <3>1, <4>1
      <3> QED
        BY <1>14, <3>1 DEF SubmitFails
    <2>2. ClientInv'
      BY <2>0 DEF ClientInv
    <2>3. ASSUME NEW w \in Works, Enqueue(w) PROVE IInv'
      <3>1. /\ FifoInv' /\ VerdictsFit'
            /\ fifo' \in Seq(Ids) /\ state' \in [Ids -> States]
            /\ payload' \in [Ids -> Works \cup {None}]
            /\ attempts' = attempts /\ ttl' = ttl /\ result' = result
            /\ nextId' \in Nat
        BY <2>0, <2>3, EnqueueStep
      <3>2. IdsInUse'
        BY <2>0, <2>3, EnqueueIds
      <3>3. TypeOK'
        BY <2>0, <3>1 DEF TypeOK, States
      <3> QED
        BY <2>2, <3>1, <3>2, <3>3
    <2>4. CASE UNCHANGED <<queueVars, idVars>>
      <3>1. UNCHANGED <<fifo, state, attempts, ttl, result, payload, nextId>>
        BY <2>4 DEF queueVars, idVars
      <3>2. TypeOK'
        BY <2>0, <3>1 DEF TypeOK
      <3>3. FifoInv'
        BY <3>1, FifoUnchanged
      <3>4. VerdictsFit' /\ IdsInUse'
        BY <2>0, <3>1 DEF VerdictsFit, Fits, IdsInUse
      <3> QED
        BY <2>2, <3>2, <3>3, <3>4
    <2> QED
      BY <2>1, <2>3, <2>4
  <1>15. CASE StartWait \/ Return \/ DeadlinePasses
    <2>0. /\ UNCHANGED <<fifo, state, attempts, ttl, result, job, overrun,
                         posts, asked, alias, answer, payload, nextId,
                         restarts, faults>>
          /\ \/ pc' = "returned"
             \/ pc' = "waiting" /\ \A w \in Works : alias[w] # None
      BY <1>15 DEF StartWait, Return, DeadlinePasses, queueVars, judgeVars,
                   idVars
    <2>1. TypeOK'
      BY <2>0 DEF TypeOK
    <2>2. FifoInv'
      BY <2>0, FifoUnchanged
    <2>3. VerdictsFit' /\ IdsInUse'
      BY <2>0 DEF VerdictsFit, Fits, IdsInUse
    <2>4. ClientInv'
      BY <2>0 DEF ClientInv
    <2> QED
      BY <2>1, <2>2, <2>3, <2>4
  <1>16. ASSUME NEW w \in Works, Poll(w) PROVE IInv'
    <2>0. /\ UNCHANGED <<fifo, state, attempts, ttl, result, job, overrun,
                         posts, alias, payload, nextId, restarts, faults>>
          /\ pc = "waiting" /\ answer[w] = None
      BY <1>16 DEF Poll, queueVars, judgeVars, idVars
    <2>1. /\ alias[w] \in Ids /\ payload[alias[w]] = w
      BY <2>0 DEF ClientInv, TypeOK, IdsInUse
    <2>2. FifoInv'
      BY <2>0, FifoUnchanged
    <2>3. IdsInUse'
      BY <2>0 DEF IdsInUse
    <2>4. CASE NotFound(w) /\ UNCHANGED answer
      <3>1. pc' = "resubmitting" /\ asked' = w
        BY <2>4 DEF NotFound
      <3>2. TypeOK'
        BY <2>0, <2>4, <3>1 DEF TypeOK
      <3>3. VerdictsFit' /\ ClientInv'
        BY <2>0, <2>4, <3>1 DEF VerdictsFit, Fits, ClientInv
      <3> QED
        BY <2>2, <2>3, <3>2, <3>3
    <2>5. CASE /\ state[alias[w]] = "done"
               /\ answer' = [answer EXCEPT ![w] = result[alias[w]]]
               /\ UNCHANGED <<pc, asked>>
      <3>1. result[alias[w]] \in Verdict /\ Fits(result[alias[w]], w)
        BY <2>1, <2>5 DEF VerdictsFit, TypeOK
      <3>2. TypeOK'
        BY <2>0, <2>5, <3>1 DEF TypeOK
      <3>3. \A u \in Works : answer'[u] # None => Fits(answer'[u], u)
        BY <2>5, <3>1 DEF VerdictsFit, TypeOK
      <3>4. VerdictsFit'
        BY <2>0, <3>3 DEF VerdictsFit, Fits
      <3>5. ClientInv'
        BY <2>0, <2>5 DEF ClientInv
      <3> QED
        BY <2>2, <2>3, <3>2, <3>4, <3>5
    <2> QED
      BY <1>16, <2>4, <2>5 DEF Poll, Take
  <1>17. CASE Status
    <2>0. /\ UNCHANGED <<attempts, ttl, result, job, overrun, posts, pc, asked,
                         alias, answer, payload, nextId, restarts, faults>>
          /\ state' = SweptState
          /\ \E s \in YoungestFirst(Expired) : fifo' = SweptFifo(s)
      BY <1>17 DEF Status, judgeVars, clientVars, idVars
    <2>1. PICK s \in YoungestFirst(Expired) : fifo' = SweptFifo(s)
      BY <2>0
    <2>2. /\ fifo' \in Seq(Ids) /\ state' \in [Ids -> States]
          /\ FifoOf(fifo', state', nextId)
      BY <2>0, <2>1, SweepFifo DEF FifoInv
    <2>3. FifoInv'
      BY <2>0, <2>2 DEF FifoInv, FifoOf, Distinct, InFifo
    <2>4. TypeOK'
      BY <2>0, <2>2 DEF TypeOK, States
    <2>5. \A i \in Ids : state'[i] = "done" => state[i] = "done"
      BY <2>0 DEF SweptState
    <2>6. VerdictsFit' /\ IdsInUse' /\ ClientInv'
      BY <2>0, <2>5 DEF VerdictsFit, Fits, IdsInUse, ClientInv
    <2> QED
      BY <2>3, <2>4, <2>6
  <1>18. CASE Restart
    <2>0. /\ UNCHANGED <<job, overrun, posts, pc, asked, alias, answer,
                         payload, nextId, faults>>
          /\ restarts' = restarts + 1 /\ fifo' = <<>>
          /\ state' = [i \in Ids |-> IF i < nextId THEN "unknown" ELSE state[i]]
          /\ attempts' = [i \in Ids |-> 0] /\ ttl' = [i \in Ids |-> 0]
          /\ result' = [i \in Ids |-> None]
      BY <1>18 DEF Restart, judgeVars, clientVars, idVars
    <2>1. state' \in [Ids -> States]
      BY <1>0, <2>0 DEF States
    <2>2. TypeOK'
      BY <2>0, <2>1 DEF TypeOK, States
    <2>3. ASSUME NEW i \in Ids
          PROVE  /\ nextId <= i <=> state'[i] = "absent"
                 /\ state'[i] # "queued" /\ state'[i] # "done"
      <3>1. i < nextId <=> ~ (nextId <= i)
        BY <1>0
      <3>2. CASE i < nextId
        BY <2>0, <3>1, <3>2
      <3>3. CASE nextId <= i
        <4>1. state[i] = "absent" /\ state'[i] = state[i]
          BY <2>0, <3>1, <3>3 DEF FifoInv, FifoOf
        <4> QED
          BY <3>3, <4>1
      <3> QED
        BY <3>1, <3>2, <3>3
    <2>4. FifoInv'
      BY <2>0, <2>3 DEF FifoInv, FifoOf, Distinct, InFifo
    <2>5. VerdictsFit' /\ IdsInUse' /\ ClientInv'
      BY <2>0, <2>3 DEF VerdictsFit, Fits, IdsInUse, ClientInv
    <2> QED
      BY <2>2, <2>4, <2>5
  <1>19. CASE Tick
    <2>0. /\ UNCHANGED <<fifo, state, attempts, result, job, overrun, posts, pc,
                         asked, alias, answer, payload, nextId, restarts>>
          /\ faults' \in {faults, faults + 1}
          /\ ttl' = [i \in Ids |-> IF ttl[i] > 0 THEN ttl[i] - 1 ELSE 0]
      BY <1>19 DEF Tick, Fault, judgeVars, clientVars, idVars
    <2>1. ttl' \in [Ids -> 0..LeaseTime]
      BY <2>0 DEF TypeOK
    <2>2. TypeOK'
      BY <2>0, <2>1 DEF TypeOK
    <2>3. FifoInv'
      BY <2>0, FifoUnchanged
    <2>4. VerdictsFit' /\ IdsInUse' /\ ClientInv'
      BY <2>0 DEF VerdictsFit, Fits, IdsInUse, ClientInv
    <2> QED
      BY <2>2, <2>3, <2>4
  <1> QED
    BY <1>2, <1>3, <1>4, <1>5, <1>6, <1>7, <1>8, <1>9, <1>10, <1>11, <1>12,
       <1>13, <1>14, <1>15, <1>16, <1>17, <1>18, <1>19 DEF Next

LEMMA NextIInv == IInv /\ [Next]_vars => IInv'
  <1> SUFFICES ASSUME IInv, UNCHANGED vars PROVE IInv'
    BY StepIInv
  <1>1. UNCHANGED <<fifo, state, attempts, ttl, result, job, overrun, posts, pc,
                    asked, alias, answer, payload, nextId, restarts, faults>>
    BY DEF vars, queueVars, judgeVars, clientVars, idVars
  <1>2. TypeOK'
    BY <1>1 DEF IInv, TypeOK
  <1>3. FifoInv'
    BY <1>1, FifoUnchanged DEF IInv
  <1>4. VerdictsFit' /\ IdsInUse' /\ ClientInv'
    BY <1>1 DEF IInv, VerdictsFit, Fits, IdsInUse, ClientInv
  <1> QED
    BY <1>2, <1>3, <1>4 DEF IInv

(* The queue and its client in every state, for any instance.              *)
THEOREM JudgeQueueInvariant == Spec => []IInv
  BY InitIInv, NextIInv, PTL DEF Spec

(* TypeOK, the type of every variable of the queue, its judges and its     *)
(* client.                                                                 *)
THEOREM JudgeQueueType == Spec => []TypeOK
  BY JudgeQueueInvariant, PTL DEF IInv

(* QueuedOnce: what is to be graded is in the deque, and nothing is in it  *)
(* twice, whatever expires, arrives late or is lost.                       *)
THEOREM NothingLostInQueue == Spec => []QueuedOnce
  <1>1. IInv => QueuedOnce
    BY DEF IInv, FifoInv, FifoOf, Distinct, InFifo, QueuedOnce
  <1> QED
    BY <1>1, JudgeQueueInvariant, PTL

(* OwnVerdict: the client's verdict of a candidate is that candidate's, or *)
(* one of a compile watchdog.                                              *)
THEOREM ClientGetsOwnVerdict == Spec => []OwnVerdict
  <1>1. IInv => OwnVerdict
    BY DEF IInv, VerdictsFit, Fits, OwnVerdict
  <1> QED
    BY <1>1, JudgeQueueInvariant, PTL
(* A step either is no step of the queue's states, or is a verdict, a      *)
(* lease, a sweep, a submission or a restart; what is done stays done.     *)
LEMMA DoneStays ==
  ASSUME IInv, [Next]_vars, restarts' = restarts, NEW i \in Ids,
         state[i] = "done"
  PROVE  /\ state'[i] = "done"
         /\ result'[i] = result[i]
         /\ attempts'[i] = attempts[i]
  <1> USE DEF IInv
  <1>1. ASSUME UNCHANGED queueVars
        PROVE  /\ state'[i] = "done" /\ result'[i] = result[i]
               /\ attempts'[i] = attempts[i]
    BY <1>1 DEF queueVars
  <1>2. ASSUME NEW s \in YoungestFirst(Expired),
               NEW k \in FirstQueued(SweptFifo(s), SweptState),
               GrantLease(SweptFifo(s), SweptState, k),
               UNCHANGED <<result, payload, nextId, posts, answer>>
        PROVE  /\ state'[i] = "done" /\ result'[i] = result[i]
               /\ attempts'[i] = attempts[i]
    BY <1>2, LeaseStep
  <1>3. SweptState[i] = "done"
    BY DEF SweptState, Expired
  <1>4. ASSUME NEW j \in Judges, GetWork(j) \/ GetWorkLost(j)
        PROVE  /\ state'[i] = "done" /\ result'[i] = result[i]
               /\ attempts'[i] = attempts[i]
    <2>1. UNCHANGED <<result, payload, nextId, posts, answer>>
      BY <1>4 DEF GetWork, GetWorkLost, clientVars, idVars
    <2>2. PICK s \in YoungestFirst(Expired) :
            \/ \E k \in FirstQueued(SweptFifo(s), SweptState) :
                 GrantLease(SweptFifo(s), SweptState, k)
            \/ NothingToGrade(SweptFifo(s), SweptState)
      BY <1>4 DEF GetWork, GetWorkLost
    <2>3. CASE NothingToGrade(SweptFifo(s), SweptState)
      BY <1>3, <2>1, <2>3 DEF NothingToGrade
    <2> QED
      BY <1>2, <2>1, <2>2, <2>3
  <1>5. ASSUME NEW h \in Ids, NEW v \in Verdict, Record(h, v)
        PROVE  /\ state'[i] = "done" /\ result'[i] = result[i]
               /\ attempts'[i] = attempts[i]
    BY <1>5 DEF Record, Known, TypeOK
  <1>6. ASSUME NEW j \in Judges, Finish(j) \/ WatchdogPosts(j)
        PROVE  /\ state'[i] = "done" /\ result'[i] = result[i]
               /\ attempts'[i] = attempts[i]
    <2>1. ASSUME job[j] # None
          PROVE  job[j].id \in Ids /\ payload[job[j].id] \in Works
      BY <2>1 DEF TypeOK, Lease, IdsInUse
    <2>2. CASE Finish(j)
      <3> DEFINE v == [work |-> payload[job[j].id], watchdog |-> FALSE]
      <3>1. Record(job[j].id, v) /\ job[j] # None
        BY <2>2 DEF Finish, PostFor
      <3>2. v \in Verdict
        BY <2>1, <3>1 DEF Verdict
      <3> QED
        BY <1>5, <2>1, <3>1, <3>2
    <2>3. CASE WatchdogPosts(j)
      <3> DEFINE v == [work |-> overrun[j], watchdog |-> TRUE]
      <3>1. UNCHANGED queueVars \/ (job[j] # None /\ Record(job[j].id, v))
        BY <2>3 DEF WatchdogPosts, PostFor
      <3>2. v \in Verdict
        BY <2>3 DEF WatchdogPosts, Verdict, TypeOK
      <3> QED
        BY <1>1, <1>5, <2>1, <3>1, <3>2
    <2> QED
      BY <1>6, <2>2, <2>3
  <1>7. CASE PostResult
    BY <1>5, <1>7 DEF PostResult, TypeOK, Post
  <1>8. ASSUME NEW w, Enqueue(w)
        PROVE  /\ state'[i] = "done" /\ result'[i] = result[i]
               /\ attempts'[i] = attempts[i]
    <2>1. state[nextId] = "absent" /\ nextId \in Ids
      BY <1>8, IdsNat DEF Enqueue, FifoInv, FifoOf, TypeOK
    <2> QED
      BY <1>8, <2>1 DEF Enqueue, TypeOK
  <1>9. CASE Resubmit \/ SubmitFails \/ \E w \in Works : Submit(w)
    BY <1>1, <1>8, <1>9 DEF Resubmit, SubmitFails, Submit
  <1>10. CASE Status
    BY <1>3, <1>10 DEF Status
  <1>11. CASE Restart
    BY <1>11 DEF Restart, TypeOK
  <1>12. CASE Tick
    BY <1>12 DEF Tick
  <1>13. ASSUME NEW j \in Judges, Heartbeat(j)
         PROVE  /\ state'[i] = "done" /\ result'[i] = result[i]
                /\ attempts'[i] = attempts[i]
    BY <1>13 DEF Heartbeat
  <1>14. CASE PostLost \/ StartWait \/ Return \/ DeadlinePasses \/ UNCHANGED vars
    BY <1>1, <1>14 DEF PostLost, StartWait, Return, DeadlinePasses, vars
  <1>15. CASE \/ \E w \in Works : Poll(w)
              \/ \E j \in Judges : \/ FinishUnheard(j) \/ JudgeDies(j)
                                   \/ WatchdogFires(j)
    BY <1>1, <1>15 DEF Poll, FinishUnheard, JudgeDies, WatchdogFires
  <1> QED
    BY <1>4, <1>6, <1>7, <1>9, <1>10, <1>11, <1>12, <1>13, <1>14, <1>15
       DEF Next

(* VerdictsStand: between two restarts, an item that is done keeps its     *)
(* verdict and is not leased again.                                        *)
THEOREM VerdictsLast == Spec => VerdictsStand
  <1>1. IInv /\ [Next]_vars =>
          [\A i \in Ids : state[i] = "done" /\ restarts' = restarts =>
             /\ state'[i] = "done"
             /\ result'[i] = result[i]
             /\ attempts'[i] = attempts[i]]_vars
    BY DoneStays
  <1> QED
    BY <1>1, JudgeQueueInvariant, PTL DEF Spec, VerdictsStand

(* The safety part of ImplementsGradedOnce: the first state is one of      *)
(* GradedOnce, and every step is one of its steps or leaves the client's   *)
(* answers as they are.                                                    *)
THEOREM RefinesGradedOnce == Spec => Abstract!Init /\ [][Abstract!Next]_(Abstract!vars)
  <1>1. Init => Abstract!Init
    BY DEF Init, Abstract!Init, Over
  <1>2. IInv /\ [Next]_vars => [Abstract!Next]_(Abstract!vars)
    <2> SUFFICES ASSUME IInv, [Next]_vars
                 PROVE  Abstract!Next \/ (answer' = answer /\ Over' = Over)
      BY DEF Abstract!vars
    <2> USE DEF Over
    <2>1. ASSUME NEW w \in Works, Poll(w)
          PROVE  Abstract!Next \/ (answer' = answer /\ Over' = Over)
      <3>1. CASE state[alias[w]] = "done" /\ Take(w) /\ UNCHANGED <<pc, asked>>
        <4>1. /\ pc = "waiting" /\ pc' = pc /\ answer[w] = None
              /\ alias[w] \in Ids /\ payload[alias[w]] = w
          BY <2>1, <3>1 DEF Poll, IInv, ClientInv, TypeOK, IdsInUse
        <4>2. /\ result[alias[w]] \in Verdict
              /\ Fits(result[alias[w]], w)
          BY <3>1, <4>1 DEF IInv, VerdictsFit, TypeOK
        <4>3. result[alias[w]] \in Verdicts(w)
          BY <4>2 DEF Verdicts, Fits
        <4>4. Abstract!Answer(w)
          BY <3>1, <4>1, <4>3 DEF Abstract!Answer, Take
        <4> QED
          BY <4>4 DEF Abstract!Next
      <3>2. CASE NotFound(w) /\ UNCHANGED answer
        BY <2>1, <3>2 DEF Poll, NotFound
      <3> QED
        BY <2>1, <3>1, <3>2 DEF Poll
    <2>2. CASE SubmitFails \/ Return \/ DeadlinePasses
      <3>1. Abstract!Stop
        BY <2>2 DEF SubmitFails, Return, DeadlinePasses, Abstract!Stop
      <3> QED
        BY <3>1 DEF Abstract!Next
    <2>3. CASE StartWait \/ Resubmit
      BY <2>3 DEF StartWait, Resubmit
    <2>4. CASE UNCHANGED <<pc, answer>>
      BY <2>4
    <2>5. CASE UNCHANGED clientVars
      BY <2>4, <2>5 DEF clientVars
    <2>6. ASSUME NEW j \in Judges,
                 \/ GetWork(j) \/ GetWorkLost(j) \/ Heartbeat(j)
                 \/ Finish(j) \/ FinishUnheard(j) \/ JudgeDies(j)
                 \/ WatchdogFires(j) \/ WatchdogPosts(j)
          PROVE  UNCHANGED clientVars
      BY <2>6 DEF GetWork, GetWorkLost, Heartbeat, Finish, FinishUnheard,
                  JudgeDies, WatchdogFires, WatchdogPosts
    <2>7. ASSUME NEW w \in Works, Submit(w) PROVE UNCHANGED <<pc, answer>>
      BY <2>7 DEF Submit
    <2>8. CASE PostResult \/ PostLost \/ Status \/ Restart \/ Tick
      BY <2>5, <2>8 DEF PostResult, PostLost, Status, Restart, Tick
    <2>9. CASE UNCHANGED vars
      BY <2>5, <2>9 DEF vars
    <2> QED
      BY <2>1, <2>2, <2>3, <2>4, <2>5, <2>6, <2>7, <2>8, <2>9 DEF Next
  <1> QED
    BY <1>1, <1>2, JudgeQueueInvariant, PTL DEF Spec
=============================================================================
