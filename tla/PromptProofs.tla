---------------------------- MODULE PromptProofs ----------------------------
(***************************************************************************)
(* Proofs about the prompts of FullyAsyncTrainer, in three parts.          *)
(*                                                                         *)
(* First the prompts of an epoch: none is generated, collected or trained  *)
(* on twice, so that the dataloader never finds a uid already marked, and  *)
(* the steps of the epoch count what has been trained.                     *)
(*                                                                         *)
(* Then what the books of the dataloader, the weights and the folders say  *)
(* of each other across saves, crashes and launches. A step of the trainer *)
(* is classified by what it does to the weights and the books (DataStep):  *)
(* nothing, lose them, begin, resume, train, drop or end an epoch. What    *)
(* the weights were trained on then needs one case for each.               *)
(*                                                                         *)
(* Last, that the trainer implements EpochTraining.                        *)
(***************************************************************************)
EXTENDS FullyAsyncProofs, FunctionTheorems

(* The workers with a prompt in hand.                                      *)
Holding == {w \in Workers : worker[w] \in {"waiting", "generating"}}

(* No prompt occurs twice.                                                 *)
Distinct(groups) ==
  \A i, j \in DOMAIN groups : groups[i].uid = groups[j].uid => i = j

(* What a worker holds was drawn, is nobody else's and not yet delivered.  *)
HeldInv ==
  /\ \A w \in Workers : job[w] # None => w \in Holding
  /\ \A v, w \in Holding : job[v].uid = job[w].uid => v = w
  /\ \A w \in Holding :
       /\ job[w].uid <= cursor
       /\ job[w].uid \notin UidsOf(buffer) \cup UidsOf(batch) \cup consumedUids

(* What is delivered was drawn, is there once and not marked.              *)
DeliveredInv ==
  /\ Distinct(buffer)
  /\ Distinct(batch)
  /\ UidsOf(buffer) \cap UidsOf(batch) = {}
  /\ \A u \in UidsOf(buffer) \cup UidsOf(batch) :
       u <= cursor /\ u \notin consumedUids

(* A batch is collected at one place only, and gone when it is left.       *)
CollectInv == pc # "collect" => batch = << >>

(* The prompts trained on in this epoch make up its steps.                 *)
CountInv ==
  /\ pc = "epoch" => NumTrained % MiniBatchSize = 0
  /\ pc = "sync" => NumTrained = MiniBatchSize * (trainedSteps + 1)
  /\ \/ pc \in {"collect", "advance"}
     \/ pc \in Saving /\ afterSave = "advance"
     => NumTrained = MiniBatchSize * trainedSteps

(* None of these three assertions has failed.                              *)
AssertionsHold == failure \notin {"buffer full", "duplicate uid", "trained count"}

PromptInv == HeldInv /\ DeliveredInv /\ CollectInv /\ CountInv

----------------------------------------------------------------------------
(* The prompts of sequences of groups.                                     *)

(* A group put at the end adds its prompt.                                 *)
LEMMA AppendUids ==
  ASSUME NEW s \in Seq(Group), NEW g \in Group
  PROVE  /\ Append(s, g) \in Seq(Group)
         /\ UidsOf(Append(s, g)) = UidsOf(s) \cup {g.uid}
         /\ Distinct(s) /\ g.uid \notin UidsOf(s) => Distinct(Append(s, g))
  <1>1. /\ Len(s) \in Nat /\ DOMAIN s = 1..Len(s)
        /\ Append(s, g) \in Seq(Group)
        /\ DOMAIN Append(s, g) = 1..(Len(s) + 1)
        /\ Append(s, g)[Len(s) + 1] = g
        /\ \A i \in 1..Len(s) : Append(s, g)[i] = s[i]
    OBVIOUS
  <1> DEFINE t == Append(s, g)
  <1> HIDE DEF t
  <1>2. /\ \A i \in DOMAIN t : (i \in DOMAIN s /\ t[i] = s[i]) \/ t[i] = g
        /\ \A i \in DOMAIN s : i \in DOMAIN t /\ t[i] = s[i]
        /\ \E i \in DOMAIN t : t[i] = g
        /\ \A i, j \in DOMAIN t : i \notin DOMAIN s /\ j \notin DOMAIN s => i = j
        /\ \A i \in DOMAIN t : i \notin DOMAIN s => t[i] = g
    BY <1>1 DEF t
  <1>3. UidsOf(t) = UidsOf(s) \cup {g.uid}
    BY <1>2 DEF UidsOf
  <1>4. Distinct(s) /\ g.uid \notin UidsOf(s) => Distinct(t)
    BY <1>2 DEF UidsOf, Distinct
  <1> QED
    BY <1>1, <1>3, <1>4 DEF t

(* A group taken from the head takes its prompt away.                      *)
LEMMA HeadUids ==
  ASSUME NEW s \in Seq(Group), s # << >>
  PROVE  /\ Head(s) \in Group /\ Tail(s) \in Seq(Group)
         /\ UidsOf(s) = UidsOf(Tail(s)) \cup {Head(s).uid}
         /\ Distinct(s) => Distinct(Tail(s)) /\ Head(s).uid \notin UidsOf(Tail(s))
  <1> DEFINE t == Tail(s)
  <1>1. /\ Len(s) \in Nat \ {0} /\ DOMAIN s = 1..Len(s)
        /\ Head(s) \in Group /\ t \in Seq(Group) /\ Head(s) = s[1]
        /\ DOMAIN t = 1..(Len(s) - 1)
        /\ \A i \in 1..(Len(s) - 1) : t[i] = s[i + 1]
    BY HeadTailProperties, EmptySeq, LenProperties
  <1> HIDE DEF t
  <1>2. /\ 1 \in DOMAIN s /\ s[1] = Head(s)
        /\ \A i \in DOMAIN t : i + 1 \in DOMAIN s /\ i + 1 # 1 /\ t[i] = s[i + 1]
        /\ \A i \in DOMAIN s : i # 1 => i - 1 \in DOMAIN t /\ t[i - 1] = s[i]
        /\ \A i, j \in DOMAIN t : i + 1 = j + 1 => i = j
    BY <1>1
  <1>3. UidsOf(s) = UidsOf(t) \cup {Head(s).uid}
    BY <1>2 DEF UidsOf
  <1>4. Distinct(s) => Distinct(t) /\ Head(s).uid \notin UidsOf(t)
    BY <1>2 DEF UidsOf, Distinct
  <1> QED
    BY <1>1, <1>3, <1>4 DEF t

(* Sequences without a prompt in common make one without repetition.       *)
LEMMA ConcatUids ==
  ASSUME NEW s \in Seq(Group), NEW t \in Seq(Group),
         Distinct(s), Distinct(t), UidsOf(s) \cap UidsOf(t) = {}
  PROVE  Distinct(s \o t) /\ UidsOf(s \o t) = UidsOf(s) \cup UidsOf(t)
  <1>1. /\ Len(s) \in Nat /\ Len(t) \in Nat
        /\ DOMAIN s = 1..Len(s) /\ DOMAIN t = 1..Len(t)
        /\ DOMAIN (s \o t) = 1..(Len(s) + Len(t))
        /\ \A i \in 1..(Len(s) + Len(t)) :
             (s \o t)[i] = IF i <= Len(s) THEN s[i] ELSE t[i - Len(s)]
    BY ConcatProperties, LenProperties
  <1> DEFINE c == s \o t
             n == Len(s)
  <1> HIDE DEF c, n
  <1>2. /\ \A i \in DOMAIN c : \/ i \in DOMAIN s /\ c[i] = s[i]
                               \/ i - n \in DOMAIN t /\ c[i] = t[i - n]
        /\ \A i \in DOMAIN s : i \in DOMAIN c /\ c[i] = s[i]
        /\ \A i \in DOMAIN t : i + n \in DOMAIN c /\ c[i + n] = t[i]
        /\ \A i, j \in DOMAIN c : i - n = j - n => i = j
    BY <1>1 DEF c, n
  <1>3. UidsOf(c) = UidsOf(s) \cup UidsOf(t)
    BY <1>2 DEF UidsOf
  <1>4. ASSUME NEW i \in DOMAIN c, NEW j \in DOMAIN c, c[i].uid = c[j].uid
        PROVE  i = j
    <2>1. CASE i \in DOMAIN s /\ c[i] = s[i] /\ j \in DOMAIN s /\ c[j] = s[j]
      BY <1>4, <2>1 DEF Distinct
    <2>2. CASE /\ i - n \in DOMAIN t /\ c[i] = t[i - n]
               /\ j - n \in DOMAIN t /\ c[j] = t[j - n]
      <3>1. i - n = j - n
        BY <1>4, <2>2 DEF Distinct
      <3> QED
        BY <1>2, <3>1
    <2>3. CASE \/ i \in DOMAIN s /\ c[i] = s[i] /\ j - n \in DOMAIN t /\ c[j] = t[j - n]
               \/ j \in DOMAIN s /\ c[j] = s[j] /\ i - n \in DOMAIN t /\ c[i] = t[i - n]
      BY <1>4, <2>3 DEF UidsOf
    <2> QED
      BY <1>2, <2>1, <2>2, <2>3
  <1> QED
    BY <1>3, <1>4 DEF c, Distinct

(* A batch without repetition has as many prompts as groups.               *)
LEMMA CountUids ==
  ASSUME NEW s \in Seq(Group), Distinct(s)
  PROVE  IsFiniteSet(UidsOf(s)) /\ Cardinality(UidsOf(s)) = Len(s)
  <1>1. Len(s) \in Nat /\ DOMAIN s = 1..Len(s)
    BY LenProperties
  <1> DEFINE f == [i \in 1..Len(s) |-> s[i].uid]
  <1>2. f \in [1..Len(s) -> UidsOf(s)]
    BY <1>1 DEF UidsOf
  <1>3. \A i, j \in 1..Len(s) : f[i] = f[j] => i = j
    BY <1>1 DEF Distinct
  <1>4. \A u \in UidsOf(s) : \E i \in 1..Len(s) : f[i] = u
    BY <1>1 DEF UidsOf
  <1> HIDE DEF f
  <1>5. f \in Bijection(1..Len(s), UidsOf(s))
    BY <1>2, <1>3, <1>4 DEF Bijection, Injection, Surjection, IsInjective
  <1>6. ExistsBijection(1..Len(s), UidsOf(s))
    BY <1>5 DEF ExistsBijection
  <1>7. IsFiniteSet(1..Len(s)) /\ Cardinality(1..Len(s)) = Len(s)
    BY <1>1, FS_Interval
  <1> QED
    BY <1>6, <1>7, FS_Bijection

----------------------------------------------------------------------------
(* Workers.                                                                *)

(* What the steps use of the types of what holds prompts.                  *)
LEMMA PromptTypes ==
  ASSUME AdmissionInv
  PROVE  /\ worker \in [Workers -> WorkerStates]
         /\ job \in [Workers -> Group \cup {None}]
         /\ buffer \in Seq(Group) /\ batch \in Seq(Group)
         /\ cursor \in Nat /\ cursor <= EffectiveLength
         /\ EffectiveLength \in Nat
         /\ consumedUids \subseteq Uids /\ filteredUids \subseteq consumedUids
         /\ Uids \subseteq Nat
         /\ \A w \in Holding : job[w] \in Group
         /\ \A g \in Group : g.uid \in Nat
         /\ UidsOf(buffer) \subseteq Nat /\ UidsOf(batch) \subseteq Nat
  <1>1. /\ worker \in [Workers -> WorkerStates]
        /\ job \in [Workers -> Group \cup {None}]
        /\ buffer \in Seq(Group) /\ batch \in Seq(Group)
        /\ cursor \in 0..EffectiveLength
        /\ consumedUids \subseteq Uids /\ filteredUids \subseteq consumedUids
    BY DEF AdmissionInv, TypeOK, GroupTypeOK, DataloaderTypeOK, WorkerStates
  <1>2. Uids \subseteq Nat /\ EffectiveLength \in Nat
    BY UidsFinite DEF Uids
  <1>3. \A w \in Holding : job[w] \in Group
    BY DEF AdmissionInv, WorkersInEpoch, Holding
  <1>4. \A g \in Group : g.uid \in Nat
    BY <1>2 DEF Group
  <1>5. UidsOf(buffer) \subseteq Nat /\ UidsOf(batch) \subseteq Nat
    BY <1>1, <1>2, UidsOfGroups
  <1> QED
    BY <1>1, <1>2, <1>3, <1>4, <1>5

(* Nothing in hand and nothing delivered is a beginning.                   *)
LEMMA NothingHeld ==
  ASSUME \A w \in Workers : worker'[w] \notin {"waiting", "generating"},
         \A w \in Workers : job'[w] = None,
         buffer' = << >>, batch' = << >>
  PROVE  HeldInv' /\ DeliveredInv' /\ CollectInv'
  <1>1. Holding' = {}
    BY DEF Holding
  <1>2. DOMAIN buffer' = {} /\ DOMAIN batch' = {}
    OBVIOUS
  <1>3. UidsOf(buffer)' = {} /\ UidsOf(batch)' = {}
    BY <1>2 DEF UidsOf
  <1> QED
    BY <1>1, <1>2, <1>3 DEF HeldInv, DeliveredInv, CollectInv, Distinct

(* A process that is gone holds nothing.                                   *)
LEMMA MemoryLost ==
  ASSUME LoseMemory, pc' \in {"down", "failed"}
  PROVE  PromptInv'
  <1>1. HeldInv' /\ DeliveredInv' /\ CollectInv'
    BY NothingHeld DEF LoseMemory
  <1>2. CountInv'
    BY DEF CountInv, Saving
  <1> QED
    BY <1>1, <1>2 DEF PromptInv

LEMMA FailingPrompts ==
  ASSUME NEW reason, Fail(reason)
  PROVE  PromptInv'
  BY MemoryLost DEF Fail

(* The count of the trained prompts and of the steps stays.                *)
LEMMA CountKept ==
  ASSUME PromptInv, UNCHANGED <<trainerVars, consumedUids, filteredUids>>
  PROVE  CountInv'
  <1>1. UNCHANGED <<pc, afterSave, trainedSteps>> /\ NumTrained' = NumTrained
    BY DEF trainerVars, NumTrained
  <1> QED
    BY <1>1 DEF PromptInv, CountInv, Saving

(* A prompt is drawn behind all that were drawn.                           *)
LEMMA PullPromptPrompts ==
  ASSUME AdmissionInv, PromptInv, NEW w \in Workers, PullPrompt(w)
  PROVE  PromptInv'
  <1>1. /\ UNCHANGED <<trainerVars, consumedUids, filteredUids, buffer>>
        /\ worker[w] = "pulling" /\ batch' = batch /\ pc' = pc
    BY DEF PullPrompt, DrawPrompt, DrawNothing, trainerVars
  <1>2. CASE \E u \in Undrawn :
               /\ DrawPrompt(u)
               /\ worker' = [worker EXCEPT ![w] = "waiting"]
               /\ job' = [job EXCEPT ![w] = [uid |-> u, step |-> 0, weights |-> 0]]
    <2>1. PICK u \in Undrawn :
               /\ cursor' = u
               /\ worker' = [worker EXCEPT ![w] = "waiting"]
               /\ job' = [job EXCEPT ![w] = [uid |-> u, step |-> 0, weights |-> 0]]
      BY <1>2 DEF DrawPrompt
    <2>2. /\ u \in Nat /\ u > cursor /\ u \notin consumedUids
          /\ cursor \in Nat
      BY <2>1, PromptTypes DEF Undrawn
    <2>3. /\ Holding' = Holding \cup {w} /\ w \notin Holding
          /\ job'[w].uid = u
          /\ \A v \in Workers : v # w => job'[v] = job[v]
      BY <1>1, <2>1, PromptTypes DEF Holding
    <2>4. /\ \A v \in Holding : job[v].uid \in Nat /\ job[v].uid <= cursor
          /\ \A x \in UidsOf(buffer) \cup UidsOf(batch) : x \in Nat /\ x <= cursor
      BY PromptTypes DEF PromptInv, HeldInv, DeliveredInv
    <2>5. /\ \A v \in Holding : job[v].uid # u /\ job[v].uid <= cursor'
          /\ \A x \in UidsOf(buffer) \cup UidsOf(batch) : x # u /\ x <= cursor'
          /\ u <= cursor'
      BY <2>1, <2>2, <2>4
    <2>6. HeldInv'
      <3>1. Holding \subseteq Workers
        BY DEF Holding
      <3>2. ASSUME NEW v \in Holding', NEW x \in Holding', job'[v].uid = job'[x].uid
            PROVE  v = x
        BY <2>3, <2>5, <3>1, <3>2 DEF PromptInv, HeldInv
      <3>3. ASSUME NEW v \in Holding'
            PROVE  /\ job'[v].uid <= cursor'
                   /\ job'[v].uid \notin UidsOf(buffer) \cup UidsOf(batch)
                                          \cup consumedUids
        BY <2>2, <2>3, <2>5, <3>1, <3>3 DEF PromptInv, HeldInv
      <3>4. \A v \in Workers : job'[v] # None => v \in Holding'
        BY <2>3 DEF PromptInv, HeldInv
      <3>5. (UidsOf(buffer) \cup UidsOf(batch) \cup consumedUids)'
              = UidsOf(buffer) \cup UidsOf(batch) \cup consumedUids
        BY <1>1 DEF UidsOf
      <3> QED
        BY <3>2, <3>3, <3>4, <3>5 DEF HeldInv
    <2>7. DeliveredInv' /\ CollectInv'
      BY <1>1, <2>5 DEF PromptInv, DeliveredInv, CollectInv, UidsOf, Distinct
    <2> QED
      BY <1>1, <2>6, <2>7, CountKept DEF PromptInv
  <1>3. CASE /\ DrawNothing
             /\ worker' = [worker EXCEPT ![w] = "finished"]
             /\ job' = [job EXCEPT ![w] = None]
    <2>1. /\ Holding' = Holding /\ w \notin Holding /\ Holding \subseteq Workers
          /\ \A v \in Workers : job'[v] = IF v = w THEN None ELSE job[v]
      BY <1>1, <1>3, PromptTypes DEF Holding
    <2>2. cursor' = EffectiveLength
      BY <1>3 DEF DrawNothing
    <2>3. /\ \A v \in Holding : job[v].uid \in Nat /\ job[v].uid <= cursor
          /\ \A x \in UidsOf(buffer) \cup UidsOf(batch) : x \in Nat /\ x <= cursor
      BY PromptTypes DEF PromptInv, HeldInv, DeliveredInv
    <2>4. /\ \A v \in Holding : job[v].uid <= cursor'
          /\ \A x \in UidsOf(buffer) \cup UidsOf(batch) : x <= cursor'
      BY <2>2, <2>3, PromptTypes
    <2>5. UidsOf(buffer)' = UidsOf(buffer) /\ UidsOf(batch)' = UidsOf(batch)
      BY <1>1 DEF UidsOf
    <2>6. HeldInv'
      BY <1>1, <2>1, <2>4, <2>5 DEF PromptInv, HeldInv
    <2>7. DeliveredInv' /\ CollectInv'
      BY <1>1, <2>4, <2>5 DEF PromptInv, DeliveredInv, CollectInv, Distinct
    <2> QED
      BY <1>1, <2>6, <2>7, CountKept DEF PromptInv
  <1> QED
    BY <1>2, <1>3 DEF PullPrompt

LEMMA StartGenerationPrompts ==
  ASSUME AdmissionInv, PromptInv, NEW w \in Workers, StartGeneration(w)
  PROVE  PromptInv'
  <1>1. /\ UNCHANGED <<trainerVars, cursor, consumedUids, filteredUids, buffer>>
        /\ worker[w] = "waiting" /\ batch' = batch /\ pc' = pc
        /\ worker' = [worker EXCEPT ![w] = "generating"]
        /\ job' = [job EXCEPT ![w].step = globalStep, ![w].weights = sampler]
    BY DEF StartGeneration, dataloaderVars, trainerVars
  <1>2. /\ Holding' = Holding /\ w \in Holding /\ Holding \subseteq Workers
    BY <1>1, PromptTypes DEF Holding
  <1>3. job'[w].uid = job[w].uid /\ \A v \in Workers : v # w => job'[v] = job[v]
    BY <1>1, <1>2, PromptTypes DEF Group
  <1>4. UidsOf(buffer)' = UidsOf(buffer) /\ UidsOf(batch)' = UidsOf(batch)
    BY <1>1 DEF UidsOf
  <1>5. HeldInv'
    <2>1. \A v \in Holding : job'[v].uid = job[v].uid
      BY <1>2, <1>3
    <2>2. \A v \in Workers : job'[v] # None => v \in Holding
      BY <1>2, <1>3 DEF PromptInv, HeldInv
    <2>3. cursor' = cursor /\ consumedUids' = consumedUids
      BY <1>1
    <2> QED
      BY <1>2, <1>4, <2>1, <2>2, <2>3 DEF PromptInv, HeldInv
  <1>6. DeliveredInv' /\ CollectInv'
    BY <1>1, <1>4 DEF PromptInv, DeliveredInv, CollectInv, Distinct
  <1> QED
    BY <1>1, <1>5, <1>6, CountKept DEF PromptInv

(* A prompt goes from the hand of its worker to the buffer.                *)
LEMMA EnqueueGroupPrompts ==
  ASSUME AdmissionInv, PromptInv, NEW w \in Workers, EnqueueGroup(w)
  PROVE  PromptInv'
  <1>1. CASE Len(buffer) < BufferSize
    <2>1. /\ UNCHANGED <<trainerVars, cursor, consumedUids, filteredUids>>
          /\ worker[w] = "generating" /\ batch' = batch /\ pc' = pc
          /\ worker' = [worker EXCEPT ![w] = "pulling"]
          /\ job' = [job EXCEPT ![w] = None]
          /\ buffer' = Append(buffer, job[w])
      BY <1>1 DEF EnqueueGroup, dataloaderVars, trainerVars
    <2>2. /\ Holding' = Holding \ {w} /\ w \in Holding /\ Holding \subseteq Workers
          /\ job'[w] = None /\ \A v \in Workers : v # w => job'[v] = job[v]
      BY <2>1, PromptTypes DEF Holding
    <2>3. job[w] \in Group /\ buffer \in Seq(Group)
      BY <2>2, PromptTypes
    <2>4. /\ job[w].uid <= cursor
          /\ job[w].uid \notin UidsOf(buffer) \cup UidsOf(batch) \cup consumedUids
      BY <2>2 DEF PromptInv, HeldInv
    <2>5. /\ UidsOf(buffer') = UidsOf(buffer) \cup {job[w].uid}
          /\ Distinct(buffer')
      BY <2>1, <2>3, <2>4, AppendUids DEF PromptInv, DeliveredInv
    <2>6. /\ UidsOf(buffer)' = UidsOf(buffer) \cup {job[w].uid}
          /\ UidsOf(batch)' = UidsOf(batch) /\ Distinct(buffer)'
      BY <2>1, <2>5 DEF UidsOf, Distinct
    <2>7. HeldInv'
      BY <2>1, <2>2, <2>6 DEF PromptInv, HeldInv
    <2>8. DeliveredInv' /\ CollectInv'
      BY <2>1, <2>4, <2>6 DEF PromptInv, DeliveredInv, CollectInv, Distinct
    <2> QED
      BY <2>1, <2>7, <2>8, CountKept DEF PromptInv
  <1>2. CASE ~(Len(buffer) < BufferSize)
    BY <1>2, FailingPrompts DEF EnqueueGroup
  <1> QED
    BY <1>1, <1>2

----------------------------------------------------------------------------
(* The loop.                                                               *)

(* A step that moves no prompt.                                            *)
LEMMA PromptsKept ==
  ASSUME PromptInv, UNCHANGED <<cursor, consumedUids, buffer, batch, worker, job>>,
         pc' # "collect" => batch = << >>
  PROVE  HeldInv' /\ DeliveredInv' /\ CollectInv'
  <1>1. /\ Holding' = Holding
        /\ UidsOf(buffer)' = UidsOf(buffer) /\ UidsOf(batch)' = UidsOf(batch)
    BY DEF Holding, UidsOf
  <1> QED
    BY <1>1 DEF PromptInv, HeldInv, DeliveredInv, CollectInv, Distinct

(* A loader that is rewound, with nothing in hand, holds nothing back.     *)
LEMMA Rewound ==
  ASSUME AdmissionInv, PromptInv, pc = "down", UNCHANGED <<batch, buffer, worker, job>>
  PROVE  HeldInv' /\ DeliveredInv' /\ CollectInv'
  <1>1. buffer = << >> /\ batch = << >>
    BY DEF AdmissionInv, NothingInMemory
  <1>2. \A w \in Workers : worker[w] = "stopped"
    BY DEF AdmissionInv, WorkersInEpoch, OutsideEpoch
  <1>3. \A w \in Workers : job[w] = None
    BY <1>2 DEF PromptInv, HeldInv, Holding
  <1> QED
    BY <1>1, <1>2, <1>3, NothingHeld

(* Division and steps.                                                     *)
LEMMA Multiple ==
  ASSUME NEW n \in Nat, NEW d \in Nat \ {0}, n % d = 0
  PROVE  n = d * (n \div d)
  BY SMTT(30)

LEMMA ZeroRemainder ==
  ASSUME NEW d \in Nat \ {0}
  PROVE  0 % d = 0
  <1>1. 0 % d \in 0..(d - 1) /\ 0 = d * (0 \div d) + (0 % d) /\ 0 \div d \in Int
    BY SMTT(30)
  <1> QED
    BY <1>1, SMTT(30)

LEMMA OneMore ==
  ASSUME NEW d \in Nat, NEW k \in Nat
  PROVE  d * (k + 1) = d * k + d
  BY SMTT(30)

LEMMA StartFreshPrompts ==
  ASSUME AdmissionInv, PromptInv, StartFresh
  PROVE  PromptInv'
  <1>1. /\ pc = "down" /\ pc' = "epoch"
        /\ UNCHANGED <<batch, buffer, worker, job>>
        /\ consumedUids' = {} /\ filteredUids' = {}
    BY DEF StartFresh, LoadDataloaderState
  <1>2. NumTrained' = 0
    BY <1>1, FS_EmptySet DEF NumTrained
  <1>3. 0 % MiniBatchSize = 0
    BY Configured, ZeroRemainder
  <1>4. CountInv'
    BY <1>1, <1>2, <1>3 DEF CountInv, Saving
  <1> QED
    BY <1>1, <1>4, Rewound DEF PromptInv

LEMMA ResumePrompts ==
  ASSUME AdmissionInv, PromptInv, Resume
  PROVE  PromptInv'
  <1> DEFINE ckpt == folders[latest]
  <1>1. CASE Loadable /\ WholeSteps(ckpt.state)
    <2>1. /\ pc = "down" /\ pc' = "epoch"
          /\ UNCHANGED <<batch, buffer, worker, job>>
          /\ consumedUids' = ckpt.state.consumed
          /\ filteredUids' = ckpt.state.filtered
      BY <1>1 DEF Resume, LoadDataloaderState
    <2>2. NumTrained' % MiniBatchSize = 0
      BY <1>1, <2>1 DEF NumTrained, WholeSteps
    <2>3. CountInv'
      BY <2>1, <2>2 DEF CountInv, Saving
    <2> QED
      BY <2>1, <2>3, Rewound DEF PromptInv
  <1>2. CASE ~(Loadable /\ WholeSteps(ckpt.state))
    BY <1>2, FailingPrompts DEF Resume
  <1> QED
    BY <1>1, <1>2

LEMMA StartEpochPrompts ==
  ASSUME AdmissionInv, PromptInv, StartEpoch
  PROVE  PromptInv'
  <1>1. /\ pc = "epoch"
        /\ UNCHANGED <<cursor, consumedUids, filteredUids, buffer, batch, job>>
    BY DEF StartEpoch, dataloaderVars
  <1>2. batch = << >>
    BY <1>1 DEF PromptInv, CollectInv
  <1>3. \A w \in Workers : worker[w] = "stopped"
    BY <1>1 DEF AdmissionInv, WorkersInEpoch, OutsideEpoch
  <1>4. Holding = {} /\ Holding' = {}
    BY <1>3 DEF StartEpoch, Holding
  <1>5. HeldInv' /\ DeliveredInv' /\ CollectInv'
    <2>1. UidsOf(buffer)' = UidsOf(buffer) /\ UidsOf(batch)' = UidsOf(batch)
      BY <1>1 DEF UidsOf
    <2> QED
      BY <1>1, <1>2, <1>4, <2>1
         DEF PromptInv, HeldInv, DeliveredInv, CollectInv, Distinct
  <1>6. CountInv'
    <2>1. NumTrained' = NumTrained /\ NumTrained \in Nat
      BY <1>1, NumTrainedNat DEF NumTrained, AdmissionInv, TypeOK
    <2>2. NumTrained = MiniBatchSize * (NumTrained \div MiniBatchSize)
      <3>1. NumTrained % MiniBatchSize = 0
        BY <1>1 DEF PromptInv, CountInv
      <3> QED
        BY <2>1, <3>1, Configured, Multiple
    <2>3. CASE epoch < Epochs
      <3>1. trainedSteps' = NumTrained \div MiniBatchSize
            /\ pc' \in {"collect", "epilogue"}
        BY <2>3 DEF StartEpoch, NextIteration
      <3> QED
        BY <2>1, <2>2, <3>1 DEF CountInv, Saving
    <2>4. CASE ~(epoch < Epochs)
      <3>1. pc' \in {"save weights", "done"} /\ afterSave' = "done"
        BY <2>4 DEF StartEpoch, SaveThen
      <3> QED
        BY <3>1 DEF CountInv
    <2> QED
      BY <2>3, <2>4
  <1> QED
    BY <1>5, <1>6 DEF PromptInv

(* A group goes from the buffer to the batch.                              *)
LEMMA KeepGroupPrompts ==
  ASSUME AdmissionInv, PromptInv, KeepGroup
  PROVE  PromptInv'
  <1>1. /\ pc = "collect" /\ pc' = "collect" /\ buffer # << >>
        /\ UNCHANGED <<cursor, consumedUids, filteredUids, worker, job>>
        /\ UNCHANGED <<trainedSteps>>
        /\ batch' = Append(batch, Head(buffer)) /\ buffer' = Tail(buffer)
    BY DEF KeepGroup, dataloaderVars
  <1> DEFINE u == Head(buffer).uid
  <1>2. /\ UidsOf(buffer) = UidsOf(buffer') \cup {u}
        /\ Distinct(buffer') /\ u \notin UidsOf(buffer')
        /\ Head(buffer) \in Group
    BY <1>1, PromptTypes, HeadUids DEF PromptInv, DeliveredInv
  <1>3. u \notin UidsOf(batch)
    BY <1>2 DEF PromptInv, DeliveredInv
  <1>4. UidsOf(batch') = UidsOf(batch) \cup {u} /\ Distinct(batch')
    BY <1>1, <1>2, <1>3, PromptTypes, AppendUids DEF PromptInv, DeliveredInv
  <1> HIDE DEF u
  <1>5. UidsOf(batch)' = UidsOf(batch') /\ UidsOf(buffer)' = UidsOf(buffer')
        /\ Distinct(buffer)' /\ Distinct(batch)' /\ Holding' = Holding
    BY <1>1, <1>2, <1>4 DEF UidsOf, Distinct, Holding
  <1>6. /\ UidsOf(buffer)' \cup UidsOf(batch)' = UidsOf(buffer) \cup UidsOf(batch)
        /\ UidsOf(buffer)' \cap UidsOf(batch)' = {}
    BY <1>2, <1>4, <1>5 DEF PromptInv, DeliveredInv
  <1>7. HeldInv'
    BY <1>1, <1>5, <1>6 DEF PromptInv, HeldInv
  <1>8. DeliveredInv' /\ CollectInv'
    BY <1>1, <1>5, <1>6 DEF PromptInv, DeliveredInv, CollectInv
  <1>9. CountInv'
    <2>1. NumTrained' = NumTrained
      BY <1>1 DEF NumTrained
    <2> QED
      BY <1>1, <2>1 DEF PromptInv, CountInv, Saving
  <1> QED
    BY <1>7, <1>8, <1>9 DEF PromptInv

(* Prompts that are filtered are new to both sets of marks.                *)
LEMMA FilteredCount ==
  ASSUME AdmissionInv, NEW uids \in SUBSET Uids, uids \cap consumedUids = {},
         MarkFiltered(uids)
  PROVE  NumTrained' = NumTrained
  <1>1. /\ IsFiniteSet(uids) /\ IsFiniteSet(consumedUids) /\ IsFiniteSet(filteredUids)
        /\ filteredUids \subseteq consumedUids
    BY UidsFinite, PromptTypes, FS_Subset
  <1>2. uids \cap filteredUids = {}
    BY <1>1
  <1>3. /\ consumedUids' = consumedUids \cup uids
        /\ filteredUids' = filteredUids \cup uids
    BY DEF MarkFiltered
  <1>4. /\ Cardinality(uids) \in Nat /\ Cardinality(consumedUids) \in Nat
        /\ Cardinality(filteredUids) \in Nat /\ Cardinality({}) = 0
    BY <1>1, FS_CardinalityType, FS_EmptySet
  <1>5. /\ Cardinality(consumedUids') = Cardinality(consumedUids) + Cardinality(uids)
        /\ Cardinality(filteredUids') = Cardinality(filteredUids) + Cardinality(uids)
    <2>1. consumedUids \cap uids = {} /\ filteredUids \cap uids = {}
      BY <1>2
    <2>2. /\ Cardinality(consumedUids \cup uids)
               = Cardinality(consumedUids) + Cardinality(uids) - Cardinality({})
          /\ Cardinality(filteredUids \cup uids)
               = Cardinality(filteredUids) + Cardinality(uids) - Cardinality({})
      BY <1>1, <2>1, FS_Union
    <2> QED
      BY <1>3, <1>4, <2>2
  <1> QED
    BY <1>4, <1>5 DEF NumTrained

(* The group at the head of the buffer is not marked.                      *)
LEMMA HeadMarkable ==
  ASSUME AdmissionInv, PromptInv, buffer # << >>
  PROVE  /\ Markable(<<Head(buffer)>>)
         /\ Head(buffer).uid \in Uids /\ Head(buffer).uid \notin consumedUids
  <1>1. /\ Head(buffer) \in Group /\ Head(buffer).uid \in UidsOf(buffer)
    BY PromptTypes, HeadUids
  <1>2. Head(buffer).uid \in Uids /\ Head(buffer).uid \notin consumedUids
    BY <1>1 DEF PromptInv, DeliveredInv, Group
  <1>3. DOMAIN <<Head(buffer)>> = {1}
    OBVIOUS
  <1>4. UidsOf(<<Head(buffer)>>) = {Head(buffer).uid}
    BY <1>3 DEF UidsOf
  <1> QED
    BY <1>2, <1>3, <1>4 DEF Markable

(* So is no group of the batch, and they are of different prompts.         *)
LEMMA BatchMarkable ==
  ASSUME AdmissionInv, PromptInv
  PROVE  Markable(batch)
  BY DEF PromptInv, DeliveredInv, Markable, Distinct

(* A filtered group is taken out and marked.                               *)
LEMMA DropGroupPrompts ==
  ASSUME AdmissionInv, PromptInv, DropGroup
  PROVE  PromptInv'
  <1> DEFINE u == Head(buffer).uid
  <1>1. Markable(<<Head(buffer)>>) /\ u \in Uids /\ u \notin consumedUids
    BY HeadMarkable DEF DropGroup
  <1>2. /\ pc = "collect" /\ pc' = pc /\ afterSave' = afterSave /\ buffer # << >>
        /\ UNCHANGED <<trainedSteps, batch, worker, job>>
        /\ buffer' = Tail(buffer) /\ MarkFiltered({u})
    BY <1>1 DEF DropGroup, trainerVars
  <1>3. /\ UidsOf(buffer) = UidsOf(buffer') \cup {u}
        /\ Distinct(buffer') /\ u \notin UidsOf(buffer')
    BY <1>2, PromptTypes, HeadUids DEF PromptInv, DeliveredInv
  <1> HIDE DEF u
  <1>4. cursor' = cursor /\ consumedUids' = consumedUids \cup {u}
    BY <1>2 DEF MarkFiltered
  <1>5. /\ UidsOf(buffer)' = UidsOf(buffer') /\ UidsOf(batch)' = UidsOf(batch)
        /\ Distinct(buffer)' /\ Holding' = Holding
    BY <1>2, <1>3 DEF UidsOf, Distinct, Holding
  <1>6. HeldInv'
    BY <1>2, <1>3, <1>4, <1>5 DEF PromptInv, HeldInv
  <1>7. DeliveredInv' /\ CollectInv'
    BY <1>2, <1>3, <1>4, <1>5 DEF PromptInv, DeliveredInv, CollectInv, Distinct
  <1>8. CountInv'
    <2>1. NumTrained' = NumTrained
      BY <1>1, <1>2, FilteredCount
    <2> QED
      BY <1>2, <2>1 DEF PromptInv, CountInv, Saving
  <1> QED
    BY <1>6, <1>7, <1>8 DEF PromptInv

(* The batch is gone and its prompts are marked.                           *)
LEMMA BatchMarked ==
  ASSUME PromptInv, batch' = << >>, consumedUids' = consumedUids \cup UidsOf(batch),
         UNCHANGED <<cursor, buffer, worker, job>>
  PROVE  HeldInv' /\ DeliveredInv' /\ CollectInv'
  <1>1. DOMAIN batch' = {}
    OBVIOUS
  <1>2. /\ UidsOf(buffer)' = UidsOf(buffer) /\ UidsOf(batch)' = {}
        /\ Distinct(buffer)' /\ Distinct(batch)' /\ Holding' = Holding
    BY <1>1 DEF UidsOf, Distinct, Holding, PromptInv, DeliveredInv
  <1>3. HeldInv'
    BY <1>2 DEF PromptInv, HeldInv
  <1>4. DeliveredInv' /\ CollectInv'
    BY <1>2 DEF PromptInv, DeliveredInv, CollectInv
  <1> QED
    BY <1>3, <1>4

(* What is left of an epoch that is exhausted is marked as filtered.       *)
LEMMA ExhaustEpochPrompts ==
  ASSUME AdmissionInv, PromptInv, ExhaustEpoch
  PROVE  PromptInv'
  <1>1. Markable(batch)
    BY BatchMarkable
  <1>2. /\ batch' = << >> /\ consumedUids' = consumedUids \cup UidsOf(batch)
        /\ UNCHANGED <<cursor, buffer, worker, job>>
        /\ pc' \in {"save weights", "epilogue"} /\ afterSave' = "epilogue"
    BY <1>1 DEF ExhaustEpoch, MarkFiltered, SaveThen
  <1>3. CountInv'
    BY <1>2 DEF CountInv
  <1> QED
    BY <1>2, <1>3, BatchMarked DEF PromptInv

(* The batch is trained on, and its prompts are marked as consumed.        *)
LEMMA RunTrainingPrompts ==
  ASSUME AdmissionInv, PromptInv, RunTraining
  PROVE  PromptInv'
  <1>1. Markable(batch)
    BY BatchMarkable
  <1>2. /\ pc = "collect" /\ pc' = "sync" /\ Len(batch) = MiniBatchSize
        /\ batch' = << >> /\ consumedUids' = consumedUids \cup UidsOf(batch)
        /\ UNCHANGED <<cursor, filteredUids, buffer, worker, job, trainedSteps>>
    BY <1>1 DEF RunTraining, MarkConsumed
  <1>3. HeldInv' /\ DeliveredInv' /\ CollectInv'
    BY <1>2, BatchMarked
  <1>4. NumTrained' = NumTrained + MiniBatchSize
    <2>1. IsFiniteSet(UidsOf(batch)) /\ Cardinality(UidsOf(batch)) = MiniBatchSize
      BY <1>2, PromptTypes, CountUids DEF PromptInv, DeliveredInv
    <2>2. consumedUids \cap UidsOf(batch) = {}
      BY DEF PromptInv, DeliveredInv
    <2>3. IsFiniteSet(consumedUids) /\ IsFiniteSet(filteredUids)
      BY UidsFinite, PromptTypes, FS_Subset
    <2>4. /\ Cardinality(consumedUids) \in Nat /\ Cardinality(filteredUids) \in Nat
          /\ Cardinality({}) = 0
      BY <2>3, FS_CardinalityType, FS_EmptySet
    <2>5. Cardinality(consumedUids \cup UidsOf(batch))
            = Cardinality(consumedUids) + Cardinality(UidsOf(batch)) - Cardinality({})
      BY <2>1, <2>2, <2>3, FS_Union
    <2> QED
      BY <1>2, <2>1, <2>4, <2>5 DEF NumTrained
  <1>5. CountInv'
    <2>1. NumTrained = MiniBatchSize * trainedSteps /\ trainedSteps \in Nat
      BY <1>2 DEF PromptInv, CountInv, AdmissionInv, TypeOK, LoopTypeOK
    <2>2. MiniBatchSize * (trainedSteps + 1)
            = MiniBatchSize * trainedSteps + MiniBatchSize
      BY <2>1, Configured, OneMore
    <2> QED
      BY <1>2, <1>4, <2>1, <2>2 DEF CountInv, Saving
  <1> QED
    BY <1>3, <1>5 DEF PromptInv

LEMMA SyncWeightsPrompts ==
  ASSUME AdmissionInv, PromptInv, SyncWeights
  PROVE  PromptInv'
  <1>1. /\ pc = "sync" /\ pc' \in {"save weights", "advance"}
        /\ trainedSteps' = trainedSteps + 1
        /\ UNCHANGED <<cursor, consumedUids, filteredUids, buffer, batch, worker, job>>
    BY DEF SyncWeights, dataloaderVars
  <1>2. batch = << >>
    BY <1>1 DEF PromptInv, CollectInv
  <1>3. NumTrained' = NumTrained
    BY <1>1 DEF NumTrained
  <1>4. CountInv'
    BY <1>1, <1>3 DEF PromptInv, CountInv
  <1> QED
    BY <1>1, <1>2, <1>4, PromptsKept DEF PromptInv

LEMMA AdvanceStepPrompts ==
  ASSUME AdmissionInv, PromptInv, AdvanceStep
  PROVE  PromptInv'
  <1>1. pc = "advance"
    BY DEF AdvanceStep
  <1>2. NumTrained = MiniBatchSize * trainedSteps
    BY <1>1 DEF PromptInv, CountInv
  <1>3. /\ pc' \in {"collect", "epilogue"} /\ trainedSteps' = trainedSteps
        /\ UNCHANGED <<cursor, consumedUids, filteredUids, buffer, batch, worker, job>>
    BY <1>2 DEF AdvanceStep, NextIteration, dataloaderVars
  <1>4. batch = << >>
    BY <1>1 DEF PromptInv, CollectInv
  <1>5. NumTrained' = NumTrained
    BY <1>3 DEF NumTrained
  <1>6. CountInv'
    BY <1>2, <1>3, <1>5 DEF CountInv, Saving
  <1> QED
    BY <1>3, <1>4, <1>6, PromptsKept DEF PromptInv

(* Cancelled workers drop their prompts, which nobody else has.            *)
LEMMA StopAtMaxStepsPrompts ==
  ASSUME AdmissionInv, PromptInv, StopAtMaxSteps
  PROVE  PromptInv'
  <1>1. /\ pc = "advance" /\ pc' \in {"save weights", "done"} /\ afterSave' = "done"
        /\ worker' = [w \in Workers |-> "stopped"] /\ job' = [w \in Workers |-> None]
        /\ UNCHANGED <<cursor, consumedUids, buffer, batch>>
    BY DEF StopAtMaxSteps, SaveThen, dataloaderVars
  <1>2. Holding' = {} /\ \A w \in Workers : job'[w] = None
    BY <1>1 DEF Holding
  <1>3. UidsOf(buffer)' = UidsOf(buffer) /\ UidsOf(batch)' = UidsOf(batch)
    BY <1>1 DEF UidsOf
  <1>4. HeldInv' /\ DeliveredInv' /\ CollectInv'
    BY <1>1, <1>2, <1>3 DEF PromptInv, HeldInv, DeliveredInv, CollectInv, Distinct
  <1>5. CountInv'
    BY <1>1 DEF CountInv
  <1> QED
    BY <1>4, <1>5 DEF PromptInv

LEMMA EndEpochPrompts ==
  ASSUME AdmissionInv, PromptInv, EndEpoch
  PROVE  PromptInv'
  <1>1. CASE buffer = << >> /\ ValidEpochEnd(globalStep, Cardinality(Generating))
    <2>1. /\ pc = "epilogue" /\ pc' = "epoch" /\ buffer' = << >> /\ batch' = batch
          /\ consumedUids' = {} /\ filteredUids' = {}
          /\ worker' = [w \in Workers |-> "stopped"] /\ job' = [w \in Workers |-> None]
      BY <1>1 DEF EndEpoch, LoadDataloaderState
    <2>2. batch' = << >>
      BY <2>1 DEF PromptInv, CollectInv
    <2>3. HeldInv' /\ DeliveredInv' /\ CollectInv'
      BY <2>1, <2>2, NothingHeld
    <2>4. NumTrained' = 0
      BY <2>1, FS_EmptySet DEF NumTrained
    <2>5. 0 % MiniBatchSize = 0
      BY Configured, ZeroRemainder
    <2>6. CountInv'
      BY <2>1, <2>4, <2>5 DEF CountInv, Saving
    <2> QED
      BY <2>3, <2>6 DEF PromptInv
  <1>2. CASE ~(buffer = << >> /\ ValidEpochEnd(globalStep, Cardinality(Generating)))
    BY <1>2, FailingPrompts DEF EndEpoch
  <1> QED
    BY <1>1, <1>2

(* Saving moves no prompt.                                                 *)
LEMMA SavingPrompts ==
  ASSUME AdmissionInv, PromptInv, pc \in Saving, pc' \in Saving \cup {afterSave},
         UNCHANGED <<dataloaderVars, afterSave, trainedSteps, batch, buffer,
                     worker, job>>
  PROVE  PromptInv'
  <1>1. /\ UNCHANGED <<cursor, consumedUids, filteredUids>>
        /\ pc # "collect"
    BY DEF dataloaderVars, Saving
  <1>2. afterSave \in {"advance", "epilogue", "done"}
    BY DEF AdmissionInv, TypeOK, LoopTypeOK, SaveReturns
  <1>3. batch = << >>
    BY <1>1 DEF PromptInv, CollectInv
  <1>4. NumTrained' = NumTrained
    BY <1>1 DEF NumTrained
  <1>5. CountInv'
    BY <1>2, <1>4 DEF PromptInv, CountInv, Saving
  <1> QED
    BY <1>1, <1>3, <1>5, PromptsKept DEF PromptInv

LEMMA SavePrompts ==
  ASSUME AdmissionInv, PromptInv,
         SaveWeights \/ SaveTracker \/ Cleanup \/ SaveFullyAsyncState
  PROVE  PromptInv'
  <1>1. CASE SaveWeights \/ SaveTracker \/ Cleanup
    BY <1>1, SavingPrompts DEF SaveWeights, SaveTracker, Cleanup, Saving
  <1>2. CASE SaveFullyAsyncState
    <2>1. CASE globalStep \in DOMAIN folders
      BY <1>2, <2>1, SavingPrompts DEF SaveFullyAsyncState, Saving
    <2>2. CASE globalStep \notin DOMAIN folders
      BY <1>2, <2>2, FailingPrompts DEF SaveFullyAsyncState
    <2> QED
      BY <2>1, <2>2
  <1> QED
    BY <1>1, <1>2

----------------------------------------------------------------------------
(* The theorems.                                                           *)

LEMMA InitPrompts == Init => PromptInv
  <1> SUFFICES ASSUME Init PROVE PromptInv
    OBVIOUS
  <1>1. /\ pc = "down" /\ buffer = << >> /\ batch = << >>
        /\ worker = [w \in Workers |-> "stopped"] /\ job = [w \in Workers |-> None]
    BY DEF Init
  <1>2. DOMAIN buffer = {} /\ DOMAIN batch = {}
    BY <1>1
  <1>3. UidsOf(buffer) = {} /\ UidsOf(batch) = {} /\ Holding = {}
    BY <1>1, <1>2 DEF UidsOf, Holding
  <1>4. HeldInv /\ DeliveredInv /\ CollectInv
    BY <1>1, <1>2, <1>3 DEF HeldInv, DeliveredInv, CollectInv, Distinct
  <1>5. CountInv
    BY <1>1 DEF CountInv, Saving
  <1> QED
    BY <1>4, <1>5 DEF PromptInv

LEMMA StutterPrompts ==
  ASSUME AdmissionInv, PromptInv, UNCHANGED vars
  PROVE  PromptInv'
  <1>1. /\ UNCHANGED <<cursor, consumedUids, filteredUids, buffer, batch, worker, job>>
        /\ UNCHANGED <<trainerVars, pc>>
    BY DEF vars, dataloaderVars, trainerVars
  <1>2. CountInv'
    BY <1>1, CountKept
  <1>3. pc' # "collect" => batch = << >>
    BY <1>1 DEF PromptInv, CollectInv
  <1> QED
    BY <1>1, <1>2, <1>3, PromptsKept DEF PromptInv

LEMMA NextPrompts ==
  ASSUME AdmissionInv, PromptInv, [Next]_vars
  PROVE  PromptInv'
  <1>1. ASSUME NEW w \in Workers, WorkerNext(w) PROVE PromptInv'
    BY <1>1, PullPromptPrompts, StartGenerationPrompts, EnqueueGroupPrompts
       DEF WorkerNext
  <1>2. CASE StartFresh \/ Resume \/ StartEpoch
    BY <1>2, StartFreshPrompts, ResumePrompts, StartEpochPrompts
  <1>3. CASE KeepGroup \/ DropGroup \/ ExhaustEpoch \/ RunTraining
    BY <1>3, KeepGroupPrompts, DropGroupPrompts, ExhaustEpochPrompts,
       RunTrainingPrompts
  <1>4. CASE SyncWeights \/ AdvanceStep \/ StopAtMaxSteps \/ EndEpoch
    BY <1>4, SyncWeightsPrompts, AdvanceStepPrompts, StopAtMaxStepsPrompts,
       EndEpochPrompts
  <1>5. CASE SaveWeights \/ SaveTracker \/ Cleanup \/ SaveFullyAsyncState
    BY <1>5, SavePrompts
  <1>6. CASE Crash \/ Relaunch
    BY <1>6, MemoryLost DEF Crash, Relaunch
  <1>7. CASE Terminated \/ UNCHANGED vars
    BY <1>7, StutterPrompts DEF Terminated
  <1> QED
    BY <1>1, <1>2, <1>3, <1>4, <1>5, <1>6, <1>7 DEF Next, TrainerNext

(* Every prompt of the epoch is in one place at most, and a batch that has *)
(* been trained on counts as one more step: the invariant behind the next  *)
(* two theorems.                                                           *)
THEOREM PromptsCorrect == Spec => []PromptInv
  <1>1. AdmissionInv /\ PromptInv /\ [Next]_vars => PromptInv'
    BY NextPrompts
  <1> QED
    BY InitPrompts, <1>1, AdmissionCorrect, PTL DEF Spec

(* A prompt that get_next_non_consumed_data handed out is with one worker, *)
(* in the buffer, in the batch or marked, and never in two of them.        *)
THEOREM EachPromptOnceHolds == Spec => []EachPromptOnce
  <1>1. AdmissionInv /\ PromptInv => EachPromptOnce
    <2> SUFFICES ASSUME AdmissionInv, PromptInv
                 PROVE  EachPromptOnce
      OBVIOUS
    <2> DEFINE held == {w \in Workers : job[w] # None}
    <2>1. held \subseteq Holding
      BY DEF PromptInv, HeldInv
    <2>2. /\ Distinct(buffer \o batch)
          /\ UidsOf(buffer \o batch) = UidsOf(buffer) \cup UidsOf(batch)
      BY PromptTypes, ConcatUids DEF PromptInv, DeliveredInv
    <2>3. Markable(buffer \o batch)
      BY <2>2 DEF PromptInv, DeliveredInv, Markable, Distinct
    <2>4. /\ \A v, w \in held : job[v].uid = job[w].uid => v = w
          /\ \A w \in held :
               job[w].uid \notin UidsOf(buffer \o batch) \cup consumedUids
      BY <2>1, <2>2 DEF PromptInv, HeldInv
    <2> QED
      BY <2>3, <2>4 DEF EachPromptOnce
  <1> QED
    BY <1>1, PromptsCorrect, AdmissionCorrect, PTL

(* The uid assertion of mark_consumed_uids and mark_filtered_uids and the  *)
(* trained-count assertion at the end of a step never fail, and neither    *)
(* does the buffer run full.                                               *)
THEOREM AssertionsHoldAlways == Spec => []AssertionsHold
  <1>1. Init => AssertionsHold
    BY DEF Init, AssertionsHold
  <1>2. ASSUME AdmissionInv, PromptInv, BufferNeverFull', AssertionsHold, [Next]_vars
        PROVE  AssertionsHold'
    <2>1. ASSUME NEW w \in Workers, WorkerNext(w) PROVE AssertionsHold'
      <3>1. failure' = failure \/ failure' = "buffer full"
        BY <2>1 DEF WorkerNext, PullPrompt, StartGeneration, EnqueueGroup, Fail,
                    processVars
      <3> QED
        BY <1>2, <3>1 DEF AssertionsHold, BufferNeverFull
    <2>2. CASE StartFresh \/ Resume \/ StartEpoch
      BY <1>2, <2>2 DEF StartFresh, Resume, StartEpoch, Fail, processVars,
                        AssertionsHold
    <2>3. CASE DropGroup
      <3>1. failure' = failure
        BY <1>2, <2>3, HeadMarkable DEF DropGroup, processVars
      <3> QED
        BY <1>2, <3>1 DEF AssertionsHold
    <2>4. CASE KeepGroup \/ ExhaustEpoch \/ RunTraining
      BY <1>2, <2>4, BatchMarkable
         DEF KeepGroup, ExhaustEpoch, RunTraining, processVars, AssertionsHold
    <2>5. CASE AdvanceStep
      <3>1. NumTrained = MiniBatchSize * trainedSteps
        BY <1>2, <2>5 DEF AdvanceStep, PromptInv, CountInv
      <3> QED
        BY <1>2, <2>5, <3>1 DEF AdvanceStep, processVars, AssertionsHold
    <2>6. CASE SyncWeights \/ StopAtMaxSteps \/ EndEpoch
      BY <1>2, <2>6 DEF SyncWeights, StopAtMaxSteps, EndEpoch, Fail, processVars,
                        AssertionsHold
    <2>7. CASE SaveWeights \/ SaveTracker \/ Cleanup \/ SaveFullyAsyncState
      BY <1>2, <2>7 DEF SaveWeights, SaveTracker, Cleanup, SaveFullyAsyncState,
                        Fail, processVars, AssertionsHold
    <2>8. CASE Crash \/ Relaunch \/ Terminated \/ UNCHANGED vars
      BY <1>2, <2>8 DEF Crash, Relaunch, Terminated, vars, processVars,
                        AssertionsHold
    <2> QED
      BY <1>2, <2>1, <2>2, <2>3, <2>4, <2>5, <2>6, <2>7, <2>8
         DEF Next, TrainerNext
  <1>3. AdmissionInv /\ PromptInv /\ BufferNeverFull' /\ AssertionsHold /\ [Next]_vars
          => AssertionsHold'
    BY <1>2
  <1> QED
    BY <1>1, <1>3, AdmissionCorrect, PromptsCorrect, BufferNeverFullHolds, PTL
       DEF Spec

USE Configured

----------------------------------------------------------------------------
(* What the tracker, the books and the folders say of each other.          *)

(* The folders with a complete checkpoint.                                 *)
Complete == {s \in DOMAIN folders : folders[s].state # None}

(* What SaveFullyAsyncState writes.                                        *)
Books == [consumed |-> consumedUids, filtered |-> filteredUids, epoch |-> epoch]

(* The tracker names no step that is still to come.                        *)
OrderInv == Alive => latest <= globalStep

(* A process that is gone keeps neither weights nor books, what it does    *)
(* within an epoch belongs to one of the epochs, and none is passed.       *)
EpochInv ==
  /\ ~Alive => /\ epoch = 0 /\ model = FreshModel
               /\ consumedUids = {} /\ filteredUids = {}
  /\ epoch <= Epochs
  /\ \/ pc \in {"collect", "sync", "advance", "epilogue"}
     \/ pc \in Saving /\ afterSave # "done"
     => epoch < Epochs
  /\ \A s \in Complete : folders[s].state.epoch <= Epochs

(* The types of what the loop and the store count with.                    *)
LEMMA BookTypes ==
  ASSUME AdmissionInv
  PROVE  /\ globalStep \in Nat /\ latest \in Nat /\ epoch \in Nat
         /\ model \in Model /\ model.steps \in Nat
         /\ restarts \in 0..MaxRestarts /\ restarts \in Nat
         /\ DOMAIN folders \subseteq Nat
         /\ folders \in [DOMAIN folders -> Folder]
         /\ \A s \in Complete : /\ folders[s] \in Folder /\ folders[s].model \in Model
                                /\ folders[s].state \in FullyAsyncState
         /\ Books \in FullyAsyncState
  <1>1. /\ globalStep \in Nat /\ latest \in Nat /\ epoch \in Nat /\ model \in Model
        /\ restarts \in 0..MaxRestarts
        /\ DOMAIN folders \subseteq Nat /\ folders \in [DOMAIN folders -> Folder]
    BY DEF AdmissionInv, TypeOK, LoopTypeOK, StoreTypeOK, WeightTypeOK
  <1>2. model.steps \in Nat /\ restarts \in Nat
    BY <1>1 DEF Model
  <1>3. \A s \in Complete : /\ folders[s] \in Folder /\ folders[s].model \in Model
                            /\ folders[s].state \in FullyAsyncState
    BY <1>1 DEF Complete, Folder
  <1>4. Books \in FullyAsyncState
    BY <1>1, PromptTypes DEF Books, FullyAsyncState
  <1> QED
    BY <1>1, <1>2, <1>3, <1>4

(* A launch that does not fail goes on from the latest complete folder.    *)
LEMMA ResumeOutcome ==
  ASSUME Resume
  PROVE  \/ Fail("checkpoint incomplete")
         \/ /\ pc = "down" /\ latest # 0 /\ latest \in Complete
            /\ pc' = "epoch" /\ globalStep' = latest + 1
            /\ epoch' = folders[latest].state.epoch
            /\ model' = folders[latest].model
            /\ cursor' = 0
            /\ consumedUids' = folders[latest].state.consumed
            /\ filteredUids' = folders[latest].state.filtered
            /\ UNCHANGED <<folders, latest, afterSave, trainedSteps, batch,
                           buffer, worker, job, failure, restarts>>
  <1>1. CASE Loadable /\ WholeSteps(folders[latest].state)
    BY <1>1 DEF Resume, Loadable, Complete, LoadDataloaderState, storeVars, processVars
  <1>2. CASE ~(Loadable /\ WholeSteps(folders[latest].state))
    BY <1>2 DEF Resume
  <1> QED
    BY <1>1, <1>2

(* The tracker is written by one action, the step moves by a few.          *)
LEMMA NextOrder ==
  ASSUME AdmissionInv, OrderInv, [Next]_vars
  PROVE  OrderInv' /\ (latest' # latest => latest' > latest)
  <1>1. /\ globalStep \in Nat /\ latest \in Nat
        /\ globalStep' \in Nat /\ latest' \in Nat
    BY NextAdmission DEF AdmissionInv, TypeOK, StoreTypeOK, LoopTypeOK
  <1>2. SUFFICES ASSUME ~ \E reason : Fail(reason)
                 PROVE  OrderInv' /\ (latest' # latest => latest' > latest)
    BY DEF Fail, OrderInv, Alive, storeVars
  <1>3. CASE \E w \in Workers : WorkerNext(w)
    BY <1>2, <1>3 DEF WorkerNext, PullPrompt, StartGeneration, EnqueueGroup, storeVars,
                      trainerVars, OrderInv, Alive
  <1>4. CASE StartFresh \/ Resume
    <2>1. CASE StartFresh
      <3>1. latest = 0 /\ latest' = latest /\ globalStep' = 1
        BY <2>1 DEF StartFresh, storeVars
      <3> QED
        BY <3>1 DEF OrderInv
    <2>2. CASE Resume
      <3>1. latest' = latest /\ globalStep' = latest + 1
        BY <1>2, <2>2, ResumeOutcome
      <3> QED
        BY <1>1, <3>1 DEF OrderInv
    <2> QED
      BY <1>4, <2>1, <2>2
  <1>5. CASE KeepGroup \/ DropGroup \/ ExhaustEpoch \/ RunTraining
    BY <1>2, <1>5 DEF KeepGroup, DropGroup, ExhaustEpoch, RunTraining, storeVars,
                      trainerVars, OrderInv, Alive
  <1>6. CASE StartEpoch \/ SyncWeights \/ EndEpoch
    BY <1>2, <1>6 DEF StartEpoch, SyncWeights, EndEpoch, storeVars, OrderInv, Alive
  <1>7. CASE AdvanceStep \/ StopAtMaxSteps
    <2>1. latest' = latest /\ globalStep' = globalStep + 1 /\ Alive
      BY <1>2, <1>7 DEF AdvanceStep, StopAtMaxSteps, storeVars, Alive
    <2>2. latest' <= globalStep'
      BY <1>1, <2>1 DEF OrderInv
    <2> QED
      BY <2>1, <2>2 DEF OrderInv
  <1>8. CASE SaveTracker
    <2>1. latest' = globalStep /\ globalStep' = globalStep /\ Alive
      BY <1>8 DEF SaveTracker, WriteLatest, Alive
    <2>2. latest' <= globalStep' /\ (latest' # latest => latest' > latest)
      BY <1>1, <2>1 DEF OrderInv
    <2> QED
      BY <2>2 DEF OrderInv
  <1>9. CASE SaveWeights \/ Cleanup \/ SaveFullyAsyncState
    BY <1>2, <1>9 DEF SaveWeights, Cleanup, SaveFullyAsyncState, WriteModel,
                      CleanupOldCheckpoints, WriteFullyAsyncState, OrderInv, Alive
  <1>10. CASE Crash \/ Relaunch
    BY <1>10 DEF Crash, Relaunch, storeVars, OrderInv, Alive
  <1>11. CASE Terminated \/ UNCHANGED vars
    BY <1>11 DEF Terminated, vars, storeVars, trainerVars, OrderInv, Alive
  <1> QED
    BY <1>3, <1>4, <1>5, <1>6, <1>7, <1>8, <1>9, <1>10, <1>11 DEF Next, TrainerNext

(* While the trainer lives, latest_ckpt_global_step.txt names a step that it *)
(* has reached: load_checkpoints sets global_step behind the folder it loads, *)
(* and save_checkpoints names the step it is at.                           *)
THEOREM OrderCorrect == Spec => []OrderInv
  <1>1. Init => OrderInv
    BY DEF Init, OrderInv, Alive
  <1>2. AdmissionInv /\ OrderInv /\ [Next]_vars => OrderInv'
    BY NextOrder
  <1> QED
    BY <1>1, <1>2, AdmissionCorrect, PTL DEF Spec

(* latest_ckpt_global_step.txt only ever names later steps: a resumed run  *)
(* goes on behind the step it loaded, and none of its saves falls back.    *)
THEOREM LatestOnlyGrowsHolds == Spec => LatestOnlyGrows
  <1>1. AdmissionInv /\ OrderInv /\ [Next]_vars => [latest' > latest]_latest
    BY NextOrder
  <1> QED
    BY <1>1, AdmissionCorrect, OrderCorrect, PTL DEF Spec, LatestOnlyGrows

(* A folder that is complete was, or is completed by the books of now; its *)
(* weights are those it had, or are being overwritten.                     *)
LEMMA FolderSteps ==
  ASSUME AdmissionInv, [Next]_vars, NEW s \in Complete'
  PROVE  \/ s \in Complete /\ folders'[s] = folders[s]
         \/ /\ s \in Complete /\ s = globalStep /\ pc = "save weights"
            /\ folders'[s].state = folders[s].state
         \/ /\ pc = "save state" /\ s = globalStep /\ s \in DOMAIN folders
            /\ folders'[s] = [model |-> folders[s].model, state |-> Books]
  <1>1. SUFFICES ASSUME folders' # folders
                 PROVE  \/ s \in Complete /\ folders'[s] = folders[s]
                        \/ /\ s \in Complete /\ s = globalStep /\ pc = "save weights"
                           /\ folders'[s].state = folders[s].state
                        \/ /\ pc = "save state" /\ s = globalStep /\ s \in DOMAIN folders
                           /\ folders'[s] = [model |-> folders[s].model, state |-> Books]
    BY DEF Complete
  <1>2. s \in DOMAIN folders' /\ folders'[s].state # None
    BY DEF Complete
  <1>3. SaveWeights \/ Cleanup \/ SaveFullyAsyncState
    BY <1>1 DEF Next, WorkerNext, TrainerNext, PullPrompt, StartGeneration,
       EnqueueGroup, StartFresh, Resume, StartEpoch, KeepGroup, DropGroup,
       ExhaustEpoch, RunTraining, SyncWeights, AdvanceStep, StopAtMaxSteps,
       EndEpoch, SaveTracker, WriteLatest, Crash, Relaunch, Terminated, Fail, vars,
       storeVars
  <1>4. CASE SaveWeights
    BY <1>2, <1>4 DEF SaveWeights, WriteModel, Complete
  <1>5. CASE Cleanup
    <2>1. Kept \subseteq DOMAIN folders
      BY DEF Kept
    <2> QED
      BY <1>2, <1>5, <2>1 DEF Cleanup, CleanupOldCheckpoints, Complete
  <1>6. CASE SaveFullyAsyncState
    <2>1. /\ globalStep \in DOMAIN folders /\ pc = "save state"
          /\ folders' = [folders EXCEPT ![globalStep].state = Books]
      BY <1>1, <1>6 DEF SaveFullyAsyncState, WriteFullyAsyncState, Fail, storeVars, Books
    <2>2. folders[globalStep] \in Folder
      BY <2>1, BookTypes
    <2>3. CASE s = globalStep
      <3>1. folders'[s] = [folders[s] EXCEPT !.state = Books]
        BY <2>1, <2>3
      <3>2. folders[s] = [model |-> folders[s].model, state |-> folders[s].state]
        BY <2>2, <2>3 DEF Folder
      <3> QED
        BY <2>1, <2>3, <3>1, <3>2
    <2>4. CASE s # globalStep
      BY <1>2, <2>1, <2>4 DEF Complete
    <2> QED
      BY <2>3, <2>4
  <1> QED
    BY <1>3, <1>4, <1>5, <1>6

(* Where the loop goes, and the epoch it is in.                            *)
LEMMA NextEpochInv ==
  ASSUME AdmissionInv, EpochInv, [Next]_vars
  PROVE  EpochInv'
  <1> DEFINE Lost == ~Alive => /\ epoch = 0 /\ model = FreshModel
                               /\ consumedUids = {} /\ filteredUids = {}
             InTime == /\ epoch <= Epochs
                       /\ \/ pc \in {"collect", "sync", "advance", "epilogue"}
                          \/ pc \in Saving /\ afterSave # "done"
                          => epoch < Epochs
  <1>1. /\ epoch \in Nat /\ epoch' \in Nat /\ Epochs \in Nat
        /\ Lost /\ InTime /\ \A s \in Complete : folders[s].state.epoch <= Epochs
    BY NextAdmission DEF AdmissionInv, TypeOK, LoopTypeOK, EpochInv
  <1>2. \A s \in Complete' : folders'[s].state.epoch <= Epochs
    <2> SUFFICES ASSUME NEW s \in Complete'
                 PROVE  folders'[s].state.epoch <= Epochs
      OBVIOUS
    <2>1. \/ s \in Complete /\ folders'[s].state = folders[s].state
          \/ folders'[s].state.epoch = epoch
      <3>1. \/ s \in Complete /\ folders'[s] = folders[s]
            \/ s \in Complete /\ folders'[s].state = folders[s].state
            \/ folders'[s] = [model |-> folders[s].model, state |-> Books]
        BY FolderSteps
      <3> QED
        BY <3>1 DEF Books
    <2> QED
      BY <1>1, <2>1
  <1>3. ASSUME ~Alive', epoch' = 0, model' = FreshModel, consumedUids' = {},
               filteredUids' = {}
        PROVE  Lost' /\ InTime'
    <2>1. epoch' <= Epochs
      BY <1>1, <1>3
    <2> QED
      BY <1>3, <2>1 DEF Alive, Saving
  <1>4. ASSUME NEW reason, Fail(reason) PROVE Lost' /\ InTime'
    <2>1. /\ ~Alive' /\ epoch' = 0 /\ model' = FreshModel
          /\ consumedUids' = {} /\ filteredUids' = {}
      BY <1>4 DEF Fail, LoseMemory, LoadDataloaderState, Alive
    <2> QED
      BY <1>3, <2>1
  <1>5. SUFFICES ASSUME ~ \E reason : Fail(reason)
                 PROVE  Lost' /\ InTime'
    BY <1>2, <1>4 DEF EpochInv
  <1>6. CASE \E w \in Workers : WorkerNext(w)
    <2>1. UNCHANGED <<pc, afterSave, epoch, model, consumedUids, filteredUids>>
      BY <1>5, <1>6 DEF WorkerNext, PullPrompt, StartGeneration, EnqueueGroup,
         DrawPrompt, DrawNothing, trainerVars, weightVars, dataloaderVars
    <2> QED
      BY <1>1, <2>1 DEF Alive, Saving
  <1>7. CASE StartFresh
    <2>1. pc' = "epoch" /\ epoch' = 0
      BY <1>7 DEF StartFresh
    <2>2. epoch' <= Epochs
      BY <1>1, <2>1
    <2> QED
      BY <2>1, <2>2 DEF Alive, Saving
  <1>8. CASE Resume
    <2>1. pc' = "epoch" /\ latest \in Complete /\ epoch' = folders[latest].state.epoch
      BY <1>5, <1>8, ResumeOutcome
    <2> QED
      BY <1>1, <2>1 DEF Alive, Saving
  <1>9. CASE StartEpoch
    <2>1. CASE epoch < Epochs
      <3>1. epoch' = epoch /\ pc' \in {"collect", "epilogue"}
        BY <1>9, <2>1 DEF StartEpoch, NextIteration
      <3> QED
        BY <1>1, <2>1, <3>1 DEF Alive, Saving
    <2>2. CASE ~(epoch < Epochs)
      <3>1. epoch' = Epochs /\ pc' \in {"save weights", "done"} /\ afterSave' = "done"
        BY <1>9, <2>2 DEF StartEpoch, SaveThen
      <3>2. epoch' <= Epochs
        <4>1. epoch' = Epochs /\ Epochs \in Nat
          BY <3>1
        <4> QED
          BY <4>1
      <3> QED
        BY <3>1, <3>2 DEF Alive, Saving
    <2> QED
      BY <2>1, <2>2
  <1>10. CASE KeepGroup \/ DropGroup \/ ExhaustEpoch \/ RunTraining \/ SyncWeights
    <2>1. /\ pc \in {"collect", "sync"} /\ epoch' = epoch
          /\ pc' \in {"collect", "save weights", "epilogue", "sync", "advance"}
      BY <1>5, <1>10 DEF KeepGroup, DropGroup, ExhaustEpoch, RunTraining, SyncWeights,
         SaveThen, trainerVars
    <2> QED
      BY <1>1, <2>1 DEF Alive
  <1>11. CASE AdvanceStep \/ StopAtMaxSteps
    <2>1. /\ pc = "advance" /\ epoch' = epoch
          /\ pc' \in {"collect", "epilogue", "save weights", "done"}
      BY <1>5, <1>11 DEF AdvanceStep, StopAtMaxSteps, NextIteration, SaveThen
    <2> QED
      BY <1>1, <2>1 DEF Alive
  <1>12. CASE EndEpoch
    <2>1. pc = "epilogue" /\ epoch' = epoch + 1 /\ pc' = "epoch"
      BY <1>5, <1>12 DEF EndEpoch
    <2> QED
      BY <1>1, <2>1 DEF Alive, Saving
  <1>13. CASE SaveWeights \/ SaveTracker \/ Cleanup \/ SaveFullyAsyncState
    <2>1. /\ pc \in Saving /\ epoch' = epoch /\ afterSave' = afterSave
          /\ pc' \in Saving \cup {afterSave}
      BY <1>5, <1>13 DEF SaveWeights, SaveTracker, Cleanup, SaveFullyAsyncState, Saving
    <2>2. afterSave \in {"advance", "epilogue", "done"}
      BY <2>1 DEF AdmissionInv, TypeOK, LoopTypeOK, SaveReturns
    <2> QED
      BY <1>1, <2>1, <2>2 DEF Alive, Saving
  <1>14. CASE Crash \/ Relaunch
    <2>1. /\ ~Alive' /\ epoch' = 0 /\ model' = FreshModel
          /\ consumedUids' = {} /\ filteredUids' = {}
      BY <1>14 DEF Crash, Relaunch, LoseMemory, LoadDataloaderState, Alive
    <2> QED
      BY <1>3, <2>1
  <1>15. CASE Terminated \/ UNCHANGED vars
    <2>1. UNCHANGED <<pc, afterSave, epoch, model, consumedUids, filteredUids>>
      BY <1>15 DEF Terminated, vars, trainerVars, weightVars, dataloaderVars
    <2> QED
      BY <1>1, <2>1 DEF Alive, Saving
  <1> QED
    BY <1>6, <1>7, <1>8, <1>9, <1>10, <1>11, <1>12, <1>13, <1>14, <1>15
       DEF Next, TrainerNext

(* Where the loop of train() stands and what epoch it is in agree: the last *)
(* epoch is not passed, what is saved after an epoch belongs to its end, and *)
(* a process that is gone keeps neither weights nor books.                 *)
THEOREM EpochsEnd == Spec => []EpochInv
  <1>1. Init => EpochInv
    <2> SUFFICES ASSUME Init PROVE EpochInv
      OBVIOUS
    <2>1. pc = "down" /\ epoch = 0 /\ model = FreshModel /\ consumedUids = {}
          /\ filteredUids = {} /\ Complete = {}
      BY DEF Init, StoreInit, Complete
    <2> QED
      BY <2>1 DEF EpochInv, Alive, Saving
  <1>2. AdmissionInv /\ EpochInv /\ [Next]_vars => EpochInv'
    BY NextEpochInv
  <1> QED
    BY <1>1, <1>2, AdmissionCorrect, PTL DEF Spec

----------------------------------------------------------------------------
(* What a step does to the weights and the books.                          *)

(* Nothing.                                                                *)
QuietStep ==
  /\ UNCHANGED <<model, epoch, consumedUids, filteredUids>>
  /\ Alive' <=> Alive

(* The process ends, to be launched again if it is "down".                 *)
LostStep ==
  /\ ~Alive' /\ epoch' = 0 /\ model' = FreshModel
  /\ consumedUids' = {} /\ filteredUids' = {}
  /\ UNCHANGED <<folders, latest>>
  /\ pc' = "down" => restarts < MaxRestarts

(* It is launched, from scratch or from the latest complete folder.        *)
BegunStep ==
  /\ ~Alive /\ Alive' /\ epoch' = 0 /\ model' = model
  /\ consumedUids' = {} /\ filteredUids' = {}
  /\ UNCHANGED folders

(* The same with the weights and the books of that folder.                 *)
ResumedStep ==
  /\ pc = "down" /\ Alive' /\ latest # 0 /\ latest \in Complete
  /\ epoch' = folders[latest].state.epoch /\ model' = folders[latest].model
  /\ consumedUids' = folders[latest].state.consumed
  /\ filteredUids' = folders[latest].state.filtered
  /\ UNCHANGED folders

(* A mini-batch of prompts is trained on.                                  *)
TrainedStep(ps) ==
  /\ Alive /\ Alive' /\ pc = "collect"
  /\ ps \subseteq Uids \ consumedUids
  /\ IsFiniteSet(ps) /\ Cardinality(ps) = MiniBatchSize
  /\ model' = Train(model, epoch, ps)
  /\ consumedUids' = consumedUids \cup ps
  /\ UNCHANGED <<epoch, filteredUids, folders>>

(* Prompts are filtered.                                                   *)
DroppedStep(ps) ==
  /\ Alive /\ Alive' /\ SampleFullBatch
  /\ ps \subseteq Uids \ consumedUids
  /\ consumedUids' = consumedUids \cup ps
  /\ filteredUids' = filteredUids \cup ps
  /\ UNCHANGED <<model, epoch, folders>>

(* The next epoch is entered, with nothing marked.                         *)
EndedStep ==
  /\ pc = "epilogue" /\ Alive'
  /\ epoch' = epoch + 1 /\ consumedUids' = {} /\ filteredUids' = {}
  /\ UNCHANGED <<model, folders>>

(* Every step is one of these.                                             *)
DataStep ==
  \/ QuietStep \/ LostStep \/ BegunStep \/ ResumedStep
  \/ \E ps \in SUBSET Uids : TrainedStep(ps) \/ DroppedStep(ps)
  \/ EndedStep

(* Each action is one of these.                                            *)
LEMMA DataSteps ==
  ASSUME AdmissionInv, PromptInv, EpochInv, [Next]_vars
  PROVE  DataStep
  <1>1. ASSUME NEW reason, Fail(reason) PROVE DataStep
    BY <1>1 DEF Fail, LoseMemory, LoadDataloaderState, Alive, LostStep, storeVars,
                DataStep
  <1>2. SUFFICES ASSUME ~ \E reason : Fail(reason)
                 PROVE  DataStep
    BY <1>1
  <1>3. CASE \E w \in Workers : WorkerNext(w)
    BY <1>2, <1>3 DEF WorkerNext, PullPrompt, StartGeneration, EnqueueGroup,
       DrawPrompt, DrawNothing, trainerVars, weightVars, dataloaderVars,
       QuietStep, Alive, DataStep
  <1>4. CASE StartFresh
    BY <1>4 DEF StartFresh, LoadDataloaderState, weightVars, storeVars, Alive,
                BegunStep, DataStep
  <1>5. CASE Resume
    BY <1>2, <1>5, ResumeOutcome DEF ResumedStep, Alive, DataStep
  <1>6. CASE StartEpoch
    <2>1. epoch' = epoch
      <3>1. epoch \in Nat /\ Epochs \in Nat /\ epoch <= Epochs
        BY BookTypes DEF EpochInv
      <3>2. epoch' = IF epoch < Epochs THEN epoch ELSE Epochs
        BY <1>6 DEF StartEpoch
      <3> QED
        BY <3>1, <3>2
    <2>2. /\ pc' \in {"collect", "epilogue", "save weights", "done"} /\ pc = "epoch"
          /\ UNCHANGED <<model, consumedUids, filteredUids>>
      BY <1>6 DEF StartEpoch, NextIteration, SaveThen, weightVars, dataloaderVars
    <2> QED
      BY <2>1, <2>2 DEF QuietStep, Alive, DataStep
  <1>7. CASE KeepGroup \/ SyncWeights \/ AdvanceStep \/ StopAtMaxSteps
    <2>1. /\ UNCHANGED <<model, epoch, consumedUids, filteredUids>>
          /\ pc \in {"collect", "sync", "advance"}
          /\ pc' \in {"collect", "epilogue", "save weights", "advance", "done"}
      BY <1>2, <1>7 DEF KeepGroup, SyncWeights, AdvanceStep, StopAtMaxSteps,
         NextIteration, SaveThen, weightVars, dataloaderVars
    <2> QED
      BY <2>1 DEF QuietStep, Alive, DataStep
  <1>8. CASE DropGroup
    <2> DEFINE ps == {Head(buffer).uid}
    <2>1. buffer # << >> /\ Markable(<<Head(buffer)>>)
      BY <1>8, HeadMarkable DEF DropGroup
    <2>2. ps \in SUBSET Uids /\ ps \subseteq Uids \ consumedUids
      BY <2>1, HeadMarkable
    <2>3. /\ SampleFullBatch /\ pc = "collect" /\ pc' = "collect"
          /\ MarkFiltered(ps) /\ UNCHANGED <<model, epoch, folders>>
      BY <1>8, <2>1 DEF DropGroup, trainerVars, weightVars, storeVars
    <2> HIDE DEF ps
    <2>4. DroppedStep(ps)
      BY <2>2, <2>3 DEF DroppedStep, MarkFiltered, Alive
    <2> QED
      BY <2>2, <2>4 DEF DataStep
  <1>9. CASE ExhaustEpoch \/ RunTraining
    <2> DEFINE ps == UidsOf(batch)
    <2>1. ps \in SUBSET Uids /\ ps \subseteq Uids \ consumedUids
      BY PromptTypes, UidsOfGroups DEF PromptInv, DeliveredInv
    <2>2. IsFiniteSet(ps) /\ Cardinality(ps) = Len(batch)
      BY PromptTypes, CountUids DEF PromptInv, DeliveredInv
    <2>3. CASE ExhaustEpoch
      <3>1. /\ SampleFullBatch /\ pc = "collect" /\ pc' \in {"save weights", "epilogue"}
            /\ MarkFiltered(ps) /\ UNCHANGED <<model, epoch, folders>>
        BY <2>3, BatchMarkable DEF ExhaustEpoch, SaveThen, weightVars, storeVars
      <3>2. DroppedStep(ps)
        BY <2>1, <3>1 DEF DroppedStep, MarkFiltered, Alive
      <3> QED
        BY <2>1, <3>2 DEF DataStep
    <2>4. CASE RunTraining
      <3>1. /\ pc = "collect" /\ pc' = "sync" /\ Len(batch) = MiniBatchSize
            /\ model' = Train(model, epoch, ps)
            /\ MarkConsumed(ps) /\ UNCHANGED <<epoch, folders>>
        BY <2>4, BatchMarkable DEF RunTraining, storeVars
      <3>2. TrainedStep(ps)
        BY <2>1, <2>2, <3>1 DEF TrainedStep, MarkConsumed, Alive
      <3> QED
        BY <2>1, <3>2 DEF DataStep
    <2> QED
      BY <1>9, <2>3, <2>4
  <1>10. CASE EndEpoch
    BY <1>2, <1>10 DEF EndEpoch, LoadDataloaderState, weightVars, storeVars, Alive,
                       EndedStep, DataStep
  <1>11. CASE SaveWeights \/ SaveTracker \/ Cleanup \/ SaveFullyAsyncState
    <2>1. /\ pc \in Saving /\ pc' \in Saving \cup {afterSave}
          /\ UNCHANGED <<model, epoch, consumedUids, filteredUids>>
      BY <1>2, <1>11 DEF SaveWeights, SaveTracker, Cleanup, SaveFullyAsyncState, Saving,
                         weightVars, dataloaderVars
    <2>2. afterSave \in {"advance", "epilogue", "done"}
      BY <2>1 DEF AdmissionInv, TypeOK, LoopTypeOK, SaveReturns
    <2> QED
      BY <2>1, <2>2 DEF QuietStep, Alive, Saving, DataStep
  <1>12. CASE Crash \/ Relaunch
    BY <1>12 DEF Crash, Relaunch, LoseMemory, LoadDataloaderState, Alive, LostStep,
                 storeVars, DataStep
  <1>13. CASE Terminated \/ UNCHANGED vars
    BY <1>13 DEF Terminated, vars, trainerVars, weightVars, dataloaderVars, QuietStep,
                 Alive, DataStep
  <1> QED
    BY <1>3, <1>4, <1>5, <1>6, <1>7, <1>8, <1>9, <1>10, <1>11, <1>12, <1>13
       DEF Next, TrainerNext

----------------------------------------------------------------------------
(* Checkpoints: without sample_full_batch every save is of a new step.     *)

(* The configurations in which a complete checkpoint is never written      *)
(* again: with sample_full_batch an epoch may end short of its steps, and  *)
(* the step number of its last save is used by the next one once more.     *)
SavesOnce == SampleFullBatch = FALSE \/ CkptInterval = 0

(* Without ckpt_interval nothing is saved.                                 *)
NoSaves == CkptInterval = 0 => Complete = {} /\ latest = 0 /\ pc \notin Saving

(* Without sample_full_batch nothing is filtered, no epoch ends early.     *)
NothingFiltered ==
  SampleFullBatch = FALSE =>
    /\ filteredUids = {}
    /\ \A s \in Complete : folders[s].state.filtered = {}
    /\ afterSave # "epilogue"

(* A step that is to be saved is not in the tracker yet, and its folder is *)
(* completed only after it holds the weights of the present.               *)
SaveOrder ==
  SampleFullBatch = FALSE =>
    /\ \A s \in Complete : s <= latest
    /\ pc \in {"epoch", "collect", "sync", "epilogue", "save weights", "save tracker"}
         => latest < globalStep
    /\ pc \in {"cleanup", "save state"} => latest = globalStep /\ globalStep \notin Complete
    /\ pc \in {"save tracker", "cleanup", "save state"} =>
         (globalStep \in DOMAIN folders => folders[globalStep].model = model)

SaveInv == NoSaves /\ NothingFiltered /\ SaveOrder

(* What is complete was, but for the folder being completed.               *)
LEMMA CompleteSteps ==
  ASSUME AdmissionInv, [Next]_vars
  PROVE  /\ \A s \in Complete' : s \in Complete \/ (pc = "save state" /\ s = globalStep)
         /\ pc # "save state" => Complete' \subseteq Complete
  BY FolderSteps

LEMMA NextNoSaves ==
  ASSUME AdmissionInv, SaveInv, [Next]_vars
  PROVE  NoSaves'
  <1>1. SUFFICES ASSUME CkptInterval = 0
                 PROVE  Complete' = {} /\ latest' = 0 /\ pc' \notin Saving
    BY DEF NoSaves
  <1>2. Complete = {} /\ latest = 0 /\ pc \notin Saving /\ ~(CkptInterval > 0)
    BY <1>1 DEF SaveInv, NoSaves
  <1>3. Complete' = {}
    BY <1>2, CompleteSteps DEF Saving
  <1>4. latest' = 0 /\ pc' \notin Saving
    <2>1. CASE \E w \in Workers : WorkerNext(w)
      BY <1>2, <2>1 DEF WorkerNext, PullPrompt, StartGeneration, EnqueueGroup, Fail,
                        storeVars, trainerVars, Saving
    <2>2. CASE StartFresh \/ Resume
      BY <1>2, <2>2 DEF StartFresh, Resume, Fail, storeVars, Saving
    <2>3. CASE StartEpoch \/ SyncWeights \/ StopAtMaxSteps
      BY <1>2, <2>3 DEF StartEpoch, NextIteration, SyncWeights, StopAtMaxSteps, SaveThen,
                        storeVars, Saving
    <2>4. CASE KeepGroup \/ DropGroup \/ ExhaustEpoch \/ RunTraining
      BY <1>2, <2>4 DEF KeepGroup, DropGroup, ExhaustEpoch, RunTraining, Fail, SaveThen,
                        storeVars, trainerVars, Saving
    <2>5. CASE AdvanceStep \/ EndEpoch
      BY <1>2, <2>5 DEF AdvanceStep, EndEpoch, NextIteration, Fail, storeVars, Saving
    <2>6. CASE SaveWeights \/ SaveTracker \/ Cleanup \/ SaveFullyAsyncState
      BY <1>2, <2>6 DEF SaveWeights, SaveTracker, Cleanup, SaveFullyAsyncState, Saving
    <2>7. CASE Crash \/ Relaunch
      BY <1>2, <2>7 DEF Crash, Relaunch, storeVars, Saving
    <2>8. CASE Terminated \/ UNCHANGED vars
      BY <1>2, <2>8 DEF Terminated, vars, storeVars, trainerVars
    <2> QED
      BY <2>1, <2>2, <2>3, <2>4, <2>5, <2>6, <2>7, <2>8 DEF Next, TrainerNext
  <1> QED
    BY <1>3, <1>4

LEMMA NextNothingFiltered ==
  ASSUME AdmissionInv, PromptInv, EpochInv, SaveInv, [Next]_vars
  PROVE  NothingFiltered'
  <1>1. SUFFICES ASSUME SampleFullBatch = FALSE
                 PROVE  /\ filteredUids' = {}
                        /\ \A s \in Complete' : folders'[s].state.filtered = {}
                        /\ afterSave' # "epilogue"
    BY DEF NothingFiltered
  <1>2. /\ filteredUids = {} /\ afterSave # "epilogue"
        /\ \A s \in Complete : folders[s].state.filtered = {}
    BY <1>1 DEF SaveInv, NothingFiltered
  <1>3. filteredUids' = {}
    BY <1>1, <1>2, DataSteps DEF DataStep, QuietStep, LostStep, BegunStep, ResumedStep,
       TrainedStep, DroppedStep, EndedStep
  <1>4. ASSUME NEW s \in Complete' PROVE folders'[s].state.filtered = {}
    <2>1. \/ s \in Complete /\ folders'[s] = folders[s]
          \/ s \in Complete /\ folders'[s].state = folders[s].state
          \/ folders'[s] = [model |-> folders[s].model, state |-> Books]
      BY FolderSteps
    <2> QED
      BY <1>2, <2>1 DEF Books
  <1>5. afterSave' \in {afterSave, "none", "advance", "done"}
    <2>1. CASE \E w \in Workers : WorkerNext(w)
      BY <2>1 DEF WorkerNext, PullPrompt, StartGeneration, EnqueueGroup, Fail,
                  LoseMemory, trainerVars
    <2>2. CASE StartFresh \/ Resume
      BY <2>2 DEF StartFresh, Resume, Fail, LoseMemory
    <2>3. CASE StartEpoch \/ SyncWeights \/ StopAtMaxSteps
      BY <2>3 DEF StartEpoch, SyncWeights, StopAtMaxSteps, SaveThen
    <2>4. CASE KeepGroup \/ DropGroup \/ ExhaustEpoch \/ RunTraining
      BY <1>1, <2>4 DEF KeepGroup, DropGroup, ExhaustEpoch, RunTraining, Fail, LoseMemory,
                        trainerVars
    <2>5. CASE AdvanceStep \/ EndEpoch
      BY <2>5 DEF AdvanceStep, EndEpoch, Fail, LoseMemory
    <2>6. CASE SaveWeights \/ SaveTracker \/ Cleanup \/ SaveFullyAsyncState
      BY <2>6 DEF SaveWeights, SaveTracker, Cleanup, SaveFullyAsyncState, Fail, LoseMemory
    <2>7. CASE Crash \/ Relaunch
      BY <2>7 DEF Crash, Relaunch, LoseMemory
    <2>8. CASE Terminated \/ UNCHANGED vars
      BY <2>8 DEF Terminated, vars, trainerVars
    <2> QED
      BY <2>1, <2>2, <2>3, <2>4, <2>5, <2>6, <2>7, <2>8 DEF Next, TrainerNext
  <1> QED
    BY <1>2, <1>3, <1>4, <1>5

LEMMA NextSaveOrder ==
  ASSUME AdmissionInv, OrderInv, SaveInv, [Next]_vars
  PROVE  SaveOrder'
  <1>1. SUFFICES ASSUME SampleFullBatch = FALSE PROVE SaveOrder'
    BY DEF SaveOrder
  <1> DEFINE Before == {"epoch", "collect", "sync", "epilogue", "save weights",
                        "save tracker"}
  <1>2. /\ \A s \in Complete : s <= latest
        /\ pc \in Before => latest < globalStep
        /\ pc \in {"cleanup", "save state"} => latest = globalStep /\ globalStep \notin Complete
        /\ pc \in {"save tracker", "cleanup", "save state"} =>
             (globalStep \in DOMAIN folders => folders[globalStep].model = model)
    BY <1>1 DEF SaveInv, SaveOrder
  <1>3. /\ globalStep \in Nat /\ latest \in Nat /\ Complete \subseteq Nat
        /\ globalStep' \in Nat /\ latest' \in Nat
    BY NextAdmission, BookTypes
       DEF AdmissionInv, TypeOK, StoreTypeOK, LoopTypeOK, Complete
  <1>4. ASSUME UNCHANGED <<folders, latest>>,
               \/ pc' \in {"down", "failed", "done", "advance"}
               \/ /\ pc' \in {"epoch", "collect", "sync", "epilogue", "save weights"}
                  /\ latest < globalStep'
        PROVE  SaveOrder'
    <2>1. Complete' = Complete
      BY <1>4 DEF Complete
    <2> QED
      BY <1>2, <1>4, <2>1 DEF SaveOrder
  <1>5. SUFFICES ASSUME ~ \E reason : Fail(reason) PROVE SaveOrder'
    BY <1>4 DEF Fail, storeVars
  <1>6. ASSUME UNCHANGED <<folders, latest, globalStep, pc, model>> PROVE SaveOrder'
    <2>1. Complete' = Complete
      BY <1>6 DEF Complete
    <2> QED
      BY <1>2, <1>6, <2>1 DEF SaveOrder
  <1>7. CASE \E w \in Workers : WorkerNext(w)
    BY <1>5, <1>6, <1>7 DEF WorkerNext, PullPrompt, StartGeneration, EnqueueGroup,
                            trainerVars, weightVars, storeVars
  <1>8. CASE StartFresh
    <2>1. latest = 0 /\ pc' = "epoch" /\ globalStep' = 1 /\ UNCHANGED <<folders, latest>>
      BY <1>8 DEF StartFresh, storeVars
    <2>2. latest < globalStep'
      BY <2>1
    <2> QED
      BY <1>4, <2>1, <2>2
  <1>9. CASE Resume
    <2>1. pc' = "epoch" /\ globalStep' = latest + 1 /\ UNCHANGED <<folders, latest>>
      BY <1>5, <1>9, ResumeOutcome
    <2>2. latest < globalStep'
      BY <1>3, <2>1
    <2> QED
      BY <1>4, <2>1, <2>2
  <1>10. CASE \/ StartEpoch \/ KeepGroup \/ DropGroup \/ ExhaustEpoch \/ RunTraining
              \/ SyncWeights \/ EndEpoch
    <2>1. /\ pc \in {"epoch", "collect", "sync", "epilogue"}
          /\ pc' \in {"epoch", "collect", "sync", "epilogue", "save weights", "advance",
                      "done"}
          /\ globalStep' = globalStep /\ UNCHANGED <<folders, latest>>
      BY <1>1, <1>5, <1>10 DEF StartEpoch, NextIteration, SaveThen, KeepGroup, DropGroup,
         ExhaustEpoch, RunTraining, SyncWeights, EndEpoch, storeVars
    <2> QED
      BY <1>2, <1>4, <2>1
  <1>11. CASE AdvanceStep \/ StopAtMaxSteps
    <2>1. /\ pc = "advance" /\ pc' \in {"collect", "epilogue", "save weights", "done"}
          /\ globalStep' = globalStep + 1 /\ UNCHANGED <<folders, latest>>
      BY <1>5, <1>11 DEF AdvanceStep, StopAtMaxSteps, NextIteration, SaveThen, storeVars
    <2>2. latest < globalStep'
      <3>1. latest <= globalStep
        BY <2>1 DEF OrderInv, Alive
      <3>2. globalStep' = globalStep + 1
        BY <2>1
      <3> QED
        BY <1>3, <3>1, <3>2
    <2> QED
      BY <1>4, <2>1, <2>2
  <1>12. CASE SaveWeights
    <2>1. /\ pc = "save weights" /\ pc' = "save tracker"
          /\ UNCHANGED <<latest, globalStep, model>> /\ folders'[globalStep].model = model
      BY <1>12 DEF SaveWeights, WriteModel, weightVars
    <2>2. Complete' \subseteq Complete
      BY <2>1, CompleteSteps
    <2> QED
      BY <1>2, <2>1, <2>2 DEF SaveOrder
  <1>13. CASE SaveTracker
    <2>1. /\ pc = "save tracker" /\ pc' = "cleanup"
          /\ latest' = globalStep /\ UNCHANGED <<folders, globalStep, model>>
      BY <1>13 DEF SaveTracker, WriteLatest, weightVars
    <2>2. Complete' = Complete
      BY <2>1 DEF Complete
    <2>3. ASSUME NEW s \in Complete PROVE s <= globalStep /\ s # globalStep
      <3>1. s \in Nat /\ s <= latest /\ latest < globalStep
        BY <1>2, <1>3, <2>1
      <3> QED
        BY <1>3, <3>1
    <2> QED
      BY <1>2, <2>1, <2>2, <2>3 DEF SaveOrder
  <1>14. CASE Cleanup
    <2>1. /\ pc = "cleanup" /\ pc' = "save state"
          /\ UNCHANGED <<latest, globalStep, model>>
          /\ \A s \in DOMAIN folders' : s \in DOMAIN folders /\ folders'[s] = folders[s]
      BY <1>14 DEF Cleanup, CleanupOldCheckpoints, Kept, weightVars
    <2>2. Complete' \subseteq Complete
      BY <2>1, CompleteSteps
    <2> QED
      BY <1>2, <2>1, <2>2 DEF SaveOrder
  <1>15. CASE SaveFullyAsyncState
    <2>1. /\ pc = "save state" /\ pc' = afterSave /\ UNCHANGED <<latest, globalStep, model>>
      BY <1>5, <1>15 DEF SaveFullyAsyncState, WriteFullyAsyncState, weightVars
    <2>2. afterSave \in {"advance", "done"}
      BY <1>1, <2>1 DEF AdmissionInv, TypeOK, LoopTypeOK, SaveReturns, Saving, SaveInv,
                        NothingFiltered
    <2>3. \A s \in Complete' : s \in Complete \/ s = globalStep
      BY CompleteSteps
    <2>4. ASSUME NEW s \in Complete' PROVE s <= latest'
      <3>1. latest' = latest /\ latest = globalStep
        BY <1>2, <2>1
      <3>2. CASE s \in Complete
        BY <1>2, <3>1, <3>2
      <3>3. CASE s = globalStep
        BY <1>3, <3>1, <3>3
      <3> QED
        BY <2>3, <3>2, <3>3
    <2> QED
      BY <2>1, <2>2, <2>4 DEF SaveOrder
  <1>16. CASE Crash \/ Relaunch
    BY <1>4, <1>16 DEF Crash, Relaunch, storeVars
  <1>17. CASE Terminated \/ UNCHANGED vars
    BY <1>6, <1>17 DEF Terminated, vars, storeVars, trainerVars, weightVars
  <1> QED
    BY <1>7, <1>8, <1>9, <1>10, <1>11, <1>12, <1>13, <1>14, <1>15, <1>16, <1>17
       DEF Next, TrainerNext

(* Without sample_full_batch a step is saved once: save_checkpoints comes to *)
(* a step the tracker does not name yet, and a folder at that step, when a *)
(* crash left one, holds the weights of the present once they are written. *)
THEOREM SavesInOrder == Spec => []SaveInv
  <1>1. Init => SaveInv
    <2> SUFFICES ASSUME Init PROVE SaveInv
      OBVIOUS
    <2>1. /\ pc = "down" /\ afterSave = "none" /\ filteredUids = {} /\ latest = 0
          /\ Complete = {}
      BY DEF Init, StoreInit, Complete
    <2> QED
      BY <2>1 DEF SaveInv, NoSaves, NothingFiltered, SaveOrder, Saving
  <1>2. AdmissionInv /\ PromptInv /\ EpochInv /\ OrderInv /\ SaveInv /\ [Next]_vars
          => SaveInv'
    BY NextNoSaves, NextNothingFiltered, NextSaveOrder DEF SaveInv
  <1> QED
    BY <1>1, <1>2, AdmissionCorrect, PromptsCorrect, EpochsEnd, OrderCorrect, PTL DEF Spec

----------------------------------------------------------------------------
(* What the weights have been trained on.                                  *)

(* Weights that have seen each prompt of an epoch at most once, a batch at *)
(* a time, and in the last epoch those the books call trained.             *)
Trained(m, b) ==
  /\ m.seen \subseteq (0..b.epoch) \X Uids
  /\ Cardinality(m.seen) = m.steps * MiniBatchSize
  /\ {x \in m.seen : x[1] = b.epoch} = {b.epoch} \X (b.consumed \ b.filtered)

LEMMA UntrainedYet ==
  Trained(FreshModel, [consumed |-> {}, filtered |-> {}, epoch |-> 0])
  <1>1. 0 * MiniBatchSize = 0
    OBVIOUS
  <1> QED
    BY <1>1, FS_EmptySet DEF Trained, FreshModel

LEMMA SeenFinite ==
  ASSUME NEW m, NEW b, b.epoch \in Nat, Trained(m, b)
  PROVE  IsFiniteSet(m.seen)
  <1>1. IsFiniteSet(0..b.epoch) /\ IsFiniteSet(Uids)
    BY FS_Interval, UidsFinite
  <1>2. IsFiniteSet((0..b.epoch) \X Uids)
    BY <1>1, FS_Product
  <1> QED
    BY <1>2, FS_Subset DEF Trained

(* A batch of prompts that are not marked is a batch of something new.     *)
LEMMA TrainedMore ==
  ASSUME NEW m \in Model, NEW b \in FullyAsyncState, NEW ps \in SUBSET Uids,
         Trained(m, b), ps \cap b.consumed = {},
         IsFiniteSet(ps), Cardinality(ps) = MiniBatchSize
  PROVE  Trained(Train(m, b.epoch, ps), [b EXCEPT !.consumed = @ \cup ps])
  <1> DEFINE e == b.epoch
             new == {<<e, u>> : u \in ps}
  <1>1. e \in Nat /\ b.filtered \subseteq b.consumed /\ m.steps \in Nat
    BY DEF FullyAsyncState, Model
  <1>2. new = {e} \X ps
    OBVIOUS
  <1>3. IsFiniteSet(new) /\ Cardinality(new) = MiniBatchSize
    <2>1. IsFiniteSet({e}) /\ Cardinality({e}) = 1
      BY FS_Singleton
    <2>2. IsFiniteSet({e} \X ps) /\ Cardinality({e} \X ps) = 1 * MiniBatchSize
      BY <2>1, FS_Product
    <2>3. 1 * MiniBatchSize = MiniBatchSize
      OBVIOUS
    <2> HIDE DEF new
    <2> QED
      BY <1>2, <2>2, <2>3
  <1>4. new \cap m.seen = {}
    <2> SUFFICES ASSUME NEW x \in new, x \in m.seen PROVE FALSE
      OBVIOUS
    <2>1. x[1] = e /\ x[2] \in ps
      OBVIOUS
    <2>2. x \in {e} \X (b.consumed \ b.filtered)
      BY <2>1 DEF Trained
    <2> QED
      BY <2>1, <2>2
  <1> HIDE DEF new
  <1>5. Cardinality(m.seen \cup new) = (m.steps + 1) * MiniBatchSize
    <2>1. IsFiniteSet(m.seen) /\ Cardinality(m.seen) = m.steps * MiniBatchSize
      BY <1>1, SeenFinite DEF Trained
    <2>2. Cardinality(m.seen \cap new) = 0
      BY <1>4, FS_EmptySet
    <2>3. Cardinality(m.seen \cup new) = m.steps * MiniBatchSize + MiniBatchSize - 0
      BY <1>3, <2>1, <2>2, FS_Union
    <2>4. (m.steps + 1) * MiniBatchSize = m.steps * MiniBatchSize + MiniBatchSize
      BY <1>1, SMTT(30)
    <2>5. m.steps * MiniBatchSize \in Nat
      BY <1>1
    <2> QED
      BY <2>3, <2>4, <2>5
  <1>6. m.seen \cup new \subseteq (0..e) \X Uids
    <2>1. e \in 0..e
      BY <1>1
    <2> QED
      BY <1>2, <2>1 DEF Trained
  <1>7. {x \in m.seen \cup new : x[1] = e}
          = {e} \X ((b.consumed \cup ps) \ b.filtered)
    <2>1. {x \in m.seen : x[1] = e} = {e} \X (b.consumed \ b.filtered)
      BY DEF Trained
    <2>2. {x \in new : x[1] = e} = {e} \X ps
      BY <1>2
    <2>3. (b.consumed \cup ps) \ b.filtered = (b.consumed \ b.filtered) \cup ps
      BY <1>1
    <2>4. {x \in m.seen \cup new : x[1] = e}
            = {x \in m.seen : x[1] = e} \cup {x \in new : x[1] = e}
      OBVIOUS
    <2>5. {e} \X ((b.consumed \ b.filtered) \cup ps)
            = ({e} \X (b.consumed \ b.filtered)) \cup ({e} \X ps)
      OBVIOUS
    <2> QED
      BY <2>1, <2>2, <2>3, <2>4, <2>5
  <1>8. /\ Train(m, e, ps).seen = m.seen \cup new
        /\ Train(m, e, ps).steps = m.steps + 1
    BY DEF Train, new
  <1> DEFINE c == [b EXCEPT !.consumed = @ \cup ps]
  <1>9. c.epoch = e /\ c.filtered = b.filtered /\ c.consumed = b.consumed \cup ps
    BY DEF FullyAsyncState
  <1> HIDE DEF c, e
  <1>10. Trained(Train(m, e, ps), c)
    BY <1>5, <1>6, <1>7, <1>8, <1>9 DEF Trained
  <1> QED
    BY <1>10 DEF c, e

(* Nothing is trained on in an epoch that has not begun.                   *)
LEMMA TrainedNext ==
  ASSUME NEW m, NEW b, b.epoch \in Nat, Trained(m, b)
  PROVE  Trained(m, [consumed |-> {}, filtered |-> {}, epoch |-> b.epoch + 1])
  <1> DEFINE e == b.epoch
  <1>1. 0..e \subseteq 0..(e + 1) /\ (e + 1) \notin 0..e
    OBVIOUS
  <1>2. m.seen \subseteq (0..e) \X Uids
    BY DEF Trained
  <1>3. m.seen \subseteq (0..(e + 1)) \X Uids
    BY <1>1, <1>2
  <1>4. {x \in m.seen : x[1] = e + 1} = {}
    BY <1>1, <1>2
  <1>5. {e + 1} \X ({} \ {}) = {}
    OBVIOUS
  <1> HIDE DEF e
  <1>6. Trained(m, [consumed |-> {}, filtered |-> {}, epoch |-> e + 1])
    BY <1>3, <1>4, <1>5 DEF Trained
  <1> QED
    BY <1>6 DEF e

----------------------------------------------------------------------------
(* The weights and the books, in memory and on disk.                       *)

(* Every launch but the first finds what was saved once, or there is only  *)
(* the first.                                                              *)
Resumable == SavesOnce \/ MaxRestarts = 0

(* Memory and every complete folder agree with their books.                *)
DataInv ==
  /\ pc = "down" /\ latest # 0 => SavesOnce
  /\ Trained(model, Books)
  /\ SavesOnce => \A s \in Complete : Trained(folders[s].model, folders[s].state)

(* Where saves are of new steps, a complete folder was complete, or is     *)
(* completed by weights and books of the same moment.                      *)
LEMMA KeptComplete ==
  ASSUME AdmissionInv, SaveInv, SavesOnce, [Next]_vars, NEW s \in Complete'
  PROVE  \/ s \in Complete /\ folders'[s] = folders[s]
         \/ /\ pc = "save state" /\ s = globalStep
            /\ folders'[s] = [model |-> model, state |-> Books]
  <1>1. CASE pc = "save weights" /\ s \in Complete /\ s = globalStep
    <2>1. SampleFullBatch = FALSE
      BY <1>1 DEF SavesOnce, SaveInv, NoSaves, Saving
    <2>2. globalStep <= latest /\ latest < globalStep
      BY <1>1, <2>1 DEF SaveInv, SaveOrder
    <2>3. globalStep \in Nat /\ latest \in Nat
      BY BookTypes
    <2>4. FALSE
      BY <2>2, <2>3
    <2> QED
      BY <2>4
  <1>2. CASE /\ pc = "save state" /\ s = globalStep /\ s \in DOMAIN folders
             /\ folders'[s] = [model |-> folders[s].model, state |-> Books]
    <2>1. SampleFullBatch = FALSE
      BY <1>2 DEF SavesOnce, SaveInv, NoSaves, Saving
    <2>2. folders[s].model = model
      BY <1>2, <2>1 DEF SaveInv, SaveOrder
    <2> QED
      BY <1>2, <2>2
  <1> QED
    BY <1>1, <1>2, FolderSteps

(* A process is down at first, or launched again within the bound.         *)
LEMMA Relaunches ==
  ASSUME AdmissionInv, [Next]_vars
  PROVE  /\ restarts \in Nat /\ restarts' \in Nat /\ restarts <= restarts'
         /\ pc' = "down" => \/ restarts < MaxRestarts
                            \/ pc = "down" /\ UNCHANGED <<latest, restarts>>
  <1>1. restarts \in Nat
    BY BookTypes
  <1>2. /\ restarts' = restarts \/ (restarts' = restarts + 1 /\ restarts < MaxRestarts)
        /\ pc' = "down" => \/ restarts < MaxRestarts
                           \/ pc = "down" /\ UNCHANGED <<latest, restarts>>
    <2> SUFFICES ASSUME ~ \E reason : Fail(reason)
                 PROVE  /\ \/ restarts' = restarts
                           \/ restarts' = restarts + 1 /\ restarts < MaxRestarts
                        /\ pc' = "down" =>
                             \/ restarts < MaxRestarts
                             \/ pc = "down" /\ UNCHANGED <<latest, restarts>>
      BY DEF Fail
    <2>1. CASE \E w \in Workers : WorkerNext(w)
      BY <2>1 DEF WorkerNext, PullPrompt, StartGeneration, EnqueueGroup,
                  storeVars, trainerVars, processVars
    <2>2. CASE StartFresh \/ Resume
      BY <2>2, ResumeOutcome DEF StartFresh, processVars
    <2>3. CASE StartEpoch \/ SyncWeights \/ StopAtMaxSteps
      BY <2>3 DEF StartEpoch, NextIteration, SyncWeights, StopAtMaxSteps, SaveThen,
                  processVars
    <2>4. CASE KeepGroup \/ DropGroup \/ ExhaustEpoch \/ RunTraining
      BY <2>4 DEF KeepGroup, DropGroup, ExhaustEpoch, RunTraining, SaveThen,
                  trainerVars, processVars
    <2>5. CASE AdvanceStep \/ EndEpoch
      BY <2>5 DEF AdvanceStep, EndEpoch, NextIteration, processVars
    <2>6. CASE SaveWeights \/ SaveTracker \/ Cleanup
      BY <2>6 DEF SaveWeights, SaveTracker, Cleanup, processVars
    <2>7. CASE SaveFullyAsyncState
      <3>1. afterSave # "down"
        BY DEF AdmissionInv, TypeOK, LoopTypeOK
      <3> QED
        BY <2>7, <3>1 DEF SaveFullyAsyncState, processVars
    <2>8. CASE Crash \/ Relaunch
      BY <2>8 DEF Crash, Relaunch
    <2>9. CASE Terminated \/ UNCHANGED vars
      BY <2>9 DEF Terminated, vars, storeVars, trainerVars, processVars
    <2> QED
      BY <2>1, <2>2, <2>3, <2>4, <2>5, <2>6, <2>7, <2>8, <2>9 DEF Next, TrainerNext
  <1> QED
    BY <1>1, <1>2

LEMMA NextData ==
  ASSUME Resumable, AdmissionInv, PromptInv, EpochInv, SaveInv, DataInv, [Next]_vars
  PROVE  DataInv'
  <1>1. pc' = "down" /\ latest' # 0 => SavesOnce
    <2> SUFFICES ASSUME pc' = "down", latest' # 0 PROVE SavesOnce
      OBVIOUS
    <2>1. CASE restarts < MaxRestarts
      BY <2>1, Relaunches DEF Resumable
    <2>2. CASE pc = "down" /\ latest' = latest
      BY <2>2 DEF DataInv
    <2> QED
      BY <2>1, <2>2, Relaunches
  <1>2. SavesOnce => \A s \in Complete' : Trained(folders'[s].model, folders'[s].state)
    <2> SUFFICES ASSUME SavesOnce, NEW s \in Complete'
                 PROVE  Trained(folders'[s].model, folders'[s].state)
      OBVIOUS
    <2>1. CASE s \in Complete /\ folders'[s] = folders[s]
      BY <2>1 DEF DataInv
    <2>2. CASE folders'[s] = [model |-> model, state |-> Books]
      <3>1. folders'[s].model = model /\ folders'[s].state = Books
        BY <2>2
      <3> QED
        BY <3>1 DEF DataInv
    <2> QED
      BY <2>1, <2>2, KeptComplete
  <1> DEFINE now == Trained(model, Books)
             later == [consumed |-> consumedUids', filtered |-> filteredUids',
                       epoch |-> epoch']
  <1>3. Books \in FullyAsyncState /\ Books.epoch = epoch /\ epoch \in Nat
        /\ Books.consumed = consumedUids /\ Books.filtered = filteredUids
        /\ model \in Model /\ now
    BY BookTypes DEF Books, DataInv
  <1>4. SUFFICES Trained(model', later)
    <2>1. Books' = later
      BY DEF Books
    <2>2. Complete' = {s \in DOMAIN folders' : folders'[s].state # None}
      BY DEF Complete
    <2> QED
      BY <1>1, <1>2, <2>1, <2>2 DEF DataInv, Trained
  <1>5. CASE QuietStep
    BY <1>3, <1>5 DEF QuietStep, Books
  <1>6. CASE LostStep
    BY <1>6, UntrainedYet DEF LostStep
  <1>7. CASE BegunStep
    <2>1. model = FreshModel
      BY <1>7 DEF BegunStep, EpochInv
    <2> QED
      BY <1>7, <2>1, UntrainedYet DEF BegunStep
  <1>8. CASE ResumedStep
    <2>1. SavesOnce /\ latest \in Complete
      BY <1>8 DEF ResumedStep, DataInv
    <2>2. Trained(folders[latest].model, folders[latest].state)
      BY <2>1 DEF DataInv
    <2>3. folders[latest].state \in FullyAsyncState
      BY <2>1, BookTypes
    <2>4. later = folders[latest].state
      BY <1>8, <2>3 DEF ResumedStep, FullyAsyncState
    <2> QED
      BY <1>8, <2>2, <2>4 DEF ResumedStep
  <1>9. ASSUME NEW ps \in SUBSET Uids, TrainedStep(ps) PROVE Trained(model', later)
    <2>1. /\ ps \cap Books.consumed = {} /\ IsFiniteSet(ps)
          /\ Cardinality(ps) = MiniBatchSize /\ model' = Train(model, Books.epoch, ps)
      BY <1>3, <1>9 DEF TrainedStep
    <2>2. later = [Books EXCEPT !.consumed = @ \cup ps]
      BY <1>9 DEF TrainedStep, Books
    <2> HIDE DEF later
    <2> QED
      BY <1>3, <2>1, <2>2, TrainedMore
  <1>10. ASSUME NEW ps \in SUBSET Uids, DroppedStep(ps) PROVE Trained(model', later)
    <2>1. filteredUids \subseteq consumedUids /\ ps \cap consumedUids = {}
      BY <1>10, PromptTypes DEF DroppedStep
    <2>2. (consumedUids \cup ps) \ (filteredUids \cup ps) = consumedUids \ filteredUids
      BY <2>1
    <2>3. /\ later.epoch = Books.epoch /\ model' = model
          /\ later.consumed \ later.filtered = Books.consumed \ Books.filtered
      BY <1>3, <1>10, <2>2 DEF DroppedStep
    <2> HIDE DEF later
    <2> QED
      BY <1>3, <2>3 DEF Trained
  <1>11. CASE EndedStep
    BY <1>3, <1>11, TrainedNext DEF EndedStep
  <1> QED
    BY <1>5, <1>6, <1>7, <1>8, <1>9, <1>10, <1>11, DataSteps DEF DataStep

(* The weights have seen each prompt of an epoch at most once, a batch at  *)
(* a time, and in the current epoch exactly those which the books of the   *)
(* dataloader call trained: in memory, and in every complete folder.       *)
THEOREM DataCorrect ==
  ASSUME Resumable
  PROVE  Spec => []DataInv
  <1>1. Init => DataInv
    <2> SUFFICES ASSUME Init PROVE DataInv
      OBVIOUS
    <2>1. /\ pc = "down" /\ latest = 0 /\ Complete = {} /\ model = FreshModel
          /\ Books = [consumed |-> {}, filtered |-> {}, epoch |-> 0]
      BY DEF Init, StoreInit, Complete, Books
    <2> QED
      BY <2>1, UntrainedYet DEF DataInv
  <1>2. AdmissionInv /\ PromptInv /\ EpochInv /\ SaveInv /\ DataInv /\ [Next]_vars
          => DataInv'
    BY NextData
  <1> QED
    BY <1>1, <1>2, AdmissionCorrect, PromptsCorrect, EpochsEnd, SavesInOrder, PTL DEF Spec

(* "To avoid training on the same data upon resuming": the weights have    *)
(* been trained exactly once on each prompt that the books of the epoch    *)
(* call trained, and never more than once on any, in the process that      *)
(* saves them and in every process that resumes from them.                 *)
THEOREM TrainedOnceHolds ==
  ASSUME Resumable
  PROVE  Spec => []TrainedOnce
  <1>1. DataInv => TrainedOnce
    BY DEF DataInv, Trained, Books, TrainedOnce
  <1> QED
    BY <1>1, DataCorrect, PTL

----------------------------------------------------------------------------
(* No prompt that was drawn is lost while its epoch goes on.               *)

(* The prompts that are trained on, filtered, delivered or in hand.        *)
Accounted ==
  consumedUids \cup UidsOf(buffer) \cup UidsOf(batch) \cup {job[w].uid : w \in Holding}

(* A worker that finds the iterator at its end is finished.                *)
DrawnInv ==
  /\ afterSave # "done" => \A u \in Uids : u <= cursor => u \in Accounted
  /\ \A w \in Workers : worker[w] = "finished" => cursor = EffectiveLength

(* Nothing is drawn from a loader that is rewound.                         *)
LEMMA NothingDrawn ==
  ASSUME cursor' = 0, \A w \in Workers : worker'[w] # "finished"
  PROVE  DrawnInv'
  <1>1. \A u \in Uids : ~(u <= 0)
    BY UidsFinite DEF Uids
  <1> QED
    BY <1>1 DEF DrawnInv

(* Prompts that move stay accounted for.                                   *)
LEMMA DrawnKept ==
  ASSUME DrawnInv, cursor' = cursor, afterSave' # "done" => afterSave # "done",
         Accounted \subseteq Accounted',
         \A w \in Workers : worker'[w] = "finished" => worker[w] = "finished"
  PROVE  DrawnInv'
  BY DEF DrawnInv

LEMMA FailingDrawn ==
  ASSUME NEW reason, Fail(reason)
  PROVE  DrawnInv'
  <1>1. cursor' = 0 /\ \A w \in Workers : worker'[w] = "stopped"
    BY DEF Fail, LoseMemory, LoadDataloaderState
  <1> QED
    BY <1>1, NothingDrawn

(* What is skipped on the way to the next prompt is consumed.              *)
LEMMA PullPromptDrawn ==
  ASSUME AdmissionInv, PromptInv, DrawnInv, NEW w \in Workers, PullPrompt(w)
  PROVE  DrawnInv'
  <1>1. /\ UNCHANGED <<consumedUids, buffer, batch, afterSave>>
        /\ worker[w] = "pulling" /\ w \notin Holding /\ Holding \subseteq Workers
    BY DEF PullPrompt, DrawPrompt, DrawNothing, trainerVars, Holding
  <1>2. /\ worker \in [Workers -> WorkerStates] /\ job \in [Workers -> Group \cup {None}]
        /\ cursor \in Nat /\ cursor <= EffectiveLength /\ EffectiveLength \in Nat
        /\ Uids \subseteq Nat
    BY PromptTypes
  <1>3. CASE \E u \in Undrawn :
               /\ DrawPrompt(u)
               /\ worker' = [worker EXCEPT ![w] = "waiting"]
               /\ job' = [job EXCEPT ![w] = [uid |-> u, step |-> 0, weights |-> 0]]
    <2>1. PICK u \in Undrawn :
               /\ DrawPrompt(u)
               /\ worker' = [worker EXCEPT ![w] = "waiting"]
               /\ job' = [job EXCEPT ![w] = [uid |-> u, step |-> 0, weights |-> 0]]
      BY <1>3
    <2>2. /\ u \in Uids /\ u > cursor /\ cursor' = u
          /\ \A v \in Undrawn : u <= v
      BY <2>1 DEF DrawPrompt, Undrawn
    <2>3. /\ Holding' = Holding \cup {w} /\ job'[w].uid = u
          /\ \A v \in Holding : job'[v] = job[v]
      BY <1>1, <1>2, <2>1 DEF Holding
    <2>4. Accounted \cup {u} \subseteq Accounted'
      BY <1>1, <2>3 DEF Accounted, UidsOf
    <2>5. ASSUME afterSave # "done", NEW v \in Uids, v <= u PROVE v \in Accounted'
      <3>1. v \in Nat /\ u \in Nat
        BY <1>2, <2>2, <2>5
      <3>2. CASE v <= cursor
        BY <2>4, <2>5, <3>2 DEF DrawnInv
      <3>3. CASE v = u
        BY <2>4, <3>3
      <3>4. CASE cursor < v /\ v # u
        <4>1. ~(u <= v)
          BY <2>5, <3>1, <3>4
        <4>2. v \in consumedUids
          BY <2>2, <3>4, <4>1 DEF Undrawn
        <4> QED
          BY <2>4, <4>2 DEF Accounted
      <3> QED
        BY <1>2, <3>1, <3>2, <3>3, <3>4
    <2>6. \A v \in Workers : worker'[v] # "finished"
      <3>1. cursor # EffectiveLength
        <4>1. u <= EffectiveLength /\ u \in Nat
          BY <1>2, <2>2 DEF Uids
        <4> QED
          BY <1>2, <2>2, <4>1
      <3>2. \A v \in Workers : worker[v] # "finished"
        BY <3>1 DEF DrawnInv
      <3> QED
        BY <1>2, <2>1, <3>2
    <2> QED
      BY <1>1, <2>2, <2>5, <2>6 DEF DrawnInv
  <1>4. CASE /\ DrawNothing
             /\ worker' = [worker EXCEPT ![w] = "finished"]
             /\ job' = [job EXCEPT ![w] = None]
    <2>1. cursor' = EffectiveLength /\ Undrawn = {}
      BY <1>4 DEF DrawNothing
    <2>2. Holding' = Holding /\ \A v \in Holding : job'[v] = job[v]
      BY <1>1, <1>2, <1>4 DEF Holding
    <2>3. Accounted \subseteq Accounted'
      BY <1>1, <2>2 DEF Accounted, UidsOf
    <2>4. ASSUME afterSave # "done", NEW v \in Uids PROVE v \in Accounted'
      <3>1. CASE v <= cursor
        BY <2>3, <2>4, <3>1 DEF DrawnInv
      <3>2. CASE v > cursor
        <4>1. v \in consumedUids
          BY <2>1, <3>2 DEF Undrawn
        <4> QED
          BY <2>3, <4>1 DEF Accounted
      <3>3. v \in Nat
        BY <1>2
      <3> QED
        BY <1>2, <3>1, <3>2, <3>3
    <2> QED
      BY <1>1, <2>1, <2>4 DEF DrawnInv
  <1> QED
    BY <1>3, <1>4 DEF PullPrompt

LEMMA WorkersDrawn ==
  ASSUME AdmissionInv, PromptInv, DrawnInv, NEW w \in Workers, WorkerNext(w)
  PROVE  DrawnInv'
  <1>1. /\ worker \in [Workers -> WorkerStates] /\ job \in [Workers -> Group \cup {None}]
        /\ Holding \subseteq Workers /\ \A v \in Holding : job[v] \in Group
    BY PromptTypes DEF Holding
  <1>2. CASE StartGeneration(w)
    <2>1. /\ UNCHANGED <<cursor, consumedUids, buffer, batch, afterSave>>
          /\ worker[w] = "waiting" /\ worker' = [worker EXCEPT ![w] = "generating"]
          /\ job' = [job EXCEPT ![w].step = globalStep, ![w].weights = sampler]
      BY <1>2 DEF StartGeneration, dataloaderVars, trainerVars
    <2>2. Holding' = Holding /\ w \in Holding
      BY <1>1, <2>1 DEF Holding
    <2>3. job'[w].uid = job[w].uid /\ \A v \in Workers : v # w => job'[v] = job[v]
      BY <1>1, <2>1, <2>2 DEF Group
    <2>4. \A v \in Holding : job'[v].uid = job[v].uid
      BY <1>1, <2>3
    <2>5. Accounted \subseteq Accounted'
      BY <2>1, <2>2, <2>4 DEF Accounted, UidsOf
    <2>6. \A v \in Workers : worker'[v] = "finished" => worker[v] = "finished"
      BY <1>1, <2>1
    <2> QED
      BY <2>1, <2>5, <2>6, DrawnKept
  <1>3. CASE EnqueueGroup(w) /\ Len(buffer) < BufferSize
    <2>1. /\ UNCHANGED <<cursor, consumedUids, batch, afterSave>>
          /\ worker[w] = "generating" /\ worker' = [worker EXCEPT ![w] = "pulling"]
          /\ job' = [job EXCEPT ![w] = None] /\ buffer' = Append(buffer, job[w])
      BY <1>3 DEF EnqueueGroup, dataloaderVars, trainerVars
    <2>2. /\ Holding' = Holding \ {w} /\ w \in Holding
          /\ \A v \in Holding' : job'[v] = job[v]
      BY <1>1, <2>1 DEF Holding
    <2>3. UidsOf(buffer') = UidsOf(buffer) \cup {job[w].uid}
      BY <1>1, <2>1, <2>2, PromptTypes, AppendUids
    <2>4. /\ UidsOf(buffer)' = UidsOf(buffer) \cup {job[w].uid}
          /\ UidsOf(batch)' = UidsOf(batch)
      BY <2>1, <2>3 DEF UidsOf
    <2>5. Accounted \subseteq Accounted'
      BY <2>1, <2>2, <2>4 DEF Accounted
    <2>6. \A v \in Workers : worker'[v] = "finished" => worker[v] = "finished"
      BY <1>1, <2>1
    <2> QED
      BY <2>1, <2>5, <2>6, DrawnKept
  <1>4. CASE EnqueueGroup(w) /\ ~(Len(buffer) < BufferSize)
    BY <1>4, FailingDrawn DEF EnqueueGroup
  <1> QED
    BY <1>2, <1>3, <1>4, PullPromptDrawn DEF WorkerNext

(* Groups are collected, and marked when they are trained on or dropped.   *)
LEMMA CollectingDrawn ==
  ASSUME AdmissionInv, PromptInv, DrawnInv, afterSave # "done",
         KeepGroup \/ DropGroup \/ ExhaustEpoch \/ RunTraining
  PROVE  DrawnInv'
  <1>1. buffer \in Seq(Group) /\ batch \in Seq(Group)
    BY PromptTypes
  <1>2. ASSUME UNCHANGED <<cursor, worker, job>>,
               consumedUids \cup UidsOf(buffer) \cup UidsOf(batch)
                 \subseteq consumedUids' \cup UidsOf(buffer)' \cup UidsOf(batch)'
        PROVE  DrawnInv'
    <2>1. Accounted \subseteq Accounted'
      BY <1>2 DEF Accounted, Holding
    <2> QED
      BY <1>2, <2>1, DrawnKept
  <1>3. CASE KeepGroup
    <2>1. /\ buffer # << >> /\ UNCHANGED <<cursor, worker, job, consumedUids>>
          /\ batch' = Append(batch, Head(buffer)) /\ buffer' = Tail(buffer)
      BY <1>3 DEF KeepGroup, dataloaderVars
    <2>2. /\ UidsOf(buffer) = UidsOf(buffer') \cup {Head(buffer).uid}
          /\ UidsOf(batch') = UidsOf(batch) \cup {Head(buffer).uid}
      BY <1>1, <2>1, HeadUids, AppendUids
    <2>3. UidsOf(buffer)' = UidsOf(buffer') /\ UidsOf(batch)' = UidsOf(batch')
      BY DEF UidsOf
    <2> QED
      BY <1>2, <2>1, <2>2, <2>3
  <1>4. CASE DropGroup
    <2>1. buffer # << >> /\ Markable(<<Head(buffer)>>)
      BY <1>4, HeadMarkable DEF DropGroup
    <2>2. /\ UNCHANGED <<cursor, worker, job, batch>> /\ buffer' = Tail(buffer)
          /\ consumedUids' = consumedUids \cup {Head(buffer).uid}
      BY <1>4, <2>1 DEF DropGroup, MarkFiltered, trainerVars
    <2>3. UidsOf(buffer) = UidsOf(buffer') \cup {Head(buffer).uid}
      BY <1>1, <2>1, <2>2, HeadUids
    <2>4. UidsOf(buffer)' = UidsOf(buffer') /\ UidsOf(batch)' = UidsOf(batch)
      BY <2>2 DEF UidsOf
    <2> QED
      BY <1>2, <2>2, <2>3, <2>4
  <1>5. CASE ExhaustEpoch \/ RunTraining
    <2>1. /\ UNCHANGED <<cursor, worker, job, buffer>>
          /\ consumedUids' = consumedUids \cup UidsOf(batch)
      BY <1>5, BatchMarkable DEF ExhaustEpoch, RunTraining, MarkFiltered, MarkConsumed
    <2>2. UidsOf(buffer)' = UidsOf(buffer)
      BY <2>1 DEF UidsOf
    <2> QED
      BY <1>2, <2>1, <2>2
  <1> QED
    BY <1>3, <1>4, <1>5

LEMMA NextDrawn ==
  ASSUME AdmissionInv, PromptInv, BalanceInv, DrawnInv, [Next]_vars
  PROVE  DrawnInv'
  <1> SUFFICES ASSUME ~ \E reason : Fail(reason) PROVE DrawnInv'
    BY FailingDrawn
  <1>1. ASSUME UNCHANGED <<cursor, consumedUids, buffer, batch, worker, job>>,
               afterSave' # "done" => afterSave # "done"
        PROVE  DrawnInv'
    <2>1. Accounted' = Accounted
      BY <1>1 DEF Accounted, UidsOf, Holding
    <2> QED
      BY <1>1, <2>1, DrawnKept
  <1>2. CASE StartFresh \/ Resume
    <2>1. pc = "down" /\ cursor' = 0 /\ worker' = worker
      BY <1>2, ResumeOutcome DEF StartFresh, LoadDataloaderState
    <2>2. \A w \in Workers : worker[w] = "stopped"
      BY <2>1 DEF AdmissionInv, WorkersInEpoch, OutsideEpoch
    <2> QED
      BY <2>1, <2>2, NothingDrawn
  <1>3. CASE StartEpoch
    <2>1. /\ pc = "epoch" /\ UNCHANGED <<cursor, consumedUids, buffer, batch, job>>
          /\ \A w \in Workers : worker'[w] \in {"pulling", worker[w]}
      BY <1>3 DEF StartEpoch, dataloaderVars
    <2>2. \A w \in Workers : worker[w] = "stopped"
      BY <2>1 DEF AdmissionInv, WorkersInEpoch, OutsideEpoch
    <2>3. afterSave # "done"
      BY <2>1 DEF BalanceInv, Saving
    <2>4. Holding = {}
      BY <2>2 DEF Holding
    <2>5. Accounted \subseteq Accounted'
      BY <2>1, <2>4 DEF Accounted, UidsOf
    <2> QED
      BY <2>1, <2>2, <2>3, <2>5, DrawnKept
  <1>4. CASE KeepGroup \/ DropGroup \/ ExhaustEpoch \/ RunTraining
    <2>1. pc = "collect"
      BY <1>4 DEF KeepGroup, DropGroup, ExhaustEpoch, RunTraining
    <2>2. afterSave # "done"
      BY <2>1 DEF BalanceInv, Saving
    <2> QED
      BY <1>4, <2>2, CollectingDrawn
  <1>5. CASE SyncWeights \/ AdvanceStep
    <2>1. /\ pc \in {"sync", "advance"}
          /\ UNCHANGED <<cursor, consumedUids, buffer, batch, worker, job>>
      BY <1>5 DEF SyncWeights, AdvanceStep, dataloaderVars
    <2>2. afterSave # "done"
      BY <2>1 DEF BalanceInv, Saving
    <2> QED
      BY <1>1, <2>1, <2>2
  <1>6. CASE StopAtMaxSteps
    <2>1. /\ afterSave' = "done" /\ cursor' = cursor
          /\ \A w \in Workers : worker'[w] = "stopped"
      BY <1>6 DEF StopAtMaxSteps, SaveThen, dataloaderVars
    <2> QED
      BY <2>1 DEF DrawnInv
  <1>7. CASE EndEpoch
    <2>1. cursor' = 0 /\ \A w \in Workers : worker'[w] = "stopped"
      BY <1>7 DEF EndEpoch, LoadDataloaderState
    <2> QED
      BY <2>1, NothingDrawn
  <1>8. CASE SaveWeights \/ SaveTracker \/ Cleanup \/ SaveFullyAsyncState
    BY <1>1, <1>8 DEF SaveWeights, SaveTracker, Cleanup, SaveFullyAsyncState,
                      dataloaderVars
  <1>9. CASE Crash \/ Relaunch
    <2>1. cursor' = 0 /\ \A w \in Workers : worker'[w] = "stopped"
      BY <1>9 DEF Crash, Relaunch, LoseMemory, LoadDataloaderState
    <2> QED
      BY <2>1, NothingDrawn
  <1>10. CASE Terminated \/ UNCHANGED vars
    BY <1>1, <1>10 DEF Terminated, vars, dataloaderVars, trainerVars
  <1> QED
    BY <1>2, <1>3, <1>4, <1>5, <1>6, <1>7, <1>8, <1>9, <1>10, WorkersDrawn
       DEF Next, TrainerNext

(* The manager's submitted count is the sum of its other counts, but for   *)
(* the workers that StopAtMaxSteps has cancelled.                          *)
THEOREM BalanceCorrect == Spec => []BalanceInv
  <1>1. Init => BalanceInv
    BY DEF Init, BalanceInv, SubmittedBalanced
  <1>2. AdmissionInv /\ BalanceInv /\ [Next]_vars => BalanceInv'
    BY NextBalanced
  <1> QED
    BY <1>1, <1>2, AdmissionCorrect, PTL DEF Spec

(* get_next_non_consumed_data loses no prompt, and tells a worker that the *)
(* epoch is over only once every prompt was handed out or consumed.        *)
THEOREM DrawnCorrect == Spec => []DrawnInv
  <1>1. Init => DrawnInv
    <2> SUFFICES ASSUME Init PROVE DrawnInv
      OBVIOUS
    <2>1. cursor = 0 /\ \A w \in Workers : worker[w] = "stopped"
      BY DEF Init
    <2>2. \A u \in Uids : ~(u <= 0)
      BY UidsFinite DEF Uids
    <2> QED
      BY <2>1, <2>2 DEF DrawnInv
  <1>2. AdmissionInv /\ PromptInv /\ BalanceInv /\ DrawnInv /\ [Next]_vars => DrawnInv'
    BY NextDrawn
  <1> QED
    BY <1>1, <1>2, AdmissionCorrect, PromptsCorrect, BalanceCorrect, PTL DEF Spec

----------------------------------------------------------------------------
(* The pace of the loop.                                                   *)

(* max_training_steps is set for the last launch at most.                  *)
LimitAtLastOnly ==
  \A launch \in 0..MaxRestarts :
    launch < MaxRestarts => MaxTrainingSteps[launch] = 0

(* A launch is still to come that may load a folder.                       *)
MayResume == restarts < MaxRestarts \/ pc = "down"

(* An epoch that comes to its epilogue has used up its prompts.            *)
UsedUpInv ==
  pc = "epilogue" \/ (pc \in Saving /\ afterSave = "epilogue") => consumedUids = Uids

(* Training is stopped by max_training_steps in the last launch only.      *)
LimitInv == afterSave = "done" /\ epoch < Epochs => restarts = MaxRestarts

(* The steps that are done with, the one being saved included.             *)
Reached ==
  IF pc \in {"sync", "advance"} \cup Saving THEN globalStep ELSE globalStep - 1

(* The prompts that such books account for: whole epochs, and what is      *)
(* trained on in theirs, all of it once nothing is left.                   *)
Due(b) ==
  EffectiveLength * b.epoch
    + (IF b.consumed = Uids THEN EffectiveLength
       ELSE Cardinality(b.consumed) - Cardinality(b.filtered))

(* Books that account for the prompts of n steps.                          *)
OnPace(n, b) == MiniBatchSize * n <= Due(b)

(* global_step never runs ahead of the prompts used up, in memory and in   *)
(* every folder that a launch still to come may load and train on from: a  *)
(* loop that comes to the end of its range has used up the epoch.          *)
LoopPace == Alive /\ epoch < Epochs /\ afterSave # "done" => OnPace(Reached, Books)

(* A batch is collected within the range of the epoch's loop only.         *)
CollectPace == pc = "collect" => globalStep <= (1 + epoch) * NumStepsPerEpoch

(* The same of what may be loaded.                                         *)
SavedPace ==
  MayResume =>
    \A s \in Complete :
      folders[s].state.epoch < Epochs => OnPace(s, folders[s].state)

PaceInv == LoopPace /\ CollectPace /\ SavedPace

(* The types of what counts steps, before and after one.                   *)
LEMMA AheadTypes ==
  ASSUME AdmissionInv, [Next]_vars
  PROVE  /\ Ahead = 0 \/ Ahead = 1
         /\ Ahead' = 0 \/ Ahead' = 1
         /\ globalStep \in Nat /\ globalStep' \in Nat
         /\ model.steps \in Nat /\ model'.steps \in Nat
         /\ epoch \in Nat /\ epoch' \in Nat
         /\ latest \in Nat
  <1>1. AdmissionInv'
    BY NextAdmission
  <1>2. model' \in Model /\ globalStep' \in Nat /\ epoch' \in Nat
    BY <1>1 DEF AdmissionInv, TypeOK, LoopTypeOK, WeightTypeOK
  <1> QED
    BY <1>2, BookTypes DEF Ahead, Model

(* Only StopAtMaxSteps ends training within an epoch.                      *)
LEMMA NextLimit ==
  ASSUME LimitAtLastOnly, AdmissionInv, BalanceInv, LimitInv, [Next]_vars
  PROVE  LimitInv'
  <1>1. /\ epoch \in Nat /\ Epochs \in Nat
        /\ restarts \in Nat /\ restarts \in 0..MaxRestarts
    BY AheadTypes, Relaunches DEF AdmissionInv, TypeOK, LoopTypeOK
  <1>2. ASSUME UNCHANGED <<afterSave, epoch, restarts>> PROVE LimitInv'
    BY <1>2 DEF LimitInv
  <1>3. ASSUME afterSave' # "done" PROVE LimitInv'
    BY <1>3 DEF LimitInv
  <1> SUFFICES ASSUME ~ \E reason : Fail(reason) PROVE LimitInv'
    BY <1>3 DEF Fail, LoseMemory
  <1>4. CASE \E w \in Workers : WorkerNext(w)
    BY <1>2, <1>4 DEF WorkerNext, PullPrompt, StartGeneration, EnqueueGroup,
                      trainerVars, processVars
  <1>5. CASE StartFresh \/ Resume \/ EndEpoch
    <2>1. pc \in {"down", "epilogue"} /\ afterSave' = afterSave
      BY <1>5, ResumeOutcome DEF StartFresh, EndEpoch
    <2> QED
      BY <1>3, <2>1 DEF BalanceInv, Saving
  <1>6. CASE StartEpoch
    <2>1. CASE epoch < Epochs
      BY <1>2, <1>6, <2>1 DEF StartEpoch, processVars
    <2>2. CASE ~(epoch < Epochs)
      BY <1>1, <1>6, <2>2 DEF StartEpoch, LimitInv
    <2> QED
      BY <2>1, <2>2
  <1>7. CASE KeepGroup \/ DropGroup \/ RunTraining \/ AdvanceStep
    BY <1>2, <1>7 DEF KeepGroup, DropGroup, RunTraining, AdvanceStep, trainerVars,
                      processVars
  <1>8. CASE ExhaustEpoch \/ SyncWeights
    BY <1>3, <1>8 DEF ExhaustEpoch, SyncWeights, SaveThen
  <1>9. CASE StopAtMaxSteps
    <2>1. MaxTrainingSteps[restarts] # 0 /\ restarts' = restarts
      BY <1>9 DEF StopAtMaxSteps, ReachedMaxSteps, processVars
    <2>2. ~(restarts < MaxRestarts)
      BY <1>1, <2>1 DEF LimitAtLastOnly
    <2>3. restarts' = MaxRestarts
      BY <1>1, <2>1, <2>2
    <2> QED
      BY <2>3 DEF LimitInv
  <1>10. CASE SaveWeights \/ SaveTracker \/ Cleanup \/ SaveFullyAsyncState
    BY <1>2, <1>10 DEF SaveWeights, SaveTracker, Cleanup, SaveFullyAsyncState,
                       processVars
  <1>11. CASE Crash \/ Relaunch
    BY <1>3, <1>11 DEF Crash, Relaunch, LoseMemory
  <1>12. CASE Terminated \/ UNCHANGED vars
    BY <1>2, <1>12 DEF Terminated, vars, trainerVars, processVars
  <1> QED
    BY <1>4, <1>5, <1>6, <1>7, <1>8, <1>9, <1>10, <1>11, <1>12 DEF Next, TrainerNext

(* What the books of an epoch account for lies between its ends.           *)
LEMMA DueBounds ==
  ASSUME NEW b \in FullyAsyncState
  PROVE  /\ b.epoch \in Nat /\ EffectiveLength \in Nat /\ NumStepsPerEpoch \in Nat
         /\ Due(b) \in Nat
         /\ EffectiveLength * b.epoch <= Due(b)
         /\ Due(b) <= EffectiveLength * (b.epoch + 1)
         /\ Due(b) = EffectiveLength * (b.epoch + 1) => b.consumed = Uids
         /\ MiniBatchSize * ((1 + b.epoch) * NumStepsPerEpoch)
              = EffectiveLength * (b.epoch + 1)
         /\ Cardinality(b.consumed) - Cardinality(b.filtered) \in 0..EffectiveLength
  <1> DEFINE e == b.epoch
             N == EffectiveLength
             c == Cardinality(b.consumed)
             d == Cardinality(b.filtered)
  <1>1. e \in Nat /\ N \in Nat /\ b.consumed \subseteq Uids /\ b.filtered \subseteq b.consumed
    BY UidsFinite DEF FullyAsyncState
  <1>2. NumStepsPerEpoch \in Nat
    BY SMTT(30) DEF NumStepsPerEpoch
  <1>3. IsFiniteSet(Uids) /\ Cardinality(Uids) = N
    <2>1. 1 \in Int /\ N \in Int
      BY <1>1
    <2> HIDE DEF N
    <2>2. /\ IsFiniteSet(1..N)
          /\ Cardinality(1..N) = IF 1 > N THEN 0 ELSE N - 1 + 1
      BY <2>1, FS_Interval
    <2> QED
      BY <1>1, <2>2 DEF Uids, N
  <1>4. /\ c \in Nat /\ d \in Nat /\ d <= c /\ c <= N
        /\ c = N => b.consumed = Uids
    <2>1. /\ IsFiniteSet(b.consumed) /\ Cardinality(b.consumed) <= Cardinality(Uids)
          /\ Cardinality(b.consumed) = Cardinality(Uids) => b.consumed = Uids
      BY <1>1, <1>3, FS_Subset
    <2>2. IsFiniteSet(b.filtered) /\ Cardinality(b.filtered) <= Cardinality(b.consumed)
      BY <1>1, <2>1, FS_Subset
    <2> QED
      BY <1>3, <2>1, <2>2, FS_CardinalityType
  <1>5. MiniBatchSize * ((1 + e) * NumStepsPerEpoch) = N * (e + 1)
    <2>1. N = NumStepsPerEpoch * MiniBatchSize
      BY DEF EffectiveLength
    <2> HIDE DEF e, N
    <2> QED
      BY <1>1, <1>2, <2>1
  <1>6. N * e \in Nat /\ N * (e + 1) = N * e + N
    <2> HIDE DEF e, N
    <2> QED
      BY <1>1
  <1>7. Due(b) = N * e + (IF b.consumed = Uids THEN N ELSE c - d)
    BY DEF Due
  <1>8. /\ Due(b) \in Nat /\ N * e <= Due(b) /\ Due(b) <= N * (e + 1)
        /\ Due(b) = N * (e + 1) => b.consumed = Uids
        /\ c - d \in 0..N
    <2> DEFINE k == N * e
    <2>1. k \in Nat /\ N * (e + 1) = k + N /\ Due(b) = k + (IF b.consumed = Uids THEN N ELSE c - d)
      BY <1>6, <1>7
    <2> HIDE DEF k, N, e, c, d
    <2>2. CASE b.consumed = Uids
      <3>1. Due(b) = k + N
        BY <2>1, <2>2
      <3> QED
        BY <1>1, <1>4, <2>1, <2>2, <3>1 DEF k
    <2>3. CASE b.consumed # Uids
      <3>1. Due(b) = k + (c - d) /\ c # N
        BY <1>4, <2>1, <2>3
      <3>2. Due(b) \in Nat /\ k <= Due(b) /\ Due(b) < k + N /\ c - d \in 0..N
        BY <1>1, <1>4, <2>1, <3>1
      <3> QED
        BY <1>1, <2>1, <3>2 DEF k
    <2> QED
      BY <2>2, <2>3
  <1> QED
    BY <1>1, <1>2, <1>5, <1>8

(* More steps take more prompts.                                           *)
LEMMA MoreSteps ==
  ASSUME NEW n \in Int, NEW m \in Int, m <= n
  PROVE  MiniBatchSize * m <= MiniBatchSize * n
  OBVIOUS

(* A step that is not further along, with books that account for as much.  *)
LEMMA StaysOnPace ==
  ASSUME NEW b \in FullyAsyncState, NEW c \in FullyAsyncState,
         NEW n \in Int, NEW m \in Int, m <= n, Due(b) <= Due(c), OnPace(n, b)
  PROVE  OnPace(m, c)
  <1>1. Due(b) \in Nat /\ Due(c) \in Nat /\ MiniBatchSize \in Nat
    BY DueBounds
  <1>2. MiniBatchSize * m <= MiniBatchSize * n
    BY <1>1
  <1>3. MiniBatchSize * n <= Due(b)
    BY DEF OnPace
  <1>4. MiniBatchSize * m \in Int /\ MiniBatchSize * n \in Int
    BY <1>1
  <1> HIDE DEF OnPace
  <1>5. MiniBatchSize * m <= Due(c)
    BY <1>1, <1>2, <1>3, <1>4
  <1> QED
    BY <1>5 DEF OnPace

(* Behind the last step of an epoch on pace, nothing of it is left.        *)
LEMMA EndOfRange ==
  ASSUME NEW b \in FullyAsyncState, NEW n \in Nat,
         ~(n <= (1 + b.epoch) * NumStepsPerEpoch), OnPace(n - 1, b)
  PROVE  b.consumed = Uids
  <1> DEFINE k == (1 + b.epoch) * NumStepsPerEpoch
             l == EffectiveLength * (b.epoch + 1)
  <1>1. k \in Nat /\ l \in Nat /\ Due(b) \in Nat /\ MiniBatchSize \in Nat
    BY DueBounds
  <1>2. MiniBatchSize * k = l /\ Due(b) <= l /\ (Due(b) = l => b.consumed = Uids)
    BY DueBounds
  <1>3. MiniBatchSize * (n - 1) <= Due(b)
    BY DEF OnPace
  <1>4. ~(n <= k)
    OBVIOUS
  <1> HIDE DEF k, l
  <1>5. MiniBatchSize * k <= MiniBatchSize * (n - 1)
    <2>1. k <= n - 1
      BY <1>1, <1>4
    <2> QED
      BY <1>1, <2>1
  <1>6. MiniBatchSize * (n - 1) \in Int
    BY <1>1
  <1>7. Due(b) = l
    BY <1>1, <1>2, <1>3, <1>5, <1>6
  <1> QED
    BY <1>2, <1>7

(* The books after a step are such books.                                  *)
LEMMA NextBooks == AdmissionInv' => Books' \in FullyAsyncState
  BY DEF AdmissionInv, TypeOK, DataloaderTypeOK, LoopTypeOK, Books, FullyAsyncState

(* A trained batch takes the books a step further.                         *)
LEMMA TrainingPace ==
  ASSUME AdmissionInv, PromptInv, RunTraining
  PROVE  /\ Books \in FullyAsyncState /\ Books' \in FullyAsyncState
         /\ Due(Books) + MiniBatchSize <= Due(Books')
  <1>1. /\ pc = "collect" /\ pc' = "sync" /\ Len(batch) = MiniBatchSize
        /\ consumedUids' = consumedUids \cup UidsOf(batch)
        /\ UNCHANGED <<filteredUids, epoch, trainedSteps>>
    BY BatchMarkable DEF RunTraining, MarkConsumed
  <1>2. Books \in FullyAsyncState /\ Books' \in FullyAsyncState
    <2>1. AdmissionInv'
      BY RunTrainingAdmission
    <2> QED
      BY <2>1, NextBooks, BookTypes
  <1>3. NumTrained' = NumTrained + MiniBatchSize /\ NumTrained \in Int
    <2>1. PromptInv'
      BY RunTrainingPrompts
    <2>2. NumTrained = MiniBatchSize * trainedSteps
      BY <1>1 DEF PromptInv, CountInv
    <2>3. NumTrained' = MiniBatchSize * (trainedSteps + 1)
      BY <1>1, <2>1 DEF PromptInv, CountInv
    <2>4. trainedSteps \in Nat
      BY DEF AdmissionInv, TypeOK, LoopTypeOK
    <2> QED
      BY <2>2, <2>3, <2>4, OneMore
  <1>4. consumedUids # Uids
    <2>1. Cardinality(UidsOf(batch)) = MiniBatchSize
      BY <1>1, PromptTypes, CountUids DEF PromptInv, DeliveredInv
    <2>2. UidsOf(batch) # {}
      BY <2>1, FS_EmptySet
    <2>3. UidsOf(batch) \subseteq Uids /\ UidsOf(batch) \cap consumedUids = {}
      BY PromptTypes, UidsOfGroups DEF PromptInv, DeliveredInv
    <2> QED
      BY <2>2, <2>3
  <1> DEFINE k == EffectiveLength * epoch
  <1>5. Due(Books) = k + NumTrained
    BY <1>4 DEF Due, Books, NumTrained
  <1>6. Due(Books') = k + (IF consumedUids' = Uids THEN EffectiveLength ELSE NumTrained')
    BY <1>1 DEF Due, Books, NumTrained
  <1>7. NumTrained' \in 0..EffectiveLength /\ EffectiveLength \in Nat
    BY <1>2, DueBounds DEF Books, NumTrained
  <1>8. k \in Int
    BY <1>7, BookTypes
  <1> HIDE DEF k
  <1> QED
    BY <1>2, <1>3, <1>5, <1>6, <1>7, <1>8

(* A filtered group leaves as much accounted for, or the whole epoch.      *)
LEMMA DroppingPace ==
  ASSUME AdmissionInv, PromptInv, DropGroup
  PROVE  Due(Books) <= Due(Books')
  <1> DEFINE u == Head(buffer).uid
  <1>1. /\ u \in Uids /\ u \notin consumedUids
        /\ consumedUids' = consumedUids \cup {u} /\ filteredUids' = filteredUids \cup {u}
        /\ epoch' = epoch
    BY HeadMarkable DEF DropGroup, MarkFiltered, trainerVars
  <1>2. Books \in FullyAsyncState /\ Books' \in FullyAsyncState
    BY DropGroupAdmission, NextBooks, BookTypes
  <1> HIDE DEF u
  <1>3. /\ IsFiniteSet(consumedUids) /\ IsFiniteSet(filteredUids)
        /\ u \notin filteredUids
    BY <1>1, UidsFinite, PromptTypes, FS_Subset
  <1>4. /\ Cardinality(consumedUids') = Cardinality(consumedUids) + 1
        /\ Cardinality(filteredUids') = Cardinality(filteredUids) + 1
        /\ Cardinality(consumedUids) \in Nat /\ Cardinality(filteredUids) \in Nat
    BY <1>1, <1>3, FS_AddElement, FS_CardinalityType
  <1>5. consumedUids # Uids /\ EffectiveLength \in Nat
    BY <1>1, UidsFinite
  <1> DEFINE k == EffectiveLength * epoch
             t == Cardinality(consumedUids) - Cardinality(filteredUids)
  <1>6. Due(Books) = k + t
    BY <1>5 DEF Due, Books
  <1>7. /\ Due(Books') = k + (IF consumedUids' = Uids THEN EffectiveLength
                              ELSE Cardinality(consumedUids') - Cardinality(filteredUids'))
        /\ t \in 0..EffectiveLength
    BY <1>1, <1>2, DueBounds DEF Due, Books
  <1>8. Cardinality(consumedUids') - Cardinality(filteredUids') = t
    BY <1>4
  <1>9. k \in Int
    BY <1>5, BookTypes
  <1> HIDE DEF k, t
  <1> QED
    BY <1>5, <1>6, <1>7, <1>8, <1>9

(* When all workers found the iterator at its end and the buffer is empty, *)
(* what is not consumed is in the partial batch.                           *)
LEMMA ExhaustedUsesUp ==
  ASSUME AdmissionInv, PromptInv, BalanceInv, DrawnInv, ExhaustEpoch
  PROVE  consumedUids' = Uids
  <1>1. /\ pc = "collect" /\ buffer = << >> /\ \A w \in Workers : worker[w] = "finished"
        /\ consumedUids' = consumedUids \cup UidsOf(batch)
    BY BatchMarkable DEF ExhaustEpoch, MarkFiltered
  <1>2. cursor = EffectiveLength
    <2>1. Workers # {}
      BY ConfigAssumption, FS_EmptySet DEF ConfigAssumption
    <2> QED
      BY <1>1, <2>1 DEF DrawnInv
  <1>3. Holding = {} /\ UidsOf(buffer) = {}
    <2>1. DOMAIN buffer = {}
      BY <1>1
    <2> QED
      BY <1>1, <2>1 DEF Holding, UidsOf
  <1>4. afterSave # "done"
    BY <1>1 DEF BalanceInv, Saving
  <1>5. ASSUME NEW u \in Uids PROVE u \in consumedUids \cup UidsOf(batch)
    <2>1. u <= cursor
      BY <1>2, UidsFinite DEF Uids
    <2>2. u \in Accounted
      BY <1>4, <2>1 DEF DrawnInv
    <2> QED
      BY <1>3, <2>2 DEF Accounted
  <1>6. consumedUids \subseteq Uids /\ UidsOf(batch) \subseteq Uids
    BY PromptTypes, UidsOfGroups
  <1> QED
    BY <1>1, <1>5, <1>6

(* Weights, books and steps in memory.                                     *)
LEMMA NextLoopPace ==
  ASSUME AdmissionInv, PromptInv, EpochInv, BalanceInv, DrawnInv, LimitInv, PaceInv,
         [Next]_vars
  PROVE  LoopPace'
  <1>1. /\ Books \in FullyAsyncState /\ Books' \in FullyAsyncState
        /\ globalStep \in Nat /\ globalStep' \in Nat /\ latest \in Nat
        /\ epoch \in Nat /\ epoch' \in Nat /\ Epochs \in Nat
        /\ Reached \in Int /\ Reached' \in Int
    BY NextAdmission, NextBooks, BookTypes, AheadTypes DEF Reached
  <1>0. globalStep \in Nat /\ Reached \in Int /\ Reached' \in Int
    BY <1>1
  <1>2. ASSUME ~Alive' \/ afterSave' = "done" PROVE LoopPace'
    BY <1>2 DEF LoopPace
  <1>3. ASSUME Reached' <= Reached, Due(Books) <= Due(Books'), Alive,
               afterSave # "done", epoch' < Epochs => epoch < Epochs
        PROVE  LoopPace'
    <2> SUFFICES ASSUME epoch' < Epochs PROVE OnPace(Reached', Books')
      BY DEF LoopPace, OnPace, Due
    <2>1. OnPace(Reached, Books)
      BY <1>3 DEF PaceInv, LoopPace
    <2> QED
      BY <1>1, <1>3, <2>1, StaysOnPace
  <1>4. ASSUME UNCHANGED <<consumedUids, filteredUids, epoch>>
        PROVE  Books' = Books /\ Due(Books) <= Due(Books')
    <2>1. Books' = Books
      BY <1>4 DEF Books
    <2> QED
      BY <1>1, <2>1, DueBounds
  <1>5. ASSUME UNCHANGED <<pc, afterSave, globalStep, epoch, consumedUids, filteredUids>>
        PROVE  LoopPace'
    BY <1>5 DEF PaceInv, LoopPace, OnPace, Due, Books, Reached, Alive, Saving
  <1> SUFFICES ASSUME ~ \E reason : Fail(reason) PROVE LoopPace'
    BY <1>2 DEF Fail, Alive
  <1>6. CASE \E w \in Workers : WorkerNext(w)
    BY <1>5, <1>6 DEF WorkerNext, PullPrompt, StartGeneration, EnqueueGroup,
                      DrawPrompt, DrawNothing, trainerVars, dataloaderVars
  <1>7. CASE StartFresh
    <2>1. Reached' = 0
      BY <1>7 DEF StartFresh, Reached, Saving
    <2>2. OnPace(Reached', Books')
      <3>1. MiniBatchSize * 0 = 0 /\ Due(Books') \in Nat
        BY <1>1, DueBounds
      <3> QED
        BY <2>1, <3>1 DEF OnPace
    <2> QED
      BY <2>2 DEF LoopPace, OnPace, Due
  <1>8. CASE Resume
    <2>1. /\ pc = "down" /\ latest \in Complete /\ pc' = "epoch"
          /\ globalStep' = latest + 1 /\ epoch' = folders[latest].state.epoch
          /\ consumedUids' = folders[latest].state.consumed
          /\ filteredUids' = folders[latest].state.filtered
      BY <1>8, ResumeOutcome
    <2>2. Reached' = latest
      BY <1>1, <2>1 DEF Reached, Saving
    <2>3. Books' = folders[latest].state
      <3>1. folders[latest].state \in FullyAsyncState
        BY <2>1, BookTypes
      <3> QED
        BY <2>1, <3>1 DEF Books, FullyAsyncState
    <2>4. epoch' < Epochs => OnPace(latest, folders[latest].state)
      BY <2>1 DEF PaceInv, SavedPace, MayResume
    <2> QED
      BY <2>2, <2>3, <2>4 DEF LoopPace, OnPace, Due
  <1>9. CASE StartEpoch
    <2>1. pc = "epoch" /\ UNCHANGED <<globalStep, consumedUids, filteredUids>>
      BY <1>9 DEF StartEpoch, dataloaderVars
    <2>2. CASE epoch < Epochs
      <3>1. epoch' = epoch /\ pc' \in {"collect", "epilogue"}
        BY <1>9, <2>2 DEF StartEpoch, NextIteration
      <3>2. Reached = globalStep - 1 /\ Reached' = globalStep - 1
        BY <2>1, <3>1 DEF Reached, Saving
      <3>3. Alive /\ afterSave # "done"
        BY <2>1 DEF Alive, BalanceInv, Saving
      <3>4. Reached' <= Reached
        BY <1>0, <3>2
      <3> QED
        BY <1>3, <1>4, <2>1, <2>2, <3>1, <3>3, <3>4
    <2>3. CASE ~(epoch < Epochs)
      BY <1>2, <1>9, <2>3 DEF StartEpoch, SaveThen
    <2> QED
      BY <2>2, <2>3
  <1>10. CASE KeepGroup
    BY <1>5, <1>10 DEF KeepGroup, dataloaderVars
  <1>11. CASE DropGroup
    <2>1. pc = "collect" /\ UNCHANGED <<pc, afterSave, globalStep, epoch>>
      BY <1>11, HeadMarkable DEF DropGroup, trainerVars
    <2>2. Reached' <= Reached /\ Alive /\ afterSave # "done"
      BY <1>1, <2>1 DEF Reached, Alive, BalanceInv, Saving
    <2> QED
      BY <1>3, <1>11, <2>1, <2>2, DroppingPace
  <1>12. CASE ExhaustEpoch
    <2>1. /\ pc = "collect" /\ consumedUids' = Uids
          /\ UNCHANGED <<globalStep, epoch>>
      BY <1>12, BatchMarkable, ExhaustedUsesUp DEF ExhaustEpoch
    <2>2. Due(Books') = EffectiveLength * (epoch + 1)
      <3>1. Due(Books') = EffectiveLength * epoch + EffectiveLength
        BY <2>1 DEF Due, Books
      <3> QED
        BY <1>1, <3>1, UidsFinite, OneMore
    <2>3. Reached' <= globalStep
      BY <1>1, <2>1 DEF Reached
    <2>4. globalStep <= (1 + epoch) * NumStepsPerEpoch
      BY <2>1 DEF PaceInv, CollectPace
    <2>5. OnPace(Reached', Books')
      <3> DEFINE k == (1 + epoch) * NumStepsPerEpoch
      <3>1. k \in Nat /\ MiniBatchSize * k = EffectiveLength * (epoch + 1)
        <4>1. Books.epoch = epoch
          BY DEF Books
        <4> QED
          BY <1>1, <4>1, DueBounds
      <3> HIDE DEF k
      <3>2. Reached' <= k
        BY <1>1, <2>3, <2>4, <3>1 DEF k
      <3>3. MiniBatchSize * Reached' <= MiniBatchSize * k
        <4> DEFINE n == Reached'
        <4>1. n \in Int /\ k \in Int /\ n <= k
          BY <1>0, <3>1, <3>2
        <4> HIDE DEF n
        <4>2. MiniBatchSize * n <= MiniBatchSize * k
          BY <4>1, MoreSteps
        <4> QED
          BY <4>2 DEF n
      <3> QED
        BY <2>2, <3>1, <3>3 DEF OnPace
    <2> QED
      BY <2>5 DEF LoopPace, OnPace, Due
  <1>13. CASE RunTraining
    <2>1. /\ pc = "collect" /\ pc' = "sync" /\ UNCHANGED <<globalStep, epoch, afterSave>>
      BY <1>13, BatchMarkable DEF RunTraining
    <2>2. Reached = globalStep - 1 /\ Reached' = globalStep
      BY <2>1 DEF Reached, Saving
    <2>3. Alive /\ afterSave # "done"
      BY <2>1 DEF Alive, BalanceInv, Saving
    <2>4. ASSUME epoch' < Epochs PROVE OnPace(Reached', Books')
      <3>1. MiniBatchSize * (globalStep - 1) <= Due(Books)
        BY <2>1, <2>2, <2>3, <2>4 DEF PaceInv, LoopPace, OnPace
      <3>2. Due(Books) + MiniBatchSize <= Due(Books')
        BY <1>13, TrainingPace
      <3>3. MiniBatchSize * (globalStep - 1) = MiniBatchSize * globalStep - MiniBatchSize
        BY <1>1
      <3>4. /\ MiniBatchSize * globalStep \in Int /\ MiniBatchSize \in Int
            /\ Due(Books) \in Nat /\ Due(Books') \in Nat
        BY <1>1, DueBounds
      <3>5. MiniBatchSize * globalStep <= Due(Books')
        BY <3>1, <3>2, <3>3, <3>4
      <3> QED
        BY <2>2, <3>5 DEF OnPace
    <2> QED
      BY <2>4 DEF LoopPace, OnPace, Due
  <1>14. CASE SyncWeights
    <2>1. /\ pc = "sync" /\ pc' \in {"save weights", "advance"}
          /\ UNCHANGED <<globalStep, epoch, consumedUids, filteredUids>>
      BY <1>14 DEF SyncWeights, dataloaderVars
    <2>2. Reached = globalStep /\ Reached' = globalStep
      BY <2>1 DEF Reached, Saving
    <2>3. Alive /\ afterSave # "done"
      BY <2>1 DEF Alive, BalanceInv, Saving
    <2>4. Reached' <= Reached
      BY <1>0, <2>2
    <2> QED
      BY <1>3, <1>4, <2>1, <2>3, <2>4
  <1>15. CASE AdvanceStep
    <2>1. /\ pc = "advance" /\ pc' \in {"collect", "epilogue"}
          /\ globalStep' = globalStep + 1
          /\ UNCHANGED <<epoch, consumedUids, filteredUids>>
      BY <1>15 DEF AdvanceStep, NextIteration, dataloaderVars
    <2>2. Reached' <= Reached /\ Alive /\ afterSave # "done"
      <3>1. Reached = globalStep /\ Reached' = (globalStep + 1) - 1
        BY <2>1 DEF Reached, Saving
      <3> QED
        BY <1>1, <2>1, <3>1 DEF Alive, BalanceInv, Saving
    <2> QED
      BY <1>3, <1>4, <2>1, <2>2
  <1>16. CASE StopAtMaxSteps
    BY <1>2, <1>16 DEF StopAtMaxSteps, SaveThen
  <1>17. CASE EndEpoch
    <2>1. /\ pc = "epilogue" /\ pc' = "epoch" /\ epoch' = epoch + 1
          /\ consumedUids' = {} /\ filteredUids' = {} /\ globalStep' = globalStep
      BY <1>17 DEF EndEpoch, LoadDataloaderState
    <2>2. Reached' <= Reached /\ Alive /\ afterSave # "done"
      BY <1>1, <2>1 DEF Reached, Alive, BalanceInv, Saving
    <2>3. Due(Books) <= Due(Books')
      <3>1. Books.epoch = epoch /\ Books'.epoch = epoch + 1
        BY <2>1 DEF Books
      <3>2. Due(Books) <= EffectiveLength * (epoch + 1)
        BY <1>1, <3>1, DueBounds
      <3>3. EffectiveLength * (epoch + 1) <= Due(Books')
        BY <1>1, <3>1, DueBounds
      <3>4. Due(Books) \in Nat /\ Due(Books') \in Nat /\ EffectiveLength * (epoch + 1) \in Nat
        BY <1>1, DueBounds
      <3> QED
        BY <3>2, <3>3, <3>4
    <2>4. epoch' < Epochs => epoch < Epochs
      BY <1>1, <2>1
    <2> QED
      BY <1>3, <2>2, <2>3, <2>4
  <1>18. CASE SaveWeights \/ SaveTracker \/ Cleanup \/ SaveFullyAsyncState
    <2>1. /\ pc \in Saving /\ pc' \in Saving \cup {afterSave}
          /\ UNCHANGED <<afterSave, globalStep, epoch, consumedUids, filteredUids>>
      BY <1>18 DEF SaveWeights, SaveTracker, Cleanup, SaveFullyAsyncState, Saving,
                   dataloaderVars
    <2>2. CASE afterSave = "done"
      BY <1>2, <2>1, <2>2
    <2>3. CASE afterSave # "done"
      <3>1. Reached = globalStep /\ Reached' \in {globalStep, globalStep - 1}
        BY <2>1 DEF Reached, Saving
      <3>2. Alive
        BY <2>1 DEF Alive, Saving
      <3>3. Reached' <= Reached
        BY <1>0, <3>1
      <3> QED
        BY <1>3, <1>4, <2>1, <2>3, <3>2, <3>3
    <2> QED
      BY <2>2, <2>3
  <1>19. CASE Crash \/ Relaunch
    BY <1>2, <1>19 DEF Crash, Relaunch, Alive
  <1>20. CASE Terminated \/ UNCHANGED vars
    BY <1>5, <1>20 DEF Terminated, vars, trainerVars, dataloaderVars
  <1> QED
    BY <1>6, <1>7, <1>8, <1>9, <1>10, <1>11, <1>12, <1>13, <1>14, <1>15, <1>16, <1>17,
       <1>18, <1>19, <1>20 DEF Next, TrainerNext

(* What is saved has the pace of the loop.                                 *)
LEMMA NextPace ==
  ASSUME AdmissionInv, PromptInv, EpochInv, BalanceInv, DrawnInv, LimitInv, PaceInv,
         [Next]_vars
  PROVE  PaceInv'
  <1>1. LoopPace'
    BY NextLoopPace
  <1>2. CollectPace'
    <2>1. ASSUME pc' # "collect" PROVE CollectPace'
      BY <2>1 DEF CollectPace
    <2>2. ASSUME UNCHANGED <<pc, globalStep, epoch>> PROVE CollectPace'
      BY <2>2 DEF PaceInv, CollectPace
    <2> SUFFICES ASSUME ~ \E reason : Fail(reason) PROVE CollectPace'
      BY <2>1 DEF Fail
    <2>3. CASE \E w \in Workers : WorkerNext(w)
      BY <2>2, <2>3 DEF WorkerNext, PullPrompt, StartGeneration, EnqueueGroup,
                        trainerVars
    <2>4. CASE KeepGroup \/ DropGroup
      BY <2>2, <2>4 DEF KeepGroup, DropGroup, trainerVars
    <2>5. CASE StartEpoch
      BY <2>1, <2>5 DEF StartEpoch, NextIteration, SaveThen, CollectPace
    <2>6. CASE AdvanceStep
      BY <2>6 DEF AdvanceStep, NextIteration, CollectPace
    <2>7. CASE StartFresh \/ Resume \/ ExhaustEpoch \/ RunTraining \/ SyncWeights
      BY <2>1, <2>7, ResumeOutcome DEF StartFresh, ExhaustEpoch, RunTraining,
         SyncWeights, SaveThen
    <2>8. CASE StopAtMaxSteps \/ EndEpoch \/ Crash \/ Relaunch
      BY <2>1, <2>8 DEF StopAtMaxSteps, EndEpoch, Crash, Relaunch, SaveThen
    <2>9. CASE SaveWeights \/ SaveTracker \/ Cleanup \/ SaveFullyAsyncState
      <3>1. pc \in Saving /\ pc' \in Saving \cup {afterSave}
        BY <2>9 DEF SaveWeights, SaveTracker, Cleanup, SaveFullyAsyncState, Saving
      <3>2. afterSave \in {"advance", "epilogue", "done"}
        BY <3>1 DEF AdmissionInv, TypeOK, LoopTypeOK, SaveReturns
      <3> QED
        BY <2>1, <3>1, <3>2 DEF Saving
    <2>10. CASE Terminated \/ UNCHANGED vars
      BY <2>2, <2>10 DEF Terminated, vars, trainerVars
    <2> QED
      BY <2>3, <2>4, <2>5, <2>6, <2>7, <2>8, <2>9, <2>10 DEF Next, TrainerNext
  <1>3. SavedPace'
    <2> SUFFICES ASSUME MayResume', NEW s \in Complete', folders'[s].state.epoch < Epochs
                 PROVE  OnPace(s, folders'[s].state)
      BY DEF SavedPace, OnPace, Due
    <2>1. MayResume
      <3>1. restarts \in Nat /\ restarts' \in Nat /\ restarts <= restarts'
            /\ MaxRestarts \in Nat
        BY Relaunches
      <3>2. CASE restarts' < MaxRestarts
        BY <3>1, <3>2 DEF MayResume
      <3>3. CASE pc' = "down"
        BY <3>3, Relaunches DEF MayResume
      <3> QED
        BY <3>2, <3>3 DEF MayResume
    <2>2. CASE s \in Complete /\ folders'[s].state = folders[s].state
      BY <2>1, <2>2 DEF PaceInv, SavedPace
    <2>3. CASE /\ pc = "save state" /\ s = globalStep
               /\ folders'[s] = [model |-> folders[s].model, state |-> Books]
      <3>1. folders'[s].state = Books
        <4>1. folders'[s] = [model |-> folders[s].model, state |-> Books]
          BY <2>3
        <4> QED
          BY <4>1
      <3>2. epoch < Epochs
        BY <3>1 DEF Books
      <3>3. afterSave # "done"
        <4>1. restarts < MaxRestarts
          BY <2>1, <2>3 DEF MayResume
        <4>2. restarts # MaxRestarts
          BY <4>1, Relaunches
        <4> QED
          BY <3>2, <4>2 DEF LimitInv
      <3>4. Alive /\ Reached = globalStep
        BY <2>3 DEF Alive, Reached, Saving
      <3>5. OnPace(globalStep, Books)
        BY <3>2, <3>3, <3>4 DEF PaceInv, LoopPace
      <3> QED
        BY <2>3, <3>1, <3>5
    <2> QED
      BY <2>2, <2>3, FolderSteps
  <1> QED
    BY <1>1, <1>2, <1>3 DEF PaceInv

(* global_step is never ahead of the prompts used up, in memory or in what *)
(* a launch may load.                                                      *)
THEOREM PaceCorrect ==
  ASSUME LimitAtLastOnly
  PROVE  Spec => [](LimitInv /\ PaceInv)
  <1>1. Init => LimitInv /\ PaceInv
    <2> SUFFICES ASSUME Init PROVE LimitInv /\ PaceInv
      OBVIOUS
    <2>1. pc = "down" /\ afterSave = "none" /\ Complete = {}
      BY DEF Init, StoreInit, Complete
    <2> QED
      BY <2>1 DEF LimitInv, PaceInv, LoopPace, CollectPace, SavedPace, Alive
  <1>2. AdmissionInv /\ PromptInv /\ EpochInv /\ BalanceInv /\ DrawnInv
          /\ LimitInv /\ PaceInv /\ [Next]_vars => LimitInv' /\ PaceInv'
    BY NextLimit, NextPace
  <1> QED
    BY <1>1, <1>2, AdmissionCorrect, PromptsCorrect, EpochsEnd, BalanceCorrect,
       DrawnCorrect, PTL DEF Spec

(* The epilogue is reached at the end of the loop's range, or when all     *)
(* generators are done and the rest is discarded.                          *)
LEMMA NextUsedUp ==
  ASSUME AdmissionInv, PromptInv, EpochInv, BalanceInv, DrawnInv, PaceInv, UsedUpInv,
         [Next]_vars
  PROVE  UsedUpInv'
  <1>1. ASSUME UNCHANGED <<pc, afterSave, consumedUids>> PROVE UsedUpInv'
    BY <1>1 DEF UsedUpInv, Saving
  <1>2. ASSUME pc' # "epilogue", ~(pc' \in Saving /\ afterSave' = "epilogue")
        PROVE  UsedUpInv'
    BY <1>2 DEF UsedUpInv, Saving
  <1> SUFFICES ASSUME ~ \E reason : Fail(reason) PROVE UsedUpInv'
    BY <1>2 DEF Fail, Saving
  <1>0. /\ Books \in FullyAsyncState /\ Books.epoch = epoch
        /\ Books.consumed = consumedUids /\ globalStep \in Nat
    BY BookTypes DEF Books
  <1>3. CASE \E w \in Workers : WorkerNext(w)
    BY <1>1, <1>3 DEF WorkerNext, PullPrompt, StartGeneration, EnqueueGroup,
                      DrawPrompt, DrawNothing, trainerVars, dataloaderVars
  <1>4. CASE StartFresh \/ Resume \/ KeepGroup \/ DropGroup \/ RunTraining \/ EndEpoch
    BY <1>2, <1>4, ResumeOutcome DEF StartFresh, KeepGroup, DropGroup, RunTraining,
       EndEpoch, trainerVars, Saving
  <1>5. CASE SyncWeights \/ StopAtMaxSteps
    BY <1>2, <1>5 DEF SyncWeights, StopAtMaxSteps, SaveThen, Saving
  <1>6. CASE StartEpoch
    <2>1. pc = "epoch" /\ consumedUids' = consumedUids
      BY <1>6 DEF StartEpoch, dataloaderVars
    <2>2. CASE epoch < Epochs
      <3>1. pc' = NextIteration(globalStep)
        BY <1>6, <2>2 DEF StartEpoch
      <3>2. CASE globalStep <= (1 + epoch) * NumStepsPerEpoch
        BY <1>2, <3>1, <3>2 DEF NextIteration, Saving
      <3>3. CASE ~(globalStep <= (1 + epoch) * NumStepsPerEpoch)
        <4>1. Alive /\ afterSave # "done" /\ Reached = globalStep - 1
          BY <2>1 DEF Alive, BalanceInv, Reached, Saving
        <4>2. OnPace(globalStep - 1, Books)
          BY <2>2, <4>1 DEF PaceInv, LoopPace
        <4>3. consumedUids = Uids
          BY <1>0, <3>3, <4>2, EndOfRange
        <4> QED
          BY <2>1, <4>3 DEF UsedUpInv
      <3> QED
        BY <3>2, <3>3
    <2>3. CASE ~(epoch < Epochs)
      BY <1>2, <1>6, <2>3 DEF StartEpoch, SaveThen, Saving
    <2> QED
      BY <2>2, <2>3
  <1>7. CASE ExhaustEpoch
    BY <1>7, ExhaustedUsesUp DEF UsedUpInv
  <1>8. CASE AdvanceStep
    <2>1. /\ pc = "advance" /\ consumedUids' = consumedUids
          /\ pc' = NextIteration(globalStep + 1)
      BY <1>8 DEF AdvanceStep, dataloaderVars
    <2>2. CASE globalStep + 1 <= (1 + epoch) * NumStepsPerEpoch
      BY <1>2, <2>1, <2>2 DEF NextIteration, Saving
    <2>3. CASE ~(globalStep + 1 <= (1 + epoch) * NumStepsPerEpoch)
      <3>1. Alive /\ afterSave # "done" /\ Reached = globalStep /\ epoch < Epochs
        BY <2>1 DEF Alive, BalanceInv, Reached, Saving, EpochInv
      <3>2. OnPace(globalStep, Books)
        BY <3>1 DEF PaceInv, LoopPace
      <3>3. globalStep + 1 \in Nat /\ (globalStep + 1) - 1 = globalStep
        BY <1>0
      <3>4. OnPace((globalStep + 1) - 1, Books)
        BY <3>2, <3>3
      <3>5. consumedUids = Uids
        BY <1>0, <2>3, <3>3, <3>4, EndOfRange
      <3> QED
        BY <2>1, <3>5 DEF UsedUpInv
    <2> QED
      BY <2>2, <2>3
  <1>9. CASE SaveWeights \/ SaveTracker \/ Cleanup \/ SaveFullyAsyncState
    <2>1. /\ pc \in Saving /\ pc' \in Saving \cup {afterSave}
          /\ UNCHANGED <<afterSave, consumedUids>>
      BY <1>9 DEF SaveWeights, SaveTracker, Cleanup, SaveFullyAsyncState, Saving,
                  dataloaderVars
    <2> QED
      BY <2>1 DEF UsedUpInv, Saving
  <1>10. CASE Crash \/ Relaunch
    BY <1>2, <1>10 DEF Crash, Relaunch, Saving
  <1>11. CASE Terminated \/ UNCHANGED vars
    BY <1>1, <1>11 DEF Terminated, vars, trainerVars, dataloaderVars
  <1> QED
    BY <1>3, <1>4, <1>5, <1>6, <1>7, <1>8, <1>9, <1>10, <1>11 DEF Next, TrainerNext

(* An epoch is over only when each of its prompts was trained on or        *)
(* dropped, whichever way the loop came to its end.                        *)
THEOREM EpochsUsedUp ==
  ASSUME LimitAtLastOnly
  PROVE  Spec => []UsedUpInv
  <1>1. Init => UsedUpInv
    BY DEF Init, UsedUpInv, Saving
  <1>2. AdmissionInv /\ PromptInv /\ EpochInv /\ BalanceInv /\ DrawnInv
          /\ (LimitInv /\ PaceInv) /\ UsedUpInv /\ [Next]_vars => UsedUpInv'
    BY NextUsedUp
  <1> QED
    BY <1>1, <1>2, AdmissionCorrect, PromptsCorrect, EpochsEnd, BalanceCorrect,
       DrawnCorrect, PaceCorrect, PTL DEF Spec

----------------------------------------------------------------------------
(* Steps.                                                                  *)

(* The steps of the weights are those of the loop, in memory and in every  *)
(* folder that another launch can load and go on training from.            *)
CountedInv ==
  Alive /\ epoch < Epochs /\ afterSave # "done"
    => model.steps = globalStep + Ahead - 1

(* The same, with what is saved.                                           *)
StepInv ==
  /\ CountedInv
  /\ MayResume /\ SavesOnce =>
       \A s \in Complete :
         folders[s].state.epoch < Epochs => folders[s].model.steps = s

LEMMA NextCounted ==
  ASSUME AdmissionInv, EpochInv, BalanceInv, DataInv, StepInv, [Next]_vars
  PROVE  CountedInv'
  <1>1. /\ Ahead = 0 \/ Ahead = 1
        /\ Ahead' = 0 \/ Ahead' = 1
        /\ globalStep \in Nat /\ globalStep' \in Nat
        /\ model.steps \in Nat /\ model'.steps \in Nat
        /\ epoch \in Nat /\ epoch' \in Nat /\ Epochs \in Nat
        /\ latest \in Nat
    BY AheadTypes
  <1>2. ASSUME model'.steps = model.steps, globalStep' = globalStep, Ahead' = Ahead,
               Alive' => Alive, epoch' < Epochs => epoch < Epochs,
               afterSave' # "done" => afterSave # "done"
        PROVE  CountedInv'
    BY <1>1, <1>2 DEF StepInv, CountedInv
  <1>3. ASSUME ~Alive' PROVE CountedInv'
    BY <1>3 DEF CountedInv
  <1> SUFFICES ASSUME ~ \E reason : Fail(reason) PROVE CountedInv'
    BY <1>3 DEF Fail, Alive
  <1>4. ASSUME UNCHANGED <<pc, afterSave, globalStep, epoch, model>> PROVE CountedInv'
    <2>1. Ahead' = Ahead /\ (Alive' => Alive)
      BY <1>4 DEF Ahead, Alive, Saving
    <2> QED
      BY <1>2, <1>4, <2>1
  <1>5. CASE \E w \in Workers : WorkerNext(w)
    BY <1>4, <1>5 DEF WorkerNext, PullPrompt, StartGeneration, EnqueueGroup,
                      trainerVars, weightVars
  <1>6. CASE StartFresh
    <2>1. /\ pc = "down" /\ pc' = "epoch" /\ globalStep' = 1 /\ model' = model
      BY <1>6 DEF StartFresh, weightVars
    <2>2. model.steps = 0 /\ Ahead' = 0
      BY <2>1 DEF EpochInv, Alive, FreshModel, Ahead, Saving
    <2>3. model'.steps = globalStep' + Ahead' - 1
      BY <2>1, <2>2
    <2> QED
      BY <2>3 DEF CountedInv
  <1>7. CASE Resume
    <2>1. /\ pc = "down" /\ latest # 0 /\ latest \in Complete
          /\ pc' = "epoch" /\ globalStep' = latest + 1
          /\ epoch' = folders[latest].state.epoch /\ model' = folders[latest].model
      BY <1>7, ResumeOutcome
    <2>2. MayResume /\ SavesOnce
      BY <2>1 DEF MayResume, DataInv
    <2>3. Ahead' = 0
      BY <2>1 DEF Ahead, Saving
    <2>4. ASSUME epoch' < Epochs PROVE model'.steps = globalStep' + Ahead' - 1
      <3>1. model'.steps = latest
        BY <2>1, <2>2, <2>4 DEF StepInv
      <3>2. globalStep' = latest + 1
        BY <2>1
      <3> QED
        BY <1>1, <2>3, <3>1, <3>2
    <2> QED
      BY <2>4 DEF CountedInv
  <1>8. CASE StartEpoch
    <2>1. pc = "epoch" /\ UNCHANGED <<globalStep, model>>
      BY <1>8 DEF StartEpoch, weightVars
    <2>2. afterSave # "done"
      BY <2>1 DEF BalanceInv, Saving
    <2>3. CASE epoch < Epochs
      <3>1. epoch' = epoch /\ pc' \in {"collect", "epilogue"}
        BY <1>8, <2>3 DEF StartEpoch, NextIteration
      <3>2. Ahead' = Ahead /\ Alive
        BY <2>1, <3>1 DEF Ahead, Alive, Saving
      <3> QED
        BY <1>2, <2>1, <2>2, <2>3, <3>2
    <2>4. CASE ~(epoch < Epochs)
      <3>1. afterSave' = "done"
        BY <1>8, <2>4 DEF StartEpoch, SaveThen
      <3> QED
        BY <3>1 DEF CountedInv
    <2> QED
      BY <2>3, <2>4
  <1>9. CASE KeepGroup \/ DropGroup
    BY <1>4, <1>9 DEF KeepGroup, DropGroup, trainerVars, weightVars
  <1>10. CASE ExhaustEpoch
    <2>1. /\ pc = "collect" /\ pc' \in {"save weights", "epilogue"}
          /\ afterSave' = "epilogue" /\ UNCHANGED <<globalStep, epoch, model>>
      BY <1>10 DEF ExhaustEpoch, SaveThen, weightVars
    <2>2. Ahead' = Ahead /\ Alive /\ afterSave # "done"
      BY <2>1 DEF Ahead, Alive, Saving, BalanceInv
    <2> QED
      BY <1>2, <2>1, <2>2
  <1>11. CASE RunTraining
    <2>1. /\ pc = "collect" /\ pc' = "sync"
          /\ model'.steps = model.steps + 1
          /\ UNCHANGED <<globalStep, epoch, afterSave>>
      <3>1. /\ pc = "collect" /\ pc' = "sync" /\ model' = Train(model, epoch, UidsOf(batch))
            /\ UNCHANGED <<globalStep, epoch, afterSave>>
        BY <1>11 DEF RunTraining
      <3> QED
        BY <3>1 DEF Train
    <2>2. Ahead' = 1 /\ Ahead = 0 /\ Alive
      BY <2>1 DEF Ahead, Alive, Saving
    <2>3. ASSUME epoch' < Epochs, afterSave' # "done"
          PROVE  model'.steps = globalStep' + Ahead' - 1
      <3>1. model.steps = globalStep + 0 - 1
        BY <2>1, <2>2, <2>3 DEF StepInv, CountedInv
      <3>2. model'.steps = model.steps + 1 /\ globalStep' = globalStep
        BY <2>1
      <3> QED
        BY <1>1, <2>2, <3>1, <3>2
    <2> QED
      BY <2>3 DEF CountedInv
  <1>12. CASE SyncWeights
    <2>1. /\ pc = "sync" /\ pc' \in {"save weights", "advance"}
          /\ afterSave' = "advance" /\ UNCHANGED <<globalStep, epoch, model>>
      BY <1>12 DEF SyncWeights
    <2>2. Ahead' = Ahead /\ Alive /\ afterSave # "done"
      BY <2>1 DEF Ahead, Alive, Saving, BalanceInv
    <2> QED
      BY <1>2, <2>1, <2>2
  <1>13. CASE AdvanceStep
    <2>1. /\ pc = "advance" /\ pc' \in {"collect", "epilogue"}
          /\ globalStep' = globalStep + 1 /\ UNCHANGED <<epoch, afterSave, model>>
      BY <1>13 DEF AdvanceStep, NextIteration, weightVars
    <2>2. Ahead' = 0 /\ Ahead = 1 /\ Alive
      BY <2>1 DEF Ahead, Alive, Saving
    <2>3. ASSUME epoch' < Epochs, afterSave' # "done"
          PROVE  model'.steps = globalStep' + Ahead' - 1
      <3>1. model.steps = globalStep + 1 - 1
        BY <2>1, <2>2, <2>3 DEF StepInv, CountedInv
      <3>2. model'.steps = model.steps /\ globalStep' = globalStep + 1
        BY <2>1
      <3> QED
        BY <1>1, <2>2, <3>1, <3>2
    <2> QED
      BY <2>3 DEF CountedInv
  <1>14. CASE StopAtMaxSteps
    BY <1>14 DEF StopAtMaxSteps, SaveThen, CountedInv
  <1>15. CASE EndEpoch
    <2>1. /\ pc = "epilogue" /\ pc' = "epoch" /\ epoch' = epoch + 1
          /\ UNCHANGED <<globalStep, afterSave, model>>
      BY <1>15 DEF EndEpoch, weightVars
    <2>2. Ahead' = Ahead /\ Alive
      BY <2>1 DEF Ahead, Alive, Saving
    <2>3. epoch' < Epochs => epoch < Epochs
      BY <1>1, <2>1
    <2> QED
      BY <1>2, <2>1, <2>2, <2>3
  <1>16. CASE SaveWeights \/ SaveTracker \/ Cleanup \/ SaveFullyAsyncState
    <2>1. /\ pc \in Saving /\ pc' \in Saving \cup {afterSave}
          /\ UNCHANGED <<afterSave, globalStep, epoch, model>>
      BY <1>16 DEF SaveWeights, SaveTracker, Cleanup, SaveFullyAsyncState, Saving,
                   weightVars
    <2>2. afterSave \in {"advance", "epilogue", "done"}
      BY <2>1 DEF AdmissionInv, TypeOK, LoopTypeOK, SaveReturns
    <2>3. Ahead' = Ahead /\ Alive
      BY <2>1, <2>2 DEF Ahead, Alive, Saving
    <2> QED
      BY <1>2, <2>1, <2>3
  <1>17. CASE Crash \/ Relaunch
    BY <1>3, <1>17 DEF Crash, Relaunch, Alive
  <1>18. CASE Terminated \/ UNCHANGED vars
    BY <1>4, <1>18 DEF Terminated, vars, trainerVars, weightVars
  <1> QED
    BY <1>5, <1>6, <1>7, <1>8, <1>9, <1>10, <1>11, <1>12, <1>13, <1>14, <1>15, <1>16,
       <1>17, <1>18 DEF Next, TrainerNext

LEMMA NextStep ==
  ASSUME Resumable, AdmissionInv, EpochInv, BalanceInv, LimitInv, SaveInv, DataInv,
         StepInv, [Next]_vars
  PROVE  StepInv'
  <1>1. /\ epoch \in Nat /\ epoch' \in Nat /\ Epochs \in Nat
        /\ restarts \in Nat /\ restarts' \in Nat /\ restarts <= restarts'
        /\ restarts \in 0..MaxRestarts /\ restarts' \in 0..MaxRestarts
    BY AheadTypes, Relaunches, NextAdmission DEF AdmissionInv, TypeOK, LoopTypeOK
  <1>2. ASSUME MayResume', SavesOnce, NEW s \in Complete',
               folders'[s].state.epoch < Epochs
        PROVE  folders'[s].model.steps = s
    <2>1. MayResume
      <3>1. CASE restarts' < MaxRestarts
        BY <1>1, <3>1 DEF MayResume
      <3>2. CASE pc' = "down"
        BY <3>2, Relaunches DEF MayResume
      <3> QED
        BY <1>2, <3>1, <3>2 DEF MayResume
    <2>2. CASE s \in Complete /\ folders'[s] = folders[s]
      BY <1>2, <2>1, <2>2 DEF StepInv
    <2>3. CASE /\ pc = "save state" /\ s = globalStep
               /\ folders'[s] = [model |-> model, state |-> Books]
      <3>1. folders'[s].model = model /\ epoch < Epochs
        <4>1. folders'[s].model = model /\ folders'[s].state = Books
          <5>1. folders'[s] = [model |-> model, state |-> Books]
            BY <2>3
          <5> QED
            BY <5>1
        <4> QED
          BY <1>2, <4>1 DEF Books
      <3>2. SampleFullBatch = FALSE /\ afterSave # "epilogue"
        BY <1>2, <2>3 DEF SavesOnce, SaveInv, NoSaves, NothingFiltered, Saving
      <3>3. afterSave # "done"
        <4>1. restarts < MaxRestarts
          BY <2>1, <2>3 DEF MayResume
        <4>2. restarts # MaxRestarts
          BY <1>1, <4>1
        <4> QED
          BY <3>1, <4>2 DEF LimitInv
      <3>4. afterSave = "advance"
        BY <2>3, <3>2, <3>3 DEF AdmissionInv, TypeOK, LoopTypeOK, SaveReturns, Saving
      <3>5. Ahead = 1 /\ Alive
        BY <2>3, <3>4 DEF Ahead, Alive, Saving
      <3>6. model.steps = globalStep + 1 - 1
        BY <3>1, <3>3, <3>5 DEF StepInv, CountedInv
      <3>7. model.steps = globalStep
        BY <3>6, AheadTypes
      <3> QED
        BY <2>3, <3>1, <3>7
    <2> QED
      BY <1>2, <2>2, <2>3, KeptComplete
  <1> QED
    BY <1>2, NextCounted DEF StepInv

(* The weights have made as many steps as global_step says, in memory and  *)
(* in every folder that a launch still to come may load and train on from. *)
THEOREM StepsCounted ==
  ASSUME Resumable, LimitAtLastOnly
  PROVE  Spec => []StepInv
  <1>1. Init => StepInv
    <2> SUFFICES ASSUME Init PROVE StepInv
      OBVIOUS
    <2>1. pc = "down" /\ afterSave = "none" /\ Complete = {}
      BY DEF Init, StoreInit, Complete
    <2> QED
      BY <2>1 DEF StepInv, CountedInv, Alive
  <1>2. AdmissionInv /\ EpochInv /\ BalanceInv /\ (LimitInv /\ PaceInv) /\ SaveInv
          /\ DataInv /\ StepInv /\ [Next]_vars => StepInv'
    BY NextStep
  <1> QED
    BY <1>1, <1>2, AdmissionCorrect, EpochsEnd, BalanceCorrect, PaceCorrect, SavesInOrder,
       DataCorrect, PTL DEF Spec

(* While a mini-batch is collected the weights have made all the steps     *)
(* before global_step, resumed or not.                                     *)
THEOREM StepCountsTrainingHolds ==
  ASSUME Resumable, LimitAtLastOnly
  PROVE  Spec => []StepCountsTraining
  <1>1. AdmissionInv /\ EpochInv /\ BalanceInv /\ StepInv => StepCountsTraining
    <2> SUFFICES ASSUME AdmissionInv, EpochInv, BalanceInv, StepInv, pc = "collect"
                 PROVE  model.steps = globalStep - 1
      BY DEF StepCountsTraining
    <2>1. Alive /\ epoch < Epochs /\ afterSave # "done" /\ Ahead = 0
      BY DEF Alive, EpochInv, BalanceInv, Ahead, Saving
    <2>2. model.steps = globalStep + 0 - 1
      BY <2>1 DEF StepInv, CountedInv
    <2> QED
      BY <2>2, BookTypes
  <1> QED
    BY <1>1, StepsCounted, AdmissionCorrect, EpochsEnd, BalanceCorrect, PTL

----------------------------------------------------------------------------
(* Whole epochs.                                                           *)

(* Without filtering the epochs so far are trained on, in memory and in    *)
(* every complete folder.                                                  *)
Covered(m, e) == (0..(e - 1)) \X Uids \subseteq m.seen

(* Of every epoch before the current one, and of every saved one.          *)
CoverInv ==
  SampleFullBatch = FALSE =>
    /\ Covered(model, epoch)
    /\ \A s \in Complete : Covered(folders[s].model, folders[s].state.epoch)

LEMMA NextCover ==
  ASSUME AdmissionInv, PromptInv, EpochInv, SaveInv, DataInv, UsedUpInv, CoverInv,
         [Next]_vars
  PROVE  CoverInv'
  <1>1. SUFFICES ASSUME SampleFullBatch = FALSE
                 PROVE  /\ Covered(model', epoch')
                        /\ \A s \in Complete' :
                             Covered(folders'[s].model, folders'[s].state.epoch)
    BY DEF CoverInv, Covered
  <1>2. /\ SavesOnce
        /\ Covered(model, epoch)
        /\ \A s \in Complete : Covered(folders[s].model, folders[s].state.epoch)
    BY <1>1 DEF SavesOnce, CoverInv
  <1>3. ASSUME NEW s \in Complete'
        PROVE  Covered(folders'[s].model, folders'[s].state.epoch)
    <2>1. CASE s \in Complete /\ folders'[s] = folders[s]
      BY <1>2, <2>1
    <2>2. CASE folders'[s] = [model |-> model, state |-> Books]
      <3>1. folders'[s].model = model /\ folders'[s].state = Books
        BY <2>2
      <3>2. Books.epoch = epoch
        BY DEF Books
      <3> QED
        BY <1>2, <3>1, <3>2
    <2> QED
      BY <1>2, <2>1, <2>2, KeptComplete
  <1> SUFFICES Covered(model', epoch')
    BY <1>3
  <1>4. ASSUME NEW m PROVE Covered(m, 0)
    <2>1. 0..(0 - 1) = {}
      OBVIOUS
    <2> QED
      BY <2>1 DEF Covered
  <1>5. CASE QuietStep
    BY <1>2, <1>5 DEF QuietStep
  <1>6. CASE LostStep \/ BegunStep
    BY <1>4, <1>6 DEF LostStep, BegunStep
  <1>7. CASE ResumedStep
    BY <1>2, <1>7 DEF ResumedStep
  <1>8. ASSUME NEW ps \in SUBSET Uids, TrainedStep(ps) PROVE Covered(model', epoch')
    <2>1. epoch' = epoch /\ model.seen \subseteq model'.seen
      BY <1>8 DEF TrainedStep, Train
    <2> QED
      BY <1>2, <2>1 DEF Covered
  <1>9. ASSUME NEW ps \in SUBSET Uids, DroppedStep(ps) PROVE Covered(model', epoch')
    BY <1>1, <1>9 DEF DroppedStep
  <1>10. CASE EndedStep
    <2>1. pc = "epilogue" /\ epoch' = epoch + 1 /\ model' = model /\ epoch \in Nat
      BY <1>10, BookTypes DEF EndedStep
    <2>2. consumedUids = Uids /\ filteredUids = {}
      BY <1>1, <2>1 DEF UsedUpInv, SaveInv, NothingFiltered
    <2>3. {x \in model.seen : x[1] = epoch} = {epoch} \X Uids
      BY <2>2 DEF DataInv, Trained, Books
    <2>4. \A i \in 0..((epoch + 1) - 1) : i \in 0..(epoch - 1) \/ i = epoch
      BY <2>1
    <2>5. (0..((epoch + 1) - 1)) \X Uids
            \subseteq ((0..(epoch - 1)) \X Uids) \cup ({epoch} \X Uids)
      BY <2>4
    <2> QED
      BY <1>2, <2>1, <2>3, <2>5 DEF Covered
  <1> QED
    BY <1>3, <1>5, <1>6, <1>7, <1>8, <1>9, <1>10, DataSteps DEF DataStep

(* Without sample_full_batch an epoch leaves no prompt of the effective    *)
(* dataset out, whatever was lost to crashes and restarts in between.      *)
THEOREM EpochsCoveredHolds ==
  ASSUME SampleFullBatch = FALSE, LimitAtLastOnly
  PROVE  Spec => []EpochsCovered
  <1>1. Resumable
    BY DEF Resumable, SavesOnce
  <1>2. Init => CoverInv
    <2> SUFFICES ASSUME Init PROVE CoverInv
      OBVIOUS
    <2>1. epoch = 0 /\ Complete = {}
      BY DEF Init, StoreInit, Complete
    <2>2. 0..(0 - 1) = {}
      OBVIOUS
    <2> QED
      BY <2>1, <2>2 DEF CoverInv, Covered
  <1>3. AdmissionInv /\ PromptInv /\ EpochInv /\ SaveInv /\ DataInv /\ UsedUpInv
          /\ CoverInv /\ [Next]_vars => CoverInv'
    BY NextCover
  <1>4. CoverInv => EpochsCovered
    BY DEF CoverInv, Covered, EpochsCovered
  <1>5. (Spec => []DataInv) /\ (Spec => []UsedUpInv)
    BY <1>1, DataCorrect, EpochsUsedUp
  <1> QED
    BY <1>2, <1>3, <1>4, <1>5, AdmissionCorrect, PromptsCorrect, EpochsEnd,
       SavesInOrder, PTL DEF Spec

----------------------------------------------------------------------------
(* The end of an epoch, and what it is the end of.                         *)

(* An epoch that has used up its prompts leaves nothing behind.            *)
LEMMA NothingLeft ==
  ASSUME AdmissionInv, PromptInv, BalanceInv, UsedUpInv, pc = "epilogue"
  PROVE  buffer = << >> /\ ValidEpochEnd(globalStep, Cardinality(Generating))
  <1>1. /\ consumedUids = Uids /\ batch = << >> /\ afterSave # "done"
        /\ globalStep = managerStep
    BY DEF UsedUpInv, PromptInv, CollectInv, BalanceInv, Saving, AdmissionInv, StepsAgree
  <1>2. buffer = << >>
    <2>1. buffer \in Seq(Group) /\ UidsOf(buffer) \subseteq Uids
      BY PromptTypes, UidsOfGroups
    <2>2. UidsOf(buffer) = {}
      BY <1>1, <2>1 DEF PromptInv, DeliveredInv
    <2> QED
      BY <2>1, <2>2, HeadUids
  <1>3. Generating = {}
    <2> SUFFICES ASSUME NEW w \in Generating PROVE FALSE
      OBVIOUS
    <2>1. w \in Holding
      BY DEF Generating, Holding
    <2>2. job[w].uid \in Uids
      BY <2>1, PromptTypes DEF Group
    <2> QED
      BY <1>1, <2>1, <2>2 DEF PromptInv, HeldInv
  <1>4. Cardinality(Generating) = 0 /\ running = 0
    BY <1>3, FS_EmptySet DEF AdmissionInv, StatMatchesGroups
  <1>5. Unannounced = 0
    <2>1. managerStep \in Nat
      BY DEF AdmissionInv, TypeOK, ManagerTypeOK
    <2> QED
      BY <1>1, <2>1 DEF Unannounced, Saving
  <1>6. accepted = ConsumedBefore(globalStep)
    <2>1. Len(buffer) = 0 /\ Len(batch) = 0
      BY <1>1, <1>2
    <2>2. accepted = ConsumedBefore(managerStep) + 0 + 0 + 0
      BY <1>5, <2>1 DEF AdmissionInv, StatMatchesGroups
    <2>3. ConsumedBefore(managerStep) \in Nat
      BY CapacityArithmetic DEF AdmissionInv, TypeOK, ManagerTypeOK
    <2> QED
      BY <1>1, <2>2, <2>3
  <1>7. submitted = accepted + filtered
    <2>1. submitted = accepted + filtered + running
      BY <1>1 DEF BalanceInv, SubmittedBalanced
    <2>2. accepted \in Int /\ filtered \in Nat
      BY DEF AdmissionInv, TypeOK, ManagerTypeOK
    <2> QED
      BY <1>4, <2>1, <2>2
  <1>8. running - Cardinality(Generating) = 0
    BY <1>4
  <1> QED
    BY <1>1, <1>2, <1>6, <1>7, <1>8 DEF ValidEpochEnd

(* No assertion of the loop and the workers ever fails: with those above,  *)
(* the buffer is empty and the manager's counters validate at the end of   *)
(* every epoch. (Those of load_checkpoints on its files are not included.) *)
THEOREM NoAssertionFailsHolds ==
  ASSUME LimitAtLastOnly
  PROVE  Spec => []NoAssertionFails
  <1> DEFINE Clean == failure # "epoch leftovers"
  <1>1. Init => Clean
    BY DEF Init
  <1>2. ASSUME AdmissionInv, PromptInv, BalanceInv, UsedUpInv, Clean, [Next]_vars
        PROVE  Clean'
    <2>1. CASE \E w \in Workers : WorkerNext(w)
      BY <1>2, <2>1 DEF WorkerNext, PullPrompt, StartGeneration, EnqueueGroup, Fail,
                        processVars
    <2>2. CASE StartFresh \/ Resume \/ StartEpoch
      BY <1>2, <2>2 DEF StartFresh, Resume, StartEpoch, Fail, processVars
    <2>3. CASE KeepGroup \/ DropGroup \/ ExhaustEpoch \/ RunTraining
      BY <1>2, <2>3 DEF KeepGroup, DropGroup, ExhaustEpoch, RunTraining, Fail, processVars
    <2>4. CASE SyncWeights \/ AdvanceStep \/ StopAtMaxSteps
      BY <1>2, <2>4 DEF SyncWeights, AdvanceStep, StopAtMaxSteps, Fail, processVars
    <2>5. CASE EndEpoch
      <3>1. buffer = << >> /\ ValidEpochEnd(globalStep, Cardinality(Generating))
        BY <1>2, <2>5, NothingLeft DEF EndEpoch
      <3> QED
        BY <1>2, <2>5, <3>1 DEF EndEpoch, processVars
    <2>6. CASE SaveWeights \/ SaveTracker \/ Cleanup \/ SaveFullyAsyncState
      BY <1>2, <2>6 DEF SaveWeights, SaveTracker, Cleanup, SaveFullyAsyncState, Fail,
                        processVars
    <2>7. CASE Crash \/ Relaunch \/ Terminated \/ UNCHANGED vars
      BY <1>2, <2>7 DEF Crash, Relaunch, Terminated, vars, processVars
    <2> QED
      BY <1>2, <2>1, <2>2, <2>3, <2>4, <2>5, <2>6, <2>7 DEF Next, TrainerNext
  <1>3. AdmissionInv /\ PromptInv /\ BalanceInv /\ UsedUpInv /\ Clean /\ [Next]_vars
          => Clean'
    BY <1>2
  <1>4. AssertionsHold /\ Clean => NoAssertionFails
    BY DEF AssertionsHold, NoAssertionFails
  <1> HIDE DEF Clean
  <1> QED
    BY <1>1, <1>3, <1>4, AdmissionCorrect, PromptsCorrect, BalanceCorrect, EpochsUsedUp,
       AssertionsHoldAlways, PTL DEF Spec

----------------------------------------------------------------------------
(* The run that EpochTraining describes.                                   *)

(* What EpochTraining has left of an epoch is what is not consumed.        *)
LEMMA RemainingPrompts ==
  ASSUME AdmissionInv, DataInv
  PROVE  Training!Remaining = Uids \ consumedUids
  <1>1. filteredUids \subseteq consumedUids
    BY PromptTypes
  <1>2. {x \in model.seen : x[1] = epoch} = {epoch} \X (consumedUids \ filteredUids)
    BY DEF DataInv, Trained, Books
  <1>3. ASSUME NEW p \in Uids
        PROVE  <<epoch, p>> \in model.seen <=> p \in consumedUids \ filteredUids
    <2>1. <<epoch, p>> \in model.seen <=> <<epoch, p>> \in {x \in model.seen : x[1] = epoch}
      OBVIOUS
    <2>2. <<epoch, p>> \in {epoch} \X (consumedUids \ filteredUids)
            <=> p \in consumedUids \ filteredUids
      OBVIOUS
    <2> QED
      BY <1>2, <2>1, <2>2
  <1> QED
    BY <1>1, <1>3 DEF Training!Remaining

(* Of the snapshots only the present one is new.                           *)
LEMMA SnapshotSteps ==
  ASSUME AdmissionInv, SaveInv, SavesOnce, [Next]_vars
  PROVE  /\ Snapshots' \subseteq Snapshots \cup {Training!Current}
         /\ folders' = folders => Snapshots' = Snapshots
         /\ ~Alive => Snapshots' = Snapshots
  <1>1. folders' = folders => Snapshots' = Snapshots
    BY DEF Snapshots
  <1>2. ~Alive => folders' = folders
    BY DEF Alive, Next, WorkerNext, TrainerNext, PullPrompt, StartGeneration,
       EnqueueGroup, StartFresh, Resume, StartEpoch, KeepGroup, DropGroup,
       ExhaustEpoch, RunTraining, SyncWeights, AdvanceStep, StopAtMaxSteps, EndEpoch,
       SaveWeights, SaveTracker, Cleanup, SaveFullyAsyncState, Crash, Relaunch,
       Terminated, Fail, vars, storeVars
  <1>3. Snapshots' \subseteq Snapshots \cup {Training!Current}
    <2> DEFINE Snapshot(f) == [epoch |-> f.state.epoch, seen |-> f.model.seen,
                               dropped |-> f.state.filtered]
    <2>1. /\ Snapshots = {Snapshot(folders[s]) : s \in Complete}
          /\ Snapshots' = {Snapshot(folders'[s]) : s \in Complete'}
      BY DEF Snapshots, Complete
    <2> SUFFICES ASSUME NEW s \in Complete'
                 PROVE  Snapshot(folders'[s]) \in Snapshots \cup {Training!Current}
      BY <2>1
    <2>2. CASE s \in Complete /\ folders'[s] = folders[s]
      BY <2>1, <2>2
    <2>3. CASE folders'[s] = [model |-> model, state |-> Books]
      <3>1. folders'[s].model = model /\ folders'[s].state = Books
        BY <2>3
      <3>2. Books.epoch = epoch /\ Books.filtered = filteredUids
        BY DEF Books
      <3>3. Snapshot(folders'[s]) = Training!Current
        BY <3>1, <3>2 DEF Training!Current
      <3> QED
        BY <3>3
    <2> QED
      BY <2>2, <2>3, KeptComplete
  <1> QED
    BY <1>1, <1>2, <1>3

LEMMA StepTrains ==
  ASSUME SavesOnce, AdmissionInv, PromptInv, EpochInv, SaveInv, DataInv, UsedUpInv,
         [Next]_vars
  PROVE  [Training!Next]_(Training!vars)
  <1>1. CASE QuietStep
    <2>1. UNCHANGED <<epoch, model, filteredUids>> /\ Alive' = Alive
      BY <1>1 DEF QuietStep, Alive
    <2>2. CASE Snapshots' = Snapshots
      BY <2>1, <2>2 DEF Training!vars
    <2>3. CASE Snapshots' # Snapshots
      <3>1. Alive /\ Snapshots' \in SUBSET (Snapshots \cup {Training!Current})
        BY <2>3, SnapshotSteps
      <3>2. Training!Save
        BY <2>1, <3>1 DEF Training!Save
      <3> QED
        BY <3>2 DEF Training!Next
    <2> QED
      BY <2>2, <2>3
  <1>2. CASE LostStep
    <2>1. /\ Alive' = FALSE /\ epoch' = 0 /\ model'.seen = {} /\ filteredUids' = {}
          /\ Snapshots' = Snapshots
      BY <1>2, SnapshotSteps DEF LostStep, FreshModel, Alive
    <2>2. CASE Alive
      <3>1. Training!Stop
        BY <2>1, <2>2 DEF Training!Stop
      <3> QED
        BY <3>1 DEF Training!Next
    <2>3. CASE ~Alive
      <3>1. epoch = 0 /\ model.seen = {} /\ filteredUids = {} /\ Alive = FALSE
        BY <2>3 DEF EpochInv, FreshModel, Alive
      <3> QED
        BY <2>1, <3>1 DEF Training!vars
    <2> QED
      BY <2>2, <2>3
  <1>3. CASE BegunStep
    <2>1. ~Alive /\ Alive' = TRUE /\ epoch' = 0 /\ model' = model /\ filteredUids' = {}
          /\ Snapshots' = Snapshots
      BY <1>3, SnapshotSteps DEF BegunStep, Alive
    <2>2. model'.seen = {}
      BY <2>1 DEF EpochInv, FreshModel
    <2>3. /\ epoch' = Training!Start.epoch /\ model'.seen = Training!Start.seen
          /\ filteredUids' = Training!Start.dropped
      BY <2>1, <2>2 DEF Training!Start
    <2>4. Training!Start \in Snapshots \cup {Training!Start}
      OBVIOUS
    <2>5. \E s \in Snapshots \cup {Training!Start} :
            epoch' = s.epoch /\ model'.seen = s.seen /\ filteredUids' = s.dropped
      BY <2>3, <2>4
    <2>6. Training!Launch
      BY <2>1, <2>5 DEF Training!Launch
    <2> QED
      BY <2>6 DEF Training!Next
  <1>4. CASE ResumedStep
    <2> DEFINE f == folders[latest]
               snapshot == [epoch |-> f.state.epoch, seen |-> f.model.seen,
                            dropped |-> f.state.filtered]
    <2>1. ~Alive /\ Alive' = TRUE /\ epoch' = f.state.epoch /\ model' = f.model
          /\ filteredUids' = f.state.filtered /\ Snapshots' = Snapshots
          /\ latest \in Complete
      BY <1>4, SnapshotSteps DEF ResumedStep, Alive
    <2>2. snapshot \in Snapshots
      BY <2>1 DEF Snapshots, Complete
    <2>3. /\ epoch' = snapshot.epoch /\ model'.seen = snapshot.seen
          /\ filteredUids' = snapshot.dropped
      BY <2>1
    <2> HIDE DEF snapshot
    <2>4. Training!Launch
      BY <2>1, <2>2, <2>3 DEF Training!Launch
    <2> QED
      BY <2>4 DEF Training!Next
  <1>5. ASSUME NEW ps \in SUBSET Uids, TrainedStep(ps)
        PROVE  [Training!Next]_(Training!vars)
    <2>1. /\ ps \in SUBSET Training!Remaining
          /\ Cardinality(ps) = MiniBatchSize
      BY <1>5, RemainingPrompts DEF TrainedStep
    <2>2. model'.seen = model.seen \cup ({epoch} \X ps)
      <3>1. model'.seen = model.seen \cup {<<epoch, u>> : u \in ps}
        BY <1>5 DEF TrainedStep, Train
      <3> QED
        BY <3>1
    <2>3. Alive /\ Alive' = Alive /\ UNCHANGED <<epoch, filteredUids>>
          /\ Snapshots' = Snapshots
      BY <1>5, SnapshotSteps DEF TrainedStep, Alive
    <2>10. Training!Cardinality(ps) = Cardinality(ps)
      BY DEF Cardinality, Training!Cardinality
    <2>4. \E qs \in SUBSET Training!Remaining :
            /\ Training!Cardinality(qs) = MiniBatchSize
            /\ model'.seen = model.seen \cup ({epoch} \X qs)
      BY <2>1, <2>2, <2>10
    <2>5. Training!TrainBatch
      BY <2>3, <2>4, Zenon DEF Training!TrainBatch
    <2> QED
      BY <2>5 DEF Training!Next
  <1>6. ASSUME NEW ps \in SUBSET Uids, DroppedStep(ps)
        PROVE  [Training!Next]_(Training!vars)
    <2>1. ps \in SUBSET Training!Remaining
      BY <1>6, RemainingPrompts DEF DroppedStep
    <2>2. Alive /\ Alive' = Alive /\ UNCHANGED <<epoch, model>>
          /\ filteredUids' = filteredUids \cup ps /\ Snapshots' = Snapshots
      BY <1>6, SnapshotSteps DEF DroppedStep, Alive
    <2>3. Training!Drop
      BY <2>1, <2>2 DEF Training!Drop
    <2> QED
      BY <2>3 DEF Training!Next
  <1>7. CASE EndedStep
    <2>1. Training!Remaining = {}
      BY <1>7, RemainingPrompts DEF EndedStep, UsedUpInv
    <2>2. Alive /\ Alive' = Alive /\ epoch' = epoch + 1 /\ model' = model
          /\ filteredUids' = {} /\ Snapshots' = Snapshots
      BY <1>7, SnapshotSteps DEF EndedStep, Alive
    <2>3. Training!NextEpoch
      BY <2>1, <2>2 DEF Training!NextEpoch
    <2> QED
      BY <2>3 DEF Training!Next
  <1> QED
    BY <1>1, <1>2, <1>3, <1>4, <1>5, <1>6, <1>7, DataSteps DEF DataStep

(* The trainer, with its workers, its buffer and its restarts, implements  *)
(* EpochTraining: complete epochs, each prompt trained on once or dropped, *)
(* and launches that go on from a state the run was in.                    *)
THEOREM ImplementsEpochTrainingHolds ==
  ASSUME SavesOnce, LimitAtLastOnly
  PROVE  Spec => ImplementsEpochTraining
  <1>1. Resumable
    BY DEF Resumable
  <1>2. Init => Training!Init
    <2> SUFFICES ASSUME Init PROVE Training!Init
      OBVIOUS
    <2>1. /\ pc = "down" /\ epoch = 0 /\ model = FreshModel /\ filteredUids = {}
          /\ DOMAIN folders = {}
      BY DEF Init, StoreInit
    <2>2. Alive = FALSE /\ model.seen = {} /\ Snapshots = {}
      BY <2>1 DEF Alive, FreshModel, Snapshots
    <2> QED
      BY <2>1, <2>2 DEF Training!Init
  <1>3. AdmissionInv /\ PromptInv /\ EpochInv /\ SaveInv /\ DataInv /\ UsedUpInv
          /\ [Next]_vars => [Training!Next]_(Training!vars)
    BY StepTrains
  <1>4. (Spec => []DataInv) /\ (Spec => []UsedUpInv)
    BY <1>1, DataCorrect, EpochsUsedUp
  <1> QED
    BY <1>2, <1>3, <1>4, AdmissionCorrect, PromptsCorrect, EpochsEnd, SavesInOrder, PTL
       DEF Spec, ImplementsEpochTraining, Training!Spec
=============================================================================
