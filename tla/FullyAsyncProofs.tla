-------------------------- MODULE FullyAsyncProofs --------------------------
(***************************************************************************)
(* Proofs about FullyAsyncTrainer, for every value of its constants: the   *)
(* admission control of the staleness manager keeps its counters exact and *)
(* what is in flight within the generation buffer, across epochs,          *)
(* filtering, cancellation, crashes and resumption from any checkpoint,    *)
(* and no group is staler than its stamp says.                             *)
(***************************************************************************)
EXTENDS FullyAsyncTrainer, FiniteSetTheorems, SequenceTheorems, TLAPS

(* What the proofs use of the configuration.                               *)
LEMMA Configured ==
  /\ IsFiniteSet(Workers)
  /\ MiniBatchSize \in Nat \ {0}
  /\ MaxStalenessSteps \in Nat
  /\ DatasetLength \in Nat
  /\ Epochs \in Nat
  /\ MaxRestarts \in Nat
  BY ConfigAssumption DEF ConfigAssumption

USE Configured

----------------------------------------------------------------------------
(* Arithmetic of steps and capacities.                                     *)

(* The capacity exceeds what was consumed by the size of the buffer.       *)
LEMMA CapacityArithmetic ==
  ASSUME NEW n \in Nat \ {0}
  PROVE  /\ ConsumedBefore(n) \in Nat
         /\ (MaxStalenessSteps + n) * MiniBatchSize
              = ConsumedBefore(n) + BufferSize
         /\ BufferSize \in Nat
         /\ MiniBatchSize <= BufferSize
  <1>1. n - 1 \in Nat
    OBVIOUS
  <1>2. (n - 1) * MiniBatchSize \in Nat
    BY <1>1
  <1>3. (MaxStalenessSteps + n) * MiniBatchSize
          = (n - 1) * MiniBatchSize + MiniBatchSize * (MaxStalenessSteps + 1)
    BY SMTT(30)
  <1>4. /\ MiniBatchSize * (MaxStalenessSteps + 1) \in Nat
        /\ MiniBatchSize <= MiniBatchSize * (MaxStalenessSteps + 1)
    BY SMTT(30)
  <1> QED
    BY <1>2, <1>3, <1>4 DEF BufferSize, ConsumedBefore

(* Each step consumes one batch, and none is consumed before the first.    *)
LEMMA ConsumedByStep ==
  /\ ConsumedBefore(1) = 0
  /\ \A n \in Nat \ {0} : ConsumedBefore(n + 1) = ConsumedBefore(n) + MiniBatchSize
  <1>1. (1 - 1) * MiniBatchSize = 0
    OBVIOUS
  <1>2. ASSUME NEW n \in Nat \ {0}
        PROVE  ((n + 1) - 1) * MiniBatchSize
                 = (n - 1) * MiniBatchSize + MiniBatchSize
    BY SMTT(30)
  <1> QED
    BY <1>1, <1>2 DEF ConsumedBefore

(* An epoch's effective dataset is a finite set of prompts.                *)
LEMMA UidsFinite ==
  /\ EffectiveLength \in Nat
  /\ IsFiniteSet(Uids)
  <1>1. NumStepsPerEpoch \in Nat
    BY SMTT(30) DEF NumStepsPerEpoch
  <1>2. EffectiveLength \in Nat
    BY <1>1 DEF EffectiveLength
  <1>3. IsFiniteSet(Uids)
    BY <1>2, FS_Interval DEF Uids
  <1> QED
    BY <1>2, <1>3

(* The workers that generate are finitely many.                            *)
LEMMA GeneratingFinite ==
  /\ IsFiniteSet(Generating)
  /\ Cardinality(Generating) \in Nat
  BY FS_Subset, FS_CardinalityType DEF Generating

(* The prompts of a sequence of groups are prompts of the epoch.           *)
LEMMA UidsOfGroups ==
  ASSUME NEW s \in Seq(Group)
  PROVE  UidsOf(s) \subseteq Uids
  <1>1. \A i \in DOMAIN s : s[i] \in Group
    BY ElementOfSeq, LenProperties
  <1> QED
    BY <1>1 DEF UidsOf, Group

(* The trained prompts are counted by a natural number.                    *)
LEMMA NumTrainedNat ==
  ASSUME DataloaderTypeOK
  PROVE  NumTrained \in Nat
  <1>1. IsFiniteSet(consumedUids)
    BY UidsFinite, FS_Subset DEF DataloaderTypeOK
  <1>2. /\ Cardinality(filteredUids) \in Nat
        /\ Cardinality(consumedUids) \in Nat
        /\ Cardinality(filteredUids) <= Cardinality(consumedUids)
    BY <1>1, FS_Subset, FS_CardinalityType DEF DataloaderTypeOK
  <1> QED
    BY <1>2 DEF NumTrained

----------------------------------------------------------------------------
(* The admission invariant.                                                *)

(* A process that is gone, whatever it was doing, left no count behind.    *)
LEMMA LosingMemory ==
  ASSUME AdmissionInv, LoseMemory, UNCHANGED storeVars,
         pc' \in {"down", "failed"}, restarts' \in 0..MaxRestarts
  PROVE  AdmissionInv'
  <1> USE DEF LoseMemory, LoadManagerState, LoadDataloaderState, storeVars
  <1>1. TypeOK'
    <2>1. ManagerTypeOK'
      <3>1. /\ submitted' = ConsumedBefore(1) /\ accepted' = ConsumedBefore(1)
            /\ running' = 0 /\ filtered' = 0 /\ managerStep' = 1
        OBVIOUS
      <3>2. submitted' = 0 /\ accepted' = 0
        BY <3>1, ConsumedByStep
      <3> QED
        BY <3>1, <3>2 DEF ManagerTypeOK
    <2>2. DataloaderTypeOK'
      BY UidsFinite DEF DataloaderTypeOK
    <2>3. StoreTypeOK'
      BY DEF AdmissionInv, TypeOK, StoreTypeOK
    <2>4. LoopTypeOK'
      BY DEF LoopTypeOK, Locations
    <2>5. GroupTypeOK'
      BY DEF GroupTypeOK
    <2>6. WeightTypeOK'
      BY DEF WeightTypeOK, FreshModel, Model
    <2> QED
      BY <2>1, <2>2, <2>3, <2>4, <2>5, <2>6 DEF TypeOK
  <1>2. StatMatchesGroups'
    <2>1. Generating' = {}
      BY DEF Generating
    <2>2. Unannounced' = 0
      BY DEF Unannounced, Saving
    <2> QED
      BY <2>1, <2>2, FS_EmptySet, EmptySeq, ConsumedByStep
         DEF StatMatchesGroups
  <1>3. CapacityRespected'
    BY CapacityArithmetic DEF CapacityRespected, ConsumerCapacity
  <1>4. StepsAgree'
    BY DEF StepsAgree
  <1>5. WorkersInEpoch'
    BY DEF WorkersInEpoch
  <1>6. NothingInMemory' /\ SaveReturns'
    <2>1. accepted' = 0 /\ buffer' = << >> /\ batch' = << >>
      BY ConsumedByStep
    <2> QED
      BY <2>1 DEF NothingInMemory, SaveReturns, Saving
  <1> QED
    BY <1>1, <1>2, <1>3, <1>4, <1>5, <1>6 DEF AdmissionInv

(* An assertion that fails loses the memory and leaves the disk alone.     *)
LEMMA Failing ==
  ASSUME AdmissionInv, NEW reason, Fail(reason)
  PROVE  AdmissionInv'
  <1>1. /\ LoseMemory
        /\ UNCHANGED storeVars
        /\ pc' \in {"down", "failed"}
    BY DEF Fail
  <1>2. restarts' \in 0..MaxRestarts
    BY DEF Fail, AdmissionInv, TypeOK, LoopTypeOK
  <1> QED
    BY <1>1, <1>2, LosingMemory

(* The counters keep their meaning when none of what they count moves.     *)
LEMMA CountersKept ==
  ASSUME AdmissionInv, UNCHANGED <<managerVars, buffer, batch>>,
         Generating' = Generating, Unannounced' = Unannounced
  PROVE  StatMatchesGroups' /\ CapacityRespected'
  BY DEF AdmissionInv, StatMatchesGroups, CapacityRespected, managerVars,
         ConsumerCapacity

(* A worker alone does not change where the loop is.                       *)
LEMMA LoopKept ==
  ASSUME AdmissionInv, UNCHANGED trainerVars, managerStep' = managerStep
  PROVE  Unannounced' = Unannounced /\ StepsAgree' /\ SaveReturns'
  BY DEF AdmissionInv, Unannounced, StepsAgree, SaveReturns, trainerVars, Saving

WorkerStates == {"stopped", "pulling", "waiting", "generating", "finished"}

(* A worker's coroutine goes on, during an epoch, to a new place with a    *)
(* new job.                                                                *)
LEMMA WorkerMoves ==
  ASSUME AdmissionInv, UNCHANGED trainerVars,
         NEW w \in Workers, worker[w] # "stopped",
         NEW place \in WorkerStates, NEW group \in Group \cup {None},
         place \in {"waiting", "generating"} => group \in Group,
         worker' = [worker EXCEPT ![w] = place],
         job' = [job EXCEPT ![w] = group]
  PROVE  /\ worker' \in [Workers -> WorkerStates]
         /\ job' \in [Workers -> Group \cup {None}]
         /\ WorkersInEpoch' /\ NothingInMemory'
         /\ Generating' = IF place = "generating" THEN Generating \cup {w}
                         ELSE Generating \ {w}
  <1>1. /\ worker \in [Workers -> WorkerStates]
        /\ job \in [Workers -> Group \cup {None}]
    BY DEF AdmissionInv, TypeOK, GroupTypeOK, WorkerStates
  <1>2. ~OutsideEpoch
    BY DEF AdmissionInv, WorkersInEpoch
  <1>3. pc' = pc /\ afterSave' = afterSave
    BY DEF trainerVars
  <1>4. WorkersInEpoch'
    <2>1. \A v \in Workers :
            worker'[v] \in {"waiting", "generating"} => job'[v] \in Group
      BY <1>1 DEF AdmissionInv, WorkersInEpoch
    <2>2. ~OutsideEpoch'
      BY <1>2, <1>3 DEF OutsideEpoch, Saving
    <2> QED
      BY <2>1, <2>2 DEF WorkersInEpoch
  <1>5. NothingInMemory'
    BY <1>2, <1>3 DEF NothingInMemory, OutsideEpoch
  <1>6. Generating' = IF place = "generating" THEN Generating \cup {w}
                      ELSE Generating \ {w}
    BY <1>1 DEF Generating
  <1> QED
    BY <1>1, <1>4, <1>5, <1>6

LEMMA PullPromptAdmission ==
  ASSUME AdmissionInv, NEW w \in Workers, PullPrompt(w)
  PROVE  AdmissionInv'
  <1>1. /\ UNCHANGED <<managerVars, storeVars, trainerVars, buffer, weightVars,
                       processVars, consumedUids, filteredUids>>
        /\ worker[w] = "pulling"
    BY DEF PullPrompt, DrawPrompt, DrawNothing
  <1>2. PICK place \in WorkerStates, group \in Group \cup {None} :
          /\ (place = "waiting" /\ group \in Group) \/ place = "finished"
          /\ worker' = [worker EXCEPT ![w] = place]
          /\ job' = [job EXCEPT ![w] = group]
          /\ cursor' \in 0..EffectiveLength
    <2>1. CASE \E u \in Undrawn :
                 /\ DrawPrompt(u)
                 /\ worker' = [worker EXCEPT ![w] = "waiting"]
                 /\ job' = [job EXCEPT
                              ![w] = [uid |-> u, step |-> 0, weights |-> 0]]
      <3>1. PICK u \in Uids :
                 /\ cursor' = u
                 /\ worker' = [worker EXCEPT ![w] = "waiting"]
                 /\ job' = [job EXCEPT
                              ![w] = [uid |-> u, step |-> 0, weights |-> 0]]
        BY <2>1 DEF Undrawn, DrawPrompt
      <3>2. [uid |-> u, step |-> 0, weights |-> 0] \in Group
        BY DEF Group
      <3>3. u \in 0..EffectiveLength
        BY UidsFinite DEF Uids
      <3> QED
        BY <3>1, <3>2, <3>3 DEF WorkerStates
    <2>2. CASE /\ DrawNothing
               /\ worker' = [worker EXCEPT ![w] = "finished"]
               /\ job' = [job EXCEPT ![w] = None]
      <3>1. cursor' \in 0..EffectiveLength
        BY <2>2, UidsFinite DEF DrawNothing
      <3> USE DEF WorkerStates
      <3> WITNESS "finished" \in WorkerStates, None \in Group \cup {None}
      <3> QED
        BY <2>2, <3>1
    <2> QED
      BY <2>1, <2>2 DEF PullPrompt
  <1>3. /\ worker' \in [Workers -> WorkerStates]
        /\ job' \in [Workers -> Group \cup {None}]
        /\ WorkersInEpoch' /\ NothingInMemory'
        /\ Generating' = Generating
    BY <1>1, <1>2, WorkerMoves DEF Generating
  <1>4. TypeOK'
    <2>1. ManagerTypeOK' /\ WeightTypeOK'
      BY <1>1 DEF AdmissionInv, TypeOK, ManagerTypeOK, WeightTypeOK,
                  managerVars, weightVars
    <2>2. StoreTypeOK' /\ LoopTypeOK'
      BY <1>1 DEF AdmissionInv, TypeOK, StoreTypeOK, LoopTypeOK, storeVars,
                  trainerVars, processVars
    <2>3. DataloaderTypeOK'
      BY <1>1, <1>2 DEF AdmissionInv, TypeOK, DataloaderTypeOK
    <2>4. GroupTypeOK'
      BY <1>1, <1>3 DEF AdmissionInv, TypeOK, GroupTypeOK, trainerVars,
                        WorkerStates
    <2> QED
      BY <2>1, <2>2, <2>3, <2>4 DEF TypeOK
  <1>5. Unannounced' = Unannounced /\ StepsAgree' /\ SaveReturns'
    BY <1>1, LoopKept DEF managerVars
  <1>6. StatMatchesGroups' /\ CapacityRespected'
    BY <1>1, <1>3, <1>5, CountersKept DEF trainerVars
  <1> QED
    BY <1>3, <1>4, <1>5, <1>6 DEF AdmissionInv

LEMMA StartGenerationAdmission ==
  ASSUME AdmissionInv, NEW w \in Workers, StartGeneration(w)
  PROVE  AdmissionInv'
  <1>1. /\ UNCHANGED <<dataloaderVars, storeVars, trainerVars, buffer,
                       weightVars, processVars>>
        /\ worker[w] = "waiting"
        /\ AcquireSubmissionSlot
    BY DEF StartGeneration
  <1>2. PICK group \in Group : job' = [job EXCEPT ![w] = group]
    <2>1. /\ job \in [Workers -> Group \cup {None}]
          /\ job[w] \in Group
          /\ globalStep \in Nat /\ sampler \in Nat
      BY <1>1 DEF AdmissionInv, TypeOK, GroupTypeOK, LoopTypeOK, WeightTypeOK,
                  WorkersInEpoch
    <2>2. [job[w] EXCEPT !.step = globalStep, !.weights = sampler] \in Group
      BY <2>1 DEF Group
    <2>3. job' = [job EXCEPT
                   ![w] = [job[w] EXCEPT !.step = globalStep,
                                         !.weights = sampler]]
      BY <2>1 DEF StartGeneration
    <2> QED
      BY <2>2, <2>3
  <1>3. /\ worker' \in [Workers -> WorkerStates]
        /\ job' \in [Workers -> Group \cup {None}]
        /\ WorkersInEpoch' /\ NothingInMemory'
        /\ Generating' = Generating \cup {w} /\ w \notin Generating
    <2>1. worker' = [worker EXCEPT ![w] = "generating"]
      BY DEF StartGeneration
    <2> QED
      BY <1>1, <1>2, <2>1, WorkerMoves DEF Generating, WorkerStates
  <1>4. TypeOK'
    <2>1. ManagerTypeOK'
      BY <1>1 DEF AdmissionInv, TypeOK, ManagerTypeOK, AcquireSubmissionSlot
    <2>2. StoreTypeOK' /\ LoopTypeOK' /\ WeightTypeOK' /\ DataloaderTypeOK'
      BY <1>1 DEF AdmissionInv, TypeOK, StoreTypeOK, LoopTypeOK, storeVars,
                  trainerVars, processVars, WeightTypeOK, weightVars,
                  DataloaderTypeOK, dataloaderVars
    <2>3. GroupTypeOK'
      BY <1>1, <1>3 DEF AdmissionInv, TypeOK, GroupTypeOK, trainerVars,
                        WorkerStates
    <2> QED
      BY <2>1, <2>2, <2>3 DEF TypeOK
  <1>5. Unannounced' = Unannounced /\ StepsAgree' /\ SaveReturns'
    BY <1>1, LoopKept DEF AcquireSubmissionSlot
  <1>6. StatMatchesGroups'
    <2>1. Cardinality(Generating') = Cardinality(Generating) + 1
      BY <1>3, GeneratingFinite, FS_AddElement
    <2>2. /\ running' = running + 1 /\ accepted' = accepted
          /\ managerStep' = managerStep /\ buffer' = buffer /\ batch' = batch
      BY <1>1 DEF AcquireSubmissionSlot, trainerVars
    <2> QED
      BY <1>5, <2>1, <2>2 DEF AdmissionInv, StatMatchesGroups
  <1>7. CapacityRespected'
    <2>1. ConsumerCapacity \in Int /\ ConsumerCapacity' = ConsumerCapacity
      BY <1>1, CapacityArithmetic
         DEF AdmissionInv, TypeOK, ManagerTypeOK, ConsumerCapacity,
             AcquireSubmissionSlot
    <2> QED
      BY <1>1, <2>1 DEF AdmissionInv, TypeOK, ManagerTypeOK, HasCapacity,
                        CapacityRespected, AcquireSubmissionSlot
  <1> QED
    BY <1>3, <1>4, <1>5, <1>6, <1>7 DEF AdmissionInv

LEMMA EnqueueGroupAdmission ==
  ASSUME AdmissionInv, NEW w \in Workers, EnqueueGroup(w)
  PROVE  AdmissionInv'
  <1>1. CASE Len(buffer) < BufferSize
    <2>1. /\ UNCHANGED <<dataloaderVars, storeVars, trainerVars, weightVars,
                         processVars>>
          /\ worker[w] = "generating"
          /\ buffer' = Append(buffer, job[w])
          /\ OnRolloutAccepted
          /\ worker' = [worker EXCEPT ![w] = "pulling"]
          /\ job' = [job EXCEPT ![w] = None]
      BY <1>1 DEF EnqueueGroup
    <2>2. /\ worker' \in [Workers -> WorkerStates]
          /\ job' \in [Workers -> Group \cup {None}]
          /\ WorkersInEpoch' /\ NothingInMemory'
          /\ Generating' = Generating \ {w} /\ w \in Generating
      BY <2>1, WorkerMoves DEF Generating, WorkerStates
    <2>3. /\ buffer \in Seq(Group) /\ batch \in Seq(Group)
          /\ job[w] \in Group
      BY <2>1 DEF AdmissionInv, TypeOK, GroupTypeOK, WorkersInEpoch
    <2>4. buffer' \in Seq(Group) /\ Len(buffer') = Len(buffer) + 1
      BY <2>1, <2>3
    <2>5. /\ Cardinality(Generating') = Cardinality(Generating) - 1
          /\ Cardinality(Generating) \in Nat
          /\ Cardinality(Generating') \in Nat
      BY <2>2, GeneratingFinite, FS_RemoveElement, FS_CardinalityType
    <2>6. /\ running' = running - 1 /\ accepted' = accepted + 1
          /\ submitted' = submitted /\ filtered' = filtered
          /\ managerStep' = managerStep /\ batch' = batch
      BY <2>1 DEF OnRolloutAccepted, trainerVars
    <2>7. Unannounced' = Unannounced /\ StepsAgree' /\ SaveReturns'
      BY <2>1, <2>6, LoopKept
    <2>8. StatMatchesGroups'
      <3>1. Len(buffer) \in Nat /\ Len(batch) \in Nat /\ Unannounced \in Nat
        BY <2>3, LenProperties DEF Unannounced
      <3>2. ConsumedBefore(managerStep) \in Nat
        BY CapacityArithmetic DEF AdmissionInv, TypeOK, ManagerTypeOK
      <3>3. accepted' = ConsumedBefore(managerStep') + Len(buffer')
                          + Len(batch') + Unannounced'
        BY <2>4, <2>6, <2>7, <3>1, <3>2 DEF AdmissionInv, StatMatchesGroups
      <3>4. running' = Cardinality(Generating')
        BY <2>5, <2>6 DEF AdmissionInv, StatMatchesGroups
      <3> QED
        BY <3>3, <3>4 DEF StatMatchesGroups
    <2>9. TypeOK'
      <3>1. ManagerTypeOK'
        <4>1. running' \in Nat
          BY <2>5, <2>8 DEF StatMatchesGroups
        <4> QED
          BY <2>6, <4>1 DEF AdmissionInv, TypeOK, ManagerTypeOK
      <3>2. StoreTypeOK' /\ LoopTypeOK' /\ WeightTypeOK' /\ DataloaderTypeOK'
        BY <2>1 DEF AdmissionInv, TypeOK, StoreTypeOK, LoopTypeOK, storeVars,
                    trainerVars, processVars, WeightTypeOK, weightVars,
                    DataloaderTypeOK, dataloaderVars
      <3>3. GroupTypeOK'
        BY <2>2, <2>3, <2>4, <2>6 DEF GroupTypeOK, WorkerStates
      <3> QED
        BY <3>1, <3>2, <3>3 DEF TypeOK
    <2>10. CapacityRespected'
      BY <2>6 DEF AdmissionInv, TypeOK, ManagerTypeOK, CapacityRespected,
                  ConsumerCapacity
    <2> QED
      BY <2>2, <2>7, <2>8, <2>9, <2>10 DEF AdmissionInv
  <1>2. CASE ~(Len(buffer) < BufferSize)
    BY <1>2, Failing DEF EnqueueGroup
  <1> QED
    BY <1>1, <1>2

----------------------------------------------------------------------------
(* The loop.                                                               *)

(* Loading a state from which step n is next.                              *)
LEMMA Loading ==
  ASSUME AdmissionInv, pc = "down",
         NEW n \in Nat \ {0}, LoadManagerState(n), globalStep' = n,
         NEW consumed \in SUBSET Uids, NEW dropped \in SUBSET consumed,
         LoadDataloaderState(consumed, dropped),
         epoch' \in Nat, model' \in Model, sampler' \in Nat, pc' = "epoch",
         UNCHANGED <<storeVars, afterSave, trainedSteps, batch, buffer, worker,
                     job, processVars>>
  PROVE  AdmissionInv'
  <1>1. /\ managerStep' = n /\ accepted' = ConsumedBefore(n)
        /\ submitted' = ConsumedBefore(n)
        /\ running' = 0 /\ filtered' = 0
    BY DEF LoadManagerState
  <1>2. ConsumedBefore(n) \in Nat
    BY CapacityArithmetic
  <1>3. Generating' = {} /\ WorkersInEpoch'
    <2>1. \A w \in Workers : worker'[w] = "stopped"
      BY DEF AdmissionInv, WorkersInEpoch, OutsideEpoch
    <2> QED
      BY <2>1 DEF Generating, WorkersInEpoch
  <1>4. TypeOK'
    <2>1. ManagerTypeOK'
      BY <1>1, <1>2 DEF ManagerTypeOK
    <2>2. DataloaderTypeOK'
      BY UidsFinite DEF LoadDataloaderState, DataloaderTypeOK
    <2>3. StoreTypeOK' /\ LoopTypeOK' /\ WeightTypeOK' /\ GroupTypeOK'
      BY DEF AdmissionInv, TypeOK, StoreTypeOK, LoopTypeOK, Locations, storeVars,
             processVars, WeightTypeOK, GroupTypeOK
    <2> QED
      BY <2>1, <2>2, <2>3 DEF TypeOK
  <1>5. StatMatchesGroups'
    <2>1. buffer' = << >> /\ batch' = << >>
      BY DEF AdmissionInv, NothingInMemory
    <2>2. Unannounced' = 0
      BY <1>1 DEF Unannounced, Saving
    <2> QED
      BY <1>1, <1>2, <1>3, <2>1, <2>2, FS_EmptySet DEF StatMatchesGroups
  <1>6. CapacityRespected'
    BY <1>1, <1>2, CapacityArithmetic DEF CapacityRespected, ConsumerCapacity
  <1>7. StepsAgree' /\ NothingInMemory' /\ SaveReturns'
    BY <1>1 DEF StepsAgree, NothingInMemory, SaveReturns, Saving
  <1> QED
    BY <1>3, <1>4, <1>5, <1>6, <1>7 DEF AdmissionInv

LEMMA StartFreshAdmission ==
  ASSUME AdmissionInv, StartFresh
  PROVE  AdmissionInv'
  <1>1. model' \in Model /\ sampler' \in Nat
    BY DEF StartFresh, weightVars, AdmissionInv, TypeOK, WeightTypeOK
  <1> QED
    BY <1>1, Loading DEF StartFresh

LEMMA ResumeAdmission ==
  ASSUME AdmissionInv, Resume
  PROVE  AdmissionInv'
  <1> DEFINE ckpt == folders[latest]
  <1>1. CASE Loadable /\ WholeSteps(ckpt.state)
    <2>1. ckpt.model \in Model /\ ckpt.state \in FullyAsyncState
      BY <1>1 DEF AdmissionInv, TypeOK, StoreTypeOK, Loadable, Folder
    <2>2. /\ ckpt.state.consumed \in SUBSET Uids
          /\ ckpt.state.filtered \in SUBSET ckpt.state.consumed
          /\ ckpt.state.epoch \in Nat
          /\ ckpt.model.steps \in Nat
      BY <2>1 DEF FullyAsyncState, Model
    <2>3. latest + 1 \in Nat \ {0}
      BY DEF AdmissionInv, TypeOK, StoreTypeOK
    <2>4. /\ pc = "down"
          /\ LoadManagerState(latest + 1)
          /\ LoadDataloaderState(ckpt.state.consumed, ckpt.state.filtered)
          /\ globalStep' = latest + 1
          /\ epoch' = ckpt.state.epoch
          /\ model' = ckpt.model
          /\ sampler' = ckpt.model.steps
          /\ pc' = "epoch"
          /\ UNCHANGED <<storeVars, afterSave, trainedSteps, batch, buffer,
                         worker, job, processVars>>
      BY <1>1 DEF Resume
    <2> QED
      BY <2>1, <2>2, <2>3, <2>4, Loading
  <1>2. CASE ~(Loadable /\ WholeSteps(ckpt.state))
    BY <1>2, Failing DEF Resume
  <1> QED
    BY <1>1, <1>2

(* The workers stay where they are while the loop stays inside or outside  *)
(* of the epoch.                                                           *)
LEMMA WorkersKept ==
  ASSUME AdmissionInv, UNCHANGED <<worker, job>>,
         OutsideEpoch' => OutsideEpoch
  PROVE  WorkersInEpoch' /\ Generating' = Generating
  BY DEF AdmissionInv, WorkersInEpoch, Generating

(* All workers are cancelled, created or already gone: none generates.     *)
LEMMA WorkersReset ==
  ASSUME NEW place \in {"stopped", "pulling"},
         worker' = [w \in Workers |-> place],
         OutsideEpoch' => place = "stopped"
  PROVE  /\ worker' \in [Workers -> WorkerStates]
         /\ WorkersInEpoch' /\ Generating' = {}
         /\ Cardinality(Generating') = 0
  <1>1. Generating' = {}
    BY DEF Generating
  <1> QED
    BY <1>1, FS_EmptySet DEF WorkersInEpoch, WorkerStates

(* The lengths and the arithmetic in the meaning of the counters.          *)
LEMMA CountsTyped ==
  ASSUME AdmissionInv
  PROVE  /\ Len(buffer) \in Nat /\ Len(batch) \in Nat
         /\ Unannounced \in {0, MiniBatchSize}
         /\ managerStep \in Nat \ {0} /\ globalStep \in Nat
         /\ ConsumedBefore(managerStep) \in Nat
         /\ running \in Nat /\ accepted \in Int
         /\ ConsumerCapacity = ConsumedBefore(managerStep) + BufferSize
         /\ ConsumerCapacity \in Nat /\ BufferSize \in Nat
  <1>1. /\ managerStep \in Nat \ {0} /\ running \in Nat /\ accepted \in Int
        /\ globalStep \in Nat
        /\ buffer \in Seq(Group) /\ batch \in Seq(Group)
    BY DEF AdmissionInv, TypeOK, GroupTypeOK, ManagerTypeOK, LoopTypeOK
  <1>2. /\ ConsumedBefore(managerStep) \in Nat /\ BufferSize \in Nat
        /\ ConsumerCapacity = ConsumedBefore(managerStep) + BufferSize
    BY <1>1, CapacityArithmetic DEF ConsumerCapacity
  <1>3. Unannounced \in {0, MiniBatchSize}
    BY DEF Unannounced
  <1> QED
    BY <1>1, <1>2, <1>3, LenProperties

LEMMA StartEpochAdmission ==
  ASSUME AdmissionInv, StartEpoch
  PROVE  AdmissionInv'
  <1>1. /\ pc = "epoch"
        /\ UNCHANGED <<managerVars, dataloaderVars, storeVars, globalStep,
                       batch, buffer, job, weightVars, processVars>>
        /\ \/ /\ worker' = [w \in Workers |-> "pulling"]
              /\ trainedSteps' = NumTrained \div MiniBatchSize
              /\ pc' \in {"collect", "epilogue"}
              /\ UNCHANGED <<epoch, afterSave>>
           \/ /\ epoch' = Epochs
              /\ pc' \in {"save weights", "done"} /\ afterSave' = "done"
              /\ UNCHANGED <<worker, trainedSteps>>
    BY DEF StartEpoch, NextIteration, SaveThen
  <1>2. /\ globalStep = managerStep
        /\ globalStep' = managerStep'
        /\ \A w \in Workers : worker[w] = "stopped"
    BY <1>1 DEF AdmissionInv, StepsAgree, WorkersInEpoch, OutsideEpoch, Saving,
                managerVars
  <1>3. Unannounced' = Unannounced
    BY <1>1, <1>2 DEF AdmissionInv, TypeOK, LoopTypeOK, Unannounced, Saving
  <1>4. Generating' = {} /\ Generating = {}
    BY <1>1, <1>2 DEF Generating
  <1>5. WorkersInEpoch'
    <2>1. CASE /\ worker' = [w \in Workers |-> "pulling"]
               /\ pc' \in {"collect", "epilogue"}
      BY <2>1 DEF WorkersInEpoch, OutsideEpoch, Saving
    <2>2. CASE worker' = worker
      BY <1>1, <1>2, <2>2 DEF WorkersInEpoch
    <2> QED
      BY <1>1, <2>1, <2>2
  <1>6. TypeOK'
    <2>1. NumTrained \div MiniBatchSize \in Nat
      BY NumTrainedNat, SMTT(30) DEF AdmissionInv, TypeOK
    <2>2. LoopTypeOK'
      BY <1>1, <2>1 DEF AdmissionInv, TypeOK, LoopTypeOK, Locations, Saving,
                        processVars
    <2>3. GroupTypeOK'
      BY <1>1 DEF AdmissionInv, TypeOK, GroupTypeOK
    <2>4. ManagerTypeOK' /\ DataloaderTypeOK' /\ StoreTypeOK' /\ WeightTypeOK'
      BY <1>1 DEF AdmissionInv, TypeOK, ManagerTypeOK, managerVars,
                  DataloaderTypeOK, dataloaderVars, StoreTypeOK, storeVars,
                  WeightTypeOK, weightVars
    <2> QED
      BY <2>2, <2>3, <2>4 DEF TypeOK
  <1>7. StatMatchesGroups' /\ CapacityRespected'
    BY <1>1, <1>3, <1>4, CountersKept
  <1>8. StepsAgree' /\ NothingInMemory' /\ SaveReturns'
    BY <1>1, <1>2 DEF StepsAgree, NothingInMemory, SaveReturns, Saving,
                      managerVars
  <1> QED
    BY <1>5, <1>6, <1>7, <1>8 DEF AdmissionInv

LEMMA KeepGroupAdmission ==
  ASSUME AdmissionInv, KeepGroup
  PROVE  AdmissionInv'
  <1>1. /\ pc = "collect"
        /\ buffer # << >>
        /\ batch' = Append(batch, Head(buffer))
        /\ buffer' = Tail(buffer)
        /\ UNCHANGED <<managerVars, dataloaderVars, storeVars, pc, afterSave,
                       globalStep, epoch, trainedSteps, worker, job,
                       weightVars, processVars>>
    BY DEF KeepGroup
  <1>2. /\ batch' \in Seq(Group) /\ Len(batch') = Len(batch) + 1
        /\ buffer' \in Seq(Group) /\ Len(buffer') = Len(buffer) - 1
    <2>1. buffer \in Seq(Group) /\ batch \in Seq(Group)
      BY DEF AdmissionInv, TypeOK, GroupTypeOK
    <2>2. Head(buffer) \in Group
      BY <1>1, <2>1
    <2> QED
      BY <1>1, <2>1, <2>2
  <1>3. Unannounced' = Unannounced /\ StepsAgree' /\ SaveReturns'
    BY <1>1 DEF AdmissionInv, Unannounced, StepsAgree, SaveReturns, Saving,
                managerVars
  <1>4. WorkersInEpoch' /\ Generating' = Generating
    BY <1>1, WorkersKept DEF OutsideEpoch, Saving
  <1>5. StatMatchesGroups'
    BY <1>1, <1>2, <1>3, <1>4, CountsTyped
       DEF AdmissionInv, StatMatchesGroups, managerVars
  <1>6. CapacityRespected'
    BY <1>1 DEF AdmissionInv, CapacityRespected, ConsumerCapacity, managerVars
  <1>7. NothingInMemory'
    BY <1>1 DEF NothingInMemory
  <1>8. TypeOK'
    BY <1>1, <1>2 DEF AdmissionInv, TypeOK, GroupTypeOK, LoopTypeOK,
         processVars, ManagerTypeOK, managerVars, DataloaderTypeOK,
         dataloaderVars, StoreTypeOK, storeVars, WeightTypeOK, weightVars
  <1> QED
    BY <1>3, <1>4, <1>5, <1>6, <1>7, <1>8 DEF AdmissionInv

(* Groups in the buffer or the batch that are filtered give back the       *)
(* capacity that accepting them had taken.                                 *)
LEMMA Filtering ==
  ASSUME AdmissionInv, NEW n \in Nat, OnRolloutFiltered(n),
         buffer' \in Seq(Group), batch' \in Seq(Group),
         Len(buffer') + Len(batch') + n = Len(buffer) + Len(batch),
         Generating' = Generating, Unannounced' = Unannounced
  PROVE  ManagerTypeOK' /\ StatMatchesGroups' /\ CapacityRespected'
  <1>0. /\ Len(buffer) \in Nat /\ Len(batch) \in Nat /\ Unannounced \in Nat
        /\ ConsumedBefore(managerStep) \in Nat
        /\ running \in Nat /\ accepted \in Int /\ ConsumerCapacity \in Int
    BY CountsTyped
  <1>1. /\ accepted' = accepted - n /\ filtered' = filtered + n
        /\ submitted' = submitted /\ running' = running
        /\ managerStep' = managerStep
    BY DEF OnRolloutFiltered
  <1>2. ManagerTypeOK'
    BY <1>1 DEF AdmissionInv, TypeOK, ManagerTypeOK
  <1>3. Len(buffer') \in Nat /\ Len(batch') \in Nat
    BY LenProperties
  <1>4. StatMatchesGroups'
    <2>1. accepted = ConsumedBefore(managerStep) + Len(buffer) + Len(batch)
                       + Unannounced
      BY DEF AdmissionInv, StatMatchesGroups
    <2>2. accepted' = ConsumedBefore(managerStep) + Len(buffer') + Len(batch')
                        + Unannounced
      BY <1>0, <1>1, <1>3, <2>1, SMTT(60)
    <2>3. running' = Cardinality(Generating')
      BY <1>1 DEF AdmissionInv, StatMatchesGroups
    <2> QED
      BY <1>1, <2>2, <2>3 DEF StatMatchesGroups
  <1>5. CapacityRespected'
    <2>1. ConsumerCapacity' = ConsumerCapacity
      BY <1>1 DEF ConsumerCapacity
    <2>2. accepted + running <= ConsumerCapacity
      BY DEF AdmissionInv, CapacityRespected
    <2>3. accepted - n + running <= ConsumerCapacity
      BY <1>0, <2>2
    <2> QED
      BY <1>1, <2>1, <2>3 DEF CapacityRespected
  <1> QED
    BY <1>2, <1>4, <1>5

LEMMA DropGroupAdmission ==
  ASSUME AdmissionInv, DropGroup
  PROVE  AdmissionInv'
  <1>1. CASE Markable(<<Head(buffer)>>)
    <2>1. /\ pc = "collect" /\ buffer # << >>
          /\ buffer' = Tail(buffer)
          /\ OnRolloutFiltered(1)
          /\ MarkFiltered({Head(buffer).uid})
          /\ UNCHANGED <<storeVars, trainerVars, worker, job, weightVars,
                         processVars>>
      BY <1>1 DEF DropGroup
    <2>2. pc' = pc /\ afterSave' = afterSave /\ batch' = batch
      BY <2>1 DEF trainerVars
    <2>3. /\ buffer' \in Seq(Group) /\ batch' \in Seq(Group)
          /\ Len(buffer') + Len(batch') + 1 = Len(buffer) + Len(batch)
          /\ Head(buffer) \in Group
      <3>1. buffer \in Seq(Group) /\ batch \in Seq(Group)
        BY DEF AdmissionInv, TypeOK, GroupTypeOK
      <3>2. /\ Head(buffer) \in Group /\ Tail(buffer) \in Seq(Group)
            /\ Len(Tail(buffer)) = Len(buffer) - 1
        BY <2>1, <3>1, HeadTailProperties
      <3> QED
        BY <2>1, <2>2, <3>1, <3>2, LenProperties
    <2>4. Unannounced' = Unannounced /\ StepsAgree' /\ SaveReturns'
      BY <2>1, LoopKept DEF OnRolloutFiltered
    <2>5. WorkersInEpoch' /\ Generating' = Generating
      BY <2>1, <2>2, WorkersKept DEF OutsideEpoch, Saving
    <2>6. ManagerTypeOK' /\ StatMatchesGroups' /\ CapacityRespected'
      BY <2>1, <2>3, <2>4, <2>5, Filtering
    <2>7. TypeOK'
      <3>1. DataloaderTypeOK'
        <4>1. Head(buffer).uid \in Uids
          BY <2>3 DEF Group
        <4> QED
          BY <2>1, <4>1 DEF AdmissionInv, TypeOK, DataloaderTypeOK,
                            MarkFiltered
      <3>2. GroupTypeOK'
        BY <2>1, <2>3 DEF AdmissionInv, TypeOK, GroupTypeOK
      <3>3. StoreTypeOK' /\ LoopTypeOK' /\ WeightTypeOK'
        BY <2>1 DEF AdmissionInv, TypeOK, StoreTypeOK, storeVars, LoopTypeOK,
                    trainerVars, processVars, WeightTypeOK, weightVars
      <3> QED
        BY <2>6, <3>1, <3>2, <3>3 DEF TypeOK
    <2>8. NothingInMemory'
      BY <2>1, <2>2 DEF NothingInMemory
    <2> QED
      BY <2>4, <2>5, <2>6, <2>7, <2>8 DEF AdmissionInv
  <1>2. CASE ~Markable(<<Head(buffer)>>)
    BY <1>2, Failing DEF DropGroup
  <1> QED
    BY <1>1, <1>2

LEMMA ExhaustEpochAdmission ==
  ASSUME AdmissionInv, ExhaustEpoch
  PROVE  AdmissionInv'
  <1>1. CASE Markable(batch)
    <2>1. /\ pc = "collect"
          /\ OnRolloutFiltered(Len(batch))
          /\ MarkFiltered(UidsOf(batch))
          /\ batch' = << >>
          /\ pc' \in {"save weights", "epilogue"} /\ afterSave' = "epilogue"
          /\ UNCHANGED <<storeVars, globalStep, epoch, trainedSteps, buffer,
                         worker, job, weightVars, processVars>>
      BY <1>1 DEF ExhaustEpoch, SaveThen
    <2>2. managerStep' = managerStep /\ globalStep = managerStep
      BY <2>1 DEF OnRolloutFiltered, AdmissionInv, StepsAgree, Saving
    <2>3. /\ buffer' \in Seq(Group) /\ batch' \in Seq(Group)
          /\ Len(buffer') + Len(batch') + Len(batch)
               = Len(buffer) + Len(batch)
          /\ batch \in Seq(Group) /\ Len(batch) \in Nat
      <3>1. /\ buffer \in Seq(Group) /\ batch \in Seq(Group)
            /\ Len(buffer) \in Nat /\ Len(batch) \in Nat
        BY LenProperties DEF AdmissionInv, TypeOK, GroupTypeOK
      <3>2. << >> \in Seq(Group) /\ Len(<< >>) = 0
        BY EmptySeq
      <3>3. batch' \in Seq(Group) /\ Len(batch') = 0 /\ buffer' = buffer
        BY <2>1, <3>2
      <3>4. Len(buffer') + Len(batch') + Len(batch) = Len(buffer) + Len(batch)
        BY <3>1, <3>3
      <3> QED
        BY <3>1, <3>3, <3>4
    <2>4. Unannounced' = Unannounced
      BY <2>1, <2>2, CountsTyped DEF Unannounced, Saving
    <2>5. WorkersInEpoch' /\ Generating' = Generating
      BY <2>1, WorkersKept DEF OutsideEpoch, Saving
    <2>6. ManagerTypeOK' /\ StatMatchesGroups' /\ CapacityRespected'
      BY <2>1, <2>3, <2>4, <2>5, Filtering
    <2>7. TypeOK'
      <3>1. DataloaderTypeOK'
        BY <2>1, <2>3, UidsOfGroups
           DEF AdmissionInv, TypeOK, DataloaderTypeOK, MarkFiltered
      <3>2. GroupTypeOK'
        BY <2>1, <2>3 DEF AdmissionInv, TypeOK, GroupTypeOK
      <3>3. LoopTypeOK'
        BY <2>1 DEF AdmissionInv, TypeOK, LoopTypeOK, processVars, Locations,
                    Saving
      <3>4. StoreTypeOK' /\ WeightTypeOK'
        BY <2>1 DEF AdmissionInv, TypeOK, StoreTypeOK, storeVars, WeightTypeOK,
                    weightVars
      <3> QED
        BY <2>6, <3>1, <3>2, <3>3, <3>4 DEF TypeOK
    <2>8. NothingInMemory' /\ StepsAgree' /\ SaveReturns'
      BY <2>1, <2>2 DEF NothingInMemory, StepsAgree, SaveReturns
    <2> QED
      BY <2>5, <2>6, <2>7, <2>8 DEF AdmissionInv
  <1>2. CASE ~Markable(batch)
    BY <1>2, Failing DEF ExhaustEpoch
  <1> QED
    BY <1>1, <1>2

(* A full batch moves from being collected to being trained on.            *)
LEMMA RunTrainingAdmission ==
  ASSUME AdmissionInv, RunTraining
  PROVE  AdmissionInv'
  <1>1. CASE Markable(batch)
    <2>1. /\ pc = "collect" /\ pc' = "sync"
          /\ Len(batch) = MiniBatchSize
          /\ model' = Train(model, epoch, UidsOf(batch))
          /\ MarkConsumed(UidsOf(batch))
          /\ batch' = << >>
          /\ UNCHANGED <<managerVars, storeVars, afterSave, globalStep, epoch,
                         trainedSteps, buffer, worker, job, sampler,
                         processVars>>
      BY <1>1 DEF RunTraining
    <2>2. managerStep' = managerStep /\ globalStep = managerStep
      BY <2>1 DEF managerVars, AdmissionInv, StepsAgree, Saving
    <2>3. Unannounced = 0 /\ Unannounced' = MiniBatchSize /\ Len(batch') = 0
      BY <2>1, <2>2, CountsTyped DEF Unannounced, Saving
    <2>4. WorkersInEpoch' /\ Generating' = Generating
      BY <2>1, WorkersKept DEF OutsideEpoch, Saving
    <2>5. StatMatchesGroups'
      <3>1. running' = Cardinality(Generating')
        BY <2>1, <2>4 DEF AdmissionInv, StatMatchesGroups, managerVars
      <3>2. accepted' = ConsumedBefore(managerStep') + Len(buffer')
                          + Len(batch') + Unannounced'
        BY <2>1, <2>3, CountsTyped
           DEF AdmissionInv, StatMatchesGroups, managerVars
      <3> QED
        BY <3>1, <3>2 DEF StatMatchesGroups
    <2>6. CapacityRespected'
      BY <2>1 DEF AdmissionInv, CapacityRespected, ConsumerCapacity,
                  managerVars
    <2>7. TypeOK'
      <3>1. batch \in Seq(Group) /\ UidsOf(batch) \subseteq Uids
        BY UidsOfGroups DEF AdmissionInv, TypeOK, GroupTypeOK
      <3>2. DataloaderTypeOK'
        BY <2>1, <3>1 DEF AdmissionInv, TypeOK, DataloaderTypeOK, MarkConsumed
      <3>3. WeightTypeOK'
        BY <2>1, <3>1 DEF AdmissionInv, TypeOK, LoopTypeOK, WeightTypeOK,
                          Model, Train
      <3>4. GroupTypeOK'
        BY <2>1 DEF AdmissionInv, TypeOK, GroupTypeOK
      <3>5. LoopTypeOK'
        BY <2>1 DEF AdmissionInv, TypeOK, LoopTypeOK, processVars, Locations
      <3>6. ManagerTypeOK' /\ StoreTypeOK'
        BY <2>1 DEF AdmissionInv, TypeOK, ManagerTypeOK, managerVars,
                    StoreTypeOK, storeVars
      <3> QED
        BY <3>2, <3>3, <3>4, <3>5, <3>6 DEF TypeOK
    <2>8. NothingInMemory' /\ StepsAgree' /\ SaveReturns'
      BY <2>1, <2>2 DEF NothingInMemory, StepsAgree, SaveReturns, Saving
    <2> QED
      BY <2>4, <2>5, <2>6, <2>7, <2>8 DEF AdmissionInv
  <1>2. CASE ~Markable(batch)
    BY <1>2, Failing DEF RunTraining
  <1> QED
    BY <1>1, <1>2

LEMMA SyncWeightsAdmission ==
  ASSUME AdmissionInv, SyncWeights
  PROVE  AdmissionInv'
  <1>1. /\ pc = "sync" /\ pc' \in {"save weights", "advance"}
        /\ sampler' = model.steps
        /\ trainedSteps' = trainedSteps + 1
        /\ afterSave' = "advance"
        /\ UNCHANGED <<managerVars, dataloaderVars, storeVars, globalStep,
                       epoch, batch, buffer, worker, job, model, processVars>>
    BY DEF SyncWeights
  <1>2. managerStep' = managerStep /\ globalStep = managerStep
    BY <1>1 DEF managerVars, AdmissionInv, StepsAgree, Saving
  <1>3. Unannounced' = Unannounced
    BY <1>1 DEF Unannounced, Saving
  <1>4. WorkersInEpoch' /\ Generating' = Generating
    BY <1>1, WorkersKept DEF OutsideEpoch, Saving
  <1>5. StatMatchesGroups' /\ CapacityRespected'
    BY <1>1, <1>3, <1>4, CountersKept
  <1>6. TypeOK'
    <2>1. WeightTypeOK'
      <3>1. model \in Model /\ model.steps \in Nat
        BY DEF AdmissionInv, TypeOK, WeightTypeOK, Model
      <3> QED
        BY <1>1, <3>1 DEF WeightTypeOK
    <2>2. LoopTypeOK'
      <3>1. /\ pc' \in Locations /\ restarts' = restarts /\ epoch' = epoch
            /\ globalStep' = globalStep /\ afterSave' = "advance"
        BY <1>1 DEF Locations, Saving, processVars
      <3>2. trainedSteps' \in Nat
        <4>1. trainedSteps \in Nat
          BY DEF AdmissionInv, TypeOK, LoopTypeOK
        <4>2. trainedSteps' = trainedSteps + 1
          BY <1>1
        <4> QED
          BY <4>1, <4>2
      <3> QED
        BY <3>1, <3>2 DEF AdmissionInv, TypeOK, LoopTypeOK
    <2>3. GroupTypeOK'
      BY <1>1 DEF AdmissionInv, TypeOK, GroupTypeOK
    <2>4. ManagerTypeOK' /\ DataloaderTypeOK' /\ StoreTypeOK'
      BY <1>1 DEF AdmissionInv, TypeOK, ManagerTypeOK, managerVars,
                  DataloaderTypeOK, dataloaderVars, StoreTypeOK, storeVars
    <2> QED
      BY <2>1, <2>2, <2>3, <2>4 DEF TypeOK
  <1>7. NothingInMemory' /\ StepsAgree' /\ SaveReturns'
    BY <1>1, <1>2 DEF NothingInMemory, StepsAgree, SaveReturns, Saving
  <1> QED
    BY <1>4, <1>5, <1>6, <1>7 DEF AdmissionInv

(* The step trained on is announced: the capacity grows by what it took.   *)
LEMMA AdvanceStepAdmission ==
  ASSUME AdmissionInv, AdvanceStep
  PROVE  AdmissionInv'
  <1>1. CASE NumTrained = MiniBatchSize * trainedSteps
    <2>1. /\ pc = "advance" /\ pc' \in {"collect", "epilogue"}
          /\ globalStep' = globalStep + 1
          /\ managerStep' = globalStep + 1
          /\ UNCHANGED <<submitted, accepted, running, filtered>>
          /\ UNCHANGED <<dataloaderVars, storeVars, afterSave, epoch,
                         trainedSteps, batch, buffer, worker, job, weightVars,
                         processVars>>
      BY <1>1 DEF AdvanceStep, NotifyCapacityChange, NextIteration
    <2>2. globalStep = managerStep /\ globalStep' = managerStep'
      BY <2>1 DEF AdmissionInv, StepsAgree, Saving
    <2>3. Unannounced = MiniBatchSize /\ Unannounced' = 0
      <3>1. ~(globalStep' > managerStep')
        BY <2>1, <2>2, CountsTyped
      <3>2. pc' \notin {"sync", "advance"} \cup Saving'
        BY <2>1 DEF Saving
      <3> QED
        BY <2>1, <3>1, <3>2 DEF Unannounced
    <2>4. WorkersInEpoch' /\ Generating' = Generating
      BY <2>1, WorkersKept DEF OutsideEpoch, Saving
    <2>5. ConsumedBefore(managerStep')
            = ConsumedBefore(managerStep) + MiniBatchSize
      BY <2>1, <2>2, CountsTyped, ConsumedByStep
    <2>6. StatMatchesGroups'
      <3>1. running' = Cardinality(Generating')
        BY <2>1, <2>4 DEF AdmissionInv, StatMatchesGroups
      <3>2. accepted' = ConsumedBefore(managerStep') + Len(buffer')
                          + Len(batch') + Unannounced'
        BY <2>1, <2>3, <2>5, CountsTyped, SMTT(30) DEF AdmissionInv, StatMatchesGroups
      <3> QED
        BY <3>1, <3>2 DEF StatMatchesGroups
    <2>7. CapacityRespected'
      <3>1. managerStep' \in Nat \ {0}
        BY <2>1, CountsTyped
      <3>2. ConsumerCapacity' = ConsumedBefore(managerStep') + BufferSize
        BY <3>1, CapacityArithmetic DEF ConsumerCapacity
      <3> QED
        BY <2>1, <2>5, <3>2, CountsTyped DEF AdmissionInv, CapacityRespected
    <2>8. TypeOK'
      <3>1. ManagerTypeOK' /\ LoopTypeOK'
        BY <2>1 DEF AdmissionInv, TypeOK, ManagerTypeOK, LoopTypeOK,
                    processVars, Locations
      <3>2. GroupTypeOK'
        BY <2>1 DEF AdmissionInv, TypeOK, GroupTypeOK
      <3>3. DataloaderTypeOK' /\ StoreTypeOK' /\ WeightTypeOK'
        BY <2>1 DEF AdmissionInv, TypeOK, DataloaderTypeOK, dataloaderVars,
                    StoreTypeOK, storeVars, WeightTypeOK, weightVars
      <3> QED
        BY <3>1, <3>2, <3>3 DEF TypeOK
    <2>9. NothingInMemory' /\ StepsAgree' /\ SaveReturns'
      BY <2>1, <2>2 DEF NothingInMemory, StepsAgree, SaveReturns, Saving
    <2> QED
      BY <2>4, <2>6, <2>7, <2>8, <2>9 DEF AdmissionInv
  <1>2. CASE NumTrained # MiniBatchSize * trainedSteps
    BY <1>2, Failing DEF AdvanceStep
  <1> QED
    BY <1>1, <1>2

(* Cancelled workers give their slots back and nothing else.               *)
LEMMA Cancelling ==
  ASSUME AdmissionInv, OnRolloutRejected(Cardinality(Generating)),
         worker' = [w \in Workers |-> "stopped"],
         job' = [w \in Workers |-> None],
         UNCHANGED <<buffer, batch>>, Unannounced' = Unannounced
  PROVE  /\ ManagerTypeOK' /\ GroupTypeOK' /\ managerStep' = managerStep
         /\ StatMatchesGroups' /\ CapacityRespected' /\ WorkersInEpoch'
  <1>1. /\ running' = 0 /\ accepted' = accepted /\ submitted' = submitted
        /\ filtered' = filtered /\ managerStep' = managerStep
    BY GeneratingFinite DEF OnRolloutRejected, AdmissionInv, StatMatchesGroups
  <1>2. /\ worker' \in [Workers -> WorkerStates]
        /\ WorkersInEpoch' /\ Cardinality(Generating') = 0
    BY WorkersReset
  <1>3. ManagerTypeOK' /\ GroupTypeOK'
    BY <1>1, <1>2 DEF AdmissionInv, TypeOK, ManagerTypeOK, GroupTypeOK,
                      WorkerStates
  <1>4. StatMatchesGroups'
    BY <1>1, <1>2 DEF AdmissionInv, StatMatchesGroups
  <1>5. CapacityRespected'
    <2>1. ConsumerCapacity' = ConsumerCapacity
      BY <1>1 DEF ConsumerCapacity
    <2> QED
      BY <1>1, <2>1, CountsTyped DEF AdmissionInv, CapacityRespected
  <1> QED
    BY <1>1, <1>2, <1>3, <1>4, <1>5

LEMMA StopAtMaxStepsAdmission ==
  ASSUME AdmissionInv, StopAtMaxSteps
  PROVE  AdmissionInv'
  <1>1. /\ pc = "advance" /\ pc' \in {"save weights", "done"}
        /\ afterSave' = "done" /\ globalStep' = globalStep + 1
        /\ OnRolloutRejected(Cardinality(Generating))
        /\ worker' = [w \in Workers |-> "stopped"]
        /\ job' = [w \in Workers |-> None]
        /\ UNCHANGED <<dataloaderVars, storeVars, epoch, trainedSteps, batch,
                       buffer, weightVars, processVars>>
    BY DEF StopAtMaxSteps, SaveThen
  <1>2. globalStep = managerStep /\ managerStep' = managerStep
    BY <1>1 DEF AdmissionInv, StepsAgree, Saving, OnRolloutRejected
  <1>3. globalStep' > managerStep' /\ globalStep' \in Nat
    <2>1. globalStep \in Nat
      BY CountsTyped
    <2>2. globalStep' = globalStep + 1 /\ managerStep' = globalStep
      BY <1>1, <1>2
    <2> QED
      BY <2>1, <2>2
  <1>4. Unannounced' = Unannounced
    BY <1>1, <1>3 DEF Unannounced
  <1>5. /\ ManagerTypeOK' /\ GroupTypeOK'
        /\ StatMatchesGroups' /\ CapacityRespected' /\ WorkersInEpoch'
    BY <1>1, <1>4, Cancelling
  <1>6. TypeOK'
    <2>1. LoopTypeOK'
      <3>1. pc' \in Locations /\ restarts' = restarts
        BY <1>1 DEF Locations, Saving, processVars
      <3> QED
        BY <1>1, <1>3, <3>1 DEF AdmissionInv, TypeOK, LoopTypeOK
    <2>2. DataloaderTypeOK' /\ StoreTypeOK' /\ WeightTypeOK'
      BY <1>1 DEF AdmissionInv, TypeOK, DataloaderTypeOK, dataloaderVars,
                  StoreTypeOK, storeVars, WeightTypeOK, weightVars
    <2> QED
      BY <1>5, <2>1, <2>2 DEF TypeOK
  <1>7. StepsAgree' /\ NothingInMemory' /\ SaveReturns'
    BY <1>1, <1>2 DEF StepsAgree, NothingInMemory, SaveReturns, Saving
  <1> QED
    BY <1>5, <1>6, <1>7 DEF AdmissionInv

LEMMA EndEpochAdmission ==
  ASSUME AdmissionInv, EndEpoch
  PROVE  AdmissionInv'
  <1>1. CASE buffer = << >> /\ ValidEpochEnd(globalStep, Cardinality(Generating))
    <2>1. /\ pc = "epilogue" /\ pc' = "epoch"
          /\ OnRolloutRejected(Cardinality(Generating))
          /\ LoadDataloaderState({}, {})
          /\ worker' = [w \in Workers |-> "stopped"]
          /\ job' = [w \in Workers |-> None]
          /\ epoch' = epoch + 1
          /\ UNCHANGED <<storeVars, afterSave, globalStep, trainedSteps, batch,
                         buffer, weightVars, processVars>>
      BY <1>1 DEF EndEpoch
    <2>2. globalStep = managerStep /\ managerStep' = managerStep
      BY <2>1 DEF AdmissionInv, StepsAgree, Saving, OnRolloutRejected
    <2>3. Unannounced' = Unannounced
      BY <2>1, <2>2 DEF Unannounced, Saving
    <2>4. /\ ManagerTypeOK' /\ GroupTypeOK'
          /\ StatMatchesGroups' /\ CapacityRespected' /\ WorkersInEpoch'
      BY <2>1, <2>3, Cancelling
    <2>5. TypeOK'
      <3>1. LoopTypeOK'
        BY <2>1 DEF AdmissionInv, TypeOK, LoopTypeOK, Locations, processVars
      <3>2. DataloaderTypeOK'
        BY <2>1, UidsFinite DEF LoadDataloaderState, DataloaderTypeOK
      <3>3. StoreTypeOK' /\ WeightTypeOK'
        BY <2>1 DEF AdmissionInv, TypeOK, StoreTypeOK, storeVars, WeightTypeOK,
                    weightVars
      <3> QED
        BY <2>4, <3>1, <3>2, <3>3 DEF TypeOK
    <2>6. StepsAgree' /\ NothingInMemory' /\ SaveReturns'
      BY <2>1, <2>2 DEF StepsAgree, NothingInMemory, SaveReturns, Saving
    <2> QED
      BY <2>4, <2>5, <2>6 DEF AdmissionInv
  <1>2. CASE ~ /\ buffer = << >>
               /\ ValidEpochEnd(globalStep, Cardinality(Generating))
    BY <1>2, Failing DEF EndEpoch
  <1> QED
    BY <1>1, <1>2

----------------------------------------------------------------------------
(* Saving, and the process.                                                *)

(* A step of a save touches the disk and the place of the loop only.       *)
LEMMA SavingAdmission ==
  ASSUME AdmissionInv, pc \in Saving, StoreTypeOK',
         pc' \in Saving \cup {afterSave},
         UNCHANGED <<managerVars, dataloaderVars, afterSave, globalStep, epoch,
                     trainedSteps, batch, buffer, worker, job, weightVars,
                     processVars>>
  PROVE  AdmissionInv'
  <1>1. afterSave \in {"advance", "epilogue", "done"} /\ afterSave' = afterSave
    BY DEF AdmissionInv, SaveReturns, TypeOK, LoopTypeOK
  <1>2. managerStep' = managerStep
    BY DEF managerVars
  <1>3. \/ globalStep = managerStep
        \/ globalStep = managerStep + 1 /\ afterSave = "done"
    BY DEF AdmissionInv, StepsAgree, Saving
  <1>4. Unannounced' = Unannounced
    BY <1>1, <1>2 DEF Unannounced, Saving
  <1>5. WorkersInEpoch' /\ Generating' = Generating
    BY <1>1, WorkersKept DEF OutsideEpoch, Saving
  <1>6. StatMatchesGroups' /\ CapacityRespected'
    BY <1>4, <1>5, CountersKept
  <1>7. StepsAgree' /\ NothingInMemory' /\ SaveReturns'
    BY <1>1, <1>2, <1>3 DEF StepsAgree, NothingInMemory, SaveReturns, Saving
  <1>8. TypeOK'
    <2>1. LoopTypeOK'
      <3>1. pc' \in Locations /\ restarts' = restarts
        BY <1>1 DEF Locations, Saving, processVars
      <3> QED
        BY <3>1 DEF AdmissionInv, TypeOK, LoopTypeOK
    <2>2. GroupTypeOK'
      BY DEF AdmissionInv, TypeOK, GroupTypeOK
    <2>3. ManagerTypeOK' /\ DataloaderTypeOK' /\ WeightTypeOK'
      BY DEF AdmissionInv, TypeOK, ManagerTypeOK, managerVars,
             DataloaderTypeOK, dataloaderVars, WeightTypeOK, weightVars
    <2> QED
      BY <2>1, <2>2, <2>3 DEF TypeOK
  <1> QED
    BY <1>5, <1>6, <1>7, <1>8 DEF AdmissionInv

LEMMA SaveWeightsAdmission ==
  ASSUME AdmissionInv, SaveWeights
  PROVE  AdmissionInv'
  <1>1. StoreTypeOK'
    <2>1. /\ DOMAIN folders \subseteq Nat /\ latest \in Nat
          /\ folders \in [DOMAIN folders -> Folder]
          /\ model \in Model /\ globalStep \in Nat
      BY DEF AdmissionInv, TypeOK, StoreTypeOK, WeightTypeOK, LoopTypeOK
    <2> DEFINE state == IF globalStep \in DOMAIN folders
                        THEN folders[globalStep].state ELSE None
    <2>2. [model |-> model, state |-> state] \in Folder
      BY <2>1 DEF Folder
    <2>3. /\ folders' = [s \in DOMAIN folders \cup {globalStep} |->
                           IF s # globalStep THEN folders[s]
                           ELSE [model |-> model, state |-> state]]
          /\ latest' = latest
      BY DEF SaveWeights, WriteModel
    <2> HIDE DEF state
    <2> QED
      BY <2>1, <2>2, <2>3 DEF StoreTypeOK
  <1> QED
    BY <1>1, SavingAdmission DEF SaveWeights, Saving

LEMMA SaveTrackerAdmission ==
  ASSUME AdmissionInv, SaveTracker
  PROVE  AdmissionInv'
  <1>1. StoreTypeOK'
    BY DEF SaveTracker, WriteLatest, AdmissionInv, TypeOK, StoreTypeOK,
           LoopTypeOK
  <1> QED
    BY <1>1, SavingAdmission DEF SaveTracker, Saving

LEMMA CleanupAdmission ==
  ASSUME AdmissionInv, Cleanup
  PROVE  AdmissionInv'
  <1>1. StoreTypeOK'
    <2>1. Kept \subseteq DOMAIN folders
      BY DEF Kept
    <2>2. folders' = [s \in Kept |-> folders[s]] /\ latest' = latest
      BY DEF Cleanup, CleanupOldCheckpoints
    <2> QED
      BY <2>1, <2>2 DEF AdmissionInv, TypeOK, StoreTypeOK
  <1> QED
    BY <1>1, SavingAdmission DEF Cleanup, Saving

LEMMA SaveFullyAsyncStateAdmission ==
  ASSUME AdmissionInv, SaveFullyAsyncState
  PROVE  AdmissionInv'
  <1>1. CASE globalStep \in DOMAIN folders
    <2> DEFINE state == [consumed |-> consumedUids, filtered |-> filteredUids,
                         epoch |-> epoch]
    <2>1. state \in FullyAsyncState
      BY DEF AdmissionInv, TypeOK, DataloaderTypeOK, LoopTypeOK,
             FullyAsyncState
    <2>2. /\ folders' = [folders EXCEPT ![globalStep].state = state]
          /\ latest' = latest
      BY <1>1 DEF SaveFullyAsyncState, WriteFullyAsyncState
    <2>3. /\ DOMAIN folders \subseteq Nat /\ latest \in Nat
          /\ folders \in [DOMAIN folders -> Folder]
      BY DEF AdmissionInv, TypeOK, StoreTypeOK
    <2>4. [folders[globalStep] EXCEPT !.state = state] \in Folder
      BY <1>1, <2>1, <2>3 DEF Folder
    <2>5. StoreTypeOK'
      <3> HIDE DEF state
      <3>1. folders' = [folders EXCEPT
                         ![globalStep] = [folders[globalStep]
                                            EXCEPT !.state = state]]
        BY <1>1, <2>2, <2>3
      <3> QED
        BY <1>1, <2>2, <2>3, <2>4, <3>1 DEF StoreTypeOK
    <2> QED
      BY <1>1, <2>5, SavingAdmission DEF SaveFullyAsyncState, Saving
  <1>2. CASE globalStep \notin DOMAIN folders
    BY <1>2, Failing DEF SaveFullyAsyncState
  <1> QED
    BY <1>1, <1>2

(* The process exits, or is launched again.                                *)
LEMMA ProcessAdmission ==
  ASSUME AdmissionInv, Crash \/ Relaunch
  PROVE  AdmissionInv'
  <1>1. LoseMemory /\ UNCHANGED storeVars /\ pc' = "down"
    BY DEF Crash, Relaunch
  <1>2. restarts' \in 0..MaxRestarts
    BY DEF Crash, Relaunch, AdmissionInv, TypeOK, LoopTypeOK
  <1> QED
    BY <1>1, <1>2, LosingMemory

----------------------------------------------------------------------------
(* The theorems.                                                           *)

LEMMA InitAdmission == Init => AdmissionInv
  <1> SUFFICES ASSUME Init
               PROVE  AdmissionInv
    OBVIOUS
  <1> USE DEF Init, StoreInit
  <1>1. TypeOK
    <2>1. ManagerTypeOK /\ DataloaderTypeOK
      BY UidsFinite DEF ManagerTypeOK, DataloaderTypeOK
    <2>2. StoreTypeOK
      BY DEF StoreTypeOK
    <2>3. LoopTypeOK
      BY DEF LoopTypeOK, Locations
    <2>4. GroupTypeOK
      BY DEF GroupTypeOK
    <2>5. WeightTypeOK
      BY DEF WeightTypeOK, FreshModel, Model
    <2> QED
      BY <2>1, <2>2, <2>3, <2>4, <2>5 DEF TypeOK
  <1>2. StatMatchesGroups
    <2>1. Cardinality(Generating) = 0
      <3>1. Generating = {}
        BY DEF Generating
      <3> QED
        BY <3>1, FS_EmptySet
    <2>2. Unannounced = 0
      BY DEF Unannounced, Saving
    <2> QED
      BY <2>1, <2>2, EmptySeq, ConsumedByStep DEF StatMatchesGroups
  <1>3. CapacityRespected
    BY CapacityArithmetic, ConsumedByStep
       DEF CapacityRespected, ConsumerCapacity
  <1>4. /\ StepsAgree /\ WorkersInEpoch /\ NothingInMemory /\ SaveReturns
    BY DEF StepsAgree, WorkersInEpoch, NothingInMemory, SaveReturns, Saving
  <1> QED
    BY <1>1, <1>2, <1>3, <1>4 DEF AdmissionInv

LEMMA StutterAdmission ==
  ASSUME AdmissionInv, UNCHANGED vars
  PROVE  AdmissionInv'
  <1>1. UNCHANGED <<managerVars, dataloaderVars, storeVars, trainerVars, buffer,
                    worker, job, weightVars, processVars>>
    BY DEF vars
  <1>2. TypeOK'
    <2>1. GroupTypeOK' /\ LoopTypeOK'
      BY <1>1 DEF AdmissionInv, TypeOK, GroupTypeOK, LoopTypeOK, trainerVars,
                  processVars
    <2>2. /\ ManagerTypeOK' /\ DataloaderTypeOK' /\ StoreTypeOK'
          /\ WeightTypeOK'
      BY <1>1 DEF AdmissionInv, TypeOK, ManagerTypeOK, managerVars,
                  DataloaderTypeOK, dataloaderVars, StoreTypeOK, storeVars,
                  WeightTypeOK, weightVars
    <2> QED
      BY <2>1, <2>2 DEF TypeOK
  <1>3. Unannounced' = Unannounced /\ StepsAgree' /\ SaveReturns'
    BY <1>1, LoopKept DEF managerVars
  <1>4. pc' = pc /\ afterSave' = afterSave /\ batch' = batch
    BY <1>1 DEF trainerVars
  <1>5. WorkersInEpoch' /\ Generating' = Generating
    BY <1>1, <1>4, WorkersKept DEF OutsideEpoch, Saving
  <1>6. StatMatchesGroups' /\ CapacityRespected'
    BY <1>1, <1>3, <1>4, <1>5, CountersKept
  <1>7. NothingInMemory'
    BY <1>1, <1>4 DEF AdmissionInv, NothingInMemory, managerVars
  <1> QED
    BY <1>2, <1>3, <1>5, <1>6, <1>7 DEF AdmissionInv

LEMMA NextAdmission ==
  ASSUME AdmissionInv, [Next]_vars
  PROVE  AdmissionInv'
  <1>1. ASSUME NEW w \in Workers, WorkerNext(w)
        PROVE  AdmissionInv'
    BY <1>1, PullPromptAdmission, StartGenerationAdmission,
       EnqueueGroupAdmission DEF WorkerNext
  <1>2. CASE StartFresh \/ Resume \/ StartEpoch
    BY <1>2, StartFreshAdmission, ResumeAdmission, StartEpochAdmission
  <1>3. CASE KeepGroup \/ DropGroup \/ ExhaustEpoch \/ RunTraining
    BY <1>3, KeepGroupAdmission, DropGroupAdmission, ExhaustEpochAdmission,
       RunTrainingAdmission
  <1>4. CASE SyncWeights \/ AdvanceStep \/ StopAtMaxSteps \/ EndEpoch
    BY <1>4, SyncWeightsAdmission, AdvanceStepAdmission,
       StopAtMaxStepsAdmission, EndEpochAdmission
  <1>5. CASE SaveWeights \/ SaveTracker \/ Cleanup \/ SaveFullyAsyncState
    BY <1>5, SaveWeightsAdmission, SaveTrackerAdmission, CleanupAdmission,
       SaveFullyAsyncStateAdmission
  <1>6. CASE Crash \/ Relaunch
    BY <1>6, ProcessAdmission
  <1>7. CASE Terminated \/ UNCHANGED vars
    BY <1>7, StutterAdmission DEF Terminated
  <1> QED
    BY <1>1, <1>2, <1>3, <1>4, <1>5, <1>6, <1>7 DEF Next, TrainerNext

(* For every number of workers, batch size, staleness budget and dataset,  *)
(* through every crash, resumption, filtering and cancellation: the        *)
(* counters of the staleness manager (acquire_submission_slot,             *)
(* on_rollout_accepted, on_rollout_filtered, on_rollout_rejected,          *)
(* notify_capacity_change) count the groups they are documented to count,  *)
(* accepted + running stays within the capacity of                         *)
(* _compute_capacity_unlocked, and all state keeps its type.               *)
THEOREM AdmissionCorrect == Spec => []AdmissionInv
  <1>1. Init => AdmissionInv
    BY InitAdmission
  <1>2. AdmissionInv /\ [Next]_vars => AdmissionInv'
    BY NextAdmission
  <1> QED
    BY <1>1, <1>2, PTL DEF Spec

(* Type correctness of the trainer: in particular no completion or         *)
(* cancellation drives the count of running groups below zero.             *)
THEOREM TypeCorrect == Spec => []TypeOK
  <1>1. AdmissionInv => TypeOK
    BY DEF AdmissionInv
  <1> QED
    BY <1>1, AdmissionCorrect, PTL

LEMMA AdmissionBoundsFlight == AdmissionInv => InFlightBound
  <1> SUFFICES ASSUME AdmissionInv
               PROVE  InFlightBound
    OBVIOUS
  <1>1. accepted + running <= ConsumedBefore(managerStep) + BufferSize
    BY CountsTyped DEF AdmissionInv, CapacityRespected
  <1>2. /\ running = Cardinality(Generating)
        /\ accepted = ConsumedBefore(managerStep) + Len(buffer) + Len(batch)
                         + Unannounced
    BY DEF AdmissionInv, StatMatchesGroups
  <1>3. Unannounced \in Nat
    BY CountsTyped
  <1> QED
    BY <1>1, <1>2, <1>3, CountsTyped, SMTT(30) DEF InFlightBound

(* The groups waiting in the buffer, being collected, trained on and being *)
(* generated never exceed the buffer's capacity mini_batch_size *          *)
(* (max_staleness_steps + 1).                                              *)
THEOREM InFlightBounded == Spec => []InFlightBound
  BY AdmissionCorrect, AdmissionBoundsFlight, PTL

(* The put_nowait of a worker never finds the buffer full, so that the     *)
(* assertion "Generation buffer should never be full given staleness       *)
(* control" never fails.                                                   *)
THEOREM BufferNeverFullHolds == Spec => []BufferNeverFull
  <1>1. Init => BufferNeverFull
    BY DEF Init, BufferNeverFull
  <1>2. AdmissionInv /\ BufferNeverFull /\ [Next]_vars => BufferNeverFull'
    <2> SUFFICES ASSUME AdmissionInv, BufferNeverFull, [Next]_vars
                 PROVE  BufferNeverFull'
      OBVIOUS
    <2>1. ASSUME NEW w \in Workers, EnqueueGroup(w)
          PROVE  BufferNeverFull'
      <3>1. w \in Generating
        BY <2>1 DEF EnqueueGroup, Generating
      <3>2. Cardinality(Generating) \in Nat \ {0}
        BY <3>1, GeneratingFinite, FS_EmptySet
      <3>3. Len(buffer) < BufferSize
        BY <3>2, AdmissionBoundsFlight, CountsTyped DEF InFlightBound
      <3>4. failure' = failure
        BY <2>1, <3>3 DEF EnqueueGroup, processVars
      <3> QED
        BY <3>4 DEF BufferNeverFull
    <2>2. ASSUME NEW w \in Workers, PullPrompt(w) \/ StartGeneration(w)
          PROVE  BufferNeverFull'
      BY <2>2 DEF PullPrompt, StartGeneration, processVars, BufferNeverFull
    <2>3. CASE StartFresh \/ Resume \/ StartEpoch
      BY <2>3 DEF StartFresh, Resume, StartEpoch, Fail, processVars,
                  BufferNeverFull
    <2>4. CASE KeepGroup \/ DropGroup \/ ExhaustEpoch \/ RunTraining
      BY <2>4 DEF KeepGroup, DropGroup, ExhaustEpoch, RunTraining, Fail,
                  processVars, BufferNeverFull
    <2>5. CASE SyncWeights \/ AdvanceStep \/ StopAtMaxSteps \/ EndEpoch
      BY <2>5 DEF SyncWeights, AdvanceStep, StopAtMaxSteps, EndEpoch, Fail,
                  processVars, BufferNeverFull
    <2>6. CASE SaveWeights \/ SaveTracker \/ Cleanup \/ SaveFullyAsyncState
      BY <2>6 DEF SaveWeights, SaveTracker, Cleanup, SaveFullyAsyncState, Fail,
                  processVars, BufferNeverFull
    <2>7. CASE Crash \/ Relaunch \/ Terminated \/ UNCHANGED vars
      BY <2>7 DEF Crash, Relaunch, Terminated, vars, processVars,
                  BufferNeverFull
    <2> QED
      BY <2>1, <2>2, <2>3, <2>4, <2>5, <2>6, <2>7
         DEF Next, TrainerNext, WorkerNext
  <1> QED
    BY <1>1, <1>2, AdmissionCorrect, PTL DEF Spec

----------------------------------------------------------------------
(* The balance of the counters.                                            *)

(* max_training_steps is never set.                                        *)
NoLimit == \A launch \in 0..MaxRestarts : MaxTrainingSteps[launch] = 0

(* Only the workers cancelled at max_training_steps are left unbalanced,   *)
(* in a process that saves a last checkpoint and ends.                     *)
BalanceInv ==
  /\ afterSave = "done" => pc \in Saving \cup {"done"}
  /\ NoLimit \/ afterSave # "done" => SubmittedBalanced

(* A process that is gone, or has just loaded, has what it consumed.       *)
LEMMA LoadedBalanced ==
  ASSUME NEW n \in Nat \ {0}, LoadManagerState(n), afterSave' # "done"
  PROVE  BalanceInv'
  <1>1. ConsumedBefore(n) \in Nat
    BY CapacityArithmetic
  <1> QED
    BY <1>1 DEF LoadManagerState, BalanceInv, SubmittedBalanced

LEMMA FailingBalanced ==
  ASSUME NEW reason, Fail(reason)
  PROVE  BalanceInv'
  BY LoadedBalanced DEF Fail, LoseMemory

LEMMA WorkersBalanced ==
  ASSUME AdmissionInv, BalanceInv, NEW w \in Workers, WorkerNext(w)
  PROVE  BalanceInv'
  <1>1. CASE PullPrompt(w)
    BY <1>1 DEF PullPrompt, managerVars, trainerVars, BalanceInv, SubmittedBalanced,
                Saving
  <1>2. CASE StartGeneration(w) \/ (EnqueueGroup(w) /\ Len(buffer) < BufferSize)
    <2>1. /\ submitted \in Nat /\ accepted \in Int /\ running \in Nat /\ filtered \in Nat
      BY DEF AdmissionInv, TypeOK, ManagerTypeOK
    <2>2. /\ UNCHANGED <<pc, afterSave>>
          /\ AcquireSubmissionSlot \/ OnRolloutAccepted
      BY <1>2 DEF StartGeneration, EnqueueGroup, trainerVars
    <2>3. SubmittedBalanced => SubmittedBalanced'
      BY <2>1, <2>2 DEF AcquireSubmissionSlot, OnRolloutAccepted, SubmittedBalanced
    <2> QED
      BY <2>2, <2>3 DEF BalanceInv, Saving, NoLimit
  <1>3. CASE EnqueueGroup(w) /\ ~(Len(buffer) < BufferSize)
    BY <1>3, FailingBalanced DEF EnqueueGroup
  <1> QED
    BY <1>1, <1>2, <1>3 DEF WorkerNext

LEMMA CollectingBalanced ==
  ASSUME AdmissionInv, BalanceInv, KeepGroup \/ DropGroup \/ ExhaustEpoch \/ RunTraining
  PROVE  BalanceInv'
  <1>1. ASSUME NEW n \in Nat, OnRolloutFiltered(n), afterSave' # "done", afterSave # "done"
        PROVE  BalanceInv'
    BY <1>1 DEF AdmissionInv, TypeOK, ManagerTypeOK, OnRolloutFiltered,
                BalanceInv, SubmittedBalanced
  <1>2. afterSave # "done"
    BY DEF BalanceInv, Saving, KeepGroup, DropGroup, ExhaustEpoch, RunTraining
  <1>3. CASE KeepGroup
    BY <1>3 DEF KeepGroup, managerVars, BalanceInv, SubmittedBalanced, Saving
  <1>4. CASE DropGroup
    <2>1. CASE Markable(<<Head(buffer)>>)
      BY <1>1, <1>2, <1>4, <2>1 DEF DropGroup, trainerVars
    <2> QED
      BY <1>4, <2>1, FailingBalanced DEF DropGroup
  <1>5. CASE ExhaustEpoch
    <2>1. CASE Markable(batch)
      BY <1>1, <1>2, <1>5, <2>1, CountsTyped DEF ExhaustEpoch, SaveThen
    <2> QED
      BY <1>5, <2>1, FailingBalanced DEF ExhaustEpoch
  <1>6. CASE RunTraining
    <2>1. CASE Markable(batch)
      BY <1>2, <1>6, <2>1 DEF RunTraining, managerVars, BalanceInv, SubmittedBalanced
    <2> QED
      BY <1>6, <2>1, FailingBalanced DEF RunTraining
  <1> QED
    BY <1>3, <1>4, <1>5, <1>6

LEMMA LoopBalanced ==
  ASSUME AdmissionInv, BalanceInv,
         \/ StartFresh \/ Resume \/ StartEpoch
         \/ SyncWeights \/ AdvanceStep \/ StopAtMaxSteps \/ EndEpoch
  PROVE  BalanceInv'
  <1>1. CASE StartFresh
    BY <1>1, LoadedBalanced DEF StartFresh, BalanceInv, Saving
  <1>2. CASE Resume
    <2>1. afterSave # "done" /\ latest + 1 \in Nat \ {0}
      <3>1. pc = "down" /\ latest \in Nat
        BY <1>2 DEF Resume, AdmissionInv, TypeOK, StoreTypeOK
      <3> QED
        BY <3>1 DEF BalanceInv, Saving
    <2>2. CASE LoadManagerState(latest + 1) /\ UNCHANGED afterSave
      BY <2>1, <2>2, LoadedBalanced
    <2>3. CASE Fail("checkpoint incomplete")
      BY <2>3, FailingBalanced
    <2> QED
      BY <1>2, <2>2, <2>3 DEF Resume
  <1>3. CASE StartEpoch
    BY <1>3 DEF StartEpoch, SaveThen, managerVars, BalanceInv, SubmittedBalanced, Saving
  <1>4. CASE SyncWeights
    BY <1>4 DEF SyncWeights, managerVars, BalanceInv, SubmittedBalanced, Saving
  <1>5. CASE AdvanceStep
    <2>1. CASE NumTrained = MiniBatchSize * trainedSteps
      BY <1>5, <2>1 DEF AdvanceStep, NotifyCapacityChange, BalanceInv,
                        SubmittedBalanced, Saving
    <2> QED
      BY <1>5, <2>1, FailingBalanced DEF AdvanceStep
  <1>6. CASE StopAtMaxSteps
    <2>1. ~NoLimit
      BY <1>6 DEF StopAtMaxSteps, ReachedMaxSteps, NoLimit, AdmissionInv, TypeOK,
                  LoopTypeOK
    <2>2. afterSave' = "done" /\ pc' \in Saving \cup {"done"}
      BY <1>6 DEF StopAtMaxSteps, SaveThen, Saving
    <2> QED
      BY <2>1, <2>2 DEF BalanceInv, NoLimit, SubmittedBalanced
  <1>7. CASE EndEpoch
    <2> DEFINE n == Cardinality(Generating)
    <2>1. CASE buffer = << >> /\ ValidEpochEnd(globalStep, n)
      <3>1. /\ running' = running - n /\ running - n = 0
            /\ submitted = accepted + filtered
            /\ UNCHANGED <<submitted, accepted, filtered, afterSave>>
            /\ afterSave # "done"
        BY <1>7, <2>1 DEF EndEpoch, ValidEpochEnd, OnRolloutRejected, BalanceInv, Saving
      <3> QED
        BY <3>1 DEF BalanceInv, SubmittedBalanced, AdmissionInv, TypeOK, ManagerTypeOK
    <2> QED
      BY <1>7, <2>1, FailingBalanced DEF EndEpoch
  <1> QED
    BY <1>1, <1>2, <1>3, <1>4, <1>5, <1>6, <1>7

LEMMA SavingBalanced ==
  ASSUME AdmissionInv, BalanceInv,
         SaveWeights \/ SaveTracker \/ Cleanup \/ SaveFullyAsyncState
  PROVE  BalanceInv'
  <1> USE DEF managerVars, BalanceInv, SubmittedBalanced, Saving
  <1>1. CASE SaveWeights \/ SaveTracker \/ Cleanup
    BY <1>1 DEF SaveWeights, SaveTracker, Cleanup
  <1>2. CASE SaveFullyAsyncState
    BY <1>2, FailingBalanced DEF SaveFullyAsyncState
  <1> QED
    BY <1>1, <1>2

LEMMA NextBalanced ==
  ASSUME AdmissionInv, BalanceInv, [Next]_vars
  PROVE  BalanceInv'
  <1>1. ASSUME Crash \/ Relaunch PROVE BalanceInv'
    BY <1>1, LoadedBalanced DEF Crash, Relaunch, LoseMemory
  <1>2. ASSUME Terminated \/ UNCHANGED vars PROVE BalanceInv'
    BY <1>2 DEF Terminated, vars, managerVars, trainerVars, BalanceInv,
                SubmittedBalanced, Saving
  <1> QED
    BY <1>1, <1>2, WorkersBalanced, CollectingBalanced, LoopBalanced,
       SavingBalanced DEF Next, TrainerNext

(* While max_training_steps is not set, submitted == accepted + filtered + *)
(* running "always holds", as the docstring of _RolloutStat says.          *)
THEOREM SubmittedBalancedHolds ==
  ASSUME NoLimit
  PROVE  Spec => []SubmittedBalanced
  <1>1. Init => BalanceInv
    BY DEF Init, BalanceInv, SubmittedBalanced
  <1>2. AdmissionInv /\ BalanceInv /\ [Next]_vars => BalanceInv'
    BY NextBalanced
  <1>3. BalanceInv => SubmittedBalanced
    BY DEF BalanceInv
  <1> QED
    BY <1>1, <1>2, <1>3, AdmissionCorrect, PTL DEF Spec

----------------------------------------------------------------------
(* The weights that groups were generated with.                            *)

(* The step trained on is not yet the one before global_step.              *)
Ahead ==
  IF \/ pc \in {"sync", "advance"}
     \/ pc \in Saving /\ afterSave = "advance"
  THEN 1 ELSE 0

(* The groups being generated, waiting and collected.                      *)
InFlight ==
  {job[w] : w \in Generating} \cup {buffer[i] : i \in DOMAIN buffer}
    \cup {batch[i] : i \in DOMAIN batch}

(* A group misses at most the updates that its stamp tells, and none when  *)
(* there is no staleness budget.                                           *)
Fresh(g) ==
  /\ globalStep + Ahead - g.step >= model.steps - g.weights
  /\ MaxStalenessSteps = 0 => g.weights = model.steps

(* The engines lag behind the policy between training and the sync only.   *)
SamplerInv == sampler = IF pc = "sync" THEN model.steps - 1 ELSE model.steps

FreshInv == SamplerInv /\ \A g \in InFlight : Fresh(g)

(* What the steps use of the types.                                        *)
LEMMA FreshTypes ==
  ASSUME AdmissionInv
  PROVE  /\ globalStep \in Nat /\ sampler \in Nat /\ model.steps \in Nat
         /\ Ahead = 0 \/ Ahead = 1
         /\ job \in [Workers -> Group \cup {None}]
         /\ worker \in [Workers -> WorkerStates]
         /\ buffer \in Seq(Group) /\ batch \in Seq(Group)
         /\ \A w \in Generating : w \in Workers /\ job[w] \in Group
         /\ \A g \in InFlight : g \in Group /\ g.step \in Nat /\ g.weights \in Nat
  <1>1. /\ globalStep \in Nat /\ sampler \in Nat /\ model \in Model
        /\ job \in [Workers -> Group \cup {None}]
        /\ worker \in [Workers -> WorkerStates]
        /\ buffer \in Seq(Group) /\ batch \in Seq(Group)
    BY DEF AdmissionInv, TypeOK, LoopTypeOK, WeightTypeOK, GroupTypeOK, WorkerStates
  <1>2. model.steps \in Nat
    BY <1>1 DEF Model
  <1>3. \A w \in Generating : w \in Workers /\ job[w] \in Group
    BY DEF Generating, AdmissionInv, WorkersInEpoch
  <1>4. /\ \A i \in DOMAIN buffer : buffer[i] \in Group
        /\ \A i \in DOMAIN batch : batch[i] \in Group
    BY <1>1, ElementOfSeq, LenProperties
  <1>5. \A g \in InFlight : g \in Group
    BY <1>3, <1>4 DEF InFlight
  <1>6. \A g \in Group : g.step \in Nat /\ g.weights \in Nat
    BY DEF Group
  <1> QED
    BY <1>1, <1>2, <1>3, <1>5, <1>6 DEF Ahead

(* Nothing is in flight.                                                   *)
LEMMA NothingFresh ==
  ASSUME \A w \in Workers : worker'[w] # "generating", buffer' = << >>, batch' = << >>,
         SamplerInv'
  PROVE  FreshInv'
  <1>1. InFlight' = {}
    <2>1. Generating' = {}
      BY DEF Generating
    <2>2. DOMAIN buffer' = {} /\ DOMAIN batch' = {}
      OBVIOUS
    <2> QED
      BY <2>1, <2>2 DEF InFlight
  <1> QED
    BY <1>1 DEF FreshInv

LEMMA FreshLost ==
  ASSUME LoseMemory, pc' \in {"down", "failed"}
  PROVE  FreshInv'
  <1>1. SamplerInv'
    BY DEF LoseMemory, SamplerInv, FreshModel
  <1> QED
    BY <1>1, NothingFresh DEF LoseMemory

LEMMA FailingFresh ==
  ASSUME NEW reason, Fail(reason)
  PROVE  FreshInv'
  BY FreshLost DEF Fail

(* Without a staleness budget the buffer holds one batch.                  *)
LEMMA BufferIsBatch ==
  ASSUME MaxStalenessSteps = 0
  PROVE  BufferSize = MiniBatchSize
  <1>1. MaxStalenessSteps + 1 = 1
    OBVIOUS
  <1>2. MiniBatchSize * 1 = MiniBatchSize
    OBVIOUS
  <1> QED
    BY <1>1, <1>2 DEF BufferSize

(* Nothing new is in flight, and no step is trained or taken back.         *)
LEMMA FreshKept ==
  ASSUME AdmissionInv, AdmissionInv', FreshInv, SamplerInv',
         InFlight' \subseteq InFlight, model' = model,
         globalStep' + Ahead' >= globalStep + Ahead
  PROVE  FreshInv'
  <1>1. /\ globalStep \in Nat /\ model.steps \in Nat
        /\ Ahead = 0 \/ Ahead = 1
        /\ \A g \in InFlight : Fresh(g) /\ g.step \in Nat /\ g.weights \in Nat
    BY FreshTypes DEF FreshInv
  <1>2. globalStep' \in Nat /\ (Ahead' = 0 \/ Ahead' = 1)
    BY DEF AdmissionInv, TypeOK, LoopTypeOK, Ahead
  <1>3. ASSUME NEW g \in InFlight
        PROVE  /\ globalStep' + Ahead' - g.step >= model.steps - g.weights
               /\ MaxStalenessSteps = 0 => g.weights = model.steps
    <2>1. /\ globalStep + Ahead - g.step >= model.steps - g.weights
          /\ MaxStalenessSteps = 0 => g.weights = model.steps
      BY <1>1 DEF Fresh
    <2>3. g.step \in Int /\ g.weights \in Int /\ model.steps \in Int
      BY <1>1
    <2>4. globalStep' + Ahead' - g.step >= model.steps - g.weights
      BY <1>1, <1>2, <2>1, <2>3
    <2> QED
      BY <2>1, <2>4
  <1> QED
    BY <1>3 DEF FreshInv, Fresh

LEMMA WorkersFresh ==
  ASSUME AdmissionInv, AdmissionInv', FreshInv, NEW w \in Workers, WorkerNext(w)
  PROVE  FreshInv'
  <1>1. CASE PullPrompt(w)
    <2>1. /\ worker[w] = "pulling"
          /\ \E place \in {"waiting", "finished"} : worker' = [worker EXCEPT ![w] = place]
          /\ \E group : job' = [job EXCEPT ![w] = group]
          /\ UNCHANGED <<trainerVars, buffer, weightVars>>
      BY <1>1 DEF PullPrompt
    <2>2. Generating' = Generating /\ \A v \in Generating : job'[v] = job[v]
      BY <2>1, FreshTypes DEF Generating
    <2>3. /\ UNCHANGED <<pc, afterSave, globalStep, batch, model, sampler>>
          /\ buffer' = buffer
      BY <2>1 DEF trainerVars, weightVars
    <2>4. InFlight' = InFlight
      BY <2>2, <2>3 DEF InFlight
    <2>5. SamplerInv' /\ Ahead' = Ahead
      BY <2>3 DEF FreshInv, SamplerInv, Ahead, Saving
    <2> QED
      BY <2>3, <2>4, <2>5, FreshKept, FreshTypes
  <1>2. CASE StartGeneration(w)
    <2>1. /\ worker[w] = "waiting"
          /\ worker' = [worker EXCEPT ![w] = "generating"]
          /\ job' = [job EXCEPT ![w].step = globalStep, ![w].weights = sampler]
          /\ UNCHANGED <<pc, afterSave, globalStep, batch, model, sampler>>
          /\ buffer' = buffer
      BY <1>2 DEF StartGeneration, trainerVars, weightVars
    <2>2. /\ Generating' = Generating \cup {w} /\ w \notin Generating
          /\ \A v \in Generating : job'[v] = job[v]
      BY <2>1, FreshTypes DEF Generating
    <2>3. job'[w].step = globalStep /\ job'[w].weights = sampler
      <3>1. job[w] \in Group
        BY <2>1 DEF AdmissionInv, WorkersInEpoch
      <3> QED
        BY <2>1, <3>1, FreshTypes DEF Group
    <2>4. InFlight' = InFlight \cup {job'[w]}
      BY <2>1, <2>2 DEF InFlight
    <2>5. SamplerInv' /\ Ahead' = Ahead
      BY <2>1 DEF FreshInv, SamplerInv, Ahead, Saving
    <2>6. pc = "sync" => Ahead = 1 /\ MaxStalenessSteps # 0
      <3>1. ASSUME pc = "sync", MaxStalenessSteps = 0
            PROVE  FALSE
        <4>1. InFlightBound'
          BY AdmissionBoundsFlight, PTL
        <4>2. Unannounced' = MiniBatchSize
          BY <2>1, <3>1 DEF Unannounced
        <4>3. BufferSize = MiniBatchSize
          BY <3>1, BufferIsBatch
        <4>4. Cardinality(Generating') = Cardinality(Generating) + 1
          BY <2>2, GeneratingFinite, FS_AddElement
        <4>5. Cardinality(Generating') \in Nat \ {0}
          BY <4>4, GeneratingFinite
        <4>6. Len(buffer') \in Nat /\ Len(batch') \in Nat
          BY <2>1, FreshTypes, LenProperties
        <4>7. Len(buffer') + Len(batch') + MiniBatchSize + Cardinality(Generating')
                <= MiniBatchSize
          <5>1. BufferSize' = BufferSize
            BY DEF BufferSize
          <5> QED
            BY <4>1, <4>2, <4>3, <5>1 DEF InFlightBound
        <4> QED
          BY <4>5, <4>6, <4>7
      <3> QED
        BY <3>1 DEF Ahead
    <2>7. Fresh(job'[w])
      BY <2>3, <2>6, FreshTypes DEF FreshInv, SamplerInv, Fresh
    <2>8. \A g \in InFlight' : Fresh(g)
      BY <2>4, <2>7 DEF FreshInv
    <2> QED
      BY <2>1, <2>5, <2>8 DEF FreshInv, Fresh
  <1>3. CASE EnqueueGroup(w)
    <2>1. CASE Len(buffer) < BufferSize
      <3>1. /\ worker[w] = "generating"
            /\ worker' = [worker EXCEPT ![w] = "pulling"]
            /\ job' = [job EXCEPT ![w] = None]
            /\ buffer' = Append(buffer, job[w])
            /\ UNCHANGED <<pc, afterSave, globalStep, batch, model, sampler>>
        BY <1>3, <2>1 DEF EnqueueGroup, trainerVars, weightVars
      <3>2. /\ Generating' = Generating \ {w} /\ w \in Generating
            /\ \A v \in Generating' : job'[v] = job[v]
        BY <3>1, FreshTypes DEF Generating
      <3>3. {buffer'[i] : i \in DOMAIN buffer'}
              = {buffer[i] : i \in DOMAIN buffer} \cup {job[w]}
        <4>1. buffer \in Seq(Group) /\ job[w] \in Group
          BY <3>2, FreshTypes
        <4>2. /\ Len(buffer) \in Nat /\ DOMAIN buffer = 1..Len(buffer)
              /\ DOMAIN buffer' = 1..(Len(buffer) + 1)
              /\ buffer'[Len(buffer) + 1] = job[w]
              /\ \A i \in 1..Len(buffer) : buffer'[i] = buffer[i]
          BY <3>1, <4>1
        <4> HIDE <3>1
        <4> QED
          BY <4>2
      <3>4. InFlight' \subseteq InFlight
        BY <3>1, <3>2, <3>3 DEF InFlight
      <3>5. SamplerInv' /\ Ahead' = Ahead
        BY <3>1 DEF FreshInv, SamplerInv, Ahead, Saving
      <3> QED
        BY <3>1, <3>4, <3>5, FreshKept, FreshTypes
    <2> QED
      BY <1>3, <2>1, FailingFresh DEF EnqueueGroup
  <1> QED
    BY <1>1, <1>2, <1>3 DEF WorkerNext

LEMMA LaunchFresh ==
  ASSUME AdmissionInv, FreshInv, StartFresh \/ Resume
  PROVE  FreshInv'
  <1>1. /\ \A w \in Workers : worker[w] = "stopped"
        /\ buffer = << >> /\ batch = << >> /\ pc = "down"
    BY DEF AdmissionInv, WorkersInEpoch, OutsideEpoch, NothingInMemory, StartFresh, Resume
  <1>2. CASE StartFresh
    <2>1. SamplerInv'
      BY <1>2 DEF StartFresh, FreshInv, SamplerInv, weightVars
    <2> QED
      BY <1>1, <1>2, <2>1, NothingFresh DEF StartFresh
  <1>3. CASE Resume
    <2>1. CASE UNCHANGED <<batch, buffer, worker>> /\ SamplerInv'
      BY <1>1, <2>1, NothingFresh
    <2>2. CASE Fail("checkpoint incomplete")
      BY <2>2, FailingFresh
    <2> QED
      BY <1>3, <2>1, <2>2 DEF Resume, SamplerInv
  <1> QED
    BY <1>2, <1>3

LEMMA CollectingFresh ==
  ASSUME AdmissionInv, AdmissionInv', FreshInv, KeepGroup \/ DropGroup \/ ExhaustEpoch
  PROVE  FreshInv'
  <1> SUFFICES ASSUME ~ \E reason : Fail(reason)
               PROVE  FreshInv'
    BY FailingFresh
  <1>1. /\ UNCHANGED <<globalStep, worker, job, model, sampler>>
        /\ pc = "collect" /\ pc' # "sync"
        /\ Ahead' = 0 /\ Ahead = 0
    BY DEF KeepGroup, DropGroup, ExhaustEpoch, trainerVars, weightVars, SaveThen, Ahead,
           Saving
  <1>2. SamplerInv'
    BY <1>1 DEF FreshInv, SamplerInv
  <1>3. Generating' = Generating
    BY <1>1 DEF Generating
  <1>4. ASSUME buffer # << >>
        PROVE  /\ {Tail(buffer)[i] : i \in DOMAIN Tail(buffer)}
                     \subseteq {buffer[i] : i \in DOMAIN buffer}
               /\ Head(buffer) \in {buffer[i] : i \in DOMAIN buffer}
               /\ Head(buffer) \in Group
    <2> DEFINE t == Tail(buffer)
    <2>1. /\ Len(buffer) \in Nat \ {0} /\ DOMAIN buffer = 1..Len(buffer)
          /\ Head(buffer) \in Group /\ Head(buffer) = buffer[1]
          /\ DOMAIN t = 1..(Len(buffer) - 1)
          /\ \A i \in 1..(Len(buffer) - 1) : t[i] = buffer[i + 1]
      BY <1>4, FreshTypes, HeadTailProperties, EmptySeq, LenProperties
    <2> HIDE DEF t
    <2> QED
      BY <2>1 DEF t
  <1>5. InFlight' \subseteq InFlight
    <2>1. CASE KeepGroup
      <3>1. buffer # << >> /\ buffer' = Tail(buffer) /\ batch' = Append(batch, Head(buffer))
        BY <2>1 DEF KeepGroup
      <3>2. {batch'[i] : i \in DOMAIN batch'}
              = {batch[i] : i \in DOMAIN batch} \cup {Head(buffer)}
        <4>1. batch \in Seq(Group) /\ Head(buffer) \in Group
          BY <1>4, <3>1, FreshTypes
        <4>2. /\ Len(batch) \in Nat /\ DOMAIN batch = 1..Len(batch)
              /\ DOMAIN batch' = 1..(Len(batch) + 1)
              /\ batch'[Len(batch) + 1] = Head(buffer)
              /\ \A i \in 1..Len(batch) : batch'[i] = batch[i]
          BY <3>1, <4>1
        <4> HIDE <3>1
        <4> QED
          BY <4>2
      <3>3. {job'[w] : w \in Generating'} = {job[w] : w \in Generating}
        BY <1>1, <1>3
      <3>4. InFlight' = {job[w] : w \in Generating} \cup {buffer'[i] : i \in DOMAIN buffer'}
                          \cup {batch[i] : i \in DOMAIN batch} \cup {Head(buffer)}
        BY <3>2, <3>3 DEF InFlight
      <3>5. {buffer'[i] : i \in DOMAIN buffer'} \subseteq {buffer[i] : i \in DOMAIN buffer}
        BY <1>4, <3>1
      <3> QED
        BY <1>4, <3>1, <3>4, <3>5 DEF InFlight
    <2>2. CASE DropGroup
      <3>1. buffer # << >> /\ buffer' = Tail(buffer) /\ batch' = batch
        BY <2>2 DEF DropGroup, trainerVars
      <3> QED
        BY <1>1, <1>3, <1>4, <3>1 DEF InFlight
    <2>3. CASE ExhaustEpoch
      <3>1. buffer' = buffer /\ batch' = << >>
        BY <2>3 DEF ExhaustEpoch
      <3>2. DOMAIN batch' = {}
        BY <3>1
      <3> QED
        BY <1>1, <1>3, <3>1, <3>2 DEF InFlight
    <2> QED
      BY <2>1, <2>2, <2>3
  <1> QED
    BY <1>1, <1>2, <1>5, FreshKept, FreshTypes

LEMMA RunTrainingFresh ==
  ASSUME AdmissionInv, AdmissionInv', FreshInv, RunTraining
  PROVE  FreshInv'
  <1>1. CASE Markable(batch)
    <2>1. /\ UNCHANGED <<globalStep, worker, job, sampler, buffer>>
          /\ pc = "collect" /\ pc' = "sync" /\ batch' = << >>
          /\ model' = Train(model, epoch, UidsOf(batch))
          /\ Len(batch) = MiniBatchSize
      BY <1>1 DEF RunTraining
    <2>2. model'.steps = model.steps + 1
      BY <2>1 DEF Train
    <2>3. SamplerInv'
      BY <2>1, <2>2, FreshTypes DEF FreshInv, SamplerInv
    <2>4. Ahead = 0 /\ Ahead' = 1
      BY <2>1 DEF Ahead, Saving
    <2>5. InFlight' \subseteq InFlight
      <3>1. Generating' = Generating /\ DOMAIN batch' = {}
        BY <2>1 DEF Generating
      <3> QED
        BY <2>1, <3>1 DEF InFlight
    <2>6. MaxStalenessSteps = 0 => InFlight' = {}
      <3> SUFFICES ASSUME MaxStalenessSteps = 0 PROVE InFlight' = {}
        OBVIOUS
      <3>1. InFlightBound /\ Unannounced \in Nat /\ BufferSize = MiniBatchSize
        BY AdmissionBoundsFlight, CountsTyped, BufferIsBatch
      <3>2. /\ Len(buffer) \in Nat /\ Cardinality(Generating) \in Nat
            /\ Len(buffer) + MiniBatchSize + Unannounced + Cardinality(Generating)
                 <= MiniBatchSize
        BY <2>1, <3>1, CountsTyped, GeneratingFinite DEF InFlightBound
      <3>3. Len(buffer) = 0 /\ Cardinality(Generating) = 0
        BY <3>1, <3>2
      <3>4. buffer = << >> /\ Generating = {}
        BY <3>3, FreshTypes, GeneratingFinite, FS_EmptySet, EmptySeq
      <3>5. Generating' = {} /\ DOMAIN buffer' = {} /\ DOMAIN batch' = {}
        BY <2>1, <3>4 DEF Generating
      <3> QED
        BY <3>5 DEF InFlight
    <2>7. ASSUME NEW g \in InFlight'
          PROVE  /\ globalStep' + Ahead' - g.step >= model'.steps - g.weights
                 /\ MaxStalenessSteps # 0
      <3>1. globalStep + Ahead - g.step >= model.steps - g.weights
        BY <2>5 DEF FreshInv, Fresh
      <3>2. g.step \in Nat /\ g.weights \in Nat
        BY <2>5, FreshTypes
      <3>3. globalStep' + Ahead' - g.step >= model'.steps - g.weights
        BY <2>1, <2>2, <2>4, <3>1, <3>2, FreshTypes
      <3> QED
        BY <2>6, <3>3
    <2> QED
      BY <2>3, <2>7 DEF FreshInv, Fresh
  <1>2. CASE ~Markable(batch)
    BY <1>2, FailingFresh DEF RunTraining
  <1> QED
    BY <1>1, <1>2

(* A step of the loop that leaves the groups and the policy alone.         *)
LEMMA LoopFresh ==
  ASSUME AdmissionInv, AdmissionInv', FreshInv,
         StartEpoch \/ SyncWeights \/ AdvanceStep \/ StopAtMaxSteps \/ EndEpoch
  PROVE  FreshInv'
  <1> SUFFICES ASSUME ~ \E reason : Fail(reason)
               PROVE  FreshInv'
    BY FailingFresh
  <1>1. /\ UNCHANGED <<batch, buffer, model>>
        /\ pc # "sync" => sampler' = sampler
        /\ pc = "sync" => sampler' = model.steps
        /\ pc' # "sync"
    BY DEF StartEpoch, SyncWeights, AdvanceStep, StopAtMaxSteps, EndEpoch, weightVars,
           SaveThen, NextIteration
  <1>2. SamplerInv'
    BY <1>1 DEF FreshInv, SamplerInv
  <1>3. globalStep' + Ahead' >= globalStep + Ahead
    <2>1. globalStep \in Nat /\ globalStep' \in Nat
      BY DEF AdmissionInv, TypeOK, LoopTypeOK
    <2>2. (Ahead = 0 \/ Ahead = 1) /\ (Ahead' = 0 \/ Ahead' = 1)
      BY DEF Ahead
    <2>3. CASE SyncWeights
      <3>1. globalStep' = globalStep /\ Ahead' = 1
        BY <2>3 DEF SyncWeights, Ahead, Saving
      <3> QED
        BY <2>1, <2>2, <3>1
    <2>4. CASE AdvanceStep \/ StopAtMaxSteps
      <3>1. globalStep' = globalStep + 1
        BY <2>4 DEF AdvanceStep, StopAtMaxSteps
      <3> QED
        BY <2>1, <2>2, <3>1
    <2>5. CASE StartEpoch \/ EndEpoch
      <3>1. globalStep' = globalStep /\ pc \in {"epoch", "epilogue"}
        BY <2>5 DEF StartEpoch, EndEpoch
      <3>2. Ahead = 0
        BY <3>1 DEF Ahead, Saving
      <3> QED
        BY <2>1, <2>2, <3>1, <3>2
    <2> QED
      BY <2>3, <2>4, <2>5
  <1>4. \A w \in Workers : worker'[w] = "generating" => worker[w] = "generating" /\ job'[w] = job[w]
    BY FreshTypes DEF StartEpoch, SyncWeights, AdvanceStep, StopAtMaxSteps, EndEpoch
  <1>5. InFlight' \subseteq InFlight
    BY <1>1, <1>4 DEF InFlight, Generating
  <1> QED
    BY <1>1, <1>2, <1>3, <1>5, FreshKept

LEMMA SavingFresh ==
  ASSUME AdmissionInv, AdmissionInv', FreshInv,
         SaveWeights \/ SaveTracker \/ Cleanup \/ SaveFullyAsyncState
  PROVE  FreshInv'
  <1> SUFFICES ASSUME ~ \E reason : Fail(reason)
               PROVE  FreshInv'
    BY FailingFresh
  <1>1. /\ UNCHANGED <<afterSave, globalStep, batch, buffer, worker, job, model, sampler>>
        /\ pc \in Saving
        /\ pc' \in Saving \/ pc' = afterSave
        /\ afterSave \in {"none", "advance", "epilogue", "done"}
    BY DEF SaveWeights, SaveTracker, Cleanup, SaveFullyAsyncState, weightVars, Saving,
           AdmissionInv, TypeOK, LoopTypeOK
  <1>2. SamplerInv'
    BY <1>1 DEF FreshInv, SamplerInv, Saving
  <1>3. Ahead' = Ahead
    BY <1>1 DEF Ahead, Saving
  <1>4. InFlight' = InFlight
    BY <1>1 DEF InFlight, Generating
  <1> QED
    BY <1>1, <1>2, <1>3, <1>4, FreshKept, FreshTypes

LEMMA NextFresh ==
  ASSUME AdmissionInv, AdmissionInv', FreshInv, [Next]_vars
  PROVE  FreshInv'
  <1>1. ASSUME Crash \/ Relaunch PROVE FreshInv'
    BY <1>1, FreshLost DEF Crash, Relaunch
  <1>2. ASSUME Terminated \/ UNCHANGED vars PROVE FreshInv'
    <2>1. /\ UNCHANGED <<pc, afterSave, globalStep, batch, buffer, worker, job>>
          /\ UNCHANGED <<model, sampler>>
      BY <1>2 DEF Terminated, vars, trainerVars, weightVars
    <2>2. InFlight' = InFlight /\ Ahead' = Ahead /\ SamplerInv'
      BY <2>1 DEF InFlight, Generating, Ahead, Saving, FreshInv, SamplerInv
    <2> QED
      BY <2>1, <2>2, FreshKept, FreshTypes
  <1> QED
    BY <1>1, <1>2, WorkersFresh, LaunchFresh, CollectingFresh, RunTrainingFresh, LoopFresh,
       SavingFresh DEF Next, TrainerNext

(* Every group that is generated, waits or is collected has missed no more *)
(* updates than its stamp tells, and none without a staleness budget.      *)
THEOREM FreshCorrect == Spec => []FreshInv
  <1>1. Init => FreshInv
    <2> SUFFICES ASSUME Init PROVE FreshInv
      OBVIOUS
    <2>1. SamplerInv
      BY DEF Init, SamplerInv, FreshModel
    <2>2. Generating = {} /\ DOMAIN buffer = {} /\ DOMAIN batch = {}
      BY DEF Init, Generating
    <2>3. InFlight = {}
      BY <2>2 DEF InFlight
    <2> QED
      BY <2>1, <2>3 DEF FreshInv
  <1>2. AdmissionInv /\ AdmissionInv' /\ FreshInv /\ [Next]_vars => FreshInv'
    BY NextFresh
  <1> QED
    BY <1>1, <1>2, AdmissionCorrect, PTL DEF Spec

(* The staleness that is reported for a batch, global_step minus the step  *)
(* at which generation was scheduled, is at least the number of updates    *)
(* that the weights of each group missed.                                  *)
THEOREM StalenessNotUnderstatedHolds == Spec => []StalenessNotUnderstated
  <1>1. AdmissionInv /\ FreshInv => StalenessNotUnderstated
    <2> SUFFICES ASSUME AdmissionInv, FreshInv, pc = "collect", NEW i \in DOMAIN batch
                 PROVE  globalStep - batch[i].step >= model.steps - batch[i].weights
      BY DEF StalenessNotUnderstated
    <2>1. Ahead = 0
      BY DEF Ahead, Saving
    <2>2. Fresh(batch[i])
      BY DEF FreshInv, InFlight
    <2>3. globalStep \in Nat /\ batch[i].step \in Nat
      BY FreshTypes DEF InFlight
    <2>4. globalStep + Ahead - batch[i].step >= model.steps - batch[i].weights
      BY <2>2 DEF Fresh
    <2> QED
      BY <2>1, <2>3, <2>4
  <1> QED
    BY <1>1, FreshCorrect, AdmissionCorrect, PTL

(* With max_staleness_steps = 0 nothing is trained on that older weights   *)
(* than the present ones generated.                                        *)
THEOREM SynchronousWhenZeroHolds == Spec => []SynchronousWhenZero
  <1>1. AdmissionInv /\ FreshInv => SynchronousWhenZero
    <2> SUFFICES ASSUME AdmissionInv, FreshInv, MaxStalenessSteps = 0
                 PROVE  /\ \A i \in 1..(Len(buffer) + Len(batch)) :
                             (buffer \o batch)[i].weights = model.steps
                        /\ \A w \in Generating : job[w].weights = model.steps
      BY DEF SynchronousWhenZero
    <2>1. \A g \in InFlight : g.weights = model.steps
      BY DEF FreshInv, Fresh
    <2>2. ASSUME NEW i \in 1..(Len(buffer) + Len(batch))
          PROVE  (buffer \o batch)[i] \in InFlight
      <3>1. /\ Len(buffer) \in Nat /\ Len(batch) \in Nat
            /\ DOMAIN buffer = 1..Len(buffer) /\ DOMAIN batch = 1..Len(batch)
            /\ (buffer \o batch)[i]
                 = IF i <= Len(buffer) THEN buffer[i] ELSE batch[i - Len(buffer)]
        BY FreshTypes, ConcatProperties, LenProperties
      <3>2. i <= Len(buffer) => i \in DOMAIN buffer
        BY <3>1
      <3>3. ~(i <= Len(buffer)) => i - Len(buffer) \in DOMAIN batch
        BY <3>1
      <3> QED
        BY <3>1, <3>2, <3>3 DEF InFlight
    <2> QED
      BY <2>1, <2>2 DEF InFlight
  <1> QED
    BY <1>1, FreshCorrect, AdmissionCorrect, PTL
=============================================================================
