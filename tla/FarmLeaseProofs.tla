-------------------------- MODULE FarmLeaseProofs --------------------------
(***************************************************************************)
(* Proofs about FarmLease, for any acquires, calls, gradings, engines and  *)
(* number of uploads: a request is executed with the weights it was        *)
(* admitted for, and every step of the farm is one of OneTenant or changes *)
(* nothing there.                                                          *)
(*                                                                         *)
(* The argument: the lease changes hands only in a handler that holds the  *)
(* upload lock and finds nothing active (LockInv), so whatever is active   *)
(* belongs to the lease in force (WorkInv); it is cancelled, and so given  *)
(* up, only when that lease is over (CancelInv); an engine takes an adapter*)
(* only while admission is closed and nothing is active, so what a lease   *)
(* has published is what its engines hold (WeightsInv); and an acquire     *)
(* whose cancellation has begun is recorded as cancelled (RecordInv).      *)
(***************************************************************************)
EXTENDS FarmLease, TLAPS

USE FarmAssumption DEF FarmAssumption

(* Who waits for a drain holds the lock, and so does an upload, which keeps*)
(* admission closed from its drain on.                                     *)
LockInv ==
  /\ \A a \in Acquires : acquire[a] = "draining" => Holds(a, "acquire")
  /\ \A a \in Acquires : cancel[a] = "draining" => Holds(a, "cancel")
  /\ lock.does \in {"drain", "load"} => updating /\ lock.by = lease
  /\ lock.does = "load" => Idle
  /\ lock.does = "read" => version < MaxUploads

WorkInv == \A c \in Active : lease # None /\ call[c].lease = lease

(* Work is cancelled, and then given up, under a lease that is over.        *)
CancelInv == (\E c \in Calls : call[c].state = "cancelling") => Over

RecordInv == \A a \in Acquires : cancel[a] # "idle" => record[a] = "cancelled"

(* An upload that failed leaves the engines apart, and admission closed.   *)
PublishedLoaded ==
  ~ updating /\ published # 0 => \A e \in Engines : loaded[e] = published

WeightsInv == PublishedLoaded /\ WeightsFixed

IInv == TypeOK /\ LockInv /\ WorkInv /\ CancelInv /\ RecordInv /\ WeightsInv

LEMMA InitHolds == Init => IInv
  <1> SUFFICES ASSUME Init PROVE IInv
    OBVIOUS
  <1>1. LeaseTypeOK /\ HandlerTypeOK /\ AdapterTypeOK /\ WatchTypeOK
    <2>1. 0 \in 0..MaxUploads
      OBVIOUS
    <2>2. Free \in [by : Acquires \cup {None},
                    does : {"nothing", "acquire", "cancel", "release", "read",
                            "drain", "load"}]
      BY DEF Free
    <2>3. LeaseTypeOK
      BY <2>1, Zenon DEF Init, LeaseTypeOK
    <2>4. AdapterTypeOK
      BY <2>1, Zenon DEF Init, AdapterTypeOK
    <2>5. WatchTypeOK
      BY Zenon DEF Init, WatchTypeOK
    <2>6. HandlerTypeOK
      BY <2>2 DEF Init, HandlerTypeOK
    <2> QED
      BY <2>3, <2>4, <2>5, <2>6
  <1>2. CallTypeOK /\ GradingTypeOK
    <2>1. /\ Call("new", None, None, 0) \in
               [state : {"new", "running", "cancelling", "abandoned", "over"},
                lease : Acquires \cup {None}, engine : Engines \cup {None},
                adapter : 0..MaxUploads]
          /\ Grading("new", None) \in [state : {"new", "checked", "running", "over"},
                                       lease : Acquires \cup {None}]
      BY DEF Call, Grading
    <2> QED
      BY <2>1 DEF Init, CallTypeOK, GradingTypeOK
  <1>3. Active = {}
    BY DEF Init, Active, Call
  <1>4. LockInv /\ RecordInv
    BY <1>3 DEF Init, LockInv, RecordInv, Holds, Free
  <1>5. WorkInv /\ CancelInv /\ WeightsInv
    BY <1>3 DEF Init, WorkInv, CancelInv, WeightsInv, PublishedLoaded, WeightsFixed, Call
  <1> QED
    BY <1>1, <1>2, <1>4, <1>5 DEF IInv, TypeOK

----------------------------------------------------------------------------
(* Lemmas about what steps leave alone.                                    *)

LEMMA CancelAllType == GradingTypeOK /\ CancelAll => GradingTypeOK'
  BY DEF GradingTypeOK, CancelAll, Grading

LEMMA CloseLeaseType ==
  LeaseTypeOK /\ GradingTypeOK /\ CloseLease => LeaseTypeOK' /\ GradingTypeOK' /\ Over'
  BY CancelAllType DEF LeaseTypeOK, CloseLease, Over

LEMMA Unchanged ==
  ASSUME TypeOK
  PROVE  /\ UNCHANGED leaseVars => LeaseTypeOK' /\ Over' = Over
         /\ UNCHANGED adapterVars => AdapterTypeOK'
         /\ UNCHANGED call => CallTypeOK'
         /\ UNCHANGED grading => GradingTypeOK'
         /\ UNCHANGED watchVars => WatchTypeOK'
  BY DEF TypeOK, LeaseTypeOK, AdapterTypeOK, CallTypeOK, GradingTypeOK, WatchTypeOK,
         Over, leaseVars, adapterVars, watchVars

(* A handler that touches neither the lease nor the work.                  *)
LEMMA HandlerStep ==
  ASSUME IInv, UNCHANGED <<lease, published, call, adapterVars, watchVars>>,
         Over => Over', LeaseTypeOK', GradingTypeOK', HandlerTypeOK', LockInv', RecordInv'
  PROVE  IInv'
  <1>1. UNCHANGED <<updating, version, loaded, Active>>
    BY DEF adapterVars, Active
  <1>2. WorkInv' /\ CancelInv'
    BY <1>1 DEF IInv, WorkInv, CancelInv
  <1>3. WeightsInv'
    BY <1>1 DEF IInv, WeightsInv, PublishedLoaded, WeightsFixed
  <1> QED
    BY <1>2, <1>3, Unchanged DEF IInv, TypeOK

(* The lease is granted or given up by a handler that found nothing active.*)
LEMMA HandoverStep ==
  ASSUME IInv, Idle, NEW a \in Acquires \cup {None}, SetLease(a),
         UNCHANGED <<call, grading, adapterVars, watchVars>>,
         HandlerTypeOK', LockInv', RecordInv'
  PROVE  IInv'
  <1>1. UNCHANGED <<updating, version, loaded, Active>> /\ published' = 0 /\ Active = {}
    BY DEF adapterVars, Active, SetLease, Idle
  <1>2. WorkInv' /\ CancelInv' /\ WeightsInv'
    BY <1>1 DEF WorkInv, CancelInv, WeightsInv, PublishedLoaded, WeightsFixed, Active
  <1>3. LeaseTypeOK'
    <2>1. 0 \in 0..MaxUploads
      OBVIOUS
    <2> QED
      BY <2>1, Zenon DEF SetLease, LeaseTypeOK
  <1> QED
    BY <1>2, <1>3, Unchanged DEF IInv, TypeOK

(* Work ends, or is cancelled, and nothing is admitted.                    *)
LEMMA WorkShrinks ==
  ASSUME IInv, UNCHANGED <<lease, published, lock, adapterVars, requestVars>>,
         LeaseTypeOK', CallTypeOK', GradingTypeOK', WatchTypeOK', CancelInv',
         \A c \in Active' : /\ c \in Active
                            /\ call'[c].lease = call[c].lease
                            /\ call'[c].engine = call[c].engine
                            /\ call'[c].adapter = call[c].adapter
  PROVE  IInv'
  <1>1. UNCHANGED <<updating, version, loaded, record, acquire, cancel>>
    BY DEF adapterVars, requestVars
  <1>2. LockInv'
    BY <1>1 DEF IInv, LockInv, Holds, Idle
  <1>3. WorkInv' /\ RecordInv'
    BY <1>1 DEF IInv, WorkInv, RecordInv
  <1>4. WeightsInv'
    BY <1>1 DEF IInv, WeightsInv, PublishedLoaded, WeightsFixed
  <1>5. HandlerTypeOK'
    BY <1>1 DEF IInv, TypeOK, HandlerTypeOK
  <1> QED
    BY <1>2, <1>3, <1>4, <1>5, Unchanged DEF IInv, TypeOK

(* Only the grading, the deadline or the watchdog are touched.             *)
LEMMA ElsewhereStep ==
  ASSUME IInv, UNCHANGED <<lease, published, lock, adapterVars, requestVars, call>>,
         Over => Over', LeaseTypeOK', GradingTypeOK', WatchTypeOK'
  PROVE  IInv'
  <1>1. CallTypeOK' /\ CancelInv'
    BY Unchanged DEF IInv, CancelInv
  <1> QED
    BY <1>1, WorkShrinks DEF Active

----------------------------------------------------------------------------
(* The handlers of acquires.                                               *)

LEMMA AcquireStep ==
  ASSUME IInv, NEW a \in Acquires,
         AcquireArrives(a) \/ AcquireLocks(a) \/ AcquireDrained(a) \/ AcquireCut(a)
  PROVE  IInv'
  <1> USE DEF IInv, TypeOK
  <1>1. CASE AcquireArrives(a)
    <2>1. HandlerTypeOK'
      BY <1>1 DEF AcquireArrives, HandlerTypeOK
    <2>2. LockInv'
      BY <1>1 DEF HandlerTypeOK, AcquireArrives, LockInv, Holds, Idle, Active, leaseVars,
                  adapterVars, workVars
    <2>3. RecordInv'
      BY <1>1 DEF HandlerTypeOK, AcquireArrives, RecordInv
    <2> QED
      BY <1>1, <2>1, <2>2, <2>3, HandlerStep, Unchanged
         DEF AcquireArrives, leaseVars, workVars
  <1>2. CASE AcquireLocks(a)
    <2>1. /\ UNCHANGED <<cancel, adapterVars, watchVars, lease, published, call>>
          /\ lock = Free /\ acquire[a] = "waiting"
      BY <1>2 DEF AcquireLocks, Refuse, CloseLease, leaseVars, workVars
    <2>2. /\ \/ lock' = lock /\ acquire' = [acquire EXCEPT ![a] = "ended"]
             \/ /\ lock' = [by |-> a, does |-> "acquire"]
                /\ acquire' = [acquire EXCEPT ![a] = "draining"]
          /\ record' = record \/ record' = [record EXCEPT ![a] = "cancelled"]
      BY <1>2, <2>1 DEF AcquireLocks, Refuse, Take
    <2>3. LeaseTypeOK' /\ GradingTypeOK' /\ (Over => Over')
      BY <1>2, CloseLeaseType, Unchanged DEF AcquireLocks, Refuse, workVars
    <2>4. HandlerTypeOK'
      BY <2>1, <2>2 DEF HandlerTypeOK
    <2>5. LockInv'
      <3>1. \A b \in Acquires : acquire[b] # "draining" /\ cancel[b] # "draining"
        BY <2>1 DEF LockInv, Holds, Free
      <3>2. /\ lock'.does \in {"nothing", "acquire"}
            /\ acquire'[a] = "draining" => Holds(a, "acquire")'
            /\ \A b \in Acquires \ {a} : acquire'[b] = acquire[b]
        BY <2>1, <2>2 DEF HandlerTypeOK, Holds, Free
      <3> QED
        BY <2>1, <3>1, <3>2 DEF LockInv
    <2>6. RecordInv'
      BY <2>1, <2>2 DEF HandlerTypeOK, RecordInv
    <2> QED
      BY <2>1, <2>3, <2>4, <2>5, <2>6, HandlerStep
  <1>3. CASE AcquireDrained(a)
    <2>1. /\ UNCHANGED <<cancel, adapterVars, watchVars, call, grading>> /\ lock' = Free
          /\ Holds(a, "acquire") /\ acquire[a] = "draining"
      BY <1>3 DEF LockInv, AcquireDrained, Drained, Refuse, GrantLease, workVars
    <2>2. CASE Refuse(a)
      <3>1. HandlerTypeOK'
        BY <2>1, <2>2 DEF HandlerTypeOK, Refuse, Free
      <3>2. LockInv'
        BY <2>1, <2>2 DEF HandlerTypeOK, LockInv, Holds, Free, Idle, Active, Refuse,
                          leaseVars, adapterVars
      <3>3. RecordInv'
        BY <2>1, <2>2 DEF HandlerTypeOK, RecordInv, Refuse
      <3> QED
        BY <2>1, <2>2, <3>1, <3>2, <3>3, HandlerStep, Unchanged DEF Refuse, leaseVars
    <2>3. CASE Idle /\ GrantLease(a)
      <3>1. HandlerTypeOK'
        BY <2>1, <2>3 DEF HandlerTypeOK, GrantLease, Free
      <3>2. LockInv'
        BY <2>1, <2>3 DEF HandlerTypeOK, LockInv, Holds, Free, Idle, Active, GrantLease,
                          SetLease, adapterVars
      <3>3. RecordInv'
        BY <2>1, <2>3 DEF RecordInv, GrantLease
      <3> QED
        BY <2>1, <2>3, <3>1, <3>2, <3>3, HandoverStep DEF GrantLease
    <2> QED
      BY <1>3, <2>2, <2>3 DEF AcquireDrained, Drained
  <1>4. CASE AcquireCut(a)
    <2>1. HandlerTypeOK'
      BY <1>4 DEF AcquireCut, HandlerTypeOK, Free
    <2>2. LockInv'
      BY <1>4 DEF HandlerTypeOK, AcquireCut, LockInv, Holds, Free, Idle, Active, leaseVars,
                  adapterVars, workVars
    <2>3. RecordInv'
      BY <1>4 DEF AcquireCut, RecordInv
    <2> QED
      BY <1>4, <2>1, <2>2, <2>3, HandlerStep, Unchanged DEF AcquireCut, leaseVars, workVars
  <1> QED
    BY <1>1, <1>2, <1>3, <1>4

(* The handlers of cancellations and releases.                             *)

LEMMA CancelStep ==
  ASSUME IInv, NEW a \in Acquires,
         CancelArrives(a) \/ CancelLocks(a) \/ CancelDrained(a) \/ CancelCut(a)
  PROVE  IInv'
  <1> USE DEF IInv, TypeOK
  <1>1. CASE CancelArrives(a)
    <2>1. /\ UNCHANGED <<acquire, lock, adapterVars, watchVars, lease, published, call>>
          /\ record' = [record EXCEPT ![a] = "cancelled"]
          /\ cancel' = [cancel EXCEPT ![a] = CancelState(a)]
          /\ CancelState(a) \in {"waiting", "acked"}
      BY <1>1 DEF CancelArrives, CloseLease, leaseVars, workVars, CancelState
    <2>2. LeaseTypeOK' /\ GradingTypeOK' /\ (Over => Over')
      BY <1>1, CloseLeaseType, Unchanged DEF CancelArrives, workVars
    <2>3. HandlerTypeOK'
      BY <2>1 DEF HandlerTypeOK
    <2>4. LockInv'
      BY <2>1 DEF HandlerTypeOK, LockInv, Holds, Idle, Active, adapterVars
    <2>5. RecordInv'
      BY <2>1 DEF HandlerTypeOK, RecordInv
    <2> QED
      BY <2>1, <2>2, <2>3, <2>4, <2>5, HandlerStep
  <1>2. CASE CancelLocks(a)
    <2>1. /\ UNCHANGED <<leaseVars, record, acquire, adapterVars, workVars, watchVars>>
          /\ lock = Free /\ lock' = [by |-> a, does |-> "cancel"]
          /\ cancel[a] = "waiting" /\ cancel' = [cancel EXCEPT ![a] = "draining"]
      BY <1>2 DEF CancelLocks, Take
    <2>2. HandlerTypeOK'
      BY <2>1 DEF HandlerTypeOK
    <2>3. LockInv'
      BY <2>1 DEF HandlerTypeOK, LockInv, Holds, Free, Idle, Active
    <2>4. RecordInv'
      BY <2>1 DEF HandlerTypeOK, RecordInv
    <2> QED
      BY <2>1, <2>2, <2>3, <2>4, HandlerStep, Unchanged DEF leaseVars, workVars
  <1>3. CASE CancelDrained(a)
    <2>1. /\ UNCHANGED <<record, acquire, adapterVars, workVars, watchVars>>
          /\ lock' = Free /\ Holds(a, "cancel") /\ Idle
          /\ cancel[a] = "draining" /\ cancel' = [cancel EXCEPT ![a] = "acked"]
      BY <1>3 DEF CancelDrained, LockInv
    <2>2. HandlerTypeOK'
      BY <2>1 DEF HandlerTypeOK, Free
    <2>3. LockInv'
      BY <2>1 DEF HandlerTypeOK, LockInv, Holds, Free, Idle, Active
    <2>4. RecordInv'
      BY <2>1 DEF HandlerTypeOK, RecordInv
    <2>5. CASE SetLease(None)
      BY <2>1, <2>2, <2>3, <2>4, <2>5, HandoverStep DEF workVars
    <2>6. CASE UNCHANGED leaseVars
      BY <2>1, <2>2, <2>3, <2>4, <2>6, HandlerStep, Unchanged DEF leaseVars, workVars
    <2> QED
      BY <1>3, <2>5, <2>6 DEF CancelDrained
  <1>4. CASE CancelCut(a)
    <2>1. /\ UNCHANGED <<leaseVars, record, acquire, adapterVars, workVars, watchVars>>
          /\ lock' = IF cancel[a] = "draining" THEN Free ELSE lock
          /\ cancel[a] # "idle" /\ cancel' = [cancel EXCEPT ![a] = "idle"]
      BY <1>4 DEF CancelCut
    <2>2. HandlerTypeOK'
      BY <2>1 DEF HandlerTypeOK, Free
    <2>3. LockInv'
      BY <2>1 DEF HandlerTypeOK, LockInv, Holds, Free, Idle, Active, leaseVars,
                  adapterVars, workVars
    <2>4. RecordInv'
      BY <2>1 DEF HandlerTypeOK, RecordInv
    <2> QED
      BY <2>1, <2>2, <2>3, <2>4, HandlerStep, Unchanged DEF leaseVars, workVars
  <1> QED
    BY <1>1, <1>2, <1>3, <1>4

LEMMA ReleaseStep ==
  ASSUME IInv, NEW a \in Acquires,
         ReleaseLocks(a) \/ ReleaseDrained(a) \/ ReleaseCut(a)
  PROVE  IInv'
  <1> USE DEF IInv, TypeOK
  <1>1. CASE ReleaseLocks(a)
    <2>1. /\ UNCHANGED <<requestVars, adapterVars, watchVars, lease, published, call>>
          /\ lock = Free /\ lock' = [by |-> a, does |-> "release"]
      BY <1>1 DEF ReleaseLocks, CloseLease, Take
    <2>2. LeaseTypeOK' /\ GradingTypeOK' /\ Over'
      BY <1>1, CloseLeaseType DEF ReleaseLocks
    <2>3. HandlerTypeOK'
      BY <2>1 DEF HandlerTypeOK, requestVars
    <2>4. LockInv' /\ RecordInv'
      BY <2>1 DEF HandlerTypeOK, LockInv, RecordInv, Holds, Free, Idle, Active, requestVars
    <2> QED
      BY <2>1, <2>2, <2>3, <2>4, HandlerStep
  <1>2. CASE ReleaseDrained(a) \/ ReleaseCut(a)
    <2>1. /\ UNCHANGED <<requestVars, adapterVars, workVars, watchVars>>
          /\ Holds(a, "release") /\ lock' = Free
          /\ (Idle /\ SetLease(None)) \/ UNCHANGED leaseVars
      BY <1>2 DEF ReleaseDrained, ReleaseCut
    <2>2. HandlerTypeOK'
      BY <2>1 DEF HandlerTypeOK, Free, requestVars
    <2>3. LockInv' /\ RecordInv'
      BY <2>1 DEF HandlerTypeOK, LockInv, RecordInv, Holds, Free, Idle, Active, requestVars
    <2>4. CASE Idle /\ SetLease(None)
      BY <2>1, <2>2, <2>3, <2>4, HandoverStep DEF workVars
    <2>5. CASE UNCHANGED leaseVars
      BY <2>1, <2>2, <2>3, <2>5, HandlerStep, Unchanged DEF leaseVars, workVars
    <2> QED
      BY <2>1, <2>4, <2>5
  <1> QED
    BY <1>1, <1>2

----------------------------------------------------------------------------
(* The upload of an adapter.                                               *)

LEMMA UploadStep ==
  ASSUME IInv, NEW a \in Acquires,
         UploadLocks(a) \/ UploadRead(a) \/ UploadRefused(a) \/ UploadDrained(a)
         \/ UploadFails(a)
  PROVE  IInv'
  <1> USE DEF IInv, TypeOK
  <1>1. CASE UploadLocks(a)
    <2>1. /\ UNCHANGED <<leaseVars, requestVars, adapterVars, workVars, watchVars>>
          /\ lock = Free /\ lock' = [by |-> a, does |-> "read"] /\ version < MaxUploads
      BY <1>1 DEF UploadLocks, Take
    <2>2. HandlerTypeOK'
      BY <2>1 DEF HandlerTypeOK, requestVars
    <2>3. LockInv' /\ RecordInv'
      BY <2>1 DEF HandlerTypeOK, LockInv, RecordInv, Holds, Free, Idle, Active,
                  requestVars, adapterVars
    <2> QED
      BY <2>1, <2>2, <2>3, HandlerStep, Unchanged DEF leaseVars, workVars
  <1>2. CASE UploadRead(a)
    <2>1. /\ UNCHANGED <<leaseVars, requestVars, loaded, workVars, watchVars>>
          /\ Holds(a, "read") /\ lock' = [by |-> a, does |-> "drain"] /\ lease = a
          /\ updating' = TRUE /\ version' = version + 1
      BY <1>2 DEF UploadRead, Pass, Live
    <2>2. version \in Nat /\ version < MaxUploads
      BY <2>1 DEF LockInv, Holds, AdapterTypeOK
    <2>3. AdapterTypeOK'
      <3>1. version' \in 0..MaxUploads
        BY <2>1, <2>2
      <3> QED
        BY <2>1, <3>1 DEF AdapterTypeOK
    <2>4. HandlerTypeOK'
      BY <2>1 DEF HandlerTypeOK, requestVars
    <2>5. LockInv' /\ RecordInv'
      BY <2>1 DEF HandlerTypeOK, LockInv, RecordInv, Holds, Idle, Active, requestVars,
                  leaseVars
    <2>6. WorkInv' /\ CancelInv' /\ WeightsInv'
      BY <2>1, Unchanged DEF WorkInv, CancelInv, WeightsInv, PublishedLoaded, WeightsFixed,
                             Active, leaseVars, workVars
    <2> QED
      BY <2>1, <2>3, <2>4, <2>5, <2>6, Unchanged DEF leaseVars, workVars
  <1>3. CASE UploadRefused(a) \/ UploadFails(a)
    <2>1. /\ UNCHANGED <<leaseVars, requestVars, adapterVars, workVars, watchVars>>
          /\ Holds(a, "read") \/ Holds(a, "load")
          /\ lock' = Free
      BY <1>3 DEF UploadRefused, UploadFails
    <2>2. lock' = Free /\ lock.does \in {"read", "load"}
      BY <1>3 DEF UploadRefused, UploadFails, Holds
    <2>3. HandlerTypeOK'
      BY <2>1, <2>2 DEF HandlerTypeOK, requestVars, Free
    <2>4. LockInv' /\ RecordInv'
      BY <2>1, <2>2 DEF HandlerTypeOK, LockInv, RecordInv, Holds, Free, Idle, Active,
                        requestVars, adapterVars
    <2> QED
      BY <2>1, <2>3, <2>4, HandlerStep, Unchanged DEF leaseVars, workVars
  <1>4. CASE UploadDrained(a)
    <2>1. /\ UNCHANGED <<leaseVars, requestVars, adapterVars, workVars, watchVars>>
          /\ Idle /\ Holds(a, "drain") /\ lock' = [by |-> a, does |-> "load"]
      BY <1>4 DEF UploadDrained, FanoutMayStart, Pass
    <2>2. HandlerTypeOK'
      BY <2>1 DEF HandlerTypeOK, requestVars
    <2>3. LockInv' /\ RecordInv'
      BY <2>1 DEF HandlerTypeOK, LockInv, RecordInv, Holds, Idle, Active, requestVars,
                  adapterVars, leaseVars, workVars
    <2> QED
      BY <2>1, <2>2, <2>3, HandlerStep, Unchanged DEF leaseVars, workVars
  <1> QED
    BY <1>1, <1>2, <1>3, <1>4

(* Nothing is active while the engines take an adapter.                    *)
LEMMA FanoutStep ==
  ASSUME IInv, NEW a \in Acquires,
         (\E e \in Engines : LoadAdapter(a, e)) \/ UploadCommits(a)
  PROVE  IInv'
  <1> USE DEF IInv, TypeOK
  <1>1. Holds(a, "load") /\ Active = {} /\ updating /\ version \in 0..MaxUploads
    BY DEF LoadAdapter, UploadCommits, Holds, LockInv, Idle, AdapterTypeOK
  <1>2. Active' = {}
    BY <1>1 DEF LoadAdapter, UploadCommits, workVars, Active
  <1>3. WorkInv' /\ CancelInv' /\ WeightsFixed'
    BY <1>2 DEF WorkInv, CancelInv, WeightsFixed, Active
  <1>4. ASSUME NEW e \in Engines, LoadAdapter(a, e) PROVE IInv'
    <2>1. /\ UNCHANGED <<leaseVars, requestVars, lock, updating, version, workVars, watchVars>>
          /\ loaded' = [loaded EXCEPT ![e] = version]
      BY <1>4 DEF LoadAdapter
    <2>2. AdapterTypeOK' /\ HandlerTypeOK'
      BY <1>1, <2>1 DEF AdapterTypeOK, HandlerTypeOK, requestVars
    <2>3. LockInv' /\ RecordInv' /\ PublishedLoaded'
      BY <1>1, <1>2, <2>1 DEF LockInv, RecordInv, PublishedLoaded, Holds, Idle,
                               requestVars, leaseVars
    <2> QED
      BY <1>3, <2>1, <2>2, <2>3, Unchanged DEF WeightsInv, workVars
  <1>5. CASE UploadCommits(a)
    <2>1. /\ UNCHANGED <<lease, releasing, expired, requestVars, version, loaded,
                         workVars, watchVars>>
          /\ \A e \in Engines : loaded[e] = version
          /\ updating' = FALSE /\ published' = version /\ lock' = Free
      BY <1>5 DEF UploadCommits
    <2>2. LeaseTypeOK' /\ HandlerTypeOK'
      BY <1>1, <2>1 DEF LeaseTypeOK, HandlerTypeOK, Free, requestVars
    <2>3. AdapterTypeOK'
      BY <2>1, Zenon DEF AdapterTypeOK
    <2>4. LockInv' /\ RecordInv' /\ PublishedLoaded'
      BY <1>1, <2>1 DEF LockInv, RecordInv, PublishedLoaded, Holds, Free, requestVars,
                        HandlerTypeOK
    <2> QED
      BY <1>3, <2>1, <2>2, <2>3, <2>4, Unchanged DEF WeightsInv, workVars
  <1> QED
    BY <1>4, <1>5

----------------------------------------------------------------------------
(* Requests, grading, and the watchdog.                                    *)

LEMMA CallStep ==
  ASSUME IInv, NEW c \in Calls,
         CallEnds(c) \/ CallCancelled(c) \/ EngineStops(c)
         \/ \E e \in Engines : Admit(c, e)
  PROVE  IInv'
  <1> USE DEF IInv, TypeOK
  <1>1. ASSUME NEW e \in Engines, Admit(c, e) PROVE IInv'
    <2>1. /\ UNCHANGED <<leaseVars, requestVars, lock, adapterVars, grading, watchVars>>
          /\ lease # None /\ ~ updating
          /\ call' = [call EXCEPT ![c] = Call("running", lease, e, published)]
      BY <1>1 DEF Admit
    <2>2. /\ call'[c] = Call("running", lease, e, published)
          /\ \A b \in Calls \ {c} : call'[b] = call[b]
      BY <2>1 DEF CallTypeOK
    <2>3. CallTypeOK'
      <3>1. Call("running", lease, e, published) \in
               [state : {"new", "running", "cancelling", "abandoned", "over"},
                lease : Acquires \cup {None}, engine : Engines \cup {None},
                adapter : 0..MaxUploads]
        BY DEF Call, LeaseTypeOK
      <3> QED
        BY <2>1, <3>1 DEF CallTypeOK
    <2>4. Active' = Active \cup {c}
      BY <2>2 DEF Active, Call
    <2>5. HandlerTypeOK' /\ LockInv' /\ RecordInv'
      BY <2>1 DEF HandlerTypeOK, LockInv, RecordInv, Holds, requestVars, adapterVars, leaseVars
    <2>6. WorkInv' /\ CancelInv'
      BY <2>1, <2>2, <2>4, Unchanged DEF WorkInv, CancelInv, Call, Active, leaseVars
    <2>7. PublishedLoaded'
      BY <2>1 DEF WeightsInv, PublishedLoaded, leaseVars, adapterVars
    <2>8. WeightsFixed'
      <3>1. published # 0 => loaded[e] = published
        BY <2>1 DEF WeightsInv, PublishedLoaded
      <3> QED
        BY <2>1, <2>2, <2>4, <3>1 DEF WeightsInv, WeightsFixed, Call, Active, adapterVars
    <2> QED
      BY <2>1, <2>3, <2>5, <2>6, <2>7, <2>8, Unchanged DEF WeightsInv
  <1>2. ASSUME NEW from, NEW to, MoveCall(c, from, to),
               to = CallOver \/ to = GivenUp(c)
        PROVE  IInv'
    <2>1. /\ UNCHANGED <<leaseVars, requestVars, lock, adapterVars, grading, watchVars>>
          /\ call' = [call EXCEPT ![c] = to]
      BY <1>2 DEF MoveCall
    <2>2. to \in [state : {"new", "running", "cancelling", "abandoned", "over"},
                  lease : Acquires \cup {None}, engine : Engines \cup {None},
                  adapter : 0..MaxUploads]
      <3>1. /\ call[c].lease \in Acquires \cup {None}
            /\ call[c].engine \in Engines \cup {None} /\ 0 \in 0..MaxUploads
        BY DEF CallTypeOK
      <3> QED
        BY <1>2, <3>1 DEF CallOver, GivenUp, Call
    <2>3. to.state \in {"over", "abandoned"}
      BY <1>2 DEF CallOver, GivenUp, Call
    <2>4. CallTypeOK'
      BY <2>1, <2>2 DEF CallTypeOK
    <2>5. \A b \in Active' : b \in Active /\ call'[b] = call[b]
      BY <2>1, <2>3 DEF Active, CallTypeOK
    <2>6. CancelInv'
      BY <2>1, <2>5, Unchanged DEF CancelInv, Active
    <2> QED
      BY <2>1, <2>4, <2>5, <2>6, WorkShrinks, Unchanged DEF leaseVars
  <1> QED
    BY <1>1, <1>2 DEF CallEnds, CallCancelled, EngineStops

LEMMA GradingStep ==
  ASSUME IInv, NEW g \in Gradings,
         GradingChecked(g) \/ GradingSubmitted(g) \/ GradingEnds(g)
  PROVE  IInv'
  <1> USE DEF IInv, TypeOK
  <1>1. PICK to \in [state : {"new", "checked", "running", "over"},
                     lease : Acquires \cup {None}] :
          /\ grading' = [grading EXCEPT ![g] = to]
          /\ UNCHANGED <<leaseVars, requestVars, lock, adapterVars, call, watchVars>>
    <2>1. /\ Grading("checked", lease) \in [state : {"new", "checked", "running", "over"},
                                            lease : Acquires \cup {None}]
          /\ Grading("running", grading[g].lease) \in
                [state : {"new", "checked", "running", "over"}, lease : Acquires \cup {None}]
          /\ Grading("over", None) \in [state : {"new", "checked", "running", "over"},
                                        lease : Acquires \cup {None}]
      BY DEF Grading, LeaseTypeOK, GradingTypeOK
    <2> QED
      BY <2>1 DEF GradingChecked, GradingSubmitted, GradingEnds, MoveGrading
  <1>2. GradingTypeOK'
    BY <1>1 DEF GradingTypeOK
  <1> QED
    BY <1>1, <1>2, ElsewhereStep, Unchanged DEF leaseVars

LEMMA WatchStep ==
  ASSUME IInv,
         LeaseExpires \/ WatchNotices \/ WatchForgets \/ WatchCancels \/ WatchQuarantines
         \/ \E e \in Engines : WatchCancelsEngine(e)
  PROVE  IInv'
  <1> USE DEF IInv, TypeOK
  <1>1. CASE LeaseExpires
    <2>1. LeaseTypeOK' /\ Over'
      BY <1>1, Zenon DEF LeaseExpires, LeaseTypeOK, Over
    <2> QED
      BY <1>1, <2>1, ElsewhereStep, Unchanged DEF LeaseExpires, workVars
  <1>2. CASE WatchNotices \/ WatchForgets
    <2>1. WatchTypeOK'
      BY <1>2, Zenon DEF WatchNotices, WatchForgets, WatchTypeOK, LeaseTypeOK
    <2> QED
      BY <1>2, <2>1, ElsewhereStep, Unchanged
         DEF WatchNotices, WatchForgets, workVars, leaseVars
  <1>3. CASE WatchQuarantines
    <2>1. LeaseTypeOK' /\ WatchTypeOK' /\ Over'
      BY <1>3, Zenon DEF WatchQuarantines, LeaseTypeOK, WatchTypeOK, Over
    <2> QED
      BY <1>3, <2>1, ElsewhereStep, Unchanged DEF WatchQuarantines, workVars
  <1>4. CASE WatchCancels
    <2>1. /\ UNCHANGED <<leaseVars, requestVars, lock, adapterVars>>
          /\ call' = [c \in Calls |->
                IF call[c].state = "running" /\ call[c].lease = lease
                THEN [call[c] EXCEPT !.state = "cancelling"] ELSE call[c]]
      BY <1>4 DEF WatchCancels
    <2>2. WatchTypeOK'
      BY <1>4, Zenon DEF WatchCancels, WatchTypeOK
    <2>3. CallTypeOK'
      BY <2>1 DEF CallTypeOK
    <2>4. \A c \in Active' : /\ c \in Active
                             /\ call'[c].lease = call[c].lease
                             /\ call'[c].engine = call[c].engine
                             /\ call'[c].adapter = call[c].adapter
      BY <2>1 DEF Active, CallTypeOK
    <2>5. GradingTypeOK' /\ CancelInv'
      BY <1>4, <2>1, CancelAllType, Unchanged DEF WatchCancels, Abandoned, CancelInv
    <2> QED
      BY <2>1, <2>2, <2>3, <2>4, <2>5, WorkShrinks, Unchanged DEF leaseVars
  <1>5. ASSUME NEW e \in Engines, WatchCancelsEngine(e) PROVE IInv'
    <2>1. PICK posted \in SUBSET Calls :
            /\ UNCHANGED <<leaseVars, requestVars, lock, adapterVars, grading>>
            /\ call' = [c \in Calls |-> IF c \in posted THEN CallOver ELSE call[c]]
      BY <1>5 DEF WatchCancelsEngine
    <2>2. WatchTypeOK'
      BY <1>5, Zenon DEF WatchCancelsEngine, WatchTypeOK
    <2>3. CallTypeOK' /\ CallOver.state = "over"
      <3>1. 0 \in 0..MaxUploads
        OBVIOUS
      <3>2. CallOver \in [state : {"new", "running", "cancelling", "abandoned", "over"},
                          lease : Acquires \cup {None}, engine : Engines \cup {None},
                          adapter : 0..MaxUploads]
        BY <3>1 DEF CallOver, Call
      <3> QED
        BY <2>1, <3>2 DEF CallTypeOK, CallOver, Call
    <2>4. \A c \in Active' : c \in Active /\ call'[c] = call[c]
      BY <2>1, <2>3 DEF Active, CallTypeOK
    <2>5. CancelInv'
      BY <2>1, <2>4, Unchanged DEF CancelInv, Active
    <2> QED
      BY <2>1, <2>2, <2>3, <2>4, <2>5, WorkShrinks, Unchanged DEF leaseVars
  <1> QED
    BY <1>1, <1>2, <1>3, <1>4, <1>5

LEMMA StepHolds == IInv /\ [Next]_vars => IInv'
  <1> SUFFICES ASSUME IInv, [Next]_vars PROVE IInv'
    OBVIOUS
  <1>1. CASE UNCHANGED vars
    <2>1. UNCHANGED <<leaseVars, record, acquire, cancel, lock, adapterVars, call,
                      grading, watchVars>>
      BY <1>1 DEF vars, requestVars, workVars
    <2>2. HandlerTypeOK' /\ LockInv' /\ RecordInv'
      BY <2>1 DEF IInv, TypeOK, HandlerTypeOK, LockInv, RecordInv, Holds, Idle, Active,
                  leaseVars, adapterVars
    <2> QED
      BY <2>1, <2>2, HandlerStep, Unchanged DEF IInv, leaseVars
  <1>2. CASE Next
    BY <1>2, AcquireStep, CancelStep, ReleaseStep, UploadStep, FanoutStep, CallStep,
       GradingStep, WatchStep DEF Next
  <1> QED
    BY <1>1, <1>2

THEOREM FarmInvariant == Spec => []IInv
  BY InitHolds, StepHolds, PTL DEF Spec

(* Whatever uploads, fails half-way, is cancelled or handed over while a   *)
(* request runs, it is executed with the weights it was admitted for.      *)
THEOREM WeightsStay == Spec => []WeightsFixed
  <1>1. IInv => WeightsFixed
    BY DEF IInv, WeightsInv
  <1> QED
    BY <1>1, FarmInvariant, PTL

----------------------------------------------------------------------------
(* Every step is one of OneTenant, or none there.                          *)

LEMMA WorkingOwned == IInv => Working \subseteq {lease} \ {None}
  BY DEF IInv, LockInv, WorkInv, Working, Holds

(* A step of Work: the lease does not change hands, one that is over takes *)
(* no new work, and only its work is given up.                             *)
WorkStep ==
  /\ UNCHANGED <<lease, Granted, Dismissed>>
  /\ Over => Over' /\ Working' \subseteq Working
  /\ Leftover' \subseteq IF Over THEN Leftover \cup Working ELSE Leftover

LEMMA WorkOnly == IInv' /\ WorkStep => Abstract!Work
  <1> SUFFICES ASSUME IInv', WorkStep PROVE Abstract!Work
    OBVIOUS
  <1>1. Working' \subseteq {lease'} \ {None}
    BY DEF IInv, LockInv, WorkInv, Working, Holds
  <1> QED
    BY <1>1 DEF WorkStep, Abstract!Work

LEMMA CallsKept ==
  UNCHANGED call => Leftover' = Leftover /\ Active' = Active
  BY DEF Leftover, Unstopped, Active

LEMMA GrantSteps ==
  ASSUME IInv, NEW a \in Acquires, AcquireDrained(a), Idle, GrantLease(a),
         record[a] # "cancelled"
  PROVE  Abstract!Next
  <1>1. Holds(a, "acquire") /\ acquire[a] = "draining" /\ cancel[a] = "idle"
    BY DEF IInv, LockInv, RecordInv, AcquireDrained
  <1>2. Working = {} /\ Working' = {}
    BY <1>1 DEF GrantLease, Working, Idle, Active, Holds, workVars, Free
  <1>3. Granted' = Granted \cup {a} /\ a \notin Granted
    BY <1>1 DEF IInv, TypeOK, HandlerTypeOK, GrantLease, Granted
  <1>4. Dismissed' = Dismissed /\ a \notin Dismissed
    BY <1>1 DEF AcquireDrained, Dismissed
  <1>5. lease' = a /\ Over' = FALSE /\ Leftover' = Leftover
    BY CallsKept DEF GrantLease, SetLease, Over, workVars
  <1> QED
    BY <1>2, <1>3, <1>4, <1>5 DEF Abstract!Next, Abstract!Grant

LEMMA DismissSteps ==
  ASSUME IInv, IInv', NEW a \in Acquires, CancelArrives(a) \/ CancelDrained(a)
  PROVE  Abstract!Next
  <1>1. CASE CancelArrives(a) /\ lease # a
    <2>1. UNCHANGED <<lease, call, lock, acquire>> /\ cancel' = [cancel EXCEPT ![a] = "acked"]
      BY <1>1 DEF CancelArrives, CancelState, leaseVars, workVars
    <2>2. UNCHANGED <<Working, Granted>> /\ Dismissed' = Dismissed \cup {a}
      BY <2>1 DEF IInv, TypeOK, HandlerTypeOK, Working, Active, Holds, Granted, Dismissed
    <2>3. a \notin Working
      BY <1>1, WorkingOwned
    <2>4. Over' = Over /\ Leftover' = Leftover
      BY <1>1, <2>1, CallsKept DEF CancelArrives, Over, leaseVars
    <2> QED
      BY <1>1, <2>1, <2>2, <2>3, <2>4 DEF Abstract!Next, Abstract!Dismiss
  <1>2. CASE CancelArrives(a) /\ lease = a
    <2>1. /\ UNCHANGED <<lease, acquire, lock, call>> /\ cancel[a] = "idle" /\ releasing'
          /\ cancel' = [cancel EXCEPT ![a] = "waiting"]
      BY <1>2 DEF CancelArrives, CancelState, CloseLease
    <2>2. UNCHANGED <<Granted, Dismissed>>
      BY <2>1 DEF IInv, TypeOK, HandlerTypeOK, Granted, Dismissed
    <2>3. Over' /\ UNCHANGED <<Working, Leftover>>
      BY <2>1, CallsKept DEF Over, Working, Holds
    <2> QED
      BY <2>1, <2>2, <2>3, WorkOnly DEF WorkStep, Abstract!Next
  <1>3. CASE CancelDrained(a)
    <2>1. /\ Holds(a, "cancel") /\ Idle /\ lock' = Free /\ UNCHANGED <<call, acquire>>
          /\ cancel' = [cancel EXCEPT ![a] = "acked"]
          /\ lease' = IF lease = a THEN None ELSE lease
      BY <1>3 DEF IInv, LockInv, CancelDrained, SetLease, leaseVars, workVars
    <2>2. Working = {} /\ Working' = {}
      BY <2>1 DEF Working, Idle, Active, Holds, Free
    <2>3. Granted' = Granted /\ Dismissed' = Dismissed \cup {a}
      BY <2>1 DEF IInv, TypeOK, HandlerTypeOK, Granted, Dismissed
    <2>4. /\ Over' = IF lease = a THEN FALSE ELSE Over
          /\ Leftover' = Leftover
      BY <1>3, <2>1, CallsKept DEF CancelDrained, SetLease, Over, leaseVars
    <2> QED
      BY <2>1, <2>2, <2>3, <2>4 DEF Abstract!Next, Abstract!Dismiss
  <1> QED
    BY <1>1, <1>2, <1>3

LEMMA VacateSteps ==
  ASSUME IInv, NEW a \in Acquires, ReleaseDrained(a)
  PROVE  Abstract!Next
  <1>1. Working = {} /\ Working' = {}
    BY DEF ReleaseDrained, Working, Idle, Active, Holds, Free, workVars
  <1>2. lease' = None /\ Over' = FALSE /\ UNCHANGED <<Granted, Dismissed, Leftover>>
    BY CallsKept DEF ReleaseDrained, SetLease, Over, requestVars, workVars, Granted, Dismissed
  <1> QED
    BY <1>1, <1>2 DEF Abstract!Next, Abstract!Vacate

(* All the other steps of handlers leave the lease and its records.        *)
LEMMA AcquireElsewhere ==
  ASSUME IInv, NEW a \in Acquires,
         \/ AcquireArrives(a) \/ AcquireLocks(a) \/ AcquireCut(a)
         \/ AcquireDrained(a) /\ Refuse(a)
  PROVE  WorkStep
  <1>1. UNCHANGED <<lease, cancel, call>> /\ (Over => Over')
    BY DEF AcquireArrives, AcquireLocks, AcquireCut, AcquireDrained, Refuse, CloseLease,
           leaseVars, workVars, Over
  <1>2. /\ acquire[a] \in {"idle", "waiting", "draining"}
        /\ \/ acquire' = [acquire EXCEPT ![a] = "ended"]
           \/ acquire' = [acquire EXCEPT ![a] = "waiting"]
           \/ acquire' = [acquire EXCEPT ![a] = "draining"]
    BY DEF AcquireArrives, AcquireLocks, AcquireCut, AcquireDrained, Refuse
  <1>3. lock' = lock \/ lock' = Free \/ lock' = [by |-> a, does |-> "acquire"]
    BY DEF AcquireArrives, AcquireLocks, AcquireCut, AcquireDrained, Refuse, Take
  <1>4. UNCHANGED <<Granted, Dismissed>>
    BY <1>1, <1>2 DEF IInv, TypeOK, HandlerTypeOK, Granted, Dismissed
  <1>5. Working' \subseteq Working /\ Leftover' = Leftover
    BY <1>1, <1>3, CallsKept DEF Working, Holds, Free
  <1> QED
    BY <1>1, <1>4, <1>5 DEF WorkStep

(* An upload drains under a live lease, and loads under the lease it has   *)
(* drained for.                                                            *)
LEMMA HandlersElsewhere ==
  ASSUME IInv, NEW a \in Acquires,
         \/ CancelLocks(a) \/ CancelCut(a) \/ ReleaseLocks(a) \/ ReleaseCut(a)
         \/ UploadLocks(a) \/ UploadRead(a) \/ UploadRefused(a) \/ UploadDrained(a)
         \/ UploadCommits(a) \/ UploadFails(a) \/ \E e \in Engines : LoadAdapter(a, e)
  PROVE  WorkStep
  <1>1. UNCHANGED <<lease, acquire, call>> /\ (Over => Over')
    BY DEF CancelLocks, CancelCut, ReleaseLocks, ReleaseCut, UploadLocks, UploadRead,
           UploadRefused, UploadDrained, UploadCommits, UploadFails, LoadAdapter,
           CloseLease, leaseVars, requestVars, workVars, Over
  <1>2. \/ UNCHANGED cancel
        \/ /\ cancel[a] \in {"waiting", "draining"}
           /\ \/ cancel' = [cancel EXCEPT ![a] = "draining"]
              \/ cancel' = [cancel EXCEPT ![a] = "idle"]
    BY DEF CancelLocks, CancelCut, ReleaseLocks, ReleaseCut, UploadLocks, UploadRead,
           UploadRefused, UploadDrained, UploadCommits, UploadFails, LoadAdapter,
           requestVars
  <1>3. \/ lock' = lock \/ lock' = Free
        \/ lock' \in {[by |-> a, does |-> d] : d \in {"cancel", "release", "read"}}
        \/ lock' = [by |-> a, does |-> "drain"] /\ ~ Over
        \/ lock' = [by |-> a, does |-> "load"] /\ Holds(a, "drain")
    BY DEF CancelLocks, CancelCut, ReleaseLocks, ReleaseCut, UploadLocks, UploadRead,
           UploadRefused, UploadDrained, UploadCommits, UploadFails, LoadAdapter,
           Take, Pass, Live
  <1>4. UNCHANGED <<Granted, Dismissed>>
    BY <1>1, <1>2 DEF IInv, TypeOK, HandlerTypeOK, Granted, Dismissed
  <1>5. Over => Working' \subseteq Working
    BY <1>1, <1>3, CallsKept DEF Working, Holds, Free
  <1> QED
    BY <1>1, <1>4, <1>5, CallsKept DEF WorkStep

(* A live lease admits; one that is over has work cancelled and given up.  *)
LEMMA CallsElsewhere ==
  ASSUME IInv, NEW c \in Calls,
         CallEnds(c) \/ CallCancelled(c) \/ EngineStops(c) \/ \E e \in Engines : Admit(c, e)
  PROVE  WorkStep
  <1>1. UNCHANGED <<lease, requestVars, lock, Over>>
    BY DEF CallEnds, CallCancelled, EngineStops, Admit, MoveCall, leaseVars, Over
  <1>2. UNCHANGED <<Granted, Dismissed>>
    BY <1>1 DEF requestVars, Granted, Dismissed
  <1>3. \A b \in Calls \ {c} : call'[b] = call[b]
    BY DEF IInv, TypeOK, CallTypeOK, CallEnds, CallCancelled, EngineStops, Admit, MoveCall
  <1>4. CASE \E e \in Engines : Admit(c, e)
    <2>1. ~ Over /\ call'[c].state = "running"
      BY <1>4 DEF IInv, TypeOK, CallTypeOK, Admit, Live, Call
    <2>2. Leftover' \subseteq Leftover
      BY <1>3, <2>1 DEF Leftover, Unstopped
    <2> QED
      BY <1>1, <1>2, <2>1, <2>2 DEF WorkStep
  <1>5. CASE CallEnds(c) \/ EngineStops(c)
    <2>1. call'[c].state = "over"
      BY <1>5 DEF IInv, TypeOK, CallTypeOK, CallEnds, EngineStops, MoveCall, CallOver, Call
    <2>2. Leftover' \subseteq Leftover /\ Working' \subseteq Working
      BY <1>1, <1>3, <2>1 DEF Leftover, Unstopped, Working, Active, Holds
    <2> QED
      BY <1>1, <1>2, <2>2 DEF WorkStep
  <1>6. CASE CallCancelled(c)
    <2>1. /\ call[c].state = "cancelling"
          /\ call'[c].state = "abandoned" /\ call'[c].lease = call[c].lease
      BY <1>6 DEF IInv, TypeOK, CallTypeOK, CallCancelled, MoveCall, GivenUp, Call
    <2>2. Over
      BY <2>1 DEF IInv, CancelInv
    <2>3. Leftover' \subseteq Leftover \cup Working /\ Working' \subseteq Working
      BY <1>1, <1>3, <2>1 DEF Leftover, Unstopped, Working, Active, Holds
    <2> QED
      BY <1>1, <1>2, <2>2, <2>3 DEF WorkStep
  <1> QED
    BY <1>4, <1>5, <1>6

LEMMA WatchElsewhere ==
  ASSUME IInv,
         \/ \E g \in Gradings : GradingChecked(g) \/ GradingSubmitted(g) \/ GradingEnds(g)
         \/ LeaseExpires \/ WatchNotices \/ WatchForgets \/ WatchCancels \/ WatchQuarantines
         \/ \E e \in Engines : WatchCancelsEngine(e)
         \/ UNCHANGED vars
  PROVE  WorkStep
  <1>1. UNCHANGED <<lease, requestVars, lock>> /\ (Over => Over')
    BY DEF GradingChecked, GradingSubmitted, GradingEnds, MoveGrading, LeaseExpires,
           WatchNotices, WatchForgets, WatchCancels, WatchQuarantines, WatchCancelsEngine,
           vars, leaseVars, Over
  <1>2. UNCHANGED <<Granted, Dismissed>>
    BY <1>1 DEF requestVars, Granted, Dismissed
  <1>3. \A c \in Calls : \/ call'[c] = call[c]
                         \/ call'[c].state = "over"
                         \/ /\ c \in Active /\ call'[c].state = "cancelling"
                            /\ call'[c].lease = call[c].lease
    <2>1. CASE UNCHANGED call
      BY <2>1
    <2>2. CASE WatchCancels
      BY <2>2 DEF IInv, TypeOK, CallTypeOK, WatchCancels, Active
    <2>3. CASE \E e \in Engines : WatchCancelsEngine(e)
      BY <2>3 DEF IInv, TypeOK, CallTypeOK, WatchCancelsEngine, CallOver, Call
    <2> QED
      BY <2>1, <2>2, <2>3 DEF GradingChecked, GradingSubmitted, GradingEnds, MoveGrading,
         LeaseExpires, WatchNotices, WatchForgets, WatchQuarantines, vars, workVars
  <1>4. Leftover' \subseteq Leftover /\ Working' \subseteq Working
    BY <1>1, <1>3 DEF Leftover, Unstopped, Working, Active, Holds
  <1> QED
    BY <1>1, <1>2, <1>4 DEF WorkStep

LEMMA StepImplements == IInv /\ IInv' /\ [Next]_vars => [Abstract!Next]_(Abstract!vars)
  <1> SUFFICES ASSUME IInv, IInv', [Next]_vars PROVE Abstract!Next
    OBVIOUS
  <1>1. CASE WorkStep
    BY <1>1, WorkOnly DEF Abstract!Next
  <1>2. ASSUME NEW a \in Acquires, AcquireDrained(a) PROVE Abstract!Next
    BY <1>1, <1>2, GrantSteps, AcquireElsewhere DEF AcquireDrained, Drained
  <1>3. ASSUME NEW a \in Acquires, CancelArrives(a) \/ CancelDrained(a)
        PROVE  Abstract!Next
    BY <1>3, DismissSteps
  <1>4. ASSUME NEW a \in Acquires, ReleaseDrained(a) PROVE Abstract!Next
    BY <1>4, VacateSteps
  <1> QED
    BY <1>1, <1>2, <1>3, <1>4, AcquireElsewhere, HandlersElsewhere, CallsElsewhere,
       WatchElsewhere DEF Next

LEMMA InitImplements == Init => Abstract!Init
  BY DEF Init, Abstract!Init, Over, Working, Active, Leftover, Unstopped, Call, Holds, Free,
         Granted, Dismissed

(* Whatever its handlers, its watchdog and the work they wait for do in    *)
(* whatever order: one lease at a time, none granted twice or after its    *)
(* cancellation was acknowledged; neither a handover nor such an           *)
(* acknowledgement while work of the tenant is counted; no work admitted   *)
(* under a lease that is over, and only such work given up uncounted. Work *)
(* given up may outlive its lease on an engine: HandsOverAtRest, which     *)
(* excludes it, does not hold.                                             *)
THEOREM FarmKeepsPromise == Spec => ImplementsOneTenant
  BY InitHolds, StepHolds, InitImplements, StepImplements, PTL
     DEF Spec, ImplementsOneTenant, Abstract!Spec
=============================================================================
