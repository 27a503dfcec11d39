------------------------------ MODULE FarmLease ------------------------------
(***************************************************************************)
(* The ingress of a farm that lends its inference engines: exclusive       *)
(* leases, the drain of admitted work at each handover, the publication of *)
(* an adapter, candidate grading, and the watchdog of abandoned leases.    *)
(*                                                                         *)
(* The ingress is one asyncio process: a step is what a handler does       *)
(* between two awaits.  Its condition protects the lease and the counter   *)
(* of active work and is free between steps; its upload lock is held       *)
(* across them.  A lease is named by the acquire it was granted to         *)
(* (acquire_id is a fresh uuid).  Time is the flag expired: a renewal only *)
(* moves the moment it is set and is not a step.  The caller of any        *)
(* handler but an upload or a generation may disconnect, which cancels it. *)
(***************************************************************************)
EXTENDS Naturals, FiniteSets

CONSTANTS
  Acquires,     (* the acquire requests, one lease each at most            *)
  Calls,        (* generation requests                                     *)
  Gradings,     (* grading requests                                        *)
  Engines,
  MaxUploads,   (* model bound: adapter versions uploaded                  *)
  None

ASSUME FarmAssumption ==
  /\ None \notin Acquires \cup Engines
  /\ MaxUploads \in Nat

VARIABLES
  lease, releasing, expired,
  published,    (* the lease's adapter_name: a version, or 0               *)
  record,       (* acquire_requests                                        *)
  acquire,      (* the handler of each acquire                             *)
  cancel,       (* the handler of its cancellation                         *)
  lock,         (* who holds the upload lock, and what for                 *)
  updating,
  version,      (* the adapter uploaded last; every upload has a new name  *)
  loaded,       (* the adapter in each engine, or 0                        *)
  call,         (* generation requests and what they were admitted under   *)
  grading,      (* grading entries                                         *)
  orphan, cancelled, toCancel, quarantined      (* the lease watchdog      *)

leaseVars == <<lease, releasing, expired, published>>
requestVars == <<record, acquire, cancel>>
adapterVars == <<updating, version, loaded>>
workVars == <<call, grading>>
watchVars == <<orphan, cancelled, toCancel, quarantined>>
vars == <<leaseVars, requestVars, lock, adapterVars, workVars, watchVars>>

Call(state, a, e, adapter) ==
  [state |-> state, lease |-> a, engine |-> e, adapter |-> adapter]

Grading(state, a) == [state |-> state, lease |-> a]

Free == [by |-> None, does |-> "nothing"]

Init ==
  /\ lease = None /\ releasing = FALSE /\ expired = FALSE /\ published = 0
  /\ record = [a \in Acquires |-> "absent"]
  /\ acquire = [a \in Acquires |-> "idle"]
  /\ cancel = [a \in Acquires |-> "idle"]
  /\ lock = Free
  /\ updating = FALSE /\ version = 0 /\ loaded = [e \in Engines |-> 0]
  /\ call = [c \in Calls |-> Call("new", None, None, 0)]
  /\ grading = [g \in Gradings |-> Grading("new", None)]
  /\ orphan = None /\ cancelled = FALSE /\ toCancel = {} /\ quarantined = FALSE

----------------------------------------------------------------------------
(* require_lease, and the work that counts as active.                      *)

Over == releasing \/ expired

Live(a) == ~ quarantined /\ lease = a /\ ~ Over

Active == {c \in Calls : call[c].state \in {"running", "cancelling"}}

Idle == Active = {}

Holds(a, does) == lock = [by |-> a, does |-> does]

Take(a, does) == lock = Free /\ lock' = [by |-> a, does |-> does]

Pass(a, from, to) == Holds(a, from) /\ lock' = [by |-> a, does |-> to]

(* GradingService.cancel_all: every entry under way is cancelled.          *)
CancelAll ==
  grading' = [g \in Gradings |->
    IF grading[g].state = "running" THEN Grading("over", None) ELSE grading[g]]

SetLease(a) ==
  /\ lease' = a
  /\ releasing' = FALSE /\ expired' = FALSE /\ published' = 0

(* The lease closes: nothing more is admitted and its grading is cancelled.*)
CloseLease ==
  /\ releasing' = TRUE
  /\ CancelAll
  /\ UNCHANGED <<lease, expired, published, call>>

----------------------------------------------------------------------------
(* acquire_lease without a lease id.                                       *)

AcquireArrives(a) ==
  /\ acquire[a] = "idle" /\ ~ quarantined
  /\ IF record[a] = "cancelled"
     THEN acquire' = [acquire EXCEPT ![a] = "ended"] /\ UNCHANGED record
     ELSE /\ acquire' = [acquire EXCEPT ![a] = "waiting"]
          /\ record' = [record EXCEPT ![a] = "open"]
  /\ UNCHANGED <<leaseVars, cancel, lock, adapterVars, workVars, watchVars>>

Refuse(a) ==
  /\ acquire' = [acquire EXCEPT ![a] = "ended"]
  /\ record' = [record EXCEPT ![a] = "cancelled"]
  /\ lock' = Free
  /\ UNCHANGED <<leaseVars, workVars>>

(* It has the upload lock: it is refused, or closes the expired lease and  *)
(* waits for its work.                                                     *)
AcquireLocks(a) ==
  /\ acquire[a] = "waiting" /\ lock = Free
  /\ IF record[a] = "cancelled" \/ quarantined \/ (lease # None /\ ~ expired)
     THEN Refuse(a)
     ELSE /\ acquire' = [acquire EXCEPT ![a] = "draining"]
          /\ Take(a, "acquire")
          /\ IF lease = None THEN UNCHANGED <<leaseVars, workVars>> ELSE CloseLease
          /\ UNCHANGED record
  /\ UNCHANGED <<cancel, adapterVars, watchVars>>

GrantLease(a) ==
  /\ SetLease(a)
  /\ acquire' = [acquire EXCEPT ![a] = "granted"]
  /\ lock' = Free
  /\ UNCHANGED <<record, workVars>>

(* Broken variant: the acquire does not look at its record again.          *)
DrainedUnchecked(a) == Idle /\ GrantLease(a)

(* Nothing is active any more, or the acquire was cancelled while waiting. *)
Drained(a) ==
  \/ record[a] = "cancelled" /\ Refuse(a)
  \/ record[a] # "cancelled" /\ Idle /\ GrantLease(a)

AcquireDrained(a) ==
  /\ acquire[a] = "draining"
  /\ Drained(a)
  /\ UNCHANGED <<cancel, adapterVars, watchVars>>

(* The handler is cancelled; its record stays, so no later call can use it.*)
AcquireCut(a) ==
  /\ acquire[a] \in {"waiting", "draining"}
  /\ lock' = IF acquire[a] = "draining" THEN Free ELSE lock
  /\ acquire' = [acquire EXCEPT ![a] = "ended"]
  /\ UNCHANGED <<leaseVars, record, cancel, adapterVars, workVars, watchVars>>

----------------------------------------------------------------------------
(* cancel_acquire and release_lease.                                       *)

(* An acquire that was granted is acknowledged when its work has drained.  *)
CancelState(a) == IF lease = a THEN "waiting" ELSE "acked"

CancelArrives(a) ==
  /\ cancel[a] = "idle"
  /\ record' = [record EXCEPT ![a] = "cancelled"]
  /\ cancel' = [cancel EXCEPT ![a] = CancelState(a)]
  /\ IF lease = a THEN CloseLease ELSE UNCHANGED <<leaseVars, workVars>>
  /\ UNCHANGED <<acquire, lock, adapterVars, watchVars>>

CancelLocks(a) ==
  /\ cancel[a] = "waiting"
  /\ Take(a, "cancel")
  /\ cancel' = [cancel EXCEPT ![a] = "draining"]
  /\ UNCHANGED <<leaseVars, record, acquire, adapterVars, workVars, watchVars>>

(* The lease may have passed to another acquire meanwhile.                 *)
CancelDrained(a) ==
  /\ cancel[a] = "draining" /\ Idle
  /\ IF lease = a THEN SetLease(None) ELSE UNCHANGED leaseVars
  /\ lock' = Free
  /\ cancel' = [cancel EXCEPT ![a] = "acked"]
  /\ UNCHANGED <<record, acquire, adapterVars, workVars, watchVars>>

(* A cancellation that is cut short may be asked for again.                *)
CancelCut(a) ==
  /\ cancel[a] \in {"waiting", "draining"}
  /\ lock' = IF cancel[a] = "draining" THEN Free ELSE lock
  /\ cancel' = [cancel EXCEPT ![a] = "idle"]
  /\ UNCHANGED <<leaseVars, record, acquire, adapterVars, workVars, watchVars>>

(* release_lease, once it has the upload lock; an expired lease may be     *)
(* released too.                                                           *)
ReleaseLocks(a) ==
  /\ lease = a /\ ~ quarantined
  /\ Take(a, "release")
  /\ CloseLease
  /\ UNCHANGED <<requestVars, adapterVars, watchVars>>

(* (The grading it then waits for was cancelled before.)                   *)
ReleaseDrained(a) ==
  /\ Holds(a, "release") /\ Idle
  /\ SetLease(None)
  /\ lock' = Free
  /\ UNCHANGED <<requestVars, adapterVars, workVars, watchVars>>

ReleaseCut(a) ==
  /\ Holds(a, "release")
  /\ lock' = Free
  /\ UNCHANGED <<leaseVars, requestVars, adapterVars, workVars, watchVars>>

----------------------------------------------------------------------------
(* upload_adapter.                                                         *)

UploadLocks(a) ==
  /\ Live(a) /\ version < MaxUploads
  /\ Take(a, "read")
  /\ UNCHANGED <<leaseVars, requestVars, adapterVars, workVars, watchVars>>

(* The archive is read: the lease is looked at again, admission is closed. *)
UploadRead(a) ==
  /\ Live(a)
  /\ Pass(a, "read", "drain")
  /\ updating' = TRUE /\ version' = version + 1
  /\ UNCHANGED <<leaseVars, requestVars, loaded, workVars, watchVars>>

(* The lease is not live any more, or the archive is refused.              *)
UploadRefused(a) ==
  /\ Holds(a, "read")
  /\ lock' = Free
  /\ UNCHANGED <<leaseVars, requestVars, adapterVars, workVars, watchVars>>

(* Broken variant: the fanout does not wait for the work admitted before.  *)
FanoutMayStartEarly == TRUE

FanoutMayStart == Idle

UploadDrained(a) ==
  /\ FanoutMayStart
  /\ Pass(a, "drain", "load")
  /\ UNCHANGED <<leaseVars, requestVars, adapterVars, workVars, watchVars>>

LoadAdapter(a, e) ==
  /\ Holds(a, "load") /\ loaded[e] # version
  /\ loaded' = [loaded EXCEPT ![e] = version]
  /\ UNCHANGED <<leaseVars, requestVars, lock, updating, version, workVars, watchVars>>

UploadCommits(a) ==
  /\ Holds(a, "load") /\ \A e \in Engines : loaded[e] = version
  /\ updating' = FALSE /\ published' = version
  /\ lock' = Free
  /\ UNCHANGED <<lease, releasing, expired, requestVars, version, loaded, workVars, watchVars>>

(* An engine does not take the adapter: admission stays closed.            *)
UploadFails(a) ==
  /\ Holds(a, "load")
  /\ lock' = Free
  /\ UNCHANGED <<leaseVars, requestVars, adapterVars, workVars, watchVars>>

----------------------------------------------------------------------------
(* generate: admitted, it runs to its end whatever its caller does.  A run *)
(* asks for the adapter of its lease when there is one.                    *)

Admit(c, e) ==
  /\ call[c].state = "new"
  /\ lease # None /\ Live(lease) /\ ~ updating
  /\ call' = [call EXCEPT ![c] =
       Call("running", lease, e, published)]
  /\ UNCHANGED <<leaseVars, requestVars, lock, adapterVars, grading, watchVars>>

MoveCall(c, from, to) ==
  /\ call[c].state = from
  /\ call' = [call EXCEPT ![c] = to]
  /\ UNCHANGED <<leaseVars, requestVars, lock, adapterVars, grading, watchVars>>

CallOver == Call("over", None, None, 0)

CallEnds(c) == MoveCall(c, "running", CallOver)

(* The task of a cancelled call leaves the counter, whether or not its     *)
(* engine goes on with the request.                                        *)
GivenUp(c) == Call("abandoned", call[c].lease, call[c].engine, 0)

CallCancelled(c) == MoveCall(c, "cancelling", GivenUp(c))

EngineStops(c) == MoveCall(c, "abandoned", CallOver)

(* grading_submit looks at the lease, reads the request, and only then     *)
(* makes the entry, for the lease it saw.                                  *)
MoveGrading(g, from, to) ==
  /\ grading[g].state = from
  /\ grading' = [grading EXCEPT ![g] = to]
  /\ UNCHANGED <<leaseVars, requestVars, lock, adapterVars, call, watchVars>>

GradingChecked(g) ==
  /\ lease # None /\ Live(lease)
  /\ MoveGrading(g, "new", Grading("checked", lease))

GradingSubmitted(g) == MoveGrading(g, "checked", Grading("running", grading[g].lease))

GradingEnds(g) == MoveGrading(g, "running", Grading("over", None))

----------------------------------------------------------------------------
(* The deadline of the lease, and watch_orphaned_lease.                    *)

LeaseExpires ==
  /\ lease # None /\ ~ expired
  /\ expired' = TRUE
  /\ UNCHANGED <<lease, releasing, published, requestVars, lock, adapterVars,
                 workVars, watchVars>>

UnderWay == {g \in Gradings : grading[g].state = "running"}

Busy == ~ Idle \/ lock # Free \/ UnderWay # {}

(* Broken variant: a lease that a handler closes is left to that handler.  *)
AbandonedUnlessClosing == lease # None /\ expired /\ ~ releasing /\ Busy

Abandoned == lease # None /\ Over /\ Busy

Watching == ~ quarantined /\ toCancel = {}

WatchNotices ==
  /\ Watching /\ Abandoned /\ orphan # lease
  /\ orphan' = lease /\ cancelled' = FALSE
  /\ UNCHANGED <<leaseVars, requestVars, lock, adapterVars, workVars, toCancel,
                 quarantined>>

WatchForgets ==
  /\ Watching /\ ~ Abandoned /\ orphan # None
  /\ orphan' = None /\ cancelled' = FALSE
  /\ UNCHANGED <<leaseVars, requestVars, lock, adapterVars, workVars, toCancel,
                 quarantined>>

(* The grace is over: the tasks of the lease and all grading are cancelled,*)
(* and then the engines one by one.                                        *)
WatchCancels ==
  /\ Watching /\ Abandoned /\ orphan = lease /\ ~ cancelled
  /\ cancelled' = TRUE /\ toCancel' = Engines
  /\ call' = [c \in Calls |->
       IF call[c].state = "running" /\ call[c].lease = lease
       THEN [call[c] EXCEPT !.state = "cancelling"] ELSE call[c]]
  /\ CancelAll
  /\ UNCHANGED <<leaseVars, requestVars, lock, adapterVars, orphan, quarantined>>

(* cancel_inflight disconnects the requests the engine has posted to vLLM, *)
(* whosever they are.  It passes over those that still wait for an adapter *)
(* or in Ray's queue; and when it fails, the failure is only logged.       *)
WatchCancelsEngine(e) ==
  /\ e \in toCancel /\ ~ quarantined
  /\ toCancel' = toCancel \ {e}
  /\ \E posted \in SUBSET {c \in Calls : call[c].engine = e} :
       call' = [c \in Calls |-> IF c \in posted THEN CallOver ELSE call[c]]
  /\ UNCHANGED <<leaseVars, requestVars, lock, adapterVars, grading, orphan,
                 cancelled, quarantined>>

(* farm_drain_timeout is over and the lease is still busy.                 *)
WatchQuarantines ==
  /\ Watching /\ Abandoned /\ orphan = lease /\ cancelled
  /\ quarantined' = TRUE /\ releasing' = TRUE
  /\ UNCHANGED <<lease, expired, published, requestVars, lock, adapterVars,
                 workVars, orphan, cancelled, toCancel>>

Next ==
  \/ \E a \in Acquires :
       \/ AcquireArrives(a) \/ AcquireLocks(a) \/ AcquireDrained(a) \/ AcquireCut(a)
       \/ CancelArrives(a) \/ CancelLocks(a) \/ CancelDrained(a) \/ CancelCut(a)
       \/ ReleaseLocks(a) \/ ReleaseDrained(a) \/ ReleaseCut(a)
       \/ UploadLocks(a) \/ UploadRead(a) \/ UploadRefused(a) \/ UploadDrained(a)
       \/ UploadCommits(a) \/ UploadFails(a) \/ \E e \in Engines : LoadAdapter(a, e)
  \/ \E c \in Calls :
       CallEnds(c) \/ CallCancelled(c) \/ EngineStops(c) \/ \E e \in Engines : Admit(c, e)
  \/ \E g \in Gradings : GradingChecked(g) \/ GradingSubmitted(g) \/ GradingEnds(g)
  \/ LeaseExpires \/ WatchNotices \/ WatchForgets \/ WatchCancels \/ WatchQuarantines
  \/ \E e \in Engines : WatchCancelsEngine(e)

Spec == Init /\ [][Next]_vars

(* Whoever holds the upload lock goes on when what it waits for is there.  *)
HolderGoesOn ==
  \E a \in Acquires :
    \/ AcquireDrained(a) \/ CancelDrained(a) \/ ReleaseDrained(a)
    \/ UploadRead(a) \/ UploadRefused(a) \/ UploadDrained(a) \/ UploadFails(a)

(* The upload lock is first in, first out; its holder goes on, cancelled   *)
(* tasks end, the watchdog watches, and no lease is renewed for ever.  A   *)
(* call that is not cancelled need not end, nor an engine stop.            *)
Fairness ==
  /\ \A a \in Acquires : SF_vars(AcquireLocks(a))
  /\ WF_vars(HolderGoesOn)
  /\ \A c \in Calls : WF_vars(CallCancelled(c))
  /\ WF_vars(LeaseExpires) /\ WF_vars(WatchNotices) /\ WF_vars(WatchCancels)
  /\ WF_vars(\E e \in Engines : WatchCancelsEngine(e))

FairSpec == Spec /\ Fairness

----------------------------------------------------------------------------
LeaseTypeOK ==
  /\ lease \in Acquires \cup {None}
  /\ releasing \in BOOLEAN /\ expired \in BOOLEAN
  /\ published \in 0..MaxUploads

HandlerTypeOK ==
  /\ record \in [Acquires -> {"absent", "open", "cancelled"}]
  /\ acquire \in [Acquires -> {"idle", "waiting", "draining", "granted", "ended"}]
  /\ cancel \in [Acquires -> {"idle", "waiting", "draining", "acked"}]
  /\ lock \in [by : Acquires \cup {None},
               does : {"nothing", "acquire", "cancel", "release", "read", "drain", "load"}]

AdapterTypeOK ==
  /\ updating \in BOOLEAN /\ version \in 0..MaxUploads
  /\ loaded \in [Engines -> 0..MaxUploads]

CallTypeOK ==
  call \in [Calls -> [state : {"new", "running", "cancelling", "abandoned", "over"},
                      lease : Acquires \cup {None}, engine : Engines \cup {None},
                      adapter : 0..MaxUploads]]

GradingTypeOK ==
  grading \in [Gradings -> [state : {"new", "checked", "running", "over"},
                            lease : Acquires \cup {None}]]

WatchTypeOK ==
  /\ orphan \in Acquires \cup {None} /\ toCancel \subseteq Engines
  /\ cancelled \in BOOLEAN /\ quarantined \in BOOLEAN

TypeOK ==
  /\ LeaseTypeOK /\ HandlerTypeOK /\ AdapterTypeOK /\ CallTypeOK /\ GradingTypeOK
  /\ WatchTypeOK

(* What the borrower relies on: the weights cannot change during an        *)
(* admitted request (borrowing.py:486), though adapters are published,     *)
(* fail half-way, and leases pass while requests run.  It is about the     *)
(* requests the ingress counts: one it has given up has no reader.         *)
WeightsFixed ==
  \A c \in Active : call[c].adapter # 0 =>
    loaded[call[c].engine] = call[c].adapter

(* An acquire is answered, or the farm is given up, whatever work hangs.   *)
AcquireAnswered ==
  \A a \in Acquires :
    acquire[a] \in {"waiting", "draining"} ~>
      acquire[a] \in {"granted", "ended"} \/ quarantined

(* Leases follow one another as OneTenant promises.  Counted work is that  *)
(* of admitted calls, and an upload from its drain on; what the watchdog   *)
(* has given up is left over for as long as an engine may execute it.      *)
Working ==
  {a \in Acquires : \/ Holds(a, "drain") \/ Holds(a, "load")
                    \/ \E c \in Active : call[c].lease = a}

Unstopped == {c \in Calls : call[c].state = "abandoned"}

Leftover == {a \in Acquires : \E c \in Unstopped : call[c].lease = a}

Granted == {a \in Acquires : acquire[a] = "granted"}

Dismissed == {a \in Acquires : cancel[a] = "acked"}

Abstract == INSTANCE OneTenant WITH
  holder <- lease, closed <- Over, working <- Working, leftover <- Leftover,
  granted <- Granted, dismissed <- Dismissed

ImplementsOneTenant == Abstract!Spec

(* "Do not grant another owner while an engine might still execute         *)
(* abandoned work" (serving.py:421), and an acknowledged cancellation      *)
(* means that "any granted work" has drained (serving.py:564).             *)
HandsOverAtRest ==
  [][\A a \in Acquires :
       /\ lease # a /\ lease' = a => Unstopped = {}
       /\ cancel[a] = "draining" /\ cancel'[a] = "acked" => a \notin Leftover]_vars

(* cancel_lease_work cancels "in-flight generation admitted under lease"   *)
(* (serving.py:374): no other request's engine work is disconnected.       *)
CancelsOwnWork ==
  [][\A c \in Calls :
       toCancel # {} /\ toCancel' # toCancel /\ call[c].state = "running"
         /\ call'[c].state = "over" => call[c].lease = orphan]_vars

(* "lease release/expiry cancels everything in flight"                     *)
(* (grading_service.py:5): what is graded belongs to the lease in force.   *)
GradingFenced == \A g \in UnderWay : grading[g].lease = lease
=============================================================================
