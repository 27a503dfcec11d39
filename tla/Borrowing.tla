------------------------------ MODULE Borrowing ------------------------------
(***************************************************************************)
(* A trainer that borrows the engines of one of several farms for each     *)
(* sampling phase: it acquires a lease, keeps it by renewals, sends        *)
(* requests under it and releases it, over calls whose answers may be      *)
(* late or lost.                                                           *)
(*                                                                         *)
(* Of each farm only the lease is kept, as OneTenant promises it: FarmLease*)
(* models the rest.  A lease is named by the acquire that asked for it.    *)
(* Time passes in ticks; ttl and valid count what is left of a lease for   *)
(* the farm and for the borrower, uncertain what is left of the time in    *)
(* which the borrower may claim no farm.  A call is served within its      *)
(* timeout or never, but an acquire may wait at the farm for ever.         *)
(***************************************************************************)
EXTENDS Integers, FiniteSets

CONSTANTS
  Farms,
  LeaseTime,    (* external_pool_lease_seconds, in ticks                   *)
  RpcTimeout,   (* external_pool_rpc_timeout, in ticks                     *)
  MaxAcquires,  (* model bound: acquires sent                              *)
  MaxRestarts,  (* model bound: restarts of farms                          *)
  None, Other   (* no lease; the lease of another run                      *)

ASSUME BorrowingAssumption ==
  /\ LeaseTime \in Nat \ {0} /\ RpcTimeout \in Nat
  /\ MaxAcquires \in Nat /\ MaxRestarts \in Nat
  /\ {None, Other} \cap (Farms \cup Nat) = {} /\ None # Other

VARIABLES
  tenant, ttl,  (* of each farm: whose lease it has, and its time          *)
  asked,        (* the acquires that wait at their farm, or on the way     *)
  withdrawn,    (* the acquires a farm will not grant                      *)
  site,         (* the farm each acquire was sent to                       *)
  outdated,     (* the acquires whose farm has restarted since             *)
  pc,           (* what the borrower does under its lock                   *)
  ending,       (* the phase is being ended                                *)
  tried,        (* the farms this begin has been through                   *)
  pending,      (* the acquire that may still be granted                   *)
  uncertain,
  lease,        (* the lease in self.lease                                 *)
  valid, lost,  (* of each lease                                           *)
  reply,        (* of the call made under the lock, and its age            *)
  renewals,     (* renewals on their way                                   *)
  request,      (* the generation request under way                        *)
  nextId, restarts

faultVars == <<outdated, restarts>>
farmVars == <<tenant, ttl, asked, withdrawn, faultVars>>
claimVars == <<pc, ending, tried, pending, uncertain, lease>>
lockVars == <<claimVars, reply>>
leaseVars == <<site, valid, lost, nextId>>
useVars == <<leaseVars, renewals, request>>
vars == <<farmVars, lockVars, useVars>>

Ids == 1..MaxAcquires

Never == LeaseTime + RpcTimeout + 1     (* float('inf')                    *)

NoReply == [is |-> "none", age |-> 0]

Reply(what) == [is |-> what, age |-> 0]

Init ==
  /\ tenant = [f \in Farms |-> None] /\ ttl = [f \in Farms |-> 0]
  /\ asked = {} /\ withdrawn = {} /\ outdated = {} /\ restarts = 0
  /\ pc = "idle" /\ ending = FALSE /\ tried = {}
  /\ pending = None /\ uncertain = 0 /\ lease = None /\ reply = NoReply
  /\ site = [i \in Ids |-> None]
  /\ valid = [i \in Ids |-> 0] /\ lost = [i \in Ids |-> FALSE]
  /\ nextId = 1
  /\ renewals = {} /\ request = None

----------------------------------------------------------------------------
(* The farms.                                                              *)

RequestUnder(i) == request # None /\ request.lease = i

(* The farm executes the borrower's request under a lease of its own.      *)
RunsAt(f) ==
  \E i \in Ids \ outdated :
    RequestUnder(i) /\ request.is = "running" /\ site[i] = f

Vacant(f) == tenant[f] = None \/ (tenant[f] # Other /\ ttl[f] = 0 /\ ~ RunsAt(f))

Answer(i, what) ==
  reply' = IF pending = i /\ pc = "acquiring" THEN [reply EXCEPT !.is = what] ELSE reply

FarmGrants(i) ==
  /\ i \in asked \ withdrawn /\ Vacant(site[i])
  /\ tenant' = [tenant EXCEPT ![site[i]] = i]
  /\ ttl' = [ttl EXCEPT ![site[i]] = LeaseTime]
  /\ asked' = asked \ {i}
  /\ Answer(i, "granted")
  /\ UNCHANGED <<withdrawn, faultVars, claimVars, useVars>>

(* The farm is leased, the acquire was cancelled, or the runtimes differ.  *)
FarmRefuses(i) ==
  /\ i \in asked
  /\ asked' = asked \ {i}
  /\ Answer(i, "refused")
  /\ UNCHANGED <<tenant, ttl, withdrawn, faultVars, claimVars, useVars>>

OtherAcquires(f) ==
  /\ Vacant(f)
  /\ tenant' = [tenant EXCEPT ![f] = Other]
  /\ ttl' = [ttl EXCEPT ![f] = 0]
  /\ UNCHANGED <<asked, withdrawn, faultVars, lockVars, useVars>>

OtherReleases(f) ==
  /\ tenant[f] = Other
  /\ tenant' = [tenant EXCEPT ![f] = None]
  /\ UNCHANGED <<ttl, asked, withdrawn, faultVars, lockVars, useVars>>

(* The ingress restarts: its leases and acquires are gone.                 *)
FarmRestarts(f) ==
  /\ restarts < MaxRestarts
  /\ restarts' = restarts + 1
  /\ tenant' = [tenant EXCEPT ![f] = None]
  /\ ttl' = [ttl EXCEPT ![f] = 0]
  /\ asked' = {i \in asked : site[i] # f}
  /\ outdated' = outdated \cup {i \in Ids : site[i] = f}
  /\ UNCHANGED <<withdrawn, lockVars, useVars>>

Gives(f) ==
  /\ tenant' = [tenant EXCEPT ![f] = None]
  /\ ttl' = [ttl EXCEPT ![f] = 0]

(* The tombstone of the acquire, which may still be waiting or on the way. *)
Tombstone == withdrawn' = withdrawn \cup {pending}

(* cancel_acquire, which a restarted farm refuses.                         *)
FarmCancels ==
  /\ pc = "reconciling" /\ reply.is = "none" /\ pending \notin outdated
  /\ Tombstone
  /\ IF tenant[site[pending]] = pending THEN Gives(site[pending])
     ELSE UNCHANGED <<tenant, ttl>>
  /\ reply' = Reply("cancelled")
  /\ UNCHANGED <<asked, faultVars, claimVars, useVars>>

(* release_lease, also of an expired lease; refused when it is not held.   *)
FarmReleases ==
  /\ pc = "releasing" /\ reply.is = "none"
  /\ ~ RequestUnder(lease)
  /\ tenant[site[lease]] = lease
  /\ Gives(site[lease])
  /\ reply' = Reply("released")
  /\ UNCHANGED <<asked, withdrawn, faultVars, claimVars, useVars>>

Holds(f, i) == tenant[f] = i /\ ttl[f] > 0

(* acquire_lease with a lease id.                                          *)
FarmRenews(m) ==
  /\ m.is = "sent"
  /\ LET f == site[m.lease]
         served == IF Holds(f, m.lease) THEN "renewed" ELSE "rejected"
     IN /\ ttl' = IF Holds(f, m.lease) THEN [ttl EXCEPT ![f] = LeaseTime] ELSE ttl
        /\ renewals' = (renewals \ {m}) \cup {[m EXCEPT !.is = served]}
  /\ UNCHANGED <<tenant, asked, withdrawn, faultVars, lockVars, leaseVars,
                 request>>

----------------------------------------------------------------------------
(* begin: reconciliation and acquisition.                                  *)

(* Only one claim is made while another may be in force.                   *)
MayClaim(wait) == wait = 0

ClaimOrNot(wait) == pc' = IF MayClaim(wait) THEN "choosing" ELSE "phase"

Begin ==
  /\ pc = "idle"
  /\ IF pending # None THEN pc' = "reconciling" ELSE ClaimOrNot(uncertain)
  /\ UNCHANGED <<farmVars, ending, tried, pending, uncertain, lease, reply,
                 useVars>>

(* Broken variant: the wait for the claim is left in place.                *)
SettledButWaiting == pending' = None /\ UNCHANGED uncertain

Settled == pending' = None /\ uncertain' = 0

Reconciled ==
  /\ pc = "reconciling" /\ reply.is = "cancelled" /\ Settled
  /\ ClaimOrNot(0) /\ reply' = NoReply
  /\ UNCHANGED <<farmVars, ending, tried, lease, useVars>>

(* No answer, or not the one expected: nothing is inferred from it.        *)
ReconcileFails ==
  /\ pc = "reconciling"
  /\ ClaimOrNot(uncertain) /\ reply' = NoReply
  /\ UNCHANGED <<farmVars, ending, tried, pending, uncertain, lease, useVars>>

(* The farm is probed first; one that does not qualify is passed over.     *)
SkipFarm(f) ==
  /\ pc = "choosing" /\ f \notin tried
  /\ tried' = tried \cup {f}
  /\ UNCHANGED <<farmVars, pc, ending, pending, uncertain, lease, reply,
                 useVars>>

AskFarm(f) ==
  /\ pc = "choosing" /\ f \notin tried /\ nextId \in Ids
  /\ tried' = tried \cup {f}
  /\ uncertain' = Never
  /\ pending' = nextId /\ nextId' = nextId + 1
  /\ site' = [site EXCEPT ![nextId] = f]
  /\ asked' = asked \cup {nextId}
  /\ pc' = "acquiring" /\ reply' = NoReply
  /\ UNCHANGED <<tenant, ttl, withdrawn, faultVars, ending, lease, valid,
                 lost, renewals, request>>

NoFarmLeft ==
  /\ pc = "choosing" /\ tried = Farms
  /\ pc' = "phase" /\ tried' = {}
  /\ UNCHANGED <<farmVars, ending, pending, uncertain, lease, reply, useVars>>

AcquireRefused ==
  /\ pc = "acquiring" /\ reply.is = "refused"
  /\ Settled
  /\ pc' = "choosing" /\ reply' = NoReply
  /\ UNCHANGED <<farmVars, ending, tried, lease, useVars>>

(* Broken variant: the time the answer took is not counted.                *)
ExpiryFromAnswer(age) == LeaseTime

(* _expiry: from the moment the call was sent.                             *)
Expiry(age) == IF age + 1 < LeaseTime THEN LeaseTime - 1 - age ELSE 0

AcquireGranted ==
  /\ pc = "acquiring" /\ reply.is = "granted"
  /\ lease' = pending
  /\ valid' = [valid EXCEPT ![pending] = Expiry(reply.age)]
  /\ Settled
  /\ pc' = "preparing" /\ tried' = {} /\ reply' = NoReply
  /\ UNCHANGED <<farmVars, ending, site, lost, nextId, renewals,
                 request>>

(* Broken variant: an acquire without an answer is taken for a refusal.    *)
AmbiguousAsRefused == Settled

Ambiguous == UNCHANGED <<uncertain, pending>>

(* The call fails, or its answer is lost, late or malformed.               *)
AcquireFails ==
  /\ pc = "acquiring"
  /\ Ambiguous
  /\ pc' = "phase" /\ tried' = {} /\ reply' = NoReply
  /\ UNCHANGED <<farmVars, ending, lease, useVars>>

Usable(i) == i # None /\ ~ lost[i] /\ valid[i] > 0

(* The adapter is uploaded and attested by the farm's status.              *)
Prepared ==
  /\ pc = "preparing" /\ Usable(lease)
  /\ pc' = "phase"
  /\ UNCHANGED <<farmVars, ending, tried, pending, uncertain, lease, reply,
                 useVars>>

PrepareFails ==
  /\ pc = "preparing"
  /\ pc' = "releasing"
  /\ UNCHANGED <<farmVars, ending, tried, pending, uncertain, lease, reply,
                 useVars>>

----------------------------------------------------------------------------
(* end and _release.                                                       *)

End ==
  /\ pc = "phase"
  /\ IF lease = None THEN pc' = "idle" /\ UNCHANGED ending
                     ELSE pc' = "releasing" /\ ending' = TRUE
  /\ UNCHANGED <<farmVars, tried, pending, uncertain, lease, reply, useVars>>

AfterRelease ==
  /\ pc' = IF ending THEN "idle" ELSE "phase"
  /\ ending' = FALSE /\ lease' = None /\ reply' = NoReply

Released ==
  /\ pc = "releasing" /\ reply.is = "released"
  /\ AfterRelease
  /\ UNCHANGED <<farmVars, tried, pending, uncertain, useVars>>

WaitAfterRelease == LeaseTime + RpcTimeout

(* The requests do not end in time, or the release is not acknowledged.    *)
ReleaseFails ==
  /\ pc = "releasing"
  /\ uncertain' = IF uncertain > WaitAfterRelease THEN uncertain ELSE WaitAfterRelease
  /\ AfterRelease
  /\ UNCHANGED <<farmVars, tried, pending, useVars>>

----------------------------------------------------------------------------
(* _heartbeat, _lose and generate.                                         *)

HeartbeatSent ==
  /\ lease # None /\ Usable(lease)
  /\ \A m \in renewals : m.lease # lease
  /\ renewals' = renewals \cup {[lease |-> lease, is |-> "sent", age |-> 0]}
  /\ UNCHANGED <<farmVars, lockVars, leaseVars, request>>

(* A late answer cannot revive a lease that was lost or has expired.       *)
RenewedBy(m) ==
  IF Usable(m.lease) /\ Expiry(m.age) > 0
  THEN valid' = [valid EXCEPT ![m.lease] = Expiry(m.age)] /\ UNCHANGED lost
  ELSE lost' = [lost EXCEPT ![m.lease] = TRUE] /\ UNCHANGED valid

HeartbeatAnswered(m) ==
  /\ m.lease = lease
  /\ \/ m.is = "renewed" /\ RenewedBy(m)
     \/ m.is = "rejected" /\ lost' = [lost EXCEPT ![lease] = TRUE] /\ UNCHANGED valid
  /\ renewals' = renewals \ {m}
  /\ UNCHANGED <<farmVars, lockVars, site, nextId, request>>

(* The call or its answer is lost, or nobody waits for it any more.        *)
HeartbeatLost(m) ==
  /\ renewals' = renewals \ {m}
  /\ UNCHANGED <<farmVars, lockVars, leaseVars, request>>

(* The phase or the health grace is over, or a request has failed.         *)
LoseLease ==
  /\ lease # None /\ ~ lost[lease]
  /\ lost' = [lost EXCEPT ![lease] = TRUE]
  /\ UNCHANGED <<farmVars, lockVars, site, valid, nextId, renewals, request>>

Generate ==
  /\ pc = "phase" /\ request = None /\ Usable(lease)
  /\ request' = [lease |-> lease, is |-> "sent"]
  /\ UNCHANGED <<farmVars, lockVars, leaseVars, renewals>>

(* The farm admits the request under its lease, and answers it.            *)
FarmServes ==
  /\ request # None
  /\ \/ /\ request.is = "sent" /\ Holds(site[request.lease], request.lease)
        /\ request' = [request EXCEPT !.is = "running"]
     \/ /\ request.is = "running" /\ request.lease \notin outdated
        /\ request' = [request EXCEPT !.is = "answered"]
  /\ UNCHANGED <<farmVars, lockVars, leaseVars, renewals>>

(* The answer counts while the lease is usable.                            *)
Accept ==
  /\ request # None /\ request.is = "answered" /\ Usable(request.lease)
  /\ request' = None
  /\ UNCHANGED <<farmVars, lockVars, leaseVars, renewals>>

(* Without an answer, or with one too late, the local engines take over    *)
(* and the lease is fenced.                                                *)
FallBack ==
  /\ request # None
  /\ lost' = [lost EXCEPT ![request.lease] = TRUE]
  /\ request' = None
  /\ UNCHANGED <<farmVars, lockVars, site, valid, nextId, renewals>>

----------------------------------------------------------------------------
Less(n) == IF n > 0 THEN n - 1 ELSE 0

Tick ==
  /\ pc = "acquiring" => reply.age < RpcTimeout
  /\ ttl' = [f \in Farms |-> Less(ttl[f])]
  /\ valid' = [i \in Ids |-> Less(valid[i])]
  /\ uncertain' = IF uncertain = Never THEN Never ELSE Less(uncertain)
  /\ reply' = IF pc = "acquiring" THEN [reply EXCEPT !.age = @ + 1] ELSE reply
  /\ renewals' = {[m EXCEPT !.age = @ + 1] : m \in {n \in renewals : n.age < RpcTimeout}}
  /\ UNCHANGED <<tenant, asked, withdrawn, faultVars, pc, ending, tried,
                 pending, lease, site, lost, nextId, request>>

Next ==
  \/ \E i \in Ids : FarmGrants(i) \/ FarmRefuses(i)
  \/ \E f \in Farms : \/ OtherAcquires(f) \/ OtherReleases(f) \/ FarmRestarts(f)
                      \/ SkipFarm(f) \/ AskFarm(f)
  \/ FarmCancels \/ FarmReleases \/ FarmServes
  \/ Begin \/ Reconciled \/ ReconcileFails \/ NoFarmLeft
  \/ AcquireRefused \/ AcquireGranted \/ AcquireFails \/ Prepared \/ PrepareFails
  \/ End \/ Released \/ ReleaseFails
  \/ \E m \in renewals : FarmRenews(m) \/ HeartbeatAnswered(m) \/ HeartbeatLost(m)
  \/ HeartbeatSent \/ LoseLease \/ Generate \/ Accept \/ FallBack \/ Tick

Spec == Init /\ [][Next]_vars

(* Time passes, begin and end go on, and a farm that is asked again and    *)
(* again to cancel an acquire does so in the end.                          *)
Fairness ==
  /\ WF_vars(Tick) /\ WF_vars(Begin) /\ WF_vars(End)
  /\ WF_vars(NoFarmLeft)
  /\ \A f \in Farms : WF_vars(SkipFarm(f))
  /\ WF_vars(ReconcileFails) /\ WF_vars(AcquireFails) /\ WF_vars(PrepareFails)
  /\ WF_vars(ReleaseFails)
  /\ SF_vars(FarmCancels) /\ SF_vars(Reconciled)

FairSpec == Spec /\ Fairness

----------------------------------------------------------------------------
FarmTypeOK ==
  /\ tenant \in [Farms -> Ids \cup {None, Other}]
  /\ ttl \in [Farms -> 0..LeaseTime]
  /\ asked \subseteq Ids /\ withdrawn \subseteq Ids /\ outdated \subseteq Ids
  /\ restarts \in 0..MaxRestarts

ClaimTypeOK ==
  /\ pc \in {"idle", "reconciling", "choosing", "acquiring",
             "preparing", "phase", "releasing"}
  /\ ending \in BOOLEAN /\ tried \subseteq Farms
  /\ pending \in Ids \cup {None} /\ lease \in Ids \cup {None}
  /\ uncertain \in 0..Never
  /\ reply \in [is : {"none", "granted", "refused", "cancelled", "released"},
                age : 0..RpcTimeout]

UseTypeOK ==
  /\ site \in [Ids -> Farms \cup {None}]
  /\ valid \in [Ids -> 0..LeaseTime] /\ lost \in [Ids -> BOOLEAN]
  /\ nextId \in 1..(MaxAcquires + 1)
  /\ renewals \subseteq [lease : Ids, is : {"sent", "renewed", "rejected"},
                         age : 0..RpcTimeout]
  /\ request \in {None} \cup [lease : Ids, is : {"sent", "running", "answered"}]

TypeOK == FarmTypeOK /\ ClaimTypeOK /\ UseTypeOK

(* "Ambiguous failure must not claim a second machine" (borrowing.py:321): *)
(* whatever answers are late or lost, at most one farm holds a lease of    *)
(* this borrower or may still grant it one.                                *)
Claimed ==
  {f \in Farms : \E i \in Ids :
     site[i] = f /\ (i \in asked \ withdrawn \/ Holds(f, i))}

OneFarmClaimed == \A f, g \in Claimed : f = g

(* The borrower stops using a lease before the farm may give it away: what *)
(* it holds for valid the farm holds for at least as long, unless the farm *)
(* itself is gone.                                                         *)
InUse(i) ==
  \/ lease = i /\ pc # "releasing"
  \/ RequestUnder(i)

LeaseBacked ==
  \A i \in Ids : InUse(i) /\ Usable(i) /\ i \notin outdated =>
    Holds(site[i], i) /\ ttl[site[i]] >= valid[i]

(* An ambiguous acquire does not end borrowing for good, unless its farm   *)
(* restarts.                                                               *)
ClaimsAgain == uncertain > 0 ~> uncertain = 0 \/ pending \in outdated
=============================================================================
