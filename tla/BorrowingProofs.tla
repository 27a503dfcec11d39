-------------------------- MODULE BorrowingProofs --------------------------
(***************************************************************************)
(* Proofs about Borrowing, for any farms, lease time, timeout, number of   *)
(* acquires and of restarts: at most one farm is claimed, and no lease is  *)
(* used longer than its farm keeps it.                                     *)
(*                                                                         *)
(* The argument: what may still claim a farm is the acquire in pending,    *)
(* the lease, or, when there is neither, a lease given up whose time at    *)
(* its farm, renewals on their way included, is no longer than uncertain   *)
(* (ClaimInv); a farm is asked only when all three are out of question.    *)
(* The time of a lease at its farm began after its call was sent, from     *)
(* which the borrower counts (BackedInv).                                  *)
(***************************************************************************)
EXTENDS Borrowing, TLAPS

USE BorrowingAssumption DEF BorrowingAssumption

(* What each place in the protocol knows of the claims.                    *)
PhaseInv ==
  /\ pc = "choosing" => pending = None /\ lease = None /\ uncertain = 0
  /\ pc \in {"acquiring", "reconciling"} => pending # None
  /\ pc \in {"preparing", "releasing"} => lease # None
  /\ pc = "idle" => lease = None
  /\ pending # None => uncertain = Never /\ lease = None /\ valid[pending] = 0

(* What an answer the borrower has not looked at yet says of the farm.     *)
ReplyInv ==
  /\ pc \notin {"acquiring", "reconciling", "releasing"} => reply.is = "none"
  /\ pc = "acquiring" /\ reply.is \in {"granted", "refused"} => pending \notin asked
  /\ pc = "acquiring" /\ reply.is = "refused" => tenant[site[pending]] # pending
  /\ pc = "reconciling" /\ reply.is = "cancelled" =>
       pending \in withdrawn /\ tenant[site[pending]] # pending
  /\ pc = "releasing" /\ reply.is = "released" => tenant[site[lease]] # lease

(* An acquire is sent to one farm, and granted at most once there.         *)
GrantInv ==
  /\ \A i \in Ids : i < nextId => site[i] \in Farms
  /\ \A i \in Ids : ~ (i < nextId) => valid[i] = 0 /\ i \notin asked
  /\ \A f \in Farms : tenant[f] \in Ids =>
       tenant[f] < nextId /\ tenant[f] \notin asked /\ site[tenant[f]] = f
  /\ lease # None => lease < nextId /\ lease \notin asked
  /\ pending # None => pending < nextId
  /\ \A m \in renewals : m.lease < nextId /\ m.lease \notin asked /\ m.lease # pending

Claims(i) == site[i] \in Farms /\ (i \in asked \ withdrawn \/ Holds(site[i], i))

(* A lease given up: its farm forgets it before uncertain is over.         *)
WaitedOut(i) ==
  /\ i \notin asked
  /\ ttl[site[i]] <= uncertain
  /\ \A m \in renewals :
       m.lease = i /\ m.is = "sent" => uncertain + m.age >= LeaseTime + RpcTimeout

ClaimInv ==
  /\ \A i \in Ids : pending # None /\ Claims(i) => i = pending
  /\ \A i \in Ids : lease # None /\ Claims(i) => i = lease
  /\ \A i \in Ids : pending = None /\ lease = None /\ Claims(i) => WaitedOut(i)
  /\ \A i, j \in Ids : Claims(i) /\ Claims(j) => i = j

(* A grant or a renewal that is to be answered still has its time.         *)
GrantBacked ==
  pc = "acquiring" /\ reply.is = "granted" /\ pending \notin outdated =>
    \/ reply.age >= LeaseTime
    \/ /\ tenant[site[pending]] = pending
       /\ ttl[site[pending]] + reply.age >= LeaseTime

RenewalBacked ==
  \A m \in renewals :
    m.is = "renewed" /\ InUse(m.lease) /\ Usable(m.lease) /\ m.lease \notin outdated =>
      ttl[site[m.lease]] + m.age >= LeaseTime

BackedInv == LeaseBacked /\ GrantBacked /\ RenewalBacked

IInv == TypeOK /\ PhaseInv /\ ReplyInv /\ GrantInv /\ ClaimInv /\ BackedInv

LEMMA IdsAre ==
  /\ Ids \subseteq Nat \ {0} /\ None \notin Ids /\ Other \notin Ids
  /\ Never \in Nat /\ Never = LeaseTime + RpcTimeout + 1
  BY DEF Ids, Never

LEMMA InitHolds == Init => IInv
  <1> SUFFICES ASSUME Init PROVE IInv
    OBVIOUS
  <1>1. FarmTypeOK
    BY IdsAre DEF Init, FarmTypeOK
  <1>2. ClaimTypeOK
    <2>1. 0 \in 0..Never /\ NoReply \in [is : {"none", "granted", "refused", "cancelled",
                                               "released"}, age : 0..RpcTimeout]
      BY IdsAre DEF NoReply
    <2> QED
      BY <2>1, Zenon DEF Init, ClaimTypeOK
  <1>3. UseTypeOK
    <2>1. lost \in [Ids -> BOOLEAN]
      BY Zenon DEF Init
    <2> QED
      BY <2>1, IdsAre DEF Init, UseTypeOK
  <1>4. PhaseInv /\ ReplyInv
    BY DEF Init, PhaseInv, ReplyInv, NoReply
  <1>5. GrantInv
    BY IdsAre DEF Init, GrantInv
  <1>6. \A i \in Ids : ~ Claims(i)
    <2> SUFFICES ASSUME NEW i \in Ids, Claims(i) PROVE FALSE
      OBVIOUS
    <2>1. site[i] \in Farms /\ tenant[site[i]] = i
      BY DEF Init, Claims, Holds
    <2> QED
      BY <2>1, IdsAre DEF Init
  <1>7. ClaimInv
    BY <1>6 DEF ClaimInv
  <1>8. BackedInv
    BY IdsAre DEF Init, BackedInv, LeaseBacked, GrantBacked, RenewalBacked, InUse,
                  RequestUnder
  <1> QED
    BY <1>1, <1>2, <1>3, <1>4, <1>5, <1>7, <1>8 DEF IInv, TypeOK

----------------------------------------------------------------------------
(* The farms.                                                              *)

LEMMA GrantStep ==
  ASSUME IInv, NEW i \in Ids, FarmGrants(i)
  PROVE  IInv'
  <1> USE DEF IInv, TypeOK
  <1> DEFINE f == site[i]
  <1>1. /\ i \in asked /\ i \notin withdrawn /\ f \in Farms /\ i < nextId
        /\ tenant[f] = None \/ (tenant[f] # Other /\ ttl[f] = 0)
        /\ tenant' = [tenant EXCEPT ![f] = i]
        /\ ttl' = [ttl EXCEPT ![f] = LeaseTime]
        /\ asked' = asked \ {i}
        /\ reply' = IF pending = i /\ pc = "acquiring"
                    THEN [reply EXCEPT !.is = "granted"] ELSE reply
        /\ UNCHANGED <<withdrawn, outdated, restarts, pc, ending, tried, pending,
                       uncertain, lease, site, valid, lost, nextId, renewals, request>>
    BY DEF FarmGrants, Vacant, Answer, faultVars, claimVars, useVars, leaseVars, GrantInv
  <1> HIDE DEF f
  <1>2. /\ tenant'[f] = i /\ ttl'[f] = LeaseTime
        /\ \A g \in Farms \ {f} : tenant'[g] = tenant[g] /\ ttl'[g] = ttl[g]
    BY <1>1 DEF FarmTypeOK
  <1>3. TypeOK'
    <2>1. FarmTypeOK'
      BY <1>1 DEF FarmTypeOK
    <2>2. ClaimTypeOK'
      BY <1>1 DEF ClaimTypeOK
    <2>3. UseTypeOK'
      BY <1>1 DEF UseTypeOK
    <2> QED
      BY <2>1, <2>2, <2>3
  <1>4. PhaseInv'
    BY <1>1 DEF PhaseInv
  <1>5. Claims(i) /\ \A j \in Ids : Claims(j)' => Claims(j)
    BY <1>1, <1>2 DEF Claims, Holds, f
  <1>6. ReplyInv'
    BY <1>1, <1>2, <1>5, IdsAre DEF ReplyInv, ClaimTypeOK, ClaimInv, GrantInv, PhaseInv
  <1>7. GrantInv'
    BY <1>1, <1>2, IdsAre DEF GrantInv, f
  <1>8. ClaimInv'
    BY <1>1, <1>5 DEF ClaimInv, WaitedOut
  <1>9. LeaseBacked'
    BY <1>1, <1>2, <1>5, IdsAre
       DEF BackedInv, LeaseBacked, InUse, RequestUnder, Usable, Holds, FarmTypeOK, f
  <1>10. GrantBacked'
    <2> SUFFICES ASSUME pc = "acquiring" PROVE GrantBacked'
      BY <1>1 DEF GrantBacked
    <2>1. i = pending /\ reply'.age = reply.age /\ reply.age >= 0
      BY <1>1, <1>5, IdsAre DEF PhaseInv, ClaimInv, ClaimTypeOK
    <2>2. tenant'[site[i]] = i /\ ttl'[site[i]] + reply'.age >= LeaseTime
      BY <1>2, <2>1 DEF f, ClaimTypeOK
    <2> QED
      BY <1>1, <2>1, <2>2 DEF GrantBacked
  <1>11. RenewalBacked'
    BY <1>1, <1>2, <1>5, IdsAre
       DEF BackedInv, RenewalBacked, InUse, RequestUnder, Usable, FarmTypeOK, UseTypeOK, f
  <1> QED
    BY <1>3, <1>4, <1>6, <1>7, <1>8, <1>9, <1>10, <1>11 DEF BackedInv

(* Farms take leases away that nobody may be using, or restart.            *)
LEMMA TakenStep ==
  ASSUME IInv, UNCHANGED <<claimVars, useVars>>, FarmTypeOK', ClaimTypeOK', ReplyInv',
         asked' \subseteq asked, withdrawn \subseteq withdrawn', outdated \subseteq outdated',
         \A f \in Farms :
           \/ tenant'[f] = tenant[f] /\ ttl'[f] = ttl[f]
           \/ /\ tenant'[f] \in {None, Other} /\ ttl'[f] <= ttl[f]
              /\ tenant[f] \in Ids /\ InUse(tenant[f]) /\ Usable(tenant[f]) =>
                   tenant[f] \in outdated',
         GrantBacked'
  PROVE  IInv'
  <1> USE DEF IInv, TypeOK
  <1>1. UNCHANGED <<pc, ending, tried, pending, uncertain, lease, site, valid, lost, nextId,
                    renewals, request>>
    BY DEF claimVars, useVars, leaseVars
  <1>2. UseTypeOK' /\ PhaseInv'
    BY <1>1 DEF UseTypeOK, PhaseInv
  <1>3. GrantInv'
    BY <1>1, IdsAre DEF GrantInv
  <1>4. \A i \in Ids : Claims(i)' => Claims(i)
    BY <1>1, IdsAre DEF Claims, Holds
  <1>5. ClaimInv'
    <2>1. \A i \in Ids : Claims(i) => ttl'[site[i]] <= ttl[site[i]]
      BY DEF Claims, FarmTypeOK
    <2>2. \A i \in Ids : Claims(i) /\ WaitedOut(i) => WaitedOut(i)'
      BY <1>1, <2>1 DEF WaitedOut, FarmTypeOK, Claims, ClaimTypeOK
    <2> QED
      BY <1>1, <1>4, <2>2 DEF ClaimInv
  <1>6. ASSUME NEW i \in Ids, InUse(i)', Usable(i)', i \notin outdated'
        PROVE  /\ tenant[site[i]] = i /\ site[i] \in Farms /\ ttl[site[i]] >= valid[i]
               /\ tenant'[site[i]] = i /\ ttl'[site[i]] = ttl[site[i]]
               /\ InUse(i) /\ Usable(i) /\ i \notin outdated
    <2>1. InUse(i) /\ Usable(i) /\ i \notin outdated
      BY <1>1, <1>6 DEF InUse, RequestUnder, Usable
    <2>2. Holds(site[i], i) /\ ttl[site[i]] >= valid[i]
      BY <2>1 DEF BackedInv, LeaseBacked
    <2>3. i < nextId
      BY <2>1 DEF GrantInv, Usable, UseTypeOK
    <2>4. site[i] \in Farms /\ tenant[site[i]] = i
      BY <2>2, <2>3 DEF GrantInv, Holds
    <2> QED
      BY <2>1, <2>2, <2>4, <1>6, IdsAre
  <1>7. LeaseBacked'
    BY <1>1, <1>6, IdsAre DEF LeaseBacked, Holds, Usable, UseTypeOK, FarmTypeOK
  <1>8. RenewalBacked'
    BY <1>1, <1>6 DEF BackedInv, RenewalBacked, UseTypeOK
  <1> QED
    BY <1>2, <1>3, <1>5, <1>7, <1>8 DEF BackedInv

LEMMA FarmSteps ==
  ASSUME IInv,
         \/ \E i \in Ids : FarmRefuses(i)
         \/ \E f \in Farms : OtherAcquires(f) \/ OtherReleases(f) \/ FarmRestarts(f)
         \/ FarmCancels \/ FarmReleases
  PROVE  IInv'
  <1> USE DEF IInv, TypeOK
  <1>1. ASSUME NEW i \in Ids, FarmRefuses(i) PROVE IInv'
    <2>1. /\ i \in asked /\ asked' = asked \ {i}
          /\ reply' = IF pending = i /\ pc = "acquiring"
                      THEN [reply EXCEPT !.is = "refused"] ELSE reply
          /\ UNCHANGED <<tenant, ttl, withdrawn, outdated, restarts, claimVars, useVars>>
      BY <1>1 DEF FarmRefuses, Answer, faultVars
    <2>2. FarmTypeOK' /\ ClaimTypeOK'
      BY <2>1 DEF FarmTypeOK, ClaimTypeOK, claimVars
    <2>3. i < nextId /\ site[i] \in Farms /\ tenant[site[i]] # i
      BY <2>1 DEF GrantInv
    <2>4. ReplyInv'
      BY <2>1, <2>3 DEF ReplyInv, claimVars, useVars, leaseVars, ClaimTypeOK
    <2>5. GrantBacked'
      BY <2>1 DEF BackedInv, GrantBacked, claimVars, useVars, leaseVars, ClaimTypeOK
    <2> QED
      BY <2>1, <2>2, <2>4, <2>5, TakenStep
  <1>2. ASSUME NEW f \in Farms, OtherAcquires(f) PROVE IInv'
    <2>1. /\ tenant[f] = None \/ (tenant[f] # Other /\ ttl[f] = 0)
          /\ tenant' = [tenant EXCEPT ![f] = Other] /\ ttl' = [ttl EXCEPT ![f] = 0]
          /\ UNCHANGED <<asked, withdrawn, outdated, restarts, claimVars, reply, useVars>>
      BY <1>2 DEF OtherAcquires, Vacant, faultVars, lockVars
    <2>2. FarmTypeOK' /\ ClaimTypeOK'
      BY <2>1 DEF FarmTypeOK, ClaimTypeOK, claimVars
    <2>3. ReplyInv'
      BY <2>1, IdsAre DEF ReplyInv, PhaseInv, FarmTypeOK, ClaimTypeOK, GrantInv, claimVars, useVars,
                          leaseVars
    <2>4. GrantBacked'
      BY <2>1, IdsAre DEF BackedInv, GrantBacked, PhaseInv, FarmTypeOK, ClaimTypeOK, claimVars,
                  useVars, leaseVars
    <2>5. tenant[f] \in Ids /\ InUse(tenant[f]) /\ Usable(tenant[f]) => tenant[f] \in outdated
      BY <2>1, IdsAre DEF BackedInv, LeaseBacked, GrantInv, Usable, UseTypeOK, Holds
    <2>6. \A g \in Farms :
           \/ tenant'[g] = tenant[g] /\ ttl'[g] = ttl[g]
           \/ g = f /\ tenant'[g] \in {None, Other} /\ ttl'[g] <= ttl[g]
      BY <2>1 DEF FarmTypeOK
    <2> QED
      BY <2>1, <2>2, <2>3, <2>4, <2>5, <2>6, TakenStep
  <1>3. ASSUME NEW f \in Farms, OtherReleases(f) PROVE IInv'
    <2>1. /\ tenant[f] = Other /\ tenant' = [tenant EXCEPT ![f] = None]
          /\ UNCHANGED <<ttl, asked, withdrawn, outdated, restarts, claimVars, reply, useVars>>
      BY <1>3 DEF OtherReleases, faultVars, lockVars
    <2>2. FarmTypeOK' /\ ClaimTypeOK'
      BY <2>1 DEF FarmTypeOK, ClaimTypeOK, claimVars
    <2>3. ReplyInv'
      BY <2>1, IdsAre DEF ReplyInv, PhaseInv, FarmTypeOK, ClaimTypeOK, GrantInv, claimVars, useVars,
                          leaseVars
    <2>4. GrantBacked'
      BY <2>1, IdsAre DEF BackedInv, GrantBacked, PhaseInv, FarmTypeOK, ClaimTypeOK, claimVars,
                  useVars, leaseVars
    <2>5. \A g \in Farms :
           \/ tenant'[g] = tenant[g] /\ ttl'[g] = ttl[g]
           \/ tenant'[g] \in {None, Other} /\ ttl'[g] <= ttl[g] /\ tenant[g] \notin Ids
      BY <2>1, IdsAre DEF FarmTypeOK
    <2> QED
      BY <2>1, <2>2, <2>3, <2>4, <2>5, TakenStep
  <1>4. ASSUME NEW f \in Farms, FarmRestarts(f) PROVE IInv'
    <2>1. /\ tenant' = [tenant EXCEPT ![f] = None] /\ ttl' = [ttl EXCEPT ![f] = 0]
          /\ asked' \subseteq asked /\ restarts < MaxRestarts /\ restarts' = restarts + 1
          /\ outdated' = outdated \cup {i \in Ids : site[i] = f}
          /\ UNCHANGED <<withdrawn, claimVars, reply, useVars>>
      BY <1>4 DEF FarmRestarts, lockVars
    <2>2. FarmTypeOK' /\ ClaimTypeOK'
      BY <2>1 DEF FarmTypeOK, ClaimTypeOK, claimVars
    <2>3. ReplyInv'
      BY <2>1, IdsAre DEF ReplyInv, PhaseInv, FarmTypeOK, ClaimTypeOK, GrantInv, claimVars, useVars,
                          leaseVars
    <2>4. GrantBacked'
      BY <2>1, IdsAre DEF BackedInv, GrantBacked, PhaseInv, FarmTypeOK, ClaimTypeOK, claimVars,
                  useVars, leaseVars
    <2>5. tenant[f] \in Ids => tenant[f] \in outdated'
      BY <2>1 DEF GrantInv
    <2>6. \A g \in Farms :
           \/ tenant'[g] = tenant[g] /\ ttl'[g] = ttl[g]
           \/ g = f /\ tenant'[g] \in {None, Other} /\ ttl'[g] <= ttl[g]
      BY <2>1 DEF FarmTypeOK
    <2> QED
      BY <2>1, <2>2, <2>3, <2>4, <2>5, <2>6, TakenStep
  <1>5. CASE FarmCancels
    <2> DEFINE f == site[pending]
    <2>1. /\ pc = "reconciling" /\ withdrawn' = withdrawn \cup {pending}
          /\ reply' = Reply("cancelled")
          /\ IF tenant[f] = pending
             THEN tenant' = [tenant EXCEPT ![f] = None] /\ ttl' = [ttl EXCEPT ![f] = 0]
             ELSE UNCHANGED <<tenant, ttl>>
          /\ UNCHANGED <<asked, outdated, restarts, claimVars, useVars>>
      BY <1>5 DEF FarmCancels, Tombstone, Gives, faultVars
    <2>2. pending \in Ids /\ f \in Farms /\ valid[pending] = 0
      BY <2>1 DEF PhaseInv, ClaimTypeOK, GrantInv
    <2>3. FarmTypeOK' /\ ClaimTypeOK'
      BY <2>1, <2>2 DEF FarmTypeOK, ClaimTypeOK, claimVars, Reply
    <2>4. ReplyInv'
      BY <2>1, <2>2, IdsAre DEF ReplyInv, Reply, FarmTypeOK, claimVars, useVars, leaseVars
    <2>5. GrantBacked'
      BY <2>1 DEF GrantBacked, claimVars
    <2>6. \A g \in Farms :
           \/ tenant'[g] = tenant[g] /\ ttl'[g] = ttl[g]
           \/ tenant'[g] \in {None, Other} /\ ttl'[g] <= ttl[g] /\ tenant[g] = pending
      BY <2>1, <2>2 DEF FarmTypeOK
    <2>7. ~ Usable(pending)
      BY <2>2 DEF Usable
    <2> QED
      BY <2>1, <2>3, <2>4, <2>5, <2>6, <2>7, TakenStep
  <1>6. CASE FarmReleases
    <2> DEFINE f == site[lease]
    <2>1. /\ pc = "releasing" /\ ~ RequestUnder(lease) /\ tenant[f] = lease
          /\ tenant' = [tenant EXCEPT ![f] = None] /\ ttl' = [ttl EXCEPT ![f] = 0]
          /\ reply' = Reply("released")
          /\ UNCHANGED <<asked, withdrawn, outdated, restarts, claimVars, useVars>>
      BY <1>6 DEF FarmReleases, Gives, faultVars
    <2>2. lease \in Ids /\ f \in Farms
      BY <2>1 DEF PhaseInv, ClaimTypeOK, GrantInv
    <2>3. FarmTypeOK' /\ ClaimTypeOK'
      BY <2>1, <2>2 DEF FarmTypeOK, ClaimTypeOK, claimVars, Reply
    <2>4. ReplyInv'
      BY <2>1, <2>2, IdsAre DEF ReplyInv, Reply, FarmTypeOK, claimVars, useVars, leaseVars
    <2>5. GrantBacked'
      BY <2>1 DEF GrantBacked, claimVars
    <2>6. \A g \in Farms :
           \/ tenant'[g] = tenant[g] /\ ttl'[g] = ttl[g]
           \/ tenant'[g] \in {None, Other} /\ ttl'[g] <= ttl[g] /\ tenant[g] = lease
      BY <2>1, <2>2 DEF FarmTypeOK
    <2>7. ~ InUse(lease)
      BY <2>1 DEF InUse
    <2> QED
      BY <2>1, <2>3, <2>4, <2>5, <2>6, <2>7, TakenStep
  <1> QED
    BY <1>1, <1>2, <1>3, <1>4, <1>5, <1>6

LEMMA RenewStep ==
  ASSUME IInv, NEW m \in renewals, FarmRenews(m)
  PROVE  IInv'
  <1> USE DEF IInv, TypeOK
  <1> DEFINE f == site[m.lease]
             n == [m EXCEPT !.is = IF Holds(f, m.lease) THEN "renewed" ELSE "rejected"]
  <1>1. /\ m.lease \in Ids /\ m.age \in 0..RpcTimeout /\ m.lease < nextId
        /\ m.lease \notin asked /\ m.lease # pending
        /\ f \in Farms
        /\ m \in [lease : Ids, is : {"sent", "renewed", "rejected"}, age : 0..RpcTimeout]
    BY DEF UseTypeOK, GrantInv
  <1>2. /\ m.is = "sent"
        /\ ttl' = IF Holds(f, m.lease) THEN [ttl EXCEPT ![f] = LeaseTime] ELSE ttl
        /\ renewals' = (renewals \ {m}) \cup {n}
        /\ UNCHANGED <<tenant, asked, withdrawn, outdated, restarts, pc, ending, tried,
                       pending, uncertain, lease, reply, site, valid, lost, nextId, request>>
    BY DEF FarmRenews, faultVars, lockVars, claimVars, leaseVars
  <1>3. /\ n \in [lease : Ids, is : {"sent", "renewed", "rejected"}, age : 0..RpcTimeout]
        /\ n.lease = m.lease /\ n.age = m.age
        /\ n.is = IF Holds(f, m.lease) THEN "renewed" ELSE "rejected"
    BY <1>1
  <1> HIDE DEF f, n
  <1>4. /\ \A g \in Farms : ttl'[g] = ttl[g] \/ (g = f /\ ttl'[g] = LeaseTime /\ ttl[g] > 0)
        /\ \A g \in Farms : ttl'[g] >= ttl[g]
        /\ Holds(f, m.lease) => ttl'[f] = LeaseTime
        /\ ~ Holds(f, m.lease) => ttl' = ttl
    BY <1>1, <1>2 DEF FarmTypeOK, Holds
  <1>5. FarmTypeOK' /\ ClaimTypeOK' /\ UseTypeOK'
    <2>1. FarmTypeOK'
      BY <1>1, <1>2 DEF FarmTypeOK
    <2>2. ClaimTypeOK'
      BY <1>2 DEF ClaimTypeOK
    <2>3. UseTypeOK'
      BY <1>2, <1>3 DEF UseTypeOK
    <2> QED
      BY <2>1, <2>2, <2>3
  <1>6. PhaseInv' /\ ReplyInv'
    BY <1>2 DEF PhaseInv, ReplyInv
  <1>7. GrantInv'
    BY <1>1, <1>2, <1>3 DEF GrantInv
  <1>8. \A i \in Ids : Claims(i)' => Claims(i)
    BY <1>2, <1>4 DEF Claims, Holds
  <1>9. ASSUME NEW i \in Ids, Claims(i), WaitedOut(i) PROVE WaitedOut(i)'
    <2>1. ttl'[site[i]] <= uncertain
      <3>1. CASE ttl'[site[i]] = ttl[site[i]]
        BY <3>1, <1>9 DEF WaitedOut
      <3>2. CASE ttl'[site[i]] # ttl[site[i]]
        <4>1. Holds(f, m.lease) /\ site[i] = f /\ ttl'[site[i]] = LeaseTime
          BY <3>2, <1>4, <1>9 DEF Claims
        <4>2. i = m.lease
          BY <4>1, <1>1, <1>9, IdsAre DEF Claims, ClaimInv, f
        <4>3. uncertain + m.age >= LeaseTime + RpcTimeout /\ uncertain \in Nat
          BY <4>2, <1>2, <1>9, IdsAre DEF WaitedOut, ClaimTypeOK
        <4> QED
          BY <4>1, <4>3, <1>1
      <3> QED
        BY <3>1, <3>2
    <2>2. \A k \in renewals' : k.is = "sent" => k \in renewals
      BY <1>2, <1>3
    <2> QED
      BY <1>2, <1>9, <2>1, <2>2 DEF WaitedOut
  <1>10. ClaimInv'
    BY <1>2, <1>8, <1>9 DEF ClaimInv
  <1>11. \A i \in Ids : /\ InUse(i)' = InUse(i)
                         /\ Usable(i)' = Usable(i)
    BY <1>2 DEF InUse, RequestUnder, Usable
  <1>12. LeaseBacked'
    <2> SUFFICES ASSUME NEW i \in Ids, InUse(i)', Usable(i)', i \notin outdated
                 PROVE  Holds(site[i], i)' /\ ttl'[site[i]] >= valid[i]
      BY <1>2 DEF LeaseBacked
    <2>1. Holds(site[i], i) /\ ttl[site[i]] >= valid[i]
      BY <1>11 DEF BackedInv, LeaseBacked
    <2>2. i < nextId
      BY <1>11 DEF GrantInv, Usable, UseTypeOK
    <2>3. site[i] \in Farms
      BY <2>2 DEF GrantInv
    <2>4. ttl'[site[i]] >= ttl[site[i]] /\ ttl[site[i]] \in Nat /\ ttl'[site[i]] \in Nat
      BY <1>4, <1>5, <2>3 DEF FarmTypeOK
    <2> QED
      BY <1>2, <2>1, <2>4 DEF Holds, UseTypeOK
  <1>13. GrantBacked'
    <2>1. pc = "acquiring" => site[pending] \in Farms /\ reply.age \in Nat
      BY DEF PhaseInv, GrantInv, ClaimTypeOK
    <2>2. pc = "acquiring" => /\ ttl'[site[pending]] >= ttl[site[pending]]
                              /\ ttl[site[pending]] \in Nat /\ ttl'[site[pending]] \in Nat
      BY <1>4, <1>5, <2>1 DEF FarmTypeOK
    <2> QED
      BY <1>2, <2>1, <2>2 DEF BackedInv, GrantBacked
  <1>14. RenewalBacked'
    <2> SUFFICES ASSUME NEW k \in renewals', k.is = "renewed", InUse(k.lease)',
                        Usable(k.lease)', k.lease \notin outdated
                 PROVE  ttl'[site[k.lease]] + k.age >= LeaseTime
      BY <1>2 DEF RenewalBacked
    <2>1. k.lease \in Ids /\ k.age \in Nat /\ k.lease < nextId /\ site[k.lease] \in Farms
      BY <1>2, <1>5, <1>7 DEF UseTypeOK, GrantInv
    <2>2. /\ ttl'[site[k.lease]] >= ttl[site[k.lease]]
          /\ ttl[site[k.lease]] \in Nat /\ ttl'[site[k.lease]] \in Nat
      BY <1>4, <1>5, <2>1 DEF FarmTypeOK
    <2>3. CASE k \in renewals
      BY <1>11, <2>1, <2>2, <2>3 DEF BackedInv, RenewalBacked
    <2>4. CASE k = n
      BY <1>3, <1>4, <2>1, <2>2, <2>4 DEF f
    <2> QED
      BY <1>2, <2>3, <2>4
  <1> QED
    BY <1>5, <1>6, <1>7, <1>10, <1>12, <1>13, <1>14 DEF BackedInv

----------------------------------------------------------------------------
(* The borrower, under its lock.                                           *)

(* It goes on from one place to another and claims what it claimed.        *)
LEMMA PlaceStep ==
  ASSUME IInv, UNCHANGED <<farmVars, pending, uncertain, lease, useVars>>,
         ClaimTypeOK', PhaseInv', reply'.is = "none",
         pc # "releasing", pc' # "acquiring"
  PROVE  IInv'
  <1> USE DEF IInv, TypeOK
  <1>1. UNCHANGED <<tenant, ttl, asked, withdrawn, outdated, restarts, site, valid, lost,
                    nextId, renewals, request>>
    BY DEF farmVars, faultVars, useVars, leaseVars
  <1>2. FarmTypeOK' /\ UseTypeOK'
    BY <1>1 DEF FarmTypeOK, UseTypeOK
  <1>3. ReplyInv' /\ GrantInv'
    BY <1>1 DEF ReplyInv, GrantInv
  <1>4. ClaimInv'
    BY <1>1 DEF ClaimInv, Claims, WaitedOut, Holds
  <1>5. \A i \in Ids : (InUse(i)' => InUse(i)) /\ (Usable(i)' => Usable(i))
    BY <1>1 DEF InUse, RequestUnder, Usable
  <1>6. LeaseBacked' /\ GrantBacked'
    BY <1>1, <1>5 DEF BackedInv, LeaseBacked, GrantBacked, Holds
  <1>7. RenewalBacked'
    BY <1>1, <1>5 DEF BackedInv, RenewalBacked, UseTypeOK
  <1> QED
    BY <1>2, <1>3, <1>4, <1>6, <1>7 DEF BackedInv

LEMMA PlaceSteps ==
  ASSUME IInv,
         \/ Begin \/ ReconcileFails \/ NoFarmLeft \/ AcquireFails \/ Prepared
         \/ PrepareFails \/ End \/ \E f \in Farms : SkipFarm(f)
  PROVE  IInv'
  <1> USE DEF IInv, TypeOK
  <1>1. /\ UNCHANGED <<farmVars, pending, uncertain, lease, useVars>>
        /\ pc # "releasing" /\ pc' # "acquiring"
        /\ pc' \in {"idle", "reconciling", "choosing", "preparing", "phase", "releasing"}
        /\ tried' \subseteq Farms
    BY DEF Begin, ReconcileFails, NoFarmLeft, AcquireFails, Prepared, PrepareFails, End,
           SkipFarm, ClaimOrNot, Ambiguous, ClaimTypeOK
  <1>2. ending' \in BOOLEAN
    BY Zenon DEF Begin, ReconcileFails, NoFarmLeft, AcquireFails, Prepared, PrepareFails, End,
           SkipFarm, ClaimTypeOK
  <1>3. reply'.is = "none" /\ reply' \in [is : {"none", "granted", "refused", "cancelled",
                                              "released"}, age : 0..RpcTimeout]
    <2>1. \/ reply' = reply /\ pc \in {"idle", "choosing", "preparing", "phase"}
          \/ reply' = NoReply
      BY DEF Begin, ReconcileFails, NoFarmLeft, AcquireFails, Prepared, PrepareFails, End,
             SkipFarm
    <2> QED
      BY <2>1 DEF ReplyInv, ClaimTypeOK, NoReply
  <1>4. ClaimTypeOK'
    <2>1. UNCHANGED <<pending, uncertain, lease>>
      BY <1>1
    <2> QED
      BY <1>1, <1>2, <1>3, <2>1, Zenon DEF ClaimTypeOK
  <1>5. PhaseInv'
    <2>1. valid' = valid
      BY <1>1 DEF useVars, leaseVars
    <2>2. uncertain \in Nat /\ (pending # None => uncertain # 0)
      BY IdsAre DEF PhaseInv, ClaimTypeOK
    <2> QED
      BY <1>1, <2>1, <2>2 DEF PhaseInv, Begin, ReconcileFails, NoFarmLeft, AcquireFails,
         Prepared, PrepareFails, End, SkipFarm, ClaimOrNot, MayClaim
  <1> QED
    BY <1>1, <1>3, <1>4, <1>5, PlaceStep

(* What was pending is out of question: no farm is claimed.                *)
LEMMA SettledStep ==
  ASSUME IInv, Reconciled \/ AcquireRefused
  PROVE  IInv'
  <1> USE DEF IInv, TypeOK
  <1>1. /\ UNCHANGED <<tenant, ttl, asked, withdrawn, outdated, restarts, ending, tried, lease,
                       site, valid, lost, nextId, renewals, request>>
        /\ pc' = "choosing" /\ pending' = None /\ uncertain' = 0 /\ reply' = NoReply
        /\ pending # None
    BY DEF Reconciled, AcquireRefused, Settled, ClaimOrNot, MayClaim, farmVars, faultVars, useVars,
           leaseVars, PhaseInv
  <1>2. lease = None /\ pending \in Ids
    BY <1>1 DEF PhaseInv, ClaimTypeOK
  <1>3. \A i \in Ids : ~ Claims(i)'
    <2>1. ~ Claims(pending)
      BY DEF Reconciled, AcquireRefused, ReplyInv, Claims, Holds
    <2> QED
      BY <1>1, <2>1 DEF ClaimInv, Claims, Holds
  <1>4. FarmTypeOK' /\ UseTypeOK'
    BY <1>1 DEF FarmTypeOK, UseTypeOK
  <1>5. ClaimTypeOK'
    <2>1. 0 \in 0..Never /\ NoReply \in [is : {"none", "granted", "refused", "cancelled",
                                               "released"}, age : 0..RpcTimeout]
      BY IdsAre DEF NoReply
    <2> QED
      BY <1>1, <2>1, Zenon DEF ClaimTypeOK
  <1>6. PhaseInv' /\ ReplyInv' /\ GrantInv'
    BY <1>1, <1>2, IdsAre DEF PhaseInv, ReplyInv, GrantInv, NoReply, UseTypeOK
  <1>7. ClaimInv'
    BY <1>3 DEF ClaimInv
  <1>8. LeaseBacked' /\ GrantBacked'
    BY <1>1, <1>2 DEF BackedInv, LeaseBacked, GrantBacked, InUse, RequestUnder, Usable, Holds
  <1>9. RenewalBacked'
    BY <1>1, <1>2 DEF BackedInv, RenewalBacked, InUse, RequestUnder, Usable
  <1> QED
    BY <1>4, <1>5, <1>6, <1>7, <1>8, <1>9 DEF BackedInv

(* A farm is asked when none is claimed.                                   *)
LEMMA AskStep ==
  ASSUME IInv, NEW f \in Farms, AskFarm(f)
  PROVE  IInv'
  <1> USE DEF IInv, TypeOK
  <1>1. /\ UNCHANGED <<tenant, ttl, withdrawn, outdated, restarts, ending, lease, valid, lost,
                       renewals, request>>
        /\ nextId \in Ids /\ tried' = tried \cup {f} /\ uncertain' = Never
        /\ pending' = nextId /\ nextId' = nextId + 1
        /\ site' = [site EXCEPT ![nextId] = f]
        /\ asked' = asked \cup {nextId}
        /\ pc' = "acquiring" /\ reply' = NoReply
        /\ pending = None /\ lease = None /\ uncertain = 0
    BY DEF AskFarm, faultVars, PhaseInv
  <1>2. /\ nextId \in Nat /\ nextId <= MaxAcquires
        /\ site'[nextId] = f /\ \A i \in Ids \ {nextId} : site'[i] = site[i]
        /\ \A i \in Ids : i < nextId => site'[i] = site[i] /\ i # nextId
    BY <1>1, IdsAre DEF UseTypeOK, Ids
  <1>3. \A i \in Ids : ~ Claims(i)
    <2> SUFFICES ASSUME NEW i \in Ids, Claims(i) PROVE FALSE
      OBVIOUS
    <2>1. i \notin asked /\ ttl[site[i]] <= 0
      BY <1>1 DEF ClaimInv, WaitedOut
    <2>2. ttl[site[i]] > 0 /\ ttl[site[i]] \in Nat
      BY <2>1 DEF Claims, Holds, FarmTypeOK
    <2> QED
      BY <2>1, <2>2
  <1>4. \A i \in Ids : Claims(i)' => i = nextId
    <2> SUFFICES ASSUME NEW i \in Ids, i # nextId, Claims(i)' PROVE FALSE
      OBVIOUS
    <2>1. site'[i] = site[i]
      BY <1>2
    <2> QED
      BY <1>1, <1>3, <2>1 DEF Claims, Holds
  <1>5. FarmTypeOK' /\ UseTypeOK'
    <2>1. FarmTypeOK'
      BY <1>1 DEF FarmTypeOK
    <2>2. nextId' \in 1..(MaxAcquires + 1)
      BY <1>1, <1>2
    <2>3. site' \in [Ids -> Farms \cup {None}]
      BY <1>1 DEF UseTypeOK
    <2> QED
      BY <1>1, <2>1, <2>2, <2>3 DEF UseTypeOK
  <1>6. ClaimTypeOK'
    <2>1. Never \in 0..Never /\ NoReply \in [is : {"none", "granted", "refused", "cancelled",
                                               "released"}, age : 0..RpcTimeout]
      BY IdsAre DEF NoReply
    <2> QED
      BY <1>1, <2>1, Zenon DEF ClaimTypeOK
  <1>7. PhaseInv' /\ ReplyInv'
    BY <1>1, <1>2 DEF PhaseInv, ReplyInv, NoReply, GrantInv
  <1>8. GrantInv'
    <2>0. ASSUME NEW i \in Ids, i < nextId, i \notin asked
          PROVE  i < nextId' /\ i \notin asked' /\ i # pending' /\ site'[i] = site[i]
      <3>1. i \in Nat
        BY IdsAre
      <3>2. i < nextId + 1 /\ i # nextId
        BY <1>2, <2>0, <3>1
      <3> QED
        BY <1>1, <1>2, <2>0, <3>2
    <2>1. \A i \in Ids : i < nextId' => site'[i] \in Farms
      <3> SUFFICES ASSUME NEW i \in Ids, i < nextId', i # nextId PROVE site'[i] \in Farms
        BY <1>2
      <3>1. i < nextId
        BY <1>1, <1>2, IdsAre
      <3> QED
        BY <1>2, <3>1 DEF GrantInv
    <2>2. \A i \in Ids : ~ (i < nextId') => valid'[i] = 0 /\ i \notin asked'
      <3> SUFFICES ASSUME NEW i \in Ids, ~ (i < nextId') PROVE valid[i] = 0 /\ i \notin asked'
        BY <1>1
      <3>1. i # nextId /\ ~ (i < nextId)
        BY <1>1, <1>2, IdsAre
      <3> QED
        BY <1>1, <3>1 DEF GrantInv
    <2>3. \A g \in Farms : tenant'[g] \in Ids =>
           tenant'[g] < nextId' /\ tenant'[g] \notin asked' /\ site'[tenant'[g]] = g
      <3> SUFFICES ASSUME NEW g \in Farms, tenant[g] \in Ids
                   PROVE  tenant[g] < nextId' /\ tenant[g] \notin asked' /\ site'[tenant[g]] = g
        BY <1>1
      <3>1. tenant[g] < nextId /\ tenant[g] \notin asked /\ site[tenant[g]] = g
        BY DEF GrantInv
      <3> QED
        BY <2>0, <3>1
    <2>4. \A m \in renewals' : m.lease < nextId' /\ m.lease \notin asked' /\ m.lease # pending'
      <3> SUFFICES ASSUME NEW m \in renewals
                   PROVE  m.lease < nextId' /\ m.lease \notin asked' /\ m.lease # pending'
        BY <1>1
      <3>1. m.lease < nextId /\ m.lease \notin asked /\ m.lease \in Ids
        BY DEF GrantInv, UseTypeOK
      <3> QED
        BY <2>0, <3>1
    <2>5. pending' < nextId'
      BY <1>1, <1>2
    <2> QED
      BY <1>1, <2>1, <2>2, <2>3, <2>4, <2>5 DEF GrantInv
  <1>9. ClaimInv'
    BY <1>1, <1>4, IdsAre DEF ClaimInv
  <1>10. ASSUME NEW i \in Ids, InUse(i)', Usable(i)'
         PROVE  InUse(i) /\ Usable(i) /\ i < nextId
    <2>1. InUse(i) /\ Usable(i)
      BY <1>1, <1>10 DEF InUse, RequestUnder, Usable
    <2> QED
      BY <2>1 DEF GrantInv, Usable, UseTypeOK
  <1>11. LeaseBacked'
    BY <1>1, <1>2, <1>10 DEF BackedInv, LeaseBacked, Holds
  <1>12. GrantBacked'
    BY <1>1 DEF GrantBacked, NoReply
  <1>13. RenewalBacked'
    BY <1>1, <1>2, <1>10 DEF BackedInv, RenewalBacked, UseTypeOK
  <1> QED
    BY <1>5, <1>6, <1>7, <1>8, <1>9, <1>11, <1>12, <1>13 DEF BackedInv

LEMMA ExpiryType ==
  ASSUME NEW age \in Nat
  PROVE  /\ Expiry(age) \in 0..LeaseTime
         /\ Expiry(age) > 0 => Expiry(age) + age + 1 = LeaseTime
  BY DEF Expiry

(* The pending acquire becomes the lease.                                  *)
LEMMA LeasedStep ==
  ASSUME IInv, AcquireGranted
  PROVE  IInv'
  <1> USE DEF IInv, TypeOK
  <1> DEFINE p == pending
             e == Expiry(reply.age)
  <1>1. /\ UNCHANGED <<tenant, ttl, asked, withdrawn, outdated, restarts, ending, site, lost,
                       nextId, renewals, request>>
        /\ pc = "acquiring" /\ reply.is = "granted" /\ pc' = "preparing"
        /\ lease' = p /\ valid' = [valid EXCEPT ![p] = e]
        /\ pending' = None /\ uncertain' = 0 /\ tried' = {} /\ reply' = NoReply
        /\ p \in Ids /\ p < nextId /\ p \notin asked /\ lease = None
        /\ site[p] \in Farms
    BY DEF AcquireGranted, Settled, farmVars, faultVars, PhaseInv, GrantInv, ReplyInv, ClaimTypeOK
  <1>2. reply.age \in Nat /\ e \in 0..LeaseTime /\ (e > 0 => e + reply.age + 1 = LeaseTime)
    BY ExpiryType DEF ClaimTypeOK
  <1> HIDE DEF p, e
  <1>3. valid'[p] = e /\ \A i \in Ids \ {p} : valid'[i] = valid[i]
    BY <1>1 DEF UseTypeOK
  <1>4. FarmTypeOK' /\ UseTypeOK'
    BY <1>1, <1>2 DEF FarmTypeOK, UseTypeOK
  <1>5. ClaimTypeOK'
    <2>1. 0 \in 0..Never /\ NoReply \in [is : {"none", "granted", "refused", "cancelled",
                                               "released"}, age : 0..RpcTimeout]
      BY IdsAre DEF NoReply
    <2>2. {} \subseteq Farms
      OBVIOUS
    <2> QED
      BY <1>1, <2>1, <2>2, Zenon DEF ClaimTypeOK
  <1>6. PhaseInv' /\ ReplyInv'
    BY <1>1, IdsAre DEF PhaseInv, ReplyInv, NoReply
  <1>7. GrantInv'
    BY <1>1, <1>3, IdsAre DEF GrantInv, UseTypeOK
  <1>8. ClaimInv'
    BY <1>1, IdsAre DEF ClaimInv, Claims, Holds, p
  <1>9. ASSUME NEW i \in Ids, i # p, InUse(i)', Usable(i)' PROVE InUse(i) /\ Usable(i)
    BY <1>1, <1>3, <1>9 DEF InUse, RequestUnder, Usable
  <1>10. LeaseBacked'
    <2> SUFFICES ASSUME NEW i \in Ids, InUse(i)', Usable(i)', i \notin outdated
                 PROVE  Holds(site[i], i)' /\ ttl'[site[i]] >= valid'[i]
      BY <1>1 DEF LeaseBacked
    <2>1. CASE i = p
      <3>1. e > 0
        BY <1>3, <2>1 DEF Usable
      <3>2. tenant[site[p]] = p /\ ttl[site[p]] + reply.age >= LeaseTime
        BY <1>1, <1>2, <2>1, <3>1 DEF BackedInv, GrantBacked, p
      <3>3. ttl[site[p]] \in Nat
        BY <1>1 DEF FarmTypeOK
      <3>4. ttl[site[p]] >= e /\ ttl[site[p]] > 0
        BY <1>2, <3>1, <3>2, <3>3
      <3> QED
        BY <1>1, <1>3, <2>1, <3>2, <3>4 DEF Holds
    <2>2. CASE i # p
      BY <1>1, <1>3, <1>9, <2>2 DEF BackedInv, LeaseBacked, Holds
    <2> QED
      BY <2>1, <2>2
  <1>11. GrantBacked'
    BY <1>1 DEF GrantBacked
  <1>12. RenewalBacked'
    <2>1. \A m \in renewals : m.lease \in Ids /\ m.lease # p
      BY DEF GrantInv, UseTypeOK, p
    <2> QED
      BY <1>1, <1>9, <2>1 DEF BackedInv, RenewalBacked
  <1> QED
    BY <1>4, <1>5, <1>6, <1>7, <1>8, <1>10, <1>11, <1>12 DEF BackedInv

(* The lease is given up: its farm has, or will have forgotten it.         *)
LEMMA GivenUpStep ==
  ASSUME IInv, Released \/ ReleaseFails
  PROVE  IInv'
  <1> USE DEF IInv, TypeOK
  <1>1. /\ UNCHANGED <<tenant, ttl, asked, withdrawn, outdated, restarts, tried, pending, site,
                       valid, lost, nextId, renewals, request>>
        /\ pc = "releasing" /\ pc' \in {"idle", "phase"} /\ ending' = FALSE
        /\ lease' = None /\ reply' = NoReply
        /\ pending = None /\ lease \in Ids /\ lease \notin asked
    BY DEF Released, ReleaseFails, AfterRelease, farmVars, faultVars, useVars, leaseVars, PhaseInv,
           ClaimTypeOK, GrantInv
  <1>2. /\ uncertain' \in 0..Never
        /\ Released \/ uncertain' >= LeaseTime + RpcTimeout
    BY IdsAre DEF Released, ReleaseFails, WaitAfterRelease, ClaimTypeOK
  <1>3. FarmTypeOK' /\ UseTypeOK'
    BY <1>1 DEF FarmTypeOK, UseTypeOK
  <1>4. ClaimTypeOK'
    <2>1. NoReply \in [is : {"none", "granted", "refused", "cancelled", "released"},
                       age : 0..RpcTimeout]
      BY DEF NoReply
    <2> QED
      BY <1>1, <1>2, <2>1, Zenon DEF ClaimTypeOK
  <1>5. PhaseInv' /\ ReplyInv' /\ GrantInv'
    BY <1>1 DEF PhaseInv, ReplyInv, GrantInv, NoReply
  <1>6. \A i \in Ids : Claims(i)' => Claims(i) /\ i = lease
    BY <1>1, IdsAre DEF ClaimInv, Claims, Holds
  <1>7. ASSUME NEW i \in Ids, i = lease, Claims(i) PROVE WaitedOut(i)'
    <2>1. uncertain' >= LeaseTime + RpcTimeout /\ uncertain' \in Nat
      <3>1. ~ Released
        BY <1>1, <1>7 DEF Released, ReplyInv, Claims, Holds
      <3> QED
        BY <1>2, <3>1, IdsAre
    <2>2. ttl[site[i]] \in 0..LeaseTime
      BY <1>7 DEF FarmTypeOK, Claims
    <2>3. ttl'[site'[i]] <= uncertain'
      BY <1>1, <2>1, <2>2
    <2>4. \A m \in renewals' : uncertain' + m.age >= LeaseTime + RpcTimeout
      <3> SUFFICES ASSUME NEW m \in renewals
                   PROVE  uncertain' + m.age >= LeaseTime + RpcTimeout
        BY <1>1
      <3>1. m.age \in 0..RpcTimeout
        BY DEF UseTypeOK
      <3> QED
        BY <2>1, <3>1
    <2>5. i \notin asked'
      BY <1>1, <1>7
    <2> QED
      BY <2>3, <2>4, <2>5 DEF WaitedOut
  <1>8. ClaimInv'
    <2>1. \A i \in Ids : Claims(i)' => i = lease /\ WaitedOut(i)'
      BY <1>6, <1>7
    <2> QED
      BY <1>1, <2>1 DEF ClaimInv
  <1>9. ASSUME NEW i \in Ids, InUse(i)', Usable(i)' PROVE InUse(i) /\ Usable(i)
    BY <1>1, <1>9, IdsAre DEF InUse, RequestUnder, Usable
  <1>10. LeaseBacked' /\ GrantBacked'
    BY <1>1, <1>9 DEF BackedInv, LeaseBacked, GrantBacked, Holds
  <1>11. RenewalBacked'
    BY <1>1, <1>9 DEF BackedInv, RenewalBacked, UseTypeOK
  <1> QED
    BY <1>3, <1>4, <1>5, <1>8, <1>10, <1>11 DEF BackedInv

----------------------------------------------------------------------------
(* The lease in use: renewals and requests.                                *)

LEMMA UsesStep ==
  ASSUME IInv, UNCHANGED <<farmVars, lockVars, site, nextId>>, UseTypeOK',
         \A i \in Ids : InUse(i)' /\ Usable(i)' => InUse(i) /\ Usable(i),
         \A i \in Ids :
           \/ valid'[i] = valid[i]
           \/ /\ i < nextId /\ i # pending
              /\ InUse(i) /\ Usable(i) /\ i \notin outdated => ttl[site[i]] >= valid'[i],
         \A m \in renewals' :
           m \in renewals \/ (m.is = "sent" /\ m.lease = lease /\ lease # None)
  PROVE  IInv'
  <1> USE DEF IInv, TypeOK
  <1>1. UNCHANGED <<tenant, ttl, asked, withdrawn, outdated, restarts, pc, ending, tried,
                    pending, uncertain, lease, reply, site, nextId>>
    BY DEF farmVars, faultVars, lockVars, claimVars
  <1>2. FarmTypeOK' /\ ClaimTypeOK'
    BY <1>1 DEF FarmTypeOK, ClaimTypeOK
  <1>3. PhaseInv'
    BY <1>1 DEF PhaseInv, ClaimTypeOK
  <1>4. ReplyInv'
    BY <1>1 DEF ReplyInv
  <1>5. GrantInv'
    <2>1. \A m \in renewals' : m.lease < nextId /\ m.lease \notin asked /\ m.lease # pending
      BY DEF GrantInv, PhaseInv
    <2>2. \A i \in Ids : ~ (i < nextId) => valid'[i] = 0
      BY DEF GrantInv
    <2> QED
      BY <1>1, <2>1, <2>2 DEF GrantInv
  <1>6. ClaimInv'
    <2>1. ASSUME NEW i \in Ids, lease = None, WaitedOut(i) PROVE WaitedOut(i)'
      BY <1>1, <2>1 DEF WaitedOut
    <2> QED
      BY <1>1, <2>1 DEF ClaimInv, Claims, Holds
  <1>7. LeaseBacked'
    BY <1>1 DEF BackedInv, LeaseBacked, Holds
  <1>8. GrantBacked'
    BY <1>1 DEF BackedInv, GrantBacked
  <1>9. RenewalBacked'
    <2> SUFFICES ASSUME NEW m \in renewals', m.is = "renewed", InUse(m.lease)',
                        Usable(m.lease)', m.lease \notin outdated
                 PROVE  ttl[site[m.lease]] + m.age >= LeaseTime
      BY <1>1 DEF RenewalBacked
    <2>1. m \in renewals /\ m.lease \in Ids
      BY DEF UseTypeOK
    <2> QED
      BY <2>1 DEF BackedInv, RenewalBacked
  <1> QED
    BY <1>2, <1>3, <1>4, <1>5, <1>6, <1>7, <1>8, <1>9 DEF BackedInv

LEMMA UseSteps ==
  ASSUME IInv,
         \/ HeartbeatSent \/ LoseLease \/ Generate \/ FarmServes \/ Accept \/ FallBack
         \/ \E m \in renewals : HeartbeatLost(m)
  PROVE  IInv'
  <1> USE DEF IInv, TypeOK
  <1>1. UNCHANGED <<farmVars, lockVars, site, valid, nextId>>
    BY DEF HeartbeatSent, LoseLease, Generate, FarmServes, Accept, FallBack, HeartbeatLost,
           leaseVars
  <1>2. lost' \in [Ids -> BOOLEAN] /\ \A i \in Ids : lost[i] => lost'[i]
    <2>1. CASE lost' = lost
      BY <2>1, Zenon DEF UseTypeOK
    <2>2. CASE LoseLease
      BY <2>2 DEF LoseLease, UseTypeOK, ClaimTypeOK
    <2>3. CASE FallBack
      BY <2>3 DEF FallBack, UseTypeOK
    <2> QED
      BY <2>1, <2>2, <2>3
         DEF HeartbeatSent, Generate, FarmServes, Accept, HeartbeatLost, leaseVars
  <1>3. /\ renewals' \subseteq [lease : Ids, is : {"sent", "renewed", "rejected"},
                                age : 0..RpcTimeout]
        /\ \A m \in renewals' :
             m \in renewals \/ (m.is = "sent" /\ m.lease = lease /\ lease # None)
    BY DEF HeartbeatSent, LoseLease, Generate, FarmServes, Accept, FallBack, HeartbeatLost,
           UseTypeOK, ClaimTypeOK
  <1>4. request' \in {None} \cup [lease : Ids, is : {"sent", "running", "answered"}]
    BY DEF HeartbeatSent, LoseLease, Generate, FarmServes, Accept, FallBack, HeartbeatLost,
           UseTypeOK, ClaimTypeOK, Usable
  <1>5. \A i \in Ids : InUse(i)' => InUse(i)
    BY <1>1, IdsAre DEF HeartbeatSent, LoseLease, Generate, FarmServes, Accept, FallBack,
       HeartbeatLost, InUse, RequestUnder, lockVars, claimVars, UseTypeOK
  <1>6. \A i \in Ids : Usable(i)' => Usable(i)
    BY <1>1, <1>2 DEF Usable
  <1>7. UseTypeOK'
    BY <1>1, <1>2, <1>3, <1>4, Zenon DEF UseTypeOK
  <1> QED
    BY <1>1, <1>3, <1>5, <1>6, <1>7, UsesStep

LEMMA AnswerStep ==
  ASSUME IInv, NEW m \in renewals, HeartbeatAnswered(m)
  PROVE  IInv'
  <1> USE DEF IInv, TypeOK
  <1> DEFINE e == Expiry(m.age)
  <1>1. /\ m.lease = lease /\ lease \in Ids /\ m.age \in Nat
        /\ lease < nextId /\ lease # pending
        /\ renewals' = renewals \ {m}
        /\ UNCHANGED <<farmVars, lockVars, site, nextId, request>>
    BY DEF HeartbeatAnswered, GrantInv, UseTypeOK
  <1>2. UNCHANGED <<pc, lease, ttl, outdated>>
    BY <1>1 DEF farmVars, faultVars, lockVars, claimVars
  <1>3. e \in 0..LeaseTime /\ (e > 0 => e + m.age + 1 = LeaseTime)
    BY <1>1, ExpiryType
  <1>4. \/ /\ m.is = "renewed" /\ Usable(lease) /\ e > 0
           /\ valid' = [valid EXCEPT ![lease] = e] /\ lost' = lost
        \/ valid' = valid /\ lost' = [lost EXCEPT ![lease] = TRUE]
    BY <1>1 DEF HeartbeatAnswered, RenewedBy
  <1> HIDE DEF e
  <1>5. /\ lost' \in [Ids -> BOOLEAN] /\ \A i \in Ids : lost[i] => lost'[i]
    <2>1. CASE lost' = lost
      BY <2>1, Zenon DEF UseTypeOK
    <2>2. CASE lost' = [lost EXCEPT ![lease] = TRUE]
      BY <1>1, <2>2 DEF UseTypeOK
    <2> QED
      BY <1>4, <2>1, <2>2
  <1>6. valid' \in [Ids -> 0..LeaseTime]
    BY <1>1, <1>3, <1>4 DEF UseTypeOK
  <1>7. UseTypeOK'
    <2>1. renewals' \subseteq renewals
      BY <1>1
    <2> QED
      BY <1>1, <1>5, <1>6, <2>1, Zenon DEF UseTypeOK
  <1>8. \A i \in Ids : InUse(i)' /\ Usable(i)' => InUse(i) /\ Usable(i)
    BY <1>1, <1>2, <1>4, <1>5 DEF InUse, RequestUnder, Usable, UseTypeOK
  <1>9. ASSUME NEW i \in Ids, valid'[i] # valid[i]
        PROVE  /\ i < nextId /\ i # pending
               /\ InUse(i) /\ Usable(i) /\ i \notin outdated => ttl[site[i]] >= valid'[i]
    <2>1. i = lease /\ m.is = "renewed" /\ e > 0 /\ valid'[i] = e
      BY <1>1, <1>4, <1>9 DEF UseTypeOK
    <2>2. ASSUME InUse(i), Usable(i), i \notin outdated PROVE ttl[site[i]] >= e
      <3>1. ttl[site[i]] + m.age >= LeaseTime
        BY <1>1, <2>1, <2>2 DEF BackedInv, RenewalBacked
      <3>2. ttl[site[i]] \in Nat
        BY <1>1, <2>1 DEF GrantInv, FarmTypeOK
      <3> QED
        BY <1>1, <1>3, <2>1, <3>1, <3>2
    <2> QED
      BY <1>1, <2>1, <2>2
  <1> QED
    BY <1>1, <1>7, <1>8, <1>9, UsesStep

----------------------------------------------------------------------------
(* Time passes, for the farms and for the borrower alike.                  *)

LEMMA LessIs ==
  ASSUME NEW n \in Nat
  PROVE  /\ Less(n) \in Nat /\ Less(n) <= n /\ Less(n) + 1 >= n
         /\ Less(n) > 0 => n > 0 /\ Less(n) + 1 = n
         /\ n > 0 => Less(n) + 1 = n
         /\ n = 0 => Less(n) = 0
  BY DEF Less

LEMMA OneLater ==
  ASSUME NEW u \in Nat, NEW v \in Nat, NEW a \in Nat, NEW k \in Nat,
         v + 1 >= u, u + a >= k
  PROVE  v + (a + 1) >= k
  OBVIOUS

LEMMA TickStep ==
  ASSUME IInv, Tick
  PROVE  IInv'
  <1> USE DEF IInv, TypeOK
  <1>1. /\ ttl' = [f \in Farms |-> Less(ttl[f])]
        /\ valid' = [i \in Ids |-> Less(valid[i])]
        /\ uncertain' = IF uncertain = Never THEN Never ELSE Less(uncertain)
        /\ reply' = IF pc = "acquiring" THEN [reply EXCEPT !.age = @ + 1] ELSE reply
        /\ pc = "acquiring" => reply.age < RpcTimeout
        /\ renewals' = {[m EXCEPT !.age = @ + 1] : m \in {n \in renewals : n.age < RpcTimeout}}
        /\ UNCHANGED <<tenant, asked, withdrawn, outdated, restarts, pc, ending, tried,
                       pending, lease, site, lost, nextId, request>>
    BY DEF Tick, faultVars
  <1>2. \A f \in Farms : /\ ttl[f] \in 0..LeaseTime /\ ttl'[f] = Less(ttl[f])
                         /\ ttl'[f] \in 0..LeaseTime /\ ttl'[f] <= ttl[f]
    BY <1>1, LessIs DEF FarmTypeOK
  <1>3. \A i \in Ids : /\ valid[i] \in 0..LeaseTime /\ valid'[i] = Less(valid[i])
                       /\ valid'[i] \in 0..LeaseTime
    BY <1>1, LessIs DEF UseTypeOK
  <1>4. /\ uncertain \in 0..Never /\ uncertain' \in 0..Never
        /\ uncertain = Never => uncertain' = Never
        /\ uncertain = 0 => uncertain' = 0
        /\ uncertain # Never => uncertain' = Less(uncertain)
    BY <1>1, LessIs, IdsAre DEF ClaimTypeOK
  <1>5. ASSUME NEW m \in renewals'
        PROVE  \E n \in renewals :
                 /\ n.lease = m.lease /\ n.is = m.is /\ m.age = n.age + 1
                 /\ n.age \in Nat /\ n.age < RpcTimeout /\ m.lease \in Ids
                 /\ m.is \in {"sent", "renewed", "rejected"}
    <2>1. PICK n \in renewals : n.age < RpcTimeout /\ m = [n EXCEPT !.age = @ + 1]
      BY <1>1, <1>5
    <2>2. n \in [lease : Ids, is : {"sent", "renewed", "rejected"}, age : 0..RpcTimeout]
      BY DEF UseTypeOK
    <2> QED
      BY <2>1, <2>2
  <1>6. /\ reply'.is = reply.is
        /\ reply' \in [is : {"none", "granted", "refused", "cancelled", "released"},
                       age : 0..RpcTimeout]
        /\ pc = "acquiring" => reply'.age = reply.age + 1
    BY <1>1 DEF ClaimTypeOK
  <1>7. FarmTypeOK'
    BY <1>1, <1>2 DEF FarmTypeOK
  <1>8. ClaimTypeOK'
    BY <1>1, <1>4, <1>6, Zenon DEF ClaimTypeOK
  <1>9. UseTypeOK'
    <2>1. valid' \in [Ids -> 0..LeaseTime]
      BY <1>1, <1>3
    <2>2. renewals' \subseteq [lease : Ids, is : {"sent", "renewed", "rejected"},
                               age : 0..RpcTimeout]
      <3> SUFFICES ASSUME NEW n \in renewals, n.age < RpcTimeout
                   PROVE  [n EXCEPT !.age = @ + 1] \in
                            [lease : Ids, is : {"sent", "renewed", "rejected"},
                             age : 0..RpcTimeout]
        BY <1>1
      <3> QED
        BY DEF UseTypeOK
    <2> QED
      BY <1>1, <2>1, <2>2, Zenon DEF UseTypeOK
  <1>10. PhaseInv'
    <2>1. pending # None => pending \in Ids
      BY DEF ClaimTypeOK
    <2> QED
      BY <1>1, <1>3, <1>4, <2>1, LessIs DEF PhaseInv
  <1>11. ReplyInv'
    BY <1>1, <1>6 DEF ReplyInv
  <1>12. GrantInv'
    <2>1. \A i \in Ids : ~ (i < nextId) => valid'[i] = 0
      BY <1>3, LessIs DEF GrantInv
    <2>2. \A m \in renewals' : m.lease < nextId /\ m.lease \notin asked /\ m.lease # pending
      BY <1>5 DEF GrantInv
    <2> QED
      BY <1>1, <2>1, <2>2 DEF GrantInv
  <1>13. \A i \in Ids : Claims(i)' => Claims(i)
    BY <1>1, <1>2 DEF Claims, Holds
  <1>14. ASSUME NEW i \in Ids, Claims(i), WaitedOut(i) PROVE WaitedOut(i)'
    <2>1. site[i] \in Farms /\ ttl[site[i]] <= uncertain /\ i \notin asked
      BY <1>14 DEF Claims, WaitedOut
    <2>2. ttl'[site[i]] <= uncertain'
      <3>1. ttl[site[i]] \in Nat /\ ttl'[site[i]] = Less(ttl[site[i]]) /\ uncertain \in Nat
        BY <1>2, <1>4, <2>1, IdsAre
      <3>2. CASE uncertain = Never
        BY <1>2, <1>4, <2>1, <3>1, <3>2, IdsAre
      <3>3. CASE uncertain # Never
        BY <1>4, <2>1, <3>1, <3>3 DEF Less
      <3> QED
        BY <3>2, <3>3
    <2>3. ASSUME NEW m \in renewals', m.lease = i, m.is = "sent"
          PROVE  uncertain' + m.age >= LeaseTime + RpcTimeout
      <3>1. PICK n \in renewals : n.lease = i /\ n.is = "sent" /\ m.age = n.age + 1
                                  /\ n.age \in Nat
        BY <1>5, <2>3
      <3>2. uncertain + n.age >= LeaseTime + RpcTimeout
        BY <1>14, <3>1 DEF WaitedOut
      <3>3. uncertain \in Nat /\ uncertain' \in Nat
        BY <1>4, IdsAre
      <3>4. uncertain' + 1 >= uncertain
        <4>1. CASE uncertain = Never
          BY <1>4, <3>3, <4>1
        <4>2. CASE uncertain # Never
          BY <1>4, <3>3, <4>2, LessIs
        <4> QED
          BY <4>1, <4>2
      <3>5. m.age \in Nat /\ LeaseTime + RpcTimeout \in Nat
        BY <3>1
      <3> QED
        BY <3>1, <3>2, <3>3, <3>4, <3>5, OneLater
    <2> QED
      BY <1>1, <2>1, <2>2, <2>3 DEF WaitedOut
  <1>15. ClaimInv'
    BY <1>1, <1>13, <1>14 DEF ClaimInv
  <1>16. ASSUME NEW i \in Ids, InUse(i)', Usable(i)', i \notin outdated
         PROVE  /\ InUse(i) /\ Usable(i) /\ tenant[site[i]] = i /\ site[i] \in Farms
                /\ ttl'[site[i]] >= valid'[i] /\ ttl'[site[i]] > 0
                /\ ttl'[site[i]] + 1 = ttl[site[i]]
    <2>1. InUse(i) /\ Usable(i) /\ valid'[i] > 0
      BY <1>1, <1>3, <1>16, LessIs DEF InUse, RequestUnder, Usable
    <2>2. Holds(site[i], i) /\ ttl[site[i]] >= valid[i]
      BY <1>16, <2>1 DEF BackedInv, LeaseBacked
    <2>3. i < nextId
      BY <2>1 DEF GrantInv, Usable
    <2>4. site[i] \in Farms /\ tenant[site[i]] = i
      BY <2>2, <2>3 DEF GrantInv, Holds
    <2>5. /\ valid[i] \in Nat /\ ttl[site[i]] \in Nat
          /\ valid'[i] = Less(valid[i]) /\ ttl'[site[i]] = Less(ttl[site[i]])
      BY <1>2, <1>3, <2>4
    <2> QED
      BY <2>1, <2>2, <2>4, <2>5 DEF Less
  <1>17. LeaseBacked'
    BY <1>1, <1>16 DEF LeaseBacked, Holds
  <1>18. GrantBacked'
    <2> SUFFICES ASSUME pc = "acquiring", reply.is = "granted", pending \notin outdated
                 PROVE  \/ reply'.age >= LeaseTime
                        \/ /\ tenant[site[pending]] = pending
                           /\ ttl'[site[pending]] + reply'.age >= LeaseTime
      BY <1>1, <1>6 DEF GrantBacked
    <2>1. /\ site[pending] \in Farms /\ reply.age \in Nat /\ reply'.age = reply.age + 1
      BY <1>6 DEF PhaseInv, GrantInv, ClaimTypeOK
    <2>2. ttl[site[pending]] \in Nat /\ ttl'[site[pending]] \in Nat
          /\ ttl'[site[pending]] + 1 >= ttl[site[pending]]
      BY <1>2, <2>1, LessIs
    <2> QED
      BY <2>1, <2>2 DEF BackedInv, GrantBacked
  <1>19. RenewalBacked'
    <2> SUFFICES ASSUME NEW m \in renewals', m.is = "renewed", InUse(m.lease)',
                        Usable(m.lease)', m.lease \notin outdated
                 PROVE  ttl'[site[m.lease]] + m.age >= LeaseTime
      BY <1>1 DEF RenewalBacked
    <2>1. PICK n \in renewals : /\ n.lease = m.lease /\ n.is = "renewed" /\ m.age = n.age + 1
                                /\ n.age \in Nat /\ m.lease \in Ids
      BY <1>5
    <2>2. /\ InUse(m.lease) /\ Usable(m.lease) /\ site[m.lease] \in Farms
          /\ ttl'[site[m.lease]] + 1 = ttl[site[m.lease]]
      BY <1>16, <2>1
    <2>3. ttl[site[m.lease]] + n.age >= LeaseTime
      BY <2>1, <2>2 DEF BackedInv, RenewalBacked
    <2>4. ttl[site[m.lease]] \in Nat /\ ttl'[site[m.lease]] \in Nat
      BY <1>2, <2>2
    <2> QED
      BY <2>1, <2>2, <2>3, <2>4
  <1> QED
    BY <1>7, <1>8, <1>9, <1>10, <1>11, <1>12, <1>15, <1>17, <1>18, <1>19 DEF BackedInv

----------------------------------------------------------------------------
LEMMA StutterHolds ==
  ASSUME IInv, UNCHANGED vars
  PROVE  IInv'
  <1> USE DEF IInv, TypeOK
  <1>1. UNCHANGED <<tenant, ttl, asked, withdrawn, outdated, restarts, pc, ending, tried, pending,
                    uncertain, lease, reply, site, valid, lost, nextId, renewals, request>>
    BY DEF vars, farmVars, faultVars, lockVars, claimVars, useVars, leaseVars
  <1>2. FarmTypeOK' /\ ClaimTypeOK' /\ UseTypeOK'
    <2>1. FarmTypeOK'
      BY <1>1, Zenon DEF FarmTypeOK
    <2>2. ClaimTypeOK'
      BY <1>1, Zenon DEF ClaimTypeOK
    <2>3. UseTypeOK'
      BY <1>1, Zenon DEF UseTypeOK
    <2> QED
      BY <2>1, <2>2, <2>3
  <1>3. PhaseInv' /\ ReplyInv' /\ GrantInv'
    BY <1>1 DEF PhaseInv, ReplyInv, GrantInv
  <1>4. ClaimInv'
    BY <1>1 DEF ClaimInv, Claims, WaitedOut, Holds
  <1>5. BackedInv'
    BY <1>1 DEF BackedInv, LeaseBacked, GrantBacked, RenewalBacked, InUse, RequestUnder, Usable,
                Holds
  <1> QED
    BY <1>2, <1>3, <1>4, <1>5

LEMMA StepHolds == IInv /\ [Next]_vars => IInv'
  <1> SUFFICES ASSUME IInv, [Next]_vars PROVE IInv'
    OBVIOUS
  <1>1. CASE \E i \in Ids : FarmGrants(i) \/ FarmRefuses(i)
    BY <1>1, GrantStep, FarmSteps
  <1>2. CASE \E f \in Farms : \/ OtherAcquires(f) \/ OtherReleases(f) \/ FarmRestarts(f)
                              \/ SkipFarm(f) \/ AskFarm(f)
    BY <1>2, FarmSteps, PlaceSteps, AskStep
  <1>3. CASE FarmCancels \/ FarmReleases \/ FarmServes
    BY <1>3, FarmSteps, UseSteps
  <1>4. CASE Begin \/ Reconciled \/ ReconcileFails \/ NoFarmLeft
    BY <1>4, PlaceSteps, SettledStep
  <1>5. CASE AcquireRefused \/ AcquireGranted \/ AcquireFails \/ Prepared \/ PrepareFails
    BY <1>5, PlaceSteps, SettledStep, LeasedStep
  <1>6. CASE End \/ Released \/ ReleaseFails
    BY <1>6, PlaceSteps, GivenUpStep
  <1>7. CASE \E m \in renewals : FarmRenews(m) \/ HeartbeatAnswered(m) \/ HeartbeatLost(m)
    BY <1>7, RenewStep, AnswerStep, UseSteps
  <1>8. CASE HeartbeatSent \/ LoseLease \/ Generate \/ Accept \/ FallBack
    BY <1>8, UseSteps
  <1>9. CASE Tick
    BY <1>9, TickStep
  <1>10. CASE UNCHANGED vars
    BY <1>10, StutterHolds
  <1> QED
    BY <1>1, <1>2, <1>3, <1>4, <1>5, <1>6, <1>7, <1>8, <1>9, <1>10 DEF Next

(* What the borrower claims, and what its leases have left at their farms, *)
(* is as the invariant says in every reachable state.                      *)
THEOREM BorrowingInvariant == Spec => []IInv
  BY InitHolds, StepHolds, PTL DEF Spec

(* Whatever answers are late or lost and whichever farms restart, at most  *)
(* one farm holds a lease of the borrower or may still grant it one.       *)
THEOREM OneFarm == Spec => []OneFarmClaimed
  <1>1. IInv => OneFarmClaimed
    <2> SUFFICES ASSUME IInv, NEW f \in Claimed, NEW g \in Claimed PROVE f = g
      BY DEF OneFarmClaimed
    <2>1. PICK i \in Ids : site[i] = f /\ Claims(i)
      BY DEF Claimed, Claims
    <2>2. PICK j \in Ids : site[j] = g /\ Claims(j)
      BY DEF Claimed, Claims
    <2> QED
      BY <2>1, <2>2 DEF IInv, ClaimInv
  <1> QED
    BY <1>1, BorrowingInvariant, PTL

(* What the borrower takes for a valid lease its farm keeps for at least   *)
(* as long, unless the farm has restarted.                                 *)
THEOREM LeaseStaysBacked == Spec => []LeaseBacked
  <1>1. IInv => LeaseBacked
    BY DEF IInv, BackedInv
  <1> QED
    BY <1>1, BorrowingInvariant, PTL
=============================================================================
