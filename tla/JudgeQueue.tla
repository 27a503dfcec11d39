----------------------------- MODULE JudgeQueue -----------------------------
(***************************************************************************)
(* The arena's pull queue: candidates wait in a FIFO in the memory of one  *)
(* process, judges lease them, keep their lease with heartbeats and post   *)
(* verdicts, and a client that submitted them polls until it has a verdict *)
(* for each.                                                               *)
(*                                                                         *)
(* Every handler of the queue runs under its lock and is one step.  An     *)
(* HTTP call may fail before or after the queue served it, and a verdict   *)
(* whose call timed out may be served later.  Time passes in ticks and ttl *)
(* counts lease_expiry - now.  A lease is named by its item and the item's *)
(* attempt: lease_id is a fresh uuid.  Faults are counted and bounded, so  *)
(* that attempts are.                                                      *)
(***************************************************************************)
EXTENDS Integers, FiniteSets, Sequences

CONSTANTS
  Works,        (* the candidates the client submits                       *)
  Judges,
  LeaseTime,    (* lease_timeout_s, in ticks                               *)
  CompileBudget,(* whether the judges have a compile budget                *)
  MaxRestarts,  (* model bound: restarts of the queue                      *)
  MaxFaults,    (* model bound: judges lost, calls lost, leases overrun    *)
  None

ASSUME JudgeQueueAssumption ==
  /\ IsFiniteSet(Works) /\ Works \subseteq Nat
  /\ LeaseTime \in Nat \ {0}
  /\ CompileBudget \in BOOLEAN
  /\ MaxRestarts \in Nat
  /\ MaxFaults \in Nat

VARIABLES
  fifo,         (* the ids in the deque                                    *)
  state,        (* of each id; "unknown" after a restart                   *)
  payload,      (* the candidate an id was submitted for                   *)
  attempts,
  ttl,          (* ticks until the lease of an id expires                  *)
  result,       (* the verdict of an id                                    *)
  job,          (* the lease each judge grades under                       *)
  overrun,      (* the candidate whose compile the judge's watchdog gave up*)
  posts,        (* verdicts whose call timed out                            *)
  pc,           (* where the client is                                     *)
  asked,        (* the candidate it is about to submit again               *)
  alias,        (* the current id of each candidate                        *)
  answer,       (* the verdicts the client has                             *)
  nextId, restarts, faults

queueVars == <<fifo, state, attempts, ttl, result>>
judgeVars == <<job, overrun>>
clientVars == <<pc, asked, alias, answer>>
idVars == <<payload, nextId>>
vars == <<queueVars, judgeVars, posts, clientVars, idVars, restarts, faults>>

(* A restart makes the client submit each candidate at most once more.     *)
Ids == 1..(Cardinality(Works) * (1 + MaxRestarts))

Lease == [id : Ids, attempt : Nat]

(* What a judge says of a candidate: its grading or its watchdog does.     *)
(* (That a verdict is terminal changes nothing: it completes the item.)    *)
Verdict == [work : Works, watchdog : BOOLEAN]

Post == [id : Ids, verdict : Verdict]

ASSUME NoneAssumption == None \notin Works \cup Ids \cup Lease \cup Verdict

(* The client has stopped waiting.                                         *)
Over == pc \in {"returned", "raised"}

(* Model bound: after that there are no more faults and restarts.          *)
Fault ==
  /\ ~ Over /\ faults < MaxFaults
  /\ faults' = faults + 1

Init ==
  /\ fifo = <<>>
  /\ state = [i \in Ids |-> "absent"]
  /\ payload = [i \in Ids |-> None]
  /\ attempts = [i \in Ids |-> 0]
  /\ ttl = [i \in Ids |-> 0]
  /\ result = [i \in Ids |-> None]
  /\ job = [j \in Judges |-> None]
  /\ overrun = [j \in Judges |-> None]
  /\ posts = {}
  /\ pc = "submitting" /\ asked = None
  /\ alias = [w \in Works |-> None]
  /\ answer = [w \in Works |-> None]
  /\ nextId = 1 /\ restarts = 0 /\ faults = 0

----------------------------------------------------------------------------
(* The handlers of the queue.                                              *)

Known(i) == state[i] \in {"queued", "leased", "done"}

Expired == {i \in Ids : state[i] = "leased" /\ ttl[i] = 0}

(* The order in which appendleft leaves the ids of S when they are taken   *)
(* by age: the youngest is in front.                                       *)
YoungestFirst(S) ==
  {s \in [1..Cardinality(S) -> S] :
     \A a, b \in 1..Cardinality(S) : a < b => s[a] > s[b]}

(* _sweep_expired_locked: the states it leaves and, for the order s of the *)
(* expired ids, the deque.                                                 *)
SweptState == [i \in Ids |-> IF i \in Expired THEN "queued" ELSE state[i]]

(* Broken variant: the expired items are not put back into the deque.      *)
SweptFifoForgets(s) == fifo

SweptFifo(s) == s \o fifo

(* Broken variant: the head of the deque is leased whatever its state.     *)
HeadOfQueue(queue, states) == {k \in 1..Len(queue) : k = 1}

(* The place get_work stops popping at: the first id still queued.         *)
FirstQueued(queue, states) ==
  {k \in 1..Len(queue) : /\ states[queue[k]] = "queued"
                         /\ \A h \in 1..(k - 1) : states[queue[h]] # "queued"}

(* get_work: the place k of the deque is leased.                           *)
GrantLease(queue, states, k) ==
  LET i == queue[k] IN
    /\ fifo' = SubSeq(queue, k + 1, Len(queue))
    /\ state' = [states EXCEPT ![i] = "leased"]
    /\ ttl' = [ttl EXCEPT ![i] = LeaseTime]
    /\ attempts' = [attempts EXCEPT ![i] = @ + 1]

(* get_work with nothing to grade: stale pointers are dropped.             *)
NothingToGrade(queue, states) ==
  /\ \A k \in 1..Len(queue) : states[queue[k]] # "queued"
  /\ fifo' = <<>>
  /\ state' = states
  /\ UNCHANGED <<ttl, attempts>>

(* submit, under the id the queue gives the payload.                       *)
Enqueue(w) ==
  /\ nextId \in Ids
  /\ state' = [state EXCEPT ![nextId] = "queued"]
  /\ payload' = [payload EXCEPT ![nextId] = w]
  /\ fifo' = Append(fifo, nextId)
  /\ nextId' = nextId + 1
  /\ UNCHANGED <<attempts, ttl, result>>

(* Broken variant: a later verdict overwrites the first.                   *)
RecordAlways(i, v) ==
  /\ IF Known(i)
     THEN /\ result' = [result EXCEPT ![i] = v]
          /\ state' = [state EXCEPT ![i] = "done"]
     ELSE UNCHANGED <<result, state>>
  /\ UNCHANGED <<fifo, attempts, ttl>>

(* post_result: a verdict of any lease, also an expired one, completes an  *)
(* item that has none; 404 and duplicates change nothing.                  *)
Record(i, v) ==
  /\ IF Known(i) /\ state[i] # "done"
     THEN /\ result' = [result EXCEPT ![i] = v]
          /\ state' = [state EXCEPT ![i] = "done"]
     ELSE UNCHANGED <<result, state>>
  /\ UNCHANGED <<fifo, attempts, ttl>>

----------------------------------------------------------------------------
(* The judges: poll_loop and the watchdog of the compile budget.           *)

(* GET /work with an answer; a judge without work asks again.              *)
GetWork(j) ==
  /\ job[j] = None
  /\ \E s \in YoungestFirst(Expired) :
       LET queue == SweptFifo(s) IN
         \/ \E k \in FirstQueued(queue, SweptState) :
              /\ GrantLease(queue, SweptState, k)
              /\ job' = [job EXCEPT ![j] =
                           [id |-> queue[k],
                            attempt |-> attempts[queue[k]] + 1]]
         \/ NothingToGrade(queue, SweptState) /\ UNCHANGED job
  /\ UNCHANGED <<result, overrun, posts, clientVars, idVars, restarts, faults>>

(* GET /work whose answer is lost: nobody grades under the lease.          *)
GetWorkLost(j) ==
  /\ job[j] = None
  /\ Fault
  /\ \E s \in YoungestFirst(Expired) :
       \E k \in FirstQueued(SweptFifo(s), SweptState) :
         GrantLease(SweptFifo(s), SweptState, k)
  /\ UNCHANGED <<result, judgeVars, posts, clientVars, idVars, restarts>>

(* The heartbeat thread: only a lease that has not expired is extended.    *)
Heartbeat(j) ==
  /\ job[j] # None
  /\ LET i == job[j].id IN
       /\ state[i] = "leased" /\ attempts[i] = job[j].attempt
       /\ ttl[i] > 0
       /\ ttl' = [ttl EXCEPT ![i] = LeaseTime]
  /\ UNCHANGED <<fifo, state, attempts, result, judgeVars, posts, clientVars,
                 idVars, restarts, faults>>

(* What a judge posts: a verdict of candidate w for the item it leases.    *)
PostFor(j, w, watchdog) ==
  [id |-> job[j].id, verdict |-> [work |-> w, watchdog |-> watchdog]]

(* grade_fn returns, the verdict is posted and the poster detached.        *)
Finish(j) ==
  /\ job[j] # None
  /\ LET p == PostFor(j, payload[job[j].id], FALSE)
     IN Record(p.id, p.verdict)
  /\ job' = [job EXCEPT ![j] = None]
  /\ UNCHANGED <<overrun, posts, clientVars, idVars, restarts, faults>>

(* The call times out: its verdict may still arrive, or never.             *)
FinishUnheard(j) ==
  /\ job[j] # None
  /\ Fault
  /\ posts' = posts \cup {PostFor(j, payload[job[j].id], FALSE)}
  /\ job' = [job EXCEPT ![j] = None]
  /\ UNCHANGED <<queueVars, overrun, clientVars, idVars, restarts>>

(* _on_compile_timeout: the watchdog thread finds the budget of the        *)
(* candidate spent and writes its verdict.                                 *)
WatchdogFires(j) ==
  /\ CompileBudget
  /\ job[j] # None /\ overrun[j] = None
  /\ overrun' = [overrun EXCEPT ![j] = payload[job[j].id]]
  /\ UNCHANGED <<queueVars, job, posts, clientVars, idVars, restarts, faults>>

(* It reads the poster, which belongs to what the judge's main thread      *)
(* holds by now, posts the verdict and ends the process.  Without a poster *)
(* it leaves the verdict to the main thread.                               *)
WatchdogPosts(j) ==
  /\ overrun[j] # None
  /\ IF job[j] = None
     THEN UNCHANGED queueVars
     ELSE LET p == PostFor(j, overrun[j], TRUE) IN Record(p.id, p.verdict)
  /\ job' = [job EXCEPT ![j] = None]
  /\ overrun' = [overrun EXCEPT ![j] = None]
  /\ UNCHANGED <<posts, clientVars, idVars, restarts, faults>>

(* The judge is killed, or its chip fails and it exits without a verdict;  *)
(* a new one takes its place.                                              *)
JudgeDies(j) ==
  /\ job[j] # None
  /\ Fault
  /\ job' = [job EXCEPT ![j] = None]
  /\ overrun' = [overrun EXCEPT ![j] = None]
  /\ UNCHANGED <<queueVars, posts, clientVars, idVars, restarts>>

(* A late verdict arrives.                                                 *)
PostResult ==
  /\ \E p \in posts : Record(p.id, p.verdict) /\ posts' = posts \ {p}
  /\ UNCHANGED <<judgeVars, clientVars, idVars, restarts, faults>>

PostLost ==
  /\ \E p \in posts : posts' = posts \ {p}
  /\ UNCHANGED <<queueVars, judgeVars, clientVars, idVars, restarts, faults>>

----------------------------------------------------------------------------
(* ArenaQueueClient.                                                       *)

(* Candidates are submitted one after the other.                           *)
NextSubmission(w) ==
  /\ alias[w] = None
  /\ \A u \in Works : u < w => alias[u] # None

Submit(w) ==
  /\ pc = "submitting"
  /\ NextSubmission(w)
  /\ Enqueue(w)
  /\ alias' = [alias EXCEPT ![w] = nextId]
  /\ UNCHANGED <<judgeVars, posts, pc, asked, answer, restarts, faults>>

StartWait ==
  /\ pc = "submitting"
  /\ \A w \in Works : alias[w] # None
  /\ pc' = "waiting"
  /\ UNCHANGED <<queueVars, judgeVars, posts, asked, alias, answer, idVars,
                 restarts, faults>>

(* Broken variant: the client does not submit again.                       *)
NotFoundIgnored(w) == UNCHANGED <<pc, asked>>

(* 404: the queue has lost the item.                                       *)
NotFound(w) == pc' = "resubmitting" /\ asked' = w

(* Broken variant: the verdict is taken for another candidate.             *)
TakeShifted(w) ==
  \E u \in Works : answer' = [answer EXCEPT ![u] = result[alias[w]]]

Take(w) == answer' = [answer EXCEPT ![w] = result[alias[w]]]

(* GET /result for the current id of a candidate.                          *)
Poll(w) ==
  /\ pc = "waiting"
  /\ answer[w] = None
  /\ \/ /\ ~ Known(alias[w])
        /\ NotFound(w)
        /\ UNCHANGED answer
     \/ /\ state[alias[w]] = "done"
        /\ Take(w)
        /\ UNCHANGED <<pc, asked>>
  /\ UNCHANGED <<queueVars, judgeVars, posts, alias, idVars, restarts, faults>>

Resubmit ==
  /\ pc = "resubmitting"
  /\ Enqueue(payload[alias[asked]])
  /\ alias' = [alias EXCEPT ![asked] = nextId]
  /\ pc' = "waiting" /\ asked' = None
  /\ UNCHANGED <<judgeVars, posts, answer, restarts, faults>>

(* A submission whose answer is lost raises, in wait as well: the except   *)
(* clause does not cover the POST inside it.                               *)
SubmitFails ==
  /\ \/ pc = "submitting" /\ \E w \in Works : NextSubmission(w) /\ Enqueue(w)
     \/ pc = "resubmitting" /\ Enqueue(payload[alias[asked]])
     \/ /\ pc \in {"submitting", "resubmitting"}
        /\ UNCHANGED <<queueVars, idVars>>
  /\ pc' = "raised" /\ asked' = None
  /\ UNCHANGED <<judgeVars, posts, alias, answer, restarts, faults>>

(* wait returns: it has every verdict, or its deadline has passed.         *)
Return ==
  /\ pc = "waiting"
  /\ \A w \in Works : answer[w] # None
  /\ pc' = "returned"
  /\ UNCHANGED <<queueVars, judgeVars, posts, asked, alias, answer, idVars,
                 restarts, faults>>

DeadlinePasses ==
  /\ pc = "waiting"
  /\ pc' = "returned"
  /\ UNCHANGED <<queueVars, judgeVars, posts, asked, alias, answer, idVars,
                 restarts, faults>>

----------------------------------------------------------------------------
(* The queue's process and the time.                                       *)

(* status() sweeps too.                                                    *)
Status ==
  /\ Expired # {}
  /\ \E s \in YoungestFirst(Expired) : fifo' = SweptFifo(s)
  /\ state' = SweptState
  /\ UNCHANGED <<attempts, ttl, result, judgeVars, posts, clientVars, idVars,
                 restarts, faults>>

(* The queue restarts: it keeps nothing.                                   *)
Restart ==
  /\ ~ Over /\ restarts < MaxRestarts
  /\ restarts' = restarts + 1
  /\ fifo' = <<>>
  /\ state' = [i \in Ids |-> IF i < nextId THEN "unknown" ELSE state[i]]
  /\ attempts' = [i \in Ids |-> 0]
  /\ ttl' = [i \in Ids |-> 0]
  /\ result' = [i \in Ids |-> None]
  /\ UNCHANGED <<judgeVars, posts, clientVars, idVars, faults>>

(* A judge still works under the item's last lease.                        *)
Served(i) ==
  \E j \in Judges : job[j] = [id |-> i, attempt |-> attempts[i]]

(* Time passes.  That a lease expires while it is served is a fault.       *)
Tick ==
  /\ \E i \in Ids : ttl[i] > 0 /\ state[i] = "leased"
  /\ IF \E i \in Ids : ttl[i] = 1 /\ state[i] = "leased" /\ Served(i)
     THEN Fault
     ELSE UNCHANGED faults
  /\ ttl' = [i \in Ids |-> IF ttl[i] > 0 THEN ttl[i] - 1 ELSE 0]
  /\ UNCHANGED <<fifo, state, attempts, result, judgeVars, posts, clientVars,
                 idVars, restarts>>

Next ==
  \/ \E j \in Judges :
       \/ GetWork(j) \/ GetWorkLost(j) \/ Heartbeat(j)
       \/ Finish(j) \/ FinishUnheard(j) \/ JudgeDies(j)
       \/ WatchdogFires(j) \/ WatchdogPosts(j)
  \/ PostResult \/ PostLost
  \/ \E w \in Works : Submit(w) \/ Poll(w)
  \/ StartWait \/ Resubmit \/ SubmitFails \/ Return \/ DeadlinePasses
  \/ Status \/ Restart \/ Tick

Spec == Init /\ [][Next]_vars

(* The client's loop goes on, judges poll, grade and post, time passes.    *)
Fairness ==
  /\ \A w \in Works : WF_vars(Submit(w)) /\ WF_vars(Poll(w))
  /\ WF_vars(StartWait) /\ WF_vars(Resubmit) /\ WF_vars(Return)
  /\ \A j \in Judges : /\ WF_vars(GetWork(j)) /\ WF_vars(Finish(j))
                       /\ WF_vars(WatchdogPosts(j))
  /\ WF_vars(PostResult) /\ WF_vars(Tick)

FairSpec == Spec /\ Fairness

----------------------------------------------------------------------------
TypeOK ==
  /\ fifo \in Seq(Ids)
  /\ state \in [Ids -> {"absent", "queued", "leased", "done", "unknown"}]
  /\ payload \in [Ids -> Works \cup {None}]
  /\ attempts \in [Ids -> Nat]
  /\ ttl \in [Ids -> 0..LeaseTime]
  /\ result \in [Ids -> Verdict \cup {None}]
  /\ job \in [Judges -> Lease \cup {None}]
  /\ overrun \in [Judges -> Works \cup {None}]
  /\ posts \subseteq Post
  /\ pc \in {"submitting", "waiting", "resubmitting", "returned", "raised"}
  /\ asked \in Works \cup {None}
  /\ alias \in [Works -> Ids \cup {None}]
  /\ answer \in [Works -> Verdict \cup {None}]
  /\ nextId \in Nat /\ restarts \in Nat /\ faults \in Nat

(* Whatever the sweeps, late verdicts and stale pointers do, an item that  *)
(* is to be graded is in the deque, and no id is in it twice: nothing is   *)
(* lost and nothing is handed out twice for one requeue.                   *)
QueuedOnce ==
  /\ \A i \in Ids : state[i] = "queued" => \E k \in 1..Len(fifo) : fifo[k] = i
  /\ \A k, h \in 1..Len(fifo) : fifo[k] = fifo[h] => k = h

(* Until the queue restarts, an item that is done keeps its verdict and is *)
(* not leased again, though a verdict is taken from any judge, however     *)
(* late, and the item may be leased or queued again at that time.          *)
VerdictsStand ==
  [][\A i \in Ids : state[i] = "done" /\ restarts' = restarts =>
       /\ state'[i] = "done"
       /\ result'[i] = result[i]
       /\ attempts'[i] = attempts[i]]_vars

(* The verdict the client holds for a candidate is one of that candidate,  *)
(* through requeues, resubmissions under fresh ids and verdicts that come  *)
(* after either; only the verdict of a compile watchdog may be one of      *)
(* another candidate.                                                      *)
OwnVerdict ==
  \A w \in Works : answer[w] # None =>
    answer[w].work = w \/ (CompileBudget /\ answer[w].watchdog)

(* The watchdog records "a TERMINAL verdict for the item in flight"        *)
(* (worker.py:1507): no item gets the verdict of another candidate.        *)
TerminalVerdictIsOwn ==
  \A i \in Ids : result[i] # None => result[i].work = payload[i]

(* The client sees what GradedOnce promises: one lasting verdict for each  *)
(* candidate, or the end of the wait, in finite time.                      *)
Verdicts(w) == {v \in Verdict : v.work = w \/ (CompileBudget /\ v.watchdog)}

Abstract == INSTANCE GradedOnce WITH waiting <- ~ Over

ImplementsGradedOnce == Abstract!Spec
=============================================================================
