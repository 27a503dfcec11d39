-------------------------- MODULE ExternalDispatch --------------------------
(***************************************************************************)
(* EXTERNAL sampling requests: the asyncio tasks of the API process that   *)
(* serve them, and the watchdog of ExternalDispatcher that finds the rows  *)
(* whose task died, was lost in a restart or hangs, and dispatches them    *)
(* again or fails them.                                                    *)
(*                                                                         *)
(* One event loop runs the request handlers, the tasks and the watchdog:   *)
(* an action is what runs between two awaits.  Time passes in ticks; an    *)
(* age is counted up to the first value past every limit it is compared    *)
(* with.                                                                   *)
(***************************************************************************)
EXTENDS Integers, FiniteSets

CONSTANTS
  Rows,              (* request ids of EXTERNAL futures                    *)
  Slots,             (* model bound: tasks of one row not yet forgotten    *)
  StaleAfter,        (* stale_after_sec                                    *)
  InflightTimeout,   (* inflight_timeout_sec; 0 never cancels              *)
  MaxRedispatch,     (* max_redispatch; 0 is unlimited                     *)
  AbandonAfter,      (* abandon_after_sec; 0 never abandons                *)
  MaxRestarts,       (* model bound: exits of the API process              *)
  WritesMayFail,     (* whether all attempts of a terminal write may fail  *)
  None

ASSUME DispatchAssumption ==
  /\ Rows \subseteq Nat
  /\ StaleAfter \in Nat \ {0}
  /\ InflightTimeout \in Nat
  /\ MaxRedispatch \in Nat
  /\ AbandonAfter \in Nat
  /\ MaxRestarts \in Nat
  /\ WritesMayFail \in BOOLEAN
  /\ None \notin Slots

VARIABLES
  status,      (* FutureDB.status of each row, "absent" before it is there *)
  result,      (* what completed it: a task's slot or the watchdog         *)
  age,         (* since created_at                                         *)
  handler,     (* rows whose asample has committed and not dispatched yet  *)
  task,        (* what the task in a slot of a row does                    *)
  ran,         (* for how long it has                                      *)
  inflight,    (* _inflight: row |-> slot                                  *)
  started,     (* since _started[row]                                      *)
  attempts,    (* _attempts                                                *)
  dispatches,  (* of each row, since the process started                   *)
  sweep,       (* the watchdog: [pc, rows, stale, abandoned, over]         *)
  up,          (* the API process runs                                     *)
  restarts

rowVars == <<status, result, age>>
taskVars == <<task, ran, inflight, started, dispatches>>
processVars == <<up, restarts>>
vars == <<rowVars, handler, taskVars, attempts, sweep, processVars>>

Terminal == {"completed", "failed"}

AgeCap == IF AbandonAfter >= StaleAfter THEN AbandonAfter + 1 ELSE StaleAfter

(* Dispatches are counted only where they are limited.                     *)
DispatchCap == IF MaxRedispatch > 0 THEN MaxRedispatch + 2 ELSE 0

Asleep == [pc |-> "asleep", rows |-> {}, stale |-> {}, abandoned |-> {},
           over |-> {}]

Pending == {r \in Rows : status[r] = "pending"}

(* A task the event loop still runs and nobody has cancelled.              *)
LiveStates == {"calling", "writing completed", "writing failed"}

(* The row's registered task, if it is not done.                           *)
Live(r) == inflight[r] # None /\ task[r][inflight[r]] \in LiveStates

Init ==
  /\ status = [r \in Rows |-> "absent"]
  /\ result = [r \in Rows |-> None]
  /\ age = [r \in Rows |-> 0]
  /\ handler = {}
  /\ task = [r \in Rows |-> [s \in Slots |-> "free"]]
  /\ ran = [r \in Rows |-> [s \in Slots |-> 0]]
  /\ inflight = [r \in Rows |-> None]
  /\ started = [r \in Rows |-> 0]
  /\ attempts = [r \in Rows |-> 0]
  /\ dispatches = [r \in Rows |-> 0]
  /\ sweep = Asleep
  /\ up = TRUE /\ restarts = 0

(* Broken variant: the row is written whatever its status.                 *)
CompleteAlways(r, outcome, by) ==
  /\ status' = [status EXCEPT ![r] = outcome]
  /\ result' = [result EXCEPT ![r] = by]
  /\ UNCHANGED age

(* complete_external_future: UPDATE ... WHERE status = PENDING.            *)
Complete(r, outcome, by) ==
  /\ IF status[r] = "pending"
     THEN /\ status' = [status EXCEPT ![r] = outcome]
          /\ result' = [result EXCEPT ![r] = by]
     ELSE UNCHANGED <<status, result>>
  /\ UNCHANGED age

(* Broken variant: the attempt goes on with the clock of the one before.   *)
DispatchKeepsClock(r) ==
  \E s \in Slots :
    /\ task[r][s] = "free"
    /\ task' = [task EXCEPT ![r][s] = "calling"]
    /\ ran' = [ran EXCEPT ![r][s] = 0]
    /\ inflight' = [inflight EXCEPT ![r] = s]
    /\ started' = [started EXCEPT ![r] = age[r]]
    /\ dispatches' = [dispatches EXCEPT
         ![r] = IF @ < DispatchCap THEN @ + 1 ELSE @]

(* dispatch(): a new task is registered, whatever was registered before.   *)
Dispatch(r) ==
  \E s \in Slots :
    /\ task[r][s] = "free"
    /\ task' = [task EXCEPT ![r][s] = "calling"]
    /\ ran' = [ran EXCEPT ![r][s] = 0]
    /\ inflight' = [inflight EXCEPT ![r] = s]
    /\ started' = [started EXCEPT ![r] = 0]
    /\ dispatches' = [dispatches EXCEPT
         ![r] = IF @ < DispatchCap THEN @ + 1 ELSE @]

----------------------------------------------------------------------------
(* asample.                                                                *)

(* The row is committed; ids are given out in ascending order.             *)
CommitSample(r) ==
  /\ up
  /\ status[r] = "absent"
  /\ \A q \in Rows : q < r => status[q] # "absent"
  /\ status' = [status EXCEPT ![r] = "pending"]
  /\ handler' = handler \cup {r}
  /\ UNCHANGED <<result, age, taskVars, attempts, sweep, processVars>>

(* The handler goes on after the commit.                                   *)
DispatchSample(r) ==
  /\ r \in handler
  /\ handler' = handler \ {r}
  /\ Dispatch(r)
  /\ UNCHANGED <<rowVars, attempts, sweep, processVars>>

----------------------------------------------------------------------------
(* A task: call_and_store_result, and _on_task_done.                       *)

(* The engine has answered, refused for good (FAILED), or failed in a way  *)
(* another engine might not: then the task raises and the row stays.       *)
FinishCall(r, s) ==
  /\ task[r][s] = "calling"
  /\ \E state \in {"writing completed", "writing failed", "done"} :
       task' = [task EXCEPT ![r][s] = state]
  /\ UNCHANGED <<rowVars, handler, ran, inflight, started, dispatches, attempts,
                 sweep, processVars>>

(* The terminal write of the task lands, or is given up after its third    *)
(* attempt.  A write whose task was cancelled meanwhile may land too.      *)
WriteResult(r, s) ==
  /\ \/ /\ task[r][s] \in {"writing completed", "cancelled completed"}
        /\ Complete(r, "completed", s)
     \/ /\ task[r][s] \in {"writing failed", "cancelled failed"}
        /\ Complete(r, "failed", s)
     \/ /\ WritesMayFail
        /\ task[r][s] \in {"writing completed", "writing failed"}
        /\ UNCHANGED rowVars
  /\ task' = [task EXCEPT ![r][s] = "done"]
  /\ UNCHANGED <<handler, ran, inflight, started, dispatches, attempts, sweep,
                 processVars>>

(* Broken variant: whatever is registered for the row is dropped.          *)
OnTaskDoneAny(r, s) ==
  /\ task[r][s] \notin LiveStates \cup {"free"}
  /\ task' = [task EXCEPT ![r][s] = "free"]
  /\ ran' = [ran EXCEPT ![r][s] = 0]
  /\ inflight' = [inflight EXCEPT ![r] = None]
  /\ started' = [started EXCEPT ![r] = 0]
  /\ UNCHANGED <<rowVars, handler, dispatches, attempts, sweep, processVars>>

(* The done callback: only an entry that is still this task's is dropped.  *)
OnTaskDone(r, s) ==
  /\ task[r][s] \notin LiveStates \cup {"free"}
  /\ task' = [task EXCEPT ![r][s] = "free"]
  /\ ran' = [ran EXCEPT ![r][s] = 0]
  /\ IF inflight[r] = s
     THEN /\ inflight' = [inflight EXCEPT ![r] = None]
          /\ started' = [started EXCEPT ![r] = 0]
     ELSE UNCHANGED <<inflight, started>>
  /\ UNCHANGED <<rowVars, handler, dispatches, attempts, sweep, processVars>>

TaskNext(r, s) == FinishCall(r, s) \/ WriteResult(r, s) \/ OnTaskDone(r, s)

----------------------------------------------------------------------------
(* The watchdog: sweep_once.                                               *)

(* _pending_rows and the two readings of the clock.                        *)
StartSweep ==
  /\ up
  /\ sweep.pc = "asleep"
  /\ sweep' = [pc |-> "next",
               rows |-> Pending,
               stale |-> {r \in Pending : age[r] >= StaleAfter},
               abandoned |-> {r \in Pending : /\ AbandonAfter > 0
                                              /\ age[r] > AbandonAfter},
               over |-> {r \in Pending : /\ inflight[r] # None
                                         /\ InflightTimeout > 0
                                         /\ started[r] > InflightTimeout}]
  /\ UNCHANGED <<rowVars, handler, taskVars, attempts, processVars>>

(* The row the sweep is at, in the order of request_id.                    *)
At(r) == r \in sweep.rows /\ \A q \in sweep.rows : r <= q

LeaveRow(r) ==
  [pc |-> "next", rows |-> sweep.rows \ {r}, stale |-> sweep.stale \ {r},
   abandoned |-> sweep.abandoned \ {r}, over |-> sweep.over \ {r}]

(* Broken variant: a task that has been in flight too long is left alone.  *)
NeedsNothingWhileAlive(r) == Live(r) \/ r \notin sweep.stale

(* Slow but alive, or not old enough for its task to be given up for lost. *)
NeedsNothing(r) == IF Live(r) THEN r \notin sweep.over ELSE r \notin sweep.stale

SkipRow(r) ==
  /\ sweep.pc = "next" /\ At(r)
  /\ NeedsNothing(r)
  /\ sweep' = LeaveRow(r)
  /\ UNCHANGED <<rowVars, handler, taskVars, attempts, processVars>>

(* Broken variant: one attempt more than max_redispatch.                   *)
ExhaustedLate(r) == MaxRedispatch > 0 /\ attempts[r] > MaxRedispatch

Exhausted(r) == MaxRedispatch > 0 /\ attempts[r] >= MaxRedispatch

(* task.cancel(): the call is over; a write under way may still land.      *)
Cancelled(state) == IF state = "calling" THEN "cancelled"
                    ELSE IF state = "writing completed" THEN "cancelled completed"
                    ELSE "cancelled failed"

(* Cancel the row's task, if one is alive, and start _redispatch, which    *)
(* runs without an await up to the write of _fail or to _load_request.     *)
RecoverRow(r) ==
  /\ sweep.pc = "next" /\ At(r)
  /\ ~NeedsNothing(r)
  /\ IF Live(r)
     THEN /\ task' = [task EXCEPT ![r][inflight[r]] = Cancelled(@)]
          /\ inflight' = [inflight EXCEPT ![r] = None]
          /\ started' = [started EXCEPT ![r] = 0]
     ELSE UNCHANGED <<task, inflight, started>>
  /\ sweep' = [sweep EXCEPT !.pc = IF r \in sweep.abandoned \/ Exhausted(r)
                                   THEN "failing" ELSE "loading"]
  /\ UNCHANGED <<rowVars, handler, ran, dispatches, attempts, processVars>>

(* _fail: the write lands, or not, and the attempts are forgotten.         *)
FailRow(r) ==
  /\ sweep.pc = "failing" /\ At(r)
  /\ \/ Complete(r, "failed", "watchdog")
     \/ WritesMayFail /\ UNCHANGED rowVars
  /\ attempts' = [attempts EXCEPT ![r] = 0]
  /\ sweep' = LeaveRow(r)
  /\ UNCHANGED <<handler, taskVars, processVars>>

(* _load_request returned None: the row was completed meanwhile.           *)
FindSettled(r) ==
  /\ sweep.pc = "loading" /\ At(r)
  /\ status[r] # "pending"
  /\ attempts' = [attempts EXCEPT ![r] = 0]
  /\ sweep' = LeaveRow(r)
  /\ UNCHANGED <<rowVars, handler, taskVars, processVars>>

LoadRow(r) ==
  /\ sweep.pc = "loading" /\ At(r)
  /\ status[r] = "pending"
  /\ sweep' = [sweep EXCEPT !.pc = "dispatching"]
  /\ UNCHANGED <<rowVars, handler, taskVars, attempts, processVars>>

(* A database error in _load_request ends this sweep, not the watchdog.    *)
AbortSweep ==
  /\ sweep.pc = "loading"
  /\ sweep' = Asleep
  /\ UNCHANGED <<rowVars, handler, taskVars, attempts, processVars>>

(* Broken variant: the attempt is not counted.                             *)
RedispatchRowUncounted(r) ==
  /\ sweep.pc = "dispatching" /\ At(r)
  /\ Dispatch(r)
  /\ sweep' = LeaveRow(r)
  /\ UNCHANGED <<rowVars, handler, attempts, processVars>>

(* The session is closed and the row dispatched again.  Attempts that are  *)
(* never compared with a limit are not counted.                            *)
RedispatchRow(r) ==
  /\ sweep.pc = "dispatching" /\ At(r)
  /\ attempts' = [attempts EXCEPT ![r] = IF MaxRedispatch > 0 THEN @ + 1 ELSE 0]
  /\ Dispatch(r)
  /\ sweep' = LeaveRow(r)
  /\ UNCHANGED <<rowVars, handler, processVars>>

EndSweep ==
  /\ sweep.pc = "next" /\ sweep.rows = {}
  /\ sweep' = Asleep
  /\ UNCHANGED <<rowVars, handler, taskVars, attempts, processVars>>

RowSweep(r) ==
  \/ SkipRow(r) \/ RecoverRow(r) \/ FailRow(r)
  \/ FindSettled(r) \/ LoadRow(r) \/ RedispatchRow(r)

----------------------------------------------------------------------------
(* The process and the clock.                                              *)

(* aclose, or a crash: tasks, registry and attempts are gone, rows stay.   *)
StopProcess ==
  /\ up
  /\ restarts < MaxRestarts
  /\ up' = FALSE
  /\ restarts' = restarts + 1
  /\ handler' = {}
  /\ task' = [r \in Rows |-> [s \in Slots |-> "free"]]
  /\ ran' = [r \in Rows |-> [s \in Slots |-> 0]]
  /\ inflight' = [r \in Rows |-> None]
  /\ started' = [r \in Rows |-> 0]
  /\ attempts' = [r \in Rows |-> 0]
  /\ dispatches' = [r \in Rows |-> 0]
  /\ sweep' = Asleep
  /\ UNCHANGED rowVars

StartProcess ==
  /\ ~up
  /\ up' = TRUE
  /\ UNCHANGED <<rowVars, handler, taskVars, attempts, sweep, restarts>>

(* A handler resumes after its commit in less than stale_after_sec.        *)
Tick ==
  /\ \A r \in handler : age[r] + 1 < StaleAfter
  /\ age' = [r \in Rows |->
       IF status[r] = "pending" /\ age[r] < AgeCap THEN age[r] + 1 ELSE age[r]]
  /\ started' = [r \in Rows |->
       IF inflight[r] # None /\ started[r] <= InflightTimeout
       THEN started[r] + 1 ELSE started[r]]
  /\ ran' = [r \in Rows |-> [s \in Slots |->
       IF task[r][s] \in LiveStates /\ ran[r][s] <= InflightTimeout
       THEN ran[r][s] + 1 ELSE ran[r][s]]]
  /\ UNCHANGED <<status, result, handler, task, inflight, dispatches, attempts,
                 sweep, processVars>>

Next ==
  \/ \E r \in Rows : CommitSample(r) \/ DispatchSample(r) \/ RowSweep(r)
  \/ \E r \in Rows, s \in Slots : TaskNext(r, s)
  \/ StartSweep \/ AbortSweep \/ EndSweep
  \/ StopProcess \/ StartProcess \/ Tick

Spec == Init /\ [][Next]_vars

(* The event loop runs what can run and time passes; calls may hang.  A    *)
(* database that fails now and then answers again and again.               *)
Fairness ==
  /\ WF_vars(Tick) /\ WF_vars(StartProcess)
  /\ WF_vars(StartSweep) /\ WF_vars(EndSweep)
  /\ \A r \in Rows :
       /\ WF_vars(DispatchSample(r))
       /\ WF_vars(SkipRow(r) \/ RecoverRow(r) \/ FindSettled(r) \/ RedispatchRow(r))
       /\ WF_vars(FailRow(r))
       /\ SF_vars(FailRow(r) /\ status'[r] # "pending")
       /\ SF_vars(LoadRow(r))
       /\ \A s \in Slots : WF_vars(OnTaskDone(r, s))

FairSpec == Spec /\ Fairness

----------------------------------------------------------------------------
(* Properties.                                                             *)

TaskStates ==
  LiveStates \cup {"free", "done", "cancelled", "cancelled completed",
                   "cancelled failed"}

Sweeps ==
  [pc : {"asleep", "next", "failing", "loading", "dispatching"},
   rows : SUBSET Rows, stale : SUBSET Rows, abandoned : SUBSET Rows,
   over : SUBSET Rows]

(* Type invariant; the attempts counted never exceed max_redispatch.       *)
TypeOK ==
  /\ status \in [Rows -> {"absent", "pending"} \cup Terminal]
  /\ result \in [Rows -> Slots \cup {None, "watchdog"}]
  /\ age \in [Rows -> 0..AgeCap]
  /\ handler \subseteq Rows
  /\ task \in [Rows -> [Slots -> TaskStates]]
  /\ ran \in [Rows -> [Slots -> 0..(InflightTimeout + 1)]]
  /\ inflight \in [Rows -> Slots \cup {None}]
  /\ started \in [Rows -> 0..(InflightTimeout + 1)]
  /\ attempts \in [Rows -> 0..MaxRedispatch]
  /\ dispatches \in [Rows -> 0..DispatchCap]
  /\ sweep \in Sweeps
  /\ up \in BOOLEAN
  /\ restarts \in 0..MaxRestarts

(* The client sees "exactly one result, never a duplicate and never a      *)
(* value that flips after it was read", however often the request was      *)
(* dispatched and whichever attempts answer late.                          *)
ResultNeverFlips ==
  [][\A r \in Rows : status[r] \in Terminal =>
       status'[r] = status[r] /\ result'[r] = result[r]]_<<status, result>>

(* Every task that works on a row is the registered one: the watchdog      *)
(* never takes a row that is being served for an orphan, and no row is     *)
(* served twice at a time.                                                 *)
OnlyRegisteredTasks ==
  \A r \in Rows, s \in Slots :
    task[r][s] \in LiveStates => inflight[r] = s

(* "A re-dispatch gets a full fresh budget": an attempt is cancelled only  *)
(* after it has itself run longer than inflight_timeout_sec.               *)
HealthyNotCancelled ==
  \A r \in Rows, s \in Slots :
    task[r][s] \in {"cancelled", "cancelled completed", "cancelled failed"}
      => ran[r][s] > InflightTimeout

(* A row whose handler is about to dispatch it has no task, and the        *)
(* watchdog neither waits for it nor takes it for stale or overdue.        *)
HandlersFirst ==
  \A r \in handler :
    /\ status[r] # "absent" /\ age[r] < StaleAfter
    /\ inflight[r] = None
    /\ r \notin sweep.stale \cup sweep.over

(* Nothing is known of a row before it is committed.                       *)
AbsentUntouched ==
  \A r \in Rows : status[r] = "absent" =>
    /\ age[r] = 0 /\ inflight[r] = None /\ r \notin handler
    /\ r \notin sweep.rows \cup sweep.stale \cup sweep.over

(* While the watchdog recovers a row nobody else can start a task for it.  *)
RecoveredIdle ==
  \A r \in Rows : At(r) =>
    /\ sweep.pc # "next" => r \notin handler /\ ~Live(r)
    /\ sweep.pc \in {"loading", "dispatching"} => ~Exhausted(r)

(* _started is the clock of the registered attempt, and a row read as      *)
(* overdue still is, unless its task ended.                                *)
ClocksAgree ==
  \A r \in Rows : Live(r) =>
    /\ started[r] = ran[r][inflight[r]]
    /\ r \in sweep.over => started[r] > InflightTimeout

(* The inductive invariant of the registry: the watchdog and the handlers  *)
(* never both serve a row, and cancel by the clock of the right attempt.   *)
RegistryInv ==
  /\ TypeOK /\ OnlyRegisteredTasks /\ HealthyNotCancelled
  /\ HandlersFirst /\ AbsentUntouched /\ RecoveredIdle /\ ClocksAgree

(* "Failing them explicitly after a bounded number of attempts": a process *)
(* dispatches a row at most max_redispatch times after its first dispatch. *)
RedispatchesBounded ==
  MaxRedispatch > 0 => \A r \in Rows : dispatches[r] <= MaxRedispatch + 1

(* While every terminal write lands: the dispatches of a row that may be   *)
(* dispatched again are the attempts counted, and its handler's.           *)
DispatchesCounted ==
  MaxRedispatch > 0 => \A r \in Rows :
    (status[r] \in {"absent", "pending"} \/ r \in handler \cup sweep.rows) =>
       dispatches[r] <= attempts[r] + IF status[r] = "absent" \/ r \in handler
                                      THEN 0 ELSE 1

(* A client never waits for ever: each committed row is completed or       *)
(* failed, though calls hang, tasks die and the process restarts.          *)
EventuallySettled ==
  \A r \in Rows : (status[r] = "pending") ~> (status[r] \in Terminal)
=============================================================================
