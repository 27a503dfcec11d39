--------------------------- MODULE DispatchProofs ---------------------------
(***************************************************************************)
(* Proofs about ExternalDispatch, for any rows, limits and number of exits *)
(* of the process: a row is served by at most its registered task, only    *)
(* an attempt that ran too long itself is cancelled, a result never        *)
(* changes, and re-dispatches are bounded while the database takes writes. *)
(***************************************************************************)
EXTENDS ExternalDispatch, TLAPS

USE DispatchAssumption DEF DispatchAssumption


LEMMA CapTypes == AgeCap \in Nat \ {0} /\ DispatchCap \in Nat
  BY DEF AgeCap, DispatchCap

(* What the tables of tasks and of their clocks are after one change.      *)
LEMMA TaskUpdate ==
  ASSUME TypeOK, NEW r \in Rows, NEW s \in Slots, NEW state \in TaskStates,
         task' = [task EXCEPT ![r][s] = state]
  PROVE  /\ task' \in [Rows -> [Slots -> TaskStates]]
         /\ \A q \in Rows, t \in Slots :
              task'[q][t] = IF q = r /\ t = s THEN state ELSE task[q][t]
  BY DEF TypeOK

LEMMA RanUpdate ==
  ASSUME TypeOK, NEW r \in Rows, NEW s \in Slots,
         ran' = [ran EXCEPT ![r][s] = 0]
  PROVE  /\ ran' \in [Rows -> [Slots -> 0..(InflightTimeout + 1)]]
         /\ \A q \in Rows, t \in Slots :
              ran'[q][t] = IF q = r /\ t = s THEN 0 ELSE ran[q][t]
  BY DEF TypeOK

(* A sweep is at one row at a time.                                        *)
LEMMA AtUnique ==
  ASSUME TypeOK, NEW r \in Rows, NEW q \in Rows, At(r), At(q)
  PROVE  r = q
  <1>1. r <= q /\ q <= r
    BY DEF At
  <1>2. r \in Nat /\ q \in Nat
    OBVIOUS
  <1> QED
    BY <1>1, <1>2

LEMMA InitRegistry == Init => RegistryInv
  <1> SUFFICES ASSUME Init PROVE RegistryInv
    OBVIOUS
  <1>1. TypeOK
    <2>1. sweep \in Sweeps
      BY DEF Init, Asleep, Sweeps
    <2>2. /\ task \in [Rows -> [Slots -> TaskStates]]
          /\ ran \in [Rows -> [Slots -> 0..(InflightTimeout + 1)]]
      BY DEF Init, TaskStates
    <2> QED
      BY <2>1, <2>2, CapTypes DEF Init, TypeOK
  <1>2. \A r \in Rows, s \in Slots : task[r][s] = "free"
    BY DEF Init
  <1>3. OnlyRegisteredTasks /\ HealthyNotCancelled
    BY <1>2 DEF OnlyRegisteredTasks, HealthyNotCancelled, LiveStates
  <1>4. HandlersFirst /\ AbsentUntouched /\ RecoveredIdle /\ ClocksAgree
    BY DEF Init, HandlersFirst, AbsentUntouched, RecoveredIdle, ClocksAgree,
           Asleep, At, Live
  <1> QED
    BY <1>1, <1>3, <1>4 DEF RegistryInv

----------------------------------------------------------------------------
(* Types.                                                                  *)

LEMMA CompleteTypes ==
  ASSUME TypeOK, NEW r \in Rows, NEW outcome \in Terminal,
         NEW by \in Slots \cup {"watchdog"}, Complete(r, outcome, by)
  PROVE  /\ status' \in [Rows -> {"absent", "pending"} \cup Terminal]
         /\ result' \in [Rows -> Slots \cup {None, "watchdog"}]
         /\ age' \in [Rows -> 0..AgeCap]
  BY DEF TypeOK, Complete

LEMMA DispatchTypes ==
  ASSUME TypeOK, NEW r \in Rows, Dispatch(r)
  PROVE  /\ task' \in [Rows -> [Slots -> TaskStates]]
         /\ ran' \in [Rows -> [Slots -> 0..(InflightTimeout + 1)]]
         /\ inflight' \in [Rows -> Slots \cup {None}]
         /\ started' \in [Rows -> 0..(InflightTimeout + 1)]
         /\ dispatches' \in [Rows -> 0..DispatchCap]
  <1>1. PICK s \in Slots :
          /\ task' = [task EXCEPT ![r][s] = "calling"]
          /\ ran' = [ran EXCEPT ![r][s] = 0]
          /\ inflight' = [inflight EXCEPT ![r] = s]
    BY DEF Dispatch
  <1>2. "calling" \in TaskStates /\ 0 \in 0..(InflightTimeout + 1)
    BY DEF TaskStates, LiveStates
  <1>3. task' \in [Rows -> [Slots -> TaskStates]]
    BY <1>1, <1>2, TaskUpdate, RanUpdate DEF TypeOK
  <1>4. ran' \in [Rows -> [Slots -> 0..(InflightTimeout + 1)]]
    BY <1>1, <1>2, TaskUpdate, RanUpdate DEF TypeOK
  <1>5. inflight' \in [Rows -> Slots \cup {None}]
    BY <1>1 DEF TypeOK
  <1>6. /\ started' \in [Rows -> 0..(InflightTimeout + 1)]
        /\ dispatches' \in [Rows -> 0..DispatchCap]
    BY CapTypes DEF TypeOK, Dispatch
  <1> QED
    BY <1>3, <1>4, <1>5, <1>6

(* What the steps of a sweep make of the watchdog's state.                 *)
LEMMA SweepTypes ==
  /\ Asleep \in Sweeps
  /\ sweep \in Sweeps => /\ \A r \in Rows : LeaveRow(r) \in Sweeps
                         /\ \A pc \in {"failing", "loading", "dispatching"} :
                              [sweep EXCEPT !.pc = pc] \in Sweeps
  <1>1. Asleep \in Sweeps
    BY DEF Asleep, Sweeps
  <1>2. ASSUME sweep \in Sweeps, NEW r \in Rows
        PROVE  LeaveRow(r) \in Sweeps
    <2>1. /\ sweep.rows \in SUBSET Rows /\ sweep.stale \in SUBSET Rows
          /\ sweep.abandoned \in SUBSET Rows /\ sweep.over \in SUBSET Rows
      BY <1>2 DEF Sweeps
    <2>2. /\ sweep.rows \ {r} \in SUBSET Rows
          /\ sweep.stale \ {r} \in SUBSET Rows
          /\ sweep.abandoned \ {r} \in SUBSET Rows
          /\ sweep.over \ {r} \in SUBSET Rows
      BY <2>1
    <2> QED
      BY <2>2 DEF LeaveRow, Sweeps
  <1>3. ASSUME sweep \in Sweeps,
               NEW pc \in {"failing", "loading", "dispatching"}
        PROVE  [sweep EXCEPT !.pc = pc] \in Sweeps
    BY <1>3 DEF Sweeps
  <1> QED
    BY <1>1, <1>2, <1>3

LEMMA TypeStep == RegistryInv /\ [Next]_vars => TypeOK'
  <1> SUFFICES ASSUME RegistryInv, [Next]_vars PROVE TypeOK'
    OBVIOUS
  <1> USE DEF rowVars, taskVars, processVars
  <1>0. TypeOK
    BY DEF RegistryInv
  <1>1. ASSUME NEW r \in Rows, CommitSample(r) PROVE TypeOK'
    BY <1>0, <1>1 DEF CommitSample, TypeOK
  <1>2. ASSUME NEW r \in Rows, DispatchSample(r) PROVE TypeOK'
    BY <1>0, <1>2, DispatchTypes DEF DispatchSample, TypeOK
  <1>3. ASSUME NEW r \in Rows, NEW s \in Slots, FinishCall(r, s) PROVE TypeOK'
    <2>1. task' \in [Rows -> [Slots -> TaskStates]]
      <3>1. PICK state \in {"writing completed", "writing failed", "done"} :
              task' = [task EXCEPT ![r][s] = state]
        BY <1>3 DEF FinishCall
      <3>2. state \in TaskStates
        BY DEF TaskStates, LiveStates
      <3> QED
        BY <1>0, <3>1, <3>2, TaskUpdate, RanUpdate DEF TypeOK
    <2> QED
      BY <1>0, <1>3, <2>1 DEF FinishCall, TypeOK
  <1>4. ASSUME NEW r \in Rows, NEW s \in Slots, WriteResult(r, s) PROVE TypeOK'
    <2>1. task' \in [Rows -> [Slots -> TaskStates]]
      BY <1>0, <1>4 DEF WriteResult, TypeOK, TaskStates
    <2>2. /\ status' \in [Rows -> {"absent", "pending"} \cup Terminal]
          /\ result' \in [Rows -> Slots \cup {None, "watchdog"}]
          /\ age' \in [Rows -> 0..AgeCap]
      BY <1>0, <1>4, CompleteTypes DEF WriteResult, Terminal, TypeOK
    <2> QED
      BY <1>0, <1>4, <2>1, <2>2 DEF WriteResult, TypeOK
  <1>5. ASSUME NEW r \in Rows, NEW s \in Slots, OnTaskDone(r, s) PROVE TypeOK'
    <2>1. "free" \in TaskStates /\ 0 \in 0..(InflightTimeout + 1)
      BY DEF TaskStates
    <2>2. task' \in [Rows -> [Slots -> TaskStates]]
      BY <1>0, <1>5, <2>1, TaskUpdate, RanUpdate DEF OnTaskDone, TypeOK
    <2>3. ran' \in [Rows -> [Slots -> 0..(InflightTimeout + 1)]]
      BY <1>0, <1>5, <2>1, TaskUpdate, RanUpdate DEF OnTaskDone, TypeOK
    <2>4. /\ inflight' \in [Rows -> Slots \cup {None}]
          /\ started' \in [Rows -> 0..(InflightTimeout + 1)]
      BY <1>0, <1>5 DEF OnTaskDone, TypeOK
    <2> QED
      BY <1>0, <1>5, <2>2, <2>3, <2>4 DEF OnTaskDone, TypeOK
  <1>6. CASE StartSweep
    <2>1. sweep' \in Sweeps
      BY <1>6 DEF StartSweep, Pending, Sweeps
    <2> QED
      BY <1>0, <1>6, <2>1 DEF StartSweep, TypeOK
  <1>7. ASSUME NEW r \in Rows, SkipRow(r) PROVE TypeOK'
    BY <1>0, <1>7, SweepTypes DEF SkipRow, TypeOK
  <1>8. ASSUME NEW r \in Rows, RecoverRow(r) PROVE TypeOK'
    <2>1. sweep' \in Sweeps
      BY <1>0, <1>8, SweepTypes DEF RecoverRow, TypeOK
    <2>2. \A state : Cancelled(state) \in TaskStates
      BY DEF Cancelled, TaskStates
    <2>3. task' \in [Rows -> [Slots -> TaskStates]]
      <3>1. CASE Live(r)
        <4>1. inflight[r] \in Slots
          BY <1>0, <3>1 DEF Live, TypeOK
        <4>2. task' = [task EXCEPT
                ![r][inflight[r]] = Cancelled(task[r][inflight[r]])]
          BY <1>8, <3>1 DEF RecoverRow
        <4> QED
          BY <1>0, <1>8, <2>2, <3>1, <4>1, <4>2, TaskUpdate, RanUpdate DEF TypeOK
      <3>2. CASE ~Live(r)
        BY <1>0, <1>8, <3>2 DEF RecoverRow, TypeOK
      <3> QED
        BY <3>1, <3>2
    <2>4. inflight' \in [Rows -> Slots \cup {None}]
      BY <1>0, <1>8 DEF RecoverRow, TypeOK
    <2>5. started' \in [Rows -> 0..(InflightTimeout + 1)]
      <3>1. CASE Live(r)
        BY <1>0, <1>8, <3>1 DEF RecoverRow, TypeOK
      <3>2. CASE ~Live(r)
        BY <1>0, <1>8, <3>2 DEF RecoverRow, TypeOK
      <3> QED
        BY <3>1, <3>2
    <2> QED
      BY <1>0, <1>8, <2>1, <2>3, <2>4, <2>5 DEF RecoverRow, TypeOK
  <1>9. ASSUME NEW r \in Rows, FailRow(r) PROVE TypeOK'
    <2>1. /\ status' \in [Rows -> {"absent", "pending"} \cup Terminal]
          /\ result' \in [Rows -> Slots \cup {None, "watchdog"}]
          /\ age' \in [Rows -> 0..AgeCap]
      BY <1>0, <1>9, CompleteTypes DEF FailRow, Terminal, TypeOK
    <2>2. attempts' \in [Rows -> 0..MaxRedispatch]
      BY <1>0, <1>9 DEF FailRow, TypeOK
    <2>3. sweep' \in Sweeps
      BY <1>0, <1>9, SweepTypes DEF FailRow, TypeOK
    <2> QED
      BY <1>0, <1>9, <2>1, <2>2, <2>3 DEF FailRow, TypeOK
  <1>10. ASSUME NEW r \in Rows, FindSettled(r) PROVE TypeOK'
    BY <1>0, <1>10, SweepTypes DEF FindSettled, TypeOK
  <1>11. ASSUME NEW r \in Rows, LoadRow(r) PROVE TypeOK'
    BY <1>0, <1>11, SweepTypes DEF LoadRow, TypeOK
  <1>12. CASE AbortSweep
    BY <1>0, <1>12, SweepTypes DEF AbortSweep, TypeOK
  <1>13. ASSUME NEW r \in Rows, RedispatchRow(r) PROVE TypeOK'
    <2>1. ~Exhausted(r)
      BY <1>13 DEF RedispatchRow, RegistryInv, RecoveredIdle
    <2>2. attempts' \in [Rows -> 0..MaxRedispatch]
      <3>1. attempts \in [Rows -> 0..MaxRedispatch]
        BY <1>0 DEF TypeOK
      <3>2. MaxRedispatch > 0 => attempts[r] + 1 \in 0..MaxRedispatch
        BY <2>1, <3>1 DEF Exhausted
      <3> QED
        BY <1>13, <3>1, <3>2 DEF RedispatchRow
    <2> QED
      BY <1>0, <1>13, <2>2, SweepTypes, DispatchTypes DEF RedispatchRow, TypeOK
  <1>14. CASE EndSweep
    BY <1>0, <1>14, SweepTypes DEF EndSweep, TypeOK
  <1>15. CASE StopProcess
    <2>1. sweep' \in Sweeps
      BY <1>15, SweepTypes DEF StopProcess
    <2>2. /\ task' \in [Rows -> [Slots -> TaskStates]]
          /\ ran' \in [Rows -> [Slots -> 0..(InflightTimeout + 1)]]
      BY <1>15 DEF StopProcess, TaskStates
    <2>3. /\ inflight' \in [Rows -> Slots \cup {None}]
          /\ started' \in [Rows -> 0..(InflightTimeout + 1)]
          /\ attempts' \in [Rows -> 0..MaxRedispatch]
          /\ dispatches' \in [Rows -> 0..DispatchCap]
      BY <1>15, CapTypes DEF StopProcess
    <2>4. /\ status' = status /\ result' = result /\ age' = age
          /\ handler' = {} /\ up' = FALSE /\ restarts' \in 0..MaxRestarts
      BY <1>0, <1>15 DEF StopProcess, TypeOK
    <2>5. /\ status' \in [Rows -> {"absent", "pending"} \cup Terminal]
          /\ result' \in [Rows -> Slots \cup {None, "watchdog"}]
          /\ age' \in [Rows -> 0..AgeCap]
          /\ handler' \subseteq Rows /\ up' \in BOOLEAN
      BY <1>0, <2>4 DEF TypeOK
    <2> QED
      BY <2>1, <2>2, <2>3, <2>4, <2>5 DEF TypeOK
  <1>16. CASE StartProcess
    BY <1>0, <1>16 DEF StartProcess, TypeOK
  <1>17. CASE Tick
    <2>1. age' \in [Rows -> 0..AgeCap]
      BY <1>0, <1>17, CapTypes DEF Tick, TypeOK
    <2>2. started' \in [Rows -> 0..(InflightTimeout + 1)]
      BY <1>0, <1>17 DEF Tick, TypeOK
    <2>3. ran' \in [Rows -> [Slots -> 0..(InflightTimeout + 1)]]
      BY <1>0, <1>17 DEF Tick, TypeOK
    <2> QED
      BY <1>0, <1>17, <2>1, <2>2, <2>3 DEF Tick, TypeOK
  <1>18. CASE UNCHANGED vars
    BY <1>0, <1>18 DEF vars, TypeOK
  <1> QED
    BY <1>1, <1>2, <1>3, <1>4, <1>5, <1>6, <1>7, <1>8, <1>9, <1>10, <1>11,
       <1>12, <1>13, <1>14, <1>15, <1>16, <1>17, <1>18
    DEF Next, RowSweep, TaskNext

----------------------------------------------------------------------------
(* Who serves a row.                                                       *)

(* A row without a live registered task has no live task.                  *)
LEMMA NoLiveTask ==
  ASSUME RegistryInv, NEW r \in Rows, ~Live(r)
  PROVE  \A s \in Slots : task[r][s] \notin LiveStates
  <1> SUFFICES ASSUME NEW s \in Slots, task[r][s] \in LiveStates PROVE FALSE
    OBVIOUS
  <1>1. inflight[r] = s
    BY DEF RegistryInv, OnlyRegisteredTasks
  <1> QED
    BY <1>1 DEF Live

(* A row is dispatched only while nothing serves it.                       *)
LEMMA DispatchedIdle ==
  ASSUME RegistryInv, NEW r \in Rows, DispatchSample(r) \/ RedispatchRow(r)
  PROVE  /\ ~Live(r)
         /\ \A s \in Slots : task[r][s] \notin LiveStates
  <1>1. DispatchSample(r) => ~Live(r)
    BY DEF DispatchSample, RegistryInv, HandlersFirst, Live
  <1>2. RedispatchRow(r) => ~Live(r)
    BY DEF RedispatchRow, RegistryInv, RecoveredIdle
  <1> QED
    BY <1>1, <1>2, NoLiveTask

(* What a dispatch does to the registry.                                   *)
Dispatched(r, s) ==
  /\ task[r][s] = "free"
  /\ \A q \in Rows, t \in Slots :
       /\ task'[q][t] = IF q = r /\ t = s THEN "calling" ELSE task[q][t]
       /\ ran'[q][t] = IF q = r /\ t = s THEN 0 ELSE ran[q][t]
  /\ \A q \in Rows :
       /\ inflight'[q] = IF q = r THEN s ELSE inflight[q]
       /\ started'[q] = IF q = r THEN 0 ELSE started[q]

LEMMA DispatchEffect ==
  ASSUME TypeOK, NEW r \in Rows, Dispatch(r)
  PROVE  \E s \in Slots : Dispatched(r, s)
  <1>1. PICK s \in Slots :
          /\ task[r][s] = "free"
          /\ task' = [task EXCEPT ![r][s] = "calling"]
          /\ ran' = [ran EXCEPT ![r][s] = 0]
          /\ inflight' = [inflight EXCEPT ![r] = s]
          /\ started' = [started EXCEPT ![r] = 0]
    BY DEF Dispatch
  <1>2. "calling" \in TaskStates
    BY DEF TaskStates, LiveStates
  <1>3. \A q \in Rows, t \in Slots :
          task'[q][t] = IF q = r /\ t = s THEN "calling" ELSE task[q][t]
    BY ZenonT(60), <1>1, <1>2, TaskUpdate
  <1>4. \A q \in Rows, t \in Slots :
          ran'[q][t] = IF q = r /\ t = s THEN 0 ELSE ran[q][t]
    BY ZenonT(60), <1>1, RanUpdate
  <1>5. \A q \in Rows :
          /\ inflight'[q] = IF q = r THEN s ELSE inflight[q]
          /\ started'[q] = IF q = r THEN 0 ELSE started[q]
    BY <1>1 DEF TypeOK
  <1> QED
    BY <1>1, <1>3, <1>4, <1>5 DEF Dispatched

(* What the recovery of a row with a live task does to the registry.       *)
LEMMA CancelEffect ==
  ASSUME TypeOK, NEW r \in Rows, RecoverRow(r), Live(r)
  PROVE  /\ inflight[r] \in Slots
         /\ \A q \in Rows, t \in Slots :
              task'[q][t] = IF q = r /\ t = inflight[r]
                            THEN Cancelled(task[q][t]) ELSE task[q][t]
         /\ ran' = ran
         /\ \A q \in Rows :
              /\ inflight'[q] = IF q = r THEN None ELSE inflight[q]
              /\ started'[q] = IF q = r THEN 0 ELSE started[q]
  <1>1. inflight[r] \in Slots
    BY DEF Live, TypeOK
  <1>2. /\ task' = [task EXCEPT
              ![r][inflight[r]] = Cancelled(task[r][inflight[r]])]
        /\ inflight' = [inflight EXCEPT ![r] = None]
        /\ started' = [started EXCEPT ![r] = 0]
        /\ ran' = ran
    BY DEF RecoverRow
  <1>3. \A state : Cancelled(state) \in TaskStates
    BY DEF Cancelled, TaskStates
  <1>4. \A q \in Rows, t \in Slots :
          task'[q][t] = IF q = r /\ t = inflight[r]
                        THEN Cancelled(task[r][inflight[r]]) ELSE task[q][t]
    BY ZenonT(60), <1>1, <1>2, <1>3, TaskUpdate
  <1>5. \A q \in Rows :
          /\ inflight'[q] = IF q = r THEN None ELSE inflight[q]
          /\ started'[q] = IF q = r THEN 0 ELSE started[q]
    BY <1>2 DEF TypeOK
  <1> QED
    BY <1>1, <1>2, <1>4, <1>5

(* What a step of a task does to the registry.                             *)
TaskStepped(r, s) ==
  /\ \A q \in Rows, t \in Slots :
       (q # r \/ t # s) => task'[q][t] = task[q][t] /\ ran'[q][t] = ran[q][t]
  /\ task'[r][s] \in {"writing completed", "writing failed", "done", "free"}
  /\ task'[r][s] \in LiveStates =>
       task[r][s] \in LiveStates /\ ran'[r][s] = ran[r][s]
  /\ \A q \in Rows :
       \/ inflight'[q] = inflight[q] /\ started'[q] = started[q]
       \/ /\ q = r /\ inflight[r] = s /\ task[r][s] \notin LiveStates
          /\ inflight'[q] = None

LEMMA TaskEffect ==
  ASSUME TypeOK, NEW r \in Rows, NEW s \in Slots, TaskNext(r, s)
  PROVE  TaskStepped(r, s)
  <1> USE DEF LiveStates, TaskStepped
  <1>1. CASE FinishCall(r, s)
    <2>1. PICK state \in {"writing completed", "writing failed", "done"} :
            task' = [task EXCEPT ![r][s] = state]
      BY <1>1 DEF FinishCall
    <2>2. state \in TaskStates
      BY DEF TaskStates
    <2>3. \A q \in Rows, t \in Slots :
            task'[q][t] = IF q = r /\ t = s THEN state ELSE task[q][t]
      BY ZenonT(60), <2>1, <2>2, TaskUpdate
    <2> QED
      BY <1>1, <2>3 DEF FinishCall
  <1>2. CASE WriteResult(r, s)
    <2>1. task' = [task EXCEPT ![r][s] = "done"] /\ "done" \in TaskStates
      BY <1>2 DEF WriteResult, TaskStates
    <2>2. \A q \in Rows, t \in Slots :
            task'[q][t] = IF q = r /\ t = s THEN "done" ELSE task[q][t]
      BY ZenonT(60), <2>1, TaskUpdate
    <2>3. ran' = ran /\ inflight' = inflight /\ started' = started
      BY <1>2 DEF WriteResult
    <2> QED
      BY <2>2, <2>3
  <1>3. CASE OnTaskDone(r, s)
    <2>1. task' = [task EXCEPT ![r][s] = "free"] /\ "free" \in TaskStates
      BY <1>3 DEF OnTaskDone, TaskStates
    <2>2. \A q \in Rows, t \in Slots :
            task'[q][t] = IF q = r /\ t = s THEN "free" ELSE task[q][t]
      BY ZenonT(60), <2>1, TaskUpdate
    <2>3. \A q \in Rows, t \in Slots :
            ran'[q][t] = IF q = r /\ t = s THEN 0 ELSE ran[q][t]
      BY <1>3, RanUpdate, ZenonT(60) DEF OnTaskDone
    <2>4. \A q \in Rows :
            \/ inflight'[q] = inflight[q] /\ started'[q] = started[q]
            \/ /\ q = r /\ inflight[r] = s /\ task[r][s] \notin LiveStates
               /\ inflight'[q] = None
      BY <1>3 DEF OnTaskDone, TypeOK
    <2> QED
      BY <2>2, <2>3, <2>4
  <1> QED
    BY <1>1, <1>2, <1>3 DEF TaskNext

LEMMA OnlyRegisteredStep == RegistryInv /\ [Next]_vars => OnlyRegisteredTasks'
  <1> SUFFICES ASSUME RegistryInv, [Next]_vars,
                      NEW q \in Rows, NEW t \in Slots, task'[q][t] \in LiveStates
               PROVE  inflight'[q] = t
    BY DEF OnlyRegisteredTasks
  <1> USE DEF rowVars, taskVars, processVars
  <1>0. TypeOK /\ (task[q][t] \in LiveStates => inflight[q] = t)
    BY DEF RegistryInv, OnlyRegisteredTasks
  <1>1. ASSUME NEW r \in Rows, DispatchSample(r) \/ RedispatchRow(r)
        PROVE  inflight'[q] = t
    <2>1. Dispatch(r)
      BY <1>1 DEF DispatchSample, RedispatchRow
    <2>2. PICK s \in Slots : Dispatched(r, s)
      BY <1>0, <2>1, DispatchEffect
    <2>3. \A x \in Slots : task[r][x] \notin LiveStates
      BY <1>1, DispatchedIdle
    <2> QED
      BY <1>0, <2>2, <2>3 DEF Dispatched
  <1>2. ASSUME NEW r \in Rows, NEW s \in Slots, TaskNext(r, s)
        PROVE  inflight'[q] = t
    <2>1. TaskStepped(r, s)
      BY <1>0, <1>2, TaskEffect
    <2>2. task[q][t] \in LiveStates
      BY <2>1 DEF TaskStepped
    <2> QED
      BY <1>0, <2>1, <2>2 DEF TaskStepped
  <1>3. ASSUME NEW r \in Rows, RecoverRow(r) PROVE inflight'[q] = t
    <2>1. CASE Live(r)
      BY <1>0, <1>3, <2>1, CancelEffect, ZenonT(60) DEF Cancelled, LiveStates
    <2>2. CASE ~Live(r)
      BY <1>0, <1>3, <2>2 DEF RecoverRow
    <2> QED
      BY <2>1, <2>2
  <1>4. CASE StopProcess
    BY <1>4 DEF StopProcess, LiveStates
  <1>5. CASE UNCHANGED <<task, inflight>>
    BY <1>0, <1>5
  <1> QED
    BY <1>1, <1>2, <1>3, <1>4, <1>5
    DEF Next, vars, RowSweep, CommitSample, SkipRow, FailRow, FindSettled,
        LoadRow, StartSweep, AbortSweep, EndSweep, StartProcess, Tick

LEMMA HealthyStep == RegistryInv /\ [Next]_vars => HealthyNotCancelled'
  <1> DEFINE Gone(state) ==
        state \in {"cancelled", "cancelled completed", "cancelled failed"}
  <1> SUFFICES ASSUME RegistryInv, [Next]_vars,
                      NEW q \in Rows, NEW t \in Slots, Gone(task'[q][t])
               PROVE  ran'[q][t] > InflightTimeout
    BY DEF HealthyNotCancelled
  <1> USE DEF rowVars, taskVars, processVars
  <1>0. /\ TypeOK /\ (Gone(task[q][t]) => ran[q][t] > InflightTimeout)
    BY DEF RegistryInv, HealthyNotCancelled, Gone
  <1>1. ASSUME NEW r \in Rows, DispatchSample(r) \/ RedispatchRow(r)
        PROVE  ran'[q][t] > InflightTimeout
    <2>1. Dispatch(r)
      BY <1>1 DEF DispatchSample, RedispatchRow
    <2>2. PICK s \in Slots : Dispatched(r, s)
      BY <1>0, <2>1, DispatchEffect
    <2> QED
      BY <1>0, <2>2 DEF Gone, Dispatched
  <1>2. ASSUME NEW r \in Rows, NEW s \in Slots, TaskNext(r, s)
        PROVE  ran'[q][t] > InflightTimeout
    <2>1. TaskStepped(r, s)
      BY <1>0, <1>2, TaskEffect
    <2>2. q # r \/ t # s
      BY <2>1 DEF TaskStepped, Gone
    <2> QED
      BY <1>0, <2>1, <2>2 DEF TaskStepped
  <1>3. ASSUME NEW r \in Rows, RecoverRow(r) PROVE ran'[q][t] > InflightTimeout
    <2>1. CASE Live(r) /\ q = r /\ t = inflight[r]
      <3>1. r \in sweep.over
        BY <1>3, <2>1 DEF RecoverRow, NeedsNothing
      <3>2. ran[r][inflight[r]] > InflightTimeout
        BY <2>1, <3>1 DEF RegistryInv, ClocksAgree
      <3> QED
        BY <1>0, <1>3, <2>1, <3>2, CancelEffect
    <2>2. CASE Live(r) /\ ~(q = r /\ t = inflight[r])
      BY ZenonT(60), <1>0, <1>3, <2>2, CancelEffect
    <2>3. CASE ~Live(r)
      BY <1>0, <1>3, <2>3 DEF RecoverRow
    <2> QED
      BY <2>1, <2>2, <2>3
  <1>4. CASE StopProcess
    BY <1>4 DEF StopProcess
  <1>5. CASE Tick
    <2>1. ran[q] \in [Slots -> 0..(InflightTimeout + 1)]
      BY <1>0 DEF TypeOK
    <2>2. ran[q][t] \in 0..(InflightTimeout + 1)
      BY <2>1
    <2> QED
      BY <1>0, <1>5, <2>2 DEF Tick, LiveStates
  <1>6. CASE UNCHANGED <<task, ran>>
    BY <1>0, <1>6
  <1> QED
    BY <1>1, <1>2, <1>3, <1>4, <1>5, <1>6
    DEF Next, vars, RowSweep, CommitSample, SkipRow, FailRow, FindSettled,
        LoadRow, StartSweep, AbortSweep, EndSweep, StartProcess

----------------------------------------------------------------------------
(* Handlers, the sweep and the clocks.                                     *)

LEMMA HandlersStep == RegistryInv /\ [Next]_vars => HandlersFirst'
  <1> SUFFICES ASSUME RegistryInv, [Next]_vars, NEW q \in Rows, q \in handler'
               PROVE  /\ status'[q] # "absent" /\ age'[q] < StaleAfter
                      /\ inflight'[q] = None
                      /\ q \notin sweep'.stale \cup sweep'.over
    BY TypeStep DEF HandlersFirst, TypeOK
  <1> DEFINE Goal == /\ status'[q] # "absent" /\ age'[q] < StaleAfter
                     /\ inflight'[q] = None
                     /\ q \notin sweep'.stale \cup sweep'.over
  <1> USE DEF rowVars, taskVars, processVars
  <1>0. TypeOK
    BY DEF RegistryInv
  <1>a. q \in handler =>
          /\ status[q] # "absent" /\ age[q] < StaleAfter
          /\ inflight[q] = None
          /\ q \notin sweep.stale \cup sweep.over
    BY DEF RegistryInv, HandlersFirst
  <1>1. ASSUME NEW r \in Rows, CommitSample(r) PROVE Goal
    <2>1. CASE q = r
      <3>1. /\ age[r] = 0 /\ inflight[r] = None
            /\ r \notin sweep.stale \cup sweep.over
        BY <1>1 DEF CommitSample, RegistryInv, AbsentUntouched
      <3> QED
        BY <1>0, <1>1, <2>1, <3>1 DEF CommitSample, TypeOK
    <2>2. CASE q # r
      BY <1>0, <1>1, <1>a, <2>2 DEF CommitSample, TypeOK
    <2> QED
      BY <2>1, <2>2
  <1>2. ASSUME NEW r \in Rows, DispatchSample(r) PROVE Goal
    <2>1. q # r /\ q \in handler /\ Dispatch(r)
      BY <1>2 DEF DispatchSample
    <2>2. PICK s \in Slots : Dispatched(r, s)
      BY <1>0, <2>1, DispatchEffect
    <2>3. inflight'[q] = inflight[q]
      BY <2>1, <2>2 DEF Dispatched
    <2> QED
      BY <1>2, <1>a, <2>1, <2>3 DEF DispatchSample
  <1>3. ASSUME NEW r \in Rows, NEW s \in Slots, TaskNext(r, s) PROVE Goal
    <2>1. TaskStepped(r, s)
      BY <1>0, <1>3, TaskEffect
    <2>2. inflight'[q] \in {inflight[q], None}
      BY <2>1 DEF TaskStepped
    <2>3. /\ handler' = handler /\ sweep' = sweep /\ age' = age
          /\ (status'[q] = "absent" => status[q] = "absent")
      BY <1>0, <1>3
      DEF TaskNext, FinishCall, WriteResult, OnTaskDone, Complete, TypeOK
    <2> QED
      BY <1>a, <2>2, <2>3
  <1>4. CASE StartSweep
    <2>1. /\ handler' = handler /\ status' = status /\ age' = age
          /\ inflight' = inflight
          /\ sweep'.stale \subseteq {r \in Rows : age[r] >= StaleAfter}
          /\ sweep'.over \subseteq {r \in Rows : inflight[r] # None}
      BY <1>4 DEF StartSweep, Pending
    <2>2. age[q] \in Nat
      BY <1>0, CapTypes DEF TypeOK
    <2> QED
      BY <1>a, <2>1, <2>2
  <1>5. ASSUME NEW r \in Rows, RecoverRow(r) PROVE Goal
    <2>1. /\ handler' = handler /\ status' = status /\ age' = age
          /\ sweep'.stale = sweep.stale /\ sweep'.over = sweep.over
      BY <1>0, <1>5 DEF RecoverRow, TypeOK, Sweeps
    <2>2. inflight'[q] \in {inflight[q], None}
      BY <1>0, <1>5 DEF RecoverRow, TypeOK
    <2> QED
      BY <1>a, <2>1, <2>2
  <1>6. ASSUME NEW r \in Rows, RedispatchRow(r) PROVE Goal
    <2>1. /\ handler' = handler /\ status' = status /\ age' = age
          /\ sweep'.stale \subseteq sweep.stale /\ sweep'.over \subseteq sweep.over
          /\ Dispatch(r)
      BY <1>6 DEF RedispatchRow, LeaveRow
    <2>2. q # r
      BY <1>6, <2>1 DEF RedispatchRow, RegistryInv, RecoveredIdle
    <2>3. PICK s \in Slots : Dispatched(r, s)
      BY <1>0, <2>1, DispatchEffect
    <2>4. inflight'[q] = inflight[q]
      BY <2>2, <2>3 DEF Dispatched
    <2> QED
      BY <1>a, <2>1, <2>4
  <1>7. ASSUME NEW r \in Rows, SkipRow(r) \/ FindSettled(r) PROVE Goal
    BY <1>7, <1>a DEF SkipRow, FindSettled, LeaveRow
  <1>8. ASSUME NEW r \in Rows, FailRow(r) PROVE Goal
    <2>1. /\ handler' = handler /\ age' = age /\ inflight' = inflight
          /\ sweep'.stale \subseteq sweep.stale /\ sweep'.over \subseteq sweep.over
          /\ (status'[q] = "absent" => status[q] = "absent")
      BY <1>0, <1>8 DEF FailRow, LeaveRow, Complete, TypeOK
    <2> QED
      BY <1>a, <2>1
  <1>9. ASSUME NEW r \in Rows, LoadRow(r) PROVE Goal
    BY <1>0, <1>9, <1>a DEF LoadRow, TypeOK, Sweeps
  <1>10. CASE AbortSweep \/ EndSweep
    BY <1>10, <1>a DEF AbortSweep, EndSweep, Asleep
  <1>11. CASE StopProcess
    BY <1>11 DEF StopProcess
  <1>12. CASE Tick
    <2>1. q \in handler /\ age[q] + 1 < StaleAfter /\ age[q] \in Nat
      BY <1>0, <1>12, CapTypes DEF Tick, TypeOK
    <2>2. age'[q] \in {age[q], age[q] + 1}
      BY <1>12 DEF Tick
    <2> QED
      BY <1>12, <1>a, <2>1, <2>2 DEF Tick
  <1>13. CASE StartProcess \/ UNCHANGED vars
    BY <1>13, <1>a DEF StartProcess, vars
  <1> QED
    BY <1>1, <1>2, <1>3, <1>4, <1>5, <1>6, <1>7, <1>8, <1>9, <1>10, <1>11,
       <1>12, <1>13
    DEF Next, RowSweep

LEMMA AbsentStep == RegistryInv /\ [Next]_vars => AbsentUntouched'
  <1> SUFFICES ASSUME RegistryInv, [Next]_vars, NEW q \in Rows,
                      status'[q] = "absent"
               PROVE  /\ age'[q] = 0 /\ inflight'[q] = None /\ q \notin handler'
                      /\ q \notin sweep'.rows \cup sweep'.stale \cup sweep'.over
    BY DEF AbsentUntouched
  <1> DEFINE Goal == /\ age'[q] = 0 /\ inflight'[q] = None /\ q \notin handler'
                     /\ q \notin sweep'.rows \cup sweep'.stale \cup sweep'.over
  <1> USE DEF rowVars, taskVars, processVars
  <1>0. TypeOK
    BY DEF RegistryInv
  <1>a. status[q] = "absent" =>
          /\ age[q] = 0 /\ inflight[q] = None /\ q \notin handler
          /\ q \notin sweep.rows \cup sweep.stale \cup sweep.over
    BY DEF RegistryInv, AbsentUntouched
  <1>1. ASSUME NEW r \in Rows, CommitSample(r) PROVE Goal
    <2>1. q # r /\ status[q] = "absent"
      BY <1>0, <1>1 DEF CommitSample, TypeOK
    <2> QED
      BY <1>1, <1>a, <2>1 DEF CommitSample
  <1>2. ASSUME NEW r \in Rows, DispatchSample(r) PROVE Goal
    <2>1. status' = status /\ r \in handler /\ Dispatch(r)
      BY <1>2 DEF DispatchSample
    <2>2. q # r
      BY <1>a, <2>1
    <2>3. PICK s \in Slots : Dispatched(r, s)
      BY <1>0, <2>1, DispatchEffect
    <2>4. inflight'[q] = inflight[q]
      BY <2>2, <2>3 DEF Dispatched
    <2> QED
      BY <1>2, <1>a, <2>1, <2>4 DEF DispatchSample
  <1>3. ASSUME NEW r \in Rows, NEW s \in Slots, TaskNext(r, s) PROVE Goal
    <2>1. TaskStepped(r, s)
      BY <1>0, <1>3, TaskEffect
    <2>2. inflight'[q] \in {inflight[q], None}
      BY <2>1 DEF TaskStepped
    <2>3. /\ handler' = handler /\ sweep' = sweep /\ age' = age
          /\ status[q] = "absent"
      BY <1>0, <1>3
      DEF TaskNext, FinishCall, WriteResult, OnTaskDone, Complete, TypeOK
    <2> QED
      BY <1>a, <2>2, <2>3
  <1>4. CASE StartSweep
    <2>1. /\ handler' = handler /\ status' = status /\ age' = age
          /\ inflight' = inflight
          /\ sweep'.rows \subseteq Pending /\ sweep'.stale \subseteq Pending
          /\ sweep'.over \subseteq Pending
      BY <1>4 DEF StartSweep
    <2>2. q \notin Pending
      BY <2>1 DEF Pending
    <2> QED
      BY <1>a, <2>1, <2>2
  <1>5. ASSUME NEW r \in Rows, RecoverRow(r) PROVE Goal
    <2>1. /\ handler' = handler /\ status' = status /\ age' = age
          /\ sweep'.stale = sweep.stale /\ sweep'.over = sweep.over
          /\ sweep'.rows = sweep.rows
      BY <1>0, <1>5 DEF RecoverRow, TypeOK, Sweeps
    <2>2. inflight'[q] \in {inflight[q], None}
      BY <1>0, <1>5 DEF RecoverRow, TypeOK
    <2> QED
      BY <1>a, <2>1, <2>2
  <1>6. ASSUME NEW r \in Rows, RedispatchRow(r) PROVE Goal
    <2>1. /\ handler' = handler /\ status' = status /\ age' = age
          /\ sweep'.stale \subseteq sweep.stale /\ sweep'.over \subseteq sweep.over
          /\ sweep'.rows \subseteq sweep.rows /\ r \in sweep.rows /\ Dispatch(r)
      BY <1>6 DEF RedispatchRow, LeaveRow, At
    <2>2. q # r
      BY <1>a, <2>1
    <2>3. PICK s \in Slots : Dispatched(r, s)
      BY <1>0, <2>1, DispatchEffect
    <2>4. inflight'[q] = inflight[q]
      BY <2>2, <2>3 DEF Dispatched
    <2> QED
      BY <1>a, <2>1, <2>4
  <1>7. ASSUME NEW r \in Rows, SkipRow(r) \/ FindSettled(r) PROVE Goal
    BY <1>7, <1>a DEF SkipRow, FindSettled, LeaveRow
  <1>8. ASSUME NEW r \in Rows, FailRow(r) PROVE Goal
    <2>1. /\ handler' = handler /\ age' = age /\ inflight' = inflight
          /\ sweep'.stale \subseteq sweep.stale /\ sweep'.over \subseteq sweep.over
          /\ sweep'.rows \subseteq sweep.rows
          /\ status[q] = "absent"
      BY <1>0, <1>8 DEF FailRow, LeaveRow, Complete, TypeOK
    <2> QED
      BY <1>a, <2>1
  <1>9. ASSUME NEW r \in Rows, LoadRow(r) PROVE Goal
    BY <1>0, <1>9, <1>a DEF LoadRow, TypeOK, Sweeps
  <1>10. CASE AbortSweep \/ EndSweep
    BY <1>10, <1>a DEF AbortSweep, EndSweep, Asleep
  <1>11. CASE StopProcess
    BY <1>11, <1>a DEF StopProcess, Asleep
  <1>12. CASE Tick
    BY <1>12, <1>a DEF Tick
  <1>13. CASE StartProcess \/ UNCHANGED vars
    BY <1>13, <1>a DEF StartProcess, vars
  <1> QED
    BY <1>1, <1>2, <1>3, <1>4, <1>5, <1>6, <1>7, <1>8, <1>9, <1>10, <1>11,
       <1>12, <1>13
    DEF Next, RowSweep

(* A row the sweep is at was listed by it and is not waiting for the       *)
(* dispatch of its handler.                                                *)
LEMMA RecoveredStep == RegistryInv /\ [Next]_vars => RecoveredIdle'
  <1> SUFFICES ASSUME RegistryInv, [Next]_vars, NEW q \in Rows, At(q)'
               PROVE  /\ sweep'.pc # "next" => q \notin handler' /\ ~Live(q)'
                      /\ sweep'.pc \in {"loading", "dispatching"} => ~Exhausted(q)'
    BY DEF RecoveredIdle
  <1> DEFINE Goal ==
        /\ sweep'.pc # "next" => q \notin handler' /\ ~Live(q)'
        /\ sweep'.pc \in {"loading", "dispatching"} => ~Exhausted(q)'
  <1> USE DEF rowVars, taskVars, processVars
  <1>0. TypeOK
    BY DEF RegistryInv
  <1>a. At(q) => /\ sweep.pc # "next" => q \notin handler /\ ~Live(q)
                 /\ sweep.pc \in {"loading", "dispatching"} => ~Exhausted(q)
    BY DEF RegistryInv, RecoveredIdle
  <1>b. sweep' = sweep => At(q)
    BY DEF At
  <1>1. ASSUME NEW r \in Rows, CommitSample(r) PROVE Goal
    <2>1. q # r
      BY <1>1, <1>b DEF CommitSample, RegistryInv, AbsentUntouched, At
    <2> QED
      BY <1>1, <1>a, <1>b, <2>1 DEF CommitSample, Live, Exhausted
  <1>2. ASSUME NEW r \in Rows, DispatchSample(r) PROVE Goal
    <2>1. /\ sweep' = sweep /\ attempts' = attempts /\ r \in handler
          /\ handler' \subseteq handler /\ Dispatch(r)
      BY <1>2 DEF DispatchSample
    <2>2. CASE sweep.pc = "next"
      BY <2>1, <2>2
    <2>3. CASE sweep.pc # "next"
      <3>1. q # r
        BY <1>a, <1>b, <2>1, <2>3
      <3>2. PICK s \in Slots : Dispatched(r, s)
        BY <1>0, <2>1, DispatchEffect
      <3>3. ASSUME Live(q)' PROVE Live(q)
        <4>1. inflight[q] = inflight'[q] /\ inflight[q] \in Slots
          BY <1>0, <3>1, <3>2, <3>3 DEF Dispatched, Live, TypeOK
        <4>2. task'[q][inflight[q]] = task[q][inflight[q]]
          BY <3>1, <3>2, <4>1 DEF Dispatched
        <4> QED
          BY <3>3, <4>1, <4>2 DEF Live
      <3> QED
        BY <1>a, <1>b, <2>1, <2>3, <3>3 DEF Exhausted
    <2> QED
      BY <2>2, <2>3
  <1>3. ASSUME NEW r \in Rows, NEW s \in Slots, TaskNext(r, s) PROVE Goal
    <2>1. TaskStepped(r, s)
      BY <1>0, <1>3, TaskEffect
    <2>2. /\ handler' = handler /\ sweep' = sweep /\ attempts' = attempts
      BY <1>3 DEF TaskNext, FinishCall, WriteResult, OnTaskDone
    <2>3. ASSUME Live(q)' PROVE Live(q)
      <3>1. inflight'[q] = inflight[q]
        BY <2>1, <2>3 DEF TaskStepped, Live
      <3>2. inflight[q] \in Slots
        BY <1>0, <2>3, <3>1 DEF Live, TypeOK
      <3>3. task[q][inflight[q]] \in LiveStates
        BY <2>1, <2>3, <3>1, <3>2, ZenonT(60) DEF TaskStepped, Live
      <3> QED
        BY <2>3, <3>1, <3>3 DEF Live
    <2> QED
      BY <1>a, <1>b, <2>2, <2>3 DEF Exhausted
  <1>4. ASSUME NEW r \in Rows, RecoverRow(r) PROVE Goal
    <2>1. /\ At(r) /\ ~NeedsNothing(r) /\ sweep'.rows = sweep.rows
          /\ handler' = handler /\ attempts' = attempts
      BY <1>0, <1>4 DEF RecoverRow, TypeOK, Sweeps
    <2>2. q = r
      BY <1>0, <2>1, AtUnique DEF At
    <2>3. r \notin handler
      BY <2>1 DEF NeedsNothing, RegistryInv, HandlersFirst
    <2>4. ~Live(r)'
      <3>1. CASE Live(r)
        BY <1>0, <1>4, <3>1, CancelEffect DEF Live
      <3>2. CASE ~Live(r)
        BY <1>4, <3>2 DEF RecoverRow, Live
      <3> QED
        BY <3>1, <3>2
    <2>5. sweep'.pc \in {"loading", "dispatching"} => ~Exhausted(r)
      BY <1>0, <1>4 DEF RecoverRow, TypeOK, Sweeps
    <2> QED
      BY <2>1, <2>2, <2>3, <2>4, <2>5 DEF Exhausted
  <1>5. ASSUME NEW r \in Rows, LoadRow(r) PROVE Goal
    <2>1. /\ sweep'.rows = sweep.rows /\ handler' = handler
          /\ attempts' = attempts /\ task' = task /\ inflight' = inflight
          /\ sweep.pc = "loading"
      BY <1>0, <1>5 DEF LoadRow, TypeOK, Sweeps
    <2>2. At(q)
      BY <2>1 DEF At
    <2> QED
      BY <1>a, <2>1, <2>2 DEF Live, Exhausted
  <1>6. CASE StartSweep \/ \E r \in Rows : \/ SkipRow(r) \/ FailRow(r)
                                          \/ FindSettled(r) \/ RedispatchRow(r)
    <2>1. sweep'.pc = "next"
      BY <1>6
      DEF StartSweep, SkipRow, FailRow, FindSettled, RedispatchRow, LeaveRow
    <2> QED
      BY <2>1
  <1>7. CASE AbortSweep \/ EndSweep \/ StopProcess
    BY <1>7 DEF AbortSweep, EndSweep, StopProcess, Asleep, At
  <1>8. CASE Tick \/ StartProcess \/ UNCHANGED vars
    BY <1>8, <1>a, <1>b DEF Tick, StartProcess, vars, Live, Exhausted
  <1> QED
    BY <1>1, <1>2, <1>3, <1>4, <1>5, <1>6, <1>7, <1>8 DEF Next, RowSweep

LEMMA ClocksStep == RegistryInv /\ [Next]_vars => ClocksAgree'
  <1> SUFFICES ASSUME RegistryInv, [Next]_vars, NEW q \in Rows, Live(q)'
               PROVE  /\ started'[q] = ran'[q][inflight'[q]]
                      /\ q \in sweep'.over => started'[q] > InflightTimeout
    BY DEF ClocksAgree
  <1> DEFINE Goal == /\ started'[q] = ran'[q][inflight'[q]]
                     /\ q \in sweep'.over => started'[q] > InflightTimeout
  <1> USE DEF rowVars, taskVars, processVars
  <1>0. TypeOK
    BY DEF RegistryInv
  <1>a. Live(q) => /\ started[q] = ran[q][inflight[q]]
                   /\ q \in sweep.over => started[q] > InflightTimeout
    BY DEF RegistryInv, ClocksAgree
  <1>b. inflight'[q] \in Slots
    BY TypeStep DEF TypeOK, Live
  <1>1. ASSUME NEW r \in Rows, DispatchSample(r) \/ RedispatchRow(r) PROVE Goal
    <2>1. /\ Dispatch(r) /\ sweep'.over \subseteq sweep.over
          /\ r \notin sweep'.over
      BY <1>1 DEF DispatchSample, RedispatchRow, LeaveRow, RegistryInv,
                  HandlersFirst
    <2>2. PICK s \in Slots : Dispatched(r, s)
      BY <1>0, <2>1, DispatchEffect
    <2>3. CASE q = r
      BY <2>1, <2>2, <2>3 DEF Dispatched
    <2>4. CASE q # r
      <3>1. /\ inflight'[q] = inflight[q] /\ started'[q] = started[q]
            /\ task'[q][inflight'[q]] = task[q][inflight'[q]]
            /\ ran'[q][inflight'[q]] = ran[q][inflight'[q]]
        BY <1>b, <2>2, <2>4 DEF Dispatched
      <3>2. Live(q)
        BY <3>1 DEF Live
      <3> QED
        BY <1>a, <2>1, <3>1, <3>2
    <2> QED
      BY <2>3, <2>4
  <1>2. ASSUME NEW r \in Rows, NEW s \in Slots, TaskNext(r, s) PROVE Goal
    <2>1. TaskStepped(r, s)
      BY <1>0, <1>2, TaskEffect
    <2>2. sweep' = sweep
      BY <1>2 DEF TaskNext, FinishCall, WriteResult, OnTaskDone
    <2>3. inflight'[q] = inflight[q] /\ started'[q] = started[q]
      BY <2>1 DEF TaskStepped, Live
    <2>4. /\ task[q][inflight[q]] \in LiveStates
          /\ ran'[q][inflight[q]] = ran[q][inflight[q]]
      BY <1>b, <2>1, <2>3, ZenonT(60) DEF TaskStepped, Live
    <2>5. Live(q)
      BY <2>3, <2>4 DEF Live
    <2> QED
      BY <1>a, <2>2, <2>3, <2>4, <2>5
  <1>3. ASSUME NEW r \in Rows, RecoverRow(r) PROVE Goal
    <2>1. sweep'.over = sweep.over
      BY <1>0, <1>3 DEF RecoverRow, TypeOK, Sweeps
    <2>2. CASE Live(r)
      <3>1. q # r
        BY <1>0, <1>3, <2>2, CancelEffect DEF Live
      <3>2. /\ inflight'[q] = inflight[q] /\ started'[q] = started[q]
            /\ ran' = ran
            /\ task'[q][inflight'[q]] = task[q][inflight'[q]]
        BY <1>0, <1>3, <1>b, <2>2, <3>1, CancelEffect
      <3>3. Live(q)
        BY <3>2 DEF Live
      <3> QED
        BY <1>a, <2>1, <3>2, <3>3
    <2>3. CASE ~Live(r)
      BY <1>3, <1>a, <2>1, <2>3 DEF RecoverRow, Live
    <2> QED
      BY <2>2, <2>3
  <1>4. CASE StopProcess
    BY <1>4 DEF StopProcess, Live
  <1>5. CASE Tick
    <2>1. Live(q) /\ inflight' = inflight /\ sweep' = sweep
      BY <1>5 DEF Tick, Live
    <2>2. /\ started'[q] = IF inflight[q] # None /\ started[q] <= InflightTimeout
                           THEN started[q] + 1 ELSE started[q]
          /\ \A t \in Slots : ran'[q][t] =
               IF task[q][t] \in LiveStates /\ ran[q][t] <= InflightTimeout
               THEN ran[q][t] + 1 ELSE ran[q][t]
      BY <1>5 DEF Tick
    <2>3. started[q] \in Nat
      BY <1>0 DEF TypeOK
    <2>4. started'[q] = ran'[q][inflight[q]]
      BY <1>a, <1>b, <2>1, <2>2 DEF Live
    <2> QED
      BY <1>a, <2>1, <2>2, <2>3, <2>4
  <1>6. CASE StartSweep
    <2>1. /\ started' = started /\ ran' = ran /\ inflight' = inflight
          /\ task' = task
          /\ \A r \in sweep'.over : started[r] > InflightTimeout
      BY <1>6 DEF StartSweep
    <2> QED
      BY <1>a, <2>1 DEF Live
  <1>7. CASE /\ UNCHANGED <<task, ran, inflight, started>>
             /\ sweep'.over \subseteq sweep.over
    BY <1>a, <1>7 DEF Live
  <1>8. ASSUME NEW r \in Rows,
               SkipRow(r) \/ FailRow(r) \/ FindSettled(r) \/ LoadRow(r)
        PROVE  Goal
    <2>1. UNCHANGED <<task, ran, inflight, started>>
      BY <1>8 DEF SkipRow, FailRow, FindSettled, LoadRow
    <2>2. sweep'.over \subseteq sweep.over
      <3>1. CASE LoadRow(r)
        BY <1>0, <3>1 DEF LoadRow, TypeOK, Sweeps
      <3>2. CASE SkipRow(r) \/ FailRow(r) \/ FindSettled(r)
        BY <3>2 DEF SkipRow, FailRow, FindSettled, LeaveRow
      <3> QED
        BY <1>8, <3>1, <3>2
    <2> QED
      BY <1>7, <2>1, <2>2
  <1>9. CASE AbortSweep \/ EndSweep
    BY <1>7, <1>9 DEF AbortSweep, EndSweep, Asleep
  <1>10. ASSUME NEW r \in Rows, CommitSample(r) PROVE Goal
    BY <1>7, <1>10 DEF CommitSample
  <1>11. CASE StartProcess \/ UNCHANGED vars
    BY <1>7, <1>11 DEF StartProcess, vars
  <1> QED
    BY <1>1, <1>2, <1>3, <1>4, <1>5, <1>6, <1>8, <1>9, <1>10, <1>11
    DEF Next, RowSweep

----------------------------------------------------------------------------
(* Theorems.                                                               *)

LEMMA RegistryStep == RegistryInv /\ [Next]_vars => RegistryInv'
  BY TypeStep, OnlyRegisteredStep, HealthyStep, HandlersStep, AbsentStep,
     RecoveredStep, ClocksStep DEF RegistryInv

(* The registry of the dispatcher is sound: through every interleaving of  *)
(* handlers, tasks, sweeps, exits and failed writes, what the watchdog     *)
(* takes for orphaned or overdue is.                                       *)
THEOREM RegistryCorrect == Spec => []RegistryInv
  <1>1. Init => RegistryInv
    BY InitRegistry
  <1>2. RegistryInv /\ [Next]_vars => RegistryInv'
    BY RegistryStep
  <1> QED
    BY <1>1, <1>2, PTL DEF Spec

(* No row is ever served by two tasks, nor by one the dispatcher has lost. *)
THEOREM OnlyRegisteredTasksHolds == Spec => []OnlyRegisteredTasks
  <1>1. RegistryInv => OnlyRegisteredTasks
    BY DEF RegistryInv
  <1> QED
    BY <1>1, RegistryCorrect, PTL

(* Only an attempt that itself ran out of time is cancelled.               *)
THEOREM HealthyNotCancelledHolds == Spec => []HealthyNotCancelled
  <1>1. RegistryInv => HealthyNotCancelled
    BY DEF RegistryInv
  <1> QED
    BY <1>1, RegistryCorrect, PTL

(* Every variable keeps its type, the attempts their limit.                *)
THEOREM DispatchTypeCorrect == Spec => []TypeOK
  <1>1. RegistryInv => TypeOK
    BY DEF RegistryInv
  <1> QED
    BY <1>1, RegistryCorrect, PTL

(* A terminal row keeps its status and its result.                         *)
LEMMA CompleteKeeps ==
  ASSUME TypeOK, NEW r \in Rows, NEW outcome, NEW by, Complete(r, outcome, by),
         NEW q \in Rows, status[q] \in Terminal
  PROVE  status'[q] = status[q] /\ result'[q] = result[q]
  BY DEF Complete, TypeOK, Terminal

(* Whatever is dispatched again, and however late an attempt answers, what *)
(* a client can read of a settled row never changes.                       *)
THEOREM ResultNeverFlipsHolds == Spec => ResultNeverFlips
  <1> USE DEF rowVars, taskVars, processVars
  <1>1. ASSUME TypeOK, [Next]_vars, NEW q \in Rows, status[q] \in Terminal
        PROVE  status'[q] = status[q] /\ result'[q] = result[q]
    <2>1. ASSUME NEW r \in Rows, CommitSample(r)
          PROVE  status'[q] = status[q] /\ result'[q] = result[q]
      BY <1>1, <2>1 DEF CommitSample, TypeOK, Terminal
    <2>2. ASSUME NEW r \in Rows, NEW s \in Slots, TaskNext(r, s)
          PROVE  status'[q] = status[q] /\ result'[q] = result[q]
      BY <1>1, <2>2, CompleteKeeps
      DEF TaskNext, FinishCall, WriteResult, OnTaskDone
    <2>3. ASSUME NEW r \in Rows, FailRow(r)
          PROVE  status'[q] = status[q] /\ result'[q] = result[q]
      BY <1>1, <2>3, CompleteKeeps DEF FailRow
    <2>4. CASE UNCHANGED <<status, result>>
      BY <2>4
    <2> QED
      BY <1>1, <2>1, <2>2, <2>3, <2>4
      DEF Next, vars, RowSweep, DispatchSample, SkipRow, RecoverRow,
          FindSettled, LoadRow, RedispatchRow, StartSweep, AbortSweep,
          EndSweep, StopProcess, StartProcess, Tick
  <1>2. TypeOK /\ [Next]_vars =>
          [\A r \in Rows : status[r] \in Terminal =>
             status'[r] = status[r] /\ result'[r] = result[r]]_<<status, result>>
    BY <1>1
  <1> QED
    BY <1>2, DispatchTypeCorrect, PTL DEF Spec, ResultNeverFlips

----------------------------------------------------------------------------
(* Re-dispatches, while the database takes every terminal write.           *)

LEMMA CountedStep ==
  ASSUME ~WritesMayFail, RegistryInv, DispatchesCounted, RedispatchesBounded,
         [Next]_vars
  PROVE  DispatchesCounted' /\ RedispatchesBounded'
  <1> SUFFICES ASSUME MaxRedispatch > 0, NEW q \in Rows
               PROVE  /\ (status'[q] \in {"absent", "pending"}
                             \/ q \in handler' \cup sweep'.rows) =>
                           dispatches'[q] <= attempts'[q] +
                             IF status'[q] = "absent" \/ q \in handler' THEN 0 ELSE 1
                      /\ dispatches'[q] <= MaxRedispatch + 1
    BY DEF DispatchesCounted, RedispatchesBounded
  <1> DEFINE
        Goal ==
          /\ (status'[q] \in {"absent", "pending"}
                 \/ q \in handler' \cup sweep'.rows) =>
               dispatches'[q] <= attempts'[q] +
                 IF status'[q] = "absent" \/ q \in handler' THEN 0 ELSE 1
          /\ dispatches'[q] <= MaxRedispatch + 1
        Premise == status[q] \in {"absent", "pending"}
                     \/ q \in handler \cup sweep.rows
  <1> USE DEF rowVars, taskVars, processVars
  <1>0. TypeOK
    BY DEF RegistryInv
  <1>a. /\ dispatches[q] <= MaxRedispatch + 1
        /\ Premise => dispatches[q] <= attempts[q] +
             IF status[q] = "absent" \/ q \in handler THEN 0 ELSE 1
    BY DEF DispatchesCounted, RedispatchesBounded
  <1>b. /\ dispatches[q] \in Nat /\ attempts[q] \in 0..MaxRedispatch
        /\ dispatches'[q] \in Nat /\ attempts'[q] \in 0..MaxRedispatch
    BY <1>0, TypeStep, CapTypes DEF TypeOK
  <1>c. ASSUME NEW r \in Rows, Dispatch(r)
        PROVE  /\ q # r => dispatches'[q] = dispatches[q]
               /\ dispatches'[q] <= dispatches[q] + 1
    BY <1>0, <1>b, <1>c DEF Dispatch, TypeOK
  <1>1. ASSUME NEW r \in Rows, CommitSample(r) PROVE Goal
    <2>1. CASE q = r
      BY <1>0, <1>1, <1>a, <1>b, <2>1 DEF CommitSample, TypeOK
    <2>2. CASE q # r
      BY <1>0, <1>1, <1>a, <1>b, <2>2 DEF CommitSample, TypeOK
    <2> QED
      BY <2>1, <2>2
  <1>2. ASSUME NEW r \in Rows, DispatchSample(r) PROVE Goal
    <2>1. /\ status' = status /\ sweep' = sweep /\ attempts' = attempts
          /\ handler' = handler \ {r} /\ r \in handler /\ Dispatch(r)
      BY <1>2 DEF DispatchSample
    <2>2. status[r] # "absent"
      BY <2>1 DEF RegistryInv, HandlersFirst
    <2>3. CASE q = r
      <3>1. dispatches[q] <= attempts[q]
        BY <1>a, <1>b, <2>1, <2>3
      <3>2. dispatches'[q] <= attempts[q] + 1 /\ q \notin handler'
        BY <1>b, <1>c, <2>1, <2>3, <3>1
      <3> QED
        BY <1>b, <2>1, <2>2, <2>3, <3>2
    <2>4. CASE q # r
      BY <1>a, <1>b, <1>c, <2>1, <2>4
    <2> QED
      BY <2>3, <2>4
  <1>3. ASSUME NEW r \in Rows, RedispatchRow(r) PROVE Goal
    <2>1. /\ status' = status /\ handler' = handler /\ Dispatch(r)
          /\ sweep'.rows \subseteq sweep.rows /\ r \in sweep.rows
          /\ attempts' = [attempts EXCEPT ![r] = attempts[r] + 1]
      BY <1>3 DEF RedispatchRow, LeaveRow, At
    <2>2. r \notin handler /\ status[r] # "absent"
      BY <1>3, <2>1
      DEF RedispatchRow, RegistryInv, RecoveredIdle, AbsentUntouched
    <2>3. attempts'[q] = IF q = r THEN attempts[q] + 1 ELSE attempts[q]
      BY <1>0, <2>1 DEF TypeOK
    <2>4. CASE q = r
      <3>1. dispatches[q] <= attempts[q] + 1
        BY <1>a, <1>b, <2>1, <2>2, <2>4
      <3>2. dispatches'[q] <= attempts'[q] + 1
        BY <1>b, <1>c, <2>1, <2>3, <2>4, <3>1
      <3> QED
        BY <1>b, <2>1, <2>2, <2>4, <3>2
    <2>5. CASE q # r
      BY <1>a, <1>b, <1>c, <2>1, <2>3, <2>5
    <2> QED
      BY <2>4, <2>5
  <1>4. ASSUME NEW r \in Rows, NEW s \in Slots, TaskNext(r, s) PROVE Goal
    <2>1. /\ handler' = handler /\ sweep' = sweep /\ attempts' = attempts
          /\ dispatches' = dispatches
      BY <1>4 DEF TaskNext, FinishCall, WriteResult, OnTaskDone
    <2>2. status'[q] = status[q] \/ (status'[q] \in Terminal /\ status[q] = "pending")
      BY <1>0, <1>4
      DEF TaskNext, FinishCall, WriteResult, OnTaskDone, Complete, TypeOK, Terminal
    <2> QED
      BY <1>a, <1>b, <2>1, <2>2 DEF Terminal
  <1>5. ASSUME NEW r \in Rows, FailRow(r) \/ FindSettled(r) PROVE Goal
    <2>1. /\ handler' = handler /\ dispatches' = dispatches
          /\ sweep'.rows = sweep.rows \ {r} /\ At(r) /\ sweep.pc # "next"
          /\ attempts' = [attempts EXCEPT ![r] = 0]
      BY <1>5 DEF FailRow, FindSettled, LeaveRow
    <2>2. r \notin handler /\ status[r] # "absent"
      BY <2>1 DEF RegistryInv, RecoveredIdle, AbsentUntouched, At
    <2>3. attempts'[q] = IF q = r THEN 0 ELSE attempts[q]
      BY <1>0, <2>1 DEF TypeOK
    <2>4. CASE q = r
      <3>1. status'[r] \notin {"absent", "pending"}
        BY <1>0, <1>5, <2>2 DEF FailRow, FindSettled, Complete, TypeOK, Terminal
      <3> QED
        BY <1>a, <2>1, <2>2, <2>4, <3>1
    <2>5. CASE q # r
      <3>1. status'[q] = status[q]
        BY <1>0, <1>5, <2>5 DEF FailRow, FindSettled, Complete, TypeOK
      <3> QED
        BY <1>a, <1>b, <2>1, <2>3, <2>5, <3>1
    <2> QED
      BY <2>4, <2>5
  <1>6. CASE StartSweep
    <2>1. /\ sweep'.rows = Pending /\ status' = status /\ handler' = handler
          /\ attempts' = attempts /\ dispatches' = dispatches
      BY <1>6 DEF StartSweep
    <2> QED
      BY <1>a, <1>b, <2>1 DEF Pending
  <1>7. CASE /\ UNCHANGED <<status, handler, attempts, dispatches>>
             /\ sweep'.rows \subseteq sweep.rows
    BY <1>7, <1>a, <1>b
  <1>8. ASSUME NEW r \in Rows, SkipRow(r) PROVE Goal
    BY <1>7, <1>8 DEF SkipRow, LeaveRow
  <1>9. ASSUME NEW r \in Rows, RecoverRow(r) \/ LoadRow(r) PROVE Goal
    <2>1. sweep'.rows = sweep.rows
      BY <1>0, <1>9 DEF RecoverRow, LoadRow, TypeOK, Sweeps
    <2> QED
      BY <1>7, <1>9, <2>1 DEF RecoverRow, LoadRow
  <1>10. CASE AbortSweep \/ EndSweep
    BY <1>7, <1>10 DEF AbortSweep, EndSweep, Asleep
  <1>11. CASE StopProcess
    BY <1>11, <1>b DEF StopProcess, Asleep
  <1>12. CASE Tick \/ StartProcess \/ UNCHANGED vars
    BY <1>7, <1>12 DEF Tick, StartProcess, vars
  <1> QED
    BY <1>1, <1>2, <1>3, <1>4, <1>5, <1>6, <1>8, <1>9, <1>10, <1>11, <1>12
    DEF Next, RowSweep

(* If terminal writes land, a process never dispatches a row more than     *)
(* max_redispatch times again, for any limit and any number of rows.       *)
THEOREM RedispatchesBoundedHolds ==
  ASSUME ~WritesMayFail PROVE Spec => []RedispatchesBounded
  <1>1. Init => DispatchesCounted /\ RedispatchesBounded
    BY DEF Init, DispatchesCounted, RedispatchesBounded
  <1>2. RegistryInv /\ DispatchesCounted /\ RedispatchesBounded /\ [Next]_vars
          => DispatchesCounted' /\ RedispatchesBounded'
    BY CountedStep
  <1> QED
    BY <1>1, <1>2, RegistryCorrect, PTL DEF Spec
=============================================================================
