------------------------ MODULE TaskSchedulerUnits ------------------------
(***************************************************************************)
(* What runs on the GPUs, as opposed to what the rows say: as long as no   *)
(* answer of systemd-run is lost, the units follow the rows.               *)
(***************************************************************************)
EXTENDS TaskSchedulerProofs

\* What the systemd commands do to each unit: only the launch starts one.
LEMMA UnitEffects ==
    ASSUME unit \in [Tasks -> Unit], NEW t, NEW u \in Tasks
    PROVE  /\ UnitGone(t)[u].state = "running" => u # t /\ UnitGone(t)[u] = unit[u]
           /\ UnitAs(t, "failed")[u].state = "running" =>
                u # t /\ UnitAs(t, "failed")[u] = unit[u]
           /\ Stopped(t)[u].state = "running" => u # t /\ Stopped(t)[u] = unit[u]
<1>1. UnitGone(t)[u].state = "running" => u # t /\ UnitGone(t)[u] = unit[u]
  BY DEF UnitGone, NoUnit
<1>2. UnitAs(t, "failed")[u].state = "running" =>
        u # t /\ UnitAs(t, "failed")[u] = unit[u]
  BY DEF UnitAs, Unit
<1>3. Stopped(t)[u].state = "running" => u # t /\ Stopped(t)[u] = unit[u]
  BY <1>1, <1>2 DEF Stopped, UnitRunning
<1> QED
  BY <1>1, <1>2, <1>3

\* A launch starts the unit of the task that is being spawned, on its GPU.
LEMMA LaunchEffects ==
    ASSUME unit \in [Tasks -> Unit], LaunchLoaded \/ LaunchUnverified
    PROVE  \A u \in Tasks : unit'[u].state = "running" =>
              unit'[u] = unit[u] \/ (u = cur /\ unit'[u].gpu = curGpu)
<1> SUFFICES ASSUME NEW u \in Tasks, unit'[u].state = "running"
             PROVE  unit'[u] = unit[u] \/ (u = cur /\ unit'[u].gpu = curGpu)
  OBVIOUS
<1>1. CASE unit' = unit
  BY <1>1
<1>2. CASE unit' = UnitStarted(cur, curGpu)
  BY <1>2 DEF UnitStarted
<1>3. CASE unit' = UnitAs(cur, "failed")
  BY <1>3, UnitEffects
<1> QED
  BY <1>1, <1>2, <1>3 DEF LaunchLoaded, LaunchUnverified

\* start() and the head of the loop keep the invariant of the units.
LEMMA StartupUnits == TypeOK /\ IInv /\ UnitInv /\ (Startup \/ Top) => UnitInv'
<1> SUFFICES ASSUME TypeOK, IInv, UnitInv, Startup \/ Top PROVE UnitInv'
  OBVIOUS
<1> USE DEF TypeOK, ProcessTypeOK, Row, Unit, IInv, OneHolder, CurIsSpawned,
        AbortedIsManaged, TodoIsManaged, PhaseOfPc, UnitInv, UnitOwned, UnitRunning, UnitLoaded,
        LoopHoldsLock, AbortHoldsLock, get_managed_tasks, ManagedStates, TerminalStates,
        database, memory, loopVars
<1>1. CASE Boot
  BY <1>1 DEF Boot
<1>2. ASSUME NEW t \in Tasks, SweepUnit(t) PROVE UnitInv'
  <2>1. \A u \in Tasks : unit'[u].state = "running" => unit'[u] = unit[u]
    BY <1>2, UnitEffects DEF SweepUnit
  <2>2. \A u \in Tasks : task'[u].state = task[u].state /\ task'[u].gpu = task[u].gpu
    BY <1>2, ClearUnitKeeps DEF SweepUnit
  <2>3. \A u \in Tasks : unit'[u].state = "running" => task'[u].unit
    BY <1>2, <2>1, UnitEffects DEF SweepUnit, ClearUnit
  <2> QED
    BY <1>2, <2>1, <2>2, <2>3 DEF SweepUnit, EndSweep, EndIteration
<1>3. ASSUME NEW t \in Tasks, SweepTimeout(t) PROVE UnitInv'
  <2>1. \A u \in Tasks : unit'[u].state = "running" => unit'[u] = unit[u]
    BY <1>3, UnitEffects DEF SweepTimeout
  <2> QED
    BY <1>3, <2>1 DEF SweepTimeout, Raise, Halt, EndIteration, IdleAbort
<1>4. CASE SweepDone
  BY <1>4 DEF SweepDone, EndSweep, EndIteration
<1>5. CASE Top
  BY <1>5 DEF Top
<1> QED
  BY <1>1, <1>2, <1>3, <1>4, <1>5 DEF Startup

\* A reconciliation keeps the invariant of the units.
LEMMA ReconcileUnits == TypeOK /\ IInv /\ UnitInv /\ Reconcile => UnitInv'
<1> SUFFICES ASSUME TypeOK, IInv, UnitInv, Reconcile PROVE UnitInv'
  OBVIOUS
<1> USE DEF TypeOK, ProcessTypeOK, Row, Unit, IInv, OneHolder, CurIsSpawned,
        AbortedIsManaged, TodoIsManaged, PhaseOfPc, UnitInv, UnitOwned, UnitRunning, UnitLoaded,
        LoopHoldsLock, AbortHoldsLock, get_managed_tasks, ManagedStates, TerminalStates,
        database, memory, loopVars
<1>1. CASE RecLock
  BY <1>1 DEF RecLock
<1>2. ASSUME NEW t \in Tasks, ReconcileNoUnit(t) PROVE UnitInv'
  BY <1>2 DEF ReconcileNoUnit, ResetStarting, SetFinished, SetState, BlankRow,
     Unregister
<1>3. ASSUME NEW t \in Tasks, ReconcileMissing(t) PROVE UnitInv'
  BY <1>3, SMTT(30) DEF ReconcileMissing, ResetStarting, SetFinished, SetState, BlankRow,
     Unregister
<1>4. ASSUME NEW t \in Tasks, ReconcileRunning(t) PROVE UnitInv'
  BY <1>4 DEF ReconcileRunning, AdoptRunning, SetRunning, SetState, Register
<1>5. ASSUME NEW t \in Tasks, ReconcileExited(t) PROVE UnitInv'
  BY <1>5 DEF ReconcileExited, RecordExit, SetFinished, SetState, Unregister, UnitExited
<1>6. ASSUME NEW t \in Tasks, ReconcileUnavailable(t) PROVE UnitInv'
  BY <1>6 DEF ReconcileUnavailable, StartSweep, EndIteration
<1>7. ASSUME NEW t \in Tasks, ReconcileError(t) PROVE UnitInv'
  BY <1>7 DEF ReconcileError, Raise, Halt, EndIteration, IdleAbort
<1>8. CASE ReconcileDone
  BY <1>8 DEF ReconcileDone, StartSweep, EndIteration
<1>9. CASE Reap
  <2>1. \A u \in Tasks : unit'[u].state = "running" => unit'[u] = unit[u]
    BY <1>9, UnitEffects DEF Reap
  <2>2. \A u \in Tasks : task'[u].state = task[u].state /\ task'[u].gpu = task[u].gpu
    BY <1>9, ClearUnitKeeps DEF Reap
  <2>3. \A u \in Tasks : unit'[u].state = "running" => task'[u].unit
    BY <1>9, <2>1, UnitEffects DEF Reap, ClearUnit
  <2> QED
    BY <1>9, <2>1, <2>2, <2>3 DEF Reap, NextRow
<1>10. CASE ReapTimeout
  <2>1. \A u \in Tasks : unit'[u].state = "running" => unit'[u] = unit[u]
    BY <1>10, UnitEffects DEF ReapTimeout
  <2> QED
    BY <1>10, <2>1 DEF ReapTimeout, Raise, Halt, EndIteration, IdleAbort
<1> QED
  BY <1>1, <1>2, <1>3, <1>4, <1>5, <1>6, <1>7, <1>8, <1>9, <1>10 DEF Reconcile

\* A dispatch up to the claim of a row keeps the invariant of the units.
LEMMA DispatchUnits == TypeOK /\ IInv /\ UnitInv /\ Dispatch => UnitInv'
<1> SUFFICES ASSUME TypeOK, IInv, UnitInv, Dispatch PROVE UnitInv'
  OBVIOUS
<1> USE DEF TypeOK, ProcessTypeOK, Row, Unit, IInv, OneHolder, CurIsSpawned,
        AbortedIsManaged, TodoIsManaged, PhaseOfPc, UnitInv, UnitOwned, UnitRunning, UnitLoaded,
        LoopHoldsLock, AbortHoldsLock, get_managed_tasks, ManagedStates, TerminalStates,
        database, memory, loopVars
<1>1. CASE Scan
  BY <1>1 DEF Scan, EndIteration
<1>2. CASE Probe
  BY <1>2 DEF Probe, Lowest, Registered
<1>3. ASSUME NEW t \in Tasks, PickSkip(t) PROVE UnitInv'
  BY <1>3 DEF PickSkip
<1>4. ASSUME NEW t \in Tasks, PickBreak(t) PROVE UnitInv'
  BY <1>4 DEF PickBreak, EndIteration
<1>5. ASSUME NEW t \in Tasks, PickEnvGone(t) PROVE UnitInv'
  BY <1>5 DEF PickEnvGone, FailPending, SetState
<1>6. ASSUME NEW t \in Tasks, PickSpawn(t) PROVE UnitInv'
  BY <1>6 DEF PickSpawn, Choice, Lowest
<1>7. CASE PickDone
  BY <1>7 DEF PickDone, EndIteration
<1>8. CASE SpawnRefused
  BY <1>8 DEF SpawnRefused, NextRow
<1>9. CASE SpawnClaim
  BY <1>9 DEF SpawnClaim, MayClaim, Claimed, EndIteration
<1> QED
  BY <1>1, <1>2, <1>3, <1>4, <1>5, <1>6, <1>7, <1>8, <1>9 DEF Dispatch

\* A launch after the claim of its row keeps the invariant of the units.
LEMMA LaunchUnits ==
    TypeOK /\ IInv /\ "lost" \notin FaultKinds /\ UnitInv /\ Launch => UnitInv'
<1> SUFFICES ASSUME TypeOK, IInv, "lost" \notin FaultKinds, UnitInv, Launch PROVE UnitInv'
  OBVIOUS
<1> USE DEF TypeOK, ProcessTypeOK, Row, Unit, IInv, OneHolder, CurIsSpawned,
        AbortedIsManaged, TodoIsManaged, PhaseOfPc, UnitInv, UnitOwned, UnitRunning, UnitLoaded,
        LoopHoldsLock, AbortHoldsLock, get_managed_tasks, ManagedStates, TerminalStates,
        database, memory, loopVars
<1>1. CASE LaunchLoaded
  <2>1. \A u \in Tasks : unit'[u].state = "running" =>
          unit'[u] = unit[u] \/ (u = cur /\ unit'[u].gpu = curGpu)
    BY <1>1, LaunchEffects
  <2> QED
    BY <1>1, <2>1, SMTT(30) DEF LaunchLoaded
<1>2. CASE LaunchRefused
  BY <1>2 DEF LaunchRefused, SetFinished, SetState, NextRow
<1>3. CASE LaunchUnavailable
  BY <1>3 DEF LaunchUnavailable, ResetStarting, BlankRow, NextRow, Fault
<1>4. CASE LaunchUnverified
  <2>1. \A u \in Tasks : unit'[u].state = "running" =>
          unit'[u] = unit[u] \/ (u = cur /\ unit'[u].gpu = curGpu)
    BY <1>4, LaunchEffects
  <2> QED
    BY <1>4, <2>1 DEF LaunchUnverified, EndIteration
<1>5. CASE ApplyRunning
  BY <1>5 DEF ApplyRunning, AdoptRunning, SetRunning, SetState, Register, NextRow
<1>6. CASE ApplyExited
  BY <1>6 DEF ApplyExited, RecordExit, SetFinished, SetState, Unregister, UnitExited
<1> QED
  BY <1>1, <1>2, <1>3, <1>4, <1>5, <1>6 DEF Launch

\* The handlers keep the invariant of the units.
LEMMA HandlersUnits == TypeOK /\ IInv /\ UnitInv /\ Handlers => UnitInv'
<1> SUFFICES ASSUME TypeOK, IInv, UnitInv, Handlers PROVE UnitInv'
  OBVIOUS
<1> USE DEF TypeOK, ProcessTypeOK, Row, Unit, IInv, OneHolder, CurIsSpawned,
        AbortedIsManaged, TodoIsManaged, PhaseOfPc, UnitInv, UnitOwned, UnitRunning, UnitLoaded,
        LoopHoldsLock, AbortHoldsLock, get_managed_tasks, ManagedStates, TerminalStates,
        database, memory, loopVars
<1>1. ASSUME NEW t \in Tasks, Submit(t) PROVE UnitInv'
  BY <1>1 DEF Submit, BlankRow
<1>2. ASSUME NEW t \in Tasks, AbortPending(t) PROVE UnitInv'
  BY <1>2 DEF AbortPending, LockFree, SetAborted, SetState, Unregister
<1>3. ASSUME NEW t \in Tasks, AbortStart(t) PROVE UnitInv'
  BY <1>3 DEF AbortStart, LockFree
<1>4. ASSUME NEW t \in Tasks, DeleteOne(t) PROVE UnitInv'
  BY <1>4 DEF DeleteOne, Deleted, BlankRow
<1>5. CASE SubmitRejected
  BY <1>5 DEF SubmitRejected
<1>6. CASE AbortStop
  <2>1. \A u \in Tasks : unit'[u].state = "running" => unit'[u] = unit[u]
    BY <1>6, UnitEffects DEF AbortStop
  <2>2. abort'.at = "commit" => ~UnitRunning(abort.task)'
    BY <1>6, UnitEffects DEF AbortStop, IdleAbort
  <2> QED
    BY <1>6, <2>1, <2>2 DEF AbortStop, IdleAbort
<1>7. CASE AbortCommit
  BY <1>7 DEF AbortCommit, SetAborted, SetState, IdleAbort, Unregister
<1>8. CASE AbortClean
  <2>1. \A u \in Tasks : unit'[u].state = "running" => unit'[u] = unit[u]
    BY <1>8, UnitEffects DEF AbortClean
  <2>2. \A u \in Tasks : task'[u].state = task[u].state /\ task'[u].gpu = task[u].gpu
    BY <1>8, ClearUnitKeeps DEF AbortClean
  <2>3. \A u \in Tasks : unit'[u].state = "running" => task'[u].unit
    BY <1>8, <2>1, UnitEffects DEF AbortClean, ClearUnit
  <2> QED
    BY <1>8, <2>1, <2>2, <2>3 DEF AbortClean, IdleAbort
<1>9. CASE AbortCleanTimeout
  <2>1. \A u \in Tasks : unit'[u].state = "running" => unit'[u] = unit[u]
    BY <1>9, UnitEffects DEF AbortCleanTimeout
  <2> QED
    BY <1>9, <2>1 DEF AbortCleanTimeout, IdleAbort
<1>10. ASSUME NEW g \in Gpus, SetGpuScheduling(g) PROVE UnitInv'
  BY <1>10 DEF SetGpuScheduling
<1>11. ASSUME NEW scope \in Scopes, DeleteAllSelect(scope) PROVE UnitInv'
  BY <1>11 DEF DeleteAllSelect
<1>12. CASE DeleteAllDelete
  BY <1>12 DEF DeleteAllDelete, TerminalTasks, Deleted, BlankRow
<1> QED
  BY <1>1, <1>2, <1>3, <1>4, <1>5, <1>6, <1>7, <1>8, <1>9, <1>10, <1>11, <1>12
     DEF Handlers, AbortSteps

\* Scripts, crashes and reboots keep the invariant of the units.
LEMMA OutsideUnits == TypeOK /\ IInv /\ UnitInv /\ Outside => UnitInv'
<1> SUFFICES ASSUME TypeOK, IInv, UnitInv, Outside PROVE UnitInv'
  OBVIOUS
<1> USE DEF TypeOK, ProcessTypeOK, Row, Unit, IInv, OneHolder, CurIsSpawned,
        AbortedIsManaged, TodoIsManaged, PhaseOfPc, UnitInv, UnitOwned, UnitRunning, UnitLoaded,
        LoopHoldsLock, AbortHoldsLock, get_managed_tasks, ManagedStates, TerminalStates,
        database, memory, loopVars
<1>1. ASSUME NEW t \in Tasks, UnitExit(t) PROVE UnitInv'
  BY <1>1 DEF UnitExit, UnitAs
<1>2. CASE Crash
  BY <1>2 DEF Crash, Halt, IdleAbort
<1>3. CASE Reboot
  BY <1>3 DEF Reboot, Halt, NoUnit, IdleAbort
<1> QED
  BY <1>1, <1>2, <1>3 DEF Outside

\* The invariant of the units holds at the start.
LEMMA InitUnits == Init => UnitInv
BY DEF Init, UnitInv, UnitOwned, UnitRunning, NoUnit, IdleAbort

\* Every step keeps the invariant of the units.
LEMMA NextUnits ==
    TypeOK /\ IInv /\ "lost" \notin FaultKinds /\ UnitInv /\ [Next]_vars => UnitInv'
<1>1. UnitInv /\ UNCHANGED vars => UnitInv'
  BY DEF vars, UnitInv, UnitOwned, UnitRunning
<1> QED
  BY <1>1, StartupUnits, ReconcileUnits, DispatchUnits, LaunchUnits, HandlersUnits,
     OutsideUnits DEF Next, Scheduler

\* What runs has a STARTING or RUNNING row that names its GPU: no crash, failed
\* stop or requeue leaves a script running behind a row that says otherwise.
THEOREM WhatRunsIsOwned ==
    ASSUME "lost" \notin FaultKinds
    PROVE  Spec => []UnitOwned
<1>1. TypeOK /\ IInv /\ UnitInv /\ [Next]_vars => UnitInv'
  BY NextUnits
<1>2. UnitInv => UnitOwned
  BY DEF UnitInv
<1> QED
  BY <1>1, <1>2, InitUnits, TypeCorrect, Invariance, PTL DEF Spec

\* README.md:3: each GPU runs one training script at a time, provided that no
\* answer of systemd-run is lost (the run one_per_gpu shows why this is needed).
THEOREM OneScriptPerGpu ==
    ASSUME "lost" \notin FaultKinds
    PROVE  Spec => []UnitsExclusive
<1>1. UnitOwned /\ RowsExclusive => UnitsExclusive
  BY DEF UnitOwned, RowsExclusive, UnitsExclusive, get_managed_tasks
<1> QED
  BY <1>1, WhatRunsIsOwned, OwnershipIsExclusive, PTL
-----------------------------------------------------------------------------
(* The logs of what runs                                                   *)

\* A command that removes a unit, or ends it, starts nothing.
LEMMA UnitsKept ==
    ASSUME unit \in [Tasks -> Unit], NEW t, NEW u \in Tasks
    PROVE  /\ UnitGone(t)[u].starts = unit[u].starts
           /\ UnitGone(t)[u] = unit[u] \/ (u = t /\ UnitGone(t)[u].state = "none")
           /\ UnitAs(t, "failed")[u].starts = unit[u].starts
           /\ UnitAs(t, "failed")[u] = unit[u] \/ (u = t /\ UnitAs(t, "failed")[u].state = "failed")
           /\ Stopped(t)[u].starts = unit[u].starts
           /\ unit[u].state = "none" => Stopped(t)[u].state = "none"
<1>1. /\ UnitGone(t)[u].starts = unit[u].starts
      /\ UnitGone(t)[u] = unit[u] \/ (u = t /\ UnitGone(t)[u].state = "none")
  BY DEF UnitGone, NoUnit, Unit
<1>2. /\ UnitAs(t, "failed")[u].starts = unit[u].starts
      /\ UnitAs(t, "failed")[u] = unit[u] \/ (u = t /\ UnitAs(t, "failed")[u].state = "failed")
  BY DEF UnitAs, Unit
<1>3. unit[u].state = "none" /\ u = t => ~UnitRunning(t) /\ unit[t].state # "succeeded"
  BY DEF UnitRunning
<1> QED
  BY <1>1, <1>2, <1>3 DEF Stopped

\* Forgetting the name of a unit changes nothing else of a row.
LEMMA ClearedRow ==
    ASSUME task \in [Tasks -> Row], NEW t \in Tasks, NEW u \in Tasks
    PROVE  /\ u # t => ClearUnit(t)[u] = task[u]
           /\ ClearUnit(t)[u].state = task[u].state
           /\ ClearUnit(t)[u].log = task[u].log
BY DEF ClearUnit, Row

\* start() and the head of the loop keep the invariant of the logs.
LEMMA StartupLogs ==
    TypeOK /\ IInv /\ LogInv /\ (Startup \/ Top) => LogInv'
<1> SUFFICES ASSUME TypeOK, IInv, LogInv, Startup \/ Top PROVE LogInv'
  OBVIOUS
<1> USE DEF TypeOK, ProcessTypeOK, Row, Unit, IInv, OneHolder, CurIsSpawned,
        AbortedIsManaged, TodoIsManaged, PhaseOfPc, LogInv, RunningHasLog, SweptHaveEnded,
        UnitRunning, UnitLoaded, LoopHoldsLock, AbortHoldsLock, get_managed_tasks,
        ManagedStates, TerminalStates, database, memory, loopVars
<1>1. CASE Boot
  BY <1>1 DEF Boot
<1>2. ASSUME NEW t \in Tasks, SweepUnit(t) PROVE LogInv'
  <2>1. \A u \in Tasks : /\ unit'[u].starts = unit[u].starts
                         /\ unit'[u] = unit[u] \/ (u = t /\ unit'[u].state = "none")
    BY <1>2, UnitsKept DEF SweepUnit
  <2>2. \A u \in Tasks : /\ u # t => task'[u] = task[u]
                         /\ task'[u].state = task[u].state /\ task'[u].log = task[u].log
    BY <1>2, ClearedRow DEF SweepUnit
  <2> QED
    BY <1>2, <2>1, <2>2 DEF SweepUnit, EndSweep, EndIteration
<1>3. ASSUME NEW t \in Tasks, SweepTimeout(t) PROVE LogInv'
  <2>1. \A u \in Tasks : /\ unit'[u].starts = unit[u].starts
                         /\ unit'[u] = unit[u] \/ (u = t /\ unit'[u].state = "none")
    BY <1>3, UnitsKept DEF SweepTimeout
  <2> QED
    BY <1>3, <2>1 DEF SweepTimeout, Raise, Halt, EndIteration, IdleAbort, IdleBulk
<1>4. CASE SweepDone
  BY <1>4 DEF SweepDone, EndSweep, EndIteration
<1>5. CASE Top
  BY <1>5 DEF Top
<1> QED
  BY <1>1, <1>2, <1>3, <1>4, <1>5 DEF Startup

\* A reconciliation keeps the invariant of the logs.
LEMMA ReconcileLogs ==
    TypeOK /\ IInv /\ LogInv /\ Reconcile => LogInv'
<1> SUFFICES ASSUME TypeOK, IInv, LogInv, Reconcile PROVE LogInv'
  OBVIOUS
<1> USE DEF TypeOK, ProcessTypeOK, Row, Unit, IInv, OneHolder, CurIsSpawned,
        AbortedIsManaged, TodoIsManaged, PhaseOfPc, LogInv, RunningHasLog, SweptHaveEnded,
        UnitRunning, UnitLoaded, LoopHoldsLock, AbortHoldsLock, get_managed_tasks,
        ManagedStates, TerminalStates, database, memory, loopVars
<1>1. CASE RecLock
  BY <1>1 DEF RecLock
<1>2. ASSUME NEW t \in Tasks, ReconcileNoUnit(t) PROVE LogInv'
  BY <1>2 DEF ReconcileNoUnit, ResetStarting, SetFinished, SetState, BlankRow
<1>3. ASSUME NEW t \in Tasks, ReconcileMissing(t) PROVE LogInv'
  <2>1. CASE task[t].state = "STARTING"
    BY <1>3, <2>1, SMTT(30) DEF ReconcileMissing, ResetStarting, BlankRow
  <2>2. CASE task[t].state = "RUNNING"
    BY <1>3, <2>2, SMTT(30) DEF ReconcileMissing, SetFinished, SetState
  <2> QED
    BY <1>3, <2>1, <2>2 DEF ReconcileMissing
<1>4. ASSUME NEW t \in Tasks, ReconcileRunning(t) PROVE LogInv'
  BY <1>4 DEF ReconcileRunning, AdoptRunning, SetRunning, SetState
<1>5. ASSUME NEW t \in Tasks, ReconcileExited(t) PROVE LogInv'
  BY <1>5 DEF ReconcileExited, RecordExit, SetFinished, SetState
<1>6. ASSUME NEW t \in Tasks, ReconcileUnavailable(t) PROVE LogInv'
  BY <1>6 DEF ReconcileUnavailable, StartSweep, TerminalTasks, EndIteration
<1>7. ASSUME NEW t \in Tasks, ReconcileError(t) PROVE LogInv'
  BY <1>7 DEF ReconcileError, Raise, Halt, EndIteration, IdleAbort, IdleBulk
<1>8. CASE ReconcileDone
  BY <1>8 DEF ReconcileDone, StartSweep, TerminalTasks, EndIteration
<1>9. CASE Reap
  <2>1. \A u \in Tasks : /\ unit'[u].starts = unit[u].starts
                         /\ unit'[u] = unit[u] \/ (u = cur /\ unit'[u].state = "none")
    BY <1>9, UnitsKept DEF Reap
  <2>2. \A u \in Tasks : /\ u # cur => task'[u] = task[u]
                         /\ task'[u].state = task[u].state /\ task'[u].log = task[u].log
    BY <1>9, ClearedRow DEF Reap
  <2> QED
    BY <1>9, <2>1, <2>2 DEF Reap, NextRow
<1>10. CASE ReapTimeout
  <2>1. \A u \in Tasks : /\ unit'[u].starts = unit[u].starts
                         /\ unit'[u] = unit[u] \/ (u = cur /\ unit'[u].state = "none")
    BY <1>10, UnitsKept DEF ReapTimeout
  <2> QED
    BY <1>10, <2>1 DEF ReapTimeout, Raise, Halt, EndIteration, IdleAbort, IdleBulk
<1> QED
  BY <1>1, <1>2, <1>3, <1>4, <1>5, <1>6, <1>7, <1>8, <1>9, <1>10
     DEF Reconcile

\* A dispatch up to the claim keeps the invariant of the logs.
LEMMA DispatchLogs ==
    TypeOK /\ IInv /\ LogInv /\ Dispatch => LogInv'
<1> SUFFICES ASSUME TypeOK, IInv, LogInv, Dispatch PROVE LogInv'
  OBVIOUS
<1> USE DEF TypeOK, ProcessTypeOK, Row, Unit, IInv, OneHolder, CurIsSpawned,
        AbortedIsManaged, TodoIsManaged, PhaseOfPc, LogInv, RunningHasLog, SweptHaveEnded,
        UnitRunning, UnitLoaded, LoopHoldsLock, AbortHoldsLock, get_managed_tasks,
        ManagedStates, TerminalStates, database, memory, loopVars
<1>1. CASE Scan
  BY <1>1 DEF Scan, EndIteration
<1>2. CASE Probe
  BY <1>2 DEF Probe
<1>3. ASSUME NEW t \in Tasks, PickSkip(t) PROVE LogInv'
  BY <1>3 DEF PickSkip
<1>4. ASSUME NEW t \in Tasks, PickBreak(t) PROVE LogInv'
  BY <1>4 DEF PickBreak, EndIteration
<1>5. ASSUME NEW t \in Tasks, PickEnvGone(t) PROVE LogInv'
  BY <1>5 DEF PickEnvGone, FailPending, SetState
<1>6. ASSUME NEW t \in Tasks, PickSpawn(t) PROVE LogInv'
  BY <1>6 DEF PickSpawn
<1>7. CASE PickDone
  BY <1>7 DEF PickDone, EndIteration
<1>8. CASE SpawnRefused
  BY <1>8 DEF SpawnRefused, NextRow
<1>9. CASE SpawnClaim
  BY <1>9 DEF SpawnClaim, MayClaim, Claimed, EndIteration
<1> QED
  BY <1>1, <1>2, <1>3, <1>4, <1>5, <1>6, <1>7, <1>8, <1>9 DEF Dispatch

\* A launch keeps the invariant of the logs.
LEMMA LaunchLogs ==
    TypeOK /\ IInv /\ "lost" \notin FaultKinds /\ LogInv /\ Launch => LogInv'
<1> SUFFICES ASSUME TypeOK, IInv, "lost" \notin FaultKinds, LogInv, Launch PROVE LogInv'
  OBVIOUS
<1> USE DEF TypeOK, ProcessTypeOK, Row, Unit, IInv, OneHolder, CurIsSpawned,
        AbortedIsManaged, TodoIsManaged, PhaseOfPc, LogInv, RunningHasLog, SweptHaveEnded,
        UnitRunning, UnitLoaded, LoopHoldsLock, AbortHoldsLock, get_managed_tasks,
        ManagedStates, TerminalStates, database, memory, loopVars
<1>1. CASE LaunchLoaded
  BY <1>1 DEF LaunchLoaded, UnitStarted, UnitAs
<1>2. CASE LaunchRefused
  BY <1>2 DEF LaunchRefused, SetFinished, SetState, NextRow
<1>3. CASE LaunchUnavailable
  BY <1>3 DEF LaunchUnavailable, ResetStarting, BlankRow, UnitStarted, NextRow, Fault
<1>4. CASE LaunchUnverified
  BY <1>4 DEF LaunchUnverified, UnitStarted, EndIteration
<1>5. CASE ApplyRunning
  BY <1>5 DEF ApplyRunning, AdoptRunning, SetRunning, SetState, NextRow
<1>6. CASE ApplyExited
  BY <1>6 DEF ApplyExited, RecordExit, SetFinished, SetState
<1> QED
  BY <1>1, <1>2, <1>3, <1>4, <1>5, <1>6 DEF Launch

\* The handlers keep the invariant of the logs.
LEMMA HandlersLogs ==
    TypeOK /\ IInv /\ LogInv /\ Handlers => LogInv'
<1> SUFFICES ASSUME TypeOK, IInv, LogInv, Handlers PROVE LogInv'
  OBVIOUS
<1> USE DEF TypeOK, ProcessTypeOK, Row, Unit, IInv, OneHolder, CurIsSpawned,
        AbortedIsManaged, TodoIsManaged, PhaseOfPc, LogInv, RunningHasLog, SweptHaveEnded,
        UnitRunning, UnitLoaded, LoopHoldsLock, AbortHoldsLock, get_managed_tasks,
        ManagedStates, TerminalStates, database, memory, loopVars
<1>1. ASSUME NEW t \in Tasks, Submit(t) PROVE LogInv'
  BY <1>1 DEF Submit, BlankRow
<1>2. ASSUME NEW t \in Tasks, AbortPending(t) PROVE LogInv'
  BY <1>2 DEF AbortPending, LockFree, SetAborted, SetState
<1>3. ASSUME NEW t \in Tasks, AbortStart(t) PROVE LogInv'
  BY <1>3 DEF AbortStart, LockFree
<1>4. ASSUME NEW t \in Tasks, DeleteOne(t) PROVE LogInv'
  BY <1>4 DEF DeleteOne, Deleted, BlankRow
<1>5. CASE SubmitRejected
  BY <1>5 DEF SubmitRejected
<1>6. CASE AbortStop
  <2>1. \A u \in Tasks : unit[u].state = "none" => unit'[u].state = "none"
    BY <1>6, UnitsKept DEF AbortStop
  <2> QED
    BY <1>6, <2>1 DEF AbortStop, IdleAbort
<1>7. CASE AbortCommit
  BY <1>7 DEF AbortCommit, SetAborted, SetState, IdleAbort
<1>8. CASE AbortClean
  <2>1. \A u \in Tasks : /\ unit'[u].starts = unit[u].starts
                         /\ unit'[u] = unit[u] \/ (u = abort.task /\ unit'[u].state = "none")
    BY <1>8, UnitsKept DEF AbortClean
  <2>2. \A u \in Tasks : /\ u # abort.task => task'[u] = task[u]
                         /\ task'[u].state = task[u].state /\ task'[u].log = task[u].log
    BY <1>8, ClearedRow DEF AbortClean
  <2> QED
    BY <1>8, <2>1, <2>2 DEF AbortClean, IdleAbort
<1>9. CASE AbortCleanTimeout
  BY <1>9 DEF AbortCleanTimeout, UnitGone, NoUnit, IdleAbort
<1>10. ASSUME NEW g \in Gpus, SetGpuScheduling(g) PROVE LogInv'
  BY <1>10 DEF SetGpuScheduling
<1>11. ASSUME NEW scope \in Scopes, DeleteAllSelect(scope) PROVE LogInv'
  BY <1>11 DEF DeleteAllSelect, TerminalTasks
<1>12. CASE DeleteAllDelete
  BY <1>12 DEF DeleteAllDelete, TerminalTasks, Deleted, BlankRow, IdleBulk
<1> QED
  BY <1>1, <1>2, <1>3, <1>4, <1>5, <1>6, <1>7, <1>8, <1>9, <1>10, <1>11, <1>12
     DEF Handlers, AbortSteps

\* Scripts, crashes and reboots keep the invariant of the logs.
LEMMA OutsideLogs ==
    TypeOK /\ IInv /\ LogInv /\ Outside => LogInv'
<1> SUFFICES ASSUME TypeOK, IInv, LogInv, Outside PROVE LogInv'
  OBVIOUS
<1> USE DEF TypeOK, ProcessTypeOK, Row, Unit, IInv, OneHolder, CurIsSpawned,
        AbortedIsManaged, TodoIsManaged, PhaseOfPc, LogInv, RunningHasLog, SweptHaveEnded,
        UnitRunning, UnitLoaded, LoopHoldsLock, AbortHoldsLock, get_managed_tasks,
        ManagedStates, TerminalStates, database, memory, loopVars
<1>1. ASSUME NEW t \in Tasks, UnitExit(t) PROVE LogInv'
  BY <1>1 DEF UnitExit, UnitAs
<1>2. CASE Crash
  BY <1>2 DEF Crash, Halt, IdleAbort, IdleBulk
<1>3. CASE Reboot
  BY <1>3 DEF Reboot, Halt, NoUnit, IdleAbort, IdleBulk
<1> QED
  BY <1>1, <1>2, <1>3 DEF Outside

\* The invariant of the logs holds at the start.
LEMMA InitLogs == Init => LogInv
BY ConstantsAssumption DEF Init, LogInv, RunningHasLog, SweptHaveEnded,
   BlankRow, NoUnit, UnitLoaded, IdleBulk

\* Every step keeps the invariant of the logs.
LEMMA NextLogs ==
    TypeOK /\ IInv /\ "lost" \notin FaultKinds /\ LogInv /\ [Next]_vars => LogInv'
<1>1. LogInv /\ UNCHANGED vars => LogInv'
  BY DEF vars, LogInv, RunningHasLog, SweptHaveEnded, UnitLoaded
<1> QED
  BY <1>1, StartupLogs, ReconcileLogs, DispatchLogs, LaunchLogs, HandlersLogs, OutsideLogs
     DEF Next, Scheduler

\* A RUNNING task has its log, provided that no answer of systemd-run is lost:
\* no requeue and no deletion, in one statement or two, takes it away.
THEOREM LogsAreKept ==
    ASSUME "lost" \notin FaultKinds
    PROVE  Spec => []RunningHasLog
<1>1. TypeOK /\ IInv /\ LogInv /\ [Next]_vars => LogInv'
  BY NextLogs
<1>2. LogInv => RunningHasLog
  BY DEF LogInv
<1> QED
  BY <1>1, <1>2, InitLogs, TypeCorrect, Invariance, PTL DEF Spec

-----------------------------------------------------------------------------
(* How often a command is started                                          *)

\* start() and the head of the loop keep the invariant of the starts.
LEMMA StartupStarts ==
    TypeOK /\ IInv /\ StartInv /\ (Startup \/ Top) => StartInv'
<1> SUFFICES ASSUME TypeOK, IInv, StartInv, Startup \/ Top PROVE StartInv'
  OBVIOUS
<1> USE DEF TypeOK, ProcessTypeOK, Row, Unit, IInv, OneHolder, CurIsSpawned,
        AbortedIsManaged, TodoIsManaged, PhaseOfPc, StartInv, AtMostOnce, SweptHaveEnded, IdleAbort,
        UnitRunning, UnitLoaded, LoopHoldsLock, AbortHoldsLock, get_managed_tasks,
        ManagedStates, TerminalStates, database, memory, loopVars
<1>1. CASE Boot
  BY <1>1 DEF Boot
<1>2. ASSUME NEW t \in Tasks, SweepUnit(t) PROVE StartInv'
  <2>1. \A u \in Tasks : /\ unit'[u].starts = unit[u].starts
                         /\ unit'[u] = unit[u] \/ (u = t /\ unit'[u].state = "none")
    BY <1>2, UnitsKept DEF SweepUnit
  <2>2. \A u \in Tasks : /\ u # t => task'[u] = task[u]
                         /\ task'[u].state = task[u].state /\ task'[u].log = task[u].log
    BY <1>2, ClearedRow DEF SweepUnit
  <2> QED
    BY <1>2, <2>1, <2>2 DEF SweepUnit, EndSweep, EndIteration
<1>3. ASSUME NEW t \in Tasks, SweepTimeout(t) PROVE StartInv'
  <2>1. \A u \in Tasks : /\ unit'[u].starts = unit[u].starts
                         /\ unit'[u] = unit[u] \/ (u = t /\ unit'[u].state = "none")
    BY <1>3, UnitsKept DEF SweepTimeout
  <2> QED
    BY <1>3, <2>1 DEF SweepTimeout, Raise, Halt, EndIteration, IdleAbort, IdleBulk
<1>4. CASE SweepDone
  BY <1>4 DEF SweepDone, EndSweep, EndIteration
<1>5. CASE Top
  BY <1>5 DEF Top
<1> QED
  BY <1>1, <1>2, <1>3, <1>4, <1>5 DEF Startup

\* A reconciliation keeps the invariant of the starts.
LEMMA ReconcileStarts ==
    TypeOK /\ IInv /\ StartInv /\ Reconcile => StartInv'
<1> SUFFICES ASSUME TypeOK, IInv, StartInv, Reconcile PROVE StartInv'
  OBVIOUS
<1> USE DEF TypeOK, ProcessTypeOK, Row, Unit, IInv, OneHolder, CurIsSpawned,
        AbortedIsManaged, TodoIsManaged, PhaseOfPc, StartInv, AtMostOnce, SweptHaveEnded, IdleAbort,
        UnitRunning, UnitLoaded, LoopHoldsLock, AbortHoldsLock, get_managed_tasks,
        ManagedStates, TerminalStates, database, memory, loopVars
<1>1. CASE RecLock
  BY <1>1 DEF RecLock
<1>2. ASSUME NEW t \in Tasks, ReconcileNoUnit(t) PROVE StartInv'
  BY <1>2 DEF ReconcileNoUnit, ResetStarting, SetFinished, SetState, BlankRow
<1>3. ASSUME NEW t \in Tasks, ReconcileMissing(t) PROVE StartInv'
  BY <1>3 DEF ReconcileMissing, ResetStarting, SetFinished, SetState, BlankRow
<1>4. ASSUME NEW t \in Tasks, ReconcileRunning(t) PROVE StartInv'
  BY <1>4 DEF ReconcileRunning, AdoptRunning, SetRunning, SetState
<1>5. ASSUME NEW t \in Tasks, ReconcileExited(t) PROVE StartInv'
  BY <1>5 DEF ReconcileExited, RecordExit, SetFinished, SetState
<1>6. ASSUME NEW t \in Tasks, ReconcileUnavailable(t) PROVE StartInv'
  BY <1>6 DEF ReconcileUnavailable, StartSweep, TerminalTasks, EndIteration
<1>7. ASSUME NEW t \in Tasks, ReconcileError(t) PROVE StartInv'
  BY <1>7 DEF ReconcileError, Raise, Halt, EndIteration, IdleAbort, IdleBulk
<1>8. CASE ReconcileDone
  BY <1>8 DEF ReconcileDone, StartSweep, TerminalTasks, EndIteration
<1>9. CASE Reap
  <2>1. \A u \in Tasks : /\ unit'[u].starts = unit[u].starts
                         /\ unit'[u] = unit[u] \/ (u = cur /\ unit'[u].state = "none")
    BY <1>9, UnitsKept DEF Reap
  <2>2. \A u \in Tasks : /\ u # cur => task'[u] = task[u]
                         /\ task'[u].state = task[u].state /\ task'[u].log = task[u].log
    BY <1>9, ClearedRow DEF Reap
  <2> QED
    BY <1>9, <2>1, <2>2 DEF Reap, NextRow
<1>10. CASE ReapTimeout
  <2>1. \A u \in Tasks : /\ unit'[u].starts = unit[u].starts
                         /\ unit'[u] = unit[u] \/ (u = cur /\ unit'[u].state = "none")
    BY <1>10, UnitsKept DEF ReapTimeout
  <2> QED
    BY <1>10, <2>1 DEF ReapTimeout, Raise, Halt, EndIteration, IdleAbort, IdleBulk
<1> QED
  BY <1>1, <1>2, <1>3, <1>4, <1>5, <1>6, <1>7, <1>8, <1>9, <1>10
     DEF Reconcile

\* A dispatch up to the claim keeps the invariant of the starts.
LEMMA DispatchStarts ==
    TypeOK /\ IInv /\ StartInv /\ Dispatch => StartInv'
<1> SUFFICES ASSUME TypeOK, IInv, StartInv, Dispatch PROVE StartInv'
  OBVIOUS
<1> USE DEF TypeOK, ProcessTypeOK, Row, Unit, IInv, OneHolder, CurIsSpawned,
        AbortedIsManaged, TodoIsManaged, PhaseOfPc, StartInv, AtMostOnce, SweptHaveEnded, IdleAbort,
        UnitRunning, UnitLoaded, LoopHoldsLock, AbortHoldsLock, get_managed_tasks,
        ManagedStates, TerminalStates, database, memory, loopVars
<1>1. CASE Scan
  BY <1>1 DEF Scan, EndIteration
<1>2. CASE Probe
  BY <1>2 DEF Probe
<1>3. ASSUME NEW t \in Tasks, PickSkip(t) PROVE StartInv'
  BY <1>3 DEF PickSkip
<1>4. ASSUME NEW t \in Tasks, PickBreak(t) PROVE StartInv'
  BY <1>4 DEF PickBreak, EndIteration
<1>5. ASSUME NEW t \in Tasks, PickEnvGone(t) PROVE StartInv'
  BY <1>5 DEF PickEnvGone, FailPending, SetState
<1>6. ASSUME NEW t \in Tasks, PickSpawn(t) PROVE StartInv'
  BY <1>6 DEF PickSpawn
<1>7. CASE PickDone
  BY <1>7 DEF PickDone, EndIteration
<1>8. CASE SpawnRefused
  BY <1>8 DEF SpawnRefused, NextRow
<1>9. CASE SpawnClaim
  BY <1>9 DEF SpawnClaim, MayClaim, Claimed, EndIteration
<1> QED
  BY <1>1, <1>2, <1>3, <1>4, <1>5, <1>6, <1>7, <1>8, <1>9 DEF Dispatch

\* A launch starts no command again.
LEMMA LaunchIsFirst ==
    ASSUME TypeOK, StartInv, pc = "launch", task[cur].state = "STARTING",
           \/ unit' = unit
           \/ unit' = UnitAs(cur, "failed")
           \/ ~UnitLoaded(cur) /\ \E g : unit' = UnitStarted(cur, g)
    PROVE  \A u \in Tasks :
              /\ unit'[u].starts <= 1
              /\ unit'[u].state = "none" =>
                    unit[u].state = "none" /\ unit'[u].starts = unit[u].starts
<1> SUFFICES ASSUME NEW u \in Tasks
             PROVE  /\ unit'[u].starts <= 1
                    /\ unit'[u].state = "none" =>
                          unit[u].state = "none" /\ unit'[u].starts = unit[u].starts
  OBVIOUS
<1>1. unit \in [Tasks -> Unit] /\ cur \in Tasks
  BY DEF TypeOK, ProcessTypeOK
<1>2. unit[u].starts \in Nat /\ unit[u].starts <= 1 /\ unit[cur].starts \in Nat
  BY <1>1 DEF StartInv, AtMostOnce, Unit
<1>3. CASE unit' = unit
  BY <1>2, <1>3
<1>4. CASE unit' = UnitAs(cur, "failed")
  BY <1>1, <1>2, <1>4, UnitsKept
<1>5. CASE ~UnitLoaded(cur) /\ \E g : unit' = UnitStarted(cur, g)
  <2>1. unit[cur].starts = 0
    BY <1>1, <1>2, <1>5 DEF StartInv, TerminalStates
  <2>2. /\ u # cur => unit'[u] = unit[u]
        /\ unit'[cur].starts = 1 /\ unit'[cur].state = "running"
    BY <1>1, <1>5, <2>1 DEF UnitStarted
  <2> QED
    BY <1>2, <2>2
<1> QED
  BY <1>3, <1>4, <1>5

\* A launch keeps the invariant of the starts.
LEMMA LaunchStarts ==
    TypeOK /\ IInv /\ StartInv /\ Launch => StartInv'
<1> SUFFICES ASSUME TypeOK, IInv, StartInv, Launch PROVE StartInv'
  OBVIOUS
<1> USE DEF TypeOK, ProcessTypeOK, Row, Unit, IInv, OneHolder, CurIsSpawned,
        AbortedIsManaged, TodoIsManaged, PhaseOfPc, StartInv, AtMostOnce, SweptHaveEnded, IdleAbort,
        UnitRunning, UnitLoaded, LoopHoldsLock, AbortHoldsLock, get_managed_tasks,
        ManagedStates, TerminalStates, database, memory, loopVars
<1>1. CASE LaunchLoaded
  <2>1. \A u \in Tasks :
          /\ unit'[u].starts <= 1
          /\ unit'[u].state = "none" =>
                unit[u].state = "none" /\ unit'[u].starts = unit[u].starts
    BY <1>1, LaunchIsFirst DEF LaunchLoaded
  <2> QED
    BY <1>1, <2>1 DEF LaunchLoaded
<1>2. CASE LaunchRefused
  BY <1>2 DEF LaunchRefused, SetFinished, SetState, NextRow
<1>3. CASE LaunchUnavailable
  <2>1. \A u \in Tasks :
          /\ unit'[u].starts <= 1
          /\ unit'[u].state = "none" =>
                unit[u].state = "none" /\ unit'[u].starts = unit[u].starts
    BY <1>3, LaunchIsFirst DEF LaunchUnavailable
  <2> QED
    BY <1>3, <2>1 DEF LaunchUnavailable, ResetStarting, BlankRow, NextRow
<1>4. CASE LaunchUnverified
  <2>1. \A u \in Tasks :
          /\ unit'[u].starts <= 1
          /\ unit'[u].state = "none" =>
                unit[u].state = "none" /\ unit'[u].starts = unit[u].starts
    BY <1>4, LaunchIsFirst DEF LaunchUnverified
  <2> QED
    BY <1>4, <2>1 DEF LaunchUnverified, EndIteration
<1>5. CASE ApplyRunning
  BY <1>5 DEF ApplyRunning, AdoptRunning, SetRunning, SetState, NextRow
<1>6. CASE ApplyExited
  BY <1>6 DEF ApplyExited, RecordExit, SetFinished, SetState
<1> QED
  BY <1>1, <1>2, <1>3, <1>4, <1>5, <1>6 DEF Launch

\* The handlers keep the invariant of the starts.
LEMMA HandlersStarts ==
    TypeOK /\ IInv /\ "abort" \notin Requests /\ StartInv /\ Handlers => StartInv'
<1> SUFFICES ASSUME TypeOK, IInv, "abort" \notin Requests, StartInv, Handlers PROVE StartInv'
  OBVIOUS
<1> USE DEF TypeOK, ProcessTypeOK, Row, Unit, IInv, OneHolder, CurIsSpawned,
        AbortedIsManaged, TodoIsManaged, PhaseOfPc, StartInv, AtMostOnce, SweptHaveEnded, IdleAbort,
        UnitRunning, UnitLoaded, LoopHoldsLock, AbortHoldsLock, get_managed_tasks,
        ManagedStates, TerminalStates, database, memory, loopVars
<1>1. ASSUME NEW t \in Tasks, Submit(t) PROVE StartInv'
  BY <1>1 DEF Submit, BlankRow
<1>2. ASSUME NEW t \in Tasks, AbortPending(t) PROVE StartInv'
  BY <1>2 DEF AbortPending, Request, LockFree, SetAborted, SetState
<1>3. ASSUME NEW t \in Tasks, AbortStart(t) PROVE StartInv'
  BY <1>3 DEF AbortStart, Request, LockFree
<1>4. ASSUME NEW t \in Tasks, DeleteOne(t) PROVE StartInv'
  BY <1>4 DEF DeleteOne, Deleted, BlankRow
<1>5. CASE SubmitRejected
  BY <1>5 DEF SubmitRejected
<1>6. CASE AbortStop
  BY <1>6 DEF AbortStop, Stopped, UnitGone, UnitAs, NoUnit, IdleAbort
<1>7. CASE AbortCommit
  BY <1>7 DEF AbortCommit, SetAborted, SetState, IdleAbort
<1>8. CASE AbortClean
  BY <1>8 DEF AbortClean, UnitGone, NoUnit, ClearUnit, IdleAbort
<1>9. CASE AbortCleanTimeout
  BY <1>9 DEF AbortCleanTimeout, UnitGone, NoUnit, IdleAbort
<1>10. ASSUME NEW g \in Gpus, SetGpuScheduling(g) PROVE StartInv'
  BY <1>10 DEF SetGpuScheduling
<1>11. ASSUME NEW scope \in Scopes, DeleteAllSelect(scope) PROVE StartInv'
  BY <1>11 DEF DeleteAllSelect, TerminalTasks
<1>12. CASE DeleteAllDelete
  BY <1>12 DEF DeleteAllDelete, TerminalTasks, Deleted, BlankRow, IdleBulk
<1> QED
  BY <1>1, <1>2, <1>3, <1>4, <1>5, <1>6, <1>7, <1>8, <1>9, <1>10, <1>11, <1>12
     DEF Handlers, AbortSteps

\* Scripts, crashes and reboots keep the invariant of the starts.
LEMMA OutsideStarts ==
    TypeOK /\ IInv /\ "reboot" \notin FaultKinds /\ StartInv /\ Outside => StartInv'
<1> SUFFICES ASSUME TypeOK, IInv, "reboot" \notin FaultKinds, StartInv, Outside PROVE StartInv'
  OBVIOUS
<1> USE DEF TypeOK, ProcessTypeOK, Row, Unit, IInv, OneHolder, CurIsSpawned,
        AbortedIsManaged, TodoIsManaged, PhaseOfPc, StartInv, AtMostOnce, SweptHaveEnded, IdleAbort,
        UnitRunning, UnitLoaded, LoopHoldsLock, AbortHoldsLock, get_managed_tasks,
        ManagedStates, TerminalStates, database, memory, loopVars
<1>1. ASSUME NEW t \in Tasks, UnitExit(t) PROVE StartInv'
  BY <1>1 DEF UnitExit, UnitAs
<1>2. CASE Crash
  BY <1>2 DEF Crash, Halt, IdleAbort, IdleBulk
<1>3. CASE Reboot
  BY <1>3 DEF Reboot, Fault
<1> QED
  BY <1>1, <1>2, <1>3 DEF Outside

\* The invariant of the starts holds at the beginning.
LEMMA InitStarts == Init => StartInv
BY DEF Init, StartInv, AtMostOnce, SweptHaveEnded, NoUnit, UnitLoaded

\* Every step keeps the invariant of the starts.
LEMMA NextStarts ==
    ASSUME "abort" \notin Requests, "reboot" \notin FaultKinds
    PROVE  TypeOK /\ IInv /\ StartInv /\ [Next]_vars => StartInv'
<1>1. StartInv /\ UNCHANGED vars => StartInv'
  BY DEF vars, StartInv, AtMostOnce, SweptHaveEnded, UnitLoaded
<1> QED
  BY <1>1, StartupStarts, ReconcileStarts, DispatchStarts, LaunchStarts, HandlersStarts,
     OutsideStarts DEF Next, Scheduler

\* A command is started at most once, provided that nothing is aborted and the
\* host stays up: answers may get lost, and the application may die, at any point.
THEOREM StartedAtMostOnce ==
    ASSUME "abort" \notin Requests, "reboot" \notin FaultKinds
    PROVE  Spec => []AtMostOnce
<1>1. TypeOK /\ IInv /\ StartInv /\ [Next]_vars => StartInv'
  BY NextStarts
<1>2. StartInv => AtMostOnce
  BY DEF StartInv
<1> QED
  BY <1>1, <1>2, InitStarts, TypeCorrect, Invariance, PTL DEF Spec
=============================================================================
