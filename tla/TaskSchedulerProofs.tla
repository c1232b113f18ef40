------------------------ MODULE TaskSchedulerProofs ------------------------
(***************************************************************************)
(* Theorems about TaskScheduler, for every set of tasks and of GPUs and    *)
(* every bound on the number of faults.                                    *)
(***************************************************************************)
EXTENDS TaskScheduler, FiniteSetTheorems, TLAPS

-----------------------------------------------------------------------------
(* Type correctness                                                        *)

\* The types hold at the start.
LEMMA InitType == Init => TypeOK
<1> USE ConstantsAssumption DEF ConstantsAssumption
<1> SUFFICES ASSUME Init PROVE TypeOK
  OBVIOUS
<1>1. PICK owner \in [Legacy -> Gpus] :
        task = [t \in Tasks |->
                  IF t \in Legacy
                  THEN [state |-> "RUNNING", gpu |-> owner[t], unit |-> FALSE, log |-> TRUE]
                  ELSE BlankRow("NONE")]
  BY DEF Init
<1>2. task \in [Tasks -> Row]
  BY <1>1 DEF Row, BlankRow, TaskStates, ManagedStates, TerminalStates, GpuOrNone
<1>3. unit \in [Tasks -> Unit]
  BY DEF Init, Unit, NoUnit, GpuOrNone
<1>4. job \in [Tasks -> Job]
  BY DEF Init, Job, GpuOrNone
<1>5. /\ abort \in [at : {"idle", "stop", "commit", "clean"}, task : Tasks \cup {NoTask}]
      /\ bulk \in [on : BOOLEAN, scope : SUBSET Tasks, rows : SUBSET Tasks]
  BY DEF Init, IdleAbort, IdleBulk
<1>6. logs \subseteq Tasks /\ faults \in 0..MaxFaults
  BY DEF Init
<1> QED
  BY <1>2, <1>3, <1>4, <1>5, <1>6 DEF Init, TypeOK, ProcessTypeOK, GpuOrNone

\* A fault that occurs stays within the bound.
LEMMA FaultsBounded ==
    ASSUME NEW kind, TypeOK, Fault(kind)
    PROVE  faults' \in 0..MaxFaults
BY ConstantsAssumption DEF Fault, TypeOK, ConstantsAssumption

\* The UPDATE statements keep the rows rows, the systemd commands the units units.
LEMMA RowTypes ==
    ASSUME task \in [Tasks -> Row], NEW t
    PROVE  /\ \A s \in TaskStates : SetState(t, s) \in [Tasks -> Row]
           /\ \A g \in GpuOrNone : Claimed(t, g) \in [Tasks -> Row]
           /\ ResetStarting(t) \in [Tasks -> Row]
           /\ \A end \in TerminalStates : SetFinished(t, end) \in [Tasks -> Row]
           /\ SetRunning(t) \in [Tasks -> Row]
           /\ SetAborted(t) \in [Tasks -> Row]
           /\ FailPending(t) \in [Tasks -> Row]
           /\ ClearUnit(t) \in [Tasks -> Row]
           /\ \A S \in SUBSET Tasks : Deleted(S) \in [Tasks -> Row]
<1>1. ASSUME NEW s \in TaskStates PROVE SetState(t, s) \in [Tasks -> Row]
  BY DEF SetState, Row
<1>2. ASSUME NEW g \in GpuOrNone PROVE Claimed(t, g) \in [Tasks -> Row]
  BY DEF Claimed, Row, TaskStates, ManagedStates
<1>3. \A s \in TaskStates : BlankRow(s) \in Row
  BY DEF BlankRow, Row, GpuOrNone
<1>4. ResetStarting(t) \in [Tasks -> Row]
  BY <1>3 DEF ResetStarting, TaskStates
<1>5. \A S \in SUBSET Tasks : Deleted(S) \in [Tasks -> Row]
  BY <1>3 DEF Deleted, TaskStates
<1>6. ClearUnit(t) \in [Tasks -> Row]
  BY DEF ClearUnit, Row
<1> QED
  BY <1>1, <1>2, <1>4, <1>5, <1>6
     DEF SetFinished, SetRunning, SetAborted, FailPending, TaskStates, ManagedStates,
         TerminalStates

\* What systemd does to a unit keeps its type.
LEMMA UnitTypes ==
    ASSUME unit \in [Tasks -> Unit], NEW t
    PROVE  /\ UnitGone(t) \in [Tasks -> Unit]
           /\ \A s \in {"running", "succeeded", "failed"} : UnitAs(t, s) \in [Tasks -> Unit]
           /\ \A g \in GpuOrNone : UnitStarted(t, g) \in [Tasks -> Unit]
           /\ Stopped(t) \in [Tasks -> Unit]
<1>1. UnitGone(t) \in [Tasks -> Unit]
  BY DEF UnitGone, NoUnit, Unit, GpuOrNone
<1>2. ASSUME NEW s \in {"running", "succeeded", "failed"} PROVE UnitAs(t, s) \in [Tasks -> Unit]
  BY DEF UnitAs, Unit
<1>3. ASSUME NEW g \in GpuOrNone PROVE UnitStarted(t, g) \in [Tasks -> Unit]
  <2>1. CASE t \in Tasks
    BY <2>1 DEF UnitStarted, Unit
  <2>2. CASE t \notin Tasks
    BY <2>2 DEF UnitStarted
  <2> QED
    BY <2>1, <2>2
<1> QED
  BY <1>1, <1>2, <1>3 DEF Stopped

\* The same for the row and the unit of the task that is being spawned.
LEMMA SpawnTypes ==
    ASSUME task \in [Tasks -> Row], unit \in [Tasks -> Unit], curGpu \in GpuOrNone
    PROVE  /\ SpawnClaim => task' \in [Tasks -> Row]
           /\ LaunchUnavailable => task' \in [Tasks -> Row]
           /\ LaunchLoaded \/ LaunchUnavailable \/ LaunchUnverified =>
                unit' \in [Tasks -> Unit]
<1>1. UnitStarted(cur, curGpu) \in [Tasks -> Unit] /\ UnitAs(cur, "failed") \in [Tasks -> Unit]
  BY UnitTypes
<1>2. Claimed(cur, curGpu) \in [Tasks -> Row] /\ ResetStarting(cur) \in [Tasks -> Row]
  BY RowTypes
<1> QED
  BY <1>1, <1>2 DEF SpawnClaim, LaunchLoaded, LaunchUnavailable, LaunchUnverified

\* A crash or an exception leaves the memory of the process in its type.
LEMMA RaiseType ==
    ASSUME TypeOK
    PROVE  /\ Halt => ProcessTypeOK'
           /\ Raise => ProcessTypeOK'
<1>1. ASSUME Halt PROVE ProcessTypeOK'
  <2>1. /\ abort' \in [at : {"idle", "stop", "commit", "clean"}, task : Tasks \cup {NoTask}]
        /\ bulk' \in [on : BOOLEAN, scope : SUBSET Tasks, rows : SUBSET Tasks]
    BY <1>1 DEF Halt, IdleAbort, IdleBulk
  <2> QED
    BY <1>1, <2>1 DEF Halt, ProcessTypeOK, GpuOrNone
<1>2. EndIteration /\ UNCHANGED <<active_tasks, disabled_gpu_ids, supervisor_available,
                                 abort, bulk>> => ProcessTypeOK'
  BY DEF EndIteration, TypeOK, ProcessTypeOK, GpuOrNone
<1> QED
  BY <1>1, <1>2 DEF Raise

\* start() and the head of the loop keep the types.
LEMMA StartupType == TypeOK /\ (Startup \/ Top) => TypeOK'
<1> SUFFICES ASSUME TypeOK, Startup \/ Top PROVE TypeOK'
  OBVIOUS
<1> USE DEF TypeOK, ProcessTypeOK, GpuOrNone, NoFault, database, memory, loopVars
<1>1. CASE Boot
  <2>1. faults' \in 0..MaxFaults
    BY <1>1, FaultsBounded DEF Boot
  <2> QED
    BY <1>1, <2>1 DEF Boot
<1>2. ASSUME NEW t \in Tasks, SweepUnit(t) PROVE TypeOK'
  <2>1. faults' \in 0..MaxFaults
    BY <1>2, FaultsBounded DEF SweepUnit
  <2> QED
    BY <1>2, RowTypes, UnitTypes, <2>1 DEF SweepUnit, EndSweep, EndIteration
<1>3. ASSUME NEW t \in Tasks, SweepTimeout(t) PROVE TypeOK'
  <2>1. faults' \in 0..MaxFaults
    BY <1>3, FaultsBounded DEF SweepTimeout
  <2> QED
    BY <1>3, UnitTypes, <2>1, RaiseType DEF SweepTimeout
<1>4. CASE SweepDone
  BY <1>4 DEF SweepDone, EndSweep, EndIteration
<1>5. CASE Top
  <2>1. faults' \in 0..MaxFaults
    BY <1>5, FaultsBounded DEF Top
  <2> QED
    BY <1>5, <2>1 DEF Top
<1> QED
  BY <1>1, <1>2, <1>3, <1>4, <1>5 DEF Startup

\* A reconciliation keeps the types.
LEMMA ReconcileType == TypeOK /\ Reconcile => TypeOK'
<1> SUFFICES ASSUME TypeOK, Reconcile PROVE TypeOK'
  OBVIOUS
<1> USE DEF TypeOK, ProcessTypeOK, GpuOrNone, NoFault, database, memory, loopVars
<1>1. CASE RecLock
  BY <1>1 DEF RecLock, get_managed_tasks
<1>2. ASSUME NEW t \in Tasks, ReconcileNoUnit(t) PROVE TypeOK'
  BY <1>2, RowTypes DEF ReconcileNoUnit, TerminalStates, Unregister
<1>3. ASSUME NEW t \in Tasks, ReconcileMissing(t) PROVE TypeOK'
  BY <1>3, RowTypes DEF ReconcileMissing, TerminalStates, Unregister
<1>4. ASSUME NEW t \in Tasks, ReconcileRunning(t) PROVE TypeOK'
  BY <1>4, RowTypes DEF ReconcileRunning, AdoptRunning, Register, Row
<1>5. ASSUME NEW t \in Tasks, ReconcileExited(t) PROVE TypeOK'
  BY <1>5, RowTypes DEF ReconcileExited, RecordExit, TerminalStates, Unregister
<1>6. ASSUME NEW t \in Tasks, ReconcileUnavailable(t) PROVE TypeOK'
  <2>1. faults' \in 0..MaxFaults
    BY <1>6, FaultsBounded DEF ReconcileUnavailable
  <2> QED
    BY <1>6, <2>1 DEF ReconcileUnavailable, StartSweep, TerminalTasks, EndIteration
<1>7. ASSUME NEW t \in Tasks, ReconcileError(t) PROVE TypeOK'
  <2>1. faults' \in 0..MaxFaults
    BY <1>7, FaultsBounded DEF ReconcileError
  <2> QED
    BY <1>7, <2>1, RaiseType DEF ReconcileError
<1>8. CASE ReconcileDone
  BY <1>8 DEF ReconcileDone, StartSweep, TerminalTasks, EndIteration
<1>9. CASE Reap
  <2>1. faults' \in 0..MaxFaults
    BY <1>9, FaultsBounded DEF Reap
  <2> QED
    BY <1>9, RowTypes, UnitTypes, <2>1 DEF Reap, NextRow
<1>10. CASE ReapTimeout
  <2>1. faults' \in 0..MaxFaults
    BY <1>10, FaultsBounded DEF ReapTimeout
  <2> QED
    BY <1>10, UnitTypes, <2>1, RaiseType DEF ReapTimeout
<1> QED
  BY <1>1, <1>2, <1>3, <1>4, <1>5, <1>6, <1>7, <1>8, <1>9, <1>10 DEF Reconcile

\* A dispatch up to the claim of a row keeps the types.
LEMMA DispatchType == TypeOK /\ Dispatch => TypeOK'
<1> SUFFICES ASSUME TypeOK, Dispatch PROVE TypeOK'
  OBVIOUS
<1> USE DEF TypeOK, ProcessTypeOK, GpuOrNone, NoFault, database, memory, loopVars
<1>1. CASE Scan
  BY <1>1 DEF Scan, get_pending_tasks, EndIteration
<1>2. CASE Probe
  BY <1>2 DEF Probe, Lowest
<1>3. ASSUME NEW t \in Tasks, PickSkip(t) PROVE TypeOK'
  BY <1>3 DEF PickSkip
<1>4. ASSUME NEW t \in Tasks, PickBreak(t) PROVE TypeOK'
  BY <1>4 DEF PickBreak, EndIteration
<1>5. ASSUME NEW t \in Tasks, PickEnvGone(t) PROVE TypeOK'
  BY <1>5, RowTypes DEF PickEnvGone
<1>6. ASSUME NEW t \in Tasks, PickSpawn(t) PROVE TypeOK'
  BY <1>6 DEF PickSpawn, Choice, Lowest
<1>7. CASE PickDone
  BY <1>7 DEF PickDone, EndIteration
<1>8. CASE SpawnRefused
  BY <1>8 DEF SpawnRefused, NextRow
<1>9. CASE SpawnClaim
  <2>1. faults' \in 0..MaxFaults
    BY <1>9, FaultsBounded DEF SpawnClaim
  <2>2. task' \in [Tasks -> Row]
    BY <1>9, SpawnTypes
  <2>3. logs' \subseteq Tasks
    BY <1>9 DEF SpawnClaim
  <2>4. ProcessTypeOK'
    BY <1>9 DEF SpawnClaim, EndIteration
  <2> QED
    BY <1>9, <2>1, <2>2, <2>3, <2>4 DEF SpawnClaim
<1> QED
  BY <1>1, <1>2, <1>3, <1>4, <1>5, <1>6, <1>7, <1>8, <1>9 DEF Dispatch

\* A launch after the claim of its row keeps the types.
LEMMA LaunchType == TypeOK /\ Launch => TypeOK'
<1> SUFFICES ASSUME TypeOK, Launch PROVE TypeOK'
  OBVIOUS
<1> USE DEF TypeOK, ProcessTypeOK, GpuOrNone, NoFault, database, memory, loopVars
<1>1. CASE LaunchLoaded
  <2>1. unit' \in [Tasks -> Unit]
    BY <1>1, SpawnTypes
  <2> QED
    BY <1>1, <2>1 DEF LaunchLoaded
<1>2. CASE LaunchRefused
  BY <1>2, RowTypes DEF LaunchRefused, TerminalStates, NextRow
<1>3. CASE LaunchUnavailable
  <2>1. faults' \in 0..MaxFaults
    BY <1>3, FaultsBounded DEF LaunchUnavailable
  <2>2. task' \in [Tasks -> Row] /\ unit' \in [Tasks -> Unit]
    BY <1>3, SpawnTypes
  <2> QED
    BY <1>3, <2>1, <2>2 DEF LaunchUnavailable, NextRow
<1>4. CASE LaunchUnverified
  <2>1. faults' \in 0..MaxFaults
    BY <1>4, FaultsBounded DEF LaunchUnverified
  <2>2. unit' \in [Tasks -> Unit]
    BY <1>4, SpawnTypes
  <2> QED
    BY <1>4, <2>1, <2>2 DEF LaunchUnverified, EndIteration
<1>5. CASE ApplyRunning
  BY <1>5, RowTypes DEF ApplyRunning, AdoptRunning, Register, NextRow, Row
<1>6. CASE ApplyExited
  BY <1>6, RowTypes DEF ApplyExited, RecordExit, TerminalStates, Unregister
<1> QED
  BY <1>1, <1>2, <1>3, <1>4, <1>5, <1>6 DEF Launch

\* The handlers keep the types.
LEMMA HandlersType == TypeOK /\ Handlers => TypeOK'
<1> SUFFICES ASSUME TypeOK, Handlers PROVE TypeOK'
  OBVIOUS
<1> USE DEF TypeOK, ProcessTypeOK, GpuOrNone, NoFault, database, memory, loopVars
<1>1. ASSUME NEW t \in Tasks, Submit(t) PROVE TypeOK'
  BY <1>1, ConstantsAssumption DEF Submit, BlankRow, Row, TaskStates, Job,
     ConstantsAssumption
<1>2. ASSUME NEW t \in Tasks, AbortPending(t) PROVE TypeOK'
  BY <1>2, RowTypes DEF AbortPending, Unregister
<1>3. ASSUME NEW t \in Tasks, AbortStart(t) PROVE TypeOK'
  <2>1. faults' \in 0..MaxFaults
    BY <1>3, FaultsBounded DEF AbortStart
  <2>2. abort' \in [at : {"idle", "stop", "commit", "clean"}, task : Tasks \cup {NoTask}]
    BY <1>3 DEF AbortStart
  <2>3. /\ UNCHANGED <<loopVars, active_tasks, disabled_gpu_ids, bulk>>
        /\ supervisor_available' \in BOOLEAN
    BY <1>3 DEF AbortStart
  <2>4. ProcessTypeOK'
    BY <2>2, <2>3
  <2> QED
    BY <1>3, <2>1, <2>4 DEF AbortStart
<1>4. ASSUME NEW t \in Tasks, DeleteOne(t) PROVE TypeOK'
  <2>1. faults' \in 0..MaxFaults
    BY <1>4, FaultsBounded DEF DeleteOne
  <2> QED
    BY <1>4, RowTypes, <2>1 DEF DeleteOne
<1>5. CASE SubmitRejected
  <2>1. faults' \in 0..MaxFaults
    BY <1>5, FaultsBounded DEF SubmitRejected
  <2>2. /\ UNCHANGED <<loopVars, active_tasks, disabled_gpu_ids, abort, bulk>>
        /\ supervisor_available' = FALSE
    BY <1>5 DEF SubmitRejected
  <2>3. ProcessTypeOK'
    BY <2>2
  <2> QED
    BY <1>5, <2>1, <2>3 DEF SubmitRejected
<1>6. CASE AbortStop
  <2>1. faults' \in 0..MaxFaults
    BY <1>6, FaultsBounded DEF AbortStop
  <2> QED
    BY <1>6, UnitTypes, <2>1 DEF AbortStop, IdleAbort
<1>7. CASE AbortCommit
  BY <1>7, RowTypes DEF AbortCommit, IdleAbort, Unregister
<1>8. CASE AbortClean
  <2>1. faults' \in 0..MaxFaults
    BY <1>8, FaultsBounded DEF AbortClean
  <2>2. task' \in [Tasks -> Row] /\ unit' \in [Tasks -> Unit]
    BY <1>8, RowTypes, UnitTypes DEF AbortClean
  <2>3. active_tasks' \in [Tasks -> GpuOrNone]
    BY <1>8 DEF AbortClean, Unregister
  <2> QED
    BY <1>8, <2>1, <2>2, <2>3 DEF AbortClean, IdleAbort
<1>9. CASE AbortCleanTimeout
  <2>1. faults' \in 0..MaxFaults
    BY <1>9, FaultsBounded DEF AbortCleanTimeout
  <2> QED
    BY <1>9, UnitTypes, <2>1 DEF AbortCleanTimeout, IdleAbort
<1>10. ASSUME NEW g \in Gpus, SetGpuScheduling(g) PROVE TypeOK'
  BY <1>10 DEF SetGpuScheduling
<1>11. ASSUME NEW scope \in Scopes, DeleteAllSelect(scope) PROVE TypeOK'
  BY <1>11, ConstantsAssumption DEF DeleteAllSelect, TerminalTasks, ConstantsAssumption
<1>12. CASE DeleteAllDelete
  <2>1. task' \in [Tasks -> Row]
    BY <1>12, RowTypes DEF DeleteAllDelete, TerminalTasks
  <2>2. bulk' \in [on : BOOLEAN, scope : SUBSET Tasks, rows : SUBSET Tasks]
    BY <1>12 DEF DeleteAllDelete, IdleBulk
  <2>3. logs' \subseteq Tasks
    BY <1>12 DEF DeleteAllDelete
  <2>4. ProcessTypeOK'
    BY <1>12, <2>2 DEF DeleteAllDelete
  <2> QED
    BY <1>12, <2>1, <2>2, <2>3, <2>4 DEF DeleteAllDelete
<1> QED
  BY <1>1, <1>2, <1>3, <1>4, <1>5, <1>6, <1>7, <1>8, <1>9, <1>10, <1>11, <1>12
     DEF Handlers, AbortSteps

\* Scripts, crashes and reboots keep the types.
LEMMA OutsideType == TypeOK /\ Outside => TypeOK'
<1> SUFFICES ASSUME TypeOK, Outside PROVE TypeOK'
  OBVIOUS
<1> USE DEF TypeOK, ProcessTypeOK, GpuOrNone, NoFault, database, memory, loopVars
<1>1. ASSUME NEW t \in Tasks, UnitExit(t) PROVE TypeOK'
  BY <1>1, UnitTypes DEF UnitExit
<1>2. CASE Crash
  <2>1. faults' \in 0..MaxFaults
    BY <1>2, FaultsBounded DEF Crash
  <2> QED
    BY <1>2, <2>1, RaiseType DEF Crash
<1>3. CASE Reboot
  <2>1. faults' \in 0..MaxFaults
    BY <1>3, FaultsBounded DEF Reboot
  <2> QED
    BY <1>3, <2>1, RaiseType DEF Reboot, NoUnit, Unit
<1> QED
  BY <1>1, <1>2, <1>3 DEF Outside

\* Every variable stays in its type, whatever the numbers of tasks, GPUs and faults.
THEOREM TypeCorrect == Spec => []TypeOK
<1>1. TypeOK /\ UNCHANGED vars => TypeOK'
  BY DEF TypeOK, ProcessTypeOK, vars
<1>2. TypeOK /\ [Next]_vars => TypeOK'
  BY <1>1, StartupType, ReconcileType, DispatchType, LaunchType, HandlersType,
     OutsideType DEF Next, Scheduler
<1> QED
  BY InitType, <1>2, PTL DEF Spec

-----------------------------------------------------------------------------
(* Exclusive ownership of the GPUs by the rows                               *)

\* The invariant holds at the start.
LEMMA InitInv == Init => IInv
<1> SUFFICES ASSUME Init PROVE IInv
  OBVIOUS
<1>1. PICK owner \in [Legacy -> Gpus] :
        /\ \A t, u \in Legacy : owner[t] = owner[u] => t = u
        /\ task = [t \in Tasks |->
                     IF t \in Legacy
                     THEN [state |-> "RUNNING", gpu |-> owner[t], unit |-> FALSE, log |-> TRUE]
                     ELSE BlankRow("NONE")]
  BY DEF Init
<1>2. \A t \in get_managed_tasks : t \in Legacy /\ task[t].gpu = owner[t]
  BY <1>1 DEF get_managed_tasks, ManagedStates, BlankRow
<1>3. \A t, u \in Legacy : owner[t] = owner[u] => t = u
  BY <1>1
<1>4. RowsExclusive
  BY <1>2, <1>3 DEF RowsExclusive
<1> QED
  BY <1>4 DEF Init, IInv, OneHolder, PhaseOfPc, CurIsSpawned, AbortedIsManaged, TodoIsManaged,
              ManagedAreRegistered, SnapshotIsFree, LoopHoldsLock, AbortHoldsLock, IdleAbort

\* Clearing runner_unit changes neither a state nor a GPU.
LEMMA ClearUnitKeeps ==
    ASSUME task \in [Tasks -> Row], NEW t, NEW u \in Tasks
    PROVE  /\ ClearUnit(t)[u].state = task[u].state
           /\ ClearUnit(t)[u].gpu = task[u].gpu
           /\ ClearUnit(t)[u].unit => task[u].unit
BY DEF ClearUnit, Row

\* start() and the head of the loop keep the invariant.
LEMMA StartupInv == TypeOK /\ IInv /\ (Startup \/ Top) => IInv'
<1> SUFFICES ASSUME TypeOK, IInv, Startup \/ Top PROVE IInv'
  OBVIOUS
<1> USE DEF TypeOK, ProcessTypeOK, Row, IInv, OneHolder, PhaseOfPc, CurIsSpawned,
        AbortedIsManaged, TodoIsManaged, ManagedAreRegistered, SnapshotIsFree,
        RowsExclusive, LoopHoldsLock, AbortHoldsLock, Unsettled, get_managed_tasks,
        ManagedStates, TerminalStates, database, memory, loopVars
<1>1. CASE Boot
  BY <1>1 DEF Boot
<1>2. ASSUME NEW t \in Tasks, SweepUnit(t) PROVE IInv'
  BY <1>2 DEF SweepUnit, ClearUnit, EndSweep, EndIteration
<1>3. ASSUME NEW t \in Tasks, SweepTimeout(t) PROVE IInv'
  BY <1>3 DEF SweepTimeout, Raise, Halt, EndIteration, IdleAbort
<1>4. CASE SweepDone
  BY <1>4 DEF SweepDone, EndSweep, EndIteration
<1>5. CASE Top
  BY <1>5 DEF Top
<1> QED
  BY <1>1, <1>2, <1>3, <1>4, <1>5 DEF Startup

\* A reconciliation keeps the invariant.
LEMMA ReconcileInv == TypeOK /\ IInv /\ Reconcile => IInv'
<1> SUFFICES ASSUME TypeOK, IInv, Reconcile PROVE IInv'
  OBVIOUS
<1> USE DEF TypeOK, ProcessTypeOK, Row, IInv, OneHolder, PhaseOfPc, CurIsSpawned,
        AbortedIsManaged, TodoIsManaged, ManagedAreRegistered, SnapshotIsFree,
        RowsExclusive, LoopHoldsLock, AbortHoldsLock, Unsettled, get_managed_tasks,
        ManagedStates, TerminalStates, database, memory, loopVars
<1>1. CASE RecLock
  BY <1>1 DEF RecLock
<1>2. ASSUME NEW t \in Tasks, ReconcileNoUnit(t) PROVE IInv'
  BY <1>2 DEF ReconcileNoUnit, ResetStarting, SetFinished, SetState, BlankRow,
     Unregister
<1>3. ASSUME NEW t \in Tasks, ReconcileMissing(t) PROVE IInv'
  <2> USE <1>3 DEF ReconcileMissing, ResetStarting, SetFinished, SetState, BlankRow,
       Unregister
  <2>1. OneHolder'  OBVIOUS
  <2>2. PhaseOfPc'  OBVIOUS
  <2>3. CurIsSpawned'  OBVIOUS
  <2>4. AbortedIsManaged'  OBVIOUS
  <2>5. TodoIsManaged'  OBVIOUS
  <2>6. ManagedAreRegistered'  OBVIOUS
  <2>7. SnapshotIsFree'  OBVIOUS
  <2>8. RowsExclusive'  OBVIOUS
  <2> QED
    BY <2>1, <2>2, <2>3, <2>4, <2>5, <2>6, <2>7, <2>8 DEF IInv
<1>4. ASSUME NEW t \in Tasks, ReconcileRunning(t) PROVE IInv'
  BY <1>4 DEF ReconcileRunning, AdoptRunning, SetRunning, SetState, Register
<1>5. ASSUME NEW t \in Tasks, ReconcileExited(t) PROVE IInv'
  <2> USE <1>5 DEF ReconcileExited, RecordExit, SetFinished, SetState, Unregister
  <2>1. OneHolder'  OBVIOUS
  <2>2. PhaseOfPc'  OBVIOUS
  <2>3. CurIsSpawned'  OBVIOUS
  <2>4. AbortedIsManaged'  OBVIOUS
  <2>5. TodoIsManaged'  OBVIOUS
  <2>6. ManagedAreRegistered'  OBVIOUS
  <2>7. SnapshotIsFree'  OBVIOUS
  <2>8. RowsExclusive'  OBVIOUS
  <2> QED
    BY <2>1, <2>2, <2>3, <2>4, <2>5, <2>6, <2>7, <2>8 DEF IInv
<1>6. ASSUME NEW t \in Tasks, ReconcileUnavailable(t) PROVE IInv'
  BY <1>6 DEF ReconcileUnavailable, StartSweep, EndIteration
<1>7. ASSUME NEW t \in Tasks, ReconcileError(t) PROVE IInv'
  BY <1>7 DEF ReconcileError, Raise, Halt, EndIteration, IdleAbort
<1>8. CASE ReconcileDone
  BY <1>8 DEF ReconcileDone, StartSweep, EndIteration
<1>9. CASE Reap
  <2>0. \A u \in Tasks : task'[u].state = task[u].state /\ task'[u].gpu = task[u].gpu
    BY <1>9, ClearUnitKeeps DEF Reap
  <2> USE <1>9, <2>0 DEF Reap, NextRow
  <2>1. OneHolder'  OBVIOUS
  <2>2. PhaseOfPc'  OBVIOUS
  <2>3. CurIsSpawned'  OBVIOUS
  <2>4. AbortedIsManaged'  OBVIOUS
  <2>5. TodoIsManaged'  OBVIOUS
  <2>6. ManagedAreRegistered'  OBVIOUS
  <2>7. SnapshotIsFree'  OBVIOUS
  <2>8. RowsExclusive'  OBVIOUS
  <2> QED
    BY <2>1, <2>2, <2>3, <2>4, <2>5, <2>6, <2>7, <2>8 DEF IInv
<1>10. CASE ReapTimeout
  BY <1>10 DEF ReapTimeout, Raise, Halt, EndIteration, IdleAbort
<1> QED
  BY <1>1, <1>2, <1>3, <1>4, <1>5, <1>6, <1>7, <1>8, <1>9, <1>10 DEF Reconcile

\* A dispatch up to the claim of a row keeps the invariant.
LEMMA DispatchInv == TypeOK /\ IInv /\ Dispatch => IInv'
<1> SUFFICES ASSUME TypeOK, IInv, Dispatch PROVE IInv'
  OBVIOUS
<1> USE DEF TypeOK, ProcessTypeOK, Row, IInv, OneHolder, PhaseOfPc, CurIsSpawned,
        AbortedIsManaged, TodoIsManaged, ManagedAreRegistered, SnapshotIsFree,
        RowsExclusive, LoopHoldsLock, AbortHoldsLock, Unsettled, get_managed_tasks,
        ManagedStates, TerminalStates, database, memory, loopVars
<1>1. CASE Scan
  <2> USE <1>1 DEF Scan, EndIteration
  <2>1. OneHolder'  OBVIOUS
  <2>2. PhaseOfPc'  OBVIOUS
  <2>3. CurIsSpawned'  OBVIOUS
  <2>4. AbortedIsManaged'  OBVIOUS
  <2>5. TodoIsManaged'  OBVIOUS
  <2>6. ManagedAreRegistered'  OBVIOUS
  <2>7. SnapshotIsFree'  OBVIOUS
  <2>8. RowsExclusive'  OBVIOUS
  <2> QED
    BY <2>1, <2>2, <2>3, <2>4, <2>5, <2>6, <2>7, <2>8 DEF IInv
<1>2. CASE Probe
  BY <1>2 DEF Probe, Lowest, Registered
<1>3. ASSUME NEW t \in Tasks, PickSkip(t) PROVE IInv'
  BY <1>3 DEF PickSkip
<1>4. ASSUME NEW t \in Tasks, PickBreak(t) PROVE IInv'
  BY <1>4 DEF PickBreak, EndIteration
<1>5. ASSUME NEW t \in Tasks, PickEnvGone(t) PROVE IInv'
  BY <1>5 DEF PickEnvGone, FailPending, SetState
<1>6. ASSUME NEW t \in Tasks, PickSpawn(t) PROVE IInv'
  BY <1>6 DEF PickSpawn, Choice, Lowest
<1>7. CASE PickDone
  BY <1>7 DEF PickDone, EndIteration
<1>8. CASE SpawnRefused
  BY <1>8 DEF SpawnRefused, NextRow
<1>9. CASE SpawnClaim
  BY <1>9 DEF SpawnClaim, MayClaim, Claimed, EndIteration
<1> QED
  BY <1>1, <1>2, <1>3, <1>4, <1>5, <1>6, <1>7, <1>8, <1>9 DEF Dispatch

\* A launch after the claim of its row keeps the invariant.
LEMMA LaunchInv == TypeOK /\ IInv /\ Launch => IInv'
<1> SUFFICES ASSUME TypeOK, IInv, Launch PROVE IInv'
  OBVIOUS
<1> USE DEF TypeOK, ProcessTypeOK, Row, IInv, OneHolder, PhaseOfPc, CurIsSpawned,
        AbortedIsManaged, TodoIsManaged, ManagedAreRegistered, SnapshotIsFree,
        RowsExclusive, LoopHoldsLock, AbortHoldsLock, Unsettled, get_managed_tasks,
        ManagedStates, TerminalStates, database, memory, loopVars
<1>1. CASE LaunchLoaded
  BY <1>1 DEF LaunchLoaded
<1>2. CASE LaunchRefused
  BY <1>2 DEF LaunchRefused, SetFinished, SetState, NextRow
<1>3. CASE LaunchUnavailable
  BY <1>3 DEF LaunchUnavailable, ResetStarting, BlankRow, NextRow
<1>4. CASE LaunchUnverified
  BY <1>4 DEF LaunchUnverified, EndIteration
<1>5. CASE ApplyRunning
  BY <1>5 DEF ApplyRunning, AdoptRunning, SetRunning, SetState, Register, NextRow
<1>6. CASE ApplyExited
  BY <1>6 DEF ApplyExited, RecordExit, SetFinished, SetState, Unregister
<1> QED
  BY <1>1, <1>2, <1>3, <1>4, <1>5, <1>6 DEF Launch

\* The handlers keep the invariant.
LEMMA HandlersInv == TypeOK /\ IInv /\ Handlers => IInv'
<1> SUFFICES ASSUME TypeOK, IInv, Handlers PROVE IInv'
  OBVIOUS
<1> USE DEF TypeOK, ProcessTypeOK, Row, IInv, OneHolder, PhaseOfPc, CurIsSpawned,
        AbortedIsManaged, TodoIsManaged, ManagedAreRegistered, SnapshotIsFree,
        RowsExclusive, LoopHoldsLock, AbortHoldsLock, Unsettled, get_managed_tasks,
        ManagedStates, TerminalStates, database, memory, loopVars
<1>1. ASSUME NEW t \in Tasks, Submit(t) PROVE IInv'
  BY <1>1 DEF Submit, BlankRow
<1>2. ASSUME NEW t \in Tasks, AbortPending(t) PROVE IInv'
  BY <1>2 DEF AbortPending, LockFree, SetAborted, SetState, Unregister
<1>3. ASSUME NEW t \in Tasks, AbortStart(t) PROVE IInv'
  BY <1>3 DEF AbortStart, LockFree
<1>4. ASSUME NEW t \in Tasks, DeleteOne(t) PROVE IInv'
  BY <1>4 DEF DeleteOne, Deleted, BlankRow
<1>5. CASE SubmitRejected
  BY <1>5 DEF SubmitRejected
<1>6. CASE AbortStop
  BY <1>6 DEF AbortStop, IdleAbort
<1>7. CASE AbortCommit
  BY <1>7 DEF AbortCommit, SetAborted, SetState, IdleAbort, Unregister
<1>8. CASE AbortClean
  <2>0. \A u \in Tasks : task'[u].state = task[u].state /\ task'[u].gpu = task[u].gpu
    BY <1>8, ClearUnitKeeps DEF AbortClean
  <2> USE <1>8, <2>0 DEF AbortClean, IdleAbort, Unregister
  <2>1. OneHolder'  OBVIOUS
  <2>2. PhaseOfPc'  OBVIOUS
  <2>3. CurIsSpawned'  OBVIOUS
  <2>4. AbortedIsManaged'  OBVIOUS
  <2>5. TodoIsManaged'  OBVIOUS
  <2>6. ManagedAreRegistered'  OBVIOUS
  <2>7. SnapshotIsFree'  OBVIOUS
  <2>8. RowsExclusive'  OBVIOUS
  <2> QED
    BY <2>1, <2>2, <2>3, <2>4, <2>5, <2>6, <2>7, <2>8 DEF IInv
<1>9. CASE AbortCleanTimeout
  BY <1>9 DEF AbortCleanTimeout, IdleAbort
<1>10. ASSUME NEW g \in Gpus, SetGpuScheduling(g) PROVE IInv'
  BY <1>10 DEF SetGpuScheduling
<1>11. ASSUME NEW scope \in Scopes, DeleteAllSelect(scope) PROVE IInv'
  BY <1>11 DEF DeleteAllSelect
<1>12. CASE DeleteAllDelete
  BY <1>12, SMTT(30) DEF DeleteAllDelete, TerminalTasks, Deleted, BlankRow
<1> QED
  BY <1>1, <1>2, <1>3, <1>4, <1>5, <1>6, <1>7, <1>8, <1>9, <1>10, <1>11, <1>12
     DEF Handlers, AbortSteps

\* Scripts, crashes and reboots keep the invariant.
LEMMA OutsideInv == TypeOK /\ IInv /\ Outside => IInv'
<1> SUFFICES ASSUME TypeOK, IInv, Outside PROVE IInv'
  OBVIOUS
<1> USE DEF TypeOK, ProcessTypeOK, Row, IInv, OneHolder, PhaseOfPc, CurIsSpawned,
        AbortedIsManaged, TodoIsManaged, ManagedAreRegistered, SnapshotIsFree,
        RowsExclusive, LoopHoldsLock, AbortHoldsLock, Unsettled, get_managed_tasks,
        ManagedStates, TerminalStates, database, memory, loopVars
<1>1. ASSUME NEW t \in Tasks, UnitExit(t) PROVE IInv'
  BY <1>1 DEF UnitExit
<1>2. CASE Crash
  BY <1>2 DEF Crash, Halt, IdleAbort
<1>3. CASE Reboot
  BY <1>3 DEF Reboot, Halt, IdleAbort
<1> QED
  BY <1>1, <1>2, <1>3 DEF Outside

\* Every step keeps the invariant.
LEMMA NextInv == TypeOK /\ IInv /\ [Next]_vars => IInv'
<1>1. TypeOK /\ IInv /\ UNCHANGED vars => IInv'
  BY DEF vars, IInv, OneHolder, PhaseOfPc, CurIsSpawned, AbortedIsManaged, TodoIsManaged,
         ManagedAreRegistered, SnapshotIsFree, RowsExclusive, LoopHoldsLock, AbortHoldsLock,
         Unsettled, get_managed_tasks
<1> QED
  BY <1>1, StartupInv, ReconcileInv, DispatchInv, LaunchInv, HandlersInv, OutsideInv
     DEF Next, Scheduler

\* The inductive invariant holds in every reachable state.
THEOREM Invariance == Spec => []IInv
<1> QED
  BY InitInv, NextInv, TypeCorrect, PTL DEF Spec

\* No two STARTING or RUNNING rows name the same GPU: whatever fails, crashes or
\* gets lost, and for any number of tasks and GPUs.
THEOREM OwnershipIsExclusive == Spec => []RowsExclusive
<1>1. IInv => RowsExclusive
  BY DEF IInv
<1> QED
  BY <1>1, Invariance, PTL

-----------------------------------------------------------------------------
(* Every iteration of the loop, and start(), come to an end.               *)

\* The functions that are still to be called in this iteration.
Stage ==
    IF pc = "recLock" THEN 5
    ELSE IF pc \in {"reconcile", "reap"} /\ phase # "dispatch" THEN 4
    ELSE IF pc \in {"sweep", "scan"} THEN 3
    ELSE IF pc = "probe" THEN 2
    ELSE IF pc \in {"down", "top"} THEN 0
    ELSE 1

\* The steps that are left of the row at hand.
AtHand ==
    IF pc = "spawn" THEN 4
    ELSE IF pc = "launch" THEN 3
    ELSE IF pc = "apply" THEN 2
    ELSE IF pc = "reap" THEN 1
    ELSE 0

\* What is left of the for-loop that the coroutine is in.
Work == IF pc = "probe" THEN Cardinality(probing) ELSE 5 * Cardinality(todo) + AtHand

Shorter == Stage' < Stage \/ (Stage' = Stage /\ Work' < Work)

\* Whatever requests, units and faults do meanwhile, each step of start() and of
\* an iteration of _run_loop brings its end nearer, and nothing puts it off: rows
\* that are submitted or requeued during a dispatch, or are aborted during a
\* reconciliation, are none of its business any more.
IterationsShrink ==
    [][pc \notin {"down", "top"} => Shorter \/ (~Scheduler /\ UNCHANGED loopVars)]_vars

\* A for-loop that has visited one element has one less to visit.
LEMMA OneLess ==
    ASSUME NEW S, IsFiniteSet(S), NEW x \in S
    PROVE  /\ Cardinality(S) \in Nat /\ Cardinality(S \ {x}) \in Nat
           /\ Cardinality(S \ {x}) = Cardinality(S) - 1
BY FS_CardinalityType, FS_RemoveElement

\* The end of an iteration, and an exception.
LEMMA EndsAreShorter ==
    ASSUME pc \in {"recLock", "reconcile", "reap", "sweep", "scan", "probe", "pick", "spawn",
                   "launch", "apply"},
           EndIteration \/ Raise \/ Halt
    PROVE  Shorter
<1>1. pc' \in {"down", "top"}
  BY DEF Raise, EndIteration, Halt
<1> QED
  BY <1>1 DEF Shorter, Stage

\* start() comes to its end.
LEMMA StartupShrinks ==
    ASSUME TypeOK, IsFiniteSet(Tasks), Startup \/ Top, pc \notin {"down", "top"}
    PROVE  Shorter
<1>1. ASSUME NEW t \in todo, pc = "sweep", pc' = pc, todo' = todo \ {t} PROVE Shorter
  <2>1. IsFiniteSet(todo)
    BY FS_Subset DEF TypeOK, ProcessTypeOK
  <2> QED
    BY <1>1, <2>1, OneLess DEF Shorter, Stage, Work, AtHand
<1> QED
  BY <1>1, EndsAreShorter DEF Startup, Boot, Top, SweepUnit, SweepTimeout, SweepDone, EndSweep

\* A round of reconciliation comes to its end.
LEMMA ReconcileShrinks ==
    ASSUME TypeOK, IInv, IsFiniteSet(Tasks), Reconcile
    PROVE  Shorter
<1>0. IsFiniteSet(todo) /\ Cardinality(todo) \in Nat
  BY FS_Subset, FS_CardinalityType DEF TypeOK, ProcessTypeOK
<1>1. ASSUME NEW t \in todo, pc = "reconcile", phase' = phase, todo' = todo \ {t},
             pc' \in {"reconcile", "reap"}
      PROVE  Shorter
  <2>1. phase # "dispatch"
    BY <1>1 DEF IInv, PhaseOfPc
  <2> QED
    BY <1>0, <1>1, <2>1, OneLess DEF Shorter, Stage, Work, AtHand
<1>2. ASSUME NEW t \in Tasks,
             ReconcileNoUnit(t) \/ ReconcileMissing(t) \/ ReconcileRunning(t)
               \/ ReconcileExited(t)
      PROVE  Shorter
  BY <1>1, <1>2 DEF ReconcileNoUnit, ReconcileMissing, ReconcileRunning, ReconcileExited,
     RecordExit
<1>3. ASSUME pc = "reconcile", pc' \in {"sweep", "scan"} PROVE Shorter
  BY <1>3 DEF Shorter, Stage, IInv, PhaseOfPc
<1>4. CASE RecLock
  BY <1>4 DEF RecLock, Shorter, Stage
<1>5. CASE Reap
  <2>1. /\ pc = "reap" /\ pc' = IF phase = "dispatch" THEN "pick" ELSE "reconcile"
        /\ phase' = phase /\ todo' = todo
    BY <1>5 DEF Reap, NextRow
  <2> QED
    BY <1>0, <2>1 DEF Shorter, Stage, Work, AtHand
<1> QED
  BY <1>2, <1>3, <1>4, <1>5, EndsAreShorter DEF Reconcile, ReconcileUnavailable,
     ReconcileError, ReconcileDone, StartSweep, ReapTimeout

\* A dispatch comes to its end, submissions or not.
LEMMA DispatchShrinks ==
    ASSUME TypeOK, IInv, IsFiniteSet(Tasks), IsFiniteSet(Gpus), Dispatch \/ Launch
    PROVE  Shorter
<1>0. /\ IsFiniteSet(todo) /\ Cardinality(todo) \in Nat
      /\ IsFiniteSet(probing) /\ Cardinality(probing) \in Nat
  BY FS_Subset, FS_CardinalityType DEF TypeOK, ProcessTypeOK
<1>1. ASSUME NEW t \in todo, pc = "pick", phase' = phase, todo' = todo \ {t},
             pc' \in {"pick", "spawn"}
      PROVE  Shorter
  BY <1>0, <1>1, OneLess DEF Shorter, Stage, Work, AtHand
<1>2. ASSUME todo' = todo, phase' = phase, phase = "dispatch",
             \/ pc = "spawn" /\ pc' \in {"launch", "pick"}
             \/ pc = "launch" /\ pc' \in {"apply", "pick"}
             \/ pc = "apply" /\ pc' \in {"reap", "pick"}
      PROVE  Shorter
  BY <1>0, <1>2 DEF Shorter, Stage, Work, AtHand
<1>3. CASE Scan
  BY <1>3, EndsAreShorter DEF Scan, Shorter, Stage
<1>4. CASE Probe
  <2>1. PICK g \in probing : probing' = probing \ {g}
    BY <1>4 DEF Probe, Lowest
  <2>2. pc = "probe" /\ pc' \in {"probe", "pick"} /\ phase' = phase /\ phase = "dispatch"
    BY <1>4 DEF Probe, IInv, PhaseOfPc, TypeOK, ProcessTypeOK
  <2> QED
    BY <1>0, <2>1, <2>2, OneLess DEF Shorter, Stage, Work, AtHand
<1>5. ASSUME NEW t \in Tasks, PickSkip(t) \/ PickEnvGone(t) \/ PickSpawn(t) PROVE Shorter
  BY <1>1, <1>5 DEF PickSkip, PickEnvGone, PickSpawn, FirstOf
<1>6. CASE SpawnRefused \/ SpawnClaim \/ Launch
  <2>1. phase = "dispatch"
    BY <1>6 DEF SpawnRefused, SpawnClaim, Launch, LaunchLoaded, LaunchRefused,
       LaunchUnavailable, LaunchUnverified, ApplyRunning, ApplyExited, IInv, PhaseOfPc,
       TypeOK, ProcessTypeOK
  <2> QED
    BY <1>2, <1>6, <2>1, EndsAreShorter DEF SpawnRefused, SpawnClaim, Launch, LaunchLoaded,
       LaunchRefused, LaunchUnavailable, LaunchUnverified, ApplyRunning, ApplyExited,
       RecordExit, NextRow
<1> QED
  BY <1>3, <1>4, <1>5, <1>6, EndsAreShorter DEF Dispatch, PickBreak, PickDone

\* An iteration takes a bounded number of steps, whatever happens beside it: a
\* reconciliation or a dispatch that goes on for ever is impossible, for any finite
\* number of tasks and GPUs.
THEOREM IterationsEnd ==
    ASSUME IsFiniteSet(Tasks), IsFiniteSet(Gpus)
    PROVE  Spec => IterationsShrink
<1>1. TypeOK /\ IInv /\ [Next]_vars =>
        [pc \notin {"down", "top"} => Shorter \/ (~Scheduler /\ UNCHANGED loopVars)]_vars
  <2> SUFFICES ASSUME TypeOK, IInv, Next, pc \notin {"down", "top"},
                      Scheduler \/ ~UNCHANGED loopVars
               PROVE  Shorter
    OBVIOUS
  <2>1. CASE Scheduler
    BY <2>1, StartupShrinks, ReconcileShrinks, DispatchShrinks DEF Scheduler
  <2>2. CASE ~Scheduler
    <3>1. Crash \/ Reboot
      BY <2>2 DEF Next, Handlers, Submit, AbortPending, AbortStart, DeleteOne, SubmitRejected,
         AbortSteps, AbortStop, AbortCommit, AbortClean, AbortCleanTimeout, SetGpuScheduling,
         DeleteAllSelect, DeleteAllDelete, Outside, UnitExit
    <3> QED
      BY <3>1, EndsAreShorter DEF Crash, Reboot, TypeOK, ProcessTypeOK
  <2> QED
    BY <2>1, <2>2
<1> QED
  BY <1>1, TypeCorrect, Invariance, PTL DEF Spec, IterationsShrink
=============================================================================
