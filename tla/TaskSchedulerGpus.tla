------------------------ MODULE TaskSchedulerGpus ------------------------
(***************************************************************************)
(* What the GPU manager knows: the GPUs it holds as disabled are those of  *)
(* the database, and those it holds as occupied are owned by a row.  And   *)
(* what becomes of the GPUs: they change hands as TaskLifecycle says, in   *)
(* the order of the queue.                                                 *)
(***************************************************************************)
EXTENDS TaskSchedulerProofs, DispatchOrder

-----------------------------------------------------------------------------
(* The disabled GPUs                                                       *)

\* start() and the head of the loop keep the settings as the database has them.
LEMMA StartupSettings == SettingsLoaded /\ (Startup \/ Top) => SettingsLoaded'
<1> SUFFICES ASSUME SettingsLoaded, Startup \/ Top PROVE SettingsLoaded'
  OBVIOUS
<1> USE DEF SettingsLoaded, database, memory, loopVars
<1>1. CASE Boot
  BY <1>1 DEF Boot
<1>2. ASSUME NEW t \in Tasks, SweepUnit(t) PROVE SettingsLoaded'
  BY <1>2 DEF SweepUnit, EndSweep, EndIteration
<1>3. ASSUME NEW t \in Tasks, SweepTimeout(t) PROVE SettingsLoaded'
  BY <1>3 DEF SweepTimeout, Raise, Halt, EndIteration
<1>4. CASE SweepDone
  BY <1>4 DEF SweepDone, EndSweep, EndIteration
<1>5. CASE Top
  BY <1>5 DEF Top
<1> QED
  BY <1>1, <1>2, <1>3, <1>4, <1>5 DEF Startup

\* A reconciliation keeps the settings as the database has them.
LEMMA ReconcileSettings == SettingsLoaded /\ Reconcile => SettingsLoaded'
<1> SUFFICES ASSUME SettingsLoaded, Reconcile PROVE SettingsLoaded'
  OBVIOUS
<1> USE DEF SettingsLoaded, database, memory, loopVars
<1>1. CASE RecLock
  BY <1>1 DEF RecLock
<1>2. ASSUME NEW t \in Tasks, ReconcileNoUnit(t) PROVE SettingsLoaded'
  BY <1>2 DEF ReconcileNoUnit
<1>3. ASSUME NEW t \in Tasks, ReconcileMissing(t) PROVE SettingsLoaded'
  BY <1>3 DEF ReconcileMissing
<1>4. ASSUME NEW t \in Tasks, ReconcileRunning(t) PROVE SettingsLoaded'
  BY <1>4 DEF ReconcileRunning
<1>5. ASSUME NEW t \in Tasks, ReconcileExited(t) PROVE SettingsLoaded'
  BY <1>5 DEF ReconcileExited, RecordExit
<1>6. ASSUME NEW t \in Tasks, ReconcileUnavailable(t) PROVE SettingsLoaded'
  BY <1>6 DEF ReconcileUnavailable, StartSweep, EndIteration
<1>7. ASSUME NEW t \in Tasks, ReconcileError(t) PROVE SettingsLoaded'
  BY <1>7 DEF ReconcileError, Raise, Halt, EndIteration
<1>8. CASE ReconcileDone
  BY <1>8 DEF ReconcileDone, StartSweep, EndIteration
<1>9. CASE Reap
  BY <1>9 DEF Reap, NextRow
<1>10. CASE ReapTimeout
  BY <1>10 DEF ReapTimeout, Raise, Halt, EndIteration
<1> QED
  BY <1>1, <1>2, <1>3, <1>4, <1>5, <1>6, <1>7, <1>8, <1>9, <1>10 DEF Reconcile

\* A dispatch up to the claim of a row keeps the settings as the database has them.
LEMMA DispatchSettings == SettingsLoaded /\ Dispatch => SettingsLoaded'
<1> SUFFICES ASSUME SettingsLoaded, Dispatch PROVE SettingsLoaded'
  OBVIOUS
<1> USE DEF SettingsLoaded, database, memory, loopVars
<1>1. CASE Scan
  BY <1>1 DEF Scan, EndIteration
<1>2. CASE Probe
  BY <1>2 DEF Probe
<1>3. ASSUME NEW t \in Tasks, PickSkip(t) PROVE SettingsLoaded'
  BY <1>3 DEF PickSkip
<1>4. ASSUME NEW t \in Tasks, PickBreak(t) PROVE SettingsLoaded'
  BY <1>4 DEF PickBreak, EndIteration
<1>5. ASSUME NEW t \in Tasks, PickEnvGone(t) PROVE SettingsLoaded'
  BY <1>5 DEF PickEnvGone
<1>6. ASSUME NEW t \in Tasks, PickSpawn(t) PROVE SettingsLoaded'
  BY <1>6 DEF PickSpawn
<1>7. CASE PickDone
  BY <1>7 DEF PickDone, EndIteration
<1>8. CASE SpawnRefused
  BY <1>8 DEF SpawnRefused, NextRow
<1>9. CASE SpawnClaim
  BY <1>9 DEF SpawnClaim, EndIteration
<1> QED
  BY <1>1, <1>2, <1>3, <1>4, <1>5, <1>6, <1>7, <1>8, <1>9 DEF Dispatch

\* A launch after the claim of its row keeps the settings as the database has them.
LEMMA LaunchSettings == SettingsLoaded /\ Launch => SettingsLoaded'
<1> SUFFICES ASSUME SettingsLoaded, Launch PROVE SettingsLoaded'
  OBVIOUS
<1> USE DEF SettingsLoaded, database, memory, loopVars
<1>1. CASE LaunchLoaded
  BY <1>1 DEF LaunchLoaded
<1>2. CASE LaunchRefused
  BY <1>2 DEF LaunchRefused, NextRow
<1>3. CASE LaunchUnavailable
  BY <1>3 DEF LaunchUnavailable, NextRow
<1>4. CASE LaunchUnverified
  BY <1>4 DEF LaunchUnverified, EndIteration
<1>5. CASE ApplyRunning
  BY <1>5 DEF ApplyRunning, NextRow
<1>6. CASE ApplyExited
  BY <1>6 DEF ApplyExited, RecordExit
<1> QED
  BY <1>1, <1>2, <1>3, <1>4, <1>5, <1>6 DEF Launch

\* The handlers keep the settings as the database has them.
LEMMA HandlersSettings == SettingsLoaded /\ Handlers => SettingsLoaded'
<1> SUFFICES ASSUME SettingsLoaded, Handlers PROVE SettingsLoaded'
  OBVIOUS
<1> USE DEF SettingsLoaded, database, memory, loopVars
<1>1. ASSUME NEW t \in Tasks, Submit(t) PROVE SettingsLoaded'
  BY <1>1 DEF Submit
<1>2. ASSUME NEW t \in Tasks, AbortPending(t) PROVE SettingsLoaded'
  BY <1>2 DEF AbortPending
<1>3. ASSUME NEW t \in Tasks, AbortStart(t) PROVE SettingsLoaded'
  BY <1>3 DEF AbortStart
<1>4. ASSUME NEW t \in Tasks, DeleteOne(t) PROVE SettingsLoaded'
  BY <1>4 DEF DeleteOne
<1>5. CASE SubmitRejected
  BY <1>5 DEF SubmitRejected
<1>6. CASE AbortStop
  BY <1>6 DEF AbortStop
<1>7. CASE AbortCommit
  BY <1>7 DEF AbortCommit
<1>8. CASE AbortClean
  BY <1>8 DEF AbortClean
<1>9. CASE AbortCleanTimeout
  BY <1>9 DEF AbortCleanTimeout
<1>10. ASSUME NEW g \in Gpus, SetGpuScheduling(g) PROVE SettingsLoaded'
  BY <1>10 DEF SetGpuScheduling
<1>11. ASSUME NEW scope \in Scopes, DeleteAllSelect(scope) PROVE SettingsLoaded'
  BY <1>11 DEF DeleteAllSelect
<1>12. CASE DeleteAllDelete
  BY <1>12 DEF DeleteAllDelete
<1> QED
  BY <1>1, <1>2, <1>3, <1>4, <1>5, <1>6, <1>7, <1>8, <1>9, <1>10, <1>11, <1>12
     DEF Handlers, AbortSteps

\* Scripts, crashes and reboots keep the settings as the database has them.
LEMMA OutsideSettings == SettingsLoaded /\ Outside => SettingsLoaded'
<1> SUFFICES ASSUME SettingsLoaded, Outside PROVE SettingsLoaded'
  OBVIOUS
<1> USE DEF SettingsLoaded, database, memory, loopVars
<1>1. ASSUME NEW t \in Tasks, UnitExit(t) PROVE SettingsLoaded'
  BY <1>1 DEF UnitExit
<1>2. CASE Crash
  BY <1>2 DEF Crash, Halt
<1>3. CASE Reboot
  BY <1>3 DEF Reboot, Halt
<1> QED
  BY <1>1, <1>2, <1>3 DEF Outside

\* Every step keeps the settings as the database has them.
LEMMA NextSettings == SettingsLoaded /\ [Next]_vars => SettingsLoaded'
<1>1. SettingsLoaded /\ UNCHANGED vars => SettingsLoaded'
  BY DEF vars, SettingsLoaded
<1> QED
  BY <1>1, StartupSettings, ReconcileSettings, DispatchSettings, LaunchSettings,
     HandlersSettings, OutsideSettings DEF Next, Scheduler

\* While the application runs, the GPUs it holds as disabled are those of the
\* database: what start() has loaded and every switch of a GPU keep them equal.
THEOREM SettingsAgree == Spec => []SettingsLoaded
<1>1. Init => SettingsLoaded
  BY DEF Init, SettingsLoaded
<1> QED
  BY <1>1, NextSettings, PTL DEF Spec

\* Of the UPDATE statements only the claim makes a row STARTING.
LEMMA OnlyClaimedStarts ==
    ASSUME task \in [Tasks -> Row], NEW t, NEW u \in Tasks, task[u].state = "PENDING"
    PROVE  /\ \A S \in SUBSET Tasks : Deleted(S)[u].state # "STARTING"
           /\ \A end \in TerminalStates : SetFinished(t, end)[u].state # "STARTING"
           /\ ResetStarting(t)[u].state # "STARTING"
           /\ SetRunning(t)[u].state # "STARTING"
           /\ SetAborted(t)[u].state # "STARTING"
           /\ FailPending(t)[u].state # "STARTING"
           /\ ClearUnit(t)[u].state # "STARTING"
BY DEF Deleted, SetFinished, ResetStarting, SetRunning, SetAborted, FailPending,
       ClearUnit, SetState, BlankRow, Row, TerminalStates

\* The only step that gives a GPU away is SpawnClaim.
LEMMA OnlySpawnGives ==
    ASSUME TypeOK, Next, NEW u \in Tasks, NEW g \in Gpus, Gives(u, g)
    PROVE  SpawnClaim
<1> USE OnlyClaimedStarts DEF TypeOK, Gives, TerminalStates, database
<1>1. ~Startup /\ ~Top
  BY DEF Startup, Boot, SweepUnit, SweepTimeout, SweepDone, Top
<1>2. ~Reconcile
  BY DEF Reconcile, RecLock, ReconcileNoUnit, ReconcileMissing, ReconcileRunning,
     ReconcileExited, ReconcileUnavailable, ReconcileError, ReconcileDone, Reap,
     ReapTimeout, AdoptRunning, RecordExit
<1>3. Dispatch => SpawnClaim
  BY DEF Dispatch, Scan, Probe, PickSkip, PickBreak, PickEnvGone, PickSpawn, PickDone,
     SpawnRefused
<1>4. ~Launch
  BY DEF Launch, LaunchLoaded, LaunchRefused, LaunchUnavailable, LaunchUnverified,
     ApplyRunning, ApplyExited, AdoptRunning, RecordExit
<1>5. ~Handlers
  <2>1. ASSUME NEW t \in Tasks PROVE ~Submit(t)
    BY DEF Submit, BlankRow
  <2>2. ~DeleteAllDelete
    BY DEF DeleteAllDelete, TerminalTasks
  <2> QED
    BY <2>1, <2>2 DEF Handlers, AbortSteps, AbortPending, AbortStart, DeleteOne,
       SubmitRejected, AbortStop, AbortCommit, AbortClean, AbortCleanTimeout,
       SetGpuScheduling, DeleteAllSelect
<1>6. ~Outside
  BY DEF Outside, UnitExit, Crash, Reboot
<1> QED
  BY <1>1, <1>2, <1>3, <1>4, <1>5, <1>6 DEF Next, Scheduler

\* No GPU is given to a task that the database says is disabled, also right
\* after a restart and when a request comes between the snapshot and the launch.
THEOREM DisabledStaysUnused == Spec => DisabledGpuNotClaimed
<1>1. ASSUME TypeOK, SettingsLoaded, [Next]_vars
      PROVE  [\A t \in Tasks, g \in Gpus : Gives(t, g) => g \notin gpu_settings]_vars
  <2> SUFFICES ASSUME NEW t \in Tasks, NEW g \in Gpus, Next, Gives(t, g)
               PROVE  g \notin gpu_settings
    BY <1>1
  <2>1. SpawnClaim
    BY <1>1, OnlySpawnGives
  <2>2. g = curGpu
    BY <1>1, <2>1 DEF SpawnClaim, Claimed, Gives, TypeOK, Row
  <2> QED
    BY <1>1, <2>1, <2>2 DEF SpawnClaim, MayClaim, SettingsLoaded
<1> QED
  BY <1>1, TypeCorrect, SettingsAgree, PTL DEF Spec, DisabledGpuNotClaimed

-----------------------------------------------------------------------------
(* The registered GPUs                                                     *)

\* start() and the head of the loop keep the invariant of the registrations.
LEMMA StartupRegs ==
    TypeOK /\ IInv /\ RegistrationInv /\ (Startup \/ Top) => RegistrationInv'
<1> SUFFICES ASSUME TypeOK, IInv, RegistrationInv, Startup \/ Top PROVE RegistrationInv'
  OBVIOUS
<1> USE DEF TypeOK, ProcessTypeOK, Row, IInv, OneHolder, CurIsSpawned, AbortedIsManaged,
        TodoIsManaged, PhaseOfPc, RegistrationInv, LoopHoldsLock, AbortHoldsLock,
        get_managed_tasks, ManagedStates, TerminalStates, database, memory, loopVars
<1>1. CASE Boot
  BY <1>1 DEF Boot
<1>2. ASSUME NEW t \in Tasks, SweepUnit(t) PROVE RegistrationInv'
  <2>1. \A u \in Tasks : task'[u].state = task[u].state /\ task'[u].gpu = task[u].gpu
    BY <1>2, ClearUnitKeeps DEF SweepUnit
  <2> QED
    BY <1>2, <2>1 DEF SweepUnit, EndSweep, EndIteration
<1>3. ASSUME NEW t \in Tasks, SweepTimeout(t) PROVE RegistrationInv'
  BY <1>3 DEF SweepTimeout, Raise, Halt, EndIteration, IdleAbort
<1>4. CASE SweepDone
  BY <1>4 DEF SweepDone, EndSweep, EndIteration
<1>5. CASE Top
  BY <1>5 DEF Top
<1> QED
  BY <1>1, <1>2, <1>3, <1>4, <1>5 DEF Startup

\* A reconciliation keeps the invariant of the registrations.
LEMMA ReconcileRegs ==
    TypeOK /\ IInv /\ RegistrationInv /\ Reconcile => RegistrationInv'
<1> SUFFICES ASSUME TypeOK, IInv, RegistrationInv, Reconcile PROVE RegistrationInv'
  OBVIOUS
<1> USE DEF TypeOK, ProcessTypeOK, Row, IInv, OneHolder, CurIsSpawned, AbortedIsManaged,
        TodoIsManaged, PhaseOfPc, RegistrationInv, LoopHoldsLock, AbortHoldsLock,
        get_managed_tasks, ManagedStates, TerminalStates, database, memory, loopVars
<1>1. CASE RecLock
  BY <1>1 DEF RecLock
<1>2. ASSUME NEW t \in Tasks, ReconcileNoUnit(t) PROVE RegistrationInv'
  BY <1>2 DEF ReconcileNoUnit, ResetStarting, SetFinished, SetState, BlankRow,
     Unregister
<1>3. ASSUME NEW t \in Tasks, ReconcileMissing(t) PROVE RegistrationInv'
  BY <1>3 DEF ReconcileMissing, ResetStarting, SetFinished, SetState, BlankRow,
     Unregister
<1>4. ASSUME NEW t \in Tasks, ReconcileRunning(t) PROVE RegistrationInv'
  BY <1>4 DEF ReconcileRunning, AdoptRunning, SetRunning, SetState, Register
<1>5. ASSUME NEW t \in Tasks, ReconcileExited(t) PROVE RegistrationInv'
  BY <1>5 DEF ReconcileExited, RecordExit, SetFinished, SetState, Unregister
<1>6. ASSUME NEW t \in Tasks, ReconcileUnavailable(t) PROVE RegistrationInv'
  BY <1>6 DEF ReconcileUnavailable, StartSweep, EndIteration
<1>7. ASSUME NEW t \in Tasks, ReconcileError(t) PROVE RegistrationInv'
  BY <1>7 DEF ReconcileError, Raise, Halt, EndIteration, IdleAbort
<1>8. CASE ReconcileDone
  BY <1>8 DEF ReconcileDone, StartSweep, EndIteration
<1>9. CASE Reap
  BY <1>9 DEF Reap, ClearUnit, NextRow
<1>10. CASE ReapTimeout
  BY <1>10 DEF ReapTimeout, Raise, Halt, EndIteration, IdleAbort
<1> QED
  BY <1>1, <1>2, <1>3, <1>4, <1>5, <1>6, <1>7, <1>8, <1>9, <1>10 DEF Reconcile

\* A dispatch up to the claim of a row keeps the invariant of the registrations.
LEMMA DispatchRegs == TypeOK /\ IInv /\ RegistrationInv /\ Dispatch => RegistrationInv'
<1> SUFFICES ASSUME TypeOK, IInv, RegistrationInv, Dispatch PROVE RegistrationInv'
  OBVIOUS
<1> USE DEF TypeOK, ProcessTypeOK, Row, IInv, OneHolder, CurIsSpawned, AbortedIsManaged,
        TodoIsManaged, PhaseOfPc, RegistrationInv, LoopHoldsLock, AbortHoldsLock,
        get_managed_tasks, ManagedStates, TerminalStates, database, memory, loopVars
<1>1. CASE Scan
  BY <1>1 DEF Scan, EndIteration
<1>2. CASE Probe
  BY <1>2 DEF Probe, Lowest, Registered
<1>3. ASSUME NEW t \in Tasks, PickSkip(t) PROVE RegistrationInv'
  BY <1>3 DEF PickSkip
<1>4. ASSUME NEW t \in Tasks, PickBreak(t) PROVE RegistrationInv'
  BY <1>4 DEF PickBreak, EndIteration
<1>5. ASSUME NEW t \in Tasks, PickEnvGone(t) PROVE RegistrationInv'
  BY <1>5 DEF PickEnvGone, FailPending, SetState
<1>6. ASSUME NEW t \in Tasks, PickSpawn(t) PROVE RegistrationInv'
  BY <1>6 DEF PickSpawn, Choice, Lowest
<1>7. CASE PickDone
  BY <1>7 DEF PickDone, EndIteration
<1>8. CASE SpawnRefused
  BY <1>8 DEF SpawnRefused, NextRow
<1>9. CASE SpawnClaim
  BY <1>9 DEF SpawnClaim, MayClaim, Claimed, EndIteration
<1> QED
  BY <1>1, <1>2, <1>3, <1>4, <1>5, <1>6, <1>7, <1>8, <1>9 DEF Dispatch

\* A launch after the claim of its row keeps the invariant of the registrations.
LEMMA LaunchRegs == TypeOK /\ IInv /\ RegistrationInv /\ Launch => RegistrationInv'
<1> SUFFICES ASSUME TypeOK, IInv, RegistrationInv, Launch PROVE RegistrationInv'
  OBVIOUS
<1> USE DEF TypeOK, ProcessTypeOK, Row, IInv, OneHolder, CurIsSpawned, AbortedIsManaged,
        TodoIsManaged, PhaseOfPc, RegistrationInv, LoopHoldsLock, AbortHoldsLock,
        get_managed_tasks, ManagedStates, TerminalStates, database, memory, loopVars
<1>1. CASE LaunchLoaded
  BY <1>1 DEF LaunchLoaded
<1>2. CASE LaunchRefused
  BY <1>2 DEF LaunchRefused, SetFinished, SetState, NextRow
<1>3. CASE LaunchUnavailable
  BY <1>3 DEF LaunchUnavailable, ResetStarting, BlankRow, NextRow
<1>4. CASE LaunchUnverified
  BY <1>4 DEF LaunchUnverified, EndIteration
<1>5. CASE ApplyRunning
  BY <1>5 DEF ApplyRunning, AdoptRunning, SetRunning, SetState, Register, NextRow
<1>6. CASE ApplyExited
  BY <1>6 DEF ApplyExited, RecordExit, SetFinished, SetState, Unregister
<1> QED
  BY <1>1, <1>2, <1>3, <1>4, <1>5, <1>6 DEF Launch

\* The handlers keep the invariant of the registrations.
LEMMA HandlersRegs ==
    TypeOK /\ IInv /\ "timeout" \notin FaultKinds /\ RegistrationInv /\ Handlers
        => RegistrationInv'
<1> SUFFICES ASSUME TypeOK, IInv, "timeout" \notin FaultKinds, RegistrationInv, Handlers
             PROVE  RegistrationInv'
  OBVIOUS
<1> USE DEF TypeOK, ProcessTypeOK, Row, IInv, OneHolder, CurIsSpawned, AbortedIsManaged,
        TodoIsManaged, PhaseOfPc, RegistrationInv, LoopHoldsLock, AbortHoldsLock,
        get_managed_tasks, ManagedStates, TerminalStates, database, memory, loopVars
<1>1. ASSUME NEW t \in Tasks, Submit(t) PROVE RegistrationInv'
  BY <1>1 DEF Submit, BlankRow
<1>2. ASSUME NEW t \in Tasks, AbortPending(t) PROVE RegistrationInv'
  BY <1>2 DEF AbortPending, LockFree, SetAborted, SetState, Unregister
<1>3. ASSUME NEW t \in Tasks, AbortStart(t) PROVE RegistrationInv'
  BY <1>3 DEF AbortStart, LockFree
<1>4. ASSUME NEW t \in Tasks, DeleteOne(t) PROVE RegistrationInv'
  BY <1>4 DEF DeleteOne, Deleted, BlankRow
<1>5. CASE SubmitRejected
  BY <1>5 DEF SubmitRejected
<1>6. CASE AbortStop
  BY <1>6 DEF AbortStop, IdleAbort
<1>7. CASE AbortCommit
  BY <1>7 DEF AbortCommit, SetAborted, SetState, IdleAbort, Unregister
<1>8. CASE AbortClean
  BY <1>8 DEF AbortClean, ClearUnit, IdleAbort, Unregister
<1>9. CASE AbortCleanTimeout
  BY <1>9 DEF AbortCleanTimeout, IdleAbort, Fault
<1>10. ASSUME NEW g \in Gpus, SetGpuScheduling(g) PROVE RegistrationInv'
  BY <1>10 DEF SetGpuScheduling
<1>11. ASSUME NEW scope \in Scopes, DeleteAllSelect(scope) PROVE RegistrationInv'
  BY <1>11 DEF DeleteAllSelect
<1>12. CASE DeleteAllDelete
  BY <1>12 DEF DeleteAllDelete, TerminalTasks, Deleted, BlankRow
<1> QED
  BY <1>1, <1>2, <1>3, <1>4, <1>5, <1>6, <1>7, <1>8, <1>9, <1>10, <1>11, <1>12
     DEF Handlers, AbortSteps

\* Scripts, crashes and reboots keep the invariant of the registrations.
LEMMA OutsideRegs == TypeOK /\ IInv /\ RegistrationInv /\ Outside => RegistrationInv'
<1> SUFFICES ASSUME TypeOK, IInv, RegistrationInv, Outside PROVE RegistrationInv'
  OBVIOUS
<1> USE DEF TypeOK, ProcessTypeOK, Row, IInv, OneHolder, CurIsSpawned, AbortedIsManaged,
        TodoIsManaged, PhaseOfPc, RegistrationInv, LoopHoldsLock, AbortHoldsLock,
        get_managed_tasks, ManagedStates, TerminalStates, database, memory, loopVars
<1>1. ASSUME NEW t \in Tasks, UnitExit(t) PROVE RegistrationInv'
  BY <1>1 DEF UnitExit
<1>2. CASE Crash
  BY <1>2 DEF Crash, Halt, IdleAbort
<1>3. CASE Reboot
  BY <1>3 DEF Reboot, Halt, IdleAbort
<1> QED
  BY <1>1, <1>2, <1>3 DEF Outside
\* Every step keeps the invariant of the registrations.
LEMMA NextRegs ==
    TypeOK /\ IInv /\ "timeout" \notin FaultKinds /\ RegistrationInv /\ [Next]_vars
        => RegistrationInv'
<1>1. RegistrationInv /\ UNCHANGED vars => RegistrationInv'
  BY DEF vars, RegistrationInv
<1> QED
  BY <1>1, StartupRegs, ReconcileRegs, DispatchRegs, LaunchRegs, HandlersRegs,
     OutsideRegs DEF Next, Scheduler

\* A GPU is held only for a task that owns it, provided that no cleanup after an
\* abort times out (the run gpu_leak shows why this is needed).
THEOREM NoGpuIsLeaked ==
    ASSUME "timeout" \notin FaultKinds
    PROVE  Spec => []RegisteredAreManaged
<1>1. Init => RegistrationInv
  BY DEF Init, RegistrationInv
<1>2. TypeOK /\ IInv /\ RegistrationInv /\ [Next]_vars => RegistrationInv'
  BY NextRegs
<1>3. RegistrationInv => RegisteredAreManaged
  BY DEF RegistrationInv, RegisteredAreManaged, LockFree, AbortHoldsLock
<1> QED
  BY <1>1, <1>2, <1>3, TypeCorrect, Invariance, PTL DEF Spec

-----------------------------------------------------------------------------
(* The scheduler implements TaskLifecycle                                  *)

\* What TaskLifecycle sees of the rows.
StateOf == [t \in Tasks |-> task[t].state]
HeldOf == [t \in Tasks |-> IF task[t].state \in ManagedStates THEN task[t].gpu ELSE NoGpu]

\* A step of the life cycle, or none.
LStep == Lifecycle!Next \/ UNCHANGED <<StateOf, HeldOf>>

\* A statement that changes one row moves that task.
LEMMA RowMoves ==
    ASSUME task \in [Tasks -> Row], task' \in [Tasks -> Row], NEW t \in Tasks,
           \A u \in Tasks \ {t} : task'[u] = task[u],
           NEW from, task[t].state \in from,
           NEW to, task'[t].state = to,
           NEW g, g = IF to \in ManagedStates THEN task'[t].gpu ELSE NoGpu
    PROVE  Lifecycle!Move(t, from, to, g)
<1>1. StateOf' = [StateOf EXCEPT ![t] = to]
  BY DEF StateOf
<1>2. HeldOf'[t] = g /\ \A u \in Tasks \ {t} : HeldOf'[u] = HeldOf[u]
  <2>1. HeldOf'[t] = g
    BY DEF HeldOf
  <2>2. ASSUME NEW u \in Tasks \ {t} PROVE HeldOf'[u] = HeldOf[u]
    <3>1. task'[u] = task[u]
      BY <2>2
    <3> QED
      BY <3>1 DEF HeldOf
  <2> QED
    BY <2>1, <2>2
<1>3. HeldOf' = [HeldOf EXCEPT ![t] = g]
  <2>1. /\ HeldOf = [u \in Tasks |-> HeldOf[u]]
        /\ HeldOf' = [u \in Tasks |-> HeldOf'[u]]
    BY DEF HeldOf
  <2> QED
    BY <1>2, <2>1
<1> QED
  BY <1>1, <1>3 DEF StateOf, HeldOf, Lifecycle!Move

\* A statement that changes neither states nor GPUs is no step.
LEMMA RowsStay ==
    ASSUME \A u \in Tasks : task'[u].state = task[u].state /\ task'[u].gpu = task[u].gpu
    PROVE  LStep
BY DEF LStep, StateOf, HeldOf

\* UPDATE_TO_RUNNING_SQL, RESET_STARTING_SQL and UPDATE_FINISHED_SQL.
LEMMA ManagedMoves ==
    ASSUME TypeOK, TypeOK', NEW t \in Tasks,
           \/ task' = SetRunning(t)
           \/ task' = ResetStarting(t)
           \/ \E end \in TerminalStates : task' = SetFinished(t, end)
    PROVE  LStep
<1> USE DEF TypeOK
<1>1. CASE task' = task
  BY <1>1, RowsStay
<1>2. CASE task[t].state = "STARTING" /\ task' = SetRunning(t)
  <2>1. task'[t].state = "RUNNING" /\ task'[t].gpu = task[t].gpu
    BY <1>2 DEF SetRunning, SetState, Row
  <2>2. \A u \in Tasks \ {t} : task'[u] = task[u]
    BY <1>2 DEF SetRunning, SetState
  <2>3. HeldOf[t] = task[t].gpu
    BY <1>2 DEF HeldOf, ManagedStates
  <2>4. HeldOf[t] = IF "RUNNING" \in ManagedStates THEN task'[t].gpu ELSE NoGpu
    BY <2>1, <2>3 DEF ManagedStates
  <2>5. PICK g : g = HeldOf[t]
    OBVIOUS
  <2>6. Lifecycle!Move(t, {"STARTING"}, "RUNNING", g)
    BY <1>2, <2>1, <2>2, <2>4, <2>5, RowMoves
  <2>7. Lifecycle!Begin(t)
    BY <2>5, <2>6 DEF Lifecycle!Begin, Lifecycle!Move, HeldOf
  <2> QED
    BY <2>7 DEF LStep, Lifecycle!Next
<1>3. CASE task[t].state = "STARTING" /\ task' = ResetStarting(t)
  <2>1. Lifecycle!Move(t, {"STARTING"}, "PENDING", NoGpu)
    BY <1>3, RowMoves DEF ResetStarting, BlankRow, ManagedStates
  <2> QED
    BY <2>1 DEF LStep, Lifecycle!Next, Lifecycle!Requeue
<1>4. ASSUME NEW end \in TerminalStates, task[t].state \in ManagedStates,
             task' = SetFinished(t, end)
      PROVE  LStep
  <2>1. task'[t].state = end
    BY <1>4 DEF SetFinished, SetState, Row
  <2>2. Lifecycle!Move(t, ManagedStates, end, NoGpu)
    BY <1>4, <2>1, RowMoves DEF SetFinished, SetState, ManagedStates, TerminalStates
  <2> QED
    BY <2>2 DEF LStep, Lifecycle!Next, Lifecycle!Finish, Lifecycle!Terminal,
                Lifecycle!Managed, ManagedStates, TerminalStates
<1> QED
  BY <1>1, <1>2, <1>3, <1>4 DEF SetRunning, ResetStarting, SetFinished

\* FAIL_PENDING_SQL and SET_ABORTED_SQL.
LEMMA FailureMoves ==
    ASSUME TypeOK, TypeOK', NEW t \in Tasks, task' \in {FailPending(t), SetAborted(t)}
    PROVE  LStep
<1> USE DEF TypeOK
<1>1. CASE task' = task
  BY <1>1, RowsStay
<1>2. CASE task' = SetState(t, "FAILED") /\ task[t].state \in ManagedStates \cup {"PENDING"}
  <2>1. task'[t].state = "FAILED" /\ \A u \in Tasks \ {t} : task'[u] = task[u]
    BY <1>2 DEF SetState, Row
  <2>2. CASE task[t].state = "PENDING"
    <3>1. Lifecycle!Move(t, {"PENDING"}, "FAILED", NoGpu)
      BY <2>1, <2>2, RowMoves DEF ManagedStates
    <3> QED
      BY <3>1 DEF LStep, Lifecycle!Next, Lifecycle!Fail
  <2>3. CASE task[t].state \in ManagedStates
    <3>1. Lifecycle!Move(t, ManagedStates, "FAILED", NoGpu)
      BY <2>1, <2>3, RowMoves DEF ManagedStates
    <3> QED
      BY <3>1 DEF LStep, Lifecycle!Next, Lifecycle!Finish, Lifecycle!Terminal,
                  Lifecycle!Managed, ManagedStates
  <2> QED
    BY <1>2, <2>2, <2>3
<1> QED
  BY <1>1, <1>2 DEF FailPending, SetAborted

\* delete_task and delete_all_tasks, which are for rows that have ended.
LEMMA DeletedMove ==
    ASSUME TypeOK, NEW S \in SUBSET TerminalTasks, task' = Deleted(S)
    PROVE  LStep
<1>1. CASE S = {}
  BY <1>1, RowsStay DEF Deleted
<1>2. CASE S # {}
  <2>1. StateOf' = [t \in Tasks |-> IF t \in S THEN "DELETED" ELSE StateOf[t]]
    BY DEF StateOf, Deleted, BlankRow, TerminalTasks
  <2>2. HeldOf' = HeldOf
    BY DEF HeldOf, Deleted, BlankRow, TerminalTasks, ManagedStates, TerminalStates
  <2>3. \A t \in S : StateOf[t] \in Lifecycle!Terminal
    BY DEF StateOf, TerminalTasks, TerminalStates, Lifecycle!Terminal
  <2>4. Lifecycle!Delete(S)
    BY <1>2, <2>1, <2>2, <2>3 DEF Lifecycle!Delete, StateOf, HeldOf
  <2> QED
    BY <2>4 DEF LStep, Lifecycle!Next, TerminalTasks
<1> QED
  BY <1>1, <1>2

\* The claim takes a GPU that no STARTING or RUNNING row names: the snapshot is
\* never stale in the dangerous direction.
LEMMA ClaimMoves == TypeOK /\ TypeOK' /\ IInv /\ SpawnClaim => LStep
<1> SUFFICES ASSUME TypeOK, TypeOK', IInv, SpawnClaim PROVE LStep
  OBVIOUS
<1>1. /\ cur \in Tasks /\ curGpu \in Gpus /\ task[cur].state = "PENDING"
      /\ task' = Claimed(cur, curGpu)
  BY DEF TypeOK, ProcessTypeOK, IInv, CurIsSpawned, SpawnClaim, MayClaim
<1>2. \A u \in Tasks : HeldOf[u] # curGpu
  BY <1>1, ConstantsAssumption
     DEF HeldOf, IInv, CurIsSpawned, SnapshotIsFree, Unsettled, SpawnClaim, get_managed_tasks
<1>3. PICK t \in Tasks, g \in Gpus : t = cur /\ g = curGpu
  BY <1>1
<1>4. /\ task'[t].state = "STARTING" /\ task'[t].gpu = g
      /\ \A u \in Tasks \ {t} : task'[u] = task[u]
  BY <1>1, <1>3 DEF TypeOK, Claimed, Row
<1>5. g = IF "STARTING" \in ManagedStates THEN task'[t].gpu ELSE NoGpu
  BY <1>4 DEF ManagedStates
<1>6. Lifecycle!Move(t, {"PENDING"}, "STARTING", g)
  BY <1>1, <1>3, <1>4, <1>5, RowMoves DEF TypeOK
<1>7. Lifecycle!Claim(t, g)
  BY <1>2, <1>3, <1>6 DEF Lifecycle!Claim, HeldOf
<1> QED
  BY <1>7 DEF LStep, Lifecycle!Next

\* A submission.
LEMMA SubmissionMoves == \A t \in Tasks : TypeOK /\ TypeOK' /\ Submit(t) => LStep
<1> SUFFICES ASSUME NEW t \in Tasks, TypeOK, TypeOK', Submit(t) PROVE LStep
  OBVIOUS
<1>1. Lifecycle!Move(t, {"NONE"}, "PENDING", NoGpu)
  BY RowMoves DEF TypeOK, Submit, BlankRow, ManagedStates
<1> QED
  BY <1>1 DEF LStep, Lifecycle!Next, Lifecycle!Submit

\* Every step of the scheduler is one of the life cycle, or none.
LEMMA StepIsMapped == TypeOK /\ TypeOK' /\ IInv /\ [Next]_vars => LStep
<1> SUFFICES ASSUME TypeOK, TypeOK', IInv, [Next]_vars PROVE LStep
  OBVIOUS
<1>r. task \in [Tasks -> Row] /\ (LoopHoldsLock => pc = "reconcile" \/ cur \in Tasks)
  BY DEF TypeOK, ProcessTypeOK, LoopHoldsLock
<1>0. CASE task' = task
  BY <1>0, RowsStay
<1>1. ASSUME NEW t \in Tasks, task' = ClearUnit(t) PROVE LStep
  BY <1>1, <1>r, ClearUnitKeeps, RowsStay
<1>2. CASE Startup \/ Top
  BY <1>0, <1>1, <1>2 DEF Startup, Boot, SweepUnit, SweepTimeout, SweepDone, Top, database
<1>3. CASE Reconcile
  <2>1. ASSUME NEW t \in Tasks,
               ReconcileNoUnit(t) \/ ReconcileMissing(t) \/ ReconcileRunning(t)
                 \/ ReconcileExited(t)
        PROVE  LStep
    BY <2>1, ManagedMoves DEF ReconcileNoUnit, ReconcileMissing, ReconcileRunning,
       ReconcileExited, AdoptRunning, RecordExit, TerminalStates
  <2>2. CASE Reap
    BY <1>0, <1>1, <1>r, <2>2 DEF Reap, LoopHoldsLock
  <2> QED
    BY <1>0, <1>3, <2>1, <2>2 DEF Reconcile, RecLock, ReconcileUnavailable, ReconcileError,
       ReconcileDone, ReapTimeout, database
<1>4. CASE Dispatch
  <2>1. ASSUME NEW t \in Tasks, PickEnvGone(t) PROVE LStep
    BY <2>1, FailureMoves DEF PickEnvGone
  <2> QED
    BY <1>0, <1>4, <2>1, ClaimMoves DEF Dispatch, Scan, Probe, PickSkip, PickBreak,
       PickSpawn, PickDone, SpawnRefused, database
<1>5. CASE Launch
  BY <1>0, <1>r, <1>5, ManagedMoves DEF Launch, LaunchLoaded, LaunchRefused,
     LaunchUnavailable, LaunchUnverified, ApplyRunning, ApplyExited, AdoptRunning,
     RecordExit, LoopHoldsLock, TerminalStates, database
<1>6. CASE Handlers
  <2>1. ASSUME NEW t \in Tasks, Submit(t) \/ AbortPending(t) \/ AbortStart(t) \/ DeleteOne(t)
        PROVE  LStep
    <3>1. CASE AbortPending(t)
      BY <3>1, FailureMoves DEF AbortPending
    <3>2. CASE DeleteOne(t)
      BY <3>2, DeletedMove DEF DeleteOne, TerminalTasks
    <3> QED
      BY <1>0, <2>1, <3>1, <3>2, SubmissionMoves DEF AbortStart, database
  <2>2. CASE AbortCommit \/ AbortClean
    <3>1. abort.task \in Tasks
      BY <2>2 DEF IInv, AbortedIsManaged, AbortCommit, AbortClean
    <3> QED
      BY <1>0, <1>1, <2>2, <3>1, FailureMoves DEF AbortCommit, AbortClean
  <2>3. CASE DeleteAllDelete
    BY <2>3, DeletedMove DEF DeleteAllDelete
  <2> QED
    BY <1>0, <1>6, <2>1, <2>2, <2>3 DEF Handlers, AbortSteps, SubmitRejected, AbortStop,
       AbortCleanTimeout, SetGpuScheduling, DeleteAllSelect, database
<1>7. CASE Outside
  BY <1>0, <1>7 DEF Outside, UnitExit, Crash, Reboot, database
<1> QED
  BY <1>0, <1>2, <1>3, <1>4, <1>5, <1>6, <1>7 DEF Next, Scheduler, vars

\* A database of an earlier release is an initial state of the life cycle.
LEMMA InitIsMapped == Init => Lifecycle!Init
<1> SUFFICES ASSUME Init PROVE Lifecycle!Init
  OBVIOUS
<1>1. PICK owner \in [Legacy -> Gpus] :
        /\ \A t, u \in Legacy : owner[t] = owner[u] => t = u
        /\ task = [t \in Tasks |->
                     IF t \in Legacy
                     THEN [state |-> "RUNNING", gpu |-> owner[t], unit |-> FALSE, log |-> TRUE]
                     ELSE BlankRow("NONE")]
  BY DEF Init
<1>2. \A t \in Tasks : /\ StateOf[t] = IF t \in Legacy THEN "RUNNING" ELSE "NONE"
                       /\ HeldOf[t] = IF t \in Legacy THEN owner[t] ELSE NoGpu
  BY <1>1 DEF StateOf, HeldOf, BlankRow, ManagedStates
<1>3. /\ StateOf \in [Tasks -> {"NONE", "RUNNING"}]
      /\ HeldOf \in [Tasks -> Gpus \cup {NoGpu}]
  BY <1>2 DEF StateOf, HeldOf
<1>4. /\ \A t \in Tasks : StateOf[t] = "RUNNING" <=> HeldOf[t] # NoGpu
      /\ \A t, u \in Tasks : HeldOf[t] = HeldOf[u] /\ HeldOf[t] # NoGpu => t = u
  BY <1>1, <1>2, ConstantsAssumption
<1> QED
  BY <1>3, <1>4 DEF Lifecycle!Init, StateOf, HeldOf

\* The scheduler implements the life cycle it promises: a GPU is claimed only if
\* no STARTING or RUNNING task has it, only STARTING tasks go back to the queue,
\* and only tasks that have ended are deleted, whatever fails, crashes or is lost.
THEOREM ImplementsLifecycle == Spec => RefinesLifecycle
<1>1. TypeOK /\ TypeOK' /\ IInv /\ [Next]_vars => [Lifecycle!Next]_(Lifecycle!vars)
  BY StepIsMapped DEF LStep, StateOf, HeldOf, Lifecycle!vars
<1> QED
  BY <1>1, InitIsMapped, TypeCorrect, Invariance, PTL
     DEF Spec, RefinesLifecycle, Lifecycle!Spec

-----------------------------------------------------------------------------
(* The order of the dispatch                                               *)

\* No row is added, and none joins the queue of a dispatch but the one at hand.
RowsKept ==
    /\ job' = job
    /\ \A t \in Tasks :
        /\ task'[t].state = "NONE" <=> task[t].state = "NONE"
        /\ phase = "dispatch" /\ task'[t].state = "PENDING" =>
             task[t].state = "PENDING" \/ t = cur

\* Every step but a submission keeps the rows so.
LEMMA StepKeepsRows ==
    ASSUME TypeOK, IInv, [Next]_vars, \A t \in Tasks : ~Submit(t)
    PROVE  RowsKept
<1>r. /\ task \in [Tasks -> Row] /\ cur \in Tasks \cup {NoTask}
      /\ LoopHoldsLock => pc = "reconcile" \/ cur \in Tasks
  BY DEF TypeOK, ProcessTypeOK, LoopHoldsLock
<1>0. CASE task' = task /\ job' = job
  BY <1>0 DEF RowsKept
<1>1. ASSUME NEW t \in Tasks, task' = ClearUnit(t), job' = job PROVE RowsKept
  BY <1>1, <1>r, ClearUnitKeeps DEF RowsKept
<1>2. ASSUME NEW t \in Tasks, job' = job,
             \/ task' = SetRunning(t) \/ task' = FailPending(t) \/ task' = SetAborted(t)
             \/ \E end \in TerminalStates : task' = SetFinished(t, end)
      PROVE  RowsKept
  BY <1>2, <1>r DEF RowsKept, SetRunning, FailPending, SetAborted, SetFinished, SetState, Row,
     ManagedStates, TerminalStates
<1>3. ASSUME NEW t \in Tasks, job' = job, task' = ResetStarting(t),
             phase = "dispatch" => t = cur
      PROVE  RowsKept
  BY <1>3, <1>r DEF RowsKept, ResetStarting, BlankRow, Row
<1>4. CASE Startup \/ Top
  BY <1>0, <1>1, <1>4 DEF Startup, Boot, SweepUnit, SweepTimeout, SweepDone, Top, database
<1>5. CASE Reconcile
  <2>1. ASSUME NEW t \in Tasks,
               ReconcileNoUnit(t) \/ ReconcileMissing(t) \/ ReconcileRunning(t)
                 \/ ReconcileExited(t)
        PROVE  RowsKept
    BY <1>2, <1>3, <2>1 DEF ReconcileNoUnit, ReconcileMissing, ReconcileRunning,
       ReconcileExited, AdoptRunning, RecordExit, TerminalStates, IInv, PhaseOfPc
  <2>2. CASE Reap
    BY <1>0, <1>1, <1>r, <2>2 DEF Reap, LoopHoldsLock
  <2> QED
    BY <1>0, <1>5, <2>1, <2>2 DEF Reconcile, RecLock, ReconcileUnavailable, ReconcileError,
       ReconcileDone, ReapTimeout, database
<1>6. CASE Dispatch
  <2>1. CASE SpawnClaim
    BY <2>1, <1>r DEF SpawnClaim, MayClaim, Claimed, RowsKept, Row
  <2> QED
    BY <1>0, <1>2, <1>6, <2>1 DEF Dispatch, Scan, Probe, PickSkip, PickBreak, PickEnvGone,
       PickSpawn, PickDone, SpawnRefused, database
<1>7. CASE Launch
  <2>1. CASE LaunchUnavailable
    <3>1. PICK t \in Tasks : t = cur
      BY <1>r, <2>1 DEF LaunchUnavailable, LoopHoldsLock
    <3> QED
      BY <1>3, <2>1, <3>1 DEF LaunchUnavailable
  <2> QED
    BY <1>0, <1>2, <1>7, <1>r, <2>1 DEF Launch, LaunchLoaded, LaunchRefused,
       LaunchUnverified, ApplyRunning, ApplyExited, AdoptRunning, RecordExit,
       LoopHoldsLock, TerminalStates, database
<1>8. CASE Handlers
  <2>1. ASSUME NEW S \in SUBSET TerminalTasks, task' = Deleted(S), job' = job PROVE RowsKept
    BY <2>1, <1>r DEF RowsKept, Deleted, BlankRow, TerminalTasks, TerminalStates
  <2>2. abort.at # "idle" => abort.task \in Tasks
    BY DEF IInv, AbortedIsManaged
  <2>3. ASSUME NEW t \in Tasks, AbortPending(t) \/ AbortStart(t) \/ DeleteOne(t)
        PROVE  RowsKept
    BY <1>0, <1>2, <2>1, <2>3 DEF AbortPending, AbortStart, DeleteOne, TerminalTasks, database
  <2>4. CASE AbortCommit \/ AbortClean
    BY <1>0, <1>1, <1>2, <2>2, <2>4 DEF AbortCommit, AbortClean
  <2>5. CASE DeleteAllDelete
    BY <2>1, <2>5 DEF DeleteAllDelete
  <2> QED
    BY <1>0, <1>8, <2>3, <2>4, <2>5 DEF Handlers, AbortSteps, SubmitRejected, AbortStop,
       AbortCleanTimeout, SetGpuScheduling, DeleteAllSelect, database
<1>9. CASE Outside
  BY <1>0, <1>9 DEF Outside, UnitExit, Crash, Reboot, database
<1> QED
  BY <1>0, <1>4, <1>5, <1>6, <1>7, <1>8, <1>9 DEF Next, Scheduler, vars

\* A submission is younger than every row there is.
LEMMA SubmissionIsLast ==
    ASSUME TypeOK, NEW t \in Tasks, Submit(t)
    PROVE  /\ task[t].state = "NONE" /\ task'[t].state = "PENDING"
           /\ job'[t].after = {u \in Tasks : task[u].state # "NONE"}
           /\ \A u \in Tasks \ {t} : task'[u] = task[u] /\ job'[u] = job[u]
           /\ UNCHANGED loopVars
BY DEF Submit, TypeOK, BlankRow

\* Ages agree after a submission and after every other step.
LEMMA AgesNext == TypeOK /\ IInv /\ AgesAgree /\ [Next]_vars => AgesAgree'
<1> SUFFICES ASSUME TypeOK, IInv, AgesAgree, [Next]_vars PROVE AgesAgree'
  OBVIOUS
<1>1. ASSUME NEW t \in Tasks, Submit(t) PROVE AgesAgree'
  <2> SUFFICES ASSUME NEW v \in Tasks, NEW u \in Tasks,
                      task'[v].state # "NONE", u \in job'[v].after
               PROVE  task'[u].state # "NONE" /\ v \notin job'[u].after
    BY DEF AgesAgree
  <2>1. CASE v = t
    BY <1>1, <2>1, SubmissionIsLast DEF AgesAgree
  <2>2. CASE v # t
    BY <1>1, <2>2, SubmissionIsLast DEF AgesAgree
  <2> QED
    BY <2>1, <2>2
<1>2. CASE \A t \in Tasks : ~Submit(t)
  BY <1>2, StepKeepsRows DEF AgesAgree, RowsKept
<1> QED
  BY <1>1, <1>2

\* A step that keeps the rows, and changes the loop no further than to let go of
\* the row at hand.
LEMMA QueueStays ==
    ASSUME TypeOK, IInv', OrderInv, Tried, Late, RowsKept, AgesAgree', phase' = phase,
           todo' = todo, available' \subseteq available, cur' \in {cur, NoTask},
           pc' = "spawn" => pc = "spawn" /\ cur' = cur, pc' = "probe" => pc = "probe"
    PROVE  OrderInv'
<1> USE ConstantsAssumption DEF OrderInv, RowsKept
<1>0. todo \subseteq Tasks /\ (pc = "spawn" => cur \in Tasks)
  BY DEF TypeOK, ProcessTypeOK
<1>1. QueueIsSubmitted'
  BY <1>0 DEF QueueIsSubmitted, Queue
<1>2. CurIsTried'
  BY DEF CurIsTried, Tried
<1>3. PassedOver'
  BY <1>0 DEF PassedOver, Queue, Tried, Late, CurIsTried, get_pending_tasks
<1>4. CurIsFirst'
  BY DEF CurIsFirst, Before
<1> QED
  BY <1>1, <1>2, <1>3, <1>4

\* Outside the dispatch there is no queue.
LEMMA NoQueue ==
    ASSUME TypeOK', IInv', Tried, Late, AgesAgree', phase' # "dispatch"
    PROVE  OrderInv'
<1>1. pc' # "spawn"
  BY DEF IInv, PhaseOfPc, TypeOK, ProcessTypeOK
<1>2. QueueIsSubmitted' /\ PassedOver' /\ CurIsTried'
  BY DEF QueueIsSubmitted, PassedOver, CurIsTried
<1>3. CurIsFirst'
  BY <1>1 DEF CurIsFirst
<1> QED
  BY <1>2, <1>3 DEF OrderInv

\* A submission during the dispatch joins behind the queue.
LEMMA SubmissionWaits ==
    ASSUME TypeOK, IInv, OrderInv, Tried, Late, AgesAgree', NEW t \in Tasks, Submit(t)
    PROVE  OrderInv'
<1> USE ConstantsAssumption DEF OrderInv
<1>0. /\ task[t].state = "NONE" /\ task'[t].state = "PENDING"
      /\ job'[t].after = {u \in Tasks : task[u].state # "NONE"}
      /\ \A u \in Tasks \ {t} : task'[u] = task[u] /\ job'[u] = job[u]
      /\ UNCHANGED loopVars /\ todo \subseteq Tasks /\ (pc = "spawn" => cur \in Tasks)
      /\ (pc = "spawn" => phase = "dispatch")
  BY SubmissionIsLast DEF TypeOK, ProcessTypeOK, IInv, PhaseOfPc
<1>1. phase = "dispatch" => t \notin Queue
  BY <1>0 DEF QueueIsSubmitted
<1>2. QueueIsSubmitted'
  BY <1>0, <1>1 DEF QueueIsSubmitted, Queue, loopVars
<1>3. CurIsTried'
  BY <1>0 DEF CurIsTried, Tried, loopVars
<1>4. PassedOver'
  <2> SUFFICES ASSUME phase' = "dispatch", NEW u \in Tasks, task'[u].state = "PENDING",
                      u \notin todo' \cup tried'
               PROVE  \/ u \in late' /\ \A v \in Queue' : u \notin job'[v].after
                      \/ pc' # "probe" /\ job'[u].pref \notin available' \cup {NoGpu}
    BY DEF PassedOver, get_pending_tasks
  <2>1. CASE u = t
    BY <1>0, <1>1, <2>1 DEF AgesAgree, QueueIsSubmitted, Queue, Late, Submitted, loopVars
  <2>2. CASE u # t
    <3>1. u \in get_pending_tasks \ (todo \cup tried)
      BY <1>0, <2>2 DEF Tried, get_pending_tasks, loopVars
    <3> QED
      BY <1>0, <1>1, <2>2, <3>1 DEF PassedOver, Queue, Late, loopVars
  <2> QED
    BY <2>1, <2>2
<1>5. CurIsFirst'
  BY <1>0, <1>1 DEF CurIsFirst, Queue, Before, loopVars
<1> QED
  BY <1>2, <1>3, <1>4, <1>5

\* The steps of the dispatch itself.
LEMMA DispatchSteps ==
    ASSUME TypeOK, IInv, IInv', OrderInv, Tried, Late, AgesAgree', Dispatch, phase' = "dispatch"
    PROVE  OrderInv'
<1> USE ConstantsAssumption DEF OrderInv
<1>0. todo \subseteq Tasks /\ (pc = "spawn" => cur \in Tasks)
  BY DEF TypeOK, ProcessTypeOK
<1>1. CASE Scan
  <2>1. /\ pc' = "probe"
        /\ todo' = get_pending_tasks /\ task' = task /\ job' = job
    BY <1>1 DEF Scan, EndIteration, database
  <2>2. QueueIsSubmitted' /\ PassedOver' /\ CurIsTried' /\ CurIsFirst'
    BY <2>1 DEF QueueIsSubmitted, PassedOver, Queue, CurIsTried, CurIsFirst, Tried, Late,
       get_pending_tasks
  <2> QED
    BY <2>2
<1>2. CASE Probe
  <2>1. /\ phase = "dispatch" /\ cur' = cur /\ todo' = todo /\ pc = "probe"
        /\ pc' \in {"probe", "pick"} /\ task' = task /\ job' = job
    BY <1>2 DEF Probe, IInv, PhaseOfPc, database
  <2>2. QueueIsSubmitted' /\ PassedOver' /\ CurIsTried' /\ CurIsFirst'
    BY <2>1 DEF QueueIsSubmitted, PassedOver, Queue, CurIsTried, CurIsFirst, Tried, Late,
       get_pending_tasks
  <2> QED
    BY <2>2
<1>3. ASSUME NEW t \in Tasks, PickSkip(t) \/ PickEnvGone(t) PROVE OrderInv'
  <2>1. /\ phase = "dispatch" /\ cur' = cur /\ todo' = todo \ {t} /\ pc = "pick"
        /\ pc' = "pick" /\ job' = job /\ available' = available
        /\ t \in todo
    BY <1>3 DEF PickSkip, PickEnvGone, IInv, PhaseOfPc, database, FirstOf
  <2>2. \A u \in Tasks : /\ task'[u].state = "NONE" <=> task[u].state = "NONE"
                         /\ task'[u].state = "PENDING" => task[u].state = "PENDING"
    BY <1>3 DEF PickSkip, PickEnvGone, FailPending, SetState, database, TypeOK, Row
  <2>3. \/ task'[t].state # "PENDING"
        \/ job[t].pref \notin available \cup {NoGpu}
    BY <1>3, <1>0 DEF PickSkip, PickEnvGone, Choice, FailPending, SetState, TypeOK, Row
  <2>4. QueueIsSubmitted' /\ CurIsTried' /\ CurIsFirst'
    BY <1>0, <2>1, <2>2 DEF QueueIsSubmitted, Queue, CurIsTried, CurIsFirst, Tried
  <2>5. PassedOver'
    BY <1>0, <2>1, <2>2, <2>3 DEF PassedOver, Queue, get_pending_tasks, Tried, Late
  <2> QED
    BY <2>4, <2>5
<1>4. ASSUME NEW t \in Tasks, PickSpawn(t) PROVE OrderInv'
  <2>1. /\ phase = "dispatch" /\ cur' = t /\ todo' = todo \ {t} /\ t \in FirstOf(todo)
        /\ task' = task /\ job' = job /\ available' = available /\ pc = "pick"
        /\ pc' = "spawn"
    BY <1>4 DEF PickSpawn, IInv, PhaseOfPc, database
  <2>2. QueueIsSubmitted' /\ CurIsTried' /\ CurIsFirst'
    BY <1>0, <2>1 DEF QueueIsSubmitted, Queue, CurIsTried, CurIsFirst, Tried, FirstOf,
       Before
  <2>3. PassedOver'
    BY <1>0, <2>1 DEF PassedOver, Queue, get_pending_tasks, Tried, Late, FirstOf
  <2> QED
    BY <2>2, <2>3
<1>5. CASE SpawnRefused
  <2>1. RowsKept
    BY <1>5 DEF SpawnRefused, RowsKept, database
  <2> QED
    BY <1>5, <2>1, QueueStays DEF SpawnRefused, NextRow, IInv, PhaseOfPc
<1>6. CASE SpawnClaim
  <2>1. RowsKept
    BY <1>6 DEF SpawnClaim, MayClaim, Claimed, RowsKept, TypeOK, Row
  <2> QED
    BY <1>6, <2>1, QueueStays DEF SpawnClaim, EndIteration, IInv, PhaseOfPc
<1> QED
  BY <1>1, <1>2, <1>3, <1>4, <1>5, <1>6
     DEF Dispatch, PickBreak, PickDone, EndIteration

\* Every step keeps the invariant of the queue.
LEMMA NextOrder ==
    TypeOK /\ TypeOK' /\ IInv /\ IInv' /\ OrderInv /\ Tried /\ Late /\ [Next]_vars => OrderInv'
<1> SUFFICES ASSUME TypeOK, TypeOK', IInv, IInv', OrderInv, Tried, Late, [Next]_vars
             PROVE  OrderInv'
  OBVIOUS
<1>a. AgesAgree'
  BY AgesNext DEF OrderInv
<1>1. CASE phase' # "dispatch"
  BY <1>a, <1>1, NoQueue
<1>2. CASE phase' = "dispatch" /\ Dispatch
  BY <1>a, <1>2, DispatchSteps
<1>3. ASSUME NEW t \in Tasks, Submit(t) PROVE OrderInv'
  BY <1>a, <1>3, SubmissionWaits
<1>4. CASE phase' = "dispatch" /\ ~Dispatch /\ \A t \in Tasks : ~Submit(t)
  <2>1. RowsKept
    BY <1>4, StepKeepsRows
  <2>2. CASE UNCHANGED loopVars
    BY <1>a, <2>1, <2>2, QueueStays DEF loopVars
  <2>3. CASE Startup \/ Top \/ Reconcile \/ Launch
    <3>0. phase = "dispatch" /\ pc \in {"launch", "apply", "reap"}
      <4>1. CASE Startup \/ Top
        BY <1>4, <4>1 DEF Startup, Boot, SweepUnit, SweepTimeout, SweepDone, EndSweep, Top,
           Raise, Halt, EndIteration, IInv, PhaseOfPc, TypeOK, ProcessTypeOK
      <4>2. CASE Reconcile
        BY <1>4, <4>2 DEF Reconcile, RecLock, ReconcileNoUnit, ReconcileMissing,
           ReconcileRunning, ReconcileExited, ReconcileUnavailable, ReconcileError,
           ReconcileDone, StartSweep, Reap, ReapTimeout, Raise, Halt, EndIteration, NextRow,
           RecordExit, IInv, PhaseOfPc, TypeOK, ProcessTypeOK
      <4>3. CASE Launch
        BY <4>3 DEF Launch, LaunchLoaded, LaunchRefused, LaunchUnavailable, LaunchUnverified,
           ApplyRunning, ApplyExited, IInv, PhaseOfPc, TypeOK, ProcessTypeOK
      <4> QED
        BY <2>3, <4>1, <4>2, <4>3
    <3>1. /\ phase' = phase /\ todo' = todo /\ available' \subseteq available
          /\ cur' \in {cur, NoTask} /\ pc' \notin {"spawn", "probe"}
      <4>1. CASE Launch
        BY <1>4, <3>0, <4>1 DEF Launch, LaunchLoaded, LaunchRefused, LaunchUnavailable,
           LaunchUnverified, ApplyRunning, ApplyExited, RecordExit, EndIteration, NextRow
      <4>2. CASE ~Launch
        BY <1>4, <2>3, <3>0, <4>2 DEF Startup, Boot, SweepUnit, SweepTimeout, SweepDone, Top,
           Raise, Halt, EndIteration, NextRow, Reconcile, RecLock, ReconcileNoUnit,
           ReconcileMissing, ReconcileRunning, ReconcileExited, ReconcileUnavailable,
           ReconcileError, ReconcileDone, Reap, ReapTimeout
      <4> QED
        BY <4>1, <4>2
    <3> QED
      BY <1>a, <2>1, <3>1, QueueStays
  <2>4. CASE Handlers
    BY <1>4, <2>2, <2>4 DEF Handlers, AbortPending, AbortStart, DeleteOne, SubmitRejected,
       AbortSteps, AbortStop, AbortCommit, AbortClean, AbortCleanTimeout, SetGpuScheduling,
       DeleteAllSelect, DeleteAllDelete
  <2>5. CASE Outside
    BY <1>4, <2>2, <2>5 DEF Outside, UnitExit, Crash, Reboot, Halt
  <2>6. CASE UNCHANGED vars
    BY <2>2, <2>6 DEF vars, loopVars
  <2> QED
    BY <1>4, <2>3, <2>4, <2>5, <2>6 DEF Next, Scheduler
<1> QED
  BY <1>1, <1>2, <1>3, <1>4

\* No step of the scheduler overtakes.
LEMMA ClaimKeepsOrder ==
    ASSUME TypeOK, IInv, OrderInv, [Next]_vars, NEW u \in get_pending_tasks \ tried,
           NEW g \in Gpus, job[u].pref \in {NoGpu, g}
    PROVE  ~Overtaken(u, g)
<1> SUFFICES ASSUME NEW t \in Tasks, Gives(t, g), u \in job[t].after,
                    job[u].prio >= job[t].prio
             PROVE  FALSE
  BY DEF Overtaken
<1>0. /\ u \in Tasks /\ task[u].state = "PENDING"
      /\ job[u].prio \in Nat /\ job[t].prio \in Nat
  BY DEF get_pending_tasks, TypeOK, Job
<1>1. pc = "spawn" /\ t = cur /\ g = curGpu
  <2>1. SpawnClaim
    BY OnlySpawnGives DEF Gives, vars, TypeOK, Row
  <2> QED
    BY <2>1 DEF SpawnClaim, Claimed, Gives, TypeOK, Row
<1>2. phase = "dispatch" /\ curGpu \in available
  BY <1>1 DEF IInv, PhaseOfPc, CurIsSpawned, TypeOK, ProcessTypeOK
<1>3. CASE u \in todo
  BY <1>0, <1>1, <1>3 DEF OrderInv, CurIsFirst, AgesAgree, Before, Gives
<1>4. CASE u \notin todo
  BY <1>1, <1>2, <1>4 DEF OrderInv, PassedOver, Queue
<1> QED
  BY <1>3, <1>4

\* Numbers have a lowest one: GPUs, and how many come before a task.
LEMMA LowestExists ==
    ASSUME NEW S \in SUBSET Nat, S # {}
    PROVE  Lowest(S) # {}
<1> DEFINE R == {p \in Nat \X Nat : p[1] < p[2]}
<1>1. IsWellFoundedOn(R, Nat)
  BY NatLessThanWellFounded DEF OpToRel
<1>2. PICK x \in S : \A y \in S : <<y, x>> \notin R
  <2> HIDE DEF R
  <2> QED
    BY <1>1, WFMin
<1>3. ASSUME NEW y \in S PROVE x <= y
  <2>1. <<y, x>> \in Nat \X Nat /\ <<y, x>>[1] = y /\ <<y, x>>[2] = x
    OBVIOUS
  <2>2. ~(y < x)
    BY <1>2, <2>1
  <2> QED
    BY <2>2
<1> QED
  BY <1>3 DEF Lowest

\* A dispatch that ends has seen to all that it could.
LEMMA EndLeavesNone ==
    ASSUME TypeOK, IInv, OrderInv, [Next]_vars, NEW u \in get_pending_tasks \ tried,
           NEW g \in Gpus, job[u].pref \in {NoGpu, g}
    PROVE  ~LeftOver(u, g)
<1> SUFFICES ASSUME pc = "pick", phase' = "loop", g \in available, u \notin late
             PROVE  FALSE
  BY DEF LeftOver
<1>0. phase = "dispatch" /\ available \subseteq Gpus
  BY DEF IInv, PhaseOfPc, TypeOK, ProcessTypeOK
<1>1. u \in todo
  BY <1>0 DEF OrderInv, PassedOver
<1>2. Lowest(available) # {}
  BY <1>0, LowestExists, ConstantsAssumption
<1>3. Dispatch
  BY <1>0 DEF Next, Scheduler, Startup, Boot, SweepUnit, SweepTimeout, SweepDone, Top, Reconcile,
     RecLock, ReconcileNoUnit, ReconcileMissing, ReconcileRunning, ReconcileExited,
     ReconcileUnavailable, ReconcileError, ReconcileDone, Reap, ReapTimeout, Launch,
     LaunchLoaded, LaunchRefused, LaunchUnavailable, LaunchUnverified, ApplyRunning,
     ApplyExited, Handlers, Submit, AbortPending, AbortStart, DeleteOne, SubmitRejected,
     AbortSteps, AbortStop, AbortCommit, AbortClean, AbortCleanTimeout, SetGpuScheduling,
     DeleteAllSelect, DeleteAllDelete, Outside, UnitExit, Crash, Reboot, Halt, loopVars, vars
<1>4. PickDone \/ \E t \in Tasks : PickBreak(t)
  BY <1>0, <1>3 DEF Dispatch, Scan, Probe, PickSkip, PickEnvGone, PickSpawn, SpawnRefused,
     SpawnClaim
<1>5. todo = {} \/ Lowest(available) = {}
  BY <1>4 DEF PickDone, PickBreak, Choice
<1> QED
  BY <1>1, <1>2, <1>5

\* Nobody is passed over: no task gets a GPU that one before it in the queue could
\* have used, and no dispatch that comes to its end leaves a GPU to spare for a task
\* it has read, unless it has tried that one.
THEOREM NobodyIsPassedOver == OrderSpec => NoneIsPassedOver
<1>1. OrderInit => OrderInv
  BY ConstantsAssumption DEF OrderInit, Init, OrderInv, AgesAgree, QueueIsSubmitted, PassedOver,
     Queue, CurIsFirst, CurIsTried
<1>2. [OrderNext]_OrderVars => [Next]_vars
  BY DEF OrderNext, OrderVars
<1>3. TypeOK /\ TypeOK' /\ IInv /\ IInv' /\ OrderInv /\ [OrderNext]_OrderVars => OrderInv'
  <2>1. CASE UNCHANGED OrderVars
    BY <2>1 DEF OrderVars, vars, OrderInv, AgesAgree, QueueIsSubmitted, PassedOver, Queue,
       CurIsFirst, CurIsTried, Before, get_pending_tasks
  <2> QED
    BY <2>1, NextOrder DEF OrderNext, OrderVars
<1>4. TypeOK /\ IInv /\ OrderInv /\ [OrderNext]_OrderVars =>
        [\A u \in get_pending_tasks \ tried, g \in Gpus :
           job[u].pref \in {NoGpu, g} => ~Overtaken(u, g) /\ ~LeftOver(u, g)]_OrderVars
  BY <1>2, ClaimKeepsOrder, EndLeavesNone DEF OrderVars
<1> QED
  BY <1>1, <1>2, <1>3, <1>4, TypeCorrect, Invariance, PTL
     DEF OrderSpec, OrderInit, Spec, NoneIsPassedOver

-----------------------------------------------------------------------------
(* The queue is an order, and the loop finds its next step.                *)

\* The rows that were submitted to this release, and not copied from an earlier one.
QueueRows == {t \in Tasks \ Legacy : task[t].state # "NONE"}

\* Ages are a total order of these, and only they are ever in a queue.
AgeInv ==
    /\ AgesAgree
    /\ \A t \in Tasks : task[t].state = "NONE" => job[t].after = {}
    /\ \A t, u \in QueueRows : t = u \/ t \in job[u].after \/ u \in job[t].after
    /\ \A t, u, v \in Tasks : t \in job[u].after /\ u \in job[v].after => t \in job[v].after
    /\ \A t \in Legacy : task[t].state \notin {"NONE", "PENDING", "STARTING"}
    /\ phase = "dispatch" => todo \subseteq QueueRows

\* The dispatch reads its rows once and only ever takes some away.
LEMMA TodoShrinks ==
    ASSUME TypeOK, IInv, [Next]_vars, phase' = "dispatch"
    PROVE  \/ phase = "dispatch" /\ todo' \subseteq todo
           \/ todo' = get_pending_tasks /\ task' = task
<1>1. CASE UNCHANGED loopVars
  BY <1>1 DEF loopVars
<1>2. CASE Startup \/ Top
  BY <1>2 DEF Startup, Boot, SweepUnit, SweepTimeout, SweepDone, EndSweep, Top, Raise, Halt,
     EndIteration, IInv, PhaseOfPc
<1>3. CASE Reconcile
  BY <1>3 DEF Reconcile, RecLock, ReconcileNoUnit, ReconcileMissing, ReconcileRunning,
     ReconcileExited, ReconcileUnavailable, ReconcileError, ReconcileDone, StartSweep, Reap,
     ReapTimeout, Raise, Halt, EndIteration, NextRow, RecordExit, IInv, PhaseOfPc, TypeOK,
     ProcessTypeOK
<1>4. CASE Dispatch
  BY <1>4 DEF Dispatch, Scan, Probe, PickSkip, PickBreak, PickEnvGone, PickSpawn, PickDone,
     SpawnRefused, SpawnClaim, EndIteration, NextRow, IInv, PhaseOfPc, TypeOK, ProcessTypeOK,
     database
<1>5. CASE Launch
  BY <1>5 DEF Launch, LaunchLoaded, LaunchRefused, LaunchUnavailable, LaunchUnverified,
     ApplyRunning, ApplyExited, RecordExit, EndIteration, NextRow, IInv, PhaseOfPc, TypeOK,
     ProcessTypeOK
<1>6. CASE Handlers
  BY <1>1, <1>6 DEF Handlers, Submit, AbortPending, AbortStart, DeleteOne, SubmitRejected,
     AbortSteps, AbortStop, AbortCommit, AbortClean, AbortCleanTimeout, SetGpuScheduling,
     DeleteAllSelect, DeleteAllDelete
<1>7. CASE Outside
  BY <1>1, <1>7 DEF Outside, UnitExit, Crash, Reboot, Halt
<1> QED
  BY <1>1, <1>2, <1>3, <1>4, <1>5, <1>6, <1>7 DEF Next, Scheduler, vars, loopVars

\* Rows of an earlier release never wait.
LEMMA LegacyStays ==
    ASSUME TypeOK, TypeOK', IInv, [Next]_vars, NEW t \in Legacy,
           task[t].state \notin {"NONE", "PENDING", "STARTING"}
    PROVE  task'[t].state \notin {"NONE", "PENDING", "STARTING"}
<1>1. t \in Tasks /\ StateOf[t] = task[t].state /\ StateOf'[t] = task'[t].state
  BY ConstantsAssumption DEF StateOf
<1>2. LStep
  BY StepIsMapped
<1> QED
  BY <1>1, <1>2 DEF LStep, Lifecycle!Next, Lifecycle!Submit, Lifecycle!Claim, Lifecycle!Begin,
     Lifecycle!Requeue, Lifecycle!Finish, Lifecycle!Fail, Lifecycle!Delete, Lifecycle!Move,
     Lifecycle!Managed, Lifecycle!Terminal, StateOf, HeldOf

\* Every step keeps the order of ages.
LEMMA NextAges ==
    TypeOK /\ TypeOK' /\ IInv /\ AgeInv /\ [Next]_vars => AgeInv'
<1> SUFFICES ASSUME TypeOK, TypeOK', IInv, AgeInv, [Next]_vars PROVE AgeInv'
  OBVIOUS
<1>1. AgesAgree'
  BY AgesNext DEF AgeInv
<1>2. \A t \in Legacy : task'[t].state \notin {"NONE", "PENDING", "STARTING"}
  BY LegacyStays DEF AgeInv
<1>3. ASSUME NEW w \in Tasks, Submit(w) PROVE AgeInv'
  <2>1. /\ task[w].state = "NONE" /\ task'[w].state = "PENDING"
        /\ job'[w].after = {u \in Tasks : task[u].state # "NONE"}
        /\ \A u \in Tasks \ {w} : task'[u] = task[u] /\ job'[u] = job[u]
        /\ UNCHANGED loopVars
    BY <1>3, SubmissionIsLast
  <2>2. \A t \in Tasks : task'[t].state = "NONE" => job'[t].after = {}
    BY <2>1 DEF AgeInv
  <2>3. QueueRows' \subseteq QueueRows \cup {w} /\ QueueRows \subseteq QueueRows'
    BY <2>1 DEF QueueRows
  <2>4. ASSUME NEW t \in QueueRows', NEW u \in QueueRows'
        PROVE  t = u \/ t \in job'[u].after \/ u \in job'[t].after
    BY <2>1, <2>3 DEF AgeInv, QueueRows
  <2>5. ASSUME NEW t \in Tasks, NEW u \in Tasks, NEW v \in Tasks,
               t \in job'[u].after, u \in job'[v].after
        PROVE  t \in job'[v].after
    <3>1. CASE v = w
      BY <2>1, <2>5, <3>1 DEF AgeInv, AgesAgree
    <3>2. CASE v # w
      <4>1. u # w
        BY <2>1, <2>5, <3>2 DEF AgeInv, AgesAgree
      <4> QED
        BY <2>1, <2>5, <3>2, <4>1 DEF AgeInv
    <3> QED
      BY <3>1, <3>2
  <2>6. phase' = "dispatch" => todo' \subseteq QueueRows'
    BY <2>1, <2>3 DEF AgeInv, loopVars
  <2> QED
    BY <1>1, <1>2, <2>2, <2>4, <2>5, <2>6 DEF AgeInv
<1>4. CASE \A t \in Tasks : ~Submit(t)
  <2>1. RowsKept
    BY <1>4, StepKeepsRows
  <2>2. QueueRows' = QueueRows /\ job' = job
    BY <2>1 DEF RowsKept, QueueRows
  <2>3. get_pending_tasks \subseteq QueueRows
    BY DEF AgeInv, get_pending_tasks, QueueRows
  <2>4. phase' = "dispatch" => todo' \subseteq QueueRows'
    BY <2>2, <2>3, TodoShrinks DEF AgeInv
  <2> QED
    BY <1>1, <1>2, <2>1, <2>2, <2>4 DEF AgeInv, RowsKept
<1> QED
  BY <1>3, <1>4

\* ORDER BY priority DESC, created_at ASC leaves one row for the first place.
LEMMA QueueHasAHead ==
    ASSUME TypeOK, AgeInv, IsFiniteSet(Tasks), NEW S \in SUBSET QueueRows, S # {}
    PROVE  \E t \in S : FirstOf(S) = {t}
<1> DEFINE Ahead(t) == {u \in S : Before(u, t)}
           Places == {Cardinality(Ahead(t)) : t \in S}
<1>0. S \subseteq Tasks /\ \A t \in S : job[t].prio \in Nat /\ task[t].state # "NONE"
  BY DEF QueueRows, TypeOK, Job
<1>1. \A t, u \in S : t # u => Before(t, u) \/ Before(u, t)
  BY <1>0 DEF AgeInv, Before
<1>2. \A t, u \in S : Before(t, u) => ~Before(u, t)
  BY <1>0 DEF AgeInv, AgesAgree, Before
<1>3. \A t, u, v \in S : Before(t, u) /\ Before(u, v) => Before(t, v)
  BY <1>0 DEF AgeInv, Before
<1>4. ASSUME NEW t \in S PROVE IsFiniteSet(Ahead(t)) /\ Cardinality(Ahead(t)) \in Nat
  BY <1>0, FS_Subset, FS_CardinalityType
<1>5. PICK t \in S : \A u \in S : Cardinality(Ahead(t)) <= Cardinality(Ahead(u))
  <2>1. Places \in SUBSET Nat /\ Places # {}
    BY <1>4
  <2>2. PICK n \in Places : \A m \in Places : n <= m
    BY <2>1, LowestExists DEF Lowest
  <2> QED
    BY <2>2
<1>6. Ahead(t) = {}
  <2> SUFFICES ASSUME NEW u \in Ahead(t) PROVE FALSE
    OBVIOUS
  <2>1. Ahead(u) \subseteq Ahead(t) \ {u}
    BY <1>2, <1>3
  <2>2. /\ IsFiniteSet(Ahead(t) \ {u}) /\ Cardinality(Ahead(t) \ {u}) \in Nat
        /\ Cardinality(Ahead(t) \ {u}) = Cardinality(Ahead(t)) - 1
    <3> HIDE DEF Ahead
    <3> QED
      BY <1>4, OneLess, FS_Subset
  <2>3. Cardinality(Ahead(u)) <= Cardinality(Ahead(t) \ {u})
    <3> HIDE DEF Ahead
    <3> QED
      BY <2>1, <2>2, FS_Subset
  <2>4. u \in S /\ Cardinality(Ahead(t)) <= Cardinality(Ahead(u))
    BY <1>5
  <2> HIDE DEF Ahead
  <2> QED
    BY <1>4, <2>2, <2>3, <2>4
<1>7. FirstOf(S) = {t}
  BY <1>1, <1>2, <1>6 DEF FirstOf
<1> QED
  BY <1>7

\* The loop never asks in vain for the next GPU to look at, the next row to launch,
\* or the end of the unit that it has started.
LoopGoesOn ==
    /\ pc = "probe" => Lowest(probing) # {}
    /\ pc = "pick" /\ todo # {} => \E t \in todo : FirstOf(todo) = {t}
    /\ pc = "apply" => UnitLoaded(cur)

\* What a step that asks for the next GPU, or for the end of a unit, has found.
StepInv ==
    /\ pc = "probe" => probing # {}
    /\ pc = "apply" => UnitLoaded(cur)

\* Every step keeps it: while a launch has the lock, nobody removes its unit.
LEMMA NextStep == TypeOK /\ TypeOK' /\ IInv /\ StepInv /\ [Next]_vars => StepInv'
<1> SUFFICES ASSUME TypeOK, TypeOK', IInv, StepInv, [Next]_vars PROVE StepInv'
  OBVIOUS
<1> USE DEF StepInv
<1>1. CASE Startup \/ Top \/ Reconcile
  <2>1. pc' \notin {"probe", "apply"}
    BY <1>1 DEF Startup, Boot, SweepUnit, SweepTimeout, SweepDone, EndSweep, Top, Raise, Halt,
       EndIteration, NextRow, Reconcile, RecLock, ReconcileNoUnit, ReconcileMissing,
       ReconcileRunning, ReconcileExited, ReconcileUnavailable, ReconcileError, ReconcileDone,
       StartSweep, Reap, ReapTimeout, RecordExit
  <2> QED
    BY <2>1
<1>2. CASE Dispatch
  BY <1>2, ConstantsAssumption DEF Dispatch, Scan, Probe, PickSkip, PickBreak, PickEnvGone,
     PickSpawn, PickDone, SpawnRefused, SpawnClaim, EndIteration, NextRow
<1>3. CASE Launch
  <2>1. CASE LaunchLoaded
    <3>1. cur \in Tasks /\ cur' = cur
      BY <2>1 DEF LaunchLoaded, TypeOK, ProcessTypeOK
    <3> QED
      BY <2>1, <3>1 DEF LaunchLoaded, UnitLoaded, UnitStarted, UnitAs, TypeOK, Unit
  <2> QED
    BY <1>3, <2>1 DEF Launch, LaunchRefused, LaunchUnavailable, LaunchUnverified, ApplyRunning,
       ApplyExited, RecordExit, EndIteration, NextRow
<1>4. CASE Handlers
  <2>1. UNCHANGED loopVars
    BY <1>4 DEF Handlers, Submit, AbortPending, AbortStart, DeleteOne, SubmitRejected,
       AbortSteps, AbortStop, AbortCommit, AbortClean, AbortCleanTimeout, SetGpuScheduling,
       DeleteAllSelect, DeleteAllDelete
  <2>2. pc = "apply" => UNCHANGED unit
    BY <1>4 DEF Handlers, Submit, AbortPending, AbortStart, DeleteOne, SubmitRejected,
       AbortSteps, AbortStop, AbortCommit, AbortClean, AbortCleanTimeout, SetGpuScheduling,
       DeleteAllSelect, DeleteAllDelete, IInv, OneHolder, LoopHoldsLock, AbortHoldsLock
  <2> QED
    BY <2>1, <2>2 DEF loopVars, UnitLoaded
<1>5. CASE Outside
  <2>1. ASSUME NEW t \in Tasks, UnitExit(t) PROVE StepInv'
    BY <2>1 DEF UnitExit, UnitAs, UnitLoaded, UnitRunning, loopVars, TypeOK, ProcessTypeOK
  <2> QED
    BY <1>5, <2>1 DEF Outside, Crash, Reboot, Halt
<1>6. CASE UNCHANGED vars
  BY <1>6 DEF vars, UnitLoaded
<1> QED
  BY <1>1, <1>2, <1>3, <1>4, <1>5, <1>6 DEF Next, Scheduler

\* The ages of an empty table agree, and what an earlier release left is running.
LEMMA InitAges == Init => AgeInv
<1> SUFFICES ASSUME Init PROVE AgeInv
  OBVIOUS
<1>1. \A t \in Tasks : job[t].after = {}
  BY DEF Init
<1>2. /\ \A t \in Legacy : task[t].state = "RUNNING"
      /\ \A t \in Tasks \ Legacy : task[t].state = "NONE"
  <2>1. PICK owner \in [Legacy -> Gpus] :
          task = [t \in Tasks |->
                    IF t \in Legacy
                    THEN [state |-> "RUNNING", gpu |-> owner[t], unit |-> FALSE, log |-> TRUE]
                    ELSE BlankRow("NONE")]
    BY DEF Init
  <2> QED
    BY <2>1, ConstantsAssumption DEF BlankRow
<1> QED
  BY <1>1, <1>2 DEF Init, AgeInv, AgesAgree, QueueRows

\* Of any rows that wait, one comes first.
OneComesFirst ==
    \A S \in SUBSET get_pending_tasks : S # {} => \E t \in S : FirstOf(S) = {t}

\* However many rows are submitted, requeued and deleted, any of those that wait
\* have one that comes first, and the coroutine finds its next step wherever it
\* is: with IterationsEnd, only the lock and faults can keep a dispatch from its end.
THEOREM QueueIsOrdered ==
    ASSUME IsFiniteSet(Tasks)
    PROVE  Spec => [](OneComesFirst /\ LoopGoesOn)
<1>1. Init => StepInv
  BY DEF Init, StepInv
<1>2. TypeOK /\ AgeInv => OneComesFirst
  <2>1. AgeInv => get_pending_tasks \subseteq QueueRows
    BY DEF AgeInv, get_pending_tasks, QueueRows
  <2> QED
    BY <2>1, QueueHasAHead DEF OneComesFirst
<1>3. TypeOK /\ IInv /\ AgeInv /\ StepInv => LoopGoesOn
  <2> SUFFICES ASSUME TypeOK, IInv, AgeInv, StepInv PROVE LoopGoesOn
    OBVIOUS
  <2>1. pc = "probe" => Lowest(probing) # {}
    BY LowestExists, ConstantsAssumption DEF StepInv, TypeOK, ProcessTypeOK
  <2>2. pc = "pick" /\ todo # {} => \E t \in todo : FirstOf(todo) = {t}
    <3>1. pc = "pick" => todo \subseteq QueueRows
      BY DEF AgeInv, IInv, PhaseOfPc, TypeOK, ProcessTypeOK
    <3> QED
      BY <3>1, QueueHasAHead
  <2> QED
    BY <2>1, <2>2 DEF LoopGoesOn, StepInv
<1> QED
  BY <1>1, <1>2, <1>3, InitAges, NextAges, NextStep, TypeCorrect, Invariance, PTL DEF Spec

-----------------------------------------------------------------------------
(* What the life cycle is worth                                            *)

\* The tasks that hold a GPU are the managed ones, and no GPU is held twice.
HeldOnce ==
    /\ \A t \in Tasks : StateOf[t] \in ManagedStates => HeldOf[t] # NoGpu
    /\ \A t, u \in Tasks : HeldOf[t] = HeldOf[u] /\ HeldOf[t] # NoGpu => t = u

\* A row that has ended keeps its verdict until it is deleted, for good, and a
\* task that was seen running never goes back to the queue.
RowForward(t) ==
    /\ StateOf[t] \in {"COMPLETED", "FAILED"} => StateOf'[t] \in {StateOf[t], "DELETED"}
    /\ StateOf[t] = "DELETED" => StateOf'[t] = "DELETED"
    /\ StateOf[t] = "RUNNING" => StateOf'[t] \in {"RUNNING", "COMPLETED", "FAILED"}

\* The same as an action property of the table.
RowsGoForward == [][\A t \in Tasks : RowForward(t)]_vars

\* What a move of one row does to the others.
LEMMA LifecycleMove ==
    ASSUME NEW t \in Tasks, NEW from, NEW to, NEW g, Lifecycle!Move(t, from, to, g)
    PROVE  /\ StateOf[t] \in from /\ StateOf'[t] = to /\ HeldOf'[t] = g
           /\ \A u \in Tasks \ {t} : StateOf'[u] = StateOf[u] /\ HeldOf'[u] = HeldOf[u]
<1>1. StateOf = [u \in Tasks |-> StateOf[u]] /\ HeldOf = [u \in Tasks |-> HeldOf[u]]
  BY DEF StateOf, HeldOf
<1>2. /\ StateOf[t] \in from /\ StateOf' = [StateOf EXCEPT ![t] = to]
      /\ HeldOf' = [HeldOf EXCEPT ![t] = g]
  BY DEF Lifecycle!Move, StateOf, HeldOf
<1>3. QED
  BY <1>1, <1>2

\* Every step that TaskLifecycle allows goes forward and keeps the GPUs exclusive.
LEMMA LifecycleStep ==
    ASSUME [Lifecycle!Next]_(Lifecycle!vars)
    PROVE  (HeldOnce => HeldOnce') /\ \A t \in Tasks : RowForward(t)
<1> USE ConstantsAssumption DEF HeldOnce, RowForward, ManagedStates
<1>1. ASSUME NEW t \in Tasks, Lifecycle!Submit(t)
      PROVE  (HeldOnce => HeldOnce') /\ \A u \in Tasks : RowForward(u)
  BY <1>1, LifecycleMove DEF Lifecycle!Submit
<1>2. ASSUME NEW t \in Tasks, NEW g \in Gpus, Lifecycle!Claim(t, g)
      PROVE  (HeldOnce => HeldOnce') /\ \A u \in Tasks : RowForward(u)
  <2>1. \A u \in Tasks : HeldOf[u] # g
    BY <1>2 DEF Lifecycle!Claim, HeldOf
  <2>2. QED
    BY <1>2, <2>1, LifecycleMove DEF Lifecycle!Claim
<1>3. ASSUME NEW t \in Tasks, Lifecycle!Begin(t)
      PROVE  (HeldOnce => HeldOnce') /\ \A u \in Tasks : RowForward(u)
  <2>1. /\ StateOf[t] = "STARTING" /\ StateOf' = [StateOf EXCEPT ![t] = "RUNNING"]
        /\ HeldOf' = [HeldOf EXCEPT ![t] = HeldOf[t]]
    BY <1>3 DEF Lifecycle!Begin, Lifecycle!Move, StateOf, HeldOf
  <2>f. StateOf = [u \in Tasks |-> StateOf[u]] /\ HeldOf = [u \in Tasks |-> HeldOf[u]]
    BY DEF StateOf, HeldOf
  <2>2. /\ StateOf[t] = "STARTING" /\ StateOf'[t] = "RUNNING" /\ HeldOf'[t] = HeldOf[t]
        /\ \A u \in Tasks \ {t} : StateOf'[u] = StateOf[u] /\ HeldOf'[u] = HeldOf[u]
    BY <2>1, <2>f
  <2>3. QED
    BY <2>2
<1>4. ASSUME NEW t \in Tasks, Lifecycle!Requeue(t)
      PROVE  (HeldOnce => HeldOnce') /\ \A u \in Tasks : RowForward(u)
  BY <1>4, LifecycleMove DEF Lifecycle!Requeue
<1>5. ASSUME NEW t \in Tasks, Lifecycle!Finish(t)
      PROVE  (HeldOnce => HeldOnce') /\ \A u \in Tasks : RowForward(u)
  BY <1>5, LifecycleMove DEF Lifecycle!Finish, Lifecycle!Managed, Lifecycle!Terminal
<1>6. ASSUME NEW t \in Tasks, Lifecycle!Fail(t)
      PROVE  (HeldOnce => HeldOnce') /\ \A u \in Tasks : RowForward(u)
  BY <1>6, LifecycleMove DEF Lifecycle!Fail
<1>7. ASSUME NEW S \in SUBSET Tasks, Lifecycle!Delete(S)
      PROVE  (HeldOnce => HeldOnce') /\ \A u \in Tasks : RowForward(u)
  <2>1. /\ HeldOf' = HeldOf /\ \A t \in S : StateOf[t] \in Lifecycle!Terminal
        /\ StateOf' = [t \in Tasks |-> IF t \in S THEN "DELETED" ELSE StateOf[t]]
    BY <1>7 DEF Lifecycle!Delete, StateOf, HeldOf
  <2>2. QED
    BY <2>1 DEF Lifecycle!Terminal
<1>8. CASE UNCHANGED Lifecycle!vars
  <2>1. StateOf' = StateOf /\ HeldOf' = HeldOf
    BY <1>8 DEF Lifecycle!vars, StateOf, HeldOf
  <2>2. QED
    BY <2>1
<1>9. QED
  BY <1>1, <1>2, <1>3, <1>4, <1>5, <1>6, <1>7, <1>8 DEF Lifecycle!Next

\* TaskLifecycle is enough for its users: whatever implements it gives a GPU to one
\* STARTING or RUNNING task at a time, with nothing else known of how it does.
THEOREM LifecycleSuffices == RefinesLifecycle => []RowsExclusive
<1>1. Lifecycle!Init => HeldOnce
  <2> SUFFICES ASSUME Lifecycle!Init PROVE HeldOnce
    OBVIOUS
  <2>1. /\ StateOf \in [Tasks -> {"NONE", "RUNNING"}]
        /\ \A t \in Tasks : StateOf[t] = "RUNNING" <=> HeldOf[t] # NoGpu
        /\ \A t, u \in Tasks : HeldOf[t] = HeldOf[u] /\ HeldOf[t] # NoGpu => t = u
    BY DEF Lifecycle!Init, StateOf, HeldOf
  <2>2. QED
    BY <2>1 DEF HeldOnce, ManagedStates
<1>2. HeldOnce /\ [Lifecycle!Next]_(Lifecycle!vars) => HeldOnce'
  BY LifecycleStep
<1>3. HeldOnce => RowsExclusive
  BY DEF HeldOnce, RowsExclusive, get_managed_tasks, StateOf, HeldOf
<1>4. QED
  BY <1>1, <1>2, <1>3, PTL DEF RefinesLifecycle, Lifecycle!Spec

\* No verdict is changed and no running task is started over, whatever fails.
THEOREM RowsOnlyGoForward == Spec => RowsGoForward
<1>1. TypeOK /\ TypeOK' /\ IInv /\ [Next]_vars => [\A t \in Tasks : RowForward(t)]_vars
  <2> SUFFICES ASSUME TypeOK, TypeOK', IInv, [Next]_vars
               PROVE  \A t \in Tasks : RowForward(t)
    OBVIOUS
  <2>1. [Lifecycle!Next]_(Lifecycle!vars)
    BY StepIsMapped DEF LStep, StateOf, HeldOf, Lifecycle!vars
  <2>2. QED
    BY <2>1, LifecycleStep
<1>2. QED
  BY <1>1, TypeCorrect, Invariance, PTL DEF Spec, RowsGoForward
=============================================================================
