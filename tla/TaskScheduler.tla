--------------------------- MODULE TaskScheduler ---------------------------
(***************************************************************************)
(* The scheduler of rl-scheduler: the rows of the tasks table (models.py), *)
(* the loop that reconciles rows with transient systemd units and          *)
(* dispatches pending tasks (scheduler.py), the GPU registrations          *)
(* (hardware.py), the HTTP handlers that share the lifecycle lock and the  *)
(* database with it (main.py), and the units themselves, as far as         *)
(* systemd_runner.py observes them.                                        *)
(*                                                                         *)
(* A step is what a coroutine does between two awaits that another         *)
(* coroutine, the supervisor or a crash can be told apart in.  What an     *)
(* inspection reports is taken to be so: SystemdRunner says when it is.    *)
(***************************************************************************)
EXTENDS Naturals

CONSTANTS
    Tasks,        \* task identifiers
    Gpus,         \* managed GPUs, numbered in the order of their PCI bus
    NoTask,       \* no task
    NoGpu,        \* no GPU (NULL in the database)
    Prios,        \* priorities a submission may ask for
    Prefs,        \* preferred_gpu_id values a submission may ask for
    Scopes,       \* what a delete-all may name: the tasks of one user, or all
    Legacy,       \* tasks an earlier release left RUNNING without a unit
    Foreign,      \* GPUs that processes of others may occupy
    Requests,     \* kinds of requests that clients make besides submitting
    FaultKinds,   \* kinds of faults that occur
    MaxFaults     \* bound on their number

ASSUME ConstantsAssumption ==
    /\ Gpus \subseteq Nat /\ Gpus # {}
    /\ NoGpu \notin Gpus
    /\ NoTask \notin Tasks
    /\ Prios \subseteq Nat
    /\ Prefs \subseteq Gpus \cup {NoGpu}
    /\ Scopes \subseteq SUBSET Tasks
    /\ Legacy \subseteq Tasks
    /\ Foreign \subseteq Gpus
    /\ Requests \subseteq {"abort", "delete", "delete_all", "gpu"}
    /\ FaultKinds \subseteq {"down", "lost", "error", "timeout", "crash", "reboot"}
    /\ MaxFaults \in Nat

VARIABLES
    task,         \* rows of the tasks table: the columns that change
    job,          \* the columns a submission fixes
    gpu_settings, \* GPUs stored as disabled
    logs,         \* tasks whose log file exists
    unit,         \* the transient unit of each task, as systemd has it
    pc,           \* where the scheduler coroutine is
    phase,        \* "boot" (or not running), "loop", "dispatch"
    todo,         \* rows the current for-loop has still to visit
    probing,      \* GPUs the availability snapshot has still to visit
    available,    \* the set `available` of the dispatch
    cur, curGpu,  \* task being spawned or reaped, GPU chosen for it
    active_tasks, \* GpuManager.active_tasks
    disabled_gpu_ids,
    supervisor_available,
    abort,        \* the abort handler that is under way
    bulk,         \* the delete-all handler that is under way
    faults        \* faults so far

database == <<task, job, gpu_settings>>
loopVars == <<pc, phase, todo, probing, available, cur, curGpu>>
memory == <<active_tasks, disabled_gpu_ids, supervisor_available>>
vars == <<task, job, gpu_settings, logs, unit, pc, phase, todo, probing,
          available, cur, curGpu, active_tasks, disabled_gpu_ids,
          supervisor_available, abort, bulk, faults>>

-----------------------------------------------------------------------------
(* States                                                                  *)

ManagedStates == {"STARTING", "RUNNING"}
TerminalStates == {"COMPLETED", "FAILED"}
TaskStates == {"NONE", "PENDING", "DELETED"} \cup ManagedStates \cup TerminalStates
GpuOrNone == Gpus \cup {NoGpu}

Row == [state : TaskStates, gpu : GpuOrNone, unit : BOOLEAN, log : BOOLEAN]
Job == [pref : GpuOrNone, prio : Nat, after : SUBSET Tasks]
Unit == [state : {"none", "running", "succeeded", "failed"},
         gpu : GpuOrNone, starts : Nat]

BlankRow(s) == [state |-> s, gpu |-> NoGpu, unit |-> FALSE, log |-> FALSE]
NoUnit(n) == [state |-> "none", gpu |-> NoGpu, starts |-> n]
IdleAbort == [at |-> "idle", task |-> NoTask]
IdleBulk == [on |-> FALSE, scope |-> {}, rows |-> {}]

get_managed_tasks == {t \in Tasks : task[t].state \in ManagedStates}
get_pending_tasks == {t \in Tasks : task[t].state = "PENDING"}
TerminalTasks == {t \in Tasks : task[t].state \in TerminalStates}

\* Faulty variant of Before: the newest first.
BeforeNewest(t, u) ==
    \/ job[t].prio > job[u].prio
    \/ job[t].prio = job[u].prio /\ u \in job[t].after

\* ORDER BY priority DESC, created_at ASC
Before(t, u) ==
    \/ job[t].prio > job[u].prio
    \/ job[t].prio = job[u].prio /\ t \in job[u].after

FirstOf(S) == {t \in S : \A u \in S \ {t} : Before(t, u)}

Lowest(S) == {g \in S : \A h \in S : g <= h}

\* The coroutine is inside "async with self._lifecycle_lock".
LoopHoldsLock == pc \in {"reconcile", "reap", "launch", "apply"}
AbortHoldsLock == abort.at # "idle"
LockFree == ~LoopHoldsLock /\ ~AbortHoldsLock

Serving == phase # "boot"

NoFault == UNCHANGED faults
Fault(kind) ==
    /\ kind \in FaultKinds
    /\ faults < MaxFaults
    /\ faults' = faults + 1

-----------------------------------------------------------------------------
(* The guarded UPDATE statements.                                          *)

SetState(t, s) == [task EXCEPT ![t].state = s]

Claimed(t, g) ==
    [task EXCEPT ![t] = [state |-> "STARTING", gpu |-> g, unit |-> TRUE, log |-> TRUE]]

ResetStarting(t) ==
    IF task[t].state = "STARTING" THEN [task EXCEPT ![t] = BlankRow("PENDING")] ELSE task

SetFinished(t, end) ==
    IF task[t].state \in ManagedStates THEN SetState(t, end) ELSE task

SetRunning(t) ==
    IF task[t].state = "STARTING" THEN SetState(t, "RUNNING") ELSE task

\* Faulty variant of SetAborted: a state that no other statement knows.
SetAbortedNewState(t) ==
    IF task[t].state \in ManagedStates \cup {"PENDING"} THEN SetState(t, "ABORTED") ELSE task

SetAborted(t) ==
    IF task[t].state \in ManagedStates \cup {"PENDING"} THEN SetState(t, "FAILED") ELSE task

\* Faulty variant of FailPending: no "AND state = 'PENDING'".
FailAny(t) == SetState(t, "FAILED")

FailPending(t) ==
    IF task[t].state = "PENDING" THEN SetState(t, "FAILED") ELSE task

ClearUnit(t) == [task EXCEPT ![t].unit = FALSE]

Deleted(S) == [t \in Tasks |-> IF t \in S THEN BlankRow("DELETED") ELSE task[t]]

Register(t, g) == [active_tasks EXCEPT ![t] = g]
Unregister(t) == [active_tasks EXCEPT ![t] = NoGpu]

UnitGone(t) == [unit EXCEPT ![t] = NoUnit(unit[t].starts)]
UnitAs(t, s) == [unit EXCEPT ![t].state = s]
UnitStarted(t, g) ==
    [unit EXCEPT ![t] = [state |-> "running", gpu |-> g, starts |-> unit[t].starts + 1]]

UnitLoaded(t) == unit[t].state # "none"
UnitRunning(t) == unit[t].state = "running"
UnitExited(t) == unit[t].state \in {"succeeded", "failed"}

-----------------------------------------------------------------------------
(* A database written by an earlier release may hold RUNNING rows whose    *)
(* processes were no units; the process is not running yet.                *)

Init ==
    /\ \E owner \in [Legacy -> Gpus] :
        /\ \A t, u \in Legacy : owner[t] = owner[u] => t = u
        /\ task = [t \in Tasks |->
                     IF t \in Legacy
                     THEN [state |-> "RUNNING", gpu |-> owner[t], unit |-> FALSE, log |-> TRUE]
                     ELSE BlankRow("NONE")]
    /\ job = [t \in Tasks |-> [pref |-> NoGpu, prio |-> 0, after |-> {}]]
    /\ gpu_settings = {}
    /\ logs = Legacy
    /\ unit = [t \in Tasks |-> NoUnit(0)]
    /\ pc = "down"
    /\ phase = "boot"
    /\ todo = {} /\ probing = {} /\ available = {}
    /\ cur = NoTask /\ curGpu = NoGpu
    /\ active_tasks = [t \in Tasks |-> NoGpu]
    /\ disabled_gpu_ids = {}
    /\ supervisor_available = FALSE
    /\ abort = IdleAbort
    /\ bulk = IdleBulk
    /\ faults = 0

-----------------------------------------------------------------------------
(* Where the coroutine goes.                                               *)

\* What a dead process forgets.
Halt ==
    /\ pc' = "down" /\ phase' = "boot"
    /\ todo' = {} /\ probing' = {} /\ available' = {}
    /\ cur' = NoTask /\ curGpu' = NoGpu
    /\ active_tasks' = [t \in Tasks |-> NoGpu]
    /\ disabled_gpu_ids' = {}
    /\ supervisor_available' = FALSE
    /\ abort' = IdleAbort
    /\ bulk' = IdleBulk

\* The end of an iteration of _run_loop: sleep, then start over.
EndIteration ==
    /\ pc' = "top" /\ phase' = "loop"
    /\ todo' = {} /\ probing' = {} /\ available' = {}
    /\ cur' = NoTask /\ curGpu' = NoGpu

\* An exception: _run_loop logs it, start() lets it end the application.
Raise ==
    IF phase = "boot"
    THEN Halt
    ELSE EndIteration /\ UNCHANGED <<active_tasks, disabled_gpu_ids,
                                     supervisor_available, abort, bulk>>

\* The for-loop goes on after the row it is at.
NextRow ==
    /\ pc' = IF phase = "dispatch" THEN "pick" ELSE "reconcile"
    /\ cur' = NoTask /\ curGpu' = NoGpu
    /\ UNCHANGED <<phase, probing>>

-----------------------------------------------------------------------------
(* lifespan() and Scheduler.start()                                        *)

Boot ==
    /\ pc = "down"
    /\ disabled_gpu_ids' = gpu_settings
    /\ \/ /\ supervisor_available' = TRUE
          /\ pc' = "recLock" /\ phase' = "boot"
          /\ NoFault
       \/ /\ Fault("down")
          /\ supervisor_available' = FALSE
          /\ pc' = "top" /\ phase' = "loop"
    /\ UNCHANGED <<database, logs, unit, todo, probing, available, cur, curGpu,
                   active_tasks, abort, bulk>>

(* _cleanup_terminal_units                                                 *)

EndSweep == EndIteration

SweepUnit(t) ==
    /\ pc = "sweep" /\ t \in todo
    /\ \/ /\ unit' = UnitGone(t)
          /\ task' = ClearUnit(t)
          /\ todo' = todo \ {t}
          /\ NoFault
          /\ UNCHANGED <<pc, phase, probing, available, cur, curGpu>>
       \/ /\ \/ Fault("error")
             \/ Fault("down")
          /\ unit' \in {unit, UnitGone(t)}
          /\ EndSweep
          /\ UNCHANGED task
    /\ UNCHANGED <<job, gpu_settings, logs, memory, abort, bulk>>

SweepTimeout(t) ==
    /\ pc = "sweep" /\ t \in todo
    /\ Fault("timeout")
    /\ unit' \in {unit, UnitGone(t)}
    /\ Raise
    /\ UNCHANGED <<database, logs>>

SweepDone ==
    /\ pc = "sweep" /\ todo = {}
    /\ EndSweep
    /\ UNCHANGED <<database, logs, unit, memory, abort, bulk, faults>>

(* _run_loop                                                               *)

Top ==
    /\ pc = "top"
    /\ \/ /\ supervisor_available' = TRUE
          /\ pc' = "recLock"
          /\ NoFault
       \/ /\ Fault("down")
          /\ supervisor_available' = FALSE
          /\ UNCHANGED pc
    /\ UNCHANGED <<database, logs, unit, phase, todo, probing, available, cur,
                   curGpu, active_tasks, disabled_gpu_ids, abort, bulk>>

-----------------------------------------------------------------------------
(* _reconcile_managed_tasks                                                *)

\* Faulty variant of RecLock: only RUNNING rows are reconciled.
RecLockRunning ==
    /\ pc = "recLock" /\ ~AbortHoldsLock
    /\ pc' = "reconcile"
    /\ todo' = {t \in Tasks : task[t].state = "RUNNING"}
    /\ UNCHANGED <<database, logs, unit, phase, probing, available, cur, curGpu,
                   memory, abort, bulk, faults>>

RecLock ==
    /\ pc = "recLock" /\ ~AbortHoldsLock
    /\ pc' = "reconcile"
    /\ todo' = get_managed_tasks
    /\ UNCHANGED <<database, logs, unit, phase, probing, available, cur, curGpu,
                   memory, abort, bulk, faults>>

ReconcileNoUnit(t) ==
    /\ pc = "reconcile" /\ t \in todo
    /\ ~task[t].unit
    /\ task' = IF task[t].state = "STARTING" THEN ResetStarting(t) ELSE SetFinished(t, "FAILED")
    /\ active_tasks' = Unregister(t)
    /\ todo' = todo \ {t}
    /\ UNCHANGED <<job, gpu_settings, logs, unit, pc, phase, probing, available, cur,
                   curGpu, disabled_gpu_ids, supervisor_available, abort, bulk, faults>>

ReconcileMissing(t) ==
    /\ pc = "reconcile" /\ t \in todo
    /\ task[t].unit /\ ~UnitLoaded(t)
    /\ IF task[t].state = "STARTING"
       THEN task' = ResetStarting(t) /\ logs' = logs \ {t}
       ELSE task' = SetFinished(t, "FAILED") /\ UNCHANGED logs
    /\ active_tasks' = Unregister(t)
    /\ todo' = todo \ {t}
    /\ UNCHANGED <<job, gpu_settings, unit, pc, phase, probing, available, cur, curGpu,
                   disabled_gpu_ids, supervisor_available, abort, bulk, faults>>

\* _apply_unit_status for a unit that runs ...
AdoptRunning(t) ==
    /\ UnitRunning(t)
    /\ task' = SetRunning(t)
    /\ active_tasks' = Register(t, task[t].gpu)

\* Faulty variant of RecordExit: the GPU stays registered.
RecordExitOnly(t) ==
    /\ UnitExited(t)
    /\ task' = SetFinished(t, IF unit[t].state = "succeeded" THEN "COMPLETED" ELSE "FAILED")
    /\ cur' = t
    /\ pc' = "reap"
    /\ UNCHANGED active_tasks

\* ... and for one that has exited; its cleanup follows.
RecordExit(t) ==
    /\ UnitExited(t)
    /\ task' = SetFinished(t, IF unit[t].state = "succeeded" THEN "COMPLETED" ELSE "FAILED")
    /\ active_tasks' = Unregister(t)
    /\ cur' = t
    /\ pc' = "reap"

ReconcileRunning(t) ==
    /\ pc = "reconcile" /\ t \in todo
    /\ task[t].unit
    /\ AdoptRunning(t)
    /\ todo' = todo \ {t}
    /\ UNCHANGED <<job, gpu_settings, logs, unit, pc, phase, probing, available, cur,
                   curGpu, disabled_gpu_ids, supervisor_available, abort, bulk, faults>>

ReconcileExited(t) ==
    /\ pc = "reconcile" /\ t \in todo
    /\ task[t].unit
    /\ RecordExit(t)
    /\ todo' = todo \ {t}
    /\ UNCHANGED <<job, gpu_settings, logs, unit, phase, probing, available, curGpu,
                   disabled_gpu_ids, supervisor_available, abort, bulk, faults>>

StartSweep ==
    /\ pc' = "sweep"
    /\ todo' = {t \in TerminalTasks : task[t].unit}
    /\ UNCHANGED <<phase, probing, available, cur, curGpu>>

\* SupervisorUnavailable from inspect: give up this round; start() still sweeps.
ReconcileUnavailable(t) ==
    /\ pc = "reconcile" /\ t \in todo
    /\ task[t].unit
    /\ Fault("down")
    /\ supervisor_available' = FALSE
    /\ IF phase = "boot" THEN StartSweep ELSE EndIteration
    /\ UNCHANGED <<database, logs, unit, active_tasks, disabled_gpu_ids, abort, bulk>>

\* RunnerError from inspect is nobody's to catch but the loop's.
ReconcileError(t) ==
    /\ pc = "reconcile" /\ t \in todo
    /\ task[t].unit
    /\ Fault("error")
    /\ Raise
    /\ UNCHANGED <<database, logs, unit>>

ReconcileDone ==
    /\ pc = "reconcile" /\ todo = {}
    /\ \/ phase = "boot" /\ StartSweep
       \/ /\ phase = "loop" /\ supervisor_available
          /\ pc' = "scan"
          /\ UNCHANGED <<phase, todo, probing, available, cur, curGpu>>
       \/ phase = "loop" /\ ~supervisor_available /\ EndIteration
    /\ UNCHANGED <<database, logs, unit, memory, abort, bulk, faults>>

\* The end of _apply_unit_status: runner.cleanup, then clear_runner_unit.
Reap ==
    /\ pc = "reap"
    /\ \/ /\ unit' = UnitGone(cur)
          /\ task' = ClearUnit(cur)
          /\ NoFault
       \/ /\ \/ Fault("error")
             \/ Fault("down")
          /\ unit' \in {unit, UnitGone(cur)}
          /\ UNCHANGED task
    /\ NextRow
    /\ UNCHANGED <<job, gpu_settings, logs, todo, available, memory, abort, bulk>>

\* cleanup lets a TimeoutError or an OSError of systemctl through.
ReapTimeout ==
    /\ pc = "reap"
    /\ Fault("timeout")
    /\ unit' \in {unit, UnitGone(cur)}
    /\ Raise
    /\ UNCHANGED <<database, logs>>

-----------------------------------------------------------------------------
(* _dispatch_pending_tasks                                                 *)

Scan ==
    /\ pc = "scan"
    /\ IF get_pending_tasks = {}
       THEN EndIteration
       ELSE /\ todo' = get_pending_tasks
            /\ probing' = Gpus
            /\ pc' = "probe" /\ phase' = "dispatch"
            /\ UNCHANGED <<available, cur, curGpu>>
    /\ UNCHANGED <<database, logs, unit, memory, abort, bulk, faults>>

\* NVML shows what others run, and units the manager has no process group of.
ExternalCompute(g) ==
    \/ g \in Foreign
    \/ \E t \in Tasks : UnitRunning(t) /\ unit[t].gpu = g /\ active_tasks[t] = NoGpu

Registered(g) == \E t \in Tasks : active_tasks[t] = g

\* is_gpu_available, in a worker thread, one GPU after the other
Probe ==
    /\ pc = "probe"
    /\ \E g \in Lowest(probing) :
        /\ probing' = probing \ {g}
        /\ \E external \in {FALSE, ExternalCompute(g)} :
            available' = IF g \in disabled_gpu_ids \/ Registered(g) \/ external
                         THEN available ELSE available \cup {g}
        /\ pc' = IF probing = {g} THEN "pick" ELSE "probe"
    /\ UNCHANGED <<database, logs, unit, phase, todo, cur, curGpu, memory, abort,
                   bulk, faults>>

\* The GPU that a task would get: the one it asks for, or the first free one.
Choice(t) == IF job[t].pref # NoGpu THEN {job[t].pref} \cap available ELSE Lowest(available)

\* Faulty variant of PickSkip: a row that asks for a busy GPU ends the dispatch.
PickSkipBreaks(t) ==
    /\ pc = "pick" /\ t \in FirstOf(todo)
    /\ job[t].pref # NoGpu /\ Choice(t) = {}
    /\ EndIteration
    /\ UNCHANGED <<database, logs, unit, memory, abort, bulk, faults>>

PickSkip(t) ==
    /\ pc = "pick" /\ t \in FirstOf(todo)
    /\ job[t].pref # NoGpu /\ Choice(t) = {}
    /\ todo' = todo \ {t}
    /\ UNCHANGED <<database, logs, unit, pc, phase, probing, available, cur, curGpu,
                   memory, abort, bulk, faults>>

PickBreak(t) ==
    /\ pc = "pick" /\ t \in FirstOf(todo)
    /\ job[t].pref = NoGpu /\ Choice(t) = {}
    /\ EndIteration
    /\ UNCHANGED <<database, logs, unit, memory, abort, bulk, faults>>

\* _prepare_command finds that the user or the environment is gone.
PickEnvGone(t) ==
    /\ pc = "pick" /\ t \in FirstOf(todo)
    /\ Choice(t) # {}
    /\ task' = FailPending(t)
    /\ todo' = todo \ {t}
    /\ UNCHANGED <<job, gpu_settings, logs, unit, pc, phase, probing, available, cur,
                   curGpu, memory, abort, bulk, faults>>

PickSpawn(t) ==
    /\ pc = "pick" /\ t \in FirstOf(todo)
    /\ cur' = t /\ curGpu' \in Choice(t)
    /\ todo' = todo \ {t}
    /\ pc' = "spawn"
    /\ UNCHANGED <<database, logs, unit, phase, probing, available, memory, abort,
                   bulk, faults>>

PickDone ==
    /\ pc = "pick" /\ todo = {}
    /\ EndIteration
    /\ UNCHANGED <<database, logs, unit, memory, abort, bulk, faults>>

-----------------------------------------------------------------------------
(* _spawn_task                                                             *)

\* Faulty variant of MayClaim: the snapshot is trusted.
MayClaimSnapshot == task[cur].state = "PENDING"

\* With the lock: is the GPU enabled, and the row PENDING, still?
MayClaim == curGpu \notin disabled_gpu_ids /\ task[cur].state = "PENDING"

SpawnRefused ==
    /\ pc = "spawn" /\ ~AbortHoldsLock
    /\ ~MayClaim
    /\ NextRow
    /\ UNCHANGED <<database, logs, unit, todo, available, memory, abort, bulk, faults>>

SpawnClaim ==
    /\ pc = "spawn" /\ ~AbortHoldsLock
    /\ MayClaim
    /\ task' = Claimed(cur, curGpu)
    /\ \/ /\ logs' = logs \cup {cur}
          /\ pc' = "launch"
          /\ NoFault
          /\ UNCHANGED <<phase, todo, probing, available, cur, curGpu>>
       \/ /\ Fault("error")     \* the log file cannot be opened
          /\ EndIteration
          /\ UNCHANGED logs
    /\ UNCHANGED <<job, gpu_settings, unit, memory, abort, bulk>>

\* Faulty variant of LaunchLoaded: a unit that is there is started again.
LaunchAgain ==
    /\ pc = "launch"
    /\ unit' = UnitStarted(cur, curGpu)
    /\ pc' = "apply"
    /\ UNCHANGED <<database, logs, phase, todo, probing, available, cur, curGpu,
                   memory, abort, bulk, faults>>

\* systemd-run creates the unit, or the unit was there already, or systemd-run
\* fails and leaves a failed unit behind (Type=exec): inspect finds it loaded.
LaunchLoaded ==
    /\ pc = "launch"
    /\ \/ ~UnitLoaded(cur) /\ unit' = UnitStarted(cur, curGpu)
       \/ ~UnitLoaded(cur) /\ unit' = UnitAs(cur, "failed")
       \/ UnitLoaded(cur) /\ UNCHANGED unit
    /\ pc' = "apply"
    /\ UNCHANGED <<database, logs, phase, todo, probing, available, cur, curGpu,
                   memory, abort, bulk, faults>>

\* systemd-run fails and no unit exists
LaunchRefused ==
    /\ pc = "launch"
    /\ ~UnitLoaded(cur)
    /\ task' = SetFinished(cur, "FAILED")
    /\ NextRow
    /\ UNCHANGED <<job, gpu_settings, logs, unit, todo, available, memory, abort, bulk,
                   faults>>

\* SupervisorUnavailable: "down" if no unit was created, "lost" if the unit
\* was created and only the answer is missing.  The dispatch goes on.
LaunchUnavailable ==
    /\ pc = "launch"
    /\ \/ Fault("down") /\ UNCHANGED unit
       \/ Fault("lost") /\ ~UnitLoaded(cur) /\ unit' = UnitStarted(cur, curGpu)
    /\ supervisor_available' = FALSE
    /\ task' = ResetStarting(cur)
    /\ logs' = logs \ {cur}
    /\ NextRow
    /\ UNCHANGED <<job, gpu_settings, todo, available, active_tasks, disabled_gpu_ids,
                   abort, bulk>>

\* RunnerError, and another one from the inspect that should settle the matter
LaunchUnverified ==
    /\ pc = "launch"
    /\ Fault("error")
    /\ \/ UNCHANGED unit
       \/ ~UnitLoaded(cur) /\ unit' = UnitStarted(cur, curGpu)
    /\ EndIteration
    /\ UNCHANGED <<database, logs, memory, abort, bulk>>

\* Faulty variant of ApplyRunning: the GPU is not taken out of `available`.
ApplyKeepingGpu ==
    /\ pc = "apply"
    /\ AdoptRunning(cur)
    /\ NextRow
    /\ UNCHANGED <<job, gpu_settings, logs, unit, todo, available, disabled_gpu_ids,
                   supervisor_available, abort, bulk, faults>>

ApplyRunning ==
    /\ pc = "apply"
    /\ AdoptRunning(cur)
    /\ available' = available \ {curGpu}
    /\ NextRow
    /\ UNCHANGED <<job, gpu_settings, logs, unit, todo, disabled_gpu_ids,
                   supervisor_available, abort, bulk, faults>>

ApplyExited ==
    /\ pc = "apply"
    /\ RecordExit(cur)
    /\ UNCHANGED <<job, gpu_settings, logs, unit, phase, todo, probing, available,
                   curGpu, disabled_gpu_ids, supervisor_available, abort, bulk, faults>>

-----------------------------------------------------------------------------
(* The outside: units exit, the application or the host dies.              *)

UnitExit(t) ==
    /\ UnitRunning(t)
    /\ \E end \in {"succeeded", "failed"} : unit' = UnitAs(t, end)
    /\ UNCHANGED <<database, logs, loopVars, memory, abort, bulk, faults>>

Crash ==
    /\ pc # "down"
    /\ Fault("crash")
    /\ Halt
    /\ UNCHANGED <<database, logs, unit>>

Reboot ==
    /\ Fault("reboot")
    /\ Halt
    /\ unit' = [t \in Tasks |-> NoUnit(unit[t].starts)]
    /\ UNCHANGED <<database, logs>>

-----------------------------------------------------------------------------
(* HTTP handlers                                                           *)

Request(kind) == Serving /\ kind \in Requests

Submit(t) ==
    /\ Serving
    /\ task[t].state = "NONE"
    /\ supervisor_available' = TRUE
    /\ \E pref \in Prefs \ disabled_gpu_ids, prio \in Prios :
        job' = [job EXCEPT ![t] =
                  [pref |-> pref, prio |-> prio,
                   after |-> {u \in Tasks : task[u].state # "NONE"}]]
    /\ task' = [task EXCEPT ![t] = BlankRow("PENDING")]
    /\ UNCHANGED <<gpu_settings, logs, unit, loopVars, active_tasks,
                   disabled_gpu_ids, abort, bulk, faults>>

SubmitRejected ==
    /\ Serving
    /\ \E t \in Tasks : task[t].state = "NONE"
    /\ Fault("down")
    /\ supervisor_available' = FALSE
    /\ UNCHANGED <<database, logs, unit, loopVars, active_tasks, disabled_gpu_ids,
                   abort, bulk>>

SetGpuScheduling(g) ==
    /\ Request("gpu") /\ LockFree
    /\ \E enabled \in BOOLEAN :
        /\ gpu_settings' = IF enabled THEN gpu_settings \ {g} ELSE gpu_settings \cup {g}
        /\ disabled_gpu_ids' = IF enabled THEN disabled_gpu_ids \ {g}
                               ELSE disabled_gpu_ids \cup {g}
    /\ UNCHANGED <<task, job, logs, unit, loopVars, active_tasks,
                   supervisor_available, abort, bulk, faults>>

\* abort_task of a PENDING row asks nothing of systemd.
AbortPending(t) ==
    /\ Request("abort") /\ LockFree
    /\ task[t].state = "PENDING"
    /\ task' = SetAborted(t)
    /\ active_tasks' = Unregister(t)
    /\ UNCHANGED <<job, gpu_settings, logs, unit, loopVars, disabled_gpu_ids,
                   supervisor_available, abort, bulk, faults>>

AbortStart(t) ==
    /\ Request("abort") /\ LockFree
    /\ task[t].state \in ManagedStates
    /\ \/ /\ supervisor_available' = TRUE
          /\ abort' = [at |-> IF task[t].unit THEN "stop" ELSE "commit", task |-> t]
          /\ NoFault
       \/ /\ Fault("down")
          /\ supervisor_available' = FALSE
          /\ UNCHANGED abort
    /\ UNCHANGED <<database, logs, unit, loopVars, active_tasks, disabled_gpu_ids, bulk>>

\* Faulty variant of Stopped: the unit goes on running.
StoppedNot(t) == unit

\* kill and stop: a killed unit stays loaded as failed, an exited one goes.
Stopped(t) == IF UnitRunning(t) THEN UnitAs(t, "failed")
              ELSE IF unit[t].state = "succeeded" THEN UnitGone(t) ELSE unit

AbortStop ==
    /\ abort.at = "stop"
    /\ \/ /\ unit' = Stopped(abort.task)
          /\ abort' = [abort EXCEPT !.at = "commit"]
          /\ NoFault
       \/ /\ \/ Fault("error")
             \/ Fault("down")
             \/ Fault("timeout")
          /\ unit' \in {unit, Stopped(abort.task)}
          /\ abort' = IdleAbort
    /\ UNCHANGED <<database, logs, loopVars, memory, bulk>>

AbortCommit ==
    /\ abort.at = "commit"
    /\ task' = SetAborted(abort.task)
    /\ IF task[abort.task].unit
       THEN abort' = [abort EXCEPT !.at = "clean"] /\ UNCHANGED active_tasks
       ELSE abort' = IdleAbort /\ active_tasks' = Unregister(abort.task)
    /\ UNCHANGED <<job, gpu_settings, logs, unit, loopVars, disabled_gpu_ids,
                   supervisor_available, bulk, faults>>

AbortClean ==
    /\ abort.at = "clean"
    /\ \/ /\ unit' = UnitGone(abort.task)
          /\ task' = ClearUnit(abort.task)
          /\ NoFault
       \/ /\ \/ Fault("error")
             \/ Fault("down")
          /\ unit' \in {unit, UnitGone(abort.task)}
          /\ UNCHANGED task
    /\ active_tasks' = Unregister(abort.task)
    /\ abort' = IdleAbort
    /\ UNCHANGED <<job, gpu_settings, logs, loopVars, disabled_gpu_ids,
                   supervisor_available, bulk>>

\* cleanup lets a TimeoutError through, past unregister_task.
AbortCleanTimeout ==
    /\ abort.at = "clean"
    /\ Fault("timeout")
    /\ unit' \in {unit, UnitGone(abort.task)}
    /\ abort' = IdleAbort
    /\ UNCHANGED <<database, logs, loopVars, memory, bulk>>

DeleteOne(t) ==
    /\ Request("delete")
    /\ task[t].state \in TerminalStates
    /\ task' = Deleted({t})
    /\ \/ logs' = logs \ {t} /\ NoFault
       \/ Fault("error") /\ UNCHANGED logs
    /\ UNCHANGED <<job, gpu_settings, unit, loopVars, memory, abort, bulk>>

\* Faulty variant of DeleteAllSelect: the SELECT has no condition on the state.
DeleteAllSelectAny(scope) ==
    /\ Request("delete_all")
    /\ ~bulk.on
    /\ bulk' = [on |-> TRUE, scope |-> scope, rows |-> {t \in scope : task[t].log}]
    /\ UNCHANGED <<database, logs, unit, loopVars, memory, abort, faults>>

\* delete_all_tasks: SELECT log_path, later DELETE, then unlink what was selected.
DeleteAllSelect(scope) ==
    /\ Request("delete_all")
    /\ ~bulk.on
    /\ bulk' = [on |-> TRUE, scope |-> scope,
                rows |-> {t \in scope \cap TerminalTasks : task[t].log}]
    /\ UNCHANGED <<database, logs, unit, loopVars, memory, abort, faults>>

DeleteAllDelete ==
    /\ bulk.on
    /\ task' = Deleted(bulk.scope \cap TerminalTasks)
    /\ logs' = logs \ bulk.rows
    /\ bulk' = IdleBulk
    /\ UNCHANGED <<job, gpu_settings, unit, loopVars, memory, abort, faults>>

-----------------------------------------------------------------------------

Startup == Boot \/ (\E t \in Tasks : SweepUnit(t) \/ SweepTimeout(t)) \/ SweepDone

Reconcile ==
    \/ RecLock
    \/ \E t \in Tasks :
        \/ ReconcileNoUnit(t)
        \/ ReconcileMissing(t)
        \/ ReconcileRunning(t)
        \/ ReconcileExited(t)
        \/ ReconcileUnavailable(t)
        \/ ReconcileError(t)
    \/ ReconcileDone
    \/ Reap
    \/ ReapTimeout

Dispatch ==
    \/ Scan
    \/ Probe
    \/ \E t \in Tasks :
        \/ PickSkip(t)
        \/ PickBreak(t)
        \/ PickEnvGone(t)
        \/ PickSpawn(t)
    \/ PickDone
    \/ SpawnRefused
    \/ SpawnClaim

Launch ==
    \/ LaunchLoaded
    \/ LaunchRefused
    \/ LaunchUnavailable
    \/ LaunchUnverified
    \/ ApplyRunning
    \/ ApplyExited

AbortSteps == AbortStop \/ AbortCommit \/ AbortClean \/ AbortCleanTimeout

Handlers ==
    \/ \E t \in Tasks :
        \/ Submit(t)
        \/ AbortPending(t)
        \/ AbortStart(t)
        \/ DeleteOne(t)
    \/ SubmitRejected
    \/ AbortSteps
    \/ \E g \in Gpus : SetGpuScheduling(g)
    \/ \E scope \in Scopes : DeleteAllSelect(scope)
    \/ DeleteAllDelete

Scheduler == Startup \/ Top \/ Reconcile \/ Dispatch \/ Launch

Outside == (\E t \in Tasks : UnitExit(t)) \/ Crash \/ Reboot

Next == Scheduler \/ Handlers \/ Outside

Spec == Init /\ [][Next]_vars

(* The event loop runs every coroutine that is ready, systemd restarts the *)
(* service, and a training script ends some day.                           *)
Fairness ==
    /\ WF_vars(Scheduler)
    /\ WF_vars(AbortSteps)
    /\ \A t \in Tasks : WF_vars(UnitExit(t))

-----------------------------------------------------------------------------
(* Properties                                                              *)

\* What the process keeps in memory.
ProcessTypeOK ==
    /\ pc \in {"down", "top", "recLock", "reconcile", "reap", "sweep", "scan",
               "probe", "pick", "spawn", "launch", "apply"}
    /\ phase \in {"boot", "loop", "dispatch"}
    /\ todo \subseteq Tasks
    /\ probing \subseteq Gpus
    /\ available \subseteq Gpus
    /\ cur \in Tasks \cup {NoTask}
    /\ pc \in {"reap", "spawn", "launch", "apply"} => cur \in Tasks
    /\ curGpu \in GpuOrNone
    /\ active_tasks \in [Tasks -> GpuOrNone]
    /\ disabled_gpu_ids \subseteq Gpus
    /\ supervisor_available \in BOOLEAN
    /\ abort \in [at : {"idle", "stop", "commit", "clean"}, task : Tasks \cup {NoTask}]
    /\ bulk \in [on : BOOLEAN, scope : SUBSET Tasks, rows : SUBSET Tasks]

\* Every variable stays in its type.
TypeOK ==
    /\ task \in [Tasks -> Row]
    /\ job \in [Tasks -> Job]
    /\ gpu_settings \subseteq Gpus
    /\ logs \subseteq Tasks
    /\ unit \in [Tasks -> Unit]
    /\ faults \in 0..MaxFaults
    /\ ProcessTypeOK

\* Two STARTING or RUNNING rows never name the same GPU, whatever fails, even
\* though _spawn_task works on a snapshot of the free GPUs taken before it has
\* the lock.
RowsExclusive ==
    \A t, u \in get_managed_tasks : task[t].gpu = task[u].gpu => t = u

\* "Each physical GPU runs exactly one training script at a time": no two units
\* run on the same GPU.  It holds as long as no answer of systemd-run is lost.
UnitsExclusive ==
    \A t, u \in Tasks :
        UnitRunning(t) /\ UnitRunning(u) /\ unit[t].gpu = unit[u].gpu => t = u

\* A unit that runs belongs to a STARTING or RUNNING row, which names the GPU it
\* runs on: what is shown as pending, finished or aborted does not run.
UnitOwned ==
    \A t \in Tasks :
        UnitRunning(t) => /\ task[t].state \in ManagedStates
                          /\ task[t].gpu = unit[t].gpu

\* Outside the lock a GPU is registered only for a task that owns it: abort,
\* requeue and exit all give the GPU back.
RegisteredAreManaged ==
    LockFree =>
        \A t \in Tasks :
            active_tasks[t] # NoGpu =>
                /\ task[t].state \in ManagedStates
                /\ task[t].gpu = active_tasks[t]

\* The log file of a RUNNING task exists, however often the task was requeued
\* (which unlinks the log) and whatever is being deleted meanwhile.
RunningHasLog ==
    \A t \in Tasks : task[t].state = "RUNNING" => task[t].log /\ t \in logs

\* A log file is there only for a task that has a row: deleting tasks deletes
\* their logs.
LogsOwned == \A t \in logs : task[t].state # "DELETED"

\* A step that gives t the GPU g.
Gives(t, g) ==
    /\ task[t].state = "PENDING"
    /\ task'[t].state = "STARTING"
    /\ task'[t].gpu = g

\* No GPU is given away that the database says is disabled: neither a request
\* after the snapshot nor a restart of the application opens a gap.
DisabledGpuNotClaimed ==
    [][\A t \in Tasks, g \in Gpus : Gives(t, g) => g \notin gpu_settings]_vars

\* The command of a task is started at most once, although a row can go back
\* to the queue after its unit was created.
AtMostOnce == \A t \in Tasks : unit[t].starts <= 1

\* Every submitted task is finished, failed or deleted some day: no requeue,
\* missed registration or stale snapshot keeps it waiting for ever.
EveryTaskSettles ==
    \A t \in Tasks :
        task[t].state = "PENDING" ~> task[t].state \in TerminalStates \cup {"DELETED"}

(* The inductive invariant.                                                *)

\* The lifecycle lock excludes.
OneHolder == ~(LoopHoldsLock /\ AbortHoldsLock)

\* The program counter agrees with the function the coroutine is in.
PhaseOfPc ==
    /\ phase = "boot" => pc \in {"down", "recLock", "reconcile", "reap", "sweep"}
    /\ phase = "loop" => pc \in {"top", "recLock", "reconcile", "reap", "scan"}
    /\ phase = "dispatch" => pc \in {"probe", "pick", "spawn", "launch", "apply", "reap"}

\* The task that is being spawned has, until the end, the GPU chosen for it;
\* the one that is being reaped has ended (and may have been deleted since).
CurIsSpawned ==
    /\ pc \in {"spawn", "launch", "apply"} => curGpu \in available
    /\ pc \in {"launch", "apply"} =>
         task[cur].state = "STARTING" /\ task[cur].gpu = curGpu /\ task[cur].unit
    /\ pc = "reap" => task[cur].state \in TerminalStates \cup {"DELETED"}

\* The task that is being aborted is managed until the abort is recorded.
AbortedIsManaged ==
    /\ abort.at # "idle" => abort.task \in Tasks
    /\ abort.at \in {"stop", "commit"} => task[abort.task].state \in ManagedStates
    /\ abort.at = "clean" => task[abort.task].state \in TerminalStates \cup {"DELETED"}

\* The rows a round of reconciliation has read stay managed until it visits them.
TodoIsManaged ==
    pc \in {"reconcile", "reap"} /\ phase # "dispatch" => todo \subseteq get_managed_tasks

\* The managed rows whose registration the coroutine has not yet seen to.
Unsettled ==
    IF pc \in {"launch", "apply"} THEN {cur}
    ELSE IF pc \in {"reconcile", "reap"} /\ phase # "dispatch" THEN todo
    ELSE {}

\* Once a round of reconciliation is through, and throughout the dispatch that
\* follows it, every managed row is registered with its GPU.
ManagedAreRegistered ==
    pc \in {"reconcile", "reap", "scan", "probe", "pick", "spawn", "launch", "apply"} =>
        \A t \in get_managed_tasks \ Unsettled : active_tasks[t] = task[t].gpu

\* The snapshot of free GPUs never grows stale in the dangerous direction.
SnapshotIsFree ==
    /\ phase # "dispatch" => available = {}
    /\ \A t \in get_managed_tasks \ Unsettled : task[t].gpu \notin available

IInv ==
    /\ OneHolder
    /\ PhaseOfPc
    /\ CurIsSpawned
    /\ AbortedIsManaged
    /\ TodoIsManaged
    /\ ManagedAreRegistered
    /\ SnapshotIsFree
    /\ RowsExclusive

\* What a unit does, when no answer of systemd-run is lost: it runs only for a
\* managed row, not before the launch, and not after the stop of an abort.
UnitInv ==
    /\ \A t \in Tasks : UnitRunning(t) => task[t].unit
    /\ pc = "launch" => ~UnitRunning(cur)
    /\ abort.at = "commit" => ~UnitRunning(abort.task)
    /\ UnitOwned

\* start() sweeps the units of rows that have ended.
SweptHaveEnded ==
    pc = "sweep" => \A t \in todo : task[t].state \in TerminalStates \cup {"DELETED"}

\* Which logs and units there are, when no answer of systemd-run is lost: a row
\* that waits has no unit, a STARTING row with a unit has a log, and what a
\* deletion of all rows has selected is not run again.
LogInv ==
    /\ \A t \in Tasks :
         /\ task[t].state \in {"NONE", "PENDING"} => ~UnitLoaded(t)
         /\ task[t].state = "STARTING" => task[t].unit /\ task[t].log
         /\ task[t].state = "STARTING" /\ UnitLoaded(t) => t \in logs
    /\ SweptHaveEnded
    /\ pc = "launch" => cur \in logs /\ ~UnitLoaded(cur)
    /\ \A t \in bulk.rows : task[t].state \in TerminalStates \cup {"DELETED"}
    /\ RunningHasLog

\* What a unit that was started leaves, when nothing is aborted and the host
\* stays up: it is loaded until its row has ended.
StartInv ==
    /\ abort = IdleAbort
    /\ SweptHaveEnded
    /\ \A t \in Tasks :
         unit[t].starts > 0 /\ ~UnitLoaded(t) =>
             task[t].state \in TerminalStates \cup {"DELETED"}
    /\ AtMostOnce

\* What is registered, when no cleanup after an abort times out: the GPUs of the
\* managed rows, except the one being launched, and that of the row being aborted.
RegistrationInv ==
    /\ \A t \in Tasks :
         active_tasks[t] # NoGpu =>
             \/ abort.at = "clean" /\ abort.task = t
             \/ task[t].state \in ManagedStates /\ task[t].gpu = active_tasks[t]
    /\ pc = "launch" => active_tasks[cur] = NoGpu

\* The memory of the running application agrees with the database.
SettingsLoaded == pc # "down" => disabled_gpu_ids = gpu_settings

-----------------------------------------------------------------------------
\* The scheduler implements the life cycle it promises: GPUs are given only
\* when free, only STARTING tasks are requeued, only ended tasks are deleted.
Lifecycle ==
    INSTANCE TaskLifecycle WITH
        state <- [t \in Tasks |-> task[t].state],
        held <- [t \in Tasks |->
                   IF task[t].state \in ManagedStates THEN task[t].gpu ELSE NoGpu]

RefinesLifecycle == Lifecycle!Spec
=============================================================================
