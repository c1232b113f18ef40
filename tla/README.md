# A formal model of rl-scheduler

TLA+ modules that model rl-scheduler, TLC configurations that check them on
small instances, and theorems about them that TLAPS proves for every size of
the system. Line numbers refer to the files under `src/`.

    tlc -config MCTaskScheduler_faults.cfg MCTaskScheduler   # one of the runs
    tlapm TaskSchedulerProofs.tla                            # one of the proofs

## 1. Inventory: the system and its parts

rl-scheduler is one asyncio process (FastAPI and a polling loop) on one host
with several GPUs. Users submit training commands; each runs as a transient
systemd unit on one GPU; the process may be restarted while units keep running,
and finds out afterwards what became of them.

| Component | State | Operations | What makes it correct |
|---|---|---|---|
| Task store, `models.py` | SQLite tables `tasks`, `gpu_settings`; log files | guarded `UPDATE`s, `insert_task`, `delete_task`, `delete_all_tasks` | a row moves only along its life cycle, and no statement undoes another's move |
| Scheduler, `scheduler.py` | the loop's position, `supervisor_available`, the lifecycle lock, `_progress` | `start`, `_run_loop`, reconcile, dispatch, spawn, `abort_task`, `set_gpu_scheduling_enabled` | one script per GPU, every task settles, order of the queue, restart loses nothing |
| GPU registrations, `hardware.py` | `active_tasks`, `disabled_gpu_ids`, process groups | `register_task`, `unregister_task`, `get_available_gpu_ids`, `set_scheduling_enabled` | registered exactly when owned; a disabled GPU is not given away |
| systemd runner, `systemd_runner.py` | none (systemd has the units) | `launch`, `inspect`, `stop`, `cleanup`, `launch_tensorboard`, `cleanup_tensorboards` | no answer is wrong unless `systemctl` prints nothing at all, and none is overtaken by what was asked before |
| Fan controller, `hardware.py` | mode, band and cooldown of each GPU | a tick per period, manual speed, restore, shutdown | the driver gets the fans back; hysteresis; a request is not undone |
| TensorBoards, `tensorboards.py` | sessions, reserved ports, locks per session | start, stop, list, monitor, history, shutdown | a port serves one session; what is stopped stays stopped |
| Admin sessions, `admin_sessions.py` | tokens and expiries | create, validate, renew, revoke | bounded number, no session lives on after its end |
| REST API, `main.py` | none of its own | one coroutine per request | see the components it calls |
| Log reading, `main.py:543-576`, and progress, `scheduler.py:77-108` | none | offsets and tails of a file that grows | no byte read twice or skipped |
| Dashboard, `static/index.html` | `logState` and `logTimer` of the log viewer, the task list, filters | rendering and polling | a late answer does not land in another log, a live log keeps up |
| Environments, installer | none | reading the file system; one shell script | - |

How they interact. The handlers and the loop are coroutines of one thread: they
share `Scheduler`'s memory and the database, and interleave at each `await`. The
lifecycle lock serialises reconciliation, one `_spawn_task` at a time, abort and
the switching of a GPU. Submission and deletion do *not* take it. The
availability snapshot runs in a worker thread, outside the lock, and is used for
the whole dispatch. systemd runs beside all this: units are created, killed and
removed by commands whose answers may fail, time out or get lost, and a script
exits when it likes. Only the database and systemd survive a restart.

What is hard to test, with the line where it bites, is the list `hazards` of
`PROJECT.json`: stale snapshots (`scheduler.py:176`), deaths between claiming a
row and recording its unit (`scheduler.py:233`), lost answers of `systemd-run`
(`scheduler.py:247`), exceptions past the line that gives a GPU back
(`scheduler.py:383`), deletions in two statements (`models.py:322`), stops and
shutdowns that meet a TensorBoard being created (`tensorboards.py:166`), the fan
thread against requests (`hardware.py:295`), admin tokens renewed after an await
(`main.py:343`), requests of killed clients that systemd still serves
(`systemd_runner.py:204`), a status that was not printed (`systemd_runner.py:160`), and a log that is replaced while it is read
(`static/index.html:1110`).

## 2. What is modelled

### TaskLifecycle: what is promised

The abstract specification: the `state` of a row and the GPU it `held`, with no
process, loop, lock or supervisor. `Claim` needs a GPU that nobody holds,
`Requeue` is for STARTING rows only, `Finish` for managed ones, `Delete` for
ended ones. Its initial states allow RUNNING rows, which a database of an
earlier release contains (`scheduler.py:279-282`).

### TaskScheduler: what the code does

The rows and guarded statements of `models.py`, `Scheduler`, the registrations
of `GpuManager`, the handlers that change any of these, and the units, crashes
and reboots around them.

| Variables | Code |
|---|---|
| `task`, `job`, `gpu_settings` | the tables: the columns `state`, `gpu_id`, `runner_unit`, `log_path`; those fixed by a submission; the disabled GPUs |
| `logs` | the log files that exist |
| `unit` | the unit of each task as `UnitStatus` shows it, and, as history, how often its command was started |
| `pc`, `phase`, `todo`, `cur`, `curGpu` | where the coroutine of `start()` and `_run_loop()` is, and the local variables of the function it is in |
| `probing`, `available` | `get_available_gpu_ids()` under way, and the set of the dispatch |
| `active_tasks`, `disabled_gpu_ids`, `supervisor_available` | the attributes of that name |
| `abort`, `bulk` | an `abort_task` that has the lock, a `delete_all_tasks` between its two statements |
| `faults` | the number of faults so far, bounded by `MaxFaults` |

A step is what a coroutine does between two awaits that another coroutine, the
supervisor or a crash can tell apart. The actions follow the functions:

| Actions | Function |
|---|---|
| `Boot`, `Sweep...`, `Top` | `lifespan`, `Scheduler.start`, `_cleanup_terminal_units`, `_run_loop` |
| `RecLock`, `Reconcile...`, `Reap`, `ReapTimeout` | `_reconcile_managed_tasks`, `_apply_unit_status` |
| `Scan`, `Probe`, `Pick...` | `_dispatch_pending_tasks`, `get_available_gpu_ids`, the head of `_spawn_task` |
| `SpawnRefused`, `SpawnClaim`, `Launch...`, `Apply...` | `_spawn_task` with the lock |
| `Submit...`, `Abort...`, `SetGpuScheduling`, `Delete...` | the handlers |
| `UnitExit`, `Crash`, `Reboot` | the script, the death of the application, that of the host |

`LoopHoldsLock` and `AbortHoldsLock` say who is inside `_lifecycle_lock`.

The kinds of faults are: `down` (systemd cannot be asked:
`SupervisorUnavailable`), `error` (`RunnerError` or a failing file operation),
`timeout` (a `TimeoutError` that `cleanup` and `stop` let through), `lost`
(`systemd-run` created the unit and its answer is missing), `crash` (the
application dies, or is stopped, which also cancels the loop wherever it is) and
`reboot`. A command that fails may have had its effect or not. That
`systemd-run` refuses a unit, or leaves a failed one, is no fault but an
ordinary outcome of a launch.

Abstractions, each with its reason:

- *Statement and commit are one step.* Each write of `models.py` is one
  `execute` and one `commit` on a connection that has its own thread.
- *inspect and what follows from its answer are one step* in reconciliation and
  after a launch. The lock keeps every other writer of the row away, and a unit
  that exits between the two steps is found exited in the next round, as one
  that exits after them.
- *A submission's checks and its INSERT are one step*; nothing in between
  depends on a row.
- *Logs are identified by their task.* The name contains the second of the
  launch, and a requeue unlinks the file before a new one is made.
- *Time* is absent: `created_at` is the set `after` of the tasks that were there
  before, and the sleep of the loop takes no step.
- *Environments* vanish when they like (`PickEnvGone`).
- *The order in which reconciliation visits rows* is any order, which includes
  that of `ORDER BY started_at`.
- *Left out*: the progress cache and the wake event, which only feed a status
  page and shorten a bounded sleep; `find_available_gpu`, which nothing calls;
  `scheduler.py:264-267`, which is unreachable, since only holders of the lock
  change a STARTING row.

### DispatchOrder: who is next

`TaskScheduler` with two history variables: `tried`, the rows that the dispatch under
way has tried to launch (`scheduler.py:172-201`), and `late`, those that were
submitted since it has read the table. They change nothing of what the scheduler may
do. They are needed because a row that was put back looks, in the table, like one
that still waits, and the code promises something only for those whose turn has not
come and which it can know.

### TensorBoards: sessions, ports, and who may stop what

`tensorboards.py` with the TensorBoard commands of `systemd_runner.py`.

| Variables | Code |
|---|---|
| `sessions`, `state`, `key`, `port` | the registry and its objects; `key` stands for user, log directory and interpreter |
| `unconfirmed`, `available`, `recovering` | `_unconfirmed_stops`, `available`, a `cleanup_tensorboards` under way |
| `unit` | the unit of each session in systemd; survives the application |
| `launcher`, `stopper`, `closer`, `monitor` | where the coroutines of `_start_session`, `stop`, `_close_session` and `_monitor` are |
| `phase` | `start()`, `close()` and the death of the process |

| Actions | Function |
|---|---|
| `Boot`, `EnsureBegin`, `EnsureEnd` | `start`, `_ensure_supervisor`, `cleanup_tensorboards` |
| `Reserve`, `CreateBegin`, `CreateEnd`, `Poll`, `Deadline`, `Inspect`, `Decide` | `launch`, `_start_session` |
| `FailBegin`, `FailEnd`, `Cancel` | `_fail_startup`, and the cancellation of a request |
| `Stop`, `Stopper...`, `LauncherStop...`, `Closer...` | `_stop_session` on behalf of a request, of the launch, of the shutdown |
| `DeleteHistory`, `Monitor...`, `Close...` | `delete_history` and `clear_history`, `_monitor`, `close` |

A session object outlives its place in the registry for as long as a coroutine
refers to it, so `state` belongs to the object and `sessions` to the registry.
`Locked` says whether somebody is inside `async with session._lock`. The faults
are: `error` (a command fails or times out, with or without its effect),
`cancel` (the coroutine of a launch is cancelled at any of its awaits) and
`crash`. Abstractions: the registry lock guards nothing that awaits, so what it
guards is one step; a port is free or not, and ready or not, as it likes, since
anybody may listen on it; paths and interpreters are validated before anything
is shared; at most one stop request per session is under way, since two wait for
the same lock and do the same; no command of a dead application takes effect
after the next one has cleaned up.

### BoardPromises: what its users are told

The abstract specification of TensorBoards: which state of a session is `shown`,
for which key and port it was made, which TensorBoards run, and which sessions
are `marked` as being stopped, or not stopped for certain. There is no coroutine,
lock, deadline or monitor in it. `Reserve` needs a key that nothing active has, a
port that nothing running, active or marked has, and no TensorBoard of a dead
process; `Notice` and `Delete` are for what does not run; `Confirm` ends the
TensorBoard and the mark together, and an end is never undone.
`TensorBoards` implements it with `Shown`, `Runs` and `Marked`: a session that was
deleted is shown as DELETED while a coroutine still has its object.

### FanControl: the thread, the requests, and the driver

The fan part of `GpuManager` in `hardware.py`. Each GPU is a record: what its
`fans` do (a speed, `Driver`, or `Mixed` after a write that failed half-way),
its `band` and `cooling` (`AutoFanState`, `None` outside automatic mode),
`pending` (`_pending_fan_restores`), and, as history, what was `promised` to the
user last, the temperature that was read last, and how long it has been `quiet`,
that is without a step or a warm reading.

| Actions | Function |
|---|---|
| `SetManual`, `SetAuto` | `set_fan_speed`, `set_fan_auto`, with the handler of `main.py:412-439` |
| `Wake`, `Delay`, `Lock`, `Visit`, `Unlock`, `WorkerEnds` | `_fan_loop`, `_update_auto_fans` |
| `Shutdown`, `ResetBegin`, `Reset`, `ResetEnd` | `shutdown` |
| `Boot`, `Crash` | a new `GpuManager`; the death of the process |

`InPart`, `Restored`, `Fallback` and `WriteFails` are the outcomes of the NVML
calls, which may fail one by one. The tick takes a step per GPU while it has the
lock, so that a crash can come between two of them. Abstractions: time passes in
polls of `FAN_POLL_SECONDS`, and `Cooldown` is the number of polls in
`FAN_COOLDOWN_SECONDS`; the fans of a GPU are set together, so one setting or
`Mixed` stands for all of them; GPUs without fan control, for which every call
raises or does nothing, are left out; a request ends before the shutdown starts,
since uvicorn runs without a limit on its graceful shutdown (`main.py:686`) and
waits for requests before it ends the lifespan. A killed process leaves its fans
as they are, and the next one does not reset them (`promised` is then `None`):
the repository promises that for a shutdown only.

### AdminSessions: tokens that end

`admin_sessions.py` and how the handlers use it. `remaining` is the expiry of
each stored token as the time left until it, so that the clock needs no bound;
`request` is the token each privileged request was admitted with; `ended` and
`idle` are history. `Begin` is `_require_admin`, `Succeed` the
`_touch_admin_session` after the awaits, `Fail` an operation that raises or
reports a failure; `Login` is `create()` with `_prune()`, `Logout` the deletion
of a session, `Restart` a new process with an empty store. Of equal expiries any
may be evicted. Requests that bring the password itself never touch the store.

### SystemdRunner and UnitPromises: what an answer is worth

`TaskScheduler` and `TensorBoards` take an operation of `systemd_runner.py` for
one step with an outcome. `SystemdRunner` looks inside, for one unit: an
operation (`op`) is a sequence of client commands (`verb`), each a request that
has been `sent` or, for a start or a stop, a `job` that is waited for, and ends
with what it `says`. Callers hold a lock of the unit, so one operation is under
way; a unit exits, and its start and stop end, when they like.

| Actions | Code |
|---|---|
| `Call`, `Handle` | an operation begins; systemd comes to the request of its current command, and the code goes on to the next one (`First`, `Follows`, `Launched`, `NotLaunched`, `Report`) |
| `Refused` | the exit status is not 0, or `systemctl show` prints only an error, with or without an effect |
| `ShowsNothing` | `systemctl show` prints nothing, not even an error: `inspect` looks at the output alone (`systemd_runner.py:150-172`) and takes this for a unit that is not there |
| `Expire`, `Cancel`, `NotSpawned` | `TimeoutError`, `CancelledError` and `OSError` of `_run`; the first two kill the client and leave its request behind (`late`) |
| `HandleLate`, `Started`, `Stopped`, `Exit`, `Hang`, `Recover` | systemd and the script: external |

What systemd does (`Effect`, and that it serves requests in the order in which
they arrive) is assumed: `systemctl` and `systemd-run` are clients of one
single-threaded manager. A client that is killed may have sent its request
already; a question of a killed client changes nothing. Commands run out of time
only while systemd hangs, which stands for a job that takes too long as well
(`Started` and `Stopped` go on). A unit name is never used for anything but the
scheduler's units. `systemctl show` prints a status in one piece or not at all (it
is less than a buffer of a pipe). That it prints nothing on either stream is the
kind of fault `silent`: the client was killed by somebody else, by a SIGTERM to the
control group of the service, Ctrl-C or a lack of memory. Of the other commands the
same death is an exit status that is not 0, and part of `Refused`.

`guessed` is a history variable: the last operation ended on a status that nobody
printed. No action depends on it. It is there because "missing" looks the same
whether systemd said so or nobody did, to the callers as well.

`UnitPromises` is the abstract specification: what the callers build on. A
launch without an answer `may` still take effect, but not after the next answer
that says something of the unit; "missing" means there is none, "running" that
its script runs, "finished" that it does not, and `stop` and `cleanup` return
only when it does not. A fifth kind of step, `Guess`, is what the code adds to that:
"missing" and the return of `stop` and `cleanup` may be given without any sign of
the unit, and then promise nothing; "running" and "finished" are never guessed. The `unavailable` and `error` of it are the kinds `down`
and `error` of `TaskScheduler`, `raised` its `timeout`, and `may` after
`unavailable` is its `lost`; in `TensorBoards` all four failures are `error` or
`cancel`. That both modules inspect or clean up a unit before they start another
under its name is why one answer is enough. What they do not have is `Guess`: in both an
inspection that answers is right. Their properties, above all `UnitsExclusive`,
`UnitOwned` and `RunningIsOwned`, hold under the hypothesis of `TrueUnlessSilent`, and
section 5 says what happens without it.

### LogView: a log and its viewer

The log viewer of `static/index.html`, `get_task_log`, and what happens to the
files meanwhile.

| Variables | Code |
|---|---|
| `state`, `size`, `launches` | the row of each task (`LIVE` is STARTING or RUNNING; a log exists while it is `LIVE` or `ENDED`), the bytes in its log, and a count for the bound |
| `listed`, `lists` | `taskById`, and all lists there ever were: an answer may be late and show any |
| `view`, `opens`, `timer` | `logState` (its identity is the number of the opening), `logTimer` |
| `shown`, `notice`, `broken` | `log-content`, `log-notice`, and whether the content begins with an error |
| `reads` | the requests for a log that the page waits for, and their answers |

| Actions | Code |
|---|---|
| `Launch`, `Write`, `Finish`, `Unlink` | the scheduler's claims, the script's output, the end, a requeue or a deletion |
| `ServeLog`, `ServeNothing`, `Lose` | `get_task_log` with its headers, a 404, no answer |
| `Open`, `Close`, `Refresh`, `Tick` | `viewLog` and `openLogModal`, `closeLogModal`, the button, the interval timer |
| `ShowTail`, `ShowChunk`, `Reload`, `ShowError`, `Ignore` | what `loadLogTail` and `refreshOpenLog` do with an answer |
| `ShowList` | `refreshTasks` |

Abstractions: what is shown is a sequence of bytes, known by task and position,
so a new log that is already longer than what was read of the old one counts as
its continuation, as it does for the code, which compares sizes only; reading the
row and reading the file are one step, since a file that vanishes between the two
is a failed answer (`Lose`); at most one byte is appended between `getsize` and
`read`; the 128 KiB, 256 KiB and 512 KiB are constants; a hidden window shows
nothing. The journal of a TensorBoard in the same window is always read whole and
left out.

## 3. What is checked

| Run | Instance | What it shows |
|---|---|---|
| `faults` | 2 tasks, 2 GPUs, aborts and switches, 2 faults among crash, down, error, reboot | `TypeOK`; `UnitsExclusive`: one script per GPU; `UnitOwned`: what runs is shown as STARTING or RUNNING on that GPU; `RegisteredAreManaged`: outside the lock only owners are registered; `DisabledGpuNotClaimed`: also across restarts |
| `handlers` | 3 tasks, one of an earlier release, aborts and deletions, 2 faults among crash, error, timeout | `RowsExclusive`; `RunningHasLog`: no deletion or requeue takes the log of a running task; `RefinesLifecycle`: the scheduler implements `TaskLifecycle` |
| `lossy` | 2 tasks, 2 priorities, pinned and unpinned, a GPU that a foreign process may occupy, 2 faults among lost, crash, error, timeout; fair | `AtMostOnce`: no command is started twice although its row may be requeued while it runs; `NoneIsPassedOver`: no task gets a GPU that one before it in the queue could have used, and no dispatch that comes to its end, rather than being broken off by an exception, leaves a GPU to spare for one it has read, unless it has tried that one; `EveryTaskSettles` |
| `boards` | 2 sessions, 2 keys, 2 ports, stops, deletions, shutdowns, 2 faults among error, cancel, crash | `PortsExclusive`: no two TensorBoards run on one port; `RunningIsOwned`: what runs can be stopped, or is an orphan that nothing is started beside; `ClosedIsDead`: after `close()` only what could not be stopped runs; `RefinesPromises`: the manager implements `BoardPromises` |
| `settle` | 2 sessions, 1 key, 1 port, stops, a shutdown, 2 faults among error and cancel; fair | `StartEnds`: a start ends, or is marked as unconfirmed; `DeathIsNoticed` |
| `fans` | 2 GPUs, speeds 50 to 95, readings 45, 60, 80, a cooldown of 2 polls; fair | `FansAsPromised`: a tick never undoes a request; `Attended`: the thread runs while there is work; `FansCool`, `StepsAreEarned`: the curve with hysteresis and cooldown; `ShutdownRestores`; `RestoresAreRetried` |
| `tokens` | 4 tokens, room for 2, 2 requests, a timeout of 3 | `EndedIsOver`: what was revoked, evicted or found expired is never valid again; `IdleExpires`: only logins and successes keep a token alive; `EvictsTheLeast` |
| `units` | one unit, any sequence of operations, 3 faults among refused, silent, cancel, spawn, hang; fair | `AnswerLasts`: a unit reported missing does not appear, and one stopped or cleaned up does not run, before the next operation, unless that was guessed; `RefinesPromises`: the runner implements `UnitPromises`, so that only a silent `systemctl show` makes a guess, and only of these two answers; `OperationEnds` |
| `viewer` | 1 task, logs of at most 3 bytes, tails of 1, chunks of 2, a view of 2, 2 launches, 2 openings; fair | `ShownInOnePiece`: what is shown is one piece of the log of the task that is open and ends where the next read begins; `GapIsAnnounced`; `CatchesUp`: while the timer runs, the view does not stay behind the log |
| `one_per_gpu`, `gpu_leak`, `orphan_log` | the smallest instance that shows it | the findings of section 5 |

Deadlock is checked in all of them: the loop, the launches, the thread, the
clock, the lists of the page and the operations always have a step.

The bounds. A conflict over a GPU needs two tasks, and so does overtaking. A third
is needed for a task of an earlier release beside two new ones. Two GPUs allow a
pinned task to wait for one while the other is free. A lost answer is a supervisor
that is unavailable with a unit left behind, so that `lossy` does without `down`. Two
faults allow one to strike in the recovery from the other, such as a crash after
a lost answer. No run has a bound on the length of a behaviour: a task is
submitted once, and everything else repeats for as long as it likes. `Tasks` is
a symmetry set in the safety runs, where tasks are interchangeable; it is not
used with a temporal property under fairness or with legacy tasks.

For the other components: two sessions compete for a key or a port, and one can
wait while the other has it; with one port in `settle` the second start depends
on the end of the first. Three readings lie in three different bands of the
curve, one of them in the hysteresis of another (45 is 5 below the threshold of
50; 60 is 5 below 65, and 80 is a threshold), the range of the hardware cuts off
the lowest and the highest speed of the curve, and two polls are enough for a
cooldown that can be interrupted. GPUs share only the thread and its lock. Four
tokens in a store for two let an evicted token meet a request that began with
it, and a third login after it. Three faults leave the requests of two killed
clients behind a third operation that fails. Of one log, two launches give an old
and a new file, two openings an answer that is late for another view, and three
bytes a tail that leaves one out, a chunk that is full, and a view that is
trimmed; nothing relates the logs of two tasks but the current view, and the
proofs are for any number. Sessions with keys and ports, and tokens and
requests, are symmetry sets in the safety runs.

Fairness, in `lossy`: the loop takes a step whenever it can (the
event loop runs each ready coroutine; a dead application is restarted, as
`install-service.sh` sets `Restart=`); an abort that has the lock goes on; each
script ends some day. Faults are never fair and finitely many: with a supervisor
that is down for ever nothing can settle. Users need not act. In `settle`: the
monitor, the shutdown, and each launch and stop go on (ready coroutines run, and
every command ends or times out), and the clock reaches the deadline of a start
that keeps polling (`SF` of `Deadline`, which is possible only at the head of
the loop). In `units`: systemd, unless it hangs, comes to each request and ends
each start and stop, and the timeout of a command runs out. A systemd that hangs
need not recover, and the script need not end. In `viewer`: the timer ticks, the
page handles each answer, and of requests sent again and again some are answered
(strong: any number may be lost). In `fans`: the thread
wakes up, gets the lock again and again (strong, since requests may have it),
finishes its tick, and a restore that is tried for ever succeeds once (strong;
without it the hardware may refuse for ever).

Every property has a faulty variant of a definition under which TLC finds it
violated (the operators commented "Faulty variant", listed as `mutants`): a
guard, a reset or a `WHERE` clause dropped, or a check trusted to a snapshot.

## 4. What is proved

For every set of tasks and GPUs, any number of faults, and so on for each
component:

| Theorem | Module | Statement |
|---|---|---|
| `TypeCorrect` | TaskSchedulerProofs | `Spec => []TypeOK` |
| `Invariance` | TaskSchedulerProofs | `Spec => []IInv` |
| `OwnershipIsExclusive` | TaskSchedulerProofs | `Spec => []RowsExclusive` |
| `WhatRunsIsOwned` | TaskSchedulerUnits | `Spec => []UnitOwned`, if no answer is lost |
| `OneScriptPerGpu` | TaskSchedulerUnits | `Spec => []UnitsExclusive`, if no answer is lost |
| `LogsAreKept` | TaskSchedulerUnits | `Spec => []RunningHasLog`, if no answer is lost |
| `StartedAtMostOnce` | TaskSchedulerUnits | `Spec => []AtMostOnce`, if nothing is aborted and the host stays up |
| `ImplementsLifecycle` | TaskSchedulerGpus | `Spec => RefinesLifecycle` |
| `RowsOnlyGoForward` | TaskSchedulerGpus | `Spec => RowsGoForward`: verdicts are kept, what was seen running is not requeued |
| `LifecycleSuffices` | TaskSchedulerGpus | `RefinesLifecycle => []RowsExclusive` |
| `IterationsEnd` | TaskSchedulerProofs | `Spec => IterationsShrink`, for finite sets of tasks and GPUs |
| `QueueIsOrdered` | TaskSchedulerGpus | `Spec => [](OneComesFirst /\ LoopGoesOn)`, for a finite set of tasks |
| `NobodyIsPassedOver` | TaskSchedulerGpus | `OrderSpec => NoneIsPassedOver` |
| `SettingsAgree` | TaskSchedulerGpus | `Spec => []SettingsLoaded` |
| `DisabledStaysUnused` | TaskSchedulerGpus | `Spec => DisabledGpuNotClaimed` |
| `NoGpuIsLeaked` | TaskSchedulerGpus | `Spec => []RegisteredAreManaged`, if no cleanup times out |
| `TypeCorrect`, `Invariance` | TensorBoardsProofs, FanControlProofs, AdminSessionsProofs, SystemdRunnerProofs, LogViewProofs | the types and the inductive invariant of each |
| `OnePortEach` | TensorBoardsProofs | `Spec => []PortsExclusive` |
| `WhatRunsIsOwned` | TensorBoardsProofs | `Spec => []RunningIsOwned` |
| `ShutdownIsComplete` | TensorBoardsProofs | `Spec => []ClosedIsDead` |
| `OneSessionPerKey` | TensorBoardsProofs | `Spec => []KeysExclusive` |
| `EndedForGood` | TensorBoardsProofs | `Spec => EndedStaysEnded` (which only the proof is about) |
| `PromiseInvariance` | TensorBoardsProofs | `Spec => []PromiseInv` |
| `KeepsPromises` | TensorBoardsProofs | `Spec => RefinesPromises` |
| `PromisesSuffice` | TensorBoardsProofs | `RefinesPromises => [](PortsExclusive /\ KeysExclusive)` (keys: for sessions in `Sessions`) |
| `LaunchesProgress` | TensorBoardsProofs | `Spec => LaunchesGoForward` |
| `ShutdownProgresses` | TensorBoardsProofs | `Spec => ShutdownGoesForward` |
| `PromisesAreKept` | FanControlProofs | `Spec => []FansAsPromised` |
| `ThreadAttends` | FanControlProofs | `Spec => []Attended` |
| `ReadingsAreCooled` | FanControlProofs | `Spec => []FansCool` |
| `DriverGetsTheFans` | FanControlProofs | `Spec => []ShutdownRestores` |
| `EveryStepIsEarned` | FanControlProofs | `Spec => StepsAreEarned` |
| `TicksUndoNothing` | FanControlProofs | `Spec => TicksKeepOff` |
| `ThreadEnds` | FanControlProofs | `Spec => ThreadWindsUp` |
| `RevokedForGood` | AdminSessionsProofs | `Spec => []EndedIsOver` |
| `IdleSessionsExpire` | AdminSessionsProofs | `Spec => []IdleExpires` |
| `StoreStaysBounded` | AdminSessionsProofs | `Spec => []StoreIsBounded` |
| `LoginsEvictTheLeast` | AdminSessionsProofs | `Spec => EvictsTheLeast` |
| `AnswersLast` | SystemdRunnerProofs | `Spec => []AnswerLasts` |
| `RunnerKeepsPromises` | SystemdRunnerProofs | `Spec => RefinesPromises` |
| `PromisesSuffice` | SystemdRunnerProofs | `RefinesPromises => [](AnswerLasts /\ FinishedLasts)` |
| `FinishedIsFinal` | SystemdRunnerProofs | `Spec => []FinishedLasts`: what was reported finished does not run again, guesses or not |
| `TrueUnlessSilent` | SystemdRunnerProofs | if `"silent"` is no kind of fault, `Spec => []SaidIsTrue`: no answer is wrong |
| `OperationsGetShorter` | SystemdRunnerProofs | `Spec => OperationsShrink` |
| `LogsAreWhole` | LogViewProofs | `Spec => []ShownInOnePiece` |
| `GapsAreAnnounced` | LogViewProofs | `Spec => []GapIsAnnounced` |
| `NoReadIsForgotten` | LogViewProofs | `Spec => []LoadingIsRead` |
| `ViewsOnlyGoForward` | LogViewProofs | `Spec => ViewsGoForward` |

"For every" means: any set of sessions, keys, ports, GPUs, tokens and requests,
any range of fan speeds, readings, cooldown, timeout and limit of the store, any
sequence of operations on a unit, and any sizes, limits and openings of logs. The
fan curve and its hysteresis are those of the code. Assumed are the
`ConstantsAssumption` of each module and, in the theorems that say so, that a kind
of fault does not occur. These hypotheses are needed: the runs `one_per_gpu` and
`gpu_leak` are the counterexamples without them. Two theorems about how the loop
gets on need a finite number of tasks or GPUs, which a table and a host have.

*Scheduler.* `RowsExclusive` is not inductive: a claim uses `available`, a
snapshot that is as old as the dispatch. What makes it safe is `SnapshotIsFree`
(no managed row's GPU is in it), and that holds because the snapshot leaves out
what is registered while every managed row *is* registered
(`ManagedAreRegistered`) from the end of a reconciliation to the end of the
dispatch. The exceptions are the rows the coroutine has in hand (`Unsettled`):
those a round has still to visit, and the one being launched, which
`CurIsSpawned` ties to a GPU that is in `available`. Since a row becomes managed
only by a claim of this same coroutine, requests can only make the snapshot too
small. `TodoIsManaged` and `AbortedIsManaged` say that nobody else takes a
managed row away, which rests on the lock (`OneHolder`). `IInv` is the
conjunction of these. `UnitInv` adds what a unit may do at each point of a
launch and an abort; `RegistrationInv` adds the row whose abort is being cleaned
up. `LogInv` is for the logs: a waiting row has no unit, a STARTING row with a
unit has a log, and what a delete-all has selected has ended for good. `StartInv`
is for the starts: a unit that was started stays loaded until its row has ended,
so that a requeued row finds it.

The refinement maps each guarded statement to the step of `TaskLifecycle` that
moves its row (`ManagedMoves`, `FailureMoves`, `DeletedMove`), and all else to a
stutter. The guards of the statements give the guards of the steps, but for the
claim: that no task owns the GPU is `SnapshotIsFree`.

`NoneIsPassedOver` follows from an invariant of the queue (`OrderInv`). What is
pending, and neither ahead in the queue nor tried, either came during the dispatch,
after everything in the queue, or asks for a GPU that is not in the snapshot
(`PassedOver`), and the snapshot only shrinks once the rows are visited. Submissions
keep this since they are younger than all there is (`AgesAgree`), and no row returns
to the queue in a dispatch but the one at hand (`StepKeepsRows`). That a dispatch
which stops before the end of the queue has no GPU left needs that a set of GPUs has
a lowest one (`LowestExists`), by the well-foundedness of the natural numbers.

*TensorBoards.* Running units have different ports because a port is taken for
as long as its session is active or unconfirmed, and what runs is one of these
(`RunningIsOwned`). A unit is created after its port was reserved, so the
invariant must be about what runs *or may still be created*
(`LivePortsDiffer`), and about when that is (`CreatedOnce`). A stop takes the
session out of the active states only when its unit is gone, and marks it
before it starts to remove it (`CleaningIsMarked`), under the lock
(`OneHolder`). After `close()` has selected what it stops, nothing else may be
between the check of `closing` and the end of its creation: such a launch has
the lock of a STARTING session, which was selected (`SelectedCoversLive`). What
the monitor has read stays true although it reads without the lock, because a
unit that is not running never runs again (`VerdictHolds`). The refinement needs,
besides, that only sessions of this process are known or worked on
(`KnownAreLive`), that a failed start is cleaned up while it is shown as failed
(`FailedAreCleaned`), and that no session exists before the orphans are gone
(`RecoversFirst`); these are `PromiseInv`. With them each outcome of a launch, a
stop or the monitor is the step of `BoardPromises` of that name, a cleanup that
ends the unit first and fails is `Exit`, and what only moves a coroutine is a
stutter.

*FanControl.* Each GPU is consistent in itself (`OnTheCurve`, `OffTheCurve`),
which the requests keep because a failed write leaves automatic mode and
remembers the restore before it raises. `CoolingIsQuiet` bounds the cooldown by
time without a warm reading. `Attended` rests on `EndedIsTold`: the thread ends
only when the shutdown tells it to, so that whoever finds a restore pending finds
a thread. `VisitedIsReset` follows the loop of the shutdown, and needs the thread
to be gone. `TicksKeepOff` is the same seen from a request: what has a manual speed, or
is under the driver already, has neither a band nor a pending restore, so that a tick has
nothing to do there. The arithmetic of the curve is one lemma per fact (`FanBand` is the
band of a reading, speeds grow with bands, clamping keeps the order).

*AdminSessions.* `TimesAddUp` (what remains and what was idle make up at most the
timeout) is what `IdleExpires` needs; the cardinality of the store rests on the
theorems about finite sets.

*SystemdRunner.* `AnswerLasts` is inductive once it is known that an operation
that is under way has said nothing (`SilentUnderWay`). What carries it is that an
answer is given only when no request of a killed client is left (`late = {}`),
and that every operation ends with an inspection. The refinement maps each
action to a step of `UnitPromises` or a stutter: a call is `Ask`, the answer of
an inspection `Tell`, one without output `Guess`, every failure `Fail`, and a launch
that takes effect, in time or late, `Start`. `FinishedIsFinal` needs no exception for
guesses, which are never "finished": an end that the scheduler records with an exit
status is always a real one. `TrueUnlessSilent` is the case where the exception does
not occur, and so the assumption of the two modules above.

*LogView.* `ShownInOnePiece` rests on three facts: the current view has at most
one read, and only while it is `loading` (`OneRead`); the answer to a chunk
begins where the view ends, unless it says that the log is shorter than that
(`Fits`); and an answer ends where it says (`Consistent`). `GapIsAnnounced` needs
also that nothing is shown only before the first byte or after an error
(`EmptyIsNew`), since a chunk that is appended to nothing has a beginning of its
own. `NoReadIsForgotten` is the other direction of `OneRead`, and rests on how a late
answer is told from one of the current view (`Current`): only an answer to a view that is
not open any more is ignored.

*The abstract specifications.* An abstract specification is worth something only if
it implies what its users need without a look at what is below. `LifecycleSuffices`
and the two `PromisesSuffice` prove that: their hypothesis is the refinement alone,
and their induction is over the steps of the abstract specification (`LifecycleStep`,
`PortsAndKeysStep`, `ToldStep`). What follows so holds of the code by the
refinement: `RowsOnlyGoForward` and `FinishedIsFinal` are proved in this way.

*Progress.* Liveness is beyond the prover, but most of what could keep these
programs from their ends is not a question of fairness: a coroutine that goes round in
circles, that gets new work from others faster than it does its own, or that waits for
something which is not there. That this cannot be is proved with ranks. In
`IterationsShrink` it is the stage of the iteration, and then what is left of the
for-loop the coroutine is in (five steps for each row it has to visit, one for each GPU
to look at); every step of the coroutine lowers it, and no other step but a crash touches
it. `LoopGoesOn` says that there is a next step: a snapshot that is not complete has a
lowest GPU left, a queue that is not empty has exactly one head, and a launch that is
to be recorded has a unit to look at. The head needs that ages are a total order, also of
rows of which some are requeued (`AgeInv`), that rows of an earlier release never wait,
and that of finitely many rows one has the least number before it, by the
well-foundedness of the natural numbers (`QueueHasAHead`). `OperationsShrink` counts
the commands that are left of an operation. `LaunchesGoForward` orders the places of
`_start_session`, with polling as the only way back, and `ShutdownGoesForward` and
`ThreadWindsUp` say that the shutdowns of the TensorBoards and of the fan thread get no
new work. `LoadingIsRead` and `ViewsGoForward` say that a view is never blocked without
a read, and that a chunk of a log that has more never leaves it where it is. What remains to the fairness of section 3, and to
TLC, is that a step which is possible is taken, that a lock is handed on, that the
deadline of the polling comes, and that faults end.

Each proof that a step preserves an invariant has one lemma per group of actions
or one step per action.

Only model-checked: `EveryTaskSettles`, `StartEnds`, `DeathIsNoticed`,
`RestoresAreRetried`, `OperationEnds` and `CatchesUp`. Of the first, the second, the
fifth and the last the parts above are proved; that fair steps are taken is not.

## 5. What the code does not keep

- `one_per_gpu`. `scheduler.py:247-251` takes `SupervisorUnavailable` from a
  launch for "nothing was started". If only the answer of `systemd-run` was
  lost, the script runs, the row is PENDING again, its GPU is still in
  `available`, and the next task of the same dispatch gets it. README.md:3
  promises exactly one script per GPU.
- `gpu_leak`. `abort_task` catches `RunnerError` and `SupervisorUnavailable`
  around its cleanup (`scheduler.py:380-384`), not the `TimeoutError` of
  `SystemdRunner._run`. It skips `unregister_task`; the row has ended and is
  never reconciled again, so the GPU is unavailable until a restart. README.md:292-294.
- `orphan_log`. `delete_all_tasks` selects log paths and deletes rows in two
  statements. A task that ends in between loses its row and keeps its log for
  ever. README.md:19.

Four more limits of the properties, where no text promises otherwise, the text can
be read either way, or the module in question does not go that far:

- After a launch has found the supervisor unavailable (`scheduler.py:247`) the
  dispatch that is under way goes on to the other rows. README.md:369 says that
  "dispatch pauses", which it does from the next iteration on. A younger
  task can then take the GPU of one that was just requeued, or that was refused
  because its GPU was disabled at that moment and enabled again (`scheduler.py:230-232`).
  `NoneIsPassedOver` is therefore about the rows that this dispatch has not tried.
- `inspect` ignores the exit status of `systemctl show` and raises only if there is
  no output *and* an error was printed (`systemd_runner.py:150`, `:160`). A client that
  is killed from outside prints neither, and the status is then that of a unit which
  is not loaded (`:166`), whatever the unit is: `ShowsNothing`. With it `SaidIsTrue`
  is false (five states: a launch whose script runs is reported missing), which is
  why `AnswerLasts` and `UnitPromises` except guesses. The callers cannot tell:
  reconciliation ends the row of a running script (`scheduler.py:298`) or requeues
  it (`:295`), both give its GPU away, `abort_task` and the stop of a TensorBoard
  take it for dead. README.md:369 promises that task states are preserved "if systemd
  cannot be queried"; here systemd could be, and its client was lost. This step from
  a guess to two scripts on a GPU is not in `TaskScheduler`, whose supervisor is
  right or fails.
- A launch of a TensorBoard that has failed and is cancelled while it waits for
  the lock behind a stop (`tensorboards.py:193`) leaves its session STARTING if
  that stop fails. It is marked as unconfirmed, so its port stays reserved and
  another stop ends it; `StartEnds` allows exactly this.
- A live view ends when any list, even a late one, shows the task as not running
  (`static/index.html:783`), and no last read follows. `CatchesUp` is about the
  time while the timer runs.

## 6. Plan

In the order of their importance:

1. `FanPromise`: what FanControl promises as an abstract specification of its own,
   with a refinement as `TaskScheduler`, `SystemdRunner` and `TensorBoards` have them.
2. `ProgressParser`: the progress of a task as a function of the tail of its log,
   checked against a reference definition over bounded inputs.

## 7. What is not modelled

Not yet: the progress parser. Not at all: telemetry and status pages (they only
read), rendering in the dashboard beyond its log viewer, the validation of
paths, users and interpreters in `main.py` and `tensorboards.py` (reading of the
file system), the reading of a TensorBoard's journal, `environments.py` (stateless
reading of the file system, whose effect on the queue is `PickEnvGone`), and the
installer (a script that runs once).
