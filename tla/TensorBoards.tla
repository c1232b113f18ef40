---------------------------- MODULE TensorBoards ----------------------------
(***************************************************************************)
(* The TensorBoard sessions of rl-scheduler (tensorboards.py): a registry  *)
(* in memory, one transient systemd unit and one lock per session, ports   *)
(* that sessions reserve, requests that start, stop and delete sessions, a *)
(* monitor that notices dead units, and a shutdown that stops the rest.    *)
(*                                                                         *)
(* The registry lock is not modelled: nothing awaits while holding it, so  *)
(* what it guards is one step anyway.  What an inspection reports is taken *)
(* to be so: SystemdRunner says when it is.                                *)
(***************************************************************************)
EXTENDS Naturals

CONSTANTS
    Sessions,     \* identifiers; a uuid4 is never drawn twice
    Keys,         \* what identifies a session to its user: name, logs, python
    Ports,        \* ports a session may get
    NoKey, NoPort, NoSession,
    Requests,     \* kinds of requests that occur besides launching
    FaultKinds,   \* kinds of faults that occur
    MaxFaults     \* bound on their number

ASSUME ConstantsAssumption ==
    /\ NoKey \notin Keys
    /\ NoPort \notin Ports
    /\ NoSession \notin Sessions
    /\ Requests \subseteq {"stop", "delete", "close"}
    /\ FaultKinds \subseteq {"error", "cancel", "crash"}
    /\ MaxFaults \in Nat

VARIABLES
    sessions,     \* TensorBoardManager.sessions, the registry
    state,        \* TensorBoardSession.state ("NONE": no such object yet)
    key, port,    \* what a session was reserved for
    unit,         \* the unit of each session, as systemd has it
    unconfirmed,  \* _unconfirmed_stops
    launcher,     \* where _start_session of each session is
    stopper,      \* where a stop request for each session is
    closer,       \* where _close_session of each session is
    monitor,      \* where _monitor is
    available,    \* TensorBoardManager.available
    recovering,   \* cleanup_tensorboards is under way
    phase,        \* where the application is between start() and close()
    faults        \* faults so far

registry == <<sessions, key, port>>
app == <<available, recovering, phase>>
vars == <<sessions, state, key, port, unit, unconfirmed, launcher, stopper,
          closer, monitor, available, recovering, phase, faults>>

-----------------------------------------------------------------------------
ACTIVE_STATES == {"STARTING", "RUNNING"}
HISTORY_STATES == {"STOPPED", "FAILED"}
\* An object that died with the process is LOST.
SessionStates == {"NONE", "LOST"} \cup ACTIVE_STATES \cup HISTORY_STATES

LauncherPlaces == {"none", "lock", "create", "poll", "inspect", "decide",
                   "stopWait", "stopClean", "fail", "failClean", "shielded",
                   "shieldedClean"}
\* The ones inside runner.cleanup.
LauncherCleans == {"stopClean", "failClean", "shieldedClean"}
StopPlaces == {"none", "wait", "clean"}

UnitRunning(s) == unit[s] = "running"
UnitGone(s) == [unit EXCEPT ![s] = "none"]
UnitStarted(s) == [unit EXCEPT ![s] = "running"]

closing == phase \in {"closing", "stopping", "closed"}
Up == phase # "down"

\* Some coroutine is inside "async with session._lock".
Locked(s) ==
    \/ launcher[s] \in {"create"} \cup LauncherCleans
    \/ stopper[s] = "clean"
    \/ closer[s] = "clean"

\* Sessions that must be stopped, or stopped again, and whose port is taken.
Owned == {s \in sessions : state[s] \in ACTIVE_STATES \/ s \in unconfirmed}

\* Faulty variant of Reserved: a failed stop gives the port back.
ReservedActive == {port[s] : s \in {r \in sessions : state[r] \in ACTIVE_STATES}}

Reserved == {port[s] : s \in Owned}

\* launch() returns such a session instead of making a new one.
KeyInUse(k) == \E s \in sessions : state[s] \in ACTIVE_STATES /\ key[s] = k

NoFault == UNCHANGED faults
Fault(kind) ==
    /\ kind \in FaultKinds
    /\ faults < MaxFaults
    /\ faults' = faults + 1

LauncherAt(s, place) == launcher' = [launcher EXCEPT ![s] = place]
SetState(s, new) == state' = [state EXCEPT ![s] = new]

Init ==
    /\ sessions = {} /\ unconfirmed = {}
    /\ state = [s \in Sessions |-> "NONE"]
    /\ key = [s \in Sessions |-> NoKey]
    /\ port = [s \in Sessions |-> NoPort]
    /\ unit = [s \in Sessions |-> "none"]
    /\ launcher = [s \in Sessions |-> "none"]
    /\ stopper = [s \in Sessions |-> "none"]
    /\ closer = [s \in Sessions |-> "none"]
    /\ monitor = [at |-> "off", left |-> {}, cur |-> NoSession]
    /\ available = FALSE /\ recovering = FALSE
    /\ phase = "down"
    /\ faults = 0

-----------------------------------------------------------------------------
(* start(), _ensure_supervisor(), and the death of the process             *)

Boot ==
    /\ phase = "down"
    /\ phase' = "up"
    /\ monitor' = [monitor EXCEPT !.at = "walk"]
    /\ UNCHANGED <<registry, state, unit, unconfirmed, launcher, stopper, closer,
                   available, recovering, faults>>

\* By start() or by a launch, one at a time: _supervisor_lock.
EnsureBegin ==
    /\ phase = "up"
    /\ ~available /\ ~recovering
    /\ recovering' = TRUE
    /\ UNCHANGED <<registry, state, unit, unconfirmed, launcher, stopper, closer,
                   monitor, available, phase, faults>>

\* cleanup_tensorboards removes every unit with the prefix of TensorBoard units,
\* or some of them until a command fails.
EnsureEnd ==
    /\ recovering
    /\ recovering' = FALSE
    /\ \/ /\ unit' = [s \in Sessions |-> "none"]
          /\ available' = TRUE
          /\ NoFault
       \/ /\ Fault("error")
          /\ \E removed \in SUBSET Sessions :
               unit' = [s \in Sessions |-> IF s \in removed THEN "none" ELSE unit[s]]
          /\ UNCHANGED available
    /\ UNCHANGED <<registry, state, unconfirmed, launcher, stopper, closer, monitor, phase>>

\* What dies with the process; the units do not.
Halt ==
    /\ sessions' = {} /\ unconfirmed' = {}
    /\ state' = [s \in Sessions |-> IF state[s] = "NONE" THEN "NONE" ELSE "LOST"]
    /\ launcher' = [s \in Sessions |-> "none"]
    /\ stopper' = [s \in Sessions |-> "none"]
    /\ closer' = [s \in Sessions |-> "none"]
    /\ monitor' = [at |-> "off", left |-> {}, cur |-> NoSession]
    /\ available' = FALSE /\ recovering' = FALSE
    /\ phase' = "down"
    /\ UNCHANGED <<key, port, unit>>

Crash == Up /\ Fault("crash") /\ Halt

-----------------------------------------------------------------------------
(* launch() and _start_session()                                           *)

\* The part of launch() under the registry lock; other launches change nothing.
Reserve(s) ==
    /\ phase = "up" /\ available
    /\ state[s] = "NONE"
    /\ \E k \in Keys, p \in Ports \ Reserved :
        /\ ~KeyInUse(k)
        /\ key' = [key EXCEPT ![s] = k]
        /\ port' = [port EXCEPT ![s] = p]
    /\ sessions' = sessions \cup {s}
    /\ SetState(s, "STARTING")
    /\ LauncherAt(s, "lock")
    /\ UNCHANGED <<unit, unconfirmed, stopper, closer, monitor, app, faults>>

\* With the lock: was the session stopped, or is the application closing?
CreateBegin(s) ==
    /\ launcher[s] = "lock" /\ ~Locked(s)
    /\ IF state[s] = "STARTING" /\ ~closing
       THEN LauncherAt(s, "create") /\ UNCHANGED state
       ELSE /\ LauncherAt(s, "none")
            /\ IF state[s] = "STARTING" THEN SetState(s, "STOPPED") ELSE UNCHANGED state
    /\ UNCHANGED <<registry, unit, unconfirmed, stopper, closer, monitor, app, faults>>

\* launch_tensorboard: done, refused (perhaps with a failed unit), or unknown.
CreateEnd(s) ==
    /\ launcher[s] = "create"
    /\ \/ /\ unit' = UnitStarted(s)
          /\ LauncherAt(s, "poll")
          /\ NoFault
       \/ /\ unit' \in {unit, [unit EXCEPT ![s] = "exited"]}
          /\ LauncherAt(s, "fail")
          /\ NoFault
       \/ /\ Fault("error")
          /\ unit' = UnitStarted(s)
          /\ LauncherAt(s, "fail")
    /\ UNCHANGED <<registry, state, unconfirmed, stopper, closer, monitor, app>>

\* The head of the while-loop, before the deadline ...
Poll(s) ==
    /\ launcher[s] = "poll"
    /\ LauncherAt(s, IF state[s] # "STARTING" THEN "none"
                     ELSE IF closing THEN "stopWait" ELSE "inspect")
    /\ UNCHANGED <<registry, state, unit, unconfirmed, stopper, closer, monitor, app,
                   faults>>

\* Faulty variant of Deadline: it moves on with the clock.
DeadlineNever(s) == FALSE

\* ... and at the deadline.
Deadline(s) ==
    /\ launcher[s] = "poll"
    /\ LauncherAt(s, "fail")
    /\ UNCHANGED <<registry, state, unit, unconfirmed, stopper, closer, monitor, app,
                   faults>>

Inspect(s) ==
    /\ launcher[s] = "inspect"
    /\ \/ LauncherAt(s, IF UnitRunning(s) THEN "decide" ELSE "fail") /\ NoFault
       \/ Fault("error") /\ LauncherAt(s, "fail")
    /\ UNCHANGED <<registry, state, unit, unconfirmed, stopper, closer, monitor, app>>

\* Faulty variant of Decide: the answer is not checked against what happened since.
DecideBlindly(s) ==
    /\ launcher[s] = "decide" /\ ~Locked(s)
    /\ \/ SetState(s, "RUNNING") /\ LauncherAt(s, "none")
       \/ LauncherAt(s, "poll") /\ UNCHANGED state
    /\ UNCHANGED <<registry, unit, unconfirmed, stopper, closer, monitor, app, faults>>

\* _ready() has answered; whoever listens on the port may have.
Decide(s) ==
    /\ launcher[s] = "decide" /\ ~Locked(s)
    /\ \/ /\ state[s] # "STARTING"
          /\ LauncherAt(s, "none")
          /\ UNCHANGED state
       \/ /\ state[s] = "STARTING" /\ ~closing
          /\ SetState(s, "RUNNING")
          /\ LauncherAt(s, "none")
       \/ /\ state[s] = "STARTING"
          /\ LauncherAt(s, "poll")
          /\ UNCHANGED state
    /\ UNCHANGED <<registry, unit, unconfirmed, stopper, closer, monitor, app, faults>>

(* _fail_startup                                                           *)

FailBegin(s) ==
    /\ launcher[s] \in {"fail", "shielded"} /\ ~Locked(s)
    /\ IF state[s] = "STARTING"
       THEN /\ SetState(s, "FAILED")
            /\ unconfirmed' = unconfirmed \cup {s}
            /\ LauncherAt(s, IF launcher[s] = "fail" THEN "failClean" ELSE "shieldedClean")
       ELSE LauncherAt(s, "none") /\ UNCHANGED <<state, unconfirmed>>
    /\ UNCHANGED <<registry, unit, stopper, closer, monitor, app, faults>>

\* runner.cleanup: confirmed, or whatever happened before a command failed.
CleanupEnd(s, confirmed) ==
    \/ /\ confirmed
       /\ unit' = UnitGone(s)
       /\ unconfirmed' = unconfirmed \ {s}
       /\ NoFault
    \/ /\ ~confirmed
       /\ Fault("error")
       /\ unit' \in {unit, UnitGone(s)}
       /\ UNCHANGED unconfirmed

FailEnd(s) ==
    /\ launcher[s] \in {"failClean", "shieldedClean"}
    /\ \E confirmed \in BOOLEAN : CleanupEnd(s, confirmed)
    /\ LauncherAt(s, "none")
    /\ UNCHANGED <<registry, state, stopper, closer, monitor, app>>

\* The request is cancelled; what was awaited may have had its effect. Within
\* an exception handler nothing shields _fail_startup, which suspends there
\* only if somebody has the lock or waits for it.
Cancel(s) ==
    /\ Fault("cancel")
    /\ \/ /\ launcher[s] \in {"lock", "poll", "inspect", "decide", "stopWait"}
          /\ LauncherAt(s, "shielded")
          /\ UNCHANGED unit
       \/ /\ launcher[s] = "create"
          /\ unit' \in {unit, UnitStarted(s)}
          /\ LauncherAt(s, "shielded")
       \/ /\ launcher[s] = "stopClean"
          /\ unit' \in {unit, UnitGone(s)}
          /\ LauncherAt(s, "shielded")
       \/ /\ launcher[s] = "fail"
          /\ Locked(s) \/ "wait" \in {stopper[s], closer[s]}
          /\ LauncherAt(s, "none")
          /\ UNCHANGED unit
       \/ /\ launcher[s] = "failClean"
          /\ unit' \in {unit, UnitGone(s)}
          /\ LauncherAt(s, "none")
    /\ UNCHANGED <<registry, state, unconfirmed, stopper, closer, monitor, app>>

-----------------------------------------------------------------------------
(* _stop_session, on behalf of a request, the shutdown or the launch       *)

StopDone(s) == state[s] = "STOPPED" /\ s \notin unconfirmed

\* The next place of a stop that waits for the lock, and what it registers.
StopBegin(s) ==
    /\ ~Locked(s)
    /\ unconfirmed' = IF StopDone(s) THEN unconfirmed ELSE unconfirmed \cup {s}

AfterBegin(s) == IF StopDone(s) THEN "none" ELSE "clean"

\* Faulty variant of StopEnd: a state that nothing else knows.
StopEndClosed(s, confirmed) ==
    /\ CleanupEnd(s, confirmed)
    /\ IF confirmed THEN SetState(s, "CLOSED") ELSE UNCHANGED state

StopEnd(s, confirmed) ==
    /\ CleanupEnd(s, confirmed)
    /\ IF confirmed THEN SetState(s, "STOPPED") ELSE UNCHANGED state

Stop(s) ==
    /\ "stop" \in Requests
    /\ Up /\ s \in sessions
    /\ stopper[s] = "none"
    /\ stopper' = [stopper EXCEPT ![s] = "wait"]
    /\ UNCHANGED <<registry, state, unit, unconfirmed, launcher, closer, monitor, app,
                   faults>>

StopperBegin(s) ==
    /\ stopper[s] = "wait"
    /\ StopBegin(s)
    /\ stopper' = [stopper EXCEPT ![s] = AfterBegin(s)]
    /\ UNCHANGED <<registry, state, unit, launcher, closer, monitor, app, faults>>

StopperEnd(s) ==
    /\ stopper[s] = "clean"
    /\ \E confirmed \in BOOLEAN : StopEnd(s, confirmed)
    /\ stopper' = [stopper EXCEPT ![s] = "none"]
    /\ UNCHANGED <<registry, launcher, closer, monitor, app>>

LauncherStopBegin(s) ==
    /\ launcher[s] = "stopWait"
    /\ StopBegin(s)
    /\ LauncherAt(s, IF StopDone(s) THEN "none" ELSE "stopClean")
    /\ UNCHANGED <<registry, state, unit, stopper, closer, monitor, app, faults>>

\* A failed stop is an exception, which _start_session catches.
LauncherStopEnd(s) ==
    /\ launcher[s] = "stopClean"
    /\ \E confirmed \in BOOLEAN :
         StopEnd(s, confirmed) /\ LauncherAt(s, IF confirmed THEN "none" ELSE "fail")
    /\ UNCHANGED <<registry, stopper, closer, monitor, app>>

-----------------------------------------------------------------------------
(* delete_history and clear_history                                        *)

\* Faulty variant of DeleteHistory: unconfirmed stops are not looked at.
DeleteHistoryAny(S) ==
    /\ "delete" \in Requests
    /\ Up
    /\ S # {} /\ S \subseteq sessions
    /\ \A s \in S : state[s] \in HISTORY_STATES
    /\ sessions' = sessions \ S
    /\ UNCHANGED <<state, key, port, unit, unconfirmed, launcher, stopper, closer, monitor,
                   app, faults>>

\* One session, those of a user, or all: any set of ended ones is enough.
DeleteHistory(S) ==
    /\ "delete" \in Requests
    /\ Up
    /\ S # {} /\ S \subseteq sessions
    /\ \A s \in S : state[s] \in HISTORY_STATES
    /\ S \cap unconfirmed = {}
    /\ sessions' = sessions \ S
    /\ UNCHANGED <<state, key, port, unit, unconfirmed, launcher, stopper, closer, monitor,
                   app, faults>>

-----------------------------------------------------------------------------
(* _monitor                                                                *)

MonitorRound ==
    /\ monitor.at = "walk" /\ monitor.left = {}
    /\ monitor' = [monitor EXCEPT !.left = sessions]
    /\ UNCHANGED <<registry, state, unit, unconfirmed, launcher, stopper, closer, app,
                   faults>>

MonitorVisit(s) ==
    /\ monitor.at = "walk" /\ s \in monitor.left
    /\ monitor' = IF state[s] = "RUNNING"
                  THEN [at |-> "inspect", left |-> monitor.left \ {s}, cur |-> s]
                  ELSE [monitor EXCEPT !.left = monitor.left \ {s}]
    /\ UNCHANGED <<registry, state, unit, unconfirmed, launcher, stopper, closer, app,
                   faults>>

\* Faulty variant of MonitorInspect: a unit that has exited still exists.
MonitorInspectExists ==
    /\ monitor.at = "inspect"
    /\ monitor' = IF unit[monitor.cur] # "none"
                  THEN [monitor EXCEPT !.at = "walk", !.cur = NoSession]
                  ELSE [monitor EXCEPT !.at = "dead"]
    /\ UNCHANGED <<registry, state, unit, unconfirmed, launcher, stopper, closer, app,
                   faults>>

MonitorInspect ==
    /\ monitor.at = "inspect"
    /\ \/ /\ monitor' = IF UnitRunning(monitor.cur)
                        THEN [monitor EXCEPT !.at = "walk", !.cur = NoSession]
                        ELSE [monitor EXCEPT !.at = "dead"]
          /\ NoFault
       \/ /\ Fault("error")
          /\ monitor' = [monitor EXCEPT !.at = "walk", !.cur = NoSession]
    /\ UNCHANGED <<registry, state, unit, unconfirmed, launcher, stopper, closer, app>>

\* The unit was not running; the session may have been stopped meanwhile.
MonitorFail ==
    /\ monitor.at = "dead" /\ ~Locked(monitor.cur)
    /\ IF state[monitor.cur] = "RUNNING"
       THEN SetState(monitor.cur, "FAILED")
       ELSE UNCHANGED state
    /\ monitor' = [monitor EXCEPT !.at = "walk", !.cur = NoSession]
    /\ UNCHANGED <<registry, unit, unconfirmed, launcher, stopper, closer, app, faults>>

-----------------------------------------------------------------------------
(* close()                                                                 *)

\* The monitor is cancelled and waited for ...
CloseBegin ==
    /\ "close" \in Requests
    /\ phase = "up"
    /\ phase' = "closing"
    /\ monitor' = [at |-> "off", left |-> {}, cur |-> NoSession]
    /\ UNCHANGED <<registry, state, unit, unconfirmed, launcher, stopper, closer,
                   available, recovering, faults>>

\* Faulty variant of CloseSelect: only what runs is stopped.
CloseSelectRunning ==
    /\ phase = "closing"
    /\ phase' = "stopping"
    /\ closer' = [s \in Sessions |->
                    IF s \in sessions /\ state[s] = "RUNNING" THEN "wait" ELSE "none"]
    /\ UNCHANGED <<registry, state, unit, unconfirmed, launcher, stopper, monitor,
                   available, recovering, faults>>

\* ... before the sessions to stop are selected.
CloseSelect ==
    /\ phase = "closing"
    /\ phase' = "stopping"
    /\ closer' = [s \in Sessions |-> IF s \in Owned THEN "wait" ELSE "none"]
    /\ UNCHANGED <<registry, state, unit, unconfirmed, launcher, stopper, monitor,
                   available, recovering, faults>>

CloserBegin(s) ==
    /\ closer[s] = "wait"
    /\ StopBegin(s)
    /\ closer' = [closer EXCEPT ![s] = AfterBegin(s)]
    /\ UNCHANGED <<registry, state, unit, launcher, stopper, monitor, app, faults>>

CloserEnd(s) ==
    /\ closer[s] = "clean"
    /\ \E confirmed \in BOOLEAN : StopEnd(s, confirmed)
    /\ closer' = [closer EXCEPT ![s] = "none"]
    /\ UNCHANGED <<registry, launcher, stopper, monitor, app>>

CloseEnd ==
    /\ phase = "stopping"
    /\ \A s \in Sessions : closer[s] = "none"
    /\ phase' = "closed"
    /\ UNCHANGED <<registry, state, unit, unconfirmed, launcher, stopper, closer, monitor,
                   available, recovering, faults>>

Exit == phase = "closed" /\ Halt /\ NoFault

-----------------------------------------------------------------------------
UnitExit(s) ==
    /\ UnitRunning(s)
    /\ unit' = [unit EXCEPT ![s] = "exited"]
    /\ UNCHANGED <<registry, state, unconfirmed, launcher, stopper, closer, monitor, app,
                   faults>>

Launcher(s) ==
    \/ CreateBegin(s)
    \/ CreateEnd(s)
    \/ Poll(s)
    \/ Inspect(s)
    \/ Decide(s)
    \/ FailBegin(s)
    \/ FailEnd(s)
    \/ LauncherStopBegin(s)
    \/ LauncherStopEnd(s)

Stopper(s) == StopperBegin(s) \/ StopperEnd(s)

Monitor ==
    \/ MonitorRound
    \/ \E s \in Sessions : MonitorVisit(s)
    \/ MonitorInspect
    \/ MonitorFail

Closing ==
    \/ CloseSelect
    \/ \E s \in Sessions : CloserBegin(s) \/ CloserEnd(s)
    \/ CloseEnd
    \/ Exit

Application ==
    \/ Boot
    \/ EnsureBegin
    \/ EnsureEnd
    \/ CloseBegin
    \/ CloseSelect
    \/ CloseEnd
    \/ Exit
    \/ Crash

Launches == \E s \in Sessions : Reserve(s) \/ Launcher(s) \/ Deadline(s) \/ Cancel(s)

Stops == \E s \in Sessions : Stop(s) \/ Stopper(s) \/ CloserBegin(s) \/ CloserEnd(s)

History == \E S \in SUBSET Sessions : DeleteHistory(S)

Next ==
    \/ Application
    \/ Launches
    \/ Stops
    \/ History
    \/ Monitor
    \/ \E s \in Sessions : UnitExit(s)

Spec == Init /\ [][Next]_vars

(* The event loop runs what is ready, commands end or time out, and the    *)
(* clock reaches the deadline of a start.                                  *)
Fairness ==
    /\ WF_vars(Monitor)
    /\ WF_vars(Closing)
    /\ \A s \in Sessions :
        /\ WF_vars(Launcher(s))
        /\ WF_vars(Stopper(s))
        /\ SF_vars(Deadline(s))

FairSpec == Spec /\ Fairness

-----------------------------------------------------------------------------
(* Properties                                                              *)

\* Every variable stays in its type.
TypeOK ==
    /\ sessions \subseteq Sessions
    /\ state \in [Sessions -> SessionStates]
    /\ key \in [Sessions -> Keys \cup {NoKey}]
    /\ port \in [Sessions -> Ports \cup {NoPort}]
    /\ unit \in [Sessions -> {"none", "running", "exited"}]
    /\ unconfirmed \subseteq Sessions
    /\ launcher \in [Sessions -> LauncherPlaces]
    /\ stopper \in [Sessions -> StopPlaces]
    /\ closer \in [Sessions -> StopPlaces]
    /\ monitor \in [at : {"off", "walk", "inspect", "dead"}, left : SUBSET Sessions,
                    cur : Sessions \cup {NoSession}]
    /\ monitor.at \in {"inspect", "dead"} => monitor.cur \in Sessions
    /\ available \in BOOLEAN /\ recovering \in BOOLEAN
    /\ phase \in {"down", "up", "closing", "stopping", "closed"}
    /\ faults \in 0..MaxFaults

\* Two TensorBoards never run on one port: not after a stop that failed, nor
\* beside one that a dead application has left behind.
PortsExclusive ==
    \A s, r \in Sessions :
        UnitRunning(s) /\ UnitRunning(r) /\ port[s] = port[r] => s = r

\* A TensorBoard that runs can be stopped: its session is in the registry, and
\* either active or marked as not stopped.  Otherwise it is an orphan, and no
\* session is started before the orphans are gone.
RunningIsOwned == \A s \in Sessions : UnitRunning(s) => s \in Owned \/ ~available

\* "Sessions stop on app shutdown": at the end of close(), what runs is what could
\* not be stopped, although launches and stops were under way when it began.
ClosedIsDead ==
    phase = "closed" =>
        \A s \in Sessions : UnitRunning(s) => s \in unconfirmed \/ ~available

\* "Starting the same user's log directory with the same interpreter reuses an
\* active session", also one that is still starting.
KeysExclusive ==
    \A s, r \in sessions :
        {state[s], state[r]} \subseteq ACTIVE_STATES /\ key[s] = key[r] => s = r

\* A session that has ended stays ended: no answer of an earlier readiness probe
\* or inspection revives it, and one that was stopped is never shown as failed.
EndedStaysEnded ==
    [][\A s \in Sessions :
        /\ state[s] \in HISTORY_STATES => state'[s] \in HISTORY_STATES \cup {"LOST"}
        /\ StopDone(s) => state'[s] # "FAILED"]_vars

\* A start comes to an end, also one that is cancelled: within the deadline the
\* session runs, has failed, was stopped, or is marked as not stopped.  The last
\* is what remains of a start that is cancelled behind a stop that fails.
StartEnds ==
    \A s \in Sessions :
        state[s] = "STARTING" ~> state[s] # "STARTING" \/ s \in unconfirmed

\* A RUNNING session whose unit has died does not stay RUNNING.
DeathIsNoticed ==
    \A s \in Sessions :
        state[s] = "RUNNING" /\ ~UnitRunning(s) ~> state[s] # "RUNNING"

(* The inductive invariant.                                                *)

\* The lock of a session excludes.
OneHolder ==
    \A s \in Sessions :
        /\ launcher[s] \in {"create"} \cup LauncherCleans =>
             stopper[s] # "clean" /\ closer[s] # "clean"
        /\ stopper[s] = "clean" => closer[s] # "clean"

\* A session whose unit is being removed is marked until that is confirmed.
CleaningIsMarked ==
    \A s \in Sessions :
        \/ launcher[s] \in LauncherCleans
        \/ stopper[s] = "clean"
        \/ closer[s] = "clean"
        => s \in unconfirmed

\* What is active is registered, and nothing is before the orphans are gone.
ActiveIsRegistered ==
    /\ ~available => sessions = {}
    /\ \A s \in Sessions : state[s] \in ACTIVE_STATES => s \in sessions

\* A unit is created once, for a session that is STARTING.
CreatedOnce ==
    \A s \in Sessions :
        /\ launcher[s] = "create" => state[s] = "STARTING"
        /\ state[s] = "NONE" \/ launcher[s] = "lock" => ~UnitRunning(s)

\* What the monitor has read stays true while it waits for the lock.
VerdictHolds ==
    /\ monitor.at \in {"inspect", "dead"} =>
         monitor.cur \in Sessions /\ state[monitor.cur] \notin {"NONE", "STARTING"}
    /\ monitor.at = "dead" => ~UnitRunning(monitor.cur)

\* The sessions that run, or will, have ports of their own.
Live(s) == UnitRunning(s) \/ state[s] = "STARTING"

LivePortsDiffer == \A s, r \in Sessions : Live(s) /\ Live(r) /\ port[s] = port[r] => s = r

\* Once close() has selected what it stops, nothing else runs or is created.
SelectedCoversLive ==
    phase \in {"stopping", "closed"} =>
        \A s \in Sessions :
            closer[s] = "none" =>
                /\ launcher[s] # "create"
                /\ UnitRunning(s) => s \in unconfirmed \/ ~available

ClosersAreDone == phase = "closed" => \A s \in Sessions : closer[s] = "none"

IInv ==
    /\ OneHolder
    /\ CleaningIsMarked
    /\ ActiveIsRegistered
    /\ CreatedOnce
    /\ VerdictHolds
    /\ LivePortsDiffer
    /\ RunningIsOwned
    /\ SelectedCoversLive
    /\ ClosersAreDone
    /\ KeysExclusive

\* Only sessions of this process are known, or worked on.
KnownAreLive ==
    \A s \in Sessions :
        \/ s \in sessions \cup unconfirmed
        \/ launcher[s] # "none" \/ stopper[s] # "none" \/ closer[s] # "none"
        => state[s] \in ACTIVE_STATES \cup HISTORY_STATES

\* The cleanup of a failed start is that of a session that has failed.
FailedAreCleaned ==
    \A s \in Sessions :
        launcher[s] \in {"failClean", "shieldedClean"} => state[s] = "FAILED"

\* Orphans are removed before the process has any session.
RecoversFirst ==
    /\ recovering => ~available
    /\ ~available => \A s \in Sessions : state[s] \in {"NONE", "LOST"}

PromiseInv == KnownAreLive /\ FailedAreCleaned /\ RecoversFirst

-----------------------------------------------------------------------------
(* What users see of it.                                                   *)

\* A session whose history was deleted is not shown, nor marked, any more.
Shown ==
    [s \in Sessions |->
       IF state[s] \in HISTORY_STATES /\ s \notin sessions THEN "DELETED" ELSE state[s]]
Runs == {s \in Sessions : UnitRunning(s)}
Marked == unconfirmed \cap sessions

Promises == INSTANCE BoardPromises WITH shown <- Shown, runs <- Runs, marked <- Marked

\* The manager keeps what its users build on, whatever launches, stops, the
\* monitor, cancellations, a shutdown and crashes do to each other: no session
\* gets a key or a port that is in use, what has ended stays ended, only what does
\* not run is found dead or deleted, and a stop is shown when it is certain.
RefinesPromises == Promises!Spec
=============================================================================
