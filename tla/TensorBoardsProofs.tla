------------------------- MODULE TensorBoardsProofs -------------------------
(***************************************************************************)
(* Proofs about TensorBoards: the inductive invariant IInv, and from it    *)
(* the exclusive use of ports and keys, the ownership of what runs, what   *)
(* close() leaves behind, and that sessions that have ended stay ended.    *)
(***************************************************************************)
EXTENDS TensorBoards, TLAPS

-----------------------------------------------------------------------------
(* Type correctness                                                        *)

\* Faults stay within their bound, whatever their kind.
LEMMA FaultsBounded ==
    ASSUME faults \in 0..MaxFaults
    PROVE  /\ \A kind \in {"error", "cancel", "crash"} : Fault(kind) => faults' \in 0..MaxFaults
           /\ NoFault => faults' \in 0..MaxFaults
  BY ConstantsAssumption DEF ConstantsAssumption, Fault, NoFault

\* Cleaning up and stopping keep the types of what they change.
LEMMA CleanupTypes ==
    ASSUME TypeOK, NEW s \in Sessions, NEW confirmed \in BOOLEAN
    PROVE  /\ UnitGone(s) \in [Sessions -> {"none", "running", "exited"}]
           /\ UnitStarted(s) \in [Sessions -> {"none", "running", "exited"}]
           /\ CleanupEnd(s, confirmed) =>
                /\ unit' \in [Sessions -> {"none", "running", "exited"}]
                /\ unconfirmed' \subseteq Sessions
                /\ faults' \in 0..MaxFaults
           /\ StopEnd(s, confirmed) => state' \in [Sessions -> SessionStates]
<1>1. /\ UnitGone(s) \in [Sessions -> {"none", "running", "exited"}]
      /\ UnitStarted(s) \in [Sessions -> {"none", "running", "exited"}]
  BY DEF TypeOK, UnitGone, UnitStarted
<1>2. CleanupEnd(s, confirmed) => /\ unit' \in [Sessions -> {"none", "running", "exited"}]
                                  /\ unconfirmed' \subseteq Sessions
  BY <1>1 DEF TypeOK, CleanupEnd
<1>3. CleanupEnd(s, confirmed) => faults' \in 0..MaxFaults
  BY FaultsBounded DEF TypeOK, CleanupEnd
<1>4. StopEnd(s, confirmed) => state' \in [Sessions -> SessionStates]
  BY DEF TypeOK, StopEnd, SetState, SessionStates, HISTORY_STATES
<1> QED
  BY <1>1, <1>2, <1>3, <1>4

\* Starting, recovering, closing or dying keeps every type.
LEMMA ApplicationType == TypeOK /\ Application => TypeOK'
<1> SUFFICES ASSUME TypeOK, Application PROVE TypeOK'
  OBVIOUS
<1> USE DEF TypeOK, registry, app, NoFault, Fault, LauncherAt, SetState,
        SessionStates, ACTIVE_STATES, HISTORY_STATES, LauncherPlaces, LauncherCleans, StopPlaces
<1>1. CASE Boot
  BY <1>1 DEF Boot
<1>2. CASE EnsureBegin
  BY <1>2 DEF EnsureBegin
<1>3. CASE EnsureEnd
  <2>1. faults' \in 0..MaxFaults
    BY <1>3, FaultsBounded DEF EnsureEnd
  <2> QED
    BY <1>3, <2>1 DEF EnsureEnd
<1>4. CASE Crash
  <2>1. faults' \in 0..MaxFaults
    BY <1>4, FaultsBounded DEF Crash
  <2> QED
    BY <1>4, <2>1 DEF Crash, Halt
<1>5. CASE Exit
  BY <1>5 DEF Exit, Halt
<1>6. CASE CloseBegin
  BY <1>6 DEF CloseBegin
<1>7. CASE CloseSelect
  BY <1>7 DEF CloseSelect
<1>8. CASE CloseEnd
  BY <1>8 DEF CloseEnd
<1> QED
  BY <1>1, <1>2, <1>3, <1>4, <1>5, <1>6, <1>7, <1>8 DEF Application

\* A launch keeps every type.
LEMMA LaunchesType == TypeOK /\ Launches => TypeOK'
<1> SUFFICES ASSUME TypeOK, Launches PROVE TypeOK'
  OBVIOUS
<1> USE DEF TypeOK, registry, app, NoFault, Fault, LauncherAt, SetState,
        SessionStates, ACTIVE_STATES, HISTORY_STATES, LauncherPlaces, LauncherCleans, StopPlaces
<1>1. ASSUME NEW s \in Sessions, Reserve(s) PROVE TypeOK'
  BY <1>1 DEF Reserve
<1>2. ASSUME NEW s \in Sessions, CreateBegin(s) PROVE TypeOK'
  BY <1>2 DEF CreateBegin
<1>3. ASSUME NEW s \in Sessions, CreateEnd(s) PROVE TypeOK'
  <2>1. faults' \in 0..MaxFaults
    BY <1>3, FaultsBounded DEF CreateEnd
  <2> QED
    BY <1>3, <2>1 DEF CreateEnd, UnitStarted
<1>4. ASSUME NEW s \in Sessions, Poll(s) PROVE TypeOK'
  BY <1>4 DEF Poll
<1>5. ASSUME NEW s \in Sessions, Deadline(s) PROVE TypeOK'
  BY <1>5 DEF Deadline
<1>6. ASSUME NEW s \in Sessions, Inspect(s) PROVE TypeOK'
  <2>1. faults' \in 0..MaxFaults
    BY <1>6, FaultsBounded DEF Inspect
  <2> QED
    BY <1>6, <2>1 DEF Inspect
<1>7. ASSUME NEW s \in Sessions, Decide(s) PROVE TypeOK'
  BY <1>7 DEF Decide
<1>8. ASSUME NEW s \in Sessions, FailBegin(s) PROVE TypeOK'
  BY <1>8 DEF FailBegin
<1>9. ASSUME NEW s \in Sessions, FailEnd(s) PROVE TypeOK'
  BY <1>9, CleanupTypes DEF FailEnd
<1>10. ASSUME NEW s \in Sessions, Cancel(s) PROVE TypeOK'
  <2>1. faults' \in 0..MaxFaults
    BY <1>10, FaultsBounded DEF Cancel
  <2>2. unit' \in [Sessions -> {"none", "running", "exited"}]
    BY <1>10, CleanupTypes DEF Cancel
  <2> QED
    BY <1>10, <2>1, <2>2 DEF Cancel
<1>11. ASSUME NEW s \in Sessions, LauncherStopBegin(s) PROVE TypeOK'
  BY <1>11 DEF LauncherStopBegin, StopBegin, StopDone
<1>12. ASSUME NEW s \in Sessions, LauncherStopEnd(s) PROVE TypeOK'
  <2> PICK confirmed \in BOOLEAN : StopEnd(s, confirmed)
    BY <1>12 DEF LauncherStopEnd
  <2>1. CleanupEnd(s, confirmed)
    BY DEF StopEnd
  <2> QED
    BY <1>12, <2>1, CleanupTypes DEF LauncherStopEnd
<1> QED
  BY <1>1, <1>2, <1>3, <1>4, <1>5, <1>6, <1>7, <1>8, <1>9, <1>10, <1>11, <1>12
     DEF Launches, Launcher

\* A stop, and the end of a unit, keeps every type.
LEMMA StopsType == TypeOK /\ (Stops \/ \E s \in Sessions : UnitExit(s)) => TypeOK'
<1> SUFFICES ASSUME TypeOK, Stops \/ \E s \in Sessions : UnitExit(s) PROVE TypeOK'
  OBVIOUS
<1> USE DEF TypeOK, registry, app, NoFault, Fault, LauncherAt, SetState,
        SessionStates, ACTIVE_STATES, HISTORY_STATES, LauncherPlaces, LauncherCleans, StopPlaces
<1>1. ASSUME NEW s \in Sessions, Stop(s) PROVE TypeOK'
  BY <1>1 DEF Stop
<1>2. ASSUME NEW s \in Sessions, StopperBegin(s) PROVE TypeOK'
  BY <1>2 DEF StopperBegin, StopBegin, AfterBegin, StopDone
<1>3. ASSUME NEW s \in Sessions, StopperEnd(s) PROVE TypeOK'
  <2> PICK confirmed \in BOOLEAN : StopEnd(s, confirmed)
    BY <1>3 DEF StopperEnd
  <2>1. CleanupEnd(s, confirmed)
    BY DEF StopEnd
  <2> QED
    BY <1>3, <2>1, CleanupTypes DEF StopperEnd
<1>4. ASSUME NEW s \in Sessions, CloserBegin(s) PROVE TypeOK'
  BY <1>4 DEF CloserBegin, StopBegin, AfterBegin, StopDone
<1>5. ASSUME NEW s \in Sessions, CloserEnd(s) PROVE TypeOK'
  <2> PICK confirmed \in BOOLEAN : StopEnd(s, confirmed)
    BY <1>5 DEF CloserEnd
  <2>1. CleanupEnd(s, confirmed)
    BY DEF StopEnd
  <2> QED
    BY <1>5, <2>1, CleanupTypes DEF CloserEnd
<1>6. ASSUME NEW s \in Sessions, UnitExit(s) PROVE TypeOK'
  BY <1>6 DEF UnitExit
<1> QED
  BY <1>1, <1>2, <1>3, <1>4, <1>5, <1>6 DEF Stops, Stopper

\* The monitor keeps every type.
LEMMA MonitorType == TypeOK /\ Monitor => TypeOK'
<1> SUFFICES ASSUME TypeOK, Monitor PROVE TypeOK'
  OBVIOUS
<1> USE DEF TypeOK, registry, app, NoFault, Fault, LauncherAt, SetState,
        SessionStates, ACTIVE_STATES, HISTORY_STATES, LauncherPlaces, LauncherCleans, StopPlaces
<1>1. CASE MonitorRound
  BY <1>1 DEF MonitorRound
<1>2. CASE MonitorInspect
  <2>1. faults' \in 0..MaxFaults
    BY <1>2, FaultsBounded DEF MonitorInspect
  <2> QED
    BY <1>2, <2>1 DEF MonitorInspect
<1>3. CASE MonitorFail
  BY <1>3 DEF MonitorFail
<1>4. ASSUME NEW s \in Sessions, MonitorVisit(s) PROVE TypeOK'
  BY <1>4 DEF MonitorVisit
<1> QED
  BY <1>1, <1>2, <1>3, <1>4 DEF Monitor

\* The types hold at the start.
LEMMA InitType == Init => TypeOK
<1> SUFFICES ASSUME Init PROVE TypeOK
  OBVIOUS
<1>1. faults \in 0..MaxFaults
  BY ConstantsAssumption DEF ConstantsAssumption, Init
<1> QED
  BY <1>1 DEF Init, TypeOK, SessionStates, ACTIVE_STATES, HISTORY_STATES, LauncherPlaces,
              StopPlaces

\* Deleting history keeps the types.
LEMMA HistoryType == TypeOK /\ History => TypeOK'
  BY DEF TypeOK, History, DeleteHistory, app

\* Every variable keeps its type, in every behaviour of the sessions.
THEOREM TypeCorrect == Spec => []TypeOK
<1>1. TypeOK /\ [Next]_vars => TypeOK'
  <2> SUFFICES ASSUME TypeOK, [Next]_vars PROVE TypeOK'
    OBVIOUS
  <2>1. CASE Next
    BY <2>1, ApplicationType, LaunchesType, StopsType, MonitorType, HistoryType
       DEF Next
  <2>2. CASE UNCHANGED vars
    BY <2>2 DEF TypeOK, vars
  <2> QED
    BY <2>1, <2>2
<1> QED
  BY <1>1, InitType, PTL DEF Spec

-----------------------------------------------------------------------------
(* The inductive invariant                                                 *)

\* Starting, recovering, closing or dying keeps the inductive invariant.
LEMMA ApplicationInv == TypeOK /\ IInv /\ Application => IInv'
<1> SUFFICES ASSUME TypeOK, IInv, Application PROVE IInv'
  OBVIOUS
<1> USE DEF IInv, TypeOK, registry, app, NoFault, Fault, LauncherAt, SetState,
        ACTIVE_STATES, HISTORY_STATES, OneHolder, CleaningIsMarked, ActiveIsRegistered,
        CreatedOnce, VerdictHolds, LivePortsDiffer, Live, RunningIsOwned,
        SelectedCoversLive, ClosersAreDone, KeysExclusive, Owned, UnitRunning, Locked,
        LauncherCleans, Up, closing
<1>1. CASE Boot
  BY <1>1 DEF Boot
<1>2. CASE EnsureBegin
  BY <1>2 DEF EnsureBegin
<1>3. CASE EnsureEnd
  BY <1>3 DEF EnsureEnd
<1>4. CASE Crash
  BY <1>4 DEF Crash, Halt
<1>5. CASE Exit
  BY <1>5 DEF Exit, Halt
<1>6. CASE CloseBegin
  BY <1>6 DEF CloseBegin
<1>7. CASE CloseSelect
  BY <1>7 DEF CloseSelect
<1>8. CASE CloseEnd
  BY <1>8 DEF CloseEnd
<1> QED
  BY <1>1, <1>2, <1>3, <1>4, <1>5, <1>6, <1>7, <1>8 DEF Application

\* A launch keeps the inductive invariant.
LEMMA LaunchesInv == TypeOK /\ IInv /\ Launches => IInv'
<1> SUFFICES ASSUME TypeOK, IInv, Launches PROVE IInv'
  OBVIOUS
<1> USE DEF IInv, TypeOK, registry, app, NoFault, Fault, LauncherAt, SetState,
        ACTIVE_STATES, HISTORY_STATES, OneHolder, CleaningIsMarked, ActiveIsRegistered,
        CreatedOnce, VerdictHolds, LivePortsDiffer, Live, RunningIsOwned,
        SelectedCoversLive, ClosersAreDone, KeysExclusive, Owned, UnitRunning, Locked,
        LauncherCleans, Up, closing
<1>1. ASSUME NEW s \in Sessions, Reserve(s) PROVE IInv'
  <2> PICK k \in Keys, p \in Ports \ Reserved :
         /\ ~KeyInUse(k)
         /\ key' = [key EXCEPT ![s] = k]
         /\ port' = [port EXCEPT ![s] = p]
    BY <1>1 DEF Reserve
  <2>1. \A r \in Sessions : Live(r) => r # s /\ port[r] # p
    BY <1>1 DEF Reserve, Reserved
  <2>2. LivePortsDiffer'
    BY <1>1, <2>1 DEF Reserve
  <2>3. KeysExclusive'
    BY <1>1 DEF Reserve, KeyInUse
  <2> QED
    BY <1>1, <2>2, <2>3 DEF Reserve
<1>2. ASSUME NEW s \in Sessions, CreateBegin(s) PROVE IInv'
  BY <1>2 DEF CreateBegin
<1>3. ASSUME NEW s \in Sessions, CreateEnd(s) PROVE IInv'
  BY <1>3 DEF CreateEnd, UnitStarted
<1>4. ASSUME NEW s \in Sessions, Poll(s) PROVE IInv'
  BY <1>4 DEF Poll
<1>5. ASSUME NEW s \in Sessions, Deadline(s) PROVE IInv'
  BY <1>5 DEF Deadline
<1>6. ASSUME NEW s \in Sessions, Inspect(s) PROVE IInv'
  BY <1>6 DEF Inspect
<1>7. ASSUME NEW s \in Sessions, Decide(s) PROVE IInv'
  BY <1>7 DEF Decide
<1>8. ASSUME NEW s \in Sessions, FailBegin(s) PROVE IInv'
  BY <1>8 DEF FailBegin
<1>9. ASSUME NEW s \in Sessions, FailEnd(s) PROVE IInv'
  BY <1>9 DEF FailEnd, CleanupEnd, UnitGone
<1>10. ASSUME NEW s \in Sessions, Cancel(s) PROVE IInv'
  BY <1>10 DEF Cancel, UnitStarted, UnitGone
<1>11. ASSUME NEW s \in Sessions, LauncherStopBegin(s) PROVE IInv'
  BY <1>11 DEF LauncherStopBegin, StopBegin, StopDone
<1>12. ASSUME NEW s \in Sessions, LauncherStopEnd(s) PROVE IInv'
  BY <1>12 DEF LauncherStopEnd, StopEnd, CleanupEnd, UnitGone
<1> QED
  BY <1>1, <1>2, <1>3, <1>4, <1>5, <1>6, <1>7, <1>8, <1>9, <1>10, <1>11, <1>12
     DEF Launches, Launcher

\* A stop, and the end of a unit, keeps the inductive invariant.
LEMMA StopsInv ==
    TypeOK /\ IInv /\ (Stops \/ \E s \in Sessions : UnitExit(s)) => IInv'
<1> SUFFICES ASSUME TypeOK, IInv, Stops \/ \E s \in Sessions : UnitExit(s) PROVE IInv'
  OBVIOUS
<1> USE DEF IInv, TypeOK, registry, app, NoFault, Fault, LauncherAt, SetState,
        ACTIVE_STATES, HISTORY_STATES, OneHolder, CleaningIsMarked, ActiveIsRegistered,
        CreatedOnce, VerdictHolds, LivePortsDiffer, Live, RunningIsOwned,
        SelectedCoversLive, ClosersAreDone, KeysExclusive, Owned, UnitRunning, Locked,
        LauncherCleans, Up, closing
<1>1. ASSUME NEW s \in Sessions, Stop(s) PROVE IInv'
  BY <1>1 DEF Stop
<1>2. ASSUME NEW s \in Sessions, StopperBegin(s) PROVE IInv'
  BY <1>2 DEF StopperBegin, StopBegin, AfterBegin, StopDone
<1>3. ASSUME NEW s \in Sessions, StopperEnd(s) PROVE IInv'
  BY <1>3 DEF StopperEnd, StopEnd, CleanupEnd, UnitGone
<1>4. ASSUME NEW s \in Sessions, CloserBegin(s) PROVE IInv'
  BY <1>4 DEF CloserBegin, StopBegin, AfterBegin, StopDone
<1>5. ASSUME NEW s \in Sessions, CloserEnd(s) PROVE IInv'
  BY <1>5 DEF CloserEnd, StopEnd, CleanupEnd, UnitGone
<1>6. ASSUME NEW s \in Sessions, UnitExit(s) PROVE IInv'
  BY <1>6 DEF UnitExit
<1> QED
  BY <1>1, <1>2, <1>3, <1>4, <1>5, <1>6 DEF Stops, Stopper

\* The monitor keeps the inductive invariant.
LEMMA MonitorInv == TypeOK /\ IInv /\ Monitor => IInv'
<1> SUFFICES ASSUME TypeOK, IInv, Monitor PROVE IInv'
  OBVIOUS
<1> USE DEF IInv, TypeOK, registry, app, NoFault, Fault, LauncherAt, SetState,
        ACTIVE_STATES, HISTORY_STATES, OneHolder, CleaningIsMarked, ActiveIsRegistered,
        CreatedOnce, VerdictHolds, LivePortsDiffer, Live, RunningIsOwned,
        SelectedCoversLive, ClosersAreDone, KeysExclusive, Owned, UnitRunning, Locked,
        LauncherCleans, Up, closing
<1>1. CASE MonitorRound
  BY <1>1 DEF MonitorRound
<1>2. CASE MonitorInspect
  <2>1. CASE monitor' = [monitor EXCEPT !.at = "walk", !.cur = NoSession]
    BY <1>2, <2>1 DEF MonitorInspect
  <2>2. CASE monitor' = [monitor EXCEPT !.at = "dead"] /\ ~UnitRunning(monitor.cur)
    BY <1>2, <2>2 DEF MonitorInspect
  <2> QED
    BY <1>2, <2>1, <2>2 DEF MonitorInspect
<1>3. CASE MonitorFail
  BY <1>3 DEF MonitorFail
<1>4. ASSUME NEW s \in Sessions, MonitorVisit(s) PROVE IInv'
  BY <1>4 DEF MonitorVisit
<1> QED
  BY <1>1, <1>2, <1>3, <1>4 DEF Monitor

\* The invariant holds at the start.
LEMMA InitInv == Init => IInv
  BY DEF Init, IInv, OneHolder, CleaningIsMarked, ActiveIsRegistered, CreatedOnce,
         VerdictHolds, LivePortsDiffer, Live, RunningIsOwned, SelectedCoversLive,
         ClosersAreDone, KeysExclusive, UnitRunning, ACTIVE_STATES, LauncherCleans

\* Only what has ended and is not marked can leave the registry.
LEMMA HistoryInv == TypeOK /\ IInv /\ History => IInv'
<1> SUFFICES ASSUME TypeOK, IInv, History PROVE IInv'
  OBVIOUS
<1> QED
  BY DEF History, DeleteHistory, app, IInv, TypeOK, ACTIVE_STATES, HISTORY_STATES, OneHolder,
         CleaningIsMarked, ActiveIsRegistered, CreatedOnce, VerdictHolds, LivePortsDiffer,
         Live, RunningIsOwned, SelectedCoversLive, ClosersAreDone, KeysExclusive, Owned,
         UnitRunning

\* The invariant depends on the variables only.
LEMMA StutterInv == IInv /\ UNCHANGED vars => IInv'
  BY DEF vars, IInv, OneHolder, CleaningIsMarked, ActiveIsRegistered, CreatedOnce,
         VerdictHolds, LivePortsDiffer, Live, RunningIsOwned, SelectedCoversLive,
         ClosersAreDone, KeysExclusive, Owned, UnitRunning

\* Every step keeps the invariant.
LEMMA NextInv == TypeOK /\ IInv /\ [Next]_vars => IInv'
  BY ApplicationInv, LaunchesInv, StopsInv, MonitorInv, HistoryInv, StutterInv
     DEF Next

\* The lock of a session excludes, live sessions have ports of their own, and
\* what a shutdown has not selected is dead.
THEOREM Invariance == Spec => []IInv
  BY InitInv, NextInv, TypeCorrect, PTL DEF Spec

\* Two TensorBoards never run on one port, after failed stops, crashes and
\* lost answers too.
THEOREM OnePortEach == Spec => []PortsExclusive
<1>1. IInv => PortsExclusive
  BY DEF IInv, LivePortsDiffer, Live, PortsExclusive
<1> QED
  BY <1>1, Invariance, PTL

\* What runs can be stopped through the registry, or is an orphan that the next
\* start removes first.
THEOREM WhatRunsIsOwned == Spec => []RunningIsOwned
<1>1. IInv => RunningIsOwned
  BY DEF IInv
<1> QED
  BY <1>1, Invariance, PTL

\* close() leaves nothing running but what it could not stop.
THEOREM ShutdownIsComplete == Spec => []ClosedIsDead
<1>1. IInv => ClosedIsDead
  BY DEF IInv, SelectedCoversLive, ClosersAreDone, ClosedIsDead
<1> QED
  BY <1>1, Invariance, PTL

\* A user, a log directory and an interpreter have one active session at most.
THEOREM OneSessionPerKey == Spec => []KeysExclusive
<1>1. IInv => KeysExclusive
  BY DEF IInv
<1> QED
  BY <1>1, Invariance, PTL

-----------------------------------------------------------------------------
(* What has ended stays ended                                              *)

\* What a step may do to the state of a session.
Permitted(s) ==
    /\ state[s] \in HISTORY_STATES => state'[s] \in HISTORY_STATES \cup {"LOST"}
    /\ StopDone(s) => state'[s] # "FAILED"

\* Starting, recovering, closing or dying revives no session.
LEMMA ApplicationEnded == TypeOK /\ Application =>
    \A r \in Sessions : Permitted(r)
<1> SUFFICES ASSUME TypeOK, Application PROVE \A r \in Sessions : Permitted(r)
  OBVIOUS
<1> USE DEF Permitted, TypeOK, registry, app, LauncherAt, SetState, SessionStates,
        ACTIVE_STATES, HISTORY_STATES, StopDone
<1>1. CASE Boot
  BY <1>1 DEF Boot
<1>2. CASE EnsureBegin
  BY <1>2 DEF EnsureBegin
<1>3. CASE EnsureEnd
  BY <1>3 DEF EnsureEnd
<1>4. CASE Crash
  BY <1>4 DEF Crash, Halt
<1>5. CASE Exit
  BY <1>5 DEF Exit, Halt
<1>6. CASE CloseBegin
  BY <1>6 DEF CloseBegin
<1>7. CASE CloseSelect
  BY <1>7 DEF CloseSelect
<1>8. CASE CloseEnd
  BY <1>8 DEF CloseEnd
<1> QED
  BY <1>1, <1>2, <1>3, <1>4, <1>5, <1>6, <1>7, <1>8 DEF Application

\* A launch revives no session.
LEMMA LaunchesEnded == TypeOK /\ Launches =>
    \A r \in Sessions : Permitted(r)
<1> SUFFICES ASSUME TypeOK, Launches PROVE \A r \in Sessions : Permitted(r)
  OBVIOUS
<1> USE DEF Permitted, TypeOK, registry, app, LauncherAt, SetState, SessionStates,
        ACTIVE_STATES, HISTORY_STATES, StopDone
<1>1. ASSUME NEW s \in Sessions, Reserve(s) PROVE \A r \in Sessions : Permitted(r)
  BY <1>1 DEF Reserve
<1>2. ASSUME NEW s \in Sessions, CreateBegin(s) PROVE \A r \in Sessions : Permitted(r)
  BY <1>2 DEF CreateBegin
<1>3. ASSUME NEW s \in Sessions, CreateEnd(s) PROVE \A r \in Sessions : Permitted(r)
  BY <1>3 DEF CreateEnd, UnitStarted
<1>4. ASSUME NEW s \in Sessions, Poll(s) PROVE \A r \in Sessions : Permitted(r)
  BY <1>4 DEF Poll
<1>5. ASSUME NEW s \in Sessions, Deadline(s) PROVE \A r \in Sessions : Permitted(r)
  BY <1>5 DEF Deadline
<1>6. ASSUME NEW s \in Sessions, Inspect(s) PROVE \A r \in Sessions : Permitted(r)
  BY <1>6 DEF Inspect
<1>7. ASSUME NEW s \in Sessions, Decide(s) PROVE \A r \in Sessions : Permitted(r)
  BY <1>7 DEF Decide
<1>8. ASSUME NEW s \in Sessions, FailBegin(s) PROVE \A r \in Sessions : Permitted(r)
  BY <1>8 DEF FailBegin
<1>9. ASSUME NEW s \in Sessions, FailEnd(s) PROVE \A r \in Sessions : Permitted(r)
  BY <1>9 DEF FailEnd, CleanupEnd, UnitGone
<1>10. ASSUME NEW s \in Sessions, Cancel(s) PROVE \A r \in Sessions : Permitted(r)
  BY <1>10 DEF Cancel, UnitStarted, UnitGone
<1>11. ASSUME NEW s \in Sessions, LauncherStopBegin(s) PROVE \A r \in Sessions : Permitted(r)
  BY <1>11 DEF LauncherStopBegin, StopBegin, StopDone
<1>12. ASSUME NEW s \in Sessions, LauncherStopEnd(s) PROVE \A r \in Sessions : Permitted(r)
  BY <1>12 DEF LauncherStopEnd, StopEnd, CleanupEnd, UnitGone
<1> QED
  BY <1>1, <1>2, <1>3, <1>4, <1>5, <1>6, <1>7, <1>8, <1>9, <1>10, <1>11, <1>12
     DEF Launches, Launcher

\* A stop, and the end of a unit, revives no session.
LEMMA StopsEnded ==
    TypeOK /\ (Stops \/ \E s \in Sessions : UnitExit(s)) =>
    \A r \in Sessions : Permitted(r)
<1> SUFFICES ASSUME TypeOK, Stops \/ \E s \in Sessions : UnitExit(s)
             PROVE  \A r \in Sessions : Permitted(r)
  OBVIOUS
<1> USE DEF Permitted, TypeOK, registry, app, LauncherAt, SetState, SessionStates,
        ACTIVE_STATES, HISTORY_STATES, StopDone
<1>1. ASSUME NEW s \in Sessions, Stop(s) PROVE \A r \in Sessions : Permitted(r)
  BY <1>1 DEF Stop
<1>2. ASSUME NEW s \in Sessions, StopperBegin(s) PROVE \A r \in Sessions : Permitted(r)
  BY <1>2 DEF StopperBegin, StopBegin, AfterBegin, StopDone
<1>3. ASSUME NEW s \in Sessions, StopperEnd(s) PROVE \A r \in Sessions : Permitted(r)
  BY <1>3 DEF StopperEnd, StopEnd, CleanupEnd, UnitGone
<1>4. ASSUME NEW s \in Sessions, CloserBegin(s) PROVE \A r \in Sessions : Permitted(r)
  BY <1>4 DEF CloserBegin, StopBegin, AfterBegin, StopDone
<1>5. ASSUME NEW s \in Sessions, CloserEnd(s) PROVE \A r \in Sessions : Permitted(r)
  BY <1>5 DEF CloserEnd, StopEnd, CleanupEnd, UnitGone
<1>6. ASSUME NEW s \in Sessions, UnitExit(s) PROVE \A r \in Sessions : Permitted(r)
  BY <1>6 DEF UnitExit
<1> QED
  BY <1>1, <1>2, <1>3, <1>4, <1>5, <1>6 DEF Stops, Stopper

\* The monitor revives no session.
LEMMA MonitorEnded == TypeOK /\ Monitor =>
    \A r \in Sessions : Permitted(r)
<1> SUFFICES ASSUME TypeOK, Monitor PROVE \A r \in Sessions : Permitted(r)
  OBVIOUS
<1> USE DEF Permitted, TypeOK, registry, app, LauncherAt, SetState, SessionStates,
        ACTIVE_STATES, HISTORY_STATES, StopDone
<1>1. CASE MonitorRound
  BY <1>1 DEF MonitorRound
<1>2. CASE MonitorInspect
  BY <1>2 DEF MonitorInspect
<1>3. CASE MonitorFail
  BY <1>3 DEF MonitorFail
<1>4. ASSUME NEW s \in Sessions, MonitorVisit(s) PROVE \A r \in Sessions : Permitted(r)
  BY <1>4 DEF MonitorVisit
<1> QED
  BY <1>1, <1>2, <1>3, <1>4 DEF Monitor

\* Sessions that have ended stay ended, and stopped ones are not shown as failed.
THEOREM EndedForGood == Spec => EndedStaysEnded
<1>1. TypeOK /\ [Next]_vars => [\A s \in Sessions : Permitted(s)]_vars
  <2> SUFFICES ASSUME TypeOK, Next PROVE \A s \in Sessions : Permitted(s)
    OBVIOUS
  <2>1. CASE History
    BY <2>1 DEF History, DeleteHistory, Permitted, HISTORY_STATES, StopDone
  <2> QED
    BY <2>1, ApplicationEnded, LaunchesEnded, StopsEnded, MonitorEnded
       DEF Next
<1> QED
  BY <1>1, TypeCorrect, PTL DEF Spec, EndedStaysEnded, Permitted

-----------------------------------------------------------------------------
(* The promises to the users                                               *)

\* The parts of PromiseInv hold at the start.
LEMMA InitPromise == Init => PromiseInv
  BY DEF Init, PromiseInv, KnownAreLive, FailedAreCleaned, RecoversFirst

\* Starting, recovering, closing or dying keeps the parts of PromiseInv.
LEMMA ApplicationPromise == TypeOK /\ IInv /\ PromiseInv /\ Application => PromiseInv'
<1> SUFFICES ASSUME TypeOK, IInv, PromiseInv, Application PROVE PromiseInv'
  OBVIOUS
<1> USE DEF PromiseInv, KnownAreLive, FailedAreCleaned, RecoversFirst, TypeOK, registry, app,
        NoFault, Fault
<1>1. CASE Boot
  BY <1>1 DEF Boot
<1>2. CASE EnsureBegin
  BY <1>2 DEF EnsureBegin
<1>3. CASE EnsureEnd
  BY <1>3 DEF EnsureEnd
<1>4. CASE Crash
  BY <1>4 DEF Crash, Halt
<1>5. CASE Exit
  BY <1>5 DEF Exit, Halt
<1>6. CASE CloseBegin
  BY <1>6 DEF CloseBegin
<1>7. CASE CloseSelect
  BY <1>7 DEF CloseSelect, Owned
<1>8. CASE CloseEnd
  BY <1>8 DEF CloseEnd
<1> QED
  BY <1>1, <1>2, <1>3, <1>4, <1>5, <1>6, <1>7, <1>8 DEF Application

\* A launch keeps the parts of PromiseInv.
LEMMA LaunchesPromise == TypeOK /\ IInv /\ PromiseInv /\ Launches => PromiseInv'
<1> SUFFICES ASSUME TypeOK, IInv, PromiseInv, Launches PROVE PromiseInv'
  OBVIOUS
<1> USE DEF PromiseInv, KnownAreLive, FailedAreCleaned, RecoversFirst, TypeOK, registry, app,
        NoFault, Fault, LauncherAt, SetState, ACTIVE_STATES, HISTORY_STATES
<1>1. ASSUME NEW s \in Sessions, Reserve(s) PROVE PromiseInv'
  BY <1>1 DEF Reserve
<1>2. ASSUME NEW s \in Sessions, CreateBegin(s) PROVE PromiseInv'
  BY <1>2 DEF CreateBegin
<1>3. ASSUME NEW s \in Sessions, CreateEnd(s) PROVE PromiseInv'
  BY <1>3 DEF CreateEnd
<1>4. ASSUME NEW s \in Sessions, Poll(s) PROVE PromiseInv'
  BY <1>4 DEF Poll
<1>5. ASSUME NEW s \in Sessions, Deadline(s) PROVE PromiseInv'
  BY <1>5 DEF Deadline
<1>6. ASSUME NEW s \in Sessions, Inspect(s) PROVE PromiseInv'
  BY <1>6 DEF Inspect
<1>7. ASSUME NEW s \in Sessions, Decide(s) PROVE PromiseInv'
  BY <1>7 DEF Decide
<1>8. ASSUME NEW s \in Sessions, FailBegin(s) PROVE PromiseInv'
  BY <1>8 DEF FailBegin
<1>9. ASSUME NEW s \in Sessions, FailEnd(s) PROVE PromiseInv'
  BY <1>9 DEF FailEnd, CleanupEnd
<1>10. ASSUME NEW s \in Sessions, Cancel(s) PROVE PromiseInv'
  BY <1>10 DEF Cancel
<1>11. ASSUME NEW s \in Sessions, LauncherStopBegin(s) PROVE PromiseInv'
  BY <1>11 DEF LauncherStopBegin, StopBegin
<1>12. ASSUME NEW s \in Sessions, LauncherStopEnd(s) PROVE PromiseInv'
  BY <1>12 DEF LauncherStopEnd, StopEnd, CleanupEnd
<1> QED
  BY <1>1, <1>2, <1>3, <1>4, <1>5, <1>6, <1>7, <1>8, <1>9, <1>10, <1>11, <1>12
     DEF Launches, Launcher

\* A stop, and the end of a unit, keeps the parts of PromiseInv.
LEMMA StopsPromise ==
    TypeOK /\ IInv /\ PromiseInv /\ (Stops \/ \E s \in Sessions : UnitExit(s)) => PromiseInv'
<1> SUFFICES ASSUME TypeOK, IInv, PromiseInv, Stops \/ \E s \in Sessions : UnitExit(s)
             PROVE  PromiseInv'
  OBVIOUS
<1> USE DEF PromiseInv, KnownAreLive, FailedAreCleaned, RecoversFirst, TypeOK, registry, app,
        NoFault, Fault, LauncherAt, SetState, ACTIVE_STATES, HISTORY_STATES,
        IInv, OneHolder, LauncherCleans
<1>1. ASSUME NEW s \in Sessions, Stop(s) PROVE PromiseInv'
  BY <1>1 DEF Stop
<1>2. ASSUME NEW s \in Sessions, StopperBegin(s) PROVE PromiseInv'
  BY <1>2 DEF StopperBegin, StopBegin, AfterBegin
<1>3. ASSUME NEW s \in Sessions, StopperEnd(s) PROVE PromiseInv'
  BY <1>3 DEF StopperEnd, StopEnd, CleanupEnd
<1>4. ASSUME NEW s \in Sessions, CloserBegin(s) PROVE PromiseInv'
  BY <1>4 DEF CloserBegin, StopBegin, AfterBegin
<1>5. ASSUME NEW s \in Sessions, CloserEnd(s) PROVE PromiseInv'
  BY <1>5 DEF CloserEnd, StopEnd, CleanupEnd
<1>6. ASSUME NEW s \in Sessions, UnitExit(s) PROVE PromiseInv'
  BY <1>6 DEF UnitExit
<1> QED
  BY <1>1, <1>2, <1>3, <1>4, <1>5, <1>6 DEF Stops, Stopper

\* The monitor and the deletion of history keep the parts of PromiseInv.
LEMMA MonitorPromise == TypeOK /\ IInv /\ PromiseInv /\ (Monitor \/ History) => PromiseInv'
<1> SUFFICES ASSUME TypeOK, IInv, PromiseInv, Monitor \/ History PROVE PromiseInv'
  OBVIOUS
<1> USE DEF PromiseInv, KnownAreLive, FailedAreCleaned, RecoversFirst, TypeOK, registry, app,
        NoFault, Fault, SetState, ACTIVE_STATES, HISTORY_STATES
<1>1. CASE MonitorRound
  BY <1>1 DEF MonitorRound
<1>2. CASE MonitorInspect
  BY <1>2 DEF MonitorInspect
<1>3. CASE MonitorFail
  BY <1>3 DEF MonitorFail
<1>4. ASSUME NEW s \in Sessions, MonitorVisit(s) PROVE PromiseInv'
  BY <1>4 DEF MonitorVisit
<1>5. CASE History
  BY <1>5 DEF History, DeleteHistory
<1> QED
  BY <1>1, <1>2, <1>3, <1>4, <1>5 DEF Monitor

\* Sessions that are known or worked on are live, in every behaviour.
THEOREM PromiseInvariance == Spec => []PromiseInv
<1>1. TypeOK /\ IInv /\ PromiseInv /\ [Next]_vars => PromiseInv'
  <2> SUFFICES ASSUME TypeOK, IInv, PromiseInv, [Next]_vars PROVE PromiseInv'
    OBVIOUS
  <2>1. CASE Next
    BY <2>1, ApplicationPromise, LaunchesPromise, StopsPromise, MonitorPromise DEF Next
  <2>2. CASE UNCHANGED vars
    BY <2>2 DEF PromiseInv, KnownAreLive, FailedAreCleaned, RecoversFirst, vars
  <2> QED
    BY <2>1, <2>2
<1> QED
  BY <1>1, InitPromise, TypeCorrect, Invariance, PTL DEF Spec

\* What the mapping hides behaves as one expects: a session that is in the
\* registry is shown as it is, and one that was deleted stays DELETED.
LEMMA ShownMoves ==
    ASSUME TypeOK, PromiseInv, NEW s \in Sessions, NEW to,
           sessions' = sessions, state' = [state EXCEPT ![s] = to]
    PROVE  /\ s \in sessions =>
                Shown[s] = state[s] /\ Shown' = [Shown EXCEPT ![s] = to]
           /\ s \notin sessions /\ {state[s], to} \subseteq HISTORY_STATES =>
                Shown' = Shown
<1>1. ASSUME s \in sessions PROVE Shown[s] = state[s] /\ Shown' = [Shown EXCEPT ![s] = to]
  BY <1>1 DEF Shown, TypeOK
<1>2. ASSUME s \notin sessions, {state[s], to} \subseteq HISTORY_STATES PROVE Shown' = Shown
  BY <1>2 DEF Shown, TypeOK
<1> QED
  BY <1>1, <1>2

\* Nothing is shown differently while states and registry stay.
LEMMA ShownStays ==
    ASSUME UNCHANGED <<state, sessions>>
    PROVE  Shown' = Shown
  BY DEF Shown

\* What runs and what is marked, after a step on one session.
LEMMA RunsMoves ==
    ASSUME TypeOK, NEW s \in Sessions
    PROVE  /\ unit' = UnitStarted(s) => Runs' = Runs \cup {s}
           /\ unit' = UnitGone(s) => Runs' = Runs \ {s}
           /\ unit' = [unit EXCEPT ![s] = "exited"] => Runs' = Runs \ {s}
           /\ unit' = unit => Runs' = Runs
  BY DEF TypeOK, Runs, UnitRunning, UnitStarted, UnitGone

\* A confirmed cleanup of a session that ends in one of the states of history.
LEMMA ConfirmMoves ==
    ASSUME TypeOK, IInv, PromiseInv, NEW s \in Sessions, NEW to,
           s \in unconfirmed,
           state[s] \in ACTIVE_STATES \cup HISTORY_STATES,
           \/ to = "STOPPED"
           \/ to = "FAILED" /\ state[s] = "FAILED",
           state' = [state EXCEPT ![s] = to],
           unit' = UnitGone(s),
           unconfirmed' = unconfirmed \ {s},
           UNCHANGED registry
    PROVE  [Promises!Next]_(Promises!vars)
<1>1. Runs' = Runs \ {s}
  BY RunsMoves
<1>2. CASE s \in sessions
  <2>1. Shown[s] = state[s] /\ Shown' = [Shown EXCEPT ![s] = to]
    BY <1>2, ShownMoves DEF registry
  <2>2. s \in Marked /\ Marked' = Marked \ {s}
    BY <1>2 DEF Marked, registry
  <2>3. Promises!Confirm(s)
    BY <1>1, <2>1, <2>2
       DEF Promises!Confirm, Promises!Move, Promises!Active, Promises!Ended, ACTIVE_STATES,
           HISTORY_STATES, registry
  <2> QED
    BY <2>3 DEF Promises!Next
<1>3. CASE s \notin sessions
  <2>1. state[s] \in HISTORY_STATES
    BY <1>3 DEF IInv, ActiveIsRegistered
  <2>2. Shown' = Shown
    BY <1>3, <2>1, ShownMoves DEF registry, HISTORY_STATES
  <2>3. Marked' = Marked
    BY <1>3 DEF Marked, registry
  <2>4. Promises!Exit(s)
    BY <1>1, <2>2, <2>3 DEF Promises!Exit, registry
  <2> QED
    BY <2>4 DEF Promises!Next
<1> QED
  BY <1>2, <1>3

\* A stop, or the cleanup of a failed start, has got the lock and marks the session.
LEMMA MarkMoves ==
    ASSUME TypeOK, PromiseInv, NEW s \in Sessions,
           state[s] \in ACTIVE_STATES \cup HISTORY_STATES,
           unconfirmed' = unconfirmed \cup {s},
           UNCHANGED <<registry, state, unit>>
    PROVE  [Promises!Next]_(Promises!vars)
<1>1. Runs' = Runs /\ Shown' = Shown
  BY RunsMoves, ShownStays DEF registry
<1>2. CASE s \in sessions
  <2>1. Shown[s] = state[s] /\ Marked' = Marked \cup {s}
    BY <1>2 DEF Shown, Marked, registry
  <2>2. Promises!Mark(s)
    BY <1>1, <2>1
       DEF Promises!Mark, Promises!Active, Promises!Ended, ACTIVE_STATES, HISTORY_STATES,
           registry
  <2> QED
    BY <2>2 DEF Promises!Next
<1>3. CASE s \notin sessions
  BY <1>1, <1>3 DEF Marked, Promises!vars, registry
<1> QED
  BY <1>2, <1>3

\* The unit of a session ends, or nothing that users see changes.
LEMMA ExitMoves ==
    ASSUME TypeOK, NEW s \in Sessions,
           unit' \in {unit, UnitGone(s), [unit EXCEPT ![s] = "exited"]},
           UNCHANGED <<registry, state, unconfirmed>>
    PROVE  [Promises!Next]_(Promises!vars)
<1>1. Shown' = Shown /\ Marked' = Marked
  BY ShownStays DEF registry, Marked
<1>2. CASE unit' = unit
  <2>1. Runs' = Runs
    BY <1>2, RunsMoves
  <2> QED
    BY <1>1, <2>1 DEF Promises!vars, registry
<1>3. CASE Runs' = Runs \ {s}
  <2>1. Promises!Exit(s)
    BY <1>1, <1>3 DEF Promises!Exit, registry
  <2> QED
    BY <2>1 DEF Promises!Next
<1> QED
  BY <1>2, <1>3, RunsMoves

\* Where users see a session start or exit only.
LEMMA StartMoves ==
    ASSUME TypeOK, IInv, PromiseInv, NEW s \in Sessions, launcher[s] = "create",
           unit' = UnitStarted(s),
           UNCHANGED <<registry, state, unconfirmed>>
    PROVE  [Promises!Next]_(Promises!vars)
<1>1. Shown' = Shown /\ Marked' = Marked /\ Runs' = Runs \cup {s}
  BY ShownStays, RunsMoves DEF registry, Marked
<1>2. Shown[s] = "STARTING"
  BY DEF IInv, CreatedOnce, Shown, HISTORY_STATES
<1>3. Promises!Start(s)
  BY <1>1, <1>2 DEF Promises!Start, registry
<1> QED
  BY <1>3 DEF Promises!Next

\* The state of a session in the registry changes, and nothing else that users see.
LEMMA StateMoves ==
    ASSUME TypeOK, PromiseInv, NEW s \in Sessions, NEW to,
           s \in sessions,
           state' = [state EXCEPT ![s] = to],
           UNCHANGED <<registry, unit, unconfirmed>>,
           \/ state[s] = "STARTING" /\ to = "RUNNING"
           \/ state[s] = "STARTING" /\ to = "STOPPED" /\ ~UnitRunning(s)
           \/ state[s] = "RUNNING" /\ to = "FAILED" /\ ~UnitRunning(s)
    PROVE  [Promises!Next]_(Promises!vars)
<1>1. Runs' = Runs /\ Marked' = Marked
  BY RunsMoves DEF registry, Marked
<1>2. Shown[s] = state[s] /\ Shown' = [Shown EXCEPT ![s] = to]
  BY ShownMoves DEF registry
<1>3. s \in Runs => UnitRunning(s)
  BY DEF Runs
<1>4. Promises!Ready(s) \/ Promises!Withdraw(s) \/ Promises!Notice(s)
  BY <1>1, <1>2, <1>3
     DEF Promises!Ready, Promises!Withdraw, Promises!Notice, Promises!Move, registry
<1> QED
  BY <1>4 DEF Promises!Next

\* The end of a stop is a confirmation, or an exit, or nothing to users.
LEMMA StopEndMoves ==
    ASSUME TypeOK, IInv, PromiseInv, NEW s \in Sessions, NEW confirmed \in BOOLEAN,
           StopEnd(s, confirmed),
           s \in unconfirmed,
           state[s] \in ACTIVE_STATES \cup HISTORY_STATES,
           UNCHANGED registry
    PROVE  [Promises!Next]_(Promises!vars)
<1>1. CASE confirmed
  BY <1>1, ConfirmMoves DEF StopEnd, CleanupEnd, SetState
<1>2. CASE ~confirmed
  BY <1>2, ExitMoves DEF StopEnd, CleanupEnd
<1> QED
  BY <1>1, <1>2

\* Steps that change nothing users see.
LEMMA Unseen ==
    ASSUME TypeOK, UNCHANGED <<registry, state, unit, unconfirmed>>
    PROVE  [Promises!Next]_(Promises!vars)
<1>1. Shown' = Shown /\ Marked' = Marked /\ Runs' = Runs
  BY ShownStays DEF registry, Marked, Runs, UnitRunning
<1> QED
  BY <1>1 DEF Promises!vars, registry

\* A new session gets a key and a port that nobody has.
LEMMA ReserveMoves ==
    ASSUME TypeOK, IInv, PromiseInv, NEW s \in Sessions, Reserve(s)
    PROVE  [Promises!Next]_(Promises!vars)
<1> PICK k \in Keys, p \in Ports \ Reserved :
       /\ ~KeyInUse(k)
       /\ key' = [key EXCEPT ![s] = k]
       /\ port' = [port EXCEPT ![s] = p]
  BY DEF Reserve
<1>1. s \notin sessions
  BY DEF Reserve, PromiseInv, KnownAreLive, ACTIVE_STATES, HISTORY_STATES
<1>2. Runs' = Runs
  BY RunsMoves DEF Reserve
<1>3. Marked' = Marked
  BY DEF Reserve, Marked, PromiseInv, KnownAreLive, ACTIVE_STATES, HISTORY_STATES
<1>4. Promises!Move(s, {"NONE"}, "STARTING")
  <2>1. Shown[s] = "NONE"
    BY DEF Shown, Reserve, HISTORY_STATES
  <2>2. Shown' = [Shown EXCEPT ![s] = "STARTING"]
    BY <1>1 DEF Shown, Reserve, SetState, TypeOK, HISTORY_STATES
  <2> QED
    BY <2>1, <2>2 DEF Promises!Move
<1>5. ASSUME NEW r \in Sessions
      PROVE  /\ Shown[r] \in Promises!Active => key[r] # k
             /\ Shown[r] \in Promises!Active \/ r \in Runs \cup Marked => port[r] # p
             /\ r \in Runs => Shown[r] # "LOST"
  <2>1. Shown[r] \in Promises!Active => r \in sessions /\ state[r] \in ACTIVE_STATES
    BY DEF Shown, Promises!Active, ACTIVE_STATES, IInv, ActiveIsRegistered
  <2>2. r \in Runs => r \in Owned
    BY DEF Reserve, IInv, RunningIsOwned, Runs
  <2>3. r \in Owned => port[r] # p
    BY DEF Reserved
  <2>4. Shown[r] \in Promises!Active \/ r \in Marked => r \in Owned
    BY <2>1 DEF Owned, Marked
  <2>5. r \in Owned => Shown[r] # "LOST"
    BY DEF Owned, Shown, PromiseInv, KnownAreLive, ACTIVE_STATES, HISTORY_STATES
  <2> QED
    BY <2>1, <2>2, <2>3, <2>4, <2>5 DEF KeyInUse
<1>6. Promises!Reserve(s, k, p)
  BY <1>2, <1>3, <1>4, <1>5 DEF Promises!Reserve
<1> QED
  BY <1>6 DEF Promises!Next

\* Starting, recovering, closing or dying keeps the promises.
LEMMA ApplicationPromises ==
    TypeOK /\ IInv /\ PromiseInv /\ Application => [Promises!Next]_(Promises!vars)
<1> SUFFICES ASSUME TypeOK, IInv, PromiseInv, Application
             PROVE  [Promises!Next]_(Promises!vars)
  OBVIOUS
<1>1. CASE Boot
  BY <1>1, Unseen DEF Boot
<1>2. CASE EnsureBegin
  BY <1>2, Unseen DEF EnsureBegin
<1>3. CASE EnsureEnd
  <2>1. PICK S \in SUBSET Sessions :
          unit' = [s \in Sessions |-> IF s \in S THEN "none" ELSE unit[s]]
    <3>1. CASE unit' = [s \in Sessions |-> "none"]
      <4>1. unit' = [s \in Sessions |-> IF s \in Sessions THEN "none" ELSE unit[s]]
        BY <3>1
      <4> QED
        BY <4>1
    <3> QED
      BY <1>3, <3>1 DEF EnsureEnd
  <2>2. Runs' = Runs \ (S \cap Runs)
    BY <2>1 DEF Runs, UnitRunning
  <2>3. \A s \in S \cap Runs : Shown[s] = "LOST"
    BY <1>3 DEF EnsureEnd, PromiseInv, RecoversFirst, IInv, CreatedOnce, Runs, Shown,
                HISTORY_STATES
  <2>4. Shown' = Shown /\ Marked' = Marked
    BY <1>3, ShownStays DEF EnsureEnd, registry, Marked
  <2>5. Promises!Purge(S \cap Runs)
    BY <1>3, <2>2, <2>3, <2>4 DEF EnsureEnd, Promises!Purge, registry
  <2> QED
    BY <2>5 DEF Promises!Next
<1>4. CASE Halt
  <2>1. Shown' = [s \in Sessions |-> IF Shown[s] = "NONE" THEN "NONE" ELSE "LOST"]
    BY <1>4 DEF Halt, Shown, TypeOK, SessionStates, ACTIVE_STATES, HISTORY_STATES
  <2>2. Marked' = {} /\ Runs' = Runs
    BY <1>4 DEF Halt, Marked, Runs, UnitRunning
  <2>3. Promises!Halt
    BY <1>4, <2>1, <2>2 DEF Halt, Promises!Halt
  <2> QED
    BY <2>3 DEF Promises!Next
<1>5. CASE CloseBegin
  BY <1>5, Unseen DEF CloseBegin
<1>6. CASE CloseSelect
  BY <1>6, Unseen DEF CloseSelect
<1>7. CASE CloseEnd
  BY <1>7, Unseen DEF CloseEnd
<1> QED
  BY <1>1, <1>2, <1>3, <1>4, <1>5, <1>6, <1>7 DEF Application, Crash, Exit

\* A launch keeps the promises.
LEMMA LaunchesPromises ==
    TypeOK /\ IInv /\ PromiseInv /\ Launches => [Promises!Next]_(Promises!vars)
<1> SUFFICES ASSUME TypeOK, IInv, PromiseInv, Launches
             PROVE  [Promises!Next]_(Promises!vars)
  OBVIOUS
<1>1. ASSUME NEW s \in Sessions, Reserve(s) PROVE [Promises!Next]_(Promises!vars)
  BY <1>1, ReserveMoves
<1>2. ASSUME NEW s \in Sessions, CreateBegin(s) PROVE [Promises!Next]_(Promises!vars)
  <2>1. CASE state' = state
    BY <1>2, <2>1, Unseen DEF CreateBegin
  <2>2. CASE state[s] = "STARTING" /\ state' = [state EXCEPT ![s] = "STOPPED"]
    <3>1. s \in sessions /\ ~UnitRunning(s)
      BY <1>2, <2>2 DEF CreateBegin, IInv, ActiveIsRegistered, CreatedOnce, ACTIVE_STATES
    <3> QED
      BY <1>2, <2>2, <3>1, StateMoves DEF CreateBegin
  <2> QED
    BY <1>2, <2>1, <2>2 DEF CreateBegin, SetState
<1>3. ASSUME NEW s \in Sessions, CreateEnd(s) PROVE [Promises!Next]_(Promises!vars)
  <2>1. CASE unit' = UnitStarted(s)
    BY <1>3, <2>1, StartMoves DEF CreateEnd
  <2>2. CASE unit' \in {unit, [unit EXCEPT ![s] = "exited"]}
    BY <1>3, <2>2, ExitMoves DEF CreateEnd
  <2> QED
    BY <1>3, <2>1, <2>2 DEF CreateEnd
<1>4. ASSUME NEW s \in Sessions, Poll(s) \/ Deadline(s) \/ Inspect(s)
      PROVE  [Promises!Next]_(Promises!vars)
  BY <1>4, Unseen DEF Poll, Deadline, Inspect
<1>5. ASSUME NEW s \in Sessions, Decide(s) PROVE [Promises!Next]_(Promises!vars)
  <2>1. CASE state' = state
    BY <1>5, <2>1, Unseen DEF Decide
  <2>2. CASE state[s] = "STARTING" /\ state' = [state EXCEPT ![s] = "RUNNING"]
    <3>1. s \in sessions
      BY <2>2 DEF IInv, ActiveIsRegistered, ACTIVE_STATES
    <3> QED
      BY <1>5, <2>2, <3>1, StateMoves DEF Decide
  <2> QED
    BY <1>5, <2>1, <2>2 DEF Decide, SetState
<1>6. ASSUME NEW s \in Sessions, FailBegin(s) PROVE [Promises!Next]_(Promises!vars)
  <2>1. CASE state[s] # "STARTING"
    BY <1>6, <2>1, Unseen DEF FailBegin
  <2>2. CASE state[s] = "STARTING"
    <3>1. s \in sessions
      BY <2>2 DEF IInv, ActiveIsRegistered, ACTIVE_STATES
    <3>2. Shown[s] = "STARTING" /\ Shown' = [Shown EXCEPT ![s] = "FAILED"]
      BY <1>6, <2>2, <3>1, ShownMoves DEF FailBegin, SetState, registry
    <3>3. Marked' = Marked \cup {s} /\ Runs' = Runs
      BY <1>6, <2>2, <3>1, RunsMoves DEF FailBegin, Marked, registry
    <3>4. Promises!GiveUp(s)
      BY <1>6, <3>2, <3>3 DEF FailBegin, registry, Promises!GiveUp, Promises!Move
    <3> QED
      BY <3>4 DEF Promises!Next
  <2> QED
    BY <2>1, <2>2
<1>7. ASSUME NEW s \in Sessions, FailEnd(s) PROVE [Promises!Next]_(Promises!vars)
  <2> PICK confirmed \in BOOLEAN : CleanupEnd(s, confirmed)
    BY <1>7 DEF FailEnd
  <2>1. s \in unconfirmed /\ state[s] = "FAILED"
    BY <1>7 DEF FailEnd, IInv, CleaningIsMarked, LauncherCleans, PromiseInv, FailedAreCleaned
  <2>2. CASE confirmed
    <3>1. state' = [state EXCEPT ![s] = "FAILED"]
      BY <1>7, <2>1 DEF FailEnd, TypeOK
    <3> QED
      BY <1>7, <2>1, <2>2, <3>1, ConfirmMoves DEF FailEnd, CleanupEnd, HISTORY_STATES
  <2>3. CASE ~confirmed
    BY <1>7, <2>3, ExitMoves DEF FailEnd, CleanupEnd
  <2> QED
    BY <2>2, <2>3
<1>8. ASSUME NEW s \in Sessions, Cancel(s) PROVE [Promises!Next]_(Promises!vars)
  <2>1. CASE launcher[s] = "create" /\ unit' = UnitStarted(s)
    BY <1>8, <2>1, StartMoves DEF Cancel
  <2>2. CASE unit' \in {unit, UnitGone(s)}
    BY <1>8, <2>2, ExitMoves DEF Cancel
  <2> QED
    BY <1>8, <2>1, <2>2 DEF Cancel
<1>9. ASSUME NEW s \in Sessions, LauncherStopBegin(s) PROVE [Promises!Next]_(Promises!vars)
  <2>1. state[s] \in ACTIVE_STATES \cup HISTORY_STATES
    BY <1>9 DEF LauncherStopBegin, PromiseInv, KnownAreLive
  <2>2. CASE unconfirmed' = unconfirmed
    BY <1>9, <2>2, Unseen DEF LauncherStopBegin
  <2>3. CASE unconfirmed' = unconfirmed \cup {s}
    BY <1>9, <2>1, <2>3, MarkMoves DEF LauncherStopBegin
  <2> QED
    BY <1>9, <2>2, <2>3 DEF LauncherStopBegin, StopBegin
<1>10. ASSUME NEW s \in Sessions, LauncherStopEnd(s) PROVE [Promises!Next]_(Promises!vars)
  <2> PICK confirmed \in BOOLEAN : StopEnd(s, confirmed)
    BY <1>10 DEF LauncherStopEnd
  <2>1. s \in unconfirmed /\ state[s] \in ACTIVE_STATES \cup HISTORY_STATES
    BY <1>10 DEF LauncherStopEnd, IInv, CleaningIsMarked, LauncherCleans, PromiseInv,
                 KnownAreLive
  <2> QED
    BY <1>10, <2>1, StopEndMoves DEF LauncherStopEnd
<1> QED
  BY <1>1, <1>2, <1>3, <1>4, <1>5, <1>6, <1>7, <1>8, <1>9, <1>10 DEF Launches, Launcher

\* A stop of a request or of the shutdown, and the end of a unit, keeps the promises.
LEMMA StopsPromises ==
    TypeOK /\ IInv /\ PromiseInv /\ (Stops \/ \E s \in Sessions : UnitExit(s)) =>
        [Promises!Next]_(Promises!vars)
<1> SUFFICES ASSUME TypeOK, IInv, PromiseInv, Stops \/ \E s \in Sessions : UnitExit(s)
             PROVE  [Promises!Next]_(Promises!vars)
  OBVIOUS
<1>1. ASSUME NEW s \in Sessions, Stop(s) PROVE [Promises!Next]_(Promises!vars)
  BY <1>1, Unseen DEF Stop
<1>2. ASSUME NEW s \in Sessions, StopperBegin(s) \/ CloserBegin(s)
      PROVE  [Promises!Next]_(Promises!vars)
  <2>1. state[s] \in ACTIVE_STATES \cup HISTORY_STATES
    BY <1>2 DEF StopperBegin, CloserBegin, PromiseInv, KnownAreLive
  <2>2. CASE unconfirmed' = unconfirmed
    BY <1>2, <2>2, Unseen DEF StopperBegin, CloserBegin
  <2>3. CASE unconfirmed' = unconfirmed \cup {s}
    BY <1>2, <2>1, <2>3, MarkMoves DEF StopperBegin, CloserBegin
  <2> QED
    BY <1>2, <2>2, <2>3 DEF StopperBegin, CloserBegin, StopBegin
<1>3. ASSUME NEW s \in Sessions, StopperEnd(s) \/ CloserEnd(s)
      PROVE  [Promises!Next]_(Promises!vars)
  <2> PICK confirmed \in BOOLEAN : StopEnd(s, confirmed)
    BY <1>3 DEF StopperEnd, CloserEnd
  <2>1. s \in unconfirmed /\ state[s] \in ACTIVE_STATES \cup HISTORY_STATES
    BY <1>3 DEF StopperEnd, CloserEnd, IInv, CleaningIsMarked, PromiseInv, KnownAreLive
  <2> QED
    BY <1>3, <2>1, StopEndMoves DEF StopperEnd, CloserEnd
<1>4. ASSUME NEW s \in Sessions, UnitExit(s) PROVE [Promises!Next]_(Promises!vars)
  BY <1>4, ExitMoves DEF UnitExit
<1> QED
  BY <1>1, <1>2, <1>3, <1>4 DEF Stops, Stopper

\* The monitor keeps the promises.
LEMMA MonitorPromises ==
    TypeOK /\ IInv /\ PromiseInv /\ Monitor => [Promises!Next]_(Promises!vars)
<1> SUFFICES ASSUME TypeOK, IInv, PromiseInv, Monitor
             PROVE  [Promises!Next]_(Promises!vars)
  OBVIOUS
<1>1. CASE MonitorFail
  <2>1. PICK s \in Sessions : s = monitor.cur
    BY <1>1 DEF MonitorFail, TypeOK
  <2>2. ~UnitRunning(s)
    BY <1>1, <2>1 DEF MonitorFail, IInv, VerdictHolds
  <2>3. CASE state' = state
    BY <1>1, <2>3, Unseen DEF MonitorFail
  <2>4. CASE state[s] = "RUNNING" /\ state' = [state EXCEPT ![s] = "FAILED"]
    <3>1. s \in sessions
      BY <2>4 DEF IInv, ActiveIsRegistered, ACTIVE_STATES
    <3> QED
      BY <1>1, <2>2, <2>4, <3>1, StateMoves DEF MonitorFail
  <2> QED
    BY <1>1, <2>1, <2>3, <2>4 DEF MonitorFail, SetState
<1>2. CASE MonitorRound \/ MonitorInspect \/ \E s \in Sessions : MonitorVisit(s)
  BY <1>2, Unseen DEF MonitorRound, MonitorInspect, MonitorVisit
<1> QED
  BY <1>1, <1>2 DEF Monitor

\* Only what has ended, and neither runs nor is marked, is deleted.
LEMMA HistoryPromises ==
    TypeOK /\ IInv /\ PromiseInv /\ History => [Promises!Next]_(Promises!vars)
<1> SUFFICES ASSUME TypeOK, IInv, PromiseInv, NEW S \in SUBSET Sessions, DeleteHistory(S)
             PROVE  [Promises!Next]_(Promises!vars)
  BY DEF History
<1>1. Shown' = [s \in Sessions |-> IF s \in S THEN "DELETED" ELSE Shown[s]]
  BY DEF DeleteHistory, Shown
<1>2. Marked' = Marked /\ Runs' = Runs
  BY DEF DeleteHistory, Marked, Runs, UnitRunning
<1>3. ASSUME NEW s \in S PROVE Shown[s] \in Promises!Ended /\ s \notin Runs \cup Marked
  <2>1. Shown[s] \in Promises!Ended /\ s \notin unconfirmed
    BY DEF DeleteHistory, Shown, Promises!Ended, HISTORY_STATES
  <2>2. ~UnitRunning(s)
    BY <2>1 DEF DeleteHistory, IInv, RunningIsOwned, Owned, ActiveIsRegistered, ACTIVE_STATES,
                HISTORY_STATES
  <2> QED
    BY <2>1, <2>2 DEF Runs, Marked
<1>4. Promises!Delete(S)
  BY <1>1, <1>2, <1>3 DEF DeleteHistory, Promises!Delete
<1> QED
  BY <1>4 DEF Promises!Next

\* The manager implements what its users were promised.
THEOREM KeepsPromises == Spec => RefinesPromises
<1>1. Init => Promises!Init
  BY DEF Init, Promises!Init, Shown, Runs, Marked, UnitRunning, HISTORY_STATES
<1>2. TypeOK /\ IInv /\ PromiseInv /\ [Next]_vars => [Promises!Next]_(Promises!vars)
  <2> SUFFICES ASSUME TypeOK, IInv, PromiseInv, [Next]_vars
               PROVE  [Promises!Next]_(Promises!vars)
    OBVIOUS
  <2>1. CASE Next
    BY <2>1, ApplicationPromises, LaunchesPromises, StopsPromises, MonitorPromises,
       HistoryPromises DEF Next
  <2>2. CASE UNCHANGED vars
    BY <2>2, Unseen DEF vars, registry
  <2> QED
    BY <2>1, <2>2
<1> QED
  BY <1>1, <1>2, TypeCorrect, Invariance, PromiseInvariance, PTL
     DEF Spec, RefinesPromises, Promises!Spec

-----------------------------------------------------------------------------
(* Launches and the shutdown go forward                                    *)

\* At most so many places are still before a coroutine of _start_session, if it
\* does not poll again, ...
LaunchLeft(place) ==
    CASE place = "lock"      -> 9
      [] place = "create"    -> 8
      [] place = "inspect"   -> 7
      [] place = "decide"    -> 6
      [] place = "poll"      -> 5
      [] place = "stopWait"  -> 4
      [] place = "stopClean" -> 3
      [] place \in {"fail", "shielded"}           -> 2
      [] place \in {"failClean", "shieldedClean"} -> 1
      [] OTHER -> 0

\* ... and before one of _close_session.
StopLeft(place) == CASE place = "wait" -> 2 [] place = "clean" -> 1 [] OTHER -> 0

\* What a step may do to the launch of r: nothing, begin it, poll once more, which
\* a session does only while it is STARTING and the application stays, or go on.
LaunchMoves(r) ==
    \/ launcher'[r] = launcher[r]
    \/ launcher[r] = "none" /\ state[r] = "NONE" /\ phase = "up"
    \/ /\ launcher[r] = "poll" /\ launcher'[r] = "inspect"
       /\ state[r] = "STARTING" /\ ~closing
    \/ LaunchLeft(launcher'[r]) < LaunchLeft(launcher[r])

\* What a step may do to r once the shutdown has begun: r does not become active,
\* no unit is created but by a launch that was creating it already, and the
\* coroutine that stops r goes on.
ShutdownMoves(r) ==
    closing /\ closing' =>
        /\ state'[r] \in ACTIVE_STATES => state'[r] = state[r]
        /\ launcher'[r] = "create" => launcher[r] = "create"
        /\ unit'[r] = "running" => unit[r] = "running" \/ launcher[r] = "create"
        /\ phase # "closing" =>
             closer'[r] = closer[r] \/ StopLeft(closer'[r]) < StopLeft(closer[r])

\* A start never goes back but to poll once more, whatever fails, is stopped or is
\* cancelled: besides the deadline of that loop, nothing can keep it from its end.
LaunchesGoForward == [][\A r \in Sessions : LaunchMoves(r)]_vars

\* close() has a bounded amount of work: while it waits, no session comes up and
\* no launch begins to create a unit, and each session is stopped once.
ShutdownGoesForward == [][\A r \in Sessions : ShutdownMoves(r)]_vars

GoesOn(r) == LaunchMoves(r) /\ ShutdownMoves(r)

\* What leaves the launchers and closers alone, and starts nothing, goes nowhere.
LEMMA OthersGoOn ==
    ASSUME TypeOK, NEW r \in Sessions, launcher' = launcher,
           closer' = closer \/ phase \in {"up", "down", "closing"},
           state'[r] \in ACTIVE_STATES => state'[r] = state[r],
           unit'[r] = "running" => unit[r] = "running"
    PROVE GoesOn(r)
BY DEF GoesOn, LaunchMoves, ShutdownMoves, closing, TypeOK

\* The application's own steps.
LEMMA ApplicationGoesOn == TypeOK /\ Application => \A r \in Sessions : GoesOn(r)
<1> SUFFICES ASSUME TypeOK, Application, NEW r \in Sessions PROVE GoesOn(r)
  OBVIOUS
<1>1. CASE Boot \/ EnsureBegin \/ CloseBegin \/ CloseSelect \/ CloseEnd
  BY <1>1, OthersGoOn DEF Boot, EnsureBegin, CloseBegin, CloseSelect, CloseEnd
<1>2. CASE EnsureEnd
  <2>1. unit'[r] = "running" => unit[r] = "running"
    BY <1>2 DEF EnsureEnd
  <2>2. QED
    BY <1>2, <2>1, OthersGoOn DEF EnsureEnd
<1>3. CASE Halt
  <2>1. launcher'[r] = "none" /\ ~closing'
    BY <1>3 DEF Halt, closing
  <2>2. launcher[r] = "none" \/ LaunchLeft("none") < LaunchLeft(launcher[r])
    BY DEF TypeOK, LauncherPlaces, LaunchLeft
  <2>3. QED
    BY <2>1, <2>2 DEF GoesOn, LaunchMoves, ShutdownMoves
<1>4. QED
  BY <1>1, <1>2, <1>3 DEF Application, Crash, Exit

\* A launch.
LEMMA LaunchesGoOn == TypeOK /\ KnownAreLive /\ Launches => \A r \in Sessions : GoesOn(r)
<1> SUFFICES ASSUME TypeOK, KnownAreLive, Launches, NEW r \in Sessions PROVE GoesOn(r)
  OBVIOUS
<1> USE DEF GoesOn, LaunchMoves, ShutdownMoves, LaunchLeft, StopLeft, closing, TypeOK, registry,
        app, LauncherAt, SetState, ACTIVE_STATES
<1>1. ASSUME NEW s \in Sessions, Reserve(s) PROVE GoesOn(r)
  BY <1>1 DEF Reserve, KnownAreLive, HISTORY_STATES
<1>2. ASSUME NEW s \in Sessions, CreateBegin(s) PROVE GoesOn(r)
  BY <1>2 DEF CreateBegin
<1>3. ASSUME NEW s \in Sessions, CreateEnd(s) PROVE GoesOn(r)
  BY <1>3 DEF CreateEnd, UnitStarted
<1>4. ASSUME NEW s \in Sessions, Poll(s) PROVE GoesOn(r)
  BY <1>4 DEF Poll
<1>5. ASSUME NEW s \in Sessions, Deadline(s) PROVE GoesOn(r)
  BY <1>5 DEF Deadline
<1>6. ASSUME NEW s \in Sessions, Inspect(s) PROVE GoesOn(r)
  BY <1>6 DEF Inspect
<1>7. ASSUME NEW s \in Sessions, Decide(s) PROVE GoesOn(r)
  BY <1>7 DEF Decide
<1>8. ASSUME NEW s \in Sessions, FailBegin(s) PROVE GoesOn(r)
  BY <1>8 DEF FailBegin
<1>9. ASSUME NEW s \in Sessions, FailEnd(s) PROVE GoesOn(r)
  BY <1>9 DEF FailEnd, CleanupEnd, UnitGone
<1>10. ASSUME NEW s \in Sessions, Cancel(s) PROVE GoesOn(r)
  BY <1>10 DEF Cancel, UnitStarted, UnitGone
<1>11. ASSUME NEW s \in Sessions, LauncherStopBegin(s) PROVE GoesOn(r)
  BY <1>11 DEF LauncherStopBegin, StopBegin
<1>12. ASSUME NEW s \in Sessions, LauncherStopEnd(s) PROVE GoesOn(r)
  BY <1>12 DEF LauncherStopEnd, StopEnd, CleanupEnd, UnitGone
<1> QED
  BY <1>1, <1>2, <1>3, <1>4, <1>5, <1>6, <1>7, <1>8, <1>9, <1>10, <1>11, <1>12
     DEF Launches, Launcher

\* A stop, a session stopped by the shutdown, and the end of a unit.
LEMMA StopsGoOn ==
    TypeOK /\ (Stops \/ \E s \in Sessions : UnitExit(s)) => \A r \in Sessions : GoesOn(r)
<1> SUFFICES ASSUME TypeOK, Stops \/ \E s \in Sessions : UnitExit(s), NEW r \in Sessions
             PROVE  GoesOn(r)
  OBVIOUS
<1> USE DEF GoesOn, LaunchMoves, ShutdownMoves, LaunchLeft, StopLeft, closing, TypeOK, registry,
        app, LauncherAt, SetState, ACTIVE_STATES
<1>1. ASSUME NEW s \in Sessions, Stop(s) PROVE GoesOn(r)
  BY <1>1 DEF Stop
<1>2. ASSUME NEW s \in Sessions, StopperBegin(s) PROVE GoesOn(r)
  BY <1>2 DEF StopperBegin, StopBegin, AfterBegin
<1>3. ASSUME NEW s \in Sessions, StopperEnd(s) PROVE GoesOn(r)
  BY <1>3 DEF StopperEnd, StopEnd, CleanupEnd, UnitGone
<1>4. ASSUME NEW s \in Sessions, CloserBegin(s) PROVE GoesOn(r)
  BY <1>4 DEF CloserBegin, StopBegin, AfterBegin
<1>5. ASSUME NEW s \in Sessions, CloserEnd(s) PROVE GoesOn(r)
  BY <1>5 DEF CloserEnd, StopEnd, CleanupEnd, UnitGone
<1>6. ASSUME NEW s \in Sessions, UnitExit(s) PROVE GoesOn(r)
  BY <1>6 DEF UnitExit
<1> QED
  BY <1>1, <1>2, <1>3, <1>4, <1>5, <1>6 DEF Stops, Stopper

\* The monitor and the deletions.
LEMMA RestGoesOn == TypeOK /\ (Monitor \/ History) => \A r \in Sessions : GoesOn(r)
<1> SUFFICES ASSUME TypeOK, Monitor \/ History, NEW r \in Sessions PROVE GoesOn(r)
  OBVIOUS
<1>1. launcher' = launcher /\ closer' = closer /\ unit' = unit
  BY DEF Monitor, MonitorRound, MonitorVisit, MonitorInspect, MonitorFail, History,
         DeleteHistory
<1>2. state'[r] \in ACTIVE_STATES => state'[r] = state[r]
  BY DEF Monitor, MonitorRound, MonitorVisit, MonitorInspect, MonitorFail, History,
         DeleteHistory, SetState, TypeOK, ACTIVE_STATES
<1>3. QED
  BY <1>1, <1>2, OthersGoOn

\* Every step.
LEMMA StepGoesOn == TypeOK /\ KnownAreLive /\ [Next]_vars => \A r \in Sessions : GoesOn(r)
<1> SUFFICES ASSUME TypeOK, KnownAreLive, [Next]_vars PROVE \A r \in Sessions : GoesOn(r)
  OBVIOUS
<1>1. CASE Next
  BY <1>1, ApplicationGoesOn, LaunchesGoOn, StopsGoOn, RestGoesOn DEF Next
<1>2. CASE UNCHANGED vars
  BY <1>2, OthersGoOn DEF vars
<1>3. QED
  BY <1>1, <1>2

\* A launch repeats nothing but its polling.
THEOREM LaunchesProgress == Spec => LaunchesGoForward
<1>1. TypeOK /\ KnownAreLive /\ [Next]_vars => [\A r \in Sessions : LaunchMoves(r)]_vars
  BY StepGoesOn DEF GoesOn
<1>2. PromiseInv => KnownAreLive
  BY DEF PromiseInv
<1>3. QED
  BY <1>1, <1>2, TypeCorrect, PromiseInvariance, PTL DEF Spec, LaunchesGoForward

\* A shutdown gets no new work.
THEOREM ShutdownProgresses == Spec => ShutdownGoesForward
<1>1. TypeOK /\ KnownAreLive /\ [Next]_vars => [\A r \in Sessions : ShutdownMoves(r)]_vars
  BY StepGoesOn DEF GoesOn
<1>2. PromiseInv => KnownAreLive
  BY DEF PromiseInv
<1>3. QED
  BY <1>1, <1>2, TypeCorrect, PromiseInvariance, PTL DEF Spec, ShutdownGoesForward

-----------------------------------------------------------------------------
(* What the promises are worth                                             *)

\* The sessions that run or may begin to have different ports, and those that are
\* shown as active have different keys.
PortsAndKeysDiffer ==
    \A s, r \in Sessions :
        /\ {s, r} \subseteq Runs \cup {q \in Sessions : Shown[q] = "STARTING"}
           /\ port[s] = port[r] => s = r
        /\ {Shown[s], Shown[r]} \subseteq ACTIVE_STATES /\ key[s] = key[r] => s = r

\* The functions that BoardPromises is about.
BoardFunctions ==
    /\ key \in [Sessions -> Keys \cup {NoKey}]
    /\ port \in [Sessions -> Ports \cup {NoPort}]

\* Every step that BoardPromises allows keeps this, whatever takes it.
LEMMA PortsAndKeysStep ==
    ASSUME BoardFunctions, PortsAndKeysDiffer, [Promises!Next]_(Promises!vars)
    PROVE  BoardFunctions' /\ PortsAndKeysDiffer'
<1>s. Shown = [s \in Sessions |-> Shown[s]] /\ Runs \subseteq Sessions
  BY DEF Shown, Runs
<1> USE DEF BoardFunctions, PortsAndKeysDiffer, Promises!Move, Promises!Active,
        Promises!Ended, ACTIVE_STATES
<1>1. ASSUME NEW q \in Sessions, NEW k \in Keys, NEW p \in Ports, Promises!Reserve(q, k, p)
      PROVE  BoardFunctions' /\ PortsAndKeysDiffer'
  BY <1>1, <1>s DEF Promises!Reserve
<1>2. ASSUME NEW q \in Sessions, Promises!Start(q) PROVE BoardFunctions' /\ PortsAndKeysDiffer'
  BY <1>2, <1>s DEF Promises!Start
<1>3. ASSUME NEW q \in Sessions, Promises!Ready(q) PROVE BoardFunctions' /\ PortsAndKeysDiffer'
  BY <1>3, <1>s DEF Promises!Ready
<1>4. ASSUME NEW q \in Sessions,
             \/ Promises!Withdraw(q) \/ Promises!GiveUp(q) \/ Promises!Notice(q)
             \/ Promises!Confirm(q)
      PROVE  BoardFunctions' /\ PortsAndKeysDiffer'
  BY <1>4, <1>s
     DEF Promises!Withdraw, Promises!GiveUp, Promises!Notice, Promises!Confirm
<1>5. ASSUME NEW q \in Sessions, Promises!Exit(q) \/ Promises!Mark(q)
      PROVE  BoardFunctions' /\ PortsAndKeysDiffer'
  BY <1>5, <1>s DEF Promises!Exit, Promises!Mark
<1>6. ASSUME NEW S \in SUBSET Sessions, Promises!Delete(S) \/ Promises!Purge(S)
      PROVE  BoardFunctions' /\ PortsAndKeysDiffer'
  BY <1>6, <1>s DEF Promises!Delete, Promises!Purge
<1>7. CASE Promises!Halt
  BY <1>7, <1>s DEF Promises!Halt
<1>8. CASE UNCHANGED Promises!vars
  BY <1>8 DEF Promises!vars
<1>9. QED
  BY <1>1, <1>2, <1>3, <1>4, <1>5, <1>6, <1>7, <1>8 DEF Promises!Next

\* BoardPromises is enough for its users: whatever implements it gives running
\* TensorBoards ports of their own, and one active session per key.
THEOREM PromisesSuffice ==
    RefinesPromises => [](PortsExclusive /\ (sessions \subseteq Sessions => KeysExclusive))
<1>1. Promises!Init => BoardFunctions /\ PortsAndKeysDiffer
  BY DEF Promises!Init, BoardFunctions, PortsAndKeysDiffer, ACTIVE_STATES
<1>2. BoardFunctions /\ PortsAndKeysDiffer /\ [Promises!Next]_(Promises!vars) =>
        BoardFunctions' /\ PortsAndKeysDiffer'
  BY PortsAndKeysStep
<1>3. PortsAndKeysDiffer =>
        PortsExclusive /\ (sessions \subseteq Sessions => KeysExclusive)
  BY DEF PortsAndKeysDiffer, PortsExclusive, KeysExclusive, Runs, Shown, ACTIVE_STATES,
         HISTORY_STATES
<1>4. QED
  BY <1>1, <1>2, <1>3, PTL DEF RefinesPromises, Promises!Spec
=============================================================================
