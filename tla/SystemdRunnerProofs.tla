------------------------ MODULE SystemdRunnerProofs ------------------------
(***************************************************************************)
(* Proofs about SystemdRunner, for any kinds and any number of faults: the *)
(* types, that an answer that is not guessed lasts until the next          *)
(* operation, that the sequences of commands implement UnitPromises, and   *)
(* that only a systemctl show that prints nothing leads to a guess.        *)
(***************************************************************************)
EXTENDS SystemdRunner, TLAPS

\* While an operation is under way, nothing has been said.
SilentUnderWay == ~Idle => says = "nothing"

IInv == TypeOK /\ SilentUnderWay /\ AnswerLasts

-----------------------------------------------------------------------------
(* Facts about the helpers.                                                *)

\* What systemd does for a request leaves the unit in a state it can have.
LEMMA EffectTypes ==
    ASSUME NEW v, NEW u \in Units
    PROVE Effect(v, u) \in Units
BY DEF Effect, Units, Live

\* Only systemd-run starts a unit, and only if there is none.
LEMMA EffectStarts ==
    ASSUME NEW v, NEW u \in Units
    PROVE /\ v # "run" => Effect(v, u) \notin Live \/ Effect(v, u) = u
          /\ v # "run" /\ u = "none" => Effect(v, u) = "none"
          /\ v = "run" /\ u # "none" => Effect(v, u) = u
          /\ v = "run" /\ u = "none" => Effect(v, u) = "activating"
BY DEF Effect, Units, Live

\* Questions change nothing.
LEMMA EffectOfProbes ==
    ASSUME NEW v \in Probes, NEW u \in Units
    PROVE Effect(v, u) = u
BY DEF Effect, Units, Live, Probes

\* The command after another one is a command, and never systemd-run.
LEMMA FollowsTypes ==
    ASSUME NEW v
    PROVE Follows(v) \in Verbs \ {"run"}
BY DEF Follows, Verbs, Probes

\* An operation starts with a command.
LEMMA FirstTypes ==
    ASSUME NEW o \in Operations
    PROVE First(o) \in Verbs
BY DEF First, Operations, Launches, Verbs, Probes

\* The requests that are left behind are no questions.
LEMMA LeftTypes ==
    ASSUME TypeOK, ~Idle
    PROVE Left \subseteq Verbs \ Probes
BY DEF TypeOK, Left, Idle, Verbs

\* The status that is reported is the one of the unit.
LEMMA SeenTypes ==
    ASSUME NEW u \in Units
    PROVE /\ Seen(u) \in {"missing", "running", "finished"}
          /\ Seen(u) = "missing" => u = "none"
          /\ Seen(u) = "running" => u \in Live
          /\ Seen(u) = "finished" => u \notin Live \cup {"none"}
BY DEF Seen, Units, Live

\* A fault keeps the number of faults in its bound.
LEMMA FaultsBounded ==
    ASSUME TypeOK, NEW kind, Fault(kind)
    PROVE faults' \in 0..MaxFaults
BY ConstantsAssumption DEF TypeOK, Fault

\* What Next changes of the operation under way is one of these.
CallTypes ==
    /\ op' \in Operations
    /\ verb' \in Verbs \cup {"none"}
    /\ at' \in {"sent", "job"}
    /\ says' \in {"nothing", "unavailable", "error", "raised", "cancelled",
                  "missing", "running", "finished", "done"}

\* The next command is issued.
LEMMA IssueTypes ==
    ASSUME TypeOK, NEW v \in Verbs, Issue(v)
    PROVE CallTypes
BY DEF TypeOK, Issue, CallTypes

\* The operation ends.
LEMMA EndTypes ==
    ASSUME TypeOK, NEW what \in {"unavailable", "error", "raised", "cancelled",
                                 "missing", "running", "finished", "done"}, End(what)
    PROVE CallTypes
BY DEF TypeOK, End, CallTypes

\* A launch was refused.
LEMMA NotLaunchedTypes ==
    ASSUME TypeOK, NotLaunched
    PROVE CallTypes
BY IssueTypes, EndTypes DEF NotLaunched, Verbs, Probes

\* The inspection ends the operation, whatever it is taken to show.
LEMMA ReportTypes ==
    ASSUME TypeOK, NEW u \in Units, Report(u)
    PROVE CallTypes
BY EndTypes, SeenTypes DEF Report

\* The client has given up.
LEMMA ExpiredTypes ==
    ASSUME TypeOK, Expired
    PROVE CallTypes
BY EndTypes DEF Expired

-----------------------------------------------------------------------------
(* Types                                                                   *)

\* Initially every variable has its type.
LEMMA TypeInit == Init => TypeOK
<1> SUFFICES ASSUME Init PROVE TypeOK
  OBVIOUS
<1>1. "none" \in Units /\ "inspect" \in Operations
  BY DEF Units, Live, Operations, Launches
<1>2. faults \in 0..MaxFaults
  BY ConstantsAssumption DEF Init
<1>3. QED
  BY <1>1, <1>2 DEF Init, TypeOK

\* Every step keeps the types.
LEMMA TypeStep == TypeOK /\ [Next]_vars => TypeOK'
<1> SUFFICES ASSUME TypeOK, [Next]_vars PROVE TypeOK'
  OBVIOUS
<1>1. ASSUME NEW o \in Operations, Call(o) PROVE TypeOK'
  BY <1>1, FirstTypes DEF TypeOK, Call
<1>2. CASE Handle
  <2>1. unit \in Units
    BY DEF TypeOK
  <2>2. CallTypes
    BY <1>2, <2>1, IssueTypes, EndTypes, NotLaunchedTypes, ReportTypes, FollowsTypes
       DEF Handle, CallTypes, TypeOK, Verbs, Probes
  <2>3. QED
    BY <1>2, <2>2, EffectTypes DEF Handle, CallTypes, TypeOK
<1>3. ASSUME NEW v \in Verbs, HandleLate(v) PROVE TypeOK'
  BY <1>3, EffectTypes DEF HandleLate, TypeOK, call
<1>4. CASE Started
  <2>1. CallTypes
    BY <1>4, IssueTypes, NotLaunchedTypes
       DEF Started, JobEnds, Launched, CallTypes, TypeOK, call, Verbs, Probes
  <2>2. QED
    BY <1>4, <2>1 DEF Started, CallTypes, TypeOK, Units, Live
<1>5. CASE Exit
  BY <1>5 DEF Exit, TypeOK, call, Units, Live
<1>6. CASE Stopped
  <2>1. CallTypes
    BY <1>6, IssueTypes, FollowsTypes DEF Stopped, JobEnds, CallTypes, TypeOK, call
  <2>2. QED
    BY <1>6, <2>1 DEF Stopped, CallTypes, TypeOK, Units, Live
<1>7. CASE Refused
  <2>1. CallTypes
    BY <1>7, IssueTypes, EndTypes, NotLaunchedTypes, FollowsTypes
       DEF Refused, NotShown, Verbs, Probes
  <2>2. late' \subseteq Verbs \ Probes /\ faults' \in 0..MaxFaults
    BY <1>7, LeftTypes, FaultsBounded DEF Refused, TypeOK
  <2>3. QED
    BY <1>7, <2>1, <2>2 DEF Refused, CallTypes, TypeOK
<1>8. CASE Expire
  BY <1>8, LeftTypes, ExpiredTypes DEF Expire, CallTypes, TypeOK
<1>9. CASE NotSpawned
  BY <1>9, FaultsBounded, ExpiredTypes DEF NotSpawned, CallTypes, TypeOK
<1>10. CASE Cancel
  BY <1>10, FaultsBounded, LeftTypes, EndTypes DEF Cancel, CallTypes, TypeOK
<1>11. CASE Hang \/ Recover
  BY <1>11, FaultsBounded DEF Hang, Recover, TypeOK, call
<1>12. CASE ShowsNothing
  <2>1. "none" \in Units
    BY DEF Units
  <2>2. CallTypes
    BY <1>12, <2>1, ReportTypes DEF ShowsNothing
  <2>3. QED
    BY <1>12, <2>2, FaultsBounded DEF ShowsNothing, CallTypes, TypeOK
<1>13. CASE UNCHANGED vars
  BY <1>13 DEF vars, TypeOK
<1>14. QED
  BY <1>1, <1>2, <1>3, <1>4, <1>5, <1>6, <1>7, <1>8, <1>9, <1>10, <1>11, <1>12, <1>13
     DEF Next

\* Every variable keeps its type, whatever fails.
THEOREM TypeCorrect == Spec => []TypeOK
BY TypeInit, TypeStep, PTL DEF Spec

-----------------------------------------------------------------------------
(* Answers last                                                            *)

\* Initially nothing was said.
LEMMA InvInit == Init => IInv
BY TypeInit DEF Init, IInv, SilentUnderWay, AnswerLasts, SaidIsTrue, Idle

\* An operation that goes on, or fails, has said nothing of the unit.
LEMMA SaidNothing ==
    ASSUME says' \notin {"missing", "running", "finished", "done"}
    PROVE AnswerLasts'
BY DEF AnswerLasts, SaidIsTrue

\* Every step keeps the invariant.
LEMMA InvStep == IInv /\ [Next]_vars => IInv'
<1> SUFFICES ASSUME IInv, [Next]_vars PROVE SilentUnderWay' /\ AnswerLasts'
  BY TypeStep DEF IInv
<1>t. TypeOK
  BY DEF IInv
<1>u. unit \in Units
  BY <1>t DEF TypeOK
<1>q. ~Idle => says = "nothing"
  BY DEF IInv, SilentUnderWay
<1>1. ASSUME NEW o \in Operations, Call(o) PROVE SilentUnderWay' /\ AnswerLasts'
  BY <1>1 DEF Call, SilentUnderWay, AnswerLasts, SaidIsTrue
<1>2. CASE Handle
  <2>1. CASE verb = "show"
    <3>1. unit' = unit /\ late' = {} /\ Report(unit)
      BY <1>2, <2>1, <1>u, EffectOfProbes DEF Handle, Probes
    <3>2. CASE op \in Launches \cup {"inspect"}
      BY <3>1, <3>2, <1>u, SeenTypes
         DEF Report, End, SilentUnderWay, AnswerLasts, SaidIsTrue, Idle
    <3>3. CASE op \notin Launches \cup {"inspect"}
      <4>1. verb' = "none" /\ says' = IF unit \in Live THEN "error" ELSE "done"
        BY <3>1, <3>3 DEF Report, End
      <4>2. QED
        BY <3>1, <4>1 DEF SilentUnderWay, AnswerLasts, SaidIsTrue, Idle
    <3>4. QED
      BY <3>2, <3>3
  <2>2. CASE verb = "list"
    <3>1. unit' = unit /\ late' = {}
      BY <1>2, <2>2, <1>u, EffectOfProbes DEF Handle, Probes
    <3>2. IF unit = "none" THEN End("done") ELSE Issue("version")
      BY <1>2, <2>2 DEF Handle
    <3>3. QED
      BY <3>1, <3>2, <1>2, <1>q
         DEF Handle, Issue, End, SilentUnderWay, AnswerLasts, SaidIsTrue, Idle, Live
  <2>3. CASE verb \notin {"show", "list"}
    <3>1. says' \in {"nothing", "error"} /\ SilentUnderWay'
      BY <1>2, <2>3, <1>q
         DEF Handle, NotLaunched, Issue, End, SilentUnderWay, Idle
    <3>2. QED
      BY <3>1, SaidNothing
  <2>4. QED
    BY <2>1, <2>2, <2>3
<1>3. ASSUME NEW v \in Verbs, HandleLate(v) PROVE SilentUnderWay' /\ AnswerLasts'
  <2>1. SilentUnderWay'
    BY <1>3 DEF HandleLate, call, IInv, SilentUnderWay, Idle
  <2>2. AnswerLasts'
    BY <1>3, <1>u, EffectStarts DEF HandleLate, call, IInv, AnswerLasts, SaidIsTrue
  <2>3. QED
    BY <2>1, <2>2
<1>4. CASE Started
  <2>1. unit \in Live /\ unit # "none" /\ late' = late
    BY <1>4 DEF Started, Live
  <2>2. guessed' = guessed /\ (~guessed => says \notin {"missing", "done"})
    BY <1>4, <2>1 DEF Started, IInv, AnswerLasts, SaidIsTrue
  <2>3. says' \in {says, "error"} /\ SilentUnderWay'
    BY <1>4, <1>q
       DEF Started, JobEnds, Launched, NotLaunched, Issue, End, call, SilentUnderWay, Idle
  <2>4. QED
    BY <2>2, <2>3 DEF AnswerLasts, SaidIsTrue
<1>5. CASE Exit
  BY <1>5 DEF Exit, call, IInv, SilentUnderWay, AnswerLasts, SaidIsTrue, Idle, Live
<1>6. CASE Stopped
  <2>1. says' = says /\ SilentUnderWay'
    BY <1>6, <1>q DEF Stopped, JobEnds, Issue, call, SilentUnderWay, Idle
  <2>2. QED
    BY <1>6, <2>1 DEF Stopped, IInv, AnswerLasts, SaidIsTrue, Live
<1>7. CASE Refused
  <2>1. says' \in {"nothing", "error", "unavailable"} /\ SilentUnderWay'
    BY <1>7, <1>q
       DEF Refused, NotLaunched, NotShown, Issue, End, SilentUnderWay, Idle
  <2>2. QED
    BY <2>1, SaidNothing
<1>8. CASE Expire \/ NotSpawned \/ Cancel
  <2>1. says' \in {"raised", "unavailable", "cancelled"} /\ verb' = "none"
    BY <1>8 DEF Expire, NotSpawned, Cancel, Expired, End
  <2>2. QED
    BY <2>1, SaidNothing DEF SilentUnderWay, Idle
<1>9. CASE ShowsNothing
  <2>1. verb' = "none" /\ guessed'
    BY <1>9 DEF ShowsNothing, Report, End
  <2>2. QED
    BY <2>1 DEF SilentUnderWay, AnswerLasts, Idle
<1>10. CASE Hang \/ Recover \/ UNCHANGED vars
  BY <1>10 DEF Hang, Recover, vars, call, IInv, SilentUnderWay, AnswerLasts, SaidIsTrue, Idle
<1>11. QED
  BY <1>1, <1>2, <1>3, <1>4, <1>5, <1>6, <1>7, <1>8, <1>9, <1>10 DEF Next

\* The inductive invariant holds.
THEOREM Invariance == Spec => []IInv
BY InvInit, InvStep, PTL DEF Spec

\* A unit that was reported missing does not appear, and one that was stopped or
\* cleaned up does not run, until the next operation: whatever fails or hangs, only
\* an answer that was guessed can be wrong.
THEOREM AnswersLast == Spec => []AnswerLasts
<1>1. IInv => AnswerLasts
  BY DEF IInv
<1>2. QED
  BY <1>1, Invariance, PTL

-----------------------------------------------------------------------------
(* The refinement                                                          *)

\* The unit as UnitPromises sees it, and whether a launch may still take effect.
UnitState == CASE unit = "none" -> "none" [] unit \in Live -> "live" [] OTHER -> "over"
LaunchMay == "run" \in late \/ (verb = "run" /\ at = "sent")

\* What the steps of UnitPromises are in terms of the two.
PAsk == says' = "nothing" /\ ~guessed' /\ LaunchMay' \in {LaunchMay, TRUE} /\ UNCHANGED UnitState
PMoves == UnitState' \in IF UnitState = "none" THEN {"none"} ELSE {UnitState, "over", "none"}
PFail == /\ says = "nothing" /\ says' \in {"unavailable", "error", "raised", "cancelled"}
         /\ PMoves /\ LaunchMay' \in {LaunchMay, FALSE} /\ UNCHANGED guessed
PTell == /\ says = "nothing" /\ ~LaunchMay
         /\ says' \in {"missing", "running", "finished", "done"}
         /\ says' = "missing" => UnitState = "none"
         /\ says' = "running" => UnitState = "live"
         /\ says' = "finished" => UnitState = "over"
         /\ says' = "done" => UnitState # "live"
         /\ UNCHANGED <<UnitState, LaunchMay, guessed>>
PGuess == /\ says = "nothing" /\ says' \in {"missing", "done"} /\ guessed'
          /\ UNCHANGED <<UnitState, LaunchMay>>
PStart == /\ LaunchMay /\ UnitState = "none" /\ UnitState' = "live"
          /\ LaunchMay' \in BOOLEAN /\ UNCHANGED <<says, guessed>>
PMove == PMoves /\ LaunchMay' \in {LaunchMay, FALSE} /\ UNCHANGED <<says, guessed>>
PStep == PAsk \/ PFail \/ PTell \/ PGuess \/ PStart \/ PMove

\* These are the steps of UnitPromises under the refinement mapping.
LEMMA StepsAreMapped == PStep => Promises!Next
<1> SUFFICES ASSUME PStep PROVE Promises!Next
  OBVIOUS
<1>1. CASE PAsk
  BY <1>1 DEF PAsk, UnitState, LaunchMay, Promises!Next, Promises!Ask
<1>2. CASE PFail
  BY <1>2 DEF PFail, PMoves, UnitState, LaunchMay, Promises!Next, Promises!Fail,
              Promises!Moves, Promises!Failures
<1>3. CASE PTell
  BY <1>3 DEF PTell, UnitState, LaunchMay, Promises!Next, Promises!Tell,
              Promises!Promise, Promises!Answers, Promises!Failures
<1>4. CASE PStart
  BY <1>4 DEF PStart, UnitState, LaunchMay, Promises!Next, Promises!Start
<1>5. CASE PMove
  BY <1>5 DEF PMove, PMoves, UnitState, LaunchMay, Promises!Next, Promises!Move,
              Promises!Moves
<1>6. CASE PGuess
  BY <1>6 DEF PGuess, UnitState, LaunchMay, Promises!Next, Promises!Guess
<1>7. QED
  BY <1>1, <1>2, <1>3, <1>4, <1>5, <1>6 DEF PStep

\* What UnitPromises sees of a unit that does not change.
LEMMA UnitStays ==
    ASSUME unit' = unit
    PROVE UnitState' = UnitState /\ PMoves
<1>1. UnitState' = UnitState
  BY DEF UnitState
<1>2. UnitState = "none" => UnitState' \in {"none"}
  BY <1>1
<1>3. UnitState' \in {UnitState, "over", "none"}
  BY <1>1
<1>4. QED
  BY <1>1, <1>2, <1>3 DEF PMoves

\* What it sees of each kind of unit.
LEMMA UnitStateOf ==
    ASSUME unit \in Units
    PROVE /\ UnitState = "none" <=> unit = "none"
          /\ UnitState = "live" <=> unit \in Live
          /\ UnitState = "over" <=> unit \notin Live \cup {"none"}
BY DEF UnitState, Units, Live

\* Initial states are mapped to initial states.
LEMMA InitIsMapped == Init => Promises!Init
BY DEF Init, Promises!Init, Live

\* Every step is mapped to a step or to none.
LEMMA StepIsMapped == IInv /\ [Next]_vars => [Promises!Next]_(Promises!vars)
<1> SUFFICES ASSUME IInv, [Next]_vars PROVE PStep
  BY StepsAreMapped
<1>t. TypeOK /\ unit \in Units
  BY DEF IInv, TypeOK
<1>q. ~Idle => says = "nothing"
  BY DEF IInv, SilentUnderWay
<1>1. ASSUME NEW o \in Operations, Call(o) PROVE PAsk
  BY <1>1 DEF Call, PAsk, UnitState, LaunchMay, Idle
<1>2. CASE Handle
  <2>0. ~Idle /\ at = "sent" /\ late = {} /\ late' = {} /\ unit' = Effect(verb, unit)
        /\ says = "nothing" /\ verb # "none" /\ guessed' = guessed
    BY <1>2, <1>q DEF Handle, Idle
  <2>1. CASE verb = "run" /\ unit = "none"
    <3>1. unit' = "activating" /\ says' = "nothing"
      BY <1>2, <2>0, <2>1, <1>t, EffectStarts DEF Handle
    <3>2. QED
      BY <2>0, <2>1, <3>1 DEF PStep, PStart, UnitState, LaunchMay, Live
  <2>2. CASE verb = "run" /\ unit # "none"
    <3>1. unit' = unit /\ NotLaunched
      BY <1>2, <2>0, <2>2, <1>t, EffectStarts DEF Handle
    <3>2. ~LaunchMay' /\ says' \in {"nothing", "error"}
      BY <3>1, <2>0 DEF NotLaunched, Issue, End, LaunchMay
    <3>3. QED
      <4>1. LaunchMay' \in {LaunchMay, FALSE}
        BY <3>2 DEF LaunchMay
      <4>2. QED
        BY <2>0, <3>1, <3>2, <4>1, UnitStays DEF PStep, PFail, PMove
  <2>3. CASE verb = "show"
    <3>1. unit' = unit /\ Report(unit) /\ ~LaunchMay
      BY <1>2, <2>0, <2>3, <1>t, EffectOfProbes DEF Handle, Probes, LaunchMay
    <3>2. ~LaunchMay' /\ UnitState' = UnitState
      BY <3>1, <2>0 DEF Report, End, LaunchMay, UnitState
    <3>3. CASE op \in Launches \cup {"inspect"}
      <4>1. says' = Seen(unit)
        BY <3>1, <3>3 DEF Report, End
      <4>2. PTell
        BY <4>1, <3>1, <3>2, <2>0, <1>t, SeenTypes, UnitStateOf DEF PTell, LaunchMay
      <4>3. QED
        BY <4>2 DEF PStep
    <3>4. CASE op \notin Launches \cup {"inspect"}
      <4>1. says' = IF unit \in Live THEN "error" ELSE "done"
        BY <3>1, <3>4 DEF Report, End
      <4>2. QED
        BY <4>1, <3>1, <3>2, <2>0, <1>t, UnitStateOf, UnitStays
           DEF PStep, PTell, PFail, LaunchMay
    <3>5. QED
      BY <3>3, <3>4
  <2>4. CASE verb \in {"check", "list"}
    <3>1. unit' = unit /\ ~LaunchMay
      BY <2>0, <2>4, <1>t, EffectOfProbes DEF Probes, LaunchMay
    <3>2. says' \in {"nothing", "error"} \/ (says' = "done" /\ unit = "none")
      BY <1>2, <2>0, <2>4 DEF Handle, Issue, End
    <3>3. ~LaunchMay'
      BY <1>2, <2>0, <2>4 DEF Handle, Issue, End, LaunchMay
    <3>4. QED
      BY <2>0, <3>1, <3>2, <3>3, <1>t, UnitStateOf, UnitStays
         DEF PStep, PTell, PFail, PMove, LaunchMay
  <2>5. CASE verb \notin {"run", "show", "check", "list"}
    <3>1. unit' \notin Live \/ unit' = unit
      BY <2>0, <2>5, <1>t, EffectStarts
    <3>2. unit = "none" => unit' = "none"
      BY <2>0, <2>5, <1>t, EffectStarts
    <3>3. says' = "nothing" /\ ~LaunchMay /\ ~LaunchMay'
      BY <1>2, <2>0, <2>5, FollowsTypes DEF Handle, Issue, LaunchMay
    <3>4. PMoves
      BY <3>1, <3>2, UnitStays DEF PMoves, UnitState, Live
    <3>5. QED
      BY <2>0, <3>3, <3>4 DEF PStep, PMove, LaunchMay
  <2>6. QED
    BY <2>1, <2>2, <2>3, <2>4, <2>5
<1>3. ASSUME NEW v \in Verbs, HandleLate(v) PROVE PStep
  <2>1. v \in late /\ late' = late \ {v} /\ unit' = Effect(v, unit)
        /\ says' = says /\ verb' = verb /\ at' = at /\ guessed' = guessed
    BY <1>3 DEF HandleLate, call
  <2>2. CASE v = "run" /\ unit = "none"
    BY <2>1, <2>2, <1>t, EffectStarts DEF PStep, PStart, UnitState, LaunchMay, Live
  <2>3. CASE v = "run" /\ unit # "none"
    <3>1. unit' = unit
      BY <2>1, <2>3, <1>t, EffectStarts
    <3>2. LaunchMay' \in {LaunchMay, FALSE}
      BY <2>1, <2>3 DEF LaunchMay
    <3>3. QED
      BY <2>1, <3>1, <3>2, UnitStays DEF PStep, PMove
  <2>4. CASE v # "run"
    <3>1. unit' \notin Live \/ unit' = unit
      BY <2>1, <2>4, <1>t, EffectStarts
    <3>2. unit = "none" => unit' = "none"
      BY <2>1, <2>4, <1>t, EffectStarts
    <3>3. LaunchMay' = LaunchMay
      BY <2>1, <2>4 DEF LaunchMay
    <3>4. QED
      BY <2>1, <3>1, <3>2, <3>3 DEF PStep, PMove, PMoves, UnitState, Live
  <2>5. QED
    BY <2>2, <2>3, <2>4
<1>4. CASE Started
  <2>1. unit = "activating" /\ unit' \in {"running", "failed"} /\ late' = late
        /\ guessed' = guessed
    BY <1>4 DEF Started
  <2>2. LaunchMay' = LaunchMay
    BY <1>4 DEF Started, JobEnds, Launched, NotLaunched, Issue, End, call, LaunchMay
  <2>3. says' = says \/ (says = "nothing" /\ says' = "error")
    BY <1>4, <1>q DEF Started, JobEnds, Launched, NotLaunched, Issue, End, call, Idle
  <2>4. QED
    BY <2>1, <2>2, <2>3 DEF PStep, PMove, PFail, PMoves, UnitState, Live
<1>5. CASE Exit
  BY <1>5 DEF Exit, call, PStep, PMove, PMoves, UnitState, LaunchMay, Live
<1>6. CASE Stopped
  <2>1. LaunchMay' = LaunchMay /\ says' = says /\ guessed' = guessed
    BY <1>6, FollowsTypes DEF Stopped, JobEnds, Issue, call, LaunchMay
  <2>2. QED
    BY <1>6, <2>1 DEF Stopped, PStep, PMove, PMoves, UnitState, Live
<1>7. CASE Refused
  <2>1. says = "nothing" /\ says' \in {"nothing", "error", "unavailable"}
        /\ guessed' = guessed
    BY <1>7, <1>q DEF Refused, NotLaunched, NotShown, Issue, End, Idle
  <2>2. unit' = unit /\ ("run" \in late' => LaunchMay) /\ ("run" \in late => "run" \in late')
    BY <1>7 DEF Refused, Left, LaunchMay
  <2>3. verb' # "run"
    BY <1>7, FollowsTypes DEF Refused, NotLaunched, NotShown, Issue, End
  <2>4. LaunchMay' \in {LaunchMay, FALSE}
    BY <2>2, <2>3 DEF LaunchMay
  <2>5. QED
    BY <2>1, <2>2, <2>4, UnitStays DEF PStep, PMove, PFail
<1>8. CASE Expire \/ NotSpawned \/ Cancel
  <2>1. says = "nothing" /\ says' \in {"unavailable", "raised", "cancelled"}
        /\ guessed' = guessed
    BY <1>8, <1>q DEF Expire, NotSpawned, Cancel, Expired, End
  <2>2. unit' = unit /\ ("run" \in late' => LaunchMay) /\ verb' = "none"
    BY <1>8 DEF Expire, NotSpawned, Cancel, Expired, End, Left, LaunchMay
  <2>3. LaunchMay' \in {LaunchMay, FALSE}
    BY <2>2 DEF LaunchMay
  <2>4. QED
    BY <2>1, <2>2, <2>3, UnitStays DEF PStep, PFail
<1>9. CASE ShowsNothing
  <2>1. says = "nothing" /\ says' \in {"missing", "done"} /\ guessed'
    BY <1>9, <1>q DEF ShowsNothing, Report, Seen, End, Live, Idle
  <2>2. unit' = unit /\ late' = late /\ verb = "show" /\ verb' = "none"
    BY <1>9 DEF ShowsNothing, Report, End
  <2>3. UnitState' = UnitState /\ LaunchMay' = LaunchMay
    BY <2>2 DEF UnitState, LaunchMay
  <2>4. QED
    BY <2>1, <2>3 DEF PStep, PGuess
<1>10. CASE Hang \/ Recover \/ UNCHANGED vars
  <2>1. unit' = unit /\ says' = says /\ LaunchMay' = LaunchMay /\ guessed' = guessed
    BY <1>10 DEF Hang, Recover, vars, call, LaunchMay
  <2>2. QED
    BY <2>1, UnitStays DEF PStep, PMove
<1>11. QED
  BY <1>1, <1>2, <1>3, <1>4, <1>5, <1>6, <1>7, <1>8, <1>9, <1>10 DEF Next, PStep

\* The sequences of commands keep what the callers build on, and the only answers
\* they guess are "missing" and the return of stop() and cleanup().
THEOREM RunnerKeepsPromises == Spec => RefinesPromises
BY InitIsMapped, StepIsMapped, Invariance, PTL DEF Spec, RefinesPromises, Promises!Spec

-----------------------------------------------------------------------------
(* Operations get shorter                                                  *)

\* At most so many commands follow a command, itself included; the longest
\* operation is the removal of TensorBoards that are found in a list.
CommandsLeft(v) ==
    CASE v \in {"run", "list"} -> 7
      [] v = "version"         -> 6
      [] v = "kill"            -> 5
      [] v = "stop"            -> 4
      [] v = "reset"           -> 3
      [] v = "show"            -> 2
      [] v = "check"           -> 1
      [] OTHER                 -> 0

\* What is left of the operation under way: a command is sent, then waited for.
Remaining == 2 * CommandsLeft(verb) + IF verb # "none" /\ at = "sent" THEN 1 ELSE 0

\* No step repeats a part of an operation: what does not touch it leaves it as it
\* is, and each step of it leaves less of the same operation.  Commands are
\* refused, systemd hangs and requests of killed clients are served in any order,
\* and still no operation issues more than seven commands (each of which ends
\* or times out: _run of systemd_runner.py).
OperationsShrink ==
    [][~Idle => \/ UNCHANGED call
                \/ op' = op /\ Remaining' < Remaining]_vars

\* What is left is counted in natural numbers, and is nothing only at the end.
LEMMA RemainingTypes ==
    ASSUME TypeOK
    PROVE /\ Remaining \in Nat
          /\ ~Idle => Remaining > 0
BY DEF TypeOK, Remaining, CommandsLeft, Verbs, Probes, Idle

\* A later command leaves less.
LEMMA IssueShrinks ==
    ASSUME NEW v \in Verbs, Issue(v), verb \in Verbs, CommandsLeft(v) < CommandsLeft(verb)
    PROVE op' = op /\ Remaining' < Remaining
<1>1. CommandsLeft(v) \in Nat /\ CommandsLeft(verb) \in Nat
  BY DEF CommandsLeft
<1>2. Remaining' = 2 * CommandsLeft(v) + 1 /\ op' = op
  BY DEF Issue, Remaining, Verbs, Probes
<1>3. Remaining \in Nat /\ Remaining >= 2 * CommandsLeft(verb)
  BY <1>1 DEF Remaining
<1>4. QED
  BY <1>1, <1>2, <1>3

\* The end leaves nothing.
LEMMA EndShrinks ==
    ASSUME NEW what, End(what), TypeOK, ~Idle
    PROVE op' = op /\ Remaining' < Remaining
<1>1. Remaining' = 0 /\ op' = op
  BY DEF End, Remaining, CommandsLeft
<1>2. QED
  BY <1>1, RemainingTypes

\* The command that follows another one, where one follows, leaves less.
LEMMA FollowsShrinks ==
    ASSUME NEW v \in {"version", "kill", "stop", "reset"}
    PROVE Follows(v) \in Verbs /\ CommandsLeft(Follows(v)) < CommandsLeft(v)
BY DEF Follows, CommandsLeft, Verbs, Probes

\* A refused launch is followed by a question or by the end.
LEMMA NotLaunchedShrinks ==
    ASSUME NotLaunched, verb = "run", TypeOK
    PROVE op' = op /\ Remaining' < Remaining
BY IssueShrinks, EndShrinks DEF NotLaunched, Idle, CommandsLeft, Verbs, Probes

\* Each step of an operation leaves less of it.
LEMMA StepShrinks ==
    ASSUME TypeOK, ~Idle, [Next]_vars
    PROVE UNCHANGED call \/ (op' = op /\ Remaining' < Remaining)
<1>v. verb \in Verbs
  BY DEF TypeOK, Idle
<1>1. CASE Handle
  <2>1. CASE verb = "show"
    <3>1. Report(unit)
      BY <1>1, <2>1 DEF Handle
    <3>2. QED
      BY <3>1, EndShrinks DEF Report
  <2>2. CASE verb = "check"
    BY <1>1, <2>2, EndShrinks DEF Handle
  <2>3. CASE verb = "list"
    <3>1. IF unit = "none" THEN End("done") ELSE Issue("version")
      BY <1>1, <2>3 DEF Handle
    <3>2. CommandsLeft("version") < CommandsLeft(verb) /\ "version" \in Verbs
      BY <2>3 DEF CommandsLeft, Verbs, Probes
    <3>3. QED
      BY <3>1, <3>2, <1>v, EndShrinks, IssueShrinks
  <2>4. CASE verb = "run" /\ unit # "none"
    BY <1>1, <2>4, NotLaunchedShrinks DEF Handle
  <2>5. CASE (verb = "run" /\ unit = "none") \/ verb \notin {"run", "show", "check", "list"}
    <3>1. CASE at' = "job" /\ UNCHANGED <<op, verb, says>>
      BY <3>1, <1>1, <1>v DEF Handle, Remaining, CommandsLeft, Idle
    <3>2. CASE Issue(Follows(verb)) /\ verb # "run"
      <4>1. verb \in {"version", "kill", "stop", "reset"}
        BY <2>5, <3>2, <1>v DEF Verbs, Probes
      <4>2. QED
        BY <3>2, <4>1, <1>v, FollowsShrinks, IssueShrinks
    <3>3. QED
      BY <1>1, <2>5, <3>1, <3>2 DEF Handle
  <2>6. QED
    BY <2>1, <2>2, <2>3, <2>4, <2>5
<1>2. CASE Started
  <2>1. CASE verb = "run" /\ at = "job"
    <3>1. Launched \/ NotLaunched
      BY <1>2, <2>1 DEF Started, JobEnds
    <3>2. CommandsLeft("show") < CommandsLeft(verb) /\ "show" \in Verbs
      BY <2>1 DEF CommandsLeft, Verbs, Probes
    <3>3. QED
      BY <3>1, <3>2, <2>1, <1>v, IssueShrinks, NotLaunchedShrinks DEF Launched
  <2>2. CASE ~(verb = "run" /\ at = "job")
    BY <1>2, <2>2 DEF Started, JobEnds
  <2>3. QED
    BY <2>1, <2>2
<1>3. CASE Stopped
  <2>1. CASE verb = "stop" /\ at = "job"
    BY <1>3, <2>1, <1>v, FollowsShrinks, IssueShrinks DEF Stopped, JobEnds
  <2>2. CASE ~(verb = "stop" /\ at = "job")
    BY <1>3, <2>2 DEF Stopped, JobEnds
  <2>3. QED
    BY <2>1, <2>2
<1>4. CASE Refused
  <2>1. CASE verb = "run"
    BY <1>4, <2>1, NotLaunchedShrinks DEF Refused
  <2>2. CASE verb = "show"
    <3>1. CommandsLeft("check") < CommandsLeft(verb) /\ "check" \in Verbs
      BY <2>2 DEF CommandsLeft, Verbs, Probes
    <3>2. QED
      BY <1>4, <2>2, <3>1, <1>v, IssueShrinks DEF Refused, NotShown
  <2>3. CASE verb \in {"list", "version", "check"}
    BY <1>4, <2>3, EndShrinks DEF Refused
  <2>4. CASE verb \in {"kill", "stop", "reset"}
    BY <1>4, <2>4, <1>v, FollowsShrinks, IssueShrinks DEF Refused
  <2>5. QED
    BY <1>v, <2>1, <2>2, <2>3, <2>4 DEF Verbs, Probes
<1>5. CASE Expire \/ NotSpawned \/ Cancel \/ ShowsNothing
  BY <1>5, EndShrinks DEF Expire, NotSpawned, Cancel, Expired, ShowsNothing, Report
<1>6. CASE Exit \/ Hang \/ Recover \/ (\E v \in Verbs : HandleLate(v)) \/ UNCHANGED vars
  BY <1>6 DEF Exit, Hang, Recover, HandleLate, vars, call
<1>7. ~\E o \in Operations : Call(o)
  BY DEF Call
<1>8. QED
  BY <1>1, <1>2, <1>3, <1>4, <1>5, <1>6, <1>7 DEF Next

\* No operation goes round in circles, whatever is refused or hangs.
THEOREM OperationsGetShorter == Spec => OperationsShrink
<1>1. TypeOK /\ [Next]_vars =>
        [~Idle => UNCHANGED call \/ (op' = op /\ Remaining' < Remaining)]_vars
  BY StepShrinks
<1>2. QED
  BY <1>1, TypeCorrect, PTL DEF Spec, OperationsShrink

-----------------------------------------------------------------------------
(* What the promises are worth                                             *)

\* What "finished" lets the scheduler do, to end the row and to give its GPU away,
\* stays right until the next operation: the script does not run again.
FinishedLasts == says = "finished" => unit \notin Live /\ "run" \notin late

\* What was said of the unit is true unless it was guessed, which "finished" never
\* is, and no launch may change it any more.
ToldIsTrue ==
    /\ says = "missing" /\ ~guessed => UnitState = "none" /\ ~LaunchMay
    /\ says = "done" /\ ~guessed => UnitState # "live" /\ ~LaunchMay
    /\ says = "finished" => UnitState # "live" /\ ~LaunchMay

\* Every step that UnitPromises allows keeps this, whatever takes it.
LEMMA ToldStep ==
    ASSUME ToldIsTrue, [Promises!Next]_(Promises!vars)
    PROVE  ToldIsTrue'
<1> USE DEF ToldIsTrue
<1>1. CASE Promises!Ask
  BY <1>1 DEF Promises!Ask
<1>2. CASE Promises!Fail
  BY <1>2 DEF Promises!Fail, Promises!Failures
<1>3. CASE Promises!Tell
  BY <1>3 DEF Promises!Tell, Promises!Promise, UnitState, LaunchMay
<1>4. CASE Promises!Start
  BY <1>4 DEF Promises!Start, UnitState, LaunchMay
<1>5. CASE Promises!Move
  <2>1. PMoves /\ LaunchMay' \in {LaunchMay, FALSE} /\ says' = says /\ guessed' = guessed
    BY <1>5 DEF Promises!Move, Promises!Moves, PMoves, UnitState, LaunchMay
  <2>2. ~LaunchMay => ~LaunchMay'
    BY <2>1
  <2>3. UnitState # "live" => UnitState' # "live"
    BY <2>1 DEF PMoves
  <2>4. UnitState = "none" => UnitState' = "none"
    BY <2>1 DEF PMoves
  <2>5. QED
    BY <2>1, <2>2, <2>3, <2>4
<1>6. CASE UNCHANGED Promises!vars
  BY <1>6 DEF Promises!vars, UnitState, LaunchMay
<1>7. CASE Promises!Guess
  BY <1>7 DEF Promises!Guess
<1>8. QED
  BY <1>1, <1>2, <1>3, <1>4, <1>5, <1>6, <1>7 DEF Promises!Next

\* UnitPromises is enough for its callers: whatever implements it gives answers
\* that last unless they are guessed, and a "finished" that always does, with
\* nothing else known of how commands and units behave.
THEOREM PromisesSuffice == RefinesPromises => [](AnswerLasts /\ FinishedLasts)
<1>1. Promises!Init => ToldIsTrue
  BY DEF Promises!Init, ToldIsTrue
<1>2. ToldIsTrue /\ [Promises!Next]_(Promises!vars) => ToldIsTrue'
  BY ToldStep
<1>3. ToldIsTrue => AnswerLasts /\ FinishedLasts
  BY DEF ToldIsTrue, AnswerLasts, SaidIsTrue, FinishedLasts, UnitState, LaunchMay, Live
<1>4. QED
  BY <1>1, <1>2, <1>3, PTL DEF RefinesPromises, Promises!Spec

\* A unit reported finished does not run again before the next operation, so the
\* scheduler may give its GPU away (_apply_unit_status of scheduler.py).
THEOREM FinishedIsFinal == Spec => []FinishedLasts
BY RunnerKeepsPromises, PromisesSuffice, PTL

\* Where every systemctl show prints a status or an error, nothing is guessed, so
\* "missing" and a return of stop() or cleanup() can be relied on whatever else
\* fails: what TaskScheduler and TensorBoards assume of the runner.
THEOREM TrueUnlessSilent ==
    ASSUME "silent" \notin FaultKinds
    PROVE Spec => []SaidIsTrue
<1>1. Init => ~guessed
  BY DEF Init
<1>2. ~guessed /\ [Next]_vars => ~guessed'
  BY DEF Next, Call, Handle, HandleLate, Started, Exit, Stopped, Refused, ShowsNothing,
         Fault, Expire, NotSpawned, Cancel, Hang, Recover, vars
<1>3. AnswerLasts /\ ~guessed => SaidIsTrue
  BY DEF AnswerLasts
<1>4. QED
  BY <1>1, <1>2, <1>3, AnswersLast, PTL DEF Spec
=============================================================================
