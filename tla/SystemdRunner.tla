--------------------------- MODULE SystemdRunner ---------------------------
(***************************************************************************)
(* systemd_runner.py, for one unit: each operation is a sequence of client *)
(* commands (systemd-run, systemctl), each with a timeout after which the  *)
(* client is killed, while what it asked of systemd may still be done.     *)
(*                                                                         *)
(* Callers hold a lock of the unit, so one operation is under way at a     *)
(* time.  systemd is external: it handles requests in the order in which   *)
(* they arrive, and answers commands with a job when the job ends.         *)
(***************************************************************************)
EXTENDS Naturals

CONSTANTS
    FaultKinds,   \* kinds of faults that occur
    MaxFaults     \* bound on their number

ASSUME ConstantsAssumption ==
    /\ FaultKinds \subseteq {"refused", "silent", "cancel", "spawn", "hang"}
    /\ MaxFaults \in Nat

VARIABLES
    unit,    \* the unit, as systemd has it
    late,    \* requests of killed clients that systemd has not handled yet
    hung,    \* systemd handles no request for now
    op,      \* the operation under way, or the last one
    verb,    \* the command under way, "none" between operations
    at,      \* its request is "sent", or handled and waiting for a "job"
    says,    \* what the last operation returned or raised
    guessed, \* history variable: it did so on a status that nobody printed
    faults   \* faults so far

call == <<op, verb, at, says>>
vars == <<unit, late, hung, op, verb, at, says, guessed, faults>>

-----------------------------------------------------------------------------
Launches == {"launch", "launch_tensorboard"}
Operations == Launches \cup {"inspect", "stop", "cleanup", "cleanup_tensorboards"}
Probes == {"version", "check", "show", "list"}
Verbs == {"run", "kill", "stop", "reset"} \cup Probes
\* An exception of these ends the operation as SupervisorUnavailable, of the
\* others as itself.
Guarded == {"version", "check", "show", "run"}

Live == {"activating", "running"}
Units == Live \cup {"none", "exited", "deactivating", "failed"}

\* What UnitStatus makes of LoadState, ActiveState and SubState.
Seen(u) == CASE u = "none" -> "missing"
             [] u \in Live -> "running"
             [] OTHER      -> "finished"

\* Where an operation starts, and the command that follows one that is over.
First(o) == CASE o \in Launches              -> "run"
              [] o = "inspect"              -> "show"
              [] o = "cleanup_tensorboards" -> "list"
              [] OTHER                      -> "version"

Follows(v) == CASE v = "version" -> IF op = "stop" THEN "kill" ELSE "stop"
                [] v = "kill"    -> "stop"
                [] v = "stop"    -> IF op = "stop" THEN "show" ELSE "reset"
                [] OTHER         -> "show"

\* What systemd does at once for a request (kill reaches the whole group).
Effect(v, u) ==
    CASE v = "run" /\ u = "none"                        -> "activating"
      [] v = "kill" /\ u \in Live \cup {"deactivating"} -> "failed"
      [] v = "stop" /\ u \in Live                       -> "deactivating"
      [] v = "stop" /\ u = "exited"                     -> "none"
      [] v = "reset" /\ u = "failed"                    -> "none"
      [] OTHER                                          -> u

Fault(kind) ==
    /\ kind \in FaultKinds
    /\ faults < MaxFaults
    /\ faults' = faults + 1

Issue(v) == verb' = v /\ at' = "sent" /\ UNCHANGED <<op, says>>
End(what) == verb' = "none" /\ at' = "sent" /\ says' = what /\ UNCHANGED op
Idle == verb = "none"

\* systemd-run failed: launch() asks whether systemd is there at all.
Launched == Issue("show")
NotLaunched == IF op = "launch" THEN Issue("check") ELSE End("error")

Init ==
    /\ unit = "none" /\ late = {} /\ hung = FALSE
    /\ op = "inspect" /\ verb = "none" /\ at = "sent" /\ says = "nothing"
    /\ guessed = FALSE /\ faults = 0

-----------------------------------------------------------------------------
Call(o) ==
    /\ Idle
    /\ op' = o /\ verb' = First(o) /\ at' = "sent" /\ says' = "nothing" /\ guessed' = FALSE
    /\ UNCHANGED <<unit, late, hung, faults>>

\* Faulty variant of Report: stop() and cleanup() do not look at the status.
ReportAlways(u) ==
    End(IF op \in Launches \cup {"inspect"} THEN Seen(u) ELSE "done")

\* The last command of every operation is an inspection; it is taken to show u.
Report(u) ==
    End(IF op \in Launches \cup {"inspect"} THEN Seen(u)
        ELSE IF u \in Live THEN "error" ELSE "done")

\* systemd comes to the request of the current command.
Handle ==
    /\ ~Idle /\ at = "sent"
    /\ ~hung /\ late = {}
    /\ unit' = Effect(verb, unit)
    /\ CASE verb = "show"  -> Report(unit)
         [] verb = "check" -> End("error")
         [] verb = "list" -> IF unit = "none" THEN End("done") ELSE Issue("version")
         [] verb = "run" /\ unit # "none" -> NotLaunched
         [] OTHER -> IF verb = "run" \/ (verb = "stop" /\ unit' = "deactivating")
                     THEN at' = "job" /\ UNCHANGED <<op, verb, says>>
                     ELSE Issue(Follows(verb))
    /\ UNCHANGED <<late, hung, guessed, faults>>

HandleLate(v) ==
    /\ v \in late /\ ~hung
    /\ late' = late \ {v}
    /\ unit' = Effect(v, unit)
    /\ UNCHANGED <<hung, call, guessed, faults>>

\* The job ends that the command waits for, if one does.
JobEnds(v, Step) ==
    IF verb = v /\ at = "job" THEN Step ELSE UNCHANGED call

\* Type=exec: the script is executed, or cannot be.
Started ==
    /\ unit = "activating"
    /\ \/ unit' = "running" /\ JobEnds("run", Launched)
       \/ unit' = "failed" /\ JobEnds("run", NotLaunched)
    /\ UNCHANGED <<late, hung, guessed, faults>>

\* The script ends; processes it leaves behind are stopped if it failed.
Exit ==
    /\ unit = "running"
    /\ unit' \in {"exited", "failed", "deactivating"}
    /\ UNCHANGED <<late, hung, call, guessed, faults>>

Stopped ==
    /\ unit = "deactivating"
    /\ unit' \in {"none", "failed"}
    /\ JobEnds("stop", Issue(Follows("stop")))
    /\ UNCHANGED <<late, hung, guessed, faults>>

-----------------------------------------------------------------------------
(* Commands that fail                                                      *)

\* Faulty variant of Left: questions that nobody waits for are still answered.
LeftAll == late \cup IF at = "sent" THEN {verb} ELSE {}

\* The request of the command, if systemd may still come to it.
Left == late \cup IF at = "sent" THEN {verb} \ Probes ELSE {}

\* Faulty variant of NotShown: an error is not raised either.
NotShownMissing == End("missing")

\* systemctl show printed nothing but an error.
NotShown == Issue("check")

\* systemctl show printed nothing at all: the client was killed from outside.  Its
\* exit status is not looked at, and no status is the status of no unit.
ShowsNothing ==
    /\ verb = "show" /\ Fault("silent")
    /\ Report("none")
    /\ guessed' = TRUE
    /\ UNCHANGED <<unit, late, hung>>

\* The exit status is not 0, or systemctl show printed only an error: available or
\* not, is what the next command finds out; after kill, stop and reset-failed the
\* exit status is not looked at.
Refused ==
    /\ ~Idle /\ Fault("refused")
    /\ late' \in {late, Left}
    /\ CASE verb = "run"                 -> NotLaunched
         [] verb = "show"                -> NotShown
         [] verb = "list"                -> End("error")
         [] verb \in {"version", "check"} -> End("unavailable")
         [] OTHER                         -> Issue(Follows(verb))
    /\ UNCHANGED <<unit, hung, guessed>>

Expired == End(IF verb \in Guarded THEN "unavailable" ELSE "raised")

\* Faulty variant of Expire: only the questions have a timeout.
ExpireProbes ==
    /\ verb \in Probes /\ hung
    /\ late' = Left
    /\ Expired
    /\ UNCHANGED <<unit, hung, guessed, faults>>

\* asyncio.TimeoutError: jobs end in time, only a systemd that hangs does not.
Expire ==
    /\ ~Idle /\ hung
    /\ late' = Left
    /\ Expired
    /\ UNCHANGED <<unit, hung, guessed, faults>>

\* OSError: the client cannot be started; like a timeout it is caught or not.
NotSpawned ==
    /\ ~Idle /\ at = "sent" /\ Fault("spawn")
    /\ Expired
    /\ UNCHANGED <<unit, late, hung, guessed>>

\* CancelledError: the client is killed.
Cancel ==
    /\ ~Idle /\ Fault("cancel")
    /\ late' = Left
    /\ End("cancelled")
    /\ UNCHANGED <<unit, hung, guessed>>

Hang == ~hung /\ Fault("hang") /\ hung' = TRUE /\ UNCHANGED <<unit, late, call, guessed>>
Recover == hung /\ hung' = FALSE /\ UNCHANGED <<unit, late, call, guessed, faults>>

-----------------------------------------------------------------------------
Next ==
    \/ \E o \in Operations : Call(o)
    \/ Handle
    \/ \E v \in Verbs : HandleLate(v)
    \/ Started \/ Exit \/ Stopped
    \/ Refused \/ ShowsNothing \/ Expire \/ NotSpawned \/ Cancel
    \/ Hang \/ Recover

Spec == Init /\ [][Next]_vars

\* systemd, when it does not hang, handles requests and finishes jobs; the
\* timeout of a command runs out.  A systemd that hangs may hang for ever.
Fairness ==
    /\ WF_vars(Handle)
    /\ \A v \in Verbs : WF_vars(HandleLate(v))
    /\ WF_vars(Started)
    /\ WF_vars(Stopped)
    /\ WF_vars(Expire)

FairSpec == Spec /\ Fairness

-----------------------------------------------------------------------------
(* Properties                                                              *)

\* Every variable stays in its type.
TypeOK ==
    /\ unit \in Units
    /\ late \subseteq Verbs \ Probes
    /\ hung \in BOOLEAN
    /\ op \in Operations
    /\ verb \in Verbs \cup {"none"}
    /\ at \in {"sent", "job"}
    /\ says \in {"nothing", "unavailable", "error", "raised", "cancelled",
                 "missing", "running", "finished", "done"}
    /\ guessed \in BOOLEAN
    /\ faults \in 0..MaxFaults

\* What "missing", and the return of stop() or cleanup(), tell the caller: the unit
\* does not appear, or does not run, whatever was asked of systemd before and got
\* no answer.
SaidIsTrue ==
    /\ says = "missing" => unit = "none" /\ "run" \notin late
    /\ says = "done" => unit \notin Live /\ "run" \notin late

\* What was said stays true until the next operation, unless it was guessed, which
\* inspect() does when systemctl show prints nothing, not even an error.
AnswerLasts == ~guessed => SaidIsTrue

\* The runner keeps what its callers build on: a launch that got no answer takes
\* effect before the next answer or never, no answer is wrong but one that is
\* guessed, and "running" and "finished" are never guessed.
Promises == INSTANCE UnitPromises WITH
    state <- CASE unit = "none" -> "none" [] unit \in Live -> "live" [] OTHER -> "over",
    may <- "run" \in late \/ (verb = "run" /\ at = "sent"),
    told <- says

RefinesPromises == Promises!Spec

\* Every operation ends, even if systemd never answers again.
OperationEnds == ~Idle ~> Idle
=============================================================================
