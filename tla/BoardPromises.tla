--------------------------- MODULE BoardPromises ---------------------------
(***************************************************************************)
(* What TensorBoards promises to the users of TensorBoards, with no        *)
(* coroutine, lock or monitor in sight: which states of a session they     *)
(* see, which TensorBoards run meanwhile, and who has a key or a port.     *)
(***************************************************************************)
CONSTANTS Sessions, Keys, Ports, NoKey, NoPort

VARIABLES
    shown,      \* the state of each session: NONE before it exists, LOST when
                \* its process has died, DELETED when its history was deleted
    key, port,  \* what it was made for
    runs,       \* the sessions whose TensorBoard runs
    marked      \* those that are being stopped, or could not be

vars == <<shown, key, port, runs, marked>>

Active == {"STARTING", "RUNNING"}
Ended == {"STOPPED", "FAILED"}

Init ==
    /\ shown = [s \in Sessions |-> "NONE"]
    /\ key = [s \in Sessions |-> NoKey]
    /\ port = [s \in Sessions |-> NoPort]
    /\ runs = {} /\ marked = {}

Move(s, from, to) ==
    /\ shown[s] \in from
    /\ shown' = [shown EXCEPT ![s] = to]

\* Nothing that runs, or may, has the port; nothing active has the key; and no
\* TensorBoard of a dead process is left.
Reserve(s, k, p) ==
    /\ Move(s, {"NONE"}, "STARTING")
    /\ key' = [key EXCEPT ![s] = k]
    /\ port' = [port EXCEPT ![s] = p]
    /\ \A r \in Sessions :
        /\ shown[r] \in Active => key[r] # k
        /\ shown[r] \in Active \/ r \in runs \cup marked => port[r] # p
        /\ r \in runs => shown[r] # "LOST"
    /\ UNCHANGED <<runs, marked>>

Start(s) ==
    /\ shown[s] = "STARTING"
    /\ runs' = runs \cup {s}
    /\ UNCHANGED <<shown, key, port, marked>>

Ready(s) == Move(s, {"STARTING"}, "RUNNING") /\ UNCHANGED <<key, port, runs, marked>>

\* The start is given up before, or after, the unit was asked for.
Withdraw(s) ==
    /\ s \notin runs
    /\ Move(s, {"STARTING"}, "STOPPED")
    /\ UNCHANGED <<key, port, runs, marked>>

GiveUp(s) ==
    /\ Move(s, {"STARTING"}, "FAILED")
    /\ marked' = marked \cup {s}
    /\ UNCHANGED <<key, port, runs>>

Exit(s) == runs' = runs \ {s} /\ UNCHANGED <<shown, key, port, marked>>

\* Only what does not run is found dead.
Notice(s) ==
    /\ s \notin runs
    /\ Move(s, {"RUNNING"}, "FAILED")
    /\ UNCHANGED <<key, port, runs, marked>>

Mark(s) ==
    /\ shown[s] \in Active \cup Ended
    /\ marked' = marked \cup {s}
    /\ UNCHANGED <<shown, key, port, runs>>

\* It is stopped for certain; the cleanup of a failed start shows it as failed.
Confirm(s) ==
    /\ s \in marked
    /\ \/ Move(s, Active \cup Ended, "STOPPED")
       \/ Move(s, {"FAILED"}, "FAILED")
    /\ runs' = runs \ {s}
    /\ marked' = marked \ {s}
    /\ UNCHANGED <<key, port>>

\* History is what has ended and does not run.
Delete(S) ==
    /\ S # {}
    /\ \A s \in S : shown[s] \in Ended /\ s \notin runs \cup marked
    /\ shown' = [s \in Sessions |-> IF s \in S THEN "DELETED" ELSE shown[s]]
    /\ UNCHANGED <<key, port, runs, marked>>

\* The process ends, or dies; its TensorBoards go on until they are purged.
Halt ==
    /\ shown' = [s \in Sessions |-> IF shown[s] = "NONE" THEN "NONE" ELSE "LOST"]
    /\ marked' = {}
    /\ UNCHANGED <<key, port, runs>>

Purge(S) ==
    /\ \A s \in S : shown[s] = "LOST"
    /\ runs' = runs \ S
    /\ UNCHANGED <<shown, key, port, marked>>

Next ==
    \/ \E s \in Sessions :
        \/ \E k \in Keys, p \in Ports : Reserve(s, k, p)
        \/ Start(s) \/ Ready(s) \/ Withdraw(s) \/ GiveUp(s)
        \/ Exit(s) \/ Notice(s) \/ Mark(s) \/ Confirm(s)
    \/ \E S \in SUBSET Sessions : Delete(S) \/ Purge(S)
    \/ Halt

Spec == Init /\ [][Next]_vars
=============================================================================
