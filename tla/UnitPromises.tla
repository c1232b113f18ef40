---------------------------- MODULE UnitPromises ----------------------------
(***************************************************************************)
(* What the callers of SystemdRunner (scheduler.py, tensorboards.py) build *)
(* on, for one unit.  A launch that got no answer may still take effect,   *)
(* but not after the next answer about the unit; "missing" and "finished"  *)
(* are never said of a unit whose script runs, and neither stop() nor      *)
(* cleanup() returns while it does.  The exception are guesses: when no    *)
(* status could be had, "missing" and a return say nothing of the unit.    *)
(***************************************************************************)
VARIABLES
    state,  \* the unit: "none", "live" or "over"
    may,    \* a launch without an answer may still take effect
    told,   \* what the last call was told; "nothing" while one is under way
    guessed \* it was told so without any sign of the unit

vars == <<state, may, told, guessed>>

\* These say nothing of the unit.
Failures == {"unavailable", "error", "raised", "cancelled"}
Answers == Failures \cup {"missing", "running", "finished", "done"}

Init == state = "none" /\ ~may /\ told = "nothing" /\ ~guessed

\* What an answer promises of the unit.
Promise(a, s) ==
    /\ a = "missing" => s = "none"
    /\ a = "running" => s = "live"
    /\ a = "finished" => s = "over"
    /\ a = "done" => s # "live"

\* Only a launch makes an effect possible.
Ask ==
    /\ told' = "nothing" /\ ~guessed'
    /\ may' \in {may, TRUE}
    /\ UNCHANGED state

\* The script ends, systemd stops the unit or forgets it, or nothing happens.
Moves == state' \in IF state = "none" THEN {"none"} ELSE {state, "over", "none"}

Fail ==
    /\ told = "nothing" /\ told' \in Failures
    /\ Moves /\ may' \in {may, FALSE}
    /\ UNCHANGED guessed

Tell ==
    /\ told = "nothing" /\ ~may
    /\ told' \in Answers \ Failures
    /\ Promise(told', state)
    /\ UNCHANGED <<state, may, guessed>>

\* The two answers that may be guessed.
Guess ==
    /\ told = "nothing"
    /\ told' \in {"missing", "done"} /\ guessed'
    /\ UNCHANGED <<state, may>>

Start ==
    /\ may /\ state = "none"
    /\ state' = "live"
    /\ may' \in BOOLEAN
    /\ UNCHANGED <<told, guessed>>

\* A launch that finds the unit there has no effect any more.
Move == Moves /\ may' \in {may, FALSE} /\ UNCHANGED <<told, guessed>>

Next == Ask \/ Fail \/ Tell \/ Guess \/ Start \/ Move

Spec == Init /\ [][Next]_vars
=============================================================================
