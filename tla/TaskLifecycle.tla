--------------------------- MODULE TaskLifecycle ---------------------------
(***************************************************************************)
(* What the scheduler promises about a task, with no process, database or  *)
(* supervisor in sight: the state machine of a row of the tasks table and  *)
(* the exclusive ownership of a GPU by the tasks that are STARTING or      *)
(* RUNNING.  TaskScheduler implements this specification.                  *)
(***************************************************************************)
CONSTANTS Tasks,    \* identifiers of tasks
          Gpus,     \* managed GPUs
          NoGpu     \* "gpu_id IS NULL", not a GPU

VARIABLES state,    \* state[t]: the column tasks.state ("NONE": no row yet)
          held      \* held[t]: the GPU a STARTING or RUNNING task owns

vars == <<state, held>>

Managed == {"STARTING", "RUNNING"}
Terminal == {"COMPLETED", "FAILED"}
States == {"NONE", "PENDING", "DELETED"} \cup Managed \cup Terminal

\* A database written by an earlier release may hold RUNNING rows.
Init ==
    /\ state \in [Tasks -> {"NONE", "RUNNING"}]
    /\ held \in [Tasks -> Gpus \cup {NoGpu}]
    /\ \A t \in Tasks : state[t] = "RUNNING" <=> held[t] # NoGpu
    /\ \A t, u \in Tasks : held[t] = held[u] /\ held[t] # NoGpu => t = u

Move(t, from, to, g) ==
    /\ state[t] \in from
    /\ state' = [state EXCEPT ![t] = to]
    /\ held' = [held EXCEPT ![t] = g]

Submit(t) == Move(t, {"NONE"}, "PENDING", NoGpu)

\* Only a GPU that no other task owns is given away.
Claim(t, g) ==
    /\ \A u \in Tasks : held[u] # g
    /\ Move(t, {"PENDING"}, "STARTING", g)

Begin(t) == Move(t, {"STARTING"}, "RUNNING", held[t])

\* A task goes back to the queue only before it was seen running.
Requeue(t) == Move(t, {"STARTING"}, "PENDING", NoGpu)

Finish(t) == \E end \in Terminal : Move(t, Managed, end, NoGpu)

Fail(t) == Move(t, {"PENDING"}, "FAILED", NoGpu)

Delete(S) ==
    /\ S # {}
    /\ \A t \in S : state[t] \in Terminal
    /\ state' = [t \in Tasks |-> IF t \in S THEN "DELETED" ELSE state[t]]
    /\ UNCHANGED held

Next ==
    \/ \E t \in Tasks :
        \/ Submit(t)
        \/ \E g \in Gpus : Claim(t, g)
        \/ Begin(t)
        \/ Requeue(t)
        \/ Finish(t)
        \/ Fail(t)
    \/ \E S \in SUBSET Tasks : Delete(S)

Spec == Init /\ [][Next]_vars
=============================================================================
