--------------------------- MODULE DispatchOrder ---------------------------
(***************************************************************************)
(* Whom the dispatch gives the GPUs.  History variables record the rows it *)
(* has tried to launch, since the rows of the database do not tell a row   *)
(* that was passed over from one that was put back, and those that were    *)
(* submitted when it had read the table already.                           *)
(***************************************************************************)
EXTENDS TaskScheduler

VARIABLES
    tried,   \* the rows this dispatch has tried to launch
    late     \* the rows that were submitted while it runs

Tried == tried' = IF phase' = "dispatch" THEN tried \cup ({cur'} \cap Tasks) ELSE {}

Submitted == {t \in Tasks : task[t].state = "NONE" /\ task'[t].state # "NONE"}
Late == late' = IF phase' = "dispatch" THEN late \cup Submitted ELSE {}

OrderVars == <<vars, tried, late>>

OrderInit == Init /\ tried = {} /\ late = {}
OrderNext == Next /\ Tried /\ Late
OrderSpec == OrderInit /\ [][OrderNext]_OrderVars /\ Fairness

-----------------------------------------------------------------------------
(* Properties                                                              *)

\* The GPU g goes to a task that comes after u in the queue.
Overtaken(u, g) ==
    \E t \in Tasks :
        /\ Gives(t, g)
        /\ u \in job[t].after /\ job[u].prio >= job[t].prio

\* The dispatch comes to its end, with g to spare and u in the table it has read.
LeftOver(u, g) == pc = "pick" /\ phase' = "loop" /\ g \in available /\ u \notin late

\* A pending task is not passed over for a GPU that it could use: none that comes
\* after it in the queue gets the GPU, and a dispatch that comes to its end leaves
\* no such GPU to spare (one that an exception breaks off may), although rows that
\* ask for a busy GPU are passed over, requests arrive, rows are requeued and the
\* application dies while a dispatch runs.  The exception is a row whose turn has
\* come in this dispatch and went by: its launch found no supervisor and it was put
\* back, or its GPU was disabled just then.
NoneIsPassedOver ==
    [][\A u \in get_pending_tasks \ tried, g \in Gpus :
        job[u].pref \in {NoGpu, g} => ~Overtaken(u, g) /\ ~LeftOver(u, g)]_OrderVars

(* The inductive invariant.                                                *)

\* Tasks are submitted one after the other.
AgesAgree ==
    \A t, u \in Tasks :
        task[t].state # "NONE" /\ u \in job[t].after =>
            task[u].state # "NONE" /\ t \notin job[u].after

\* The rows whose claim is still to come in this dispatch.
Queue == IF pc = "spawn" THEN todo \cup {cur} ELSE todo

\* The rows of a dispatch stay in the table.
QueueIsSubmitted == phase = "dispatch" => \A t \in Queue : task[t].state # "NONE"

\* What is pending, and neither ahead in the queue nor tried, came too late and
\* after the whole queue, or asks for a GPU that is not free.
PassedOver ==
    phase = "dispatch" =>
        \A u \in get_pending_tasks \ (todo \cup tried) :
            \/ u \in late /\ \A t \in Queue : u \notin job[t].after
            \/ pc # "probe" /\ job[u].pref \notin available \cup {NoGpu}

\* The row at hand comes before what is left of the queue.
CurIsFirst == pc = "spawn" => \A u \in todo : Before(cur, u)

\* The row at hand counts as tried.
CurIsTried == phase = "dispatch" => {cur} \cap Tasks \subseteq tried

OrderInv == AgesAgree /\ QueueIsSubmitted /\ PassedOver /\ CurIsFirst /\ CurIsTried
=============================================================================
