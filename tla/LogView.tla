------------------------------ MODULE LogView ------------------------------
(***************************************************************************)
(* The log viewer of the dashboard (static/index.html), the endpoint it    *)
(* reads (get_task_log in main.py), and what happens to the log files      *)
(* meanwhile: scripts append to them, a requeue or a deletion unlinks them *)
(* and a later launch starts a new one.  A byte of a log is known by its   *)
(* position; what is shown is a sequence of such bytes.                    *)
(***************************************************************************)
EXTENDS Integers, Sequences

CONSTANTS
    Tasks,        \* tasks on the page of the dashboard
    NoTask,       \* no log is open
    TailBytes,    \* tail_bytes of the first read (131072)
    LimitBytes,   \* limit_bytes of the later ones (262144)
    KeepBytes,    \* characters the viewer keeps (524288)
    MaxBytes,     \* bound on the size of a log
    MaxLaunches,  \* bound on the number of launches of all tasks
    MaxOpens      \* bound on how often a log is opened

ASSUME ConstantsAssumption ==
    /\ NoTask \notin Tasks
    /\ TailBytes \in Nat \ {0} /\ LimitBytes \in Nat \ {0}
    /\ KeepBytes \in Nat \ {0}
    /\ {MaxBytes, MaxLaunches, MaxOpens} \subseteq Nat

VARIABLES
    state,     \* tasks.state; "LIVE" is STARTING or RUNNING
    size,      \* bytes in the file of log_path, 0 if there is none
    launches,  \* launches so far
    listed,    \* taskById: the state of each task when the list was read
    view,      \* logState
    opens,     \* number of the log state; the last one is the current one
    timer,     \* logTimer is set
    shown,     \* bytes in log-content
    notice,    \* log-notice is visible: older output is not shown
    broken,    \* log-content begins with "Failed to load log"
    reads,     \* requests for a log that the page waits for
    lists      \* the lists that were there to read so far

files == <<state, size, launches>>
page == <<listed, view, opens, timer, shown, notice, broken>>
vars == <<files, page, reads, lists>>

-----------------------------------------------------------------------------
States == {"PENDING", "LIVE", "ENDED", "DELETED"}

NoView == [task |-> NoTask, offset |-> 0, running |-> FALSE, loading |-> FALSE]
IsOpen == view.task # NoTask

\* A claimed row has a log until it goes back to the queue or is deleted.
HasLog(t) == state[t] \in {"LIVE", "ENDED"}

\* The bytes that an answer brings.
Bytes(r) ==
    [i \in 1..r.raw |-> [task |-> r.task, pos |-> r.from + i - 1]]

AtMost(a, b) == IF a <= b THEN a ELSE b

\* Faulty variant of Minus: max(0, ...) is left out.
MinusBelow(a, b) == a - b

Minus(a, b) == IF a <= b THEN 0 ELSE a - b

\* String.slice(-n)
LastOf(s, n) == SubSeq(s, Minus(Len(s), n) + 1, Len(s))

Init ==
    /\ state = [t \in Tasks |-> "PENDING"]
    /\ size = [t \in Tasks |-> 0]
    /\ launches = 0
    /\ listed = [t \in Tasks |-> "PENDING"]
    /\ view = NoView /\ opens = 0 /\ timer = FALSE
    /\ shown = <<>> /\ notice = FALSE /\ broken = FALSE
    /\ reads = {} /\ lists = {state}

-----------------------------------------------------------------------------
(* The scheduler and the scripts                                           *)

\* A row is claimed and gets a new, empty log.
Launch(t) ==
    /\ state[t] = "PENDING" /\ launches < MaxLaunches
    /\ launches' = launches + 1
    /\ state' = [state EXCEPT ![t] = "LIVE"]
    /\ lists' = lists \cup {state'}
    /\ UNCHANGED <<size, page, reads>>

Write(t) ==
    /\ state[t] = "LIVE" /\ size[t] < MaxBytes
    /\ size' = [size EXCEPT ![t] = @ + 1]
    /\ UNCHANGED <<state, launches, page, reads, lists>>

Finish(t) ==
    /\ state[t] = "LIVE"
    /\ state' = [state EXCEPT ![t] = "ENDED"]
    /\ lists' = lists \cup {state'}
    /\ UNCHANGED <<size, launches, page, reads>>

\* The log goes: with a STARTING row that goes back to the queue, or the row.
Unlink(t) ==
    /\ \/ state[t] = "LIVE" /\ state' = [state EXCEPT ![t] = "PENDING"]
       \/ state[t] = "ENDED" /\ state' = [state EXCEPT ![t] = "DELETED"]
    /\ size' = [size EXCEPT ![t] = 0]
    /\ lists' = lists \cup {state'}
    /\ UNCHANGED <<launches, page, reads>>

-----------------------------------------------------------------------------
(* get_task_log                                                            *)

\* What fetch() sends: kind "open" (the first tail), "tail" or "chunk".
Asked(kind, id, t, offset) ==
    [kind |-> kind, view |-> id, task |-> t, offset |-> offset, answered |-> FALSE,
     ok |-> FALSE, from |-> 0, raw |-> 0, to |-> 0, size |-> 0, cut |-> FALSE]

\* A 404, or no answer at all.
Failed(r) == [r EXCEPT !.answered = TRUE, !.offset = 0]

Becomes(r, q) == reads' = (reads \ {r}) \cup {q}

\* Where the read starts when getsize() says size, and how much it asks for.
From(r, bytes) ==
    IF r.kind = "chunk" THEN AtMost(r.offset, bytes) ELSE Minus(bytes, TailBytes)
Limit(r) == IF r.kind = "chunk" THEN LimitBytes ELSE TailBytes

\* X-Log-Next-Offset
NextOffset(from, raw, bytes) == from + raw

\* Faulty variant of Truncated: only what comes later counts.
TruncatedAfter(from, to, bytes) == to < bytes

\* X-Log-Truncated
Truncated(from, to, bytes) == from > 0 \/ to < bytes

\* The answer for a log of so many bytes before, and after, the read.
Served(r, before, after) ==
    LET from == From(r, before)
        raw == AtMost(Limit(r), after - from)
        to == NextOffset(from, raw, before)
    IN [r EXCEPT !.answered = TRUE, !.offset = 0, !.ok = TRUE, !.from = from, !.raw = raw,
                 !.to = to, !.size = before, !.cut = Truncated(from, to, before)]

\* The script may append a byte between getsize() and read().
ServeLog(r) ==
    /\ ~r.answered /\ HasLog(r.task)
    /\ \E grown \in 0..1 :
        LET before == size[r.task]
            after == before + grown
        IN /\ grown = 1 => state[r.task] = "LIVE" /\ after <= MaxBytes
           /\ size' = [size EXCEPT ![r.task] = after]
           /\ Becomes(r, Served(r, before, after))
    /\ UNCHANGED <<state, launches, page, lists>>

\* The row has no log; also for a path that was read just before it went.
ServeNothing(r) ==
    /\ ~r.answered /\ ~HasLog(r.task)
    /\ Becomes(r, Failed(r))
    /\ UNCHANGED <<files, page, lists>>

Lose(r) ==
    /\ ~r.answered
    /\ Becomes(r, Failed(r))
    /\ UNCHANGED <<files, page, lists>>

-----------------------------------------------------------------------------
(* The viewer: openLogModal, closeLogModal and the two readers             *)

\* The Log button of a row; there is none while the row is PENDING.
Open(t) ==
    /\ listed[t] \in {"LIVE", "ENDED"} /\ opens < MaxOpens
    /\ opens' = opens + 1
    /\ view' = [task |-> t, offset |-> 0, running |-> listed[t] = "LIVE", loading |-> TRUE]
    /\ timer' = FALSE
    /\ shown' = <<>> /\ notice' = FALSE /\ broken' = FALSE
    /\ reads' = reads \cup {Asked("open", opens + 1, t, 0)}
    /\ UNCHANGED <<files, listed, lists>>

\* What is hidden is not shown.
Close ==
    /\ IsOpen
    /\ view' = NoView /\ timer' = FALSE
    /\ shown' = <<>> /\ notice' = FALSE /\ broken' = FALSE
    /\ UNCHANGED <<files, listed, opens, reads, lists>>

MayRead == IsOpen /\ ~view.loading

\* The Refresh button reads the tail, the timer what came since.
Read(kind) ==
    /\ MayRead
    /\ view' = [view EXCEPT !.loading = TRUE]
    /\ reads' = reads \cup {Asked(kind, opens, view.task, view.offset)}
    /\ UNCHANGED <<files, listed, opens, timer, shown, notice, broken, lists>>

Refresh == Read("tail")
Tick == timer /\ Read("chunk")

\* logState === state
Current(r) == r.answered /\ IsOpen /\ r.view = opens

\* openLogModal goes on when its read is over, whatever became of it.
TimerAfter(r) == IF r.kind = "open" THEN view.running ELSE timer

\* Faulty variant of Released: a read that failed is never over.
ReleasedIfOk(r, offset) == [view EXCEPT !.loading = ~r.ok, !.offset = offset]

\* finally: state.loading = false
Released(r, offset) == [view EXCEPT !.loading = FALSE, !.offset = offset]

ShowTail(r) ==
    /\ Current(r) /\ r.kind # "chunk" /\ r.ok
    /\ shown' = Bytes(r)
    /\ notice' = r.cut
    /\ broken' = FALSE
    /\ view' = Released(r, r.to)
    /\ timer' = TimerAfter(r)
    /\ reads' = reads \ {r}
    /\ UNCHANGED <<files, listed, opens, lists>>

ShowError(r) ==
    /\ Current(r) /\ ~r.ok
    /\ IF r.kind = "chunk"
       THEN UNCHANGED <<shown, broken>>
       ELSE shown' = <<>> /\ broken' = TRUE
    /\ view' = Released(r, view.offset)
    /\ timer' = TimerAfter(r)
    /\ reads' = reads \ {r}
    /\ UNCHANGED <<files, listed, opens, notice, lists>>

\* Faulty variant of Replaced: the size is not looked at.
ReplacedNever(r) == FALSE

\* The log is shorter than what was read: it is another one.
Replaced(r) == r.size < view.offset

ShowChunk(r) ==
    /\ Current(r) /\ r.kind = "chunk" /\ r.ok /\ ~Replaced(r)
    /\ LET text == shown \o Bytes(r)
           trimmed == Len(text) > KeepBytes
       IN /\ shown' = LastOf(text, KeepBytes)
          /\ notice' = (notice \/ trimmed)
          /\ broken' = (broken /\ ~trimmed)
    /\ view' = Released(r, r.to)
    /\ reads' = reads \ {r}
    /\ UNCHANGED <<files, listed, opens, timer, lists>>

\* refreshOpenLog becomes loadLogTail, which takes the place of its read.
Reload(r) ==
    /\ Current(r) /\ r.kind = "chunk" /\ r.ok /\ Replaced(r)
    /\ Becomes(r, Asked("tail", opens, view.task, 0))
    /\ UNCHANGED <<files, page, lists>>

\* The log it was for is not open any more.
Ignore(r) ==
    /\ r.answered /\ ~Current(r)
    /\ reads' = reads \ {r}
    /\ UNCHANGED <<files, page, lists>>

-----------------------------------------------------------------------------
(* refreshTasks: the page asks for the list time and again, and an answer  *)
(* may come after the answer to a later request: it shows any list so far. *)
(* A row that is not on the page is like one that was deleted.             *)
ShowList(l) ==
    /\ listed' = l
    /\ IF IsOpen /\ l[view.task] \in {"PENDING", "ENDED"}
       THEN view' = [view EXCEPT !.running = FALSE] /\ timer' = FALSE
       ELSE UNCHANGED <<view, timer>>
    /\ UNCHANGED <<files, opens, shown, notice, broken, reads, lists>>

-----------------------------------------------------------------------------
Answer(r) == ShowTail(r) \/ ShowError(r) \/ ShowChunk(r) \/ Reload(r) \/ Ignore(r)

Next ==
    \/ \E t \in Tasks : Launch(t) \/ Write(t) \/ Finish(t) \/ Unlink(t) \/ Open(t)
    \/ \E r \in reads : ServeLog(r) \/ ServeNothing(r) \/ Lose(r) \/ Answer(r)
    \/ Close \/ Refresh \/ Tick
    \/ \E l \in lists : ShowList(l)

Spec == Init /\ [][Next]_vars

\* The interval timer of the page, and requests that are answered.
Fairness ==
    /\ WF_vars(Tick)
    /\ SF_vars(\E r \in reads : ServeLog(r) \/ ServeNothing(r))
    /\ WF_vars(\E r \in reads : Answer(r))

FairSpec == Spec /\ Fairness

-----------------------------------------------------------------------------
(* Properties                                                              *)

Byte == [task : Tasks, pos : Nat]
Request == [kind : {"open", "tail", "chunk"}, view : Nat, task : Tasks, offset : Nat,
            answered : BOOLEAN, ok : BOOLEAN, from : Nat, raw : Nat, to : Nat,
            size : Nat, cut : BOOLEAN]

\* Every variable stays in its type.
TypeOK ==
    /\ state \in [Tasks -> States]
    /\ size \in [Tasks -> 0..MaxBytes]
    /\ launches \in 0..MaxLaunches
    /\ listed \in [Tasks -> States]
    /\ view \in [task : Tasks \cup {NoTask}, offset : Nat,
                 running : BOOLEAN, loading : BOOLEAN]
    /\ opens \in 0..MaxOpens
    /\ timer \in BOOLEAN /\ notice \in BOOLEAN /\ broken \in BOOLEAN
    /\ shown \in Seq(Byte)
    /\ reads \subseteq Request
    /\ lists \subseteq [Tasks -> States]

\* What an open log shows is of its task, in one piece, and ends where the next
\* read begins: nothing twice, nothing left out, nothing of a log that was open
\* before, although scripts write, the file is replaced and answers are late.
ShownInOnePiece ==
    IsOpen =>
        \A i \in 1..Len(shown) :
            /\ shown[i].task = view.task
            /\ shown[i].pos + Len(shown) = view.offset + i - 1

\* If the beginning of the log is not shown, the reader is told so.
GapIsAnnounced ==
    IsOpen /\ shown # <<>> /\ shown[1].pos > 0 => notice \/ broken

\* While the timer runs, the view does not stay behind the log.
CatchesUp ==
    LET Behind == timer /\ view.offset < size[view.task]
    IN Behind ~> ~Behind
=============================================================================
