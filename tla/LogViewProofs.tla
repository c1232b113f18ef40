--------------------------- MODULE LogViewProofs ---------------------------
(***************************************************************************)
(* Proofs about LogView, for any number of tasks, launches, openings and   *)
(* bytes, and any sizes of the reads: the types, and that what is shown of *)
(* a log is in one piece and says so when its beginning is missing.        *)
(***************************************************************************)
EXTENDS LogView, SequenceTheorems, TLAPS

\* The current log state has at most one request, and waits for it.
OneRead ==
    /\ \A r \in reads : r.view <= opens
    /\ \A r, q \in reads : r.view = opens /\ q.view = opens => r = q
    /\ IsOpen => \A r \in reads : r.view = opens => view.loading

\* An answer is consistent in itself.
Consistent(r) ==
    r.ok =>
        /\ r.answered
        /\ r.to = r.from + r.raw
        /\ r.kind # "chunk" => (r.from > 0 => r.cut) /\ (r.raw = 0 => r.from = 0)

\* A request of the current log state is for its log and, for a chunk, for
\* what follows.
Fits(r) ==
    /\ r.task = view.task
    /\ r.kind = "chunk" =>
        /\ ~r.answered => r.offset = view.offset
        /\ r.ok /\ view.offset <= r.size => r.from = view.offset

ReadsFit == \A r \in reads : Consistent(r) /\ (IsOpen /\ r.view = opens => Fits(r))

\* Nothing is shown only before the first byte, or after an error.
EmptyIsNew == IsOpen /\ shown = <<>> => view.offset = 0 \/ broken

IInv ==
    /\ TypeOK
    /\ OneRead
    /\ ReadsFit
    /\ ShownInOnePiece
    /\ EmptyIsNew
    /\ GapIsAnnounced

-----------------------------------------------------------------------------
(* What the helpers return                                                 *)

\* A new request is one.
LEMMA AskedTypes ==
    ASSUME NEW kind \in {"open", "tail", "chunk"}, NEW id \in Nat, NEW t \in Tasks,
           NEW offset \in Nat
    PROVE Asked(kind, id, t, offset) \in Request
BY DEF Asked, Request

\* A request that failed is one, and has no answer.
LEMMA FailedTypes ==
    ASSUME NEW r \in Request
    PROVE /\ Failed(r) \in Request
          /\ Failed(r).view = r.view /\ Failed(r).task = r.task /\ Failed(r).ok = r.ok
          /\ Failed(r).kind = r.kind /\ Failed(r).answered
BY DEF Failed, Request

\* A read starts within the file.
LEMMA FromWithin ==
    ASSUME NEW r \in Request, NEW bytes \in Nat
    PROVE From(r, bytes) \in 0..bytes /\ Limit(r) \in Nat \ {0}
BY ConstantsAssumption DEF From, Limit, AtMost, Minus, Request

\* The answer to a request.
LEMMA ServedTypes ==
    ASSUME NEW r \in Request, NEW before \in Nat, NEW after \in Nat, before <= after
    PROVE LET q == Served(r, before, after)
          IN /\ q \in Request
             /\ q.view = r.view /\ q.task = r.task /\ q.kind = r.kind
             /\ q.answered /\ q.ok
             /\ q.from = From(r, before) /\ q.size = before
             /\ q.raw = AtMost(Limit(r), after - q.from)
             /\ q.to = q.from + q.raw
             /\ q.cut = Truncated(q.from, q.to, before)
<1> DEFINE from == From(r, before)
           raw == AtMost(Limit(r), after - from)
           cut == Truncated(from, from + raw, before)
<1>1. from \in Nat /\ raw \in Nat /\ cut \in BOOLEAN
  <2>1. from \in 0..before /\ Limit(r) \in Nat
    BY FromWithin
  <2>2. raw \in Nat
    BY <2>1 DEF AtMost
  <2>3. QED
    BY <2>1, <2>2 DEF Truncated
<1>2. Served(r, before, after) =
        [r EXCEPT !.answered = TRUE, !.offset = 0, !.ok = TRUE, !.from = from, !.raw = raw,
                  !.to = from + raw, !.size = before, !.cut = cut]
  BY DEF Served, NextOffset
<1> HIDE DEF from, raw, cut
<1> DEFINE q == Served(r, before, after)
<1>3. q \in Request
  <2> DEFINE to == from + raw
  <2>1. to \in Nat
    BY <1>1
  <2>2. q = [r EXCEPT !.answered = TRUE, !.offset = 0, !.ok = TRUE, !.from = from,
                      !.raw = raw, !.to = to, !.size = before, !.cut = cut]
    BY <1>2
  <2> HIDE DEF to, q
  <2>3. QED
    BY <1>1, <2>1, <2>2 DEF Request
<1>4. q.view = r.view /\ q.task = r.task /\ q.kind = r.kind
  BY <1>2 DEF Request
<1>5. q.answered = TRUE /\ q.ok = TRUE /\ q.from = from /\ q.size = before
  BY <1>2 DEF Request
<1>6. q.raw = raw /\ q.to = from + raw /\ q.cut = cut
  BY <1>2 DEF Request
<1>7. QED
  BY <1>3, <1>4, <1>5, <1>6 DEF from, raw, cut

\* A tail that is empty is the tail of an empty file, and one that is not whole
\* says so.
LEMMA ServedIsConsistent ==
    ASSUME NEW r \in Request, NEW before \in Nat, NEW after \in Nat, before <= after
    PROVE Consistent(Served(r, before, after))
<1> DEFINE q == Served(r, before, after)
<1>1. /\ q.answered /\ q.to = q.from + q.raw /\ q.kind = r.kind
      /\ q.from = From(r, before) /\ q.raw = AtMost(Limit(r), after - q.from)
      /\ q.cut = Truncated(q.from, q.to, before)
  BY ServedTypes
<1>2. q.from > 0 => q.cut
  BY <1>1 DEF Truncated
<1>3. ASSUME r.kind # "chunk", q.raw = 0 PROVE q.from = 0
  <2>1. q.from = Minus(before, TailBytes) /\ Limit(r) = TailBytes
    BY <1>1, <1>3 DEF From, Limit
  <2>2. TailBytes \in Nat \ {0}
    BY ConstantsAssumption
  <2>3. q.raw = AtMost(TailBytes, after - q.from)
    BY <1>1, <2>1
  <2> HIDE DEF q
  <2>4. QED
    BY <1>3, <2>1, <2>2, <2>3 DEF Minus, AtMost
<1>4. QED
  BY <1>1, <1>2, <1>3 DEF Consistent

\* The bytes of an answer, one after the other.
LEMMA BytesOfAnswer ==
    ASSUME NEW r \in Request
    PROVE /\ Bytes(r) \in Seq(Byte)
          /\ Len(Bytes(r)) = r.raw
          /\ \A i \in 1..r.raw :
                Bytes(r)[i].task = r.task /\ Bytes(r)[i].pos = r.from + i - 1
<1>1. r.raw \in Nat /\ r.from \in Nat /\ r.task \in Tasks
  BY DEF Request
<1>2. \A i \in 1..r.raw : [task |-> r.task, pos |-> r.from + i - 1] \in Byte
  BY <1>1 DEF Byte
<1>3. QED
  BY <1>1, <1>2 DEF Bytes

\* The position of a byte in a sequence of bytes.
LEMMA PositionOfByte ==
    ASSUME NEW s \in Seq(Byte), NEW i \in 1..Len(s)
    PROVE s[i].pos \in Nat
<1>1. s[i] \in Byte
  BY ElementOfSeq
<1>2. QED
  BY <1>1 DEF Byte

\* The end of a sequence.
LEMMA LastOfProperties ==
    ASSUME NEW S, NEW s \in Seq(S), NEW n \in Nat
    PROVE /\ LastOf(s, n) \in Seq(S)
          /\ Len(LastOf(s, n)) = AtMost(Len(s), n)
          /\ \A i \in 1..AtMost(Len(s), n) :
                LastOf(s, n)[i] = s[Len(s) - AtMost(Len(s), n) + i]
<1> DEFINE m == Minus(Len(s), n) + 1
<1>1. Len(s) \in Nat /\ m \in 1..(Len(s) + 1) /\ Len(s) - m + 1 = AtMost(Len(s), n)
  BY DEF Minus, AtMost
<1>2. \A i \in m..Len(s) : s[i] \in S
  BY <1>1, ElementOfSeq
<1>3. LastOf(s, n) = SubSeq(s, m, Len(s))
  BY DEF LastOf
<1> HIDE DEF m
<1>4. /\ SubSeq(s, m, Len(s)) \in Seq(S)
      /\ Len(SubSeq(s, m, Len(s))) = IF m <= Len(s) THEN Len(s) - m + 1 ELSE 0
      /\ \A i \in 1..(Len(s) - m + 1) : SubSeq(s, m, Len(s))[i] = s[m + i - 1]
  BY <1>1, <1>2, SubSeqProperties
<1>5. QED
  BY <1>1, <1>3, <1>4

-----------------------------------------------------------------------------
(* Types                                                                   *)

\* Initially every variable has its type.
LEMMA TypeInit == Init => TypeOK
<1> SUFFICES ASSUME Init PROVE TypeOK
  OBVIOUS
<1>1. view \in [task : Tasks \cup {NoTask}, offset : Nat, running : BOOLEAN, loading : BOOLEAN]
  BY DEF Init, NoView
<1>2. state \in [Tasks -> States] /\ listed \in [Tasks -> States]
  BY DEF Init, States
<1>3. size \in [Tasks -> 0..MaxBytes] /\ launches \in 0..MaxLaunches /\ opens \in 0..MaxOpens
  BY ConstantsAssumption DEF Init
<1>4. shown \in Seq(Byte)
  BY EmptySeq DEF Init
<1>5. reads \subseteq Request /\ lists \subseteq [Tasks -> States]
  BY <1>2 DEF Init
<1>6. QED
  BY <1>1, <1>2, <1>3, <1>4, <1>5 DEF Init, TypeOK

\* What a step of the server or the scripts leaves alone.
LEMMA TypeOfReads ==
    ASSUME TypeOK, NEW r \in reads, NEW q \in Request, Becomes(r, q), UNCHANGED <<page, lists>>,
           state' = state, launches' = launches, size' \in [Tasks -> 0..MaxBytes]
    PROVE TypeOK'
BY DEF TypeOK, Becomes, page

\* The file of a task that is read has grown by at most one byte.
LEMMA SizesOfRead ==
    ASSUME TypeOK, NEW r \in reads, ServeLog(r)
    PROVE \E before, after \in Nat :
            /\ before <= after
            /\ size' \in [Tasks -> 0..MaxBytes]
            /\ Becomes(r, Served(r, before, after))
<1>1. PICK grown \in 0..1 :
        /\ grown = 1 => size[r.task] + grown <= MaxBytes
        /\ size' = [size EXCEPT ![r.task] = size[r.task] + grown]
        /\ Becomes(r, Served(r, size[r.task], size[r.task] + grown))
  BY DEF ServeLog
<1>2. r.task \in Tasks /\ size[r.task] \in 0..MaxBytes /\ MaxBytes \in Nat
  BY ConstantsAssumption DEF TypeOK, Request
<1>3. size[r.task] + grown \in 0..MaxBytes
  BY <1>1, <1>2
<1>4. size' \in [Tasks -> 0..MaxBytes]
  BY <1>1, <1>3 DEF TypeOK
<1>5. QED
  BY <1>1, <1>2, <1>4

\* Every step keeps the types.
LEMMA TypeStep == TypeOK /\ [Next]_vars => TypeOK'
<1> SUFFICES ASSUME TypeOK, [Next]_vars PROVE TypeOK'
  OBVIOUS
<1> USE ConstantsAssumption
<1>1. ASSUME NEW t \in Tasks, Launch(t) PROVE TypeOK'
  <2>1. state' \in [Tasks -> States] /\ launches' \in 0..MaxLaunches
    BY <1>1 DEF Launch, TypeOK, States
  <2>2. QED
    BY <1>1, <2>1 DEF Launch, TypeOK, page
<1>2. ASSUME NEW t \in Tasks, Write(t) PROVE TypeOK'
  <2>1. size' \in [Tasks -> 0..MaxBytes]
    BY <1>2 DEF Write, TypeOK
  <2>2. QED
    BY <1>2, <2>1 DEF Write, TypeOK, page
<1>3. ASSUME NEW t \in Tasks, Finish(t) PROVE TypeOK'
  <2>1. state' \in [Tasks -> States]
    BY <1>3 DEF Finish, TypeOK, States
  <2>2. QED
    BY <1>3, <2>1 DEF Finish, TypeOK, page
<1>4. ASSUME NEW t \in Tasks, Unlink(t) PROVE TypeOK'
  <2>1. state' \in [Tasks -> States]
    <3>1. PICK new \in States : state' = [state EXCEPT ![t] = new]
      BY <1>4 DEF Unlink, States
    <3>2. QED
      BY <3>1 DEF TypeOK
  <2>2. size' \in [Tasks -> 0..MaxBytes]
    <3>1. 0 \in 0..MaxBytes
      OBVIOUS
    <3>2. QED
      BY <1>4, <3>1 DEF Unlink, TypeOK
  <2>3. QED
    BY <1>4, <2>1, <2>2 DEF Unlink, TypeOK, page
<1>5. ASSUME NEW t \in Tasks, Open(t) PROVE TypeOK'
  <2>1. opens' \in 0..MaxOpens /\ opens + 1 \in Nat
    BY <1>5 DEF Open, TypeOK
  <2>2. reads' \subseteq Request
    BY <1>5, <2>1, AskedTypes DEF Open, TypeOK
  <2>3. shown' \in Seq(Byte)
    BY <1>5, EmptySeq DEF Open
  <2>4. QED
    BY <1>5, <2>1, <2>2, <2>3 DEF Open, TypeOK, files
<1>6. CASE Close
  <2>1. shown' \in Seq(Byte)
    BY <1>6, EmptySeq DEF Close
  <2>2. QED
    BY <1>6, <2>1 DEF Close, NoView, TypeOK, files
<1>7. ASSUME NEW kind \in {"tail", "chunk"}, Read(kind) PROVE TypeOK'
  <2>1. reads' \subseteq Request
    BY <1>7, AskedTypes DEF Read, MayRead, IsOpen, TypeOK
  <2>2. QED
    BY <1>7, <2>1 DEF Read, TypeOK, files
<1>8. ASSUME NEW r \in reads, ServeLog(r) PROVE TypeOK'
  <2>1. r \in Request
    BY DEF TypeOK
  <2>2. PICK before, after \in Nat :
          /\ before <= after
          /\ size' \in [Tasks -> 0..MaxBytes]
          /\ Becomes(r, Served(r, before, after))
    BY <1>8, SizesOfRead
  <2>3. Served(r, before, after) \in Request
    BY <2>1, <2>2, ServedTypes
  <2>4. QED
    BY <1>8, <2>2, <2>3, TypeOfReads DEF ServeLog
<1>9. ASSUME NEW r \in reads, ServeNothing(r) \/ Lose(r) PROVE TypeOK'
  <2>1. Failed(r) \in Request /\ Becomes(r, Failed(r)) /\ UNCHANGED <<files, page, lists>>
    BY <1>9, FailedTypes DEF ServeNothing, Lose, TypeOK
  <2>2. QED
    BY <2>1, TypeOfReads DEF TypeOK, files
<1>10. ASSUME NEW r \in reads, Answer(r) PROVE TypeOK'
  <2>0. r \in Request
    BY DEF TypeOK
  <2>1. CASE ShowTail(r)
    <3>1. shown' \in Seq(Byte) /\ notice' \in BOOLEAN /\ r.to \in Nat
      BY <2>0, <2>1, BytesOfAnswer DEF ShowTail, Request
    <3>2. QED
      BY <2>1, <3>1 DEF ShowTail, TypeOK, Released, TimerAfter, files
  <2>2. CASE ShowError(r)
    <3>1. shown' = shown \/ shown' = <<>>
      BY <2>2 DEF ShowError
    <3>2. shown' \in Seq(Byte)
      <4>1. shown \in Seq(Byte)
        BY DEF TypeOK
      <4>2. <<>> \in Seq(Byte)
        BY EmptySeq
      <4>3. QED
        BY <3>1, <4>1, <4>2
    <3>3. broken' \in BOOLEAN
      BY <2>2 DEF ShowError, TypeOK
    <3>4. QED
      BY <2>2, <3>2, <3>3 DEF ShowError, TypeOK, Released, TimerAfter, files
  <2>3. CASE ShowChunk(r)
    <3>1. shown \o Bytes(r) \in Seq(Byte) /\ KeepBytes \in Nat /\ r.to \in Nat
      BY <2>0, BytesOfAnswer, ConcatProperties DEF TypeOK, Request
    <3>2. shown' \in Seq(Byte)
      BY <2>3, <3>1, LastOfProperties DEF ShowChunk
    <3>3. notice' \in BOOLEAN /\ broken' \in BOOLEAN
      BY <2>3 DEF ShowChunk, TypeOK
    <3>4. QED
      BY <2>3, <3>1, <3>2, <3>3 DEF ShowChunk, TypeOK, Released, files
  <2>4. CASE Reload(r)
    <3>1. Asked("tail", opens, view.task, 0) \in Request
      BY <2>4, AskedTypes DEF Reload, Current, IsOpen, TypeOK
    <3>2. QED
      BY <2>4, <3>1, TypeOfReads DEF Reload, TypeOK, files
  <2>5. CASE Ignore(r)
    BY <2>5 DEF Ignore, TypeOK, files, page
  <2>6. QED
    BY <1>10, <2>1, <2>2, <2>3, <2>4, <2>5 DEF Answer
<1>11. ASSUME NEW l \in lists, ShowList(l) PROVE TypeOK'
  BY <1>11 DEF ShowList, TypeOK, files
<1>12. CASE UNCHANGED vars
  BY <1>12 DEF vars, files, page, TypeOK
<1>13. QED
  BY <1>1, <1>2, <1>3, <1>4, <1>5, <1>6, <1>7, <1>8, <1>9, <1>10, <1>11, <1>12
     DEF Next, Refresh, Tick

\* Every variable keeps its type.
THEOREM TypeCorrect == Spec => []TypeOK
BY TypeInit, TypeStep, PTL DEF Spec

-----------------------------------------------------------------------------
(* What is shown is in one piece                                           *)

\* Initially no log is open.
LEMMA InvInit == Init => IInv
<1> SUFFICES ASSUME Init PROVE IInv
  OBVIOUS
<1>1. ~IsOpen /\ reads = {}
  BY DEF Init, IsOpen, NoView
<1>2. QED
  BY <1>1, TypeInit
     DEF IInv, OneRead, ReadsFit, ShownInOnePiece, EmptyIsNew, GapIsAnnounced

\* Nothing changes for the viewer but that a request is answered, or dropped.
LEMMA ReadsChange ==
    ASSUME IInv, NEW r \in reads,
           \/ reads' = reads \ {r}
           \/ \E q \in Request :
                /\ Becomes(r, q)
                /\ q.view = r.view
                /\ Consistent(q)
                /\ IsOpen /\ r.view = opens => Fits(q),
           UNCHANGED page
    PROVE OneRead' /\ ReadsFit' /\ ShownInOnePiece' /\ EmptyIsNew' /\ GapIsAnnounced'
<1>1. view' = view /\ opens' = opens /\ shown' = shown /\ notice' = notice /\ broken' = broken
      /\ IsOpen' = IsOpen
  BY DEF page, IsOpen
<1>2. ShownInOnePiece' /\ EmptyIsNew' /\ GapIsAnnounced'
  BY <1>1 DEF IInv, ShownInOnePiece, EmptyIsNew, GapIsAnnounced
<1>3. CASE reads' = reads \ {r}
  BY <1>1, <1>2, <1>3 DEF IInv, OneRead, ReadsFit, Fits
<1>4. ASSUME NEW q \in Request, Becomes(r, q), q.view = r.view, Consistent(q),
             IsOpen /\ r.view = opens => Fits(q)
      PROVE OneRead' /\ ReadsFit'
  <2>1. \A p \in reads' : p = q \/ (p \in reads /\ p # r)
    BY <1>4 DEF Becomes
  <2>2. OneRead'
    BY <1>1, <1>4, <2>1 DEF IInv, OneRead
  <2>3. ReadsFit'
    BY <1>1, <1>4, <2>1 DEF IInv, ReadsFit, Fits
  <2>4. QED
    BY <2>2, <2>3
<1>5. QED
  BY <1>2, <1>3, <1>4

\* A request that is answered fits as it did.
LEMMA ServedFits ==
    ASSUME NEW r \in Request, ~r.answered, Fits(r), view.offset \in Nat,
           NEW before \in Nat, NEW after \in Nat, before <= after
    PROVE Fits(Served(r, before, after))
<1> DEFINE q == Served(r, before, after)
<1>1. /\ q.task = r.task /\ q.kind = r.kind /\ q.answered
      /\ q.from = From(r, before) /\ q.size = before
  BY ServedTypes
<1> HIDE DEF q
<1>2. ASSUME r.kind = "chunk", view.offset <= q.size PROVE q.from = view.offset
  BY <1>1, <1>2 DEF Fits, From, AtMost
<1>3. QED
  BY <1>1, <1>2 DEF Fits, q

\* The parts of the invariant that a step of the page may disturb.
Parts == OneRead /\ ReadsFit /\ ShownInOnePiece /\ EmptyIsNew /\ GapIsAnnounced

\* A log that is opened has a request of its own and shows nothing.
LEMMA OpenKeeps ==
    ASSUME IInv, NEW t \in Tasks, Open(t)
    PROVE Parts'
<1> DEFINE q == Asked("open", opens + 1, t, 0)
<1>1. /\ q.view = opens + 1 /\ q.task = t /\ q.kind = "open" /\ q.ok = FALSE
  BY DEF Asked
<1>2. opens \in Nat /\ opens' = opens + 1 /\ view'.task = t /\ view'.offset = 0
      /\ view'.loading = TRUE /\ shown' = <<>> /\ reads' = reads \cup {q}
  BY DEF Open, IInv, TypeOK
<1>3. \A r \in reads : r.view <= opens /\ r.view \in Nat /\ r.view # opens'
  BY <1>2 DEF IInv, OneRead, TypeOK, Request
<1> HIDE DEF q
<1>4. OneRead'
  BY <1>1, <1>2, <1>3 DEF OneRead
<1>5. ReadsFit'
  BY <1>1, <1>2, <1>3 DEF IInv, ReadsFit, Fits, Consistent
<1>6. ShownInOnePiece' /\ EmptyIsNew' /\ GapIsAnnounced'
  BY <1>2, EmptySeq DEF ShownInOnePiece, EmptyIsNew, GapIsAnnounced
<1>7. QED
  BY <1>4, <1>5, <1>6 DEF Parts

\* What is closed shows nothing.
LEMMA CloseKeeps ==
    ASSUME IInv, Close
    PROVE Parts'
<1>1. ~IsOpen' /\ opens' = opens /\ reads' = reads
  BY DEF Close, IsOpen, NoView
<1>2. QED
  BY <1>1 DEF IInv, Parts, OneRead, ReadsFit, ShownInOnePiece, EmptyIsNew, GapIsAnnounced

\* A read begins when none is under way.
LEMMA ReadKeeps ==
    ASSUME IInv, NEW kind \in {"tail", "chunk"}, Read(kind)
    PROVE Parts'
<1> DEFINE q == Asked(kind, opens, view.task, view.offset)
<1>1. /\ q.view = opens /\ q.task = view.task /\ q.kind = kind /\ q.ok = FALSE
      /\ q.offset = view.offset /\ q.answered = FALSE
  BY DEF Asked
<1>2. /\ view'.task = view.task /\ view'.offset = view.offset /\ view'.loading = TRUE
      /\ IsOpen' = IsOpen /\ reads' = reads \cup {q} /\ opens' = opens /\ opens \in Nat
      /\ shown' = shown /\ notice' = notice /\ broken' = broken
  BY DEF Read, IInv, TypeOK, IsOpen
<1>3. \A r \in reads : r.view <= opens /\ r.view # opens
  BY DEF Read, MayRead, IInv, OneRead
<1> HIDE DEF q
<1>4. OneRead'
  BY <1>1, <1>2, <1>3 DEF OneRead
<1>5. ReadsFit'
  BY <1>1, <1>2, <1>3 DEF IInv, ReadsFit, Fits, Consistent
<1>6. ShownInOnePiece' /\ EmptyIsNew' /\ GapIsAnnounced'
  BY <1>2 DEF IInv, ShownInOnePiece, EmptyIsNew, GapIsAnnounced
<1>7. QED
  BY <1>4, <1>5, <1>6 DEF Parts

\* When the read of the open log is over, no other is under way.
LEMMA ReadIsOver ==
    ASSUME IInv, NEW r \in reads, Current(r), reads' = reads \ {r}, opens' = opens,
           view'.task = view.task
    PROVE OneRead' /\ ReadsFit'
<1>1. \A q \in reads' : q \in reads /\ q.view # opens'
  BY DEF IInv, OneRead, Current
<1>2. QED
  BY <1>1 DEF IInv, OneRead, ReadsFit

\* A tail takes the place of what was shown.
LEMMA ShowTailKeeps ==
    ASSUME IInv, NEW r \in reads, ShowTail(r)
    PROVE Parts'
<1>1. r \in Request /\ Consistent(r) /\ r.ok /\ r.kind # "chunk" /\ Fits(r)
  BY DEF IInv, TypeOK, ReadsFit, ShowTail, Current
<1>2. r.from \in Nat /\ r.raw \in Nat /\ r.to = r.from + r.raw /\ r.task = view.task
      /\ (r.from > 0 => r.cut) /\ (r.raw = 0 => r.from = 0)
  BY <1>1 DEF Consistent, Fits, Request
<1>3. view'.task = view.task /\ view'.offset = r.to
  BY DEF ShowTail, Released, IInv, TypeOK
<1>4. shown' = Bytes(r) /\ notice' = r.cut
  BY DEF ShowTail
<1>5. OneRead' /\ ReadsFit'
  BY <1>3, ReadIsOver DEF ShowTail
<1>6. /\ shown' \in Seq(Byte) /\ Len(shown') = r.raw
      /\ \A i \in 1..r.raw :
            shown'[i].task = view.task /\ shown'[i].pos = r.from + i - 1
  BY <1>1, <1>2, <1>4, BytesOfAnswer
<1>7. ShownInOnePiece'
  BY <1>2, <1>3, <1>6 DEF ShownInOnePiece
<1>8. EmptyIsNew'
  <2>1. shown' = <<>> => r.raw = 0
    BY <1>6, EmptySeq
  <2>2. QED
    BY <1>2, <1>3, <2>1 DEF EmptyIsNew
<1>9. GapIsAnnounced'
  <2>1. shown' # <<>> => 1 \in 1..r.raw
    BY <1>2, <1>6, EmptySeq
  <2>2. QED
    <3> SUFFICES ASSUME shown' # <<>>, shown'[1].pos > 0 PROVE notice'
      BY DEF GapIsAnnounced
    <3>1. shown'[1].pos = r.from
      BY <1>2, <1>6, <2>1
    <3>2. r.cut
      BY <1>2, <3>1
    <3>3. QED
      BY <1>4, <3>2
<1>10. QED
  BY <1>5, <1>7, <1>8, <1>9 DEF Parts

\* An error takes its place as well, or changes nothing.
LEMMA ShowErrorKeeps ==
    ASSUME IInv, NEW r \in reads, ShowError(r)
    PROVE Parts'
<1>1. /\ view'.task = view.task /\ view'.offset = view.offset /\ IsOpen' = IsOpen
      /\ notice' = notice
  BY DEF ShowError, Released, IInv, TypeOK, IsOpen
<1>2. OneRead' /\ ReadsFit'
  BY <1>1, ReadIsOver DEF ShowError
<1>3. ShownInOnePiece' /\ EmptyIsNew' /\ GapIsAnnounced'
  <2>1. CASE r.kind = "chunk"
    <3>1. shown' = shown /\ broken' = broken
      BY <2>1 DEF ShowError
    <3>2. QED
      BY <1>1, <3>1 DEF IInv, ShownInOnePiece, EmptyIsNew, GapIsAnnounced
  <2>2. CASE r.kind # "chunk"
    <3>1. shown' = <<>> /\ broken'
      BY <2>2 DEF ShowError
    <3>2. QED
      BY <1>1, <3>1, EmptySeq DEF ShownInOnePiece, EmptyIsNew, GapIsAnnounced
  <2>3. QED
    BY <2>1, <2>2
<1>4. QED
  BY <1>2, <1>3 DEF Parts

\* A chunk continues what is shown; what it pushes out is announced.
LEMMA ShowChunkKeeps ==
    ASSUME IInv, NEW r \in reads, ShowChunk(r)
    PROVE Parts'
<1> DEFINE text == shown \o Bytes(r)
           kept == AtMost(Len(text), KeepBytes)
<1>1. r \in Request /\ Consistent(r) /\ r.ok /\ r.kind = "chunk" /\ Fits(r)
      /\ r.answered /\ IsOpen /\ shown \in Seq(Byte) /\ view.offset \in Nat
  BY DEF IInv, TypeOK, ReadsFit, ShowChunk, Current
<1>2. /\ r.from = view.offset /\ r.raw \in Nat /\ r.to = view.offset + r.raw
      /\ r.task = view.task
  <2>1. r.size \in Nat /\ view.offset <= r.size
    BY <1>1 DEF ShowChunk, Replaced, Request
  <2>2. QED
    BY <1>1, <2>1 DEF Consistent, Fits, Request
<1>3. view'.task = view.task /\ view'.offset = r.to /\ IsOpen'
  BY <1>1 DEF ShowChunk, Released, IInv, TypeOK, IsOpen
<1>4. /\ shown' = LastOf(text, KeepBytes)
      /\ notice' = (notice \/ Len(text) > KeepBytes)
      /\ broken' = (broken /\ ~(Len(text) > KeepBytes))
  BY DEF ShowChunk
<1>5. OneRead' /\ ReadsFit'
  BY <1>3, ReadIsOver DEF ShowChunk
<1>6. /\ text \in Seq(Byte)
      /\ Len(shown) \in Nat
      /\ Len(text) = Len(shown) + r.raw
      /\ \A i \in 1..(Len(shown) + r.raw) :
            text[i] = IF i <= Len(shown) THEN shown[i] ELSE Bytes(r)[i - Len(shown)]
  <2>1. Bytes(r) \in Seq(Byte) /\ Len(Bytes(r)) = r.raw
    BY <1>1, BytesOfAnswer
  <2>2. QED
    BY <1>1, <2>1, ConcatProperties, LenProperties
<1>7. \A i \in 1..Len(text) :
        text[i].task = view.task /\ text[i].pos + Len(text) = r.to + i - 1
  <2> SUFFICES ASSUME NEW i \in 1..Len(text)
               PROVE text[i].task = view.task /\ text[i].pos + Len(text) = r.to + i - 1
    OBVIOUS
  <2> HIDE DEF text
  <2>1. CASE i <= Len(shown)
    <3>1. i \in 1..Len(shown) /\ text[i] = shown[i]
      BY <1>2, <1>6, <2>1
    <3>2. shown[i].task = view.task /\ shown[i].pos + Len(shown) = view.offset + i - 1
      BY <1>1, <3>1 DEF IInv, ShownInOnePiece
    <3>3. shown[i].pos \in Nat
      BY <1>1, <3>1, PositionOfByte
    <3>4. QED
      <4>1. text[i].task = view.task
        BY <3>1, <3>2
      <4>2. text[i].pos + Len(shown) = view.offset + i - 1 /\ text[i].pos \in Nat
        BY <3>1, <3>2, <3>3
      <4>3. text[i].pos + Len(text) = r.to + i - 1
        <5>1. /\ Len(text) = Len(shown) + r.raw /\ r.to = view.offset + r.raw
              /\ Len(shown) \in Nat /\ r.raw \in Nat /\ view.offset \in Nat /\ i \in Nat
          BY <1>1, <1>2, <1>6
        <5> DEFINE pos == text[i].pos
                   l == Len(shown)
                   o == view.offset
                   n == r.raw
        <5>2. pos + l = o + i - 1 /\ pos \in Nat /\ l \in Nat /\ o \in Nat /\ n \in Nat
              /\ Len(text) = l + n /\ r.to = o + n
          BY <4>2, <5>1
        <5>3. i \in Nat
          BY <5>1
        <5> HIDE DEF pos, l, o, n
        <5>4. pos + (l + n) = (o + n) + i - 1
          BY <5>2, <5>3
        <5>5. QED
          BY <5>2, <5>4 DEF pos
      <4>4. QED
        BY <4>1, <4>3
  <2>2. CASE ~(i <= Len(shown))
    <3>1. i - Len(shown) \in 1..r.raw /\ text[i] = Bytes(r)[i - Len(shown)]
      BY <1>2, <1>6, <2>2
    <3>2. text[i].task = r.task /\ text[i].pos = r.from + (i - Len(shown)) - 1
      BY <1>1, <3>1, BytesOfAnswer
    <3>3. QED
      BY <1>1, <1>2, <1>6, <3>2
  <2>3. QED
    BY <2>1, <2>2
<1>8. /\ shown' \in Seq(Byte)
      /\ Len(shown') = kept
      /\ \A i \in 1..kept : shown'[i] = text[Len(text) - kept + i]
      /\ KeepBytes \in Nat \ {0}
  <2>1. KeepBytes \in Nat \ {0}
    BY ConstantsAssumption
  <2> HIDE DEF text
  <2>2. QED
    BY <1>4, <1>6, <2>1, LastOfProperties
<1>9. kept \in 0..Len(text) /\ Len(text) \in Nat /\ r.to \in Nat
      /\ (kept = 0 => Len(text) = 0) /\ (Len(text) <= KeepBytes => kept = Len(text))
  <2> HIDE DEF text
  <2>1. QED
    BY <1>1, <1>2, <1>6, <1>8 DEF AtMost
<1> HIDE DEF text, kept
<1>10. ShownInOnePiece'
  <2> SUFFICES ASSUME NEW i \in 1..kept
               PROVE /\ shown'[i].task = view.task
                     /\ shown'[i].pos + kept = r.to + i - 1
    BY <1>3, <1>8 DEF ShownInOnePiece
  <2>1. Len(text) - kept + i \in 1..Len(text)
    BY <1>9
  <2>2. shown'[i] = text[Len(text) - kept + i]
    BY <1>8
  <2>3. /\ shown'[i].task = view.task
        /\ shown'[i].pos + Len(text) = r.to + (Len(text) - kept + i) - 1
    BY <1>7, <2>1, <2>2
  <2>4. shown'[i].pos \in Nat
    BY <1>8, PositionOfByte
  <2>5. QED
    BY <1>9, <2>3, <2>4
<1>11. EmptyIsNew'
  <2> SUFFICES ASSUME shown' = <<>> PROVE view'.offset = 0 \/ broken'
    BY DEF EmptyIsNew
  <2>1. Len(text) = 0
    BY <1>8, <1>9, EmptySeq
  <2>2. Len(shown) = 0 /\ r.raw = 0
    BY <1>2, <1>6, <2>1
  <2>3. shown = <<>>
    BY <1>1, <2>2, EmptySeq
  <2>4. view.offset = 0 \/ broken
    BY <1>1, <2>3 DEF IInv, EmptyIsNew
  <2>5. broken' = broken
    BY <1>4, <1>8, <2>1 DEF IInv, TypeOK
  <2>6. QED
    BY <1>1, <1>2, <1>3, <2>2, <2>4, <2>5
<1>12. GapIsAnnounced'
  <2> SUFFICES ASSUME shown' # <<>>, shown'[1].pos > 0 PROVE notice' \/ broken'
    BY DEF GapIsAnnounced
  <2>1. CASE Len(text) > KeepBytes
    BY <1>4, <2>1
  <2>2. CASE ~(Len(text) > KeepBytes)
    <3>1. kept = Len(text) /\ notice' = notice /\ broken' = broken
      BY <1>4, <1>8, <1>9, <2>2 DEF IInv, TypeOK
    <3>2. 1 \in 1..Len(text)
      BY <1>8, <1>9, <3>1, EmptySeq
    <3>3. shown'[1] = text[1]
      BY <1>8, <1>9, <3>1, <3>2
    <3>4. CASE shown # <<>>
      <4>1. Len(shown) \in Nat \ {0}
        BY <1>1, <3>4, EmptySeq
      <4>2. text[1] = shown[1]
        BY <1>2, <1>6, <4>1
      <4>3. QED
        BY <1>1, <3>1, <3>3, <3>4, <4>2 DEF IInv, GapIsAnnounced
    <3>5. CASE shown = <<>>
      <4>1. Len(shown) = 0
        BY <3>5, EmptySeq
      <4>2. text[1].pos + Len(text) = r.to + 1 - 1 /\ Len(text) = r.raw
        BY <1>2, <1>6, <1>7, <3>2, <4>1
      <4>3. text[1].pos \in Nat
        BY <1>6, <3>2, PositionOfByte
      <4>4. view.offset > 0
        BY <1>1, <1>2, <3>3, <4>2, <4>3
      <4>5. QED
        BY <1>1, <3>1, <3>5, <4>4 DEF IInv, EmptyIsNew
    <3>6. QED
      BY <3>4, <3>5
  <2>3. QED
    BY <2>1, <2>2
<1>13. QED
  BY <1>5, <1>10, <1>11, <1>12 DEF Parts

\* Every step keeps the invariant.
LEMMA InvStep == IInv /\ [Next]_vars => IInv'
<1> SUFFICES ASSUME IInv, [Next]_vars PROVE Parts'
  BY TypeStep DEF IInv, Parts
<1>1. ASSUME UNCHANGED <<page, reads>> PROVE Parts'
  BY <1>1 DEF IInv, Parts, OneRead, ReadsFit, Fits, Consistent, ShownInOnePiece, EmptyIsNew,
              GapIsAnnounced, IsOpen, page
<1>2. ASSUME NEW t \in Tasks, Launch(t) \/ Write(t) \/ Finish(t) \/ Unlink(t) PROVE Parts'
  BY <1>1, <1>2 DEF Launch, Write, Finish, Unlink
<1>3. ASSUME NEW r \in reads, ServeLog(r) PROVE Parts'
  <2>1. r \in Request /\ ~r.answered /\ view.offset \in Nat /\ UNCHANGED page
    BY <1>3 DEF ServeLog, IInv, TypeOK
  <2>2. PICK before, after \in Nat :
          before <= after /\ Becomes(r, Served(r, before, after))
    BY <1>3, SizesOfRead DEF IInv
  <2> DEFINE q == Served(r, before, after)
  <2>3. q \in Request /\ q.view = r.view /\ Consistent(q)
    BY <2>1, <2>2, ServedTypes, ServedIsConsistent
  <2>4. IsOpen /\ r.view = opens => Fits(q)
    BY <2>1, <2>2, ServedFits DEF IInv, ReadsFit
  <2> HIDE DEF q
  <2>5. Becomes(r, q)
    BY <2>2 DEF q
  <2>6. QED
    BY <2>1, <2>3, <2>4, <2>5, ReadsChange DEF Parts
<1>4. ASSUME NEW r \in reads, ServeNothing(r) \/ Lose(r) PROVE Parts'
  <2>1. r \in Request /\ ~r.answered /\ Becomes(r, Failed(r)) /\ UNCHANGED page
        /\ Consistent(r)
    BY <1>4 DEF ServeNothing, Lose, IInv, TypeOK, ReadsFit
  <2>2. ~r.ok
    BY <2>1 DEF Consistent
  <2> DEFINE q == Failed(r)
  <2>3. q \in Request /\ q.view = r.view /\ ~q.ok /\ q.task = r.task /\ q.answered
    BY <2>1, <2>2, FailedTypes
  <2> HIDE DEF q
  <2>4. Consistent(q) /\ (IsOpen /\ r.view = opens => Fits(q))
    BY <2>3 DEF Consistent, Fits, IInv, ReadsFit
  <2>5. Becomes(r, q)
    BY <2>1 DEF q
  <2>6. QED
    BY <2>1, <2>3, <2>4, <2>5, ReadsChange DEF Parts
<1>5. ASSUME NEW r \in reads, Reload(r) PROVE Parts'
  <2>1. Current(r) /\ r \in Request /\ UNCHANGED page
        /\ opens \in Nat /\ view.task \in Tasks /\ view.offset \in Nat
    BY <1>5 DEF Reload, IInv, TypeOK, Current, IsOpen
  <2> DEFINE q == Asked("tail", opens, view.task, 0)
  <2>2. q \in Request
    BY <2>1, AskedTypes
  <2>3. q.view = r.view /\ ~q.ok /\ q.task = view.task /\ q.kind = "tail"
    BY <2>1 DEF Asked, Current
  <2> HIDE DEF q
  <2>4. Consistent(q) /\ (IsOpen /\ r.view = opens => Fits(q))
    BY <2>3 DEF Consistent, Fits
  <2>5. Becomes(r, q)
    BY <1>5 DEF Reload, q
  <2>6. QED
    BY <2>1, <2>2, <2>3, <2>4, <2>5, ReadsChange DEF Parts
<1>6. ASSUME NEW r \in reads, Ignore(r) PROVE Parts'
  BY <1>6, ReadsChange DEF Ignore, Parts
<1>7. ASSUME NEW l \in lists, ShowList(l) PROVE Parts'
  <2>1. view'.task = view.task /\ view'.offset = view.offset /\ view'.loading = view.loading
    BY <1>7 DEF ShowList, IInv, TypeOK
  <2>2. UNCHANGED <<opens, shown, notice, broken, reads>> /\ IsOpen' = IsOpen
    BY <1>7, <2>1 DEF ShowList, IsOpen
  <2>3. OneRead' /\ ReadsFit'
    BY <2>1, <2>2 DEF IInv, OneRead, ReadsFit, Fits
  <2>4. ShownInOnePiece' /\ EmptyIsNew' /\ GapIsAnnounced'
    BY <2>1, <2>2 DEF IInv, ShownInOnePiece, EmptyIsNew, GapIsAnnounced
  <2>5. QED
    BY <2>3, <2>4 DEF Parts
<1>8. CASE UNCHANGED vars
  BY <1>1, <1>8 DEF vars
<1>9. QED
  BY <1>2, <1>3, <1>4, <1>5, <1>6, <1>7, <1>8, OpenKeeps, CloseKeeps, ReadKeeps,
     ShowTailKeeps, ShowErrorKeeps, ShowChunkKeeps
     DEF Next, Answer, Refresh, Tick

\* The inductive invariant holds.
THEOREM Invariance == Spec => []IInv
BY InvInit, InvStep, PTL DEF Spec

\* What an open log shows is of its task, in one piece, and ends where the next
\* read begins.
THEOREM LogsAreWhole == Spec => []ShownInOnePiece
<1>1. IInv => ShownInOnePiece
  BY DEF IInv
<1>2. QED
  BY <1>1, Invariance, PTL

\* If the beginning of the log is not shown, the reader is told so.
THEOREM GapsAreAnnounced == Spec => []GapIsAnnounced
<1>1. IInv => GapIsAnnounced
  BY DEF IInv
<1>2. QED
  BY <1>1, Invariance, PTL

-----------------------------------------------------------------------------
(* A view gets on                                                          *)

\* While a view is loading, a read of it is under way: the flag that keeps the timer
\* and the button from reading is never left behind by a read that was lost, failed
\* or belonged to another log.
LoadingIsRead == IsOpen /\ view.loading => \E r \in reads : r.view = opens

\* An answer brings a byte at least, if the log had one where it starts.
NoneIsEmpty == \A r \in reads : r.ok /\ r.from < r.size => r.raw > 0

ReadInv == LoadingIsRead /\ NoneIsEmpty

\* A step that leaves the flag alone, or clears it, and drops no read of the view.
LEMMA ReadsLast ==
    ASSUME LoadingIsRead, IsOpen' = IsOpen, opens' = opens,
           view'.loading => view.loading,
           \A r \in reads : r.view = opens => \E q \in reads' : q.view = opens
    PROVE  LoadingIsRead'
BY DEF LoadingIsRead

\* An answer that was given is not empty where the log was not.
LEMMA ServedBrings ==
    ASSUME NEW r \in Request, NEW before \in Nat, NEW after \in Nat, before <= after
    PROVE  LET q == Served(r, before, after)
           IN  q.view = r.view /\ (q.ok /\ q.from < q.size => q.raw > 0)
<1> DEFINE q == Served(r, before, after)
<1>1. /\ q.view = r.view /\ q.from = From(r, before) /\ q.size = before
      /\ q.raw = AtMost(Limit(r), after - q.from)
  BY ServedTypes
<1>2. From(r, before) \in 0..before /\ Limit(r) \in Nat \ {0}
  BY FromWithin
<1> HIDE DEF q
<1>3. q.from < q.size => q.raw > 0
  BY <1>1, <1>2 DEF AtMost
<1>4. QED
  BY <1>1, <1>3 DEF q

\* Every step keeps it.
LEMMA ReadStep == IInv /\ ReadInv /\ [Next]_vars => ReadInv'
<1> SUFFICES ASSUME IInv, ReadInv, [Next]_vars PROVE LoadingIsRead' /\ NoneIsEmpty'
  BY DEF ReadInv
<1>0. LoadingIsRead /\ NoneIsEmpty /\ reads \subseteq Request
  BY DEF ReadInv, IInv, TypeOK
<1>1. ASSUME UNCHANGED <<page, reads>> PROVE LoadingIsRead' /\ NoneIsEmpty'
  BY <1>0, <1>1 DEF LoadingIsRead, NoneIsEmpty, page, IsOpen
<1>2. ASSUME NEW t \in Tasks, Launch(t) \/ Write(t) \/ Finish(t) \/ Unlink(t)
      PROVE  LoadingIsRead' /\ NoneIsEmpty'
  BY <1>1, <1>2 DEF Launch, Write, Finish, Unlink
<1>3. ASSUME NEW r \in reads, NEW q, Becomes(r, q), q.view = r.view, UNCHANGED page,
             q.ok /\ q.from < q.size => q.raw > 0
      PROVE  LoadingIsRead' /\ NoneIsEmpty'
  <2>1. q \in reads' /\ \A p \in reads : p = r \/ p \in reads'
    BY <1>3 DEF Becomes
  <2>2. LoadingIsRead'
    BY <1>0, <1>3, <2>1, ReadsLast DEF page, IsOpen
  <2>3. NoneIsEmpty'
    BY <1>0, <1>3 DEF Becomes, NoneIsEmpty
  <2>4. QED
    BY <2>2, <2>3
<1>4. ASSUME NEW r \in reads, ServeLog(r) PROVE LoadingIsRead' /\ NoneIsEmpty'
  <2>1. PICK before, after \in Nat :
          before <= after /\ Becomes(r, Served(r, before, after))
    BY <1>4, SizesOfRead DEF IInv
  <2>2. UNCHANGED page
    BY <1>4 DEF ServeLog
  <2> DEFINE q == Served(r, before, after)
  <2>3. q.view = r.view /\ (q.ok /\ q.from < q.size => q.raw > 0)
    BY <1>0, <2>1, ServedBrings
  <2> HIDE DEF q
  <2>4. Becomes(r, q)
    BY <2>1 DEF q
  <2>5. QED
    BY <1>3, <2>2, <2>3, <2>4
<1>5. ASSUME NEW r \in reads, ServeNothing(r) \/ Lose(r) PROVE LoadingIsRead' /\ NoneIsEmpty'
  <2>1. Becomes(r, Failed(r)) /\ UNCHANGED page
    BY <1>5 DEF ServeNothing, Lose
  <2> DEFINE q == Failed(r)
  <2>2. q.view = r.view /\ q.ok = r.ok /\ q.from = r.from /\ q.size = r.size /\ q.raw = r.raw
    BY <1>0 DEF Failed, Request
  <2>3. q.ok /\ q.from < q.size => q.raw > 0
    BY <1>0, <2>2 DEF NoneIsEmpty
  <2> HIDE DEF q
  <2>4. Becomes(r, q)
    BY <2>1 DEF q
  <2>5. QED
    BY <1>3, <2>1, <2>2, <2>3, <2>4
<1>6. ASSUME NEW r \in reads, Reload(r) PROVE LoadingIsRead' /\ NoneIsEmpty'
  <2> DEFINE q == Asked("tail", opens, view.task, 0)
  <2>1. q.view = r.view /\ ~q.ok /\ UNCHANGED page
    BY <1>6 DEF Reload, Current, Asked
  <2> HIDE DEF q
  <2>2. Becomes(r, q)
    BY <1>6 DEF Reload, q
  <2>3. QED
    BY <1>3, <2>1, <2>2
<1>7. ASSUME NEW r \in reads, ShowTail(r) \/ ShowError(r) \/ ShowChunk(r)
      PROVE  LoadingIsRead' /\ NoneIsEmpty'
  <2>1. ~view'.loading /\ reads' \subseteq reads
    BY <1>7 DEF ShowTail, ShowError, ShowChunk, Released, IInv, TypeOK
  <2>2. QED
    BY <1>0, <2>1 DEF LoadingIsRead, NoneIsEmpty
<1>8. ASSUME NEW r \in reads, Ignore(r) PROVE LoadingIsRead' /\ NoneIsEmpty'
  <2>1. /\ reads' = reads \ {r} /\ view' = view /\ opens' = opens
        /\ IsOpen => r.view # opens
    BY <1>8 DEF Ignore, page, Current
  <2>2. QED
    BY <1>0, <2>1 DEF LoadingIsRead, NoneIsEmpty, IsOpen
<1>9. ASSUME NEW t \in Tasks, Open(t) PROVE LoadingIsRead' /\ NoneIsEmpty'
  <2> DEFINE q == Asked("open", opens + 1, t, 0)
  <2>1. q.view = opens' /\ ~q.ok
    BY <1>9 DEF Open, Asked
  <2> HIDE DEF q
  <2>2. reads' = reads \cup {q}
    BY <1>9 DEF Open, q
  <2>3. QED
    BY <1>0, <2>1, <2>2 DEF LoadingIsRead, NoneIsEmpty
<1>10. CASE Close
  BY <1>0, <1>10 DEF Close, LoadingIsRead, NoneIsEmpty, IsOpen, NoView
<1>11. ASSUME NEW kind \in {"tail", "chunk"}, Read(kind) PROVE LoadingIsRead' /\ NoneIsEmpty'
  <2> DEFINE q == Asked(kind, opens, view.task, view.offset)
  <2>1. q.view = opens' /\ ~q.ok
    BY <1>11 DEF Read, Asked
  <2> HIDE DEF q
  <2>2. reads' = reads \cup {q}
    BY <1>11 DEF Read, q
  <2>3. QED
    BY <1>0, <2>1, <2>2 DEF LoadingIsRead, NoneIsEmpty
<1>12. ASSUME NEW l \in lists, ShowList(l) PROVE LoadingIsRead' /\ NoneIsEmpty'
  <2>1. view'.task = view.task /\ view'.loading = view.loading /\ reads' = reads /\ opens' = opens
    BY <1>12 DEF ShowList, IInv, TypeOK
  <2>2. QED
    BY <1>0, <2>1 DEF LoadingIsRead, NoneIsEmpty, IsOpen
<1>13. CASE UNCHANGED vars
  BY <1>1, <1>13 DEF vars
<1>14. QED
  BY <1>2, <1>4, <1>5, <1>6, <1>7, <1>8, <1>9, <1>10, <1>11, <1>12, <1>13
     DEF Next, Answer, Refresh, Tick

\* The invariant about reads that are under way.
LEMMA ReadInvariance == Spec => []ReadInv
<1>1. Init => ReadInv
  BY DEF Init, ReadInv, LoadingIsRead, NoneIsEmpty, IsOpen, NoView
<1>2. QED
  BY <1>1, ReadStep, Invariance, PTL DEF Spec

\* No view waits for a read that is not there, whatever is lost, late or closed.
THEOREM NoReadIsForgotten == Spec => []LoadingIsRead
<1>1. ReadInv => LoadingIsRead
  BY DEF ReadInv
<1>2. QED
  BY <1>1, ReadInvariance, PTL

\* Within one opening, a view changes what it has read only by an answer to its own
\* read: a tail that is read anew, or a chunk that brings it forward, and a chunk
\* that finds something to read always does.
ViewsGoForward ==
    [][IsOpen /\ IsOpen' /\ opens' = opens =>
        /\ view'.offset # view.offset =>
             \E r \in reads : /\ Current(r) /\ r.ok
                              /\ r.kind = "chunk" => view'.offset > view.offset
        /\ \A r \in reads :
             ShowChunk(r) /\ view.offset < r.size => view'.offset > view.offset]_vars

\* What a chunk does to the offset of the view.
LEMMA ChunkGoesForward ==
    ASSUME IInv, ReadInv, NEW r \in reads, ShowChunk(r)
    PROVE  /\ view'.offset >= view.offset
           /\ view.offset < r.size => view'.offset > view.offset
<1>1. r \in Request /\ Consistent(r) /\ r.ok /\ r.kind = "chunk" /\ Fits(r)
      /\ view.offset \in Nat
  BY DEF IInv, TypeOK, ReadsFit, ShowChunk, Current
<1>2. r.size \in Nat /\ view.offset <= r.size
  BY <1>1 DEF ShowChunk, Replaced, Request
<1>3. r.from = view.offset /\ r.raw \in Nat /\ r.to = view.offset + r.raw
  BY <1>1, <1>2 DEF Consistent, Fits, Request
<1>4. view'.offset = r.to
  BY DEF ShowChunk, Released, IInv, TypeOK
<1>5. view.offset < r.size => r.raw > 0
  BY <1>1, <1>3 DEF ReadInv, NoneIsEmpty
<1>6. QED
  BY <1>1, <1>3, <1>4, <1>5

\* A view goes back only when it reads its log anew, and never stands still when a
\* chunk finds more.
THEOREM ViewsOnlyGoForward == Spec => ViewsGoForward
<1>1. ASSUME IInv, ReadInv, [Next]_vars, IsOpen, IsOpen', opens' = opens,
             view'.offset # view.offset
      PROVE  \E r \in reads : /\ Current(r) /\ r.ok
                              /\ r.kind = "chunk" => view'.offset > view.offset
  <2>0. view.offset \in Nat /\ view'.offset \in Nat /\ opens \in Nat
    BY <1>1, TypeStep DEF IInv, TypeOK
  <2>1. ASSUME NEW r \in reads, ShowTail(r) \/ ShowChunk(r)
        PROVE  /\ Current(r) /\ r.ok
               /\ r.kind = "chunk" => view'.offset > view.offset
    BY <1>1, <2>0, <2>1, ChunkGoesForward DEF ShowTail, ShowChunk
  <2>2. ASSUME NEW t \in Tasks, Open(t) PROVE FALSE
    BY <1>1, <2>0, <2>2 DEF Open
  <2>3. ~Close
    BY <1>1 DEF Close, IsOpen, NoView
  <2>4. ASSUME NEW kind \in {"tail", "chunk"}, Read(kind) PROVE FALSE
    BY <1>1, <2>4 DEF Read, IInv, TypeOK
  <2>5. ASSUME NEW l \in lists, ShowList(l) PROVE FALSE
    BY <1>1, <2>5 DEF ShowList, IInv, TypeOK
  <2>6. ASSUME NEW r \in reads, ShowError(r) PROVE FALSE
    BY <1>1, <2>6 DEF ShowError, Released, IInv, TypeOK
  <2>7. QED
    BY <1>1, <2>1, <2>2, <2>3, <2>4, <2>5, <2>6
       DEF Next, Answer, Refresh, Tick, Launch, Write, Finish, Unlink, ServeLog, ServeNothing,
           Lose, Reload, Ignore, page, vars
<1>2. IInv /\ ReadInv /\ [Next]_vars =>
        [IsOpen /\ IsOpen' /\ opens' = opens =>
            /\ view'.offset # view.offset =>
                 \E r \in reads : /\ Current(r) /\ r.ok
                                  /\ r.kind = "chunk" => view'.offset > view.offset
            /\ \A r \in reads :
                 ShowChunk(r) /\ view.offset < r.size => view'.offset > view.offset]_vars
  BY <1>1, ChunkGoesForward
<1>3. QED
  BY <1>2, Invariance, ReadInvariance, PTL DEF Spec, ViewsGoForward
=============================================================================
