----------------------------- MODULE DumpScan ------------------------------
(***************************************************************************)
(* The main pass over a heap dump (analyzers/heap_dump.py): _Reader, the   *)
(* loop over the top-level records and _scan_heap_segment, which walks the *)
(* records of a segment through a buffer of its own, skips payloads past   *)
(* it, and in quick mode stops inside a segment.                           *)
(*                                                                         *)
(* A file is a sequence of cells.  The first cell of a record says what it *)
(* is, the others are data:                                                *)
(*   top-level records   segment, END, or another; length cells follow a   *)
(*                       header of TopHeader cells                         *)
(*   heap records        instance, array, root, class, info or an unknown  *)
(*                       one: parts, read one after the other, and payload,*)
(*                       which is read if kept is set and else skipped     *)
(* The sizes stand for those of the format; only their sums matter.  The   *)
(* time budget and the progress callbacks are left out.                    *)
(***************************************************************************)
EXTENDS Naturals, Sequences, FiniteSets, SequencesExt, FiniteSetsExt, Sums

CONSTANTS
    Scans,       \* the inputs: [file, chunk, buffer, interval, budget]
    TopHeader    \* cells of a top-level header

-----------------------------------------------------------------------------
(* The files.  id is the place of a cell in the file.                      *)

TopKinds == {"segment", "END", "other"}
HeapKinds == {"instance", "array", "root", "class", "info"}
DumpCells == [kind : TopKinds \cup HeapKinds \cup {"unknown", "data"}, id : Nat,
              parts : Seq(Nat), payload : Nat, kept : BOOLEAN, length : Nat]

Least(a, b) == IF a =< b THEN a ELSE b
Most(a, b) == IF a >= b THEN a ELSE b

\* The first cell behind the top-level record, or the heap record, at i.
TopEnd(file, i) == i + TopHeader + file[i].length
HeapEnd(file, i) == i + 1 + SumOf(file[i].parts) + file[i].payload

\* Nothing but data between the cell i and the cell n.
DataBetween(file, i, n) ==
    \A k \in i + 1 .. Least(n - 1, Len(file)) : file[k].kind = "data"

\* The heap record at i, in a segment up to the cell before end.
IsHeapRecord(file, i, end) ==
    LET next == HeapEnd(file, i)
    IN  /\ file[i].kind = "class" \/ Len(file[i].parts) = 1
        /\ file[i].kind \in {"instance", "array"} \/ file[i].payload = 0
        /\ next =< end /\ DataBetween(file, i, next)
        /\ next < end => file[next].kind \in HeapKinds \cup {"unknown"}

\* The top-level record at i, of a file that may be cut off in it.
IsTopRecord(file, i) ==
    LET body == i + TopHeader
        end == TopEnd(file, i)
    IN  /\ DataBetween(file, i, IF file[i].kind = "segment" THEN body ELSE end)
        /\ end \in DOMAIN file => file[end].kind \in TopKinds
        /\ file[i].kind = "segment" /\ end - 1 =< Len(file) =>
               /\ body < end => file[body].kind \in HeapKinds \cup {"unknown"}
               /\ \A k \in body .. end - 1 :
                      file[k].kind \in HeapKinds => IsHeapRecord(file, k, end)

IsDump(file) ==
    /\ file \in Seq(DumpCells)
    /\ \A i \in DOMAIN file : file[i].id = i
    /\ file # <<>> => file[1].kind \in TopKinds
    /\ \A i \in DOMAIN file : file[i].kind \in TopKinds => IsTopRecord(file, i)

ASSUME ScansAssumption ==
    \A scan \in Scans : /\ IsDump(scan.file) /\ scan.chunk \in Nat /\ scan.buffer \in Nat
                        /\ scan.interval \in Nat \ {0} /\ scan.budget \in Nat

ASSUME TopHeaderAssumption == TopHeader \in Nat \ {0}

VARIABLES
    task,      \* the input
    reader,    \* _Reader: [at, buf, pos, incomplete]
    segment,   \* the segment: [remaining, buf, subs], buf without what is read
    counted,   \* records that were counted or noted, in order
    stopped,   \* stopped_early_at, 0 for none
    state      \* "idle", "top", "segment", "done" or "failed"

scanVars == <<task, reader, segment, counted, stopped, state>>

NoTask == [file |-> <<>>, chunk |-> 1, buffer |-> 1, interval |-> 1, budget |-> 0]
NoReader == [at |-> 0, buf |-> <<>>, pos |-> 0, incomplete |-> FALSE]
NoSegment == [remaining |-> 0, buf |-> <<>>, subs |-> 0]

FileSize == Len(task.file)
Drop(s, n) == SubSeq(s, n + 1, Len(s))
Take(s, n) == SubSeq(s, 1, n)

-----------------------------------------------------------------------------
(* _Reader *)

Fill(r, n) ==
    IF Len(r.buf) >= n THEN r
    ELSE LET upto == Least(r.at + Most(task.buffer, n), FileSize)
         IN  [r EXCEPT !.buf = @ \o SubSeq(task.file, r.at + 1, upto),
                       !.at = Most(@, upto)]

\* What a read of n cells returns, and the reader after it.
DataOf(r, n) == LET full == Fill(r, n) IN Take(full.buf, Least(n, Len(full.buf)))
Read(r, n) ==
    LET full == Fill(r, n)
        got == Least(n, Len(full.buf))
    IN  [full EXCEPT !.buf = Drop(@, got), !.pos = @ + got]

\* Past the buffer the file is sought, also beyond its end.
Skip(r, n) ==
    IF Len(r.buf) >= n THEN [r EXCEPT !.buf = Drop(@, n), !.pos = @ + n]
    ELSE [r EXCEPT !.buf = <<>>, !.pos = @ + n, !.at = @ + (n - Len(r.buf))]

-----------------------------------------------------------------------------
(* The buffer of a segment.  A walk is [reader, segment]. *)

Walk == [reader |-> reader, segment |-> segment]

Refill(w, need) ==
    LET take == Least(Most(task.chunk, need), w.segment.remaining)
        chunk == DataOf(w.reader, take)
    IN  IF w.segment.remaining = 0 THEN w
        ELSE [reader |-> Read(w.reader, take),
              segment |-> [w.segment EXCEPT !.remaining = @ - Len(chunk), !.buf = @ \o chunk]]

Ensure(w, n) ==
    IF Len(w.segment.buf) < n THEN Refill(w, n - Len(w.segment.buf)) ELSE w
Buffered(w, n) == Len(w.segment.buf) >= n
Pass(w, n) == [w EXCEPT !.segment.buf = Drop(@, Least(n, Len(@)))]

SkipPayload(w, n) ==
    LET rest == n - Least(n, Len(w.segment.buf))
        take == Least(rest, w.segment.remaining)
    IN  IF rest = 0 THEN Pass(w, n)
        ELSE [reader |-> Skip(w.reader, take),
              segment |-> [w.segment EXCEPT !.buf = <<>>, !.remaining = @ - take]]

\* A class is read part by part.
PassParts(w, parts) ==
    LET passed[k \in 0..Len(parts)] ==
            IF k = 0 THEN w ELSE Pass(Ensure(passed[k - 1], parts[k]), parts[k])
    IN  passed[Len(parts)]

-----------------------------------------------------------------------------
(* The steps *)

ScanIdle ==
    /\ task = NoTask /\ reader = NoReader /\ segment = NoSegment
    /\ counted = <<>> /\ stopped = 0 /\ state = "idle"

ScanInit ==
    /\ task \in Scans
    /\ reader = NoReader /\ segment = NoSegment
    /\ counted = <<>> /\ stopped = 0 /\ state = "top"

\* The header of the next top-level record, and the reader behind it.
Header == DataOf(reader, TopHeader)
Behind == Read(reader, TopHeader)

OutOfBudget(pos) == task.budget # 0 /\ pos > task.budget

EndOfFile ==
    /\ state = "top" /\ Len(Header) < TopHeader
    /\ reader' = [Behind EXCEPT !.incomplete = @ \/ Header # <<>>]
    /\ state' = "done"
    /\ UNCHANGED <<task, segment, counted, stopped>>

\* A record that ends behind the file fails the analysis.
CutRecord ==
    /\ state = "top" /\ Len(Header) = TopHeader
    /\ Behind.pos + Header[1].length > FileSize
    /\ reader' = Behind /\ state' = "failed"
    /\ UNCHANGED <<task, segment, counted, stopped>>

TopRecord ==
    /\ state = "top" /\ Len(Header) = TopHeader
    /\ Behind.pos + Header[1].length =< FileSize
    /\ CASE OutOfBudget(Behind.pos) ->
                reader' = Behind /\ state' = "done" /\ UNCHANGED segment
         [] ~OutOfBudget(Behind.pos) /\ Header[1].kind = "segment" ->
                /\ reader' = Behind /\ state' = "segment"
                /\ segment' = [NoSegment EXCEPT !.remaining = Header[1].length]
         [] OTHER ->
                reader' = Skip(Behind, Header[1].length) /\ UNCHANGED <<segment, state>>
    /\ UNCHANGED <<task, counted, stopped>>

\* The walk with at least one cell, unless the segment is over.
Loaded == IF Buffered(Walk, 1) THEN Walk ELSE Refill(Walk, 1)
Consumed == Loaded.reader.pos - Len(Loaded.segment.buf)
Due == (segment.subs + 1) % task.interval = 0

To(w) == reader' = w.reader /\ segment' = w.segment

EndSegment ==
    /\ state = "segment" /\ ~Buffered(Loaded, 1)
    /\ To(Loaded) /\ state' = "top"
    /\ UNCHANGED <<task, counted, stopped>>

\* Quick mode: the rest of the segment is given up.
StopEarly ==
    /\ state = "segment" /\ Buffered(Loaded, 1)
    /\ Due /\ OutOfBudget(Consumed)
    /\ reader' = Skip(Loaded.reader, Loaded.segment.remaining)
    /\ segment' = [Loaded.segment EXCEPT !.remaining = 0, !.subs = @ + 1]
    /\ stopped' = Consumed /\ state' = "done"
    /\ UNCHANGED <<task, counted>>

Cell == Loaded.segment.buf[1]
AfterTag == [Pass(Loaded, 1) EXCEPT !.segment.subs = @ + 1]
Ready(kinds) ==
    /\ state = "segment" /\ Buffered(Loaded, 1)
    /\ ~(Due /\ OutOfBudget(Consumed))
    /\ Cell.kind \in kinds

\* An instance or an array: its head is counted, its payload kept or skipped.
CountObject ==
    /\ Ready({"instance", "array"})
    /\ LET headed == Ensure(AfterTag, Cell.parts[1])
           body == Pass(headed, Cell.parts[1])
           filled == Ensure(body, Cell.payload)
       IN  IF ~Buffered(headed, Cell.parts[1])
           THEN To(headed) /\ state' = "top" /\ UNCHANGED counted
           ELSE /\ counted' = Append(counted, Cell.id)
                /\ IF Cell.kept /\ Buffered(filled, Cell.payload) THEN To(Pass(filled, Cell.payload))
                   ELSE IF Cell.kept THEN To(SkipPayload(filled, Cell.payload))
                   ELSE To(SkipPayload(body, Cell.payload))
                /\ UNCHANGED state
    /\ UNCHANGED <<task, stopped>>

NoteRoot ==
    /\ Ready({"root"})
    /\ LET headed == Ensure(AfterTag, Cell.parts[1])
       IN  IF Buffered(headed, Cell.parts[1])
           THEN /\ To(Pass(headed, Cell.parts[1]))
                /\ counted' = Append(counted, Cell.id) /\ UNCHANGED state
           ELSE /\ reader' = [headed.reader EXCEPT !.incomplete = TRUE]
                /\ segment' = headed.segment
                /\ state' = "top" /\ UNCHANGED counted
    /\ UNCHANGED <<task, stopped>>

NoteClass ==
    /\ Ready({"class"})
    /\ To(PassParts(AfterTag, Cell.parts))
    /\ counted' = Append(counted, Cell.id)
    /\ UNCHANGED <<task, stopped, state>>

SkipInfo ==
    /\ Ready({"info"})
    /\ To(Pass(Ensure(AfterTag, Cell.parts[1]), Cell.parts[1]))
    /\ UNCHANGED <<task, counted, stopped, state>>

\* A record of an unknown kind has no known length: the segment is given up.
AbandonSegment ==
    /\ Ready({"unknown", "data", "segment", "END", "other"})
    /\ reader' = [Skip(Loaded.reader, Loaded.segment.remaining) EXCEPT !.incomplete = TRUE]
    /\ segment' = NoSegment /\ state' = "top"
    /\ UNCHANGED <<task, counted, stopped>>

\* What the report says: the scan did not see the whole file.
\* Mutant: where the reader stands, and not where the scan stopped.
TruncatedByPosition == reader.incomplete \/ reader.pos < FileSize
Truncated ==
    reader.incomplete \/ (IF stopped # 0 THEN stopped ELSE reader.pos) < FileSize

ScanNext ==
    \/ EndOfFile \/ CutRecord \/ TopRecord \/ EndSegment \/ StopEarly
    \/ CountObject \/ NoteRoot \/ NoteClass \/ SkipInfo \/ AbandonSegment

-----------------------------------------------------------------------------
(* Properties *)

Counting == {"instance", "array", "root", "class"}

\* Exactly the records that start in the first n cells, in order, each once.
CountedUpTo(n) ==
    /\ ToSet(counted) = {i \in 1..n : task.file[i].kind \in Counting}
    /\ \A i, j \in 1..Len(counted) : i < j => counted[i] < counted[j]

Understood == \A i \in 1..FileSize : task.file[i].kind # "unknown"

\* However the file falls into chunks: what is counted is exactly the records
\* up to where the scan stopped, in order, each once; a report that is not
\* marked truncated has counted every record of the file; and a file that the
\* scan read to its end and understood is not called truncated.
ScanIsExact ==
    state = "done" =>
        LET limit == IF stopped # 0 THEN stopped ELSE Least(reader.pos, FileSize)
        IN  /\ Understood => CountedUpTo(limit)
            /\ ~Truncated => CountedUpTo(FileSize)
            /\ (Understood /\ task.budget = 0 /\ ~reader.incomplete) => ~Truncated

-----------------------------------------------------------------------------
(* The inductive invariant behind it.  DumpScanProofs proves it.           *)

\* The buffer is what comes next in the file.
ReaderInv(r) ==
    /\ r \in [at : Nat, buf : Seq(DumpCells), pos : Nat, incomplete : BOOLEAN]
    /\ r.pos + Len(r.buf) = r.at
    /\ \A i \in 1..Len(r.buf) : r.pos + i =< FileSize /\ r.buf[i] = task.file[r.pos + i]

\* Cells before the walk's next one.
Passed(w) == w.reader.pos - Len(w.segment.buf)

\* The walk of a segment whose last cell is the cell last.
WalkInv(w, last) ==
    /\ ReaderInv(w.reader)
    /\ w.segment \in [remaining : Nat, buf : Seq(DumpCells), subs : Nat]
    /\ w.reader.pos + w.segment.remaining = last /\ last =< FileSize
    /\ Len(w.segment.buf) =< w.reader.pos
    /\ \A i \in 1..Len(w.segment.buf) : w.segment.buf[i] = task.file[Passed(w) + i]

\* What was counted up to here is right, unless the scan gave up a segment.
CountingInv(n) ==
    /\ counted \in Seq(Nat) /\ stopped = 0
    /\ IF reader.incomplete THEN ~Understood ELSE CountedUpTo(n)

AtTopRecord ==
    /\ ReaderInv(reader) /\ reader.pos =< FileSize /\ CountingInv(reader.pos)
    /\ reader.pos < FileSize => task.file[reader.pos + 1].kind \in TopKinds

InSegment ==
    \E s \in 1..FileSize :
        LET last == TopEnd(task.file, s) - 1
        IN  /\ task.file[s].kind = "segment" /\ WalkInv(Walk, last)
            /\ s + TopHeader =< Passed(Walk) + 1 /\ CountingInv(Passed(Walk))
            /\ Passed(Walk) < last =>
                   task.file[Passed(Walk) + 1].kind \in HeapKinds \cup {"unknown"}

ScanInv ==
    /\ state \in {"idle", "top", "segment", "done", "failed"}
    /\ state # "idle" => task \in Scans
    /\ state = "top" => AtTopRecord
    /\ state = "segment" => InSegment
    /\ ScanIsExact
=============================================================================
