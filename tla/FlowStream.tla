----------------------------- MODULE FlowStream -----------------------------
(***************************************************************************)
(* The streaming half of the thread flow analyser (pytfa/tfa): ingest.py   *)
(* turns a directory of log files into one stream of records, segment.py   *)
(* cuts the stream into episodes with one incremental segmenter per flow   *)
(* key.  The generator and the segmenters advance together, one line at a  *)
(* time, and the state is what they hold between two lines.                *)
(*                                                                         *)
(* A line is what extract.py reads off it: ts, its timestamp or NoTs; cont *)
(* (it is a stack frame or indented, and carries no timestamp); thread and *)
(* cid, the two candidate flow keys, or NoKey; site, its call site (or the *)
(* template standing for one, so there always is one), a number so that    *)
(* names have an order; err, an ERROR level, or a stack trace if cont.     *)
(***************************************************************************)
EXTENDS Integers, Sequences, SequencesExt, StableOrder

CONSTANTS NoTs,      \* no timestamp recognised in the line
          NoKey,     \* no thread, or no correlation id, in the line
          NoRecord,  \* the generator holds no pending record
          Inputs,    \* the directories: sequences of files in path order
          Configs,   \* the run configurations
          ScanLimit  \* FIRST_TS_SCAN_LIMIT

ASSUME ScanLimitAssumption == ScanLimit \in Nat

VARIABLES cfg,       \* the run configuration
          lines,     \* the lines of the ordered files, one file after another
          pos,       \* the lines read so far
          pending,   \* the record whose continuations are being read
          conts,     \* the lines that continue it, by number
          keys,      \* the flow keys in the order their segmenters opened
          segs,      \* the open segmenter of each of them
          episodes,  \* the episodes handed to the sink, in order
          streaming  \* the stream has not ended

streamVars == <<cfg, lines, pos, pending, conts, keys, segs, episodes, streaming>>

Max0(n) == IF n > 0 THEN n ELSE 0
Rows(s) == {s[i] : i \in 1..Len(s)}

-----------------------------------------------------------------------------
(* ingest.py *)

\* A None timestamp sorts after every other.
TsBefore(a, b) == a # NoTs /\ (b = NoTs \/ a < b)

\* A file whose first lines carry no timestamp counts as one without any.
FirstTs(file) ==
    LET dated == Positions(file, LAMBDA l : l.ts # NoTs)
    IN  IF dated = <<>> \/ dated[1] > ScanLimit THEN NoTs ELSE file[dated[1]].ts

\* Files by the first timestamp found inside them, ties by path.
OrderByTimestamp(files) ==
    StableSort(files, LAMBDA f, g : TsBefore(FirstTs(f), FirstTs(g)))

\* LineExtractor.build: a record before its continuations are attached.
Build(l, no) ==
    [ts |-> l.ts, thread |-> l.thread, cid |-> l.cid, site |-> l.site,
     err |-> l.err, no |-> no, conts |-> <<>>, stack |-> FALSE]

-----------------------------------------------------------------------------
(* segment.py: the segmenters *)

EmptySeg == [open |-> <<>>, last |-> NoTs, reached |-> FALSE]

HasError(recs) == \E r \in Rows(recs) : r.err
HasStack(recs) == \E r \in Rows(recs) : r.stack

Close(key, recs, base) ==
    [key |-> key, recs |-> recs,
     status |-> IF HasError(recs) THEN "ERRORED" ELSE base]

GroupingKey(r) == IF cfg.strategy = "CORRELATION_ID" THEN r.cid ELSE r.thread

\* Each accept returns the segmenter after the record and what it emits.
EntryAccept(key, seg, r) ==
    LET isEntry == r.site \in cfg.entries
        cut  == IF isEntry /\ seg.open # <<>>
                  THEN <<Close(key, seg.open, "TRUNCATED")>> ELSE <<>>
        open == IF isEntry THEN <<r>>
                ELSE IF seg.open # <<>> THEN Append(seg.open, r) ELSE <<>>
    IN  IF open # <<>> /\ r.site \in cfg.terminals
          THEN [seg |-> EmptySeg, out |-> Append(cut, Close(key, open, "COMPLETED"))]
          ELSE [seg |-> [seg EXCEPT !.open = open], out |-> cut]

IdleBase(seg) == IF seg.reached THEN "COMPLETED" ELSE "TRUNCATED"

IdleStart(r) == [open |-> <<r>>, last |-> r.ts, reached |-> r.site \in cfg.terminals]

\* Mutant: a record without a time forgets the time of the one before it.
IdleForgets(key, seg, r) ==
    IF seg.open # <<>> /\ seg.last # NoTs /\ r.ts # NoTs /\ r.ts - seg.last > cfg.gap
      THEN [seg |-> IdleStart(r), out |-> <<Close(key, seg.open, IdleBase(seg))>>]
      ELSE [seg |-> [open |-> Append(seg.open, r), last |-> r.ts,
                     reached |-> seg.reached \/ r.site \in cfg.terminals],
            out |-> <<>>]

IdleAccept(key, seg, r) ==
    LET gap == IF seg.last = NoTs \/ r.ts = NoTs THEN 0 ELSE Max0(r.ts - seg.last)
    IN  IF seg.open = <<>> THEN [seg |-> IdleStart(r), out |-> <<>>]
        ELSE IF gap > cfg.gap
          THEN [seg |-> IdleStart(r), out |-> <<Close(key, seg.open, IdleBase(seg))>>]
          ELSE [seg |-> [open |-> Append(seg.open, r),
                         last |-> IF r.ts = NoTs THEN seg.last ELSE r.ts,
                         reached |-> seg.reached \/ r.site \in cfg.terminals],
                out |-> <<>>]

CorrelationAccept(key, seg, r) ==
    [seg |-> [seg EXCEPT !.open = Append(@, r)], out |-> <<>>]

SegAccept(key, seg, r) ==
    CASE cfg.strategy = "ENTRY_MARKER"   -> EntryAccept(key, seg, r)
      [] cfg.strategy = "IDLE_GAP"       -> IdleAccept(key, seg, r)
      [] cfg.strategy = "CORRELATION_ID" -> CorrelationAccept(key, seg, r)

\* finish: the episodes, none or one, a segmenter still owes.
CorrelationFinish(key, seg) ==
    LET recs == StableSort(seg.open, LAMBDA r, s : TsBefore(r.ts, s.ts))
        reached == \E r \in Rows(recs) : r.site \in cfg.terminals
    IN  Close(key, recs, IF reached THEN "COMPLETED" ELSE "TRUNCATED")

SegFinish(key, seg) ==
    IF seg.open = <<>> THEN <<>>
    ELSE CASE cfg.strategy = "ENTRY_MARKER"   -> <<Close(key, seg.open, "TRUNCATED")>>
           [] cfg.strategy = "IDLE_GAP"       -> <<Close(key, seg.open, IdleBase(seg))>>
           [] cfg.strategy = "CORRELATION_ID" -> <<CorrelationFinish(key, seg)>>

-----------------------------------------------------------------------------
(* segment.py: the driver; ingest.py: the generator it pulls from *)

\* _with_continuations
Attach(r, cs) ==
    [r EXCEPT !.conts = cs, !.stack = \E i \in Rows(cs) : lines[i].err]

\* The driver's loop body: the segmenter of r's key takes r.
Drive(r) ==
    LET key == GroupingKey(r)
        known == key \in Rows(keys)
        res == SegAccept(key, IF known THEN segs[key] ELSE EmptySeg, r)
    IN  IF key = NoKey
          THEN UNCHANGED <<keys, segs, episodes>>
          ELSE /\ keys' = IF known THEN keys ELSE Append(keys, key)
               /\ segs' = [k \in DOMAIN segs \cup {key} |->
                               IF k = key THEN res.seg ELSE segs[k]]
               /\ episodes' = episodes \o res.out

ReadContinuation ==
    /\ streaming /\ pos < Len(lines)
    /\ pending # NoRecord /\ lines[pos + 1].cont
    /\ conts' = Append(conts, pos + 1)
    /\ pos' = pos + 1
    /\ UNCHANGED <<cfg, lines, pending, keys, segs, episodes, streaming>>

ReadRecord ==
    /\ streaming /\ pos < Len(lines)
    /\ pending = NoRecord \/ ~lines[pos + 1].cont
    /\ IF pending = NoRecord THEN UNCHANGED <<keys, segs, episodes>>
       ELSE Drive(Attach(pending, conts))
    /\ pending' = Build(lines[pos + 1], pos + 1)
    /\ conts' = <<>>
    /\ pos' = pos + 1
    /\ UNCHANGED <<cfg, lines, streaming>>

\* The input ends: the generator yields its last record.
LastRecord ==
    /\ streaming /\ pos = Len(lines) /\ pending # NoRecord
    /\ Drive(Attach(pending, conts))
    /\ pending' = NoRecord
    /\ conts' = <<>>
    /\ UNCHANGED <<cfg, lines, pos, streaming>>

\* The generator is exhausted: every segmenter finishes, in opening order.
FinishSegments ==
    /\ streaming /\ pos = Len(lines) /\ pending = NoRecord
    /\ episodes' = episodes \o
           FlattenSeq([i \in 1..Len(keys) |-> SegFinish(keys[i], segs[keys[i]])])
    /\ segs' = [k \in DOMAIN segs |-> EmptySeg]
    /\ streaming' = FALSE
    /\ UNCHANGED <<cfg, lines, pos, pending, conts, keys>>

StreamInit ==
    /\ cfg \in Configs
    /\ \E files \in Inputs : lines = FlattenSeq(OrderByTimestamp(files))
    /\ pos = 0
    /\ pending = NoRecord
    /\ conts = <<>>
    /\ keys = <<>>
    /\ segs = [k \in {} |-> EmptySeg]
    /\ episodes = <<>>
    /\ streaming = TRUE

StreamNext == ReadContinuation \/ ReadRecord \/ LastRecord \/ FinishSegments

-----------------------------------------------------------------------------
(* What the streaming promises: the flows of each key, as if that key's    *)
(* records were alone in the corpus and all at hand.                       *)

Owners == {i \in 1..Len(lines) : i = 1 \/ ~lines[i].cont}

RecordOf(i) ==
    LET after == {j \in Owners : j > i}
    IN  Attach(Build(lines[i], i),
               SelectSeq([j \in 1..Len(lines) |-> j],
                         LAMBDA j : j > i /\ \A o \in after : j < o))

RecordsOf(k) ==
    LET mine == SelectSeq([i \in 1..Len(lines) |-> i],
                          LAMBDA i : i \in Owners /\ GroupingKey(lines[i]) = k)
    IN  [n \in 1..Len(mine) |-> RecordOf(mine[n])]

\* From an entry to the first terminal, or to just before the next entry.
EntrySpans(s) ==
    {span \in (1..Len(s)) \X (1..Len(s)) :
        LET i == span[1]  j == span[2]
        IN  /\ i =< j
            /\ s[i].site \in cfg.entries
            /\ \A m \in (i + 1)..j : s[m].site \notin cfg.entries
            /\ \A m \in i..(j - 1) : s[m].site \notin cfg.terminals
            /\ \/ s[j].site \in cfg.terminals
               \/ j = Len(s)
               \/ s[j + 1].site \in cfg.entries}

\* A silence longer than the gap lies before record i.
Silence(s, i) ==
    \E p \in 1..(i - 1) :
        /\ s[p].ts # NoTs /\ s[i].ts # NoTs
        /\ \A m \in (p + 1)..(i - 1) : s[m].ts = NoTs
        /\ s[i].ts - s[p].ts > cfg.gap

IdleSpans(s) ==
    {span \in (1..Len(s)) \X (1..Len(s)) :
        LET i == span[1]  j == span[2]
        IN  /\ i =< j
            /\ i = 1 \/ Silence(s, i)
            /\ j = Len(s) \/ Silence(s, j + 1)
            /\ \A m \in (i + 1)..j : ~Silence(s, m)}

Reached(recs) ==
    IF cfg.strategy = "ENTRY_MARKER"
      THEN recs[Len(recs)].site \in cfg.terminals
      ELSE \E r \in Rows(recs) : r.site \in cfg.terminals

FlowOf(k, recs) ==
    Close(k, recs, IF Reached(recs) THEN "COMPLETED" ELSE "TRUNCATED")

\* The episodes of key k, in the order they must come out.
Flows(k) ==
    LET s == RecordsOf(k)
        spans == IF cfg.strategy = "ENTRY_MARKER" THEN EntrySpans(s) ELSE IdleSpans(s)
        starts == SelectSeq([i \in 1..Len(s) |-> i],
                            LAMBDA i : \E span \in spans : span[1] = i)
        EndOf(i) == CHOOSE j \in 1..Len(s) : <<i, j>> \in spans
    IN  IF cfg.strategy = "CORRELATION_ID"
          THEN IF s = <<>> THEN <<>>
               ELSE <<FlowOf(k, StableSort(s, LAMBDA r, t : TsBefore(r.ts, t.ts)))>>
          ELSE [n \in 1..Len(starts) |->
                    FlowOf(k, SubSeq(s, starts[n], EndOf(starts[n])))]

\* Every record with its continuation lines is in the one episode of its own
\* flow that the strategy's definition puts it in, with that flow's status,
\* however the lines of different flows and files are interleaved; a record of
\* no flow is in none (segment.py: a strategy segments one thread's records,
\* and StreamingSegmenter drives it over the whole stream).
EpisodesAreTheFlows ==
    streaming \/
    /\ \A k \in {GroupingKey(lines[i]) : i \in Owners} \ {NoKey} :
           SelectSeq(episodes, LAMBDA e : e.key = k) = Flows(k)
    /\ \A e \in Rows(episodes) : e.key # NoKey
=============================================================================
