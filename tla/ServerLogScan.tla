--------------------------- MODULE ServerLogScan ---------------------------
(***************************************************************************)
(* The scan of a server log (analyzers/server_log.py, build_log_index):    *)
(* lines are gathered into events, an event is a header line and the lines *)
(* that continue it, and every list of an event is bounded.                *)
(*                                                                         *)
(* A line is [header, text, rest, marks, frames]: whether _header          *)
(* recognises it; how much of it is text for the event and how much is not *)
(* (all of a plain line is text, of a JSON line the message and the stack  *)
(* trace); and, of the text, the memory and life cycle markers and how     *)
(* many stack frames it holds (a JSON line may hold several of each).  The *)
(* text itself, levels, identifiers and exceptions are left out.           *)
(***************************************************************************)
EXTENDS Naturals, Sequences, FiniteSets, SequencesExt, Sums

CONSTANTS
    Logs,            \* the inputs: sequences of lines
    LineBytes,       \* LINE_BYTES
    EventChars,      \* EVENT_CHARS
    MaxFrames,       \* MAX_FRAMES
    MaxEventLines,   \* MAX_EVENT_LINES
    MaxMarkers       \* MAX_MARKERS

LogLines ==
    [header : BOOLEAN, text : Nat, rest : Nat, marks : Seq(STRING), frames : Nat]

ASSUME LogsAssumption == Logs \subseteq Seq(LogLines)

ASSUME LogLimitsAssumption ==
    LineBytes \in Nat /\ EventChars \in Nat /\ MaxFrames \in Nat
    /\ MaxEventLines \in Nat /\ MaxMarkers \in Nat

VARIABLES
    log,        \* the input
    read,       \* lines read so far
    current,    \* the event being gathered, or NoEvent
    events,     \* the events table
    omitted,    \* counts.omitted_frames
    oversized,  \* counts.oversized_lines
    logState    \* "idle", "reading", "done" or "cancelled"

logVars == <<log, read, current, events, omitted, oversized, logState>>

NoEvent == [start |-> 0]
Pending == current # NoEvent

LogIdle ==
    /\ log = <<>> /\ read = 0 /\ current = NoEvent /\ events = <<>>
    /\ omitted = 0 /\ oversized = 0 /\ logState = "idle"

LogInit ==
    /\ log \in Logs /\ read = 0 /\ current = NoEvent /\ events = <<>>
    /\ omitted = 0 /\ oversized = 0 /\ logState = "reading"

Capped(n, bound) == IF n =< bound THEN n ELSE bound

Fresh(n, line) ==
    [start |-> n, end |-> n, header |-> line.header, lines |-> 0, excerpt |-> 0,
     frames |-> 0, marks |-> <<>>, truncated |-> FALSE]

\* A header starts an event, and so does a line that is one too many.
Full(event) == event.lines >= MaxEventLines
Closes(event, line) == line.header \/ Full(event)

\* Mutant: an event that is full is closed as if it were whole.
ClosedAsWhole(event, line) == event
Closed(event, line) == IF line.header THEN event ELSE [event EXCEPT !.truncated = TRUE]

\* Each marker once, in the order they are met, up to the limit.
Marked(marks, found) ==
    FoldLeft(LAMBDA kept, m : IF Len(kept) < MaxMarkers /\ m \notin ToSet(kept)
                              THEN Append(kept, m) ELSE kept,
             marks, found)

\* Only LineBytes of a line are looked at, and only its text is kept.
Body(line) == Capped(line.text, LineBytes)
Oversized(line) == line.text + line.rest > LineBytes
Overflow(event, line) ==
    IF event.frames + line.frames > MaxFrames
    THEN event.frames + line.frames - MaxFrames ELSE 0

Gathered(event, n, line) ==
    [event EXCEPT !.end = n, !.lines = @ + 1,
                  !.excerpt = Capped(@ + Body(line), EventChars),
                  !.frames = Capped(@ + line.frames, MaxFrames),
                  !.marks = Marked(@, line.marks),
                  !.truncated = @ \/ Oversized(line)
                                  \/ Body(line) > EventChars - event.excerpt
                                  \/ Overflow(event, line) > 0]

\* One line: flush what it closes, then gather it.
ReadLine ==
    /\ logState = "reading" /\ read < Len(log)
    /\ LET line == log[read + 1]
           flush == Pending /\ Closes(current, line)
           event == IF Pending /\ ~flush THEN current ELSE Fresh(read + 1, line)
       IN  /\ events' = IF flush THEN Append(events, Closed(current, line)) ELSE events
           /\ current' = Gathered(event, read + 1, line)
           /\ omitted' = omitted + Overflow(event, line)
           /\ oversized' = oversized + (IF Oversized(line) THEN 1 ELSE 0)
    /\ read' = read + 1
    /\ UNCHANGED <<log, logState>>

EndOfLog ==
    /\ logState = "reading" /\ read = Len(log)
    /\ events' = IF Pending THEN Append(events, current) ELSE events
    /\ current' = NoEvent /\ logState' = "done"
    /\ UNCHANGED <<log, read, omitted, oversized>>

\* cancelled() is asked before every line.
CancelScan ==
    /\ logState = "reading" /\ logState' = "cancelled"
    /\ UNCHANGED <<log, read, current, events, omitted, oversized>>

LogNext == ReadLine \/ EndOfLog \/ CancelScan

-----------------------------------------------------------------------------
(* Properties *)

Gathering == events \o (IF Pending THEN <<current>> ELSE <<>>)
LinesOf(event) == SubSeq(log, event.start, event.end)

TextLengths(lines) == [i \in 1..Len(lines) |-> lines[i].text]
FrameCounts(gathered) == [i \in 1..Len(gathered) |-> gathered[i].frames]

\* An event holds the whole text of its lines (of a JSON line, message and stack
\* trace) and every frame of it.
Complete(event) ==
    /\ event.excerpt = SumOf(TextLengths(LinesOf(event)))
    /\ event.frames = SumOf(FrameCounts(LinesOf(event)))

\* The events partition the lines read, in order; each starts at a header,
\* at the first line, or where the event before it had to be cut, which is
\* then marked truncated; and an event that is not marked truncated is
\* complete.  The frames that were left out are counted.
EveryLineInOneEvent ==
    LET all == Gathering IN
    /\ logState \in {"reading", "done"} =>
           /\ all # <<>> <=> read > 0
           /\ all # <<>> => all[1].start = 1 /\ Last(all).end = read
    /\ \A i \in 1..Len(all) :
           /\ i > 1 => all[i].start = all[i - 1].end + 1
           /\ ~log[all[i].start].header => (i = 1 \/ all[i - 1].truncated)
           /\ \A n \in all[i].start + 1 .. all[i].end : ~log[n].header
           /\ ~all[i].truncated => Complete(all[i])
    /\ omitted = SumOf(FrameCounts(SubSeq(log, 1, read))) - SumOf(FrameCounts(all))

-----------------------------------------------------------------------------
(* The inductive invariant behind it.  ReportsProofs proves it.            *)

\* An event with any list of marks from Marks.
Events(Marks) ==
    [start : Nat \ {0}, end : Nat, header : BOOLEAN, lines : Nat, excerpt : 0..EventChars,
     frames : Nat, marks : Marks, truncated : BOOLEAN]

LogTypes ==
    /\ log \in Seq(LogLines) /\ read \in 0..Len(log) /\ omitted \in Nat
    /\ \E Marks : events \in Seq(Events(Marks)) /\ (Pending => current \in Events(Marks))

\* Where the last event of the table ends.
LastEnd == IF events = <<>> THEN 0 ELSE events[Len(events)].end

\* The event holds lines that were read, only the first of them a header,
\* and all of their text and frames unless it says otherwise.
Sound(event) ==
    /\ event.start =< event.end /\ event.end =< read
    /\ \A n \in event.start + 1 .. event.end : ~log[n].header
    /\ ~event.truncated => Complete(event)

\* The event goes on where the one before it ended.
Follows(event, i) ==
    /\ event.start = IF i = 1 THEN 1 ELSE events[i - 1].end + 1
    /\ ~log[event.start].header => (i = 1 \/ events[i - 1].truncated)

LogInv ==
    /\ LogTypes
    /\ \A i \in 1..Len(events) : Sound(events[i]) /\ Follows(events[i], i)
    /\ Pending => /\ Sound(current) /\ Follows(current, Len(events) + 1)
                  /\ current.end = read
    /\ ~Pending => LastEnd = read
    /\ logState = "reading" /\ ~Pending => events = <<>>
    /\ omitted + SumOf(FrameCounts(events)) + (IF Pending THEN current.frames ELSE 0)
           = SumOf(FrameCounts(SubSeq(log, 1, read)))
=============================================================================
