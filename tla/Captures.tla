------------------------------ MODULE Captures ------------------------------
(***************************************************************************)
(* Several captures read together: two heaps or two thread dumps of one    *)
(* process (analyzers/compare.py), a heap with a thread dump and a GC log  *)
(* (correlate.py), and these with a server log (the gate of incident.py);  *)
(* evidence.py decides which captures go together.                         *)
(*                                                                         *)
(* A capture is a record: kind, id, the metadata process, start, build and *)
(* at (Unknown if absent), and                                             *)
(*   heap     truncated, sizing, complete (the whole histogram is kept),   *)
(*            table (class -> <<instances, bytes>>, as reported), bySize,  *)
(*            byCount, suspects (classes its memory findings point at)     *)
(*   thread   threads, each [name, tid, id, nid, state, stack, elapsed,    *)
(*            cpu, who] with the frames <<class, method, line>>, and       *)
(*            busyGc (it has a finding about the GC); who is not printed   *)
(*   gc       rising (the trend of the post-GC occupancy)                  *)
(* Texts, percentages and the matches of the incident's log are left out.  *)
(***************************************************************************)
EXTENDS Integers, FiniteSets, Sequences, SequencesExt, FiniteSetsExt, StableOrder, Sums

CONSTANTS
    Questions,       \* the requests: [ask, first, second, gc, log, code]
    OuterOf,         \* class name -> outer class, _outer_class
    Application,     \* classes for which is_user_code holds
    IdleFrames,      \* class and method of the frames _idle looks for
    Unknown,
    Window,          \* five minutes
    Listed,          \* growers and new classes that are returned
    Blamed,          \* growers that become a finding
    Lookups,         \* of them, those that are looked up in the source
    MaxMatched, Budget    \* matches, and searches of the source, of correlate

VARIABLES question, answer

captureVars == <<question, answer>>

NoQuestion == [ask |-> "nothing"]
NoAnswer == [status |-> "none"]

Warn == "warning"
Info == "info"

-----------------------------------------------------------------------------
(* evidence.py *)

Keys == {"process", "start", "build"}
Known2(a, b, k) == a[k] # Unknown /\ b[k] # Unknown
Differ(a, b) == \E k \in Keys : Known2(a, b, k) /\ a[k] # b[k]
Partial(c) == c.kind = "heap" /\ c.truncated
SizingDiffers(a, b) ==
    /\ a.kind = "heap" /\ b.kind = "heap"
    /\ Known2(a, b, "sizing") /\ a.sizing # b.sizing

\* Refused pairs: unordered ones are captures of one moment, of ordered ones
\* the second is the later.  What is unknown is no reason to refuse.
Compatible(a, b, ordered) ==
    /\ ~(ordered /\ a.id # Unknown /\ a.id = b.id)
    /\ ~Differ(a, b) /\ ~Partial(a) /\ ~Partial(b) /\ ~SizingDiffers(a, b)
    /\ Known2(a, b, "at") =>
           IF ordered THEN b.at > a.at
           ELSE b.at - a.at =< Window /\ a.at - b.at =< Window

VerdictOf(findings) ==
    CASE "critical" \in findings -> "critical"
      [] "critical" \notin findings /\ Warn \in findings -> "degraded"
      [] OTHER -> "healthy"

-----------------------------------------------------------------------------
(* compare_heaps *)

\* Class -> <<instances, bytes>>: the histogram, or what the two lists show.
\* Both lists hold the entries of one histogram, so readings never differ.
ClassIndex(heap) ==
    [c \in (IF heap.complete THEN DOMAIN heap.table ELSE ToSet(heap.bySize) \cup ToSet(heap.byCount))
        |-> heap.table[c]]
Reading(index, c) == IF c \in DOMAIN index THEN index[c] ELSE <<0, 0>>

\* Mutant: a class that a partial list does not show counts as zero.
ComparedAll(complete, before, after) == DOMAIN before \cup DOMAIN after
Compared(complete, before, after) ==
    IF complete THEN DOMAIN before \cup DOMAIN after ELSE DOMAIN before \cap DOMAIN after

Delta(before, after, c) ==
    [class |-> c,
     count |-> Reading(after, c)[1] - Reading(before, c)[1],
     before |-> Reading(before, c)[2], after |-> Reading(after, c)[2],
     bytes |-> Reading(after, c)[2] - Reading(before, c)[2],
     new |-> c \in DOMAIN after \ DOMAIN before]

\* The first n of the deltas, sorted by a key, the largest first.
FirstBy(n, deltas, By(_)) ==
    LET sorted == StableSort(deltas, LAMBDA d, e : By(d) > By(e))
    IN  SubSeq(sorted, 1, IF Len(sorted) < n THEN Len(sorted) ELSE n)

\* Where the source constructs the class, or else refers to it.
Grower(code, c) ==
    LET refs == IF c \in DOMAIN code.refs THEN code.refs[c] ELSE <<>>
        made == Those(refs, LAMBDA r : r.new)
    IN  IF made # <<>> THEN made[1].path ELSE IF refs # <<>> THEN refs[1].path ELSE Unknown

\* The findings on growers: the first Lookups of the application's classes
\* are looked up in the source.
HeapDeltaFindings(growers, growth, code) ==
    LET Told(what) == [severity |-> Info, class |-> what, at |-> Unknown]
        blamed == SubSeq(growers, 1, IF Len(growers) < Blamed THEN Len(growers) ELSE Blamed)
        ours == {i \in DOMAIN blamed : OuterOf[blamed[i].class] \in Application}
        looked == {i \in ours : Cardinality({j \in ours : j < i}) < Lookups}
    IN  IF growers = <<>> THEN <<Told("no growth")>>
        ELSE [i \in DOMAIN blamed |->
                 [severity |-> Warn, class |-> blamed[i].class,
                  at |-> IF i \in looked THEN Grower(code, blamed[i].class) ELSE Unknown]]
             \o (IF growth > 0 THEN <<Told("net growth")>> ELSE <<>>)

SumBytes(index, order) == SumOf([i \in DOMAIN order |-> Reading(index, order[i])[2]])

\* names is a set: its order decides among equals.
HeapComparison(before, after, code, order) ==
    LET bi == ClassIndex(before)
        ai == ClassIndex(after)
        deltas == [i \in DOMAIN order |-> Delta(bi, ai, order[i])]
        complete == before.complete /\ after.complete
        compatible == Compatible(before, after, TRUE)
        growers == FirstBy(Len(deltas), Those(deltas, LAMBDA d : d.bytes > 0), LAMBDA d : d.bytes)
        fresh == Those(deltas, LAMBDA d : d.new /\ d.after > 0)
        growth == SumBytes(ai, order) - SumBytes(bi, order)
        findings == IF ~compatible \/ (~complete /\ order = <<>>)
                    THEN <<[severity |-> Warn, class |-> "coverage", at |-> Unknown]>>
                    ELSE HeapDeltaFindings(growers, growth, code)
    IN  [status |-> "heaps",
         coverage |-> IF complete /\ compatible THEN "complete" ELSE "partial",
         growth |-> growth,
         growers |-> SubSeq(growers, 1, IF Len(growers) < Listed THEN Len(growers) ELSE Listed),
         new |-> FirstBy(Listed, fresh, LAMBDA d : d.after),
         findings |-> findings,
         verdict |-> IF compatible /\ complete
                     THEN VerdictOf({f.severity : f \in ToSet(findings)})
                     ELSE "insufficient_evidence"]

CompareHeaps ==
    /\ question.ask = "heaps" /\ answer = NoAnswer
    /\ LET before == question.first
           after == question.second
           names == IF Compatible(before, after, TRUE)
                    THEN Compared(before.complete /\ after.complete,
                                  ClassIndex(before), ClassIndex(after))
                    ELSE {}
       IN  \E order \in SetToSeqs(names) :
               answer' = HeapComparison(before, after, question.code, order)
    /\ UNCHANGED question

-----------------------------------------------------------------------------
(* compare_threads *)

IdentityOf(t) ==
    CASE t.tid # Unknown -> <<"tid", t.tid>>
      [] t.tid = Unknown /\ t.id # Unknown -> <<"id", t.id>>
      [] t.tid = Unknown /\ t.id = Unknown /\ t.nid # Unknown -> <<"nid", t.nid>>
      [] OTHER -> <<"name", t.name>>

\* Mutant: of several threads of one identity the first stands for all.
FirstIdentities(threads) == {IdentityOf(t) : t \in ToSet(threads)}
Bucket(threads, key) == {i \in DOMAIN threads : IdentityOf(threads[i]) = key}
Identities(threads) ==
    {key \in {IdentityOf(t) : t \in ToSet(threads)} : \E i \in DOMAIN threads : Bucket(threads, key) = {i}}
ThreadAt(threads, key) == threads[Min(Bucket(threads, key))]

Idles(t) == \E i \in DOMAIN t.stack : <<t.stack[i][1], t.stack[i][2]>> \in IdleFrames
Since(b, a, k) == IF Known2(b, a, k) THEN a[k] - b[k] ELSE Unknown

\* A clock that runs backwards belongs to another thread.
Persists(b, a) ==
    /\ b.stack # <<>> /\ b.stack = a.stack /\ ~Idles(a) /\ b.state = a.state
    /\ Known2(b, a, "elapsed") => a.elapsed > b.elapsed
    /\ Known2(b, a, "cpu") => a.cpu >= b.cpu

StuckThread(key, b, a) ==
    [identity |-> key, before |-> b.who, after |-> a.who,
     interval |-> Since(b, a, "elapsed"),
     class |-> IF Known2(b, a, "cpu") /\ a.cpu > b.cpu THEN "active_repeated_stack"
               ELSE IF a.state \in {"BLOCKED", "WAITING", "TIMED_WAITING"} THEN "persistent_wait"
               ELSE "repeated_stack"]

CompareThreads ==
    /\ question.ask = "threads" /\ answer = NoAnswer
    /\ LET before == question.first.threads
           after == question.second.threads
           compatible == Compatible(question.first, question.second, TRUE)
           paired == IF compatible THEN Identities(before) \cap Identities(after) ELSE {}
           stuck == {StuckThread(key, ThreadAt(before, key), ThreadAt(after, key)) :
                        key \in {k \in paired : Persists(ThreadAt(before, k), ThreadAt(after, k))}}
       IN  answer' = [status |-> "threads", stuck |-> stuck,
                      verdict |-> IF compatible
                                  THEN VerdictOf({IF stuck = {} THEN Info ELSE Warn})
                                  ELSE "insufficient_evidence"]
    /\ UNCHANGED question

-----------------------------------------------------------------------------
(* correlate *)

HasSource(code) == code.paths # <<>>
IsOurs(code, c) == c \in Application \/ c \in DOMAIN code.paths
OutersOf(code, names) ==
    Those([i \in DOMAIN names |-> OuterOf[names[i]]], LAMBDA c : IsOurs(code, c))

\* The members of s as they are met for the first time.
Uniquely(s) ==
    LET first == Ascending({i \in 1..Len(s) : \A j \in 1..(i - 1) : s[j] # s[i]})
    IN  [k \in 1..Len(first) |-> s[first[k]]]

\* The application's classes in the heap's lists and memory findings, as
\* outer classes, in the order they are met, with the largest instance count.
HeapClassesOfInterest(heap, code) ==
    LET shown == heap.bySize \o heap.byCount
        Members(c) == {d \in ToSet(shown) : OuterOf[d] = c}
        Entry(c) == [class |-> c,
                     count |-> IF Members(c) = {} THEN 0
                               ELSE Max({heap.table[d][1] : d \in Members(c)}),
                     suspect |-> c \in ToSet(OutersOf(code, heap.suspects))]
        names == Uniquely(OutersOf(code, shown) \o OutersOf(code, heap.suspects))
    IN  [i \in DOMAIN names |-> Entry(names[i])]

\* Static suspects first, then by the number of instances.
Precedes(e, f) == \/ e.suspect /\ ~f.suspect
                  \/ e.suspect = f.suspect /\ e.count > f.count

\* The frames of all threads with the thread's name, and those of a class.
FramesOf(thread) ==
    FlattenSeq([i \in DOMAIN thread.threads |->
        [j \in DOMAIN thread.threads[i].stack |->
            [thread |-> thread.threads[i].name, frame |-> thread.threads[i].stack[j]]]])

\* Mutant: the frames of nested classes are not the class's.
ExecutingItself(thread, c) == Those(FramesOf(thread), LAMBDA h : h.frame[1] = c)
Executing(thread, c) == Those(FramesOf(thread), LAMBDA h : OuterOf[h.frame[1]] = c)

\* Frames in a file that refers to the class; where the methods that do are
\* known, in one of them.
Allocating(thread, c, code) ==
    LET refs == IF c \in DOMAIN code.refs THEN ToSet(code.refs[c]) ELSE {}
        MethodsOf(path) == {r.method : r \in {s \in refs : s.path = path}} \ {Unknown}
        Refers(h) == /\ h.frame[1] \in DOMAIN code.paths
                     /\ LET path == code.paths[h.frame[1]]
                        IN  /\ path \in {r.path : r \in refs}
                            /\ MethodsOf(path) = {} \/ h.frame[2] \in MethodsOf(path)
    IN  Those(FramesOf(thread), Refers)

BestFrame(hits) ==
    LET resolvable == Those(hits, LAMBDA h : h.frame[3] # Unknown)
    IN  IF resolvable # <<>> THEN resolvable[1] ELSE hits[1]

\* The loop over the classes of interest: of those that no thread executes
\* the first Budget are searched for in the source.
MatchesOf(entries, thread, code) ==
    LET Direct(i) == Executing(thread, entries[i].class)
        unmet == {i \in 1..Len(entries) : Direct(i) = <<>>}
        searched == {i \in unmet : HasSource(code) /\ Cardinality({j \in unmet : j < i}) < Budget}
        Hits(i) == IF i \in searched THEN Allocating(thread, entries[i].class, code) ELSE Direct(i)
        matched == Ascending({i \in 1..Len(entries) : Hits(i) # <<>>})
    IN  [k \in 1..(IF Len(matched) < MaxMatched THEN Len(matched) ELSE MaxMatched) |->
            LET i == matched[k]
            IN  [severity |-> Warn, class |-> entries[i].class,
                 kind |-> IF i \in searched THEN "allocating" ELSE "executing",
                 best |-> BestFrame(Hits(i)), threads |-> {h.thread : h \in ToSet(Hits(i))}]]

Matches(heap, thread, code) ==
    MatchesOf(StableSort(HeapClassesOfInterest(heap, code), Precedes), thread, code)

NoGc == [kind |-> "none"]

\* joined: the captures whose evidence stands in one finding.
Correlation(heap, thread, gc, code) ==
    LET found == Matches(heap, thread, code)
        gcJoins == gc # NoGc /\ Compatible(heap, gc, FALSE)
        gcTold == \/ gc # NoGc /\ ~gcJoins
                  \/ gcJoins /\ gc.rising
                  \/ gc = NoGc /\ thread.busyGc
    IN  IF ~Compatible(heap, thread, FALSE)
        THEN [status |-> "incompatible", found |-> <<>>, joined |-> {}, overlap |-> "unknown"]
        ELSE [status |-> "correlated", found |-> found,
              joined |-> {{heap, thread}} \cup (IF gcJoins THEN {{heap, gc}} ELSE {}),
              overlap |-> IF found = <<>> /\ ~gcTold THEN "none" ELSE "told"]

Correlate ==
    /\ question.ask = "correlate" /\ answer = NoAnswer
    /\ answer' = Correlation(question.first, question.second, question.gc, question.code)
    /\ UNCHANGED question

\* analyze_incident: the log, too, must not disagree with a capture.
\* Mutant: only what the server log says is held against the captures.
ConflictsOfLog(log, captures) == \E c \in captures : Differ(log, c)
Conflicts(log, captures) ==
    \/ \E c \in captures : Differ(log, c)
    \/ \E a, b \in captures : Differ(a, b)
    \/ \E a, b \in captures : a.kind = "heap" /\ b.kind = "thread" /\ ~Compatible(a, b, FALSE)

Incident ==
    /\ question.ask = "incident" /\ answer = NoAnswer
    /\ LET captures == {question.first, question.second, question.gc} \ {NoGc}
           log == question.log
       IN  answer' = IF Conflicts(log, captures)
                     THEN [status |-> "incompatible", found |-> <<>>, joined |-> {}, overlap |-> "unknown"]
                     ELSE [Correlation(question.first, question.second, question.gc, question.code)
                              EXCEPT !.status = "completed", !.joined = {captures \cup {log}}]
    /\ UNCHANGED question

-----------------------------------------------------------------------------
(* What the captures of a request have in common with the process *)

IsList(s) == s \in Seq(ToSet(s))

\* The histogram of a heap whose classes hold real, sized in units of which a
\* byte has scale: what it shows is true, and a complete one lacks nothing.
IsHistogram(heap, real, scale) ==
    /\ DOMAIN ClassIndex(heap) \subseteq DOMAIN real
    /\ \A c \in DOMAIN ClassIndex(heap) :
           heap.table[c][1] = real[c][1] /\ heap.table[c][2] = scale * real[c][2]
    /\ heap.complete => \A c \in DOMAIN real : real[c][1] > 0 => c \in DOMAIN heap.table

ASSUME HeapsAssumption ==
    \A q \in Questions : q.ask = "heaps" =>
        /\ DOMAIN q.real[1] = DOMAIN q.real[2] /\ IsFiniteSet(DOMAIN q.real[1])
        /\ \A i \in {1, 2} :
               /\ q.scale[i] \in Nat \ {0}
               /\ \A c \in DOMAIN q.real[1] :
                      q.real[i][c] \in Nat \X Nat /\ (q.real[i][c][1] = 0 => q.real[i][c][2] = 0)
        /\ ~Partial(q.first) => IsHistogram(q.first, q.real[1], q.scale[1])
        /\ ~Partial(q.second) => IsHistogram(q.second, q.real[2], q.scale[2])
        /\ ~SizingDiffers(q.first, q.second) => q.scale[1] = q.scale[2]

\* A dump prints a thread once, and all its threads with one kind of identity.
IsThreadList(threads) ==
    /\ IsList(threads)
    /\ \A i, j \in DOMAIN threads :
           /\ threads[i].who = threads[j].who => i = j
           /\ IdentityOf(threads[i])[1] = IdentityOf(threads[j])[1]

\* A thread that lives on keeps each identity it is printed with.
ASSUME ThreadsAssumption ==
    \A q \in Questions : q.ask = "threads" =>
        /\ IsThreadList(q.first.threads) /\ IsThreadList(q.second.threads)
        /\ \A b \in ToSet(q.first.threads), a \in ToSet(q.second.threads) :
               (b.who = a.who /\ IdentityOf(b)[1] = IdentityOf(a)[1]) => IdentityOf(b) = IdentityOf(a)

ASSUME JointAssumption ==
    \A q \in Questions : q.ask \in {"correlate", "incident"} =>
        /\ \A list \in {q.first.bySize, q.first.byCount, q.first.suspects} : IsList(list)
        /\ \A c \in ToSet(q.first.bySize) \cup ToSet(q.first.byCount) : q.first.table[c][1] \in Nat
        /\ IsList(q.second.threads)
        /\ \A t \in ToSet(q.second.threads) : IsList(t.stack)

ASSUME LimitsAssumption ==
    /\ {Listed, Lookups, Budget} \subseteq Nat
    /\ {Blamed, MaxMatched} \subseteq Nat \ {0}

-----------------------------------------------------------------------------
CapturesIdle == question = NoQuestion /\ answer = NoAnswer
CapturesInit == question \in Questions /\ answer = NoAnswer
CapturesNext == CompareHeaps \/ CompareThreads \/ Correlate \/ Incident

-----------------------------------------------------------------------------
(* Properties *)

\* What a class really holds; a question about heaps says it in real, and in
\* scale how the report sizes a byte of it.
TrueBytes(i, c) == question.real[i][c][2]
TrueGrowth(c) == TrueBytes(2, c) - TrueBytes(1, c)
TrueClasses == DOMAIN question.real[1]
HeapBytes(i) == UNION {{c} \X (1..TrueBytes(i, c)) : c \in TrueClasses}

\* Whatever part of the histograms the reports kept: a class that is said to
\* have grown has grown in the real heap, one that is said to be new was not
\* there; a comparison that claims complete coverage has the real net growth
\* and, up to the length of its list, every class that grew; and a healthy
\* verdict means that no class grew at all.
GrowthIsReal ==
    answer.status = "heaps" =>
        /\ \A d \in ToSet(answer.growers) : TrueGrowth(d.class) > 0
        /\ \A d \in ToSet(answer.new) : TrueBytes(1, d.class) = 0 /\ TrueBytes(2, d.class) > 0
        /\ answer.coverage = "complete" =>
               /\ (answer.growth > 0) = (Cardinality(HeapBytes(2)) > Cardinality(HeapBytes(1)))
               /\ LET grown == {c \in TrueClasses : TrueGrowth(c) > 0}
                  IN  Len(answer.growers) =
                          (IF Cardinality(grown) < Listed THEN Cardinality(grown) ELSE Listed)
        /\ answer.verdict = "healthy" => \A c \in TrueClasses : TrueGrowth(c) =< 0

\* "Duplicate identities are not safe to pair": as long as no thread took
\* over the printed identity of one that ended, the two halves of a stuck
\* thread are one thread of the process, and the interval is the time
\* between the captures.
Survivors == {t.who : t \in ToSet(question.first.threads)} \cap {t.who : t \in ToSet(question.second.threads)}
Inherited ==
    \E b \in ToSet(question.first.threads), a \in ToSet(question.second.threads) :
        b.who # a.who /\ IdentityOf(b) = IdentityOf(a) /\ ~({b.who, a.who} \subseteq Survivors)
StuckIsOneThread ==
    (answer.status = "threads" /\ ~Inherited) =>
        \A s \in answer.stuck : s.before = s.after

\* Evidence of two captures stands in one finding only if nothing that both
\* of them state tells them apart, whichever of the four they are.
NoMixedEvidence ==
    answer.status \in {"correlated", "completed"} =>
        \A group \in answer.joined : \A a, b \in group : ~Differ(a, b)

\* "No direct overlap" is only said if no class of the heap's lists or
\* suspects runs on any thread.
NoOverlapMeansNone ==
    (answer.status \in {"correlated", "completed"} /\ answer.overlap = "none") =>
        LET heap == question.first
            ours == {OuterOf[c] : c \in ToSet(heap.bySize \o heap.byCount \o heap.suspects)} \cap Application
        IN  \A t \in ToSet(question.second.threads) : \A i \in DOMAIN t.stack :
                OuterOf[t.stack[i][1]] \notin ours

\* What correlate and the incident say of several captures together, and what
\* they say is missing, is true of captures that go together.
EvidenceBelongsTogether == NoMixedEvidence /\ NoOverlapMeansNone
=============================================================================
