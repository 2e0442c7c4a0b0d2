----------------------------- MODULE MCReports -----------------------------
(***************************************************************************)
(* The small instances of Reports: one section for each analysis.          *)
(***************************************************************************)
EXTENDS Reports

MCSystemLoaders == {"AppLoader"}
MCWebappLoaders == {"WebappLoader"}
MCUserCode == {"app.Job", "app.Worker"}
MCArtifact == [l \in {"/a/x.war", "/b/x.war", "/a/y.war"} |->
                  IF l = "/a/y.war" THEN "y.war" ELSE "x.war"]
MCArchives == {"x.war", "y.war"}
MCPackage == [c \in {"app.Job", "app.Worker"} |-> "app"]

Class(cid, name, super, loader, pd) ==
    [tag |-> "class", cid |-> cid, name |-> name, super |-> super, loader |-> loader, pd |-> pd]
Object(oid, cid, slots) == [tag |-> "instance", oid |-> oid, cid |-> cid, slots |-> slots]
Text(oid, array) == Object(oid, 5, <<<<"value", array>>>>)
Array(oid, text) == [tag |-> "array", oid |-> oid, text |-> text]

\* Loaders 31, 32 (web applications) and 33 (the system's); class ids below 20.
Classes ==
    << Class(1, "Thread", 0, 0, 0), Class(2, "ClassLoader", 0, 0, 0),
       Class(3, "WebappLoader", 2, 0, 0), Class(4, "AppLoader", 2, 0, 0),
       Class(5, "String", 0, 0, 0), Class(6, "ProtectionDomain", 0, 0, 0),
       Class(7, "CodeSource", 0, 0, 0), Class(8, "URL", 0, 0, 0),
       Class(9, "FieldHolder", 0, 0, 0), Class(10, "jdk.Task", 0, 0, 0),
       Class(11, "app.Job", 0, 31, 41), Class(12, "app.Job", 0, 32, 42),
       Class(13, "app.Worker", 1, 32, 42), Class(14, "Main", 0, 33, 0) >>

\* Where a loader's classes come from, as objects.
Origin(n, location, field) ==
    << Object(40 + n, 6, <<<<"codesource", 50 + n>>>>),
       Object(50 + n, 7, <<<<"location", 60 + n>>>>),
       Object(60 + n, 8, <<<<field, location>>>>) >>

LoaderObjects(contexts) ==
    << Object(31, 3, <<<<"contextName", contexts[1]>>, <<"name", 0>>>>),
       Object(32, 3, <<<<"contextName", contexts[2]>>, <<"name", 0>>>>),
       Object(33, 4, <<<<"name", 0>>>>) >>

\* A thread: its class, its Runnable, its context class loader.
ThreadObjects(oid, class, target, context, held) ==
    IF held
    THEN <<Object(oid, class, <<<<"target", 0>>, <<"name", 78>>, <<"holder", oid + 5>>,
                               <<"contextClassLoader", context>>>>),
           Object(oid + 5, 9, <<<<"task", target>>>>)>>
    ELSE <<Object(oid, class, <<<<"name", 78>>, <<"target", target>>,
                               <<"contextClassLoader", context>>>>)>>

Runnables == << Object(91, 11, <<>>), Object(92, 12, <<>>), Object(93, 10, <<>>) >>

\* The strings 71 and 72 are the locations, 73 and 74 the contexts.
Texts(where, context) ==
    << Array(81, where[1]), Array(82, where[2]),
       Array(83, context), Array(84, "other"), Array(88, "worker-1") >>
Strings(shared) ==
    << Text(71, 81), Text(72, IF shared THEN 81 ELSE 82), Text(73, 83), Text(74, 84),
       Text(78, 88) >>

File(where, shared, contexts, roots, thread, arraysFirst) ==
    LET arrays == Texts(where, "shop")
        strings == Strings(shared)
        root == IF roots THEN <<[tag |-> "root", oid |-> 21]>> ELSE <<>>
        objects == LoaderObjects(contexts) \o Origin(1, 71, "file") \o Origin(2, 72, "path")
                   \o thread \o Runnables
    IN  Classes \o root
        \o (IF arraysFirst THEN arrays \o objects \o strings ELSE strings \o objects \o arrays)

\* Threads of the JDK's class (1) and of an application's (13).
AThread(held) ==
    {ThreadObjects(21, 1, target, context, held) : target \in {0, 91, 92, 93}, context \in {0, 32, 33}}
    \cup {ThreadObjects(21, 13, target, 33, held) : target \in {0, 91}}

Served2 == { <<<<"/a/x.war", "/b/x.war">>, <<73, 73>>>>, <<<<"/a/x.war", "/b/x.war">>, <<73, 74>>>>,
             <<<<"/a/x.war", "/a/y.war">>, <<73, 73>>>>, <<<<"/a/x.war", "/a/y.war">>, <<0, 0>>>> }

Job(file, cap, resolve) == [file |-> file, cap |-> cap, resolve |-> resolve]

MCDeploymentJobs ==
    UNION {{Job(File(served[1], FALSE, served[2], TRUE, thread, held), 20, TRUE) :
               served \in Served2, thread \in AThread(held)} : held \in BOOLEAN}
    \cup {Job(File(<<"/a/x.war", "/a/x.war">>, shared, <<73, 73>>, live, thread, TRUE), cap, resolve) :
              shared \in BOOLEAN, live \in BOOLEAN, cap \in {9, 20}, resolve \in BOOLEAN,
              thread \in {ThreadObjects(21, 1, 92, 32, FALSE)}}

-----------------------------------------------------------------------------
(* The stages after the scan: every dump that is whole or cut off, seekable *)
(* or streamed, with any switches and ceilings *)

MCSetups ==
    {s \in [truncated : BOOLEAN, seekable : BOOLEAN, empty : BOOLEAN, arrays : BOOLEAN,
            source : BOOLEAN, indexPath : BOOLEAN, deep : BOOLEAN, budget : BOOLEAN,
            limit : {l \in [StageNames -> {"off", "below", "fits"}] :
                         /\ l["source"] = "fits" /\ l["deployments"] = "fits"
                         /\ l["index"] # "below" /\ l["dominators"] # "below"}] :
        /\ s.empty => ~s.arrays
        /\ s.truncated => s.seekable}

-----------------------------------------------------------------------------
(* Thread dumps *)

MCSynchronizers == {"s"}
Unlocked == {<<"none", "a">>}
WantsOf(op, locks) == {<<op, l>> : l \in locks}
Genuine(c) ==
    \A t \in Ids(c) : c.want[t][1] # "none" => c.owner[c.want[t][2]] # t

CaptureOf(called, owner, want, section, long, frames) ==
    [names |-> called, owner |-> owner, want |-> want, section |-> section,
     long |-> long, frames |-> frames]

\* Three threads, two monitors and a synchronizer.
Monitors == {"a", "b"}
Small ==
    LET wants == Unlocked \cup WantsOf("enter", Monitors) \cup WantsOf("await", Monitors)
                     \cup WantsOf("reenter", Monitors) \cup WantsOf("park", {"s"})
    IN  {c \in {CaptureOf(<<"w1", "w2", "w3">>, owner, want, print[1], print[2], "all") :
                   owner \in [Monitors \cup {"s"} -> 0..3], want \in [1..3 -> wants],
                   print \in {<<"none", TRUE>>, <<"whole", FALSE>>}} : Genuine(c)}

\* Four threads that own a monitor each: rings of two to four, two rings.
Rings ==
    {c \in {CaptureOf(called, [l \in {"a", "b", "c", "d"} |->
                                  CASE l = "a" -> 1 [] l = "b" -> 2 [] l = "c" -> 3 [] l = "d" -> 4],
                      want, print[1], print[2], frames) :
               called \in {<<"w1", "w2", "w3", "w4">>, <<"w", "w", "w", "x">>, <<"w", "x", "w", "x">>},
               want \in [1..4 -> Unlocked \cup WantsOf("enter", {"a", "b", "c", "d"})],
               print \in {<<"none", TRUE>>, <<"cut", TRUE>>, <<"whole", FALSE>>},
               frames \in {"all", "some"}} : Genuine(c)}

MCCaptures == Small \cup Rings

-----------------------------------------------------------------------------
(* The main pass over a dump *)

Data == [kind |-> "data", id |-> 0, parts |-> <<>>, payload |-> 0, kept |-> FALSE, length |-> 0]
Filled(first, n) == <<first>> \o [i \in 1..n |-> Data]
Sum(s) == FoldLeft(LAMBDA a, b : a + b, 0, s)
Sub(kind, parts, payload, kept) ==
    Filled([Data EXCEPT !.kind = kind, !.parts = parts, !.payload = payload, !.kept = kept],
           Sum(parts) + payload)
Top(kind, body) ==
    Filled([Data EXCEPT !.kind = kind, !.length = Len(body)], TopHeader - 1) \o body

Subs == { Sub("instance", <<2>>, 3, FALSE), Sub("instance", <<2>>, 2, TRUE),
          Sub("array", <<1>>, 6, FALSE), Sub("root", <<2>>, 0, FALSE),
          Sub("class", <<2, 1, 3>>, 0, FALSE), Sub("info", <<1>>, 0, FALSE) }
Strange == Sub("unknown", <<>>, 2, FALSE)

\* Cells of a record know their place.
Numbered(cells) == [i \in 1..Len(cells) |-> [cells[i] EXCEPT !.id = i]]

Files ==
    {Top("other", <<Data>>) \o Top("segment", s[1]) \o Top("segment", s[2] \o s[3]) : s \in [1..3 -> Subs]}
    \cup {Top("segment", s[1] \o s[2] \o s[3]) \o Top("END", <<>>) : s \in [1..3 -> Subs]}
    \cup {Top("segment", s[1] \o Strange \o s[2]) \o Top("segment", s[1]) : s \in [1..2 -> Subs]}
Cut(file, n) == SubSeq(file, 1, Len(file) - n)

Task(file, chunk, buffer, interval, budget) ==
    [file |-> Numbered(file), chunk |-> chunk, buffer |-> buffer, interval |-> interval, budget |-> budget]
MCScans ==
    {Task(f, size[1], size[2], quick[1], quick[2]) : f \in Files,
        size \in {<<1, 1>>, <<4, 3>>, <<5, 40>>}, quick \in {<<1, 0>>, <<1, 6>>, <<2, 12>>}}
    \cup {Task(Cut(f, n), 4, 3, 1, 0) : f \in Files, n \in {1, 3}}

-----------------------------------------------------------------------------
(* Server logs *)

LogLine(header, text, rest, marks, frames) ==
    [header |-> header, text |-> text, rest |-> rest, marks |-> marks, frames |-> frames]
Lines == { LogLine(TRUE, 2, 0, <<>>, 0), LogLine(TRUE, 2, 2, <<"oom", "oom">>, 1),
           LogLine(FALSE, 2, 0, <<>>, 1), LogLine(FALSE, 3, 0, <<"deploy", "undeploy">>, 0),
           LogLine(TRUE, 5, 0, <<>>, 0), LogLine(FALSE, 1, 0, <<"start">>, 3) }
MCLogs == UNION {[1..n -> Lines] : n \in {0, 2, 5}}

-----------------------------------------------------------------------------
(* Captures read together *)

MCOuterOf == [c \in {"app.Order", "app.Order$Line", "app.Service", "app.Cache", "jdk.Map", "jdk.Pool"} |->
                 IF c = "app.Order$Line" THEN "app.Order" ELSE c]
MCApplication == {"app.Order", "app.Service", "app.Cache"}
MCIdleFrames == {<<"jdk.Pool", "getTask">>}

NoCode == [paths |-> <<>>, refs |-> <<>>]
Ref(path, method, new) == [path |-> path, method |-> method, new |-> new]
Code == [paths |-> ("app.Service" :> "Service" @@ "app.Cache" :> "Cache"),
         refs |-> ("app.Order" :> <<Ref("Cache", Unknown, FALSE), Ref("Service", "load", TRUE)>>
                   @@ "app.Cache" :> <<Ref("Service", Unknown, FALSE)>>)]

Meta(process, at) == [process |-> process, start |-> Unknown, build |-> Unknown, at |-> at]
ScaleOf(model) == IF model = "b" THEN 2 ELSE 1
Times(model, table) == [c \in DOMAIN table |-> <<table[c][1], table[c][2] * ScaleOf(model)>>]

HeapOf(id, meta, truncated, sizing, complete, table, bySize, byCount, suspects) ==
    [kind |-> "heap", id |-> id, truncated |-> truncated, sizing |-> sizing, complete |-> complete,
     table |-> table, bySize |-> bySize, byCount |-> byCount, suspects |-> suspects] @@ meta

\* A report of a heap: kept whole, as the longest entries only, or cut short.
Present(table) == {c \in DOMAIN table : table[c][1] > 0}
Largest(table, k) ==
    {<<c>> : c \in {d \in Present(table) : \A e \in Present(table) : table[e][k] =< table[d][k]}}
    \cup (IF Present(table) = {} THEN {<<>>} ELSE {})
Kept(table, cs) == [c \in cs |-> table[c]]
Reports(id, at, table) ==
    LET full == Kept(table, Present(table)) IN
    {HeapOf(id, Meta(Unknown, at), FALSE, sizing, TRUE, Times(sizing, full), <<>>, <<>>, <<>>) : sizing \in {"a", "b"}}
    \cup {HeapOf(id, Meta(Unknown, at), FALSE, "a", FALSE, full, s, n, <<>>) :
             s \in Largest(table, 2), n \in Largest(table, 1)}
    \cup {HeapOf(id, Meta(Unknown, at), TRUE, "a", FALSE, Kept(table, Present(table) \ {"app.Order"}), <<>>, <<>>, <<>>)}

Cells == {<<0, 0>>, <<1, 3>>, <<3, 2>>}
Tables == [{"app.Order", "jdk.Map"} -> Cells]
HeapQuestions ==
    UNION {{[ask |-> "heaps", first |-> b, second |-> a, code |-> Code, real |-> <<r1, r2>>,
              scale |-> <<ScaleOf(b.sizing), ScaleOf(a.sizing)>>] :
               b \in Reports("r1", 1, r1), a \in Reports("r2", 2, r2)} : r1 \in Tables, r2 \in Tables}

\* Threads: three that live, any of which may show its native id or not.
Frames == {<<>>, <<<<"app.Service", "load", 7>>>>, <<<<"jdk.Pool", "getTask", 1>>>>}
ThreadOf(who, name, nid, stack, at, cpu) ==
    [name |-> name, tid |-> Unknown, id |-> Unknown, nid |-> nid, state |-> "WAITING",
     stack |-> stack, elapsed |-> at, cpu |-> cpu, who |-> who]
Dump(id, meta, threads, busy) ==
    [kind |-> "thread", id |-> id, threads |-> threads, busyGc |-> busy] @@ meta
NameFor == <<"w", "w", "x">>
Members(at, whos, printed, stack) ==
    [i \in DOMAIN whos |-> ThreadOf(whos[i], NameFor[whos[i]], IF printed THEN whos[i] ELSE Unknown,
                                    stack, at, at)]
Orders == {<<1, 2, 3>>, <<2, 1, 3>>, <<1, 3>>, <<2>>}
ThreadQuestions ==
    {[ask |-> "threads", first |-> Dump("t1", Meta(p[1], 1), Members(1, w1, shown, s), FALSE),
      second |-> Dump(p[3], Meta(p[2], 2), Members(2, w2, shown2, s2), FALSE)] :
        w1 \in Orders, w2 \in Orders, shown \in BOOLEAN, shown2 \in BOOLEAN,
        s \in Frames, s2 \in Frames,
        p \in {<<Unknown, "p", "t2">>, <<"p", "q", "t2">>, <<"p", "p", "t1">>}}

Names3 == {Unknown, "p", "q"}
Stacks == {<<>>, <<<<"app.Service", "load", Unknown>>, <<"app.Service", "main", 9>>>>,
           <<<<"app.Order$Line", "sum", 3>>>>, <<<<"jdk.Pool", "getTask", 1>>>>}
Joint(ask, heap, thread, gc, joined, code) ==
    [ask |-> ask, first |-> heap, second |-> thread, gc |-> gc, log |-> joined, code |-> code]
AHeap(p, at, suspects, order) ==
    HeapOf("h", Meta(p, at), FALSE, "a", TRUE,
           [c \in {"app.Order", "app.Order$Line", "app.Cache", "jdk.Map"} |->
                IF c = "app.Cache" THEN <<5, 5>> ELSE <<2, 9>>],
           order, <<"app.Cache">>, suspects)
Dumped(p, at, stack) ==
    Dump("t", Meta(p, at), <<ThreadOf(1, "w", Unknown, stack, 1, 1), ThreadOf(2, "v", Unknown, <<>>, 1, 1)>>, TRUE)
Trend(p, rising) ==
    IF rising = "none" THEN NoGc ELSE [kind |-> "gc", id |-> "g", rising |-> rising = "yes"] @@ Meta(p, 1)
Log(p) == [kind |-> "log", id |-> "l"] @@ Meta(p, 1)
JointQuestions ==
    {Joint(ask, AHeap(ps[1], 1, <<>>, <<"app.Order", "jdk.Map">>), Dumped(ps[2], at, <<>>),
           Trend(ps[3], rising), Log(ps[4]), Code) :
        ask \in {"correlate", "incident"}, ps \in [1..4 -> Names3], at \in {1, 9}, rising \in {"none", "yes"}}
    \cup {Joint(ask, AHeap("p", 1, suspects, order), Dumped("p", 2, stack), Trend("p", "no"), Log("p"), code) :
        ask \in {"correlate", "incident"}, code \in {NoCode, Code}, stack \in Stacks,
        suspects \in {<<>>, <<"app.Service">>}, order \in {<<"app.Order", "jdk.Map">>, <<"app.Order$Line">>}}

MCQuestions == HeapQuestions \cup ThreadQuestions \cup JointQuestions
=============================================================================
