------------------------------- MODULE MCTfa --------------------------------
(***************************************************************************)
(* Tfa for TLC.  For the analysis, three families of directories: every    *)
(* arrangement of three lines in one or two files (interleaved threads,    *)
(* lines without a time or a key, continuations, overlapping files,        *)
(* silences); every five entries and terminals of two threads; and one     *)
(* file of four flows, each of a thread of its own, that walk the usual    *)
(* path, stop short of it, leave it, are slow, repeat a step or log an     *)
(* error.  For the comparison, three lines in one or two files that carry  *)
(* reference and linking ids, traces and blanks, and four lines of the two *)
(* flows that differ in their steps and payloads.                          *)
(***************************************************************************)
EXTENDS Tfa

MCMagnitude(raw) == IF raw >= 100 * Scale THEN Scale
                    ELSE IF raw >= 10 * Scale THEN Scale \div 2 ELSE 0
MCTrust(size) == IF size >= 4 THEN (2 * Scale) \div 10
                 ELSE IF size >= 2 THEN Scale \div 10 ELSE 0

Line(ts, key, site) ==
    [ts |-> ts, cont |-> FALSE, thread |-> key, cid |-> key, site |-> site,
     err |-> site = 3]
Continuation(trace) ==
    [ts |-> NoTs, cont |-> TRUE, thread |-> NoKey, cid |-> NoKey, site |-> 2,
     err |-> trace]

Assorted == {Line(ts, key, site) : ts \in {NoTs, 1, 9}, key \in {1, 2}, site \in {1, 4}}
            \cup {Line(1, NoKey, 1), Continuation(TRUE)}

Directories ==
    {<<s>> : s \in [1..3 -> Assorted]}
    \cup {<<<<s[1]>>, <<s[2], s[3]>>>> : s \in [1..3 -> Assorted]}

Brackets ==
    {<<[n \in 1..5 |-> Line(IF n > 3 THEN n + 3 ELSE n, s[n][1], s[n][2])]>> :
        s \in [1..5 -> {1, 2} \X {1, 4}]}

\* A flow as its steps: <<time after the flow began, site>>.
Usual == <<<<0, 1>>, <<1, 2>>, <<2, 4>>>>
Paths == { Usual,
           <<<<0, 1>>, <<1, 2>>>>,
           <<<<0, 1>>, <<1, 3>>, <<2, 4>>>>,
           <<<<0, 1>>, <<1, 2>>, <<8, 4>>>>,
           <<<<0, 1>>, <<0, 4>>, <<1, 2>>, <<2, 4>>>>,
           <<<<0, 1>>, <<1, 4>>>> }

FlowLines(path, n) ==
    [i \in 1..Len(path) |-> Line(10 * n + path[i][1], n, path[i][2])]

\* The second flow, which may be outvoted, is the usual one.
Populations ==
    {<<FlattenSeq([n \in 1..4 |-> FlowLines(s[n], n)])>> :
        s \in {p \in [1..4 -> Paths] : p[2] = Usual}}

MCInputs == Directories \cup Brackets \cup Populations

Window(from, to) == [from |-> from, to |-> to]
Always == Window(NoTs, NoTs)

Config(strategy, k, base, eval, margin, rules) ==
    [strategy |-> strategy, entries |-> {1}, terminals |-> {4}, gap |-> 5,
     k |-> k, minSize |-> 2, baseline |-> base, eval |-> eval, margin |-> margin,
     factor |-> 3, topN |-> 1, rules |-> rules, penalty |-> 2]

Rule(site, type) == [sig |-> AnyValue, site |-> site, type |-> type]

MCConfigs ==
    { Config("ENTRY_MARKER", 1, Always, Always, 0, {Rule(AnyValue, "TRUNCATION")}),
      Config("ENTRY_MARKER", 1, Window(NoTs, 30), Window(15, NoTs), NoTs, {}),
      Config("IDLE_GAP", 2, Window(NoTs, 40), Always, 0, {Rule(3, AnyValue)}),
      Config("CORRELATION_ID", 1, Always, Always, 2, {}) }

Defect(key, from, to, site) == [key |-> key, from |-> from, to |-> to, site |-> site]
MCDefects == {Defect(key, 15, 45, site) : key \in 2..4, site \in {AnyValue, 2, 3}}

-----------------------------------------------------------------------------
(* The comparison: key 1 may name the links "x" and "y", key 2 only "y". *)

Entry(ids, pairs, step, val, ts) ==
    [file |-> 1, ids |-> ids, links |-> pairs, step |-> step, pay |-> val, ts |-> ts,
     err |-> step = 2, cont |-> FALSE, blank |-> FALSE]

NoPay == [k \in {} |-> 0]
Linking == {Entry(ids \cup {p[2] : p \in Elems(pairs)}, pairs, 1, NoPay, NoStamp) :
               ids \in {{}, {Good}, {Bad}, {Good, Bad}},
               pairs \in {<<>>, <<<<1, "x">>>>, <<<<1, "y">>>>, <<<<2, "y">>, <<1, "x">>>>}}
Other(ids, cont, blank) ==
    [Entry(ids, <<>>, 2, NoPay, NoStamp) EXCEPT !.cont = cont, !.blank = blank]
Others == {Other({}, TRUE, FALSE), Other({}, FALSE, TRUE), Other({}, FALSE, FALSE)}

\* s as lines of file 1 up to line n, and of file 2 from there.
Split(s, n) == [i \in 1..Len(s) |-> [s[i] EXCEPT !.file = IF i =< n THEN 1 ELSE 2]]

Differing ==
    {Entry({id}, <<>>, step, NoPay, IF step = 2 THEN NoStamp ELSE 4 - step) :
        id \in {Good, Bad}, step \in 1..3}
    \cup {Entry({id}, <<>>, 1, [k \in {"ref"} |-> id], 3) : id \in {Good, Bad}}

MCCorpora ==
    {Split(s, n) : s \in [1..3 -> Linking \cup Others], n \in {1, 3}}
    \cup [1..4 -> Differing]
=============================================================================
