---------------------------- MODULE FlowCompare ----------------------------
(***************************************************************************)
(* Pairwise comparison of a known-good and a known-bad flow                *)
(* (pytfa/tfa/compare.py).  The files are scanned line by line for the two *)
(* reference ids; ids that co-occur with them may link more lines to a     *)
(* flow in a second scan; the two flows are then aligned and the first     *)
(* difference is reported as the break.                                    *)
(*                                                                         *)
(* A line is what the scan reads off it: file, its file; ids, the ids it   *)
(* carries as whole tokens; links, the <<key, id>> pairs of its payload    *)
(* whose key names a link; step, its call site or template; pay, its other *)
(* payload, a function on fields; ts; err, an error word; cont, a stack    *)
(* frame or an indented line; blank.                                       *)
(***************************************************************************)
EXTENDS Integers, Sequences, FiniteSets, SequencesExt, StableOrder

CONSTANTS Good, Bad,   \* the reference ids
          NoStamp,     \* no timestamp in the line
          MaxLinks,    \* _MAX_LINKS
          Corpora      \* the corpora: sequences of lines, files in path order

ASSUME MaxLinksAssumption == MaxLinks \in Nat

\* A line has a time or none, and is or is not a continuation or blank.
ASSUME CorporaAssumption ==
    \A c \in Corpora :
        /\ c \in Seq({c[i] : i \in DOMAIN c})
        /\ \A i \in DOMAIN c :
               /\ c[i].ts \in Int \cup {NoStamp}
               /\ c[i].cont \in BOOLEAN /\ c[i].blank \in BOOLEAN

VARIABLES corpus,   \* the lines of all files
          phase,    \* "direct" or "linked" scan, "align", "done"
          at,       \* the lines scanned
          last,     \* the flow the line above belongs to, or "none"
          wanted,   \* the ids each flow is found by
          links,    \* the <<key, id>> pairs each flow was extended by
          flows,    \* the steps of each flow
          direct,   \* the steps the first scan found
          diffs     \* the aligned steps

compareVars == <<corpus, phase, at, last, wanted, links, flows, direct, diffs>>

Refs == {"good", "bad"}
RefId(f) == IF f = "good" THEN Good ELSE Bad
Nothing == [f \in Refs |-> <<>>]
Elems(s) == {s[i] : i \in 1..Len(s)}

-----------------------------------------------------------------------------
(* read_reference_flows: scan *)

\* Mutant: the bad flow is asked first.
BadFirst(l) ==
    IF l.ids \cap wanted["bad"] # {} THEN "bad"
    ELSE IF l.ids \cap wanted["good"] # {} THEN "good" ELSE "none"

\* The good flow is asked first.
Hit(l) ==
    IF l.ids \cap wanted["good"] # {} THEN "good"
    ELSE IF l.ids \cap wanted["bad"] # {} THEN "bad" ELSE "none"

\* Mutant: a file continues the last line of the file before it.
AboveAnyFile == last

\* The flow of the line above in the same file.
Above == IF at > 0 /\ corpus[at].file = corpus[at + 1].file THEN last ELSE "none"

ScanLine ==
    /\ phase \in {"direct", "linked"} /\ at < Len(corpus)
    /\ LET l == corpus[at + 1]
           hit == Hit(l)
           n == Len(flows[Above])
       IN  \/ /\ hit # "none"
              /\ flows' = [flows EXCEPT ![hit] = Append(@, [no |-> at + 1, conts |-> {}])]
              /\ last' = hit
           \/ /\ hit = "none" /\ Above # "none" /\ l.cont
              /\ flows' = [flows EXCEPT ![Above][n].conts = @ \cup {at + 1}]
              /\ last' = Above
           \/ /\ hit = "none" /\ (Above = "none" \/ ~l.cont)
              /\ last' = IF l.blank THEN Above ELSE "none"
              /\ UNCHANGED flows
    /\ at' = at + 1
    /\ UNCHANGED <<corpus, phase, wanted, links, direct, diffs>>

\* _link_candidates: the first id under each key, for the first few keys.
LinkCandidates(f) ==
    LET pairs == SelectSeq(
                   FlattenSeq([i \in 1..Len(flows[f]) |-> corpus[flows[f][i].no].links]),
                   LAMBDA p : p[2] \notin {Good, Bad})
        first == SelectSeq([i \in 1..Len(pairs) |-> i],
                           LAMBDA i : \A j \in 1..(i - 1) : pairs[j][1] # pairs[i][1])
        n == IF Len(first) < MaxLinks THEN Len(first) ELSE MaxLinks
    IN  {pairs[first[i]] : i \in 1..n}

FollowLinks ==
    /\ phase = "direct" /\ at = Len(corpus)
    /\ LET candidates == [f \in Refs |-> LinkCandidates(f)]
           shared == {p[2] : p \in candidates["good"]} \cap {p[2] : p \in candidates["bad"]}
       IN  /\ links' = [f \in Refs |-> {p \in candidates[f] : p[2] \notin shared}]
           /\ wanted' = [f \in Refs |-> {RefId(f)} \cup
                                {p[2] : p \in {q \in candidates[f] : q[2] \notin shared}}]
           /\ IF \A f \in Refs : \A p \in candidates[f] : p[2] \in shared
                THEN phase' = "align" /\ UNCHANGED <<at, flows>>
                ELSE phase' = "linked" /\ at' = 0 /\ flows' = Nothing
    /\ last' = "none"
    /\ direct' = flows
    /\ UNCHANGED <<corpus, diffs>>

\* --no-link keeps the lines of the first scan.
SkipLinks ==
    /\ phase = "direct" /\ at = Len(corpus)
    /\ phase' = "align"
    /\ direct' = flows
    /\ UNCHANGED <<corpus, at, last, wanted, links, flows, diffs>>

ScanEnds ==
    /\ phase = "linked" /\ at = Len(corpus)
    /\ phase' = "align"
    /\ UNCHANGED <<corpus, at, last, wanted, links, flows, direct, diffs>>

-----------------------------------------------------------------------------
(* compare_flows *)

LineOf(step) == corpus[step.no]

StampBefore(a, b) == a # NoStamp /\ (b = NoStamp \/ a < b)

InTime(steps) ==
    StableSort(steps, LAMBDA s, t : StampBefore(LineOf(s).ts, LineOf(t).ts))

\* Mutant: only fields that both steps have are compared.
DiffCommonFields(g, b) ==
    {k \in DOMAIN LineOf(g).pay \cap DOMAIN LineOf(b).pay :
        /\ LineOf(g).pay[k] # LineOf(b).pay[k]
        /\ ~(LineOf(g).pay[k] = Good /\ LineOf(b).pay[k] = Bad)}

\* _diff_fields: the field of the reference id itself is meant to differ.
DiffFields(g, b) ==
    {k \in DOMAIN LineOf(g).pay \cup DOMAIN LineOf(b).pay :
        ~ \/ /\ k \in DOMAIN LineOf(g).pay /\ k \in DOMAIN LineOf(b).pay
             /\ \/ LineOf(g).pay[k] = LineOf(b).pay[k]
                \/ LineOf(g).pay[k] = Good /\ LineOf(b).pay[k] = Bad}

\* difflib's SequenceMatcher: pairs of equal steps, increasing in both flows,
\* to which no pair can be added.
Pairs(g, b) ==
    {p \in (1..Len(g)) \X (1..Len(b)) : LineOf(g[p[1]]).step = LineOf(b[p[2]]).step}
Ordered(p, q) == (p[1] < q[1] /\ p[2] < q[2]) \/ (q[1] < p[1] /\ q[2] < p[2])
Alignments(g, b) ==
    {m \in SUBSET Pairs(g, b) :
        /\ \A p, q \in m : p # q => Ordered(p, q)
        /\ \A p \in Pairs(g, b) \ m : \E q \in m : ~Ordered(p, q)}

\* The aligned steps: before each pair what only one flow did, the good first.
Aligned(g, b, m) ==
    LET is == Ascending({p[1] : p \in m})
        js == Ascending({p[2] : p \in m})
        G(k) == IF k = 0 THEN 0 ELSE IF k > Len(is) THEN Len(g) + 1 ELSE is[k]
        B(k) == IF k = 0 THEN 0 ELSE IF k > Len(js) THEN Len(b) + 1 ELSE js[k]
        Only(f, s) == [i \in 1..Len(s) |-> [kind |-> f, step |-> s[i], fields |-> {}]]
        Same(k) == [kind |-> "same", step |-> g[is[k]], fields |-> DiffFields(g[is[k]], b[js[k]])]
    IN  FlattenSeq([k \in 1..(Len(is) + 1) |->
            Only("good", SubSeq(g, G(k - 1) + 1, G(k) - 1)) \o
            Only("bad", SubSeq(b, B(k - 1) + 1, B(k) - 1)) \o
            IF k =< Len(is) THEN <<Same(k)>> ELSE <<>>])

Align ==
    /\ phase = "align"
    /\ flows' = [f \in Refs |-> InTime(flows[f])]
    /\ \E m \in Alignments(InTime(flows["good"]), InTime(flows["bad"])) :
           diffs' = Aligned(InTime(flows["good"]), InTime(flows["bad"]), m)
    /\ phase' = "done"
    /\ UNCHANGED <<corpus, at, last, wanted, links, direct>>

\* 0 when no break was found.
BreakIndex ==
    LET broken == {i \in 1..Len(diffs) : diffs[i].kind # "same" \/ diffs[i].fields # {}}
    IN  IF broken = {} THEN 0 ELSE CHOOSE i \in broken : \A j \in broken : i =< j

IsError(s) == LineOf(s).err \/ \E c \in s.conts : corpus[c].err

ErrorsOnlyInBad ==
    LET failed == {s \in Elems(flows["bad"]) : IsError(s)}
        known == {LineOf(s).step : s \in Elems(flows["good"])}
    IN  IF \E s \in Elems(flows["good"]) : IsError(s)
          THEN {s \in failed : LineOf(s).step \notin known} ELSE failed

CompareInit ==
    /\ corpus \in Corpora
    /\ phase = "direct" /\ at = 0 /\ last = "none"
    /\ wanted = [f \in Refs |-> {RefId(f)}]
    /\ links = [f \in Refs |-> {}]
    /\ flows = Nothing /\ direct = Nothing
    /\ diffs = <<>>

CompareNext == ScanLine \/ FollowLinks \/ SkipLinks \/ ScanEnds \/ Align

-----------------------------------------------------------------------------
(* Properties *)

LinesOf(steps) == {s.no : s \in Elems(steps)}
Carrying(id) == {i \in 1..Len(corpus) : id \in corpus[i].ids}

\* The report's sentence "both flows took the same path with the same payload
\* values" is printed for two flows only if step by step they are the same call
\* sites with the same payload, the reference id apart, whatever alignment was
\* found (compare.py: compare_flows, render_comparison).
NoBreakMeansSamePath ==
    phase = "done" /\ BreakIndex = 0 =>
        /\ Len(flows["good"]) = Len(flows["bad"])
        /\ \A i \in 1..Len(flows["good"]) :
               LET g == LineOf(flows["good"][i])  b == LineOf(flows["bad"][i])
               IN  /\ g.step = b.step
                   /\ DOMAIN g.pay = DOMAIN b.pay
                   /\ \A k \in DOMAIN g.pay : g.pay[k] = b.pay[k] \/ g.pay[k] = Good

\* No line is in both flows, and following links takes from the good flow none
\* of its lines.  From the bad flow it may: every line with the bad id alone
\* stays in it unless it also carries an id that links the good flow (compare.py:
\* scan, which asks the good flow first).  That the bad flow carries no such id
\* is promised and does not hold (SharedIdsAreNotFollowed).
LinkedFlowsKeepTheirLines ==
    phase \in {"align", "done"} =>
        /\ LinesOf(flows["good"]) \cap LinesOf(flows["bad"]) = {}
        /\ Carrying(Good) \subseteq LinesOf(flows["good"])
        /\ \A i \in Carrying(Bad) \ Carrying(Good) :
               \/ i \in LinesOf(flows["bad"])
               \/ \E p \in links["good"] : p[2] \in corpus[i].ids
        /\ \A f \in Refs : \A s \in Elems(flows[f]) : corpus[s.no].ids \cap wanted[f] # {}

\* A stack frame or an indented line is kept with the line of a flow right
\* above it in its file, over blank lines and other such lines only, and with
\* no other; it is kept with one whenever there is one (compare.py: scan).
TracesStayWithTheirLine ==
    phase \in {"align", "done"} =>
        \A f \in Refs : \A s \in Elems(flows[f]) :
            s.conts = {j \in (s.no + 1)..Len(corpus) :
                          /\ corpus[j].cont
                          /\ \A i \in (s.no + 1)..j :
                                 /\ corpus[i].file = corpus[s.no].file
                                 /\ corpus[i].cont \/ corpus[i].blank
                                 /\ Hit(corpus[i]) = "none"}

\* What two scanned flows keep: no line is in both; the good flow has all lines
\* with its id, the bad flow those with its id which no link of the good flow
\* claims; and each line has exactly the stack traces printed below it
\* (compare.py: scan).
FlowsKeepTheirLines == LinkedFlowsKeepTheirLines /\ TracesStayWithTheirLine

\* The ids that the payloads of a flow's own lines name as links.
LinkIdsOf(f) == {p[2] : p \in UNION {Elems(corpus[s.no].links) : s \in Elems(direct[f])}}

\* "An id appearing in both flows is never followed, so the two flows can't
\* merge" (pytfa/README.md, docstring of read_reference_flows): no flow is
\* extended by an id that the lines of both flows name.  The code compares what
\* is left of the candidates of each flow after the cut to a few keys, and to
\* the first id of a key, so an id cut from one flow is followed for the other.
SharedIdsAreNotFollowed ==
    phase \in {"linked", "align", "done"} =>
        \A f \in Refs : \A p \in links[f] : p[2] \notin LinkIdsOf("good") \cap LinkIdsOf("bad")
=============================================================================
