----------------------------- MODULE TfaProofs -----------------------------
(***************************************************************************)
(* Proofs about the thread flow analyser: of two compared flows, for every *)
(* corpus.  The theorems are about Tfa, whose run checks the properties.   *)
(***************************************************************************)
EXTENDS Tfa, NumberLemmas

-----------------------------------------------------------------------------
(* The invariant of the comparison.                                        *)

CorpusInv ==
    /\ Len(corpus) \in Nat
    /\ \A i \in 1..Len(corpus) :
           /\ corpus[i].ts \in Int \cup {NoStamp}
           /\ corpus[i].cont \in BOOLEAN /\ corpus[i].blank \in BOOLEAN

CorpusSteps == [no : 1..Len(corpus), conts : SUBSET (1..Len(corpus))]

(* What a flow is found by: its reference id, and what it was extended by. *)
WantedInv ==
    /\ \A f \in Refs : wanted[f] = {RefId(f)} \cup {p[2] : p \in links[f]}
    /\ phase = "direct" => \A f \in Refs : links[f] = {}

(* Nothing but continuations and blank lines of its file follow n up to m. *)
Unbroken(n, m) ==
    \A i \in (n + 1)..m :
        /\ corpus[i].file = corpus[n].file
        /\ corpus[i].cont \/ corpus[i].blank
        /\ Hit(corpus[i]) = "none"
TraceUpto(n, m) == {j \in (n + 1)..m : corpus[j].cont /\ Unbroken(n, j)}

(* The flows are what the lines up to m make them. *)
FlowsUpto(m) ==
    /\ flows \in [Refs -> Seq(CorpusSteps)]
    /\ \A f \in Refs :
          /\ \A k \in 1..Len(flows[f]) :
                /\ flows[f][k].no =< m
                /\ Hit(corpus[flows[f][k].no]) = f
                /\ flows[f][k].conts = TraceUpto(flows[f][k].no, m)
          /\ \A n \in 1..m : Hit(corpus[n]) = f => \E k \in 1..Len(flows[f]) : flows[f][k].no = n

InLineOrder ==
    \A f \in Refs : \A i, j \in 1..Len(flows[f]) : i < j => flows[f][i].no < flows[f][j].no

(* last is the flow whose last line may still be continued. *)
LastInv ==
    /\ last \in Refs \cup {"none"}
    /\ last # "none" =>
          /\ Len(flows[last]) # 0
          /\ Unbroken(flows[last][Len(flows[last])].no, at)
    /\ last = "none" => \A n \in 1..at : Hit(corpus[n]) # "none" => ~Unbroken(n, at)

ScanFlowsInv ==
    /\ at \in 0..Len(corpus)
    /\ FlowsUpto(at) /\ InLineOrder /\ LastInv

DiffsInv ==
    \E m \in Alignments(flows["good"], flows["bad"]) :
        diffs = Aligned(flows["good"], flows["bad"], m)

CompareInv ==
    /\ CorpusInv /\ WantedInv
    /\ phase \in {"direct", "linked", "align", "done"}
    /\ phase \in {"direct", "linked"} => ScanFlowsInv
    /\ phase \in {"align", "done"} => FlowsUpto(Len(corpus))
    /\ phase = "done" => DiffsInv

-----------------------------------------------------------------------------
(* The scan.                                                               *)

(* A step that changes neither the lines nor what flows are found by       *)
(* changes no trace.                                                       *)
LEMMA SameMarks ==
    ASSUME corpus' = corpus, wanted'["good"] = wanted["good"], wanted'["bad"] = wanted["bad"]
    PROVE  /\ \A n : Hit(corpus[n])' = Hit(corpus[n])
           /\ \A n, m : Unbroken(n, m)' <=> Unbroken(n, m)
           /\ \A n, m : TraceUpto(n, m)' = TraceUpto(n, m)
<1>1. \A n : Hit(corpus[n])' = Hit(corpus[n])
  BY DEF Hit
<1>2. \A n, m : Unbroken(n, m)' <=> Unbroken(n, m)
  BY <1>1 DEF Unbroken
<1>3. \A n, m : TraceUpto(n, m)' = TraceUpto(n, m)
  BY <1>2 DEF TraceUpto
<1> QED
  BY <1>1, <1>2, <1>3

(* How far the lines up to the next one carry a trace. *)
LEMMA NextLine ==
    ASSUME CorpusInv, NEW m \in Nat, m < Len(corpus)
    PROVE  /\ \A n \in 1..m : Unbroken(n, m + 1) <=>
                  /\ Unbroken(n, m)
                  /\ corpus[m + 1].file = corpus[n].file
                  /\ corpus[m + 1].cont \/ corpus[m + 1].blank
                  /\ Hit(corpus[m + 1]) = "none"
           /\ \A n \in 1..m : TraceUpto(n, m + 1) =
                  IF corpus[m + 1].cont /\ Unbroken(n, m + 1)
                    THEN TraceUpto(n, m) \cup {m + 1} ELSE TraceUpto(n, m)
           /\ Unbroken(m + 1, m + 1) /\ TraceUpto(m + 1, m + 1) = {}
<1>1. ASSUME NEW n \in 1..m
      PROVE  (n + 1)..(m + 1) = ((n + 1)..m) \cup {m + 1}
  OBVIOUS
<1>2. ((m + 1) + 1)..(m + 1) = {}
  OBVIOUS
<1>3. ASSUME NEW n \in 1..m
      PROVE  Unbroken(n, m + 1) <=>
                  /\ Unbroken(n, m)
                  /\ corpus[m + 1].file = corpus[n].file
                  /\ corpus[m + 1].cont \/ corpus[m + 1].blank
                  /\ Hit(corpus[m + 1]) = "none"
  BY <1>1 DEF Unbroken
<1>4. ASSUME NEW n \in 1..m
      PROVE  TraceUpto(n, m + 1) =
                  IF corpus[m + 1].cont /\ Unbroken(n, m + 1)
                    THEN TraceUpto(n, m) \cup {m + 1} ELSE TraceUpto(n, m)
  BY <1>1 DEF TraceUpto
<1>5. Unbroken(m + 1, m + 1) /\ TraceUpto(m + 1, m + 1) = {}
  BY <1>2 DEF Unbroken, TraceUpto
<1> QED
  BY <1>3, <1>4, <1>5

(* Of the lines of flows at most one may still be continued, and those it  *)
(* may be continued by are of its file.                                    *)
LEMMA OneOpenLine ==
    ASSUME NEW m \in Nat, NEW n \in 1..m, Hit(corpus[n]) # "none", Unbroken(n, m)
    PROVE  /\ corpus[m].file = corpus[n].file
           /\ \A k \in 1..m : Hit(corpus[k]) # "none" /\ Unbroken(k, m) => k = n
<1>1. corpus[m].file = corpus[n].file
  BY DEF Unbroken
<1>2. ASSUME NEW k \in 1..m, Hit(corpus[k]) # "none", Unbroken(k, m)
      PROVE  k = n
  <2>1. CASE k < n
    BY <1>2, <2>1, n \in (k + 1)..m DEF Unbroken
  <2>2. CASE n < k
    BY <1>2, <2>2, k \in (n + 1)..m DEF Unbroken
  <2> QED
    BY <2>1, <2>2
<1> QED
  BY <1>1, <1>2

(* What the flow of the line above says of the lines of flows. *)
LEMMA AboveIsTheOpenFlow ==
    ASSUME CorpusInv, ScanFlowsInv, at < Len(corpus)
    PROVE  /\ Above # "none" =>
                 /\ Above \in Refs /\ last = Above /\ Len(flows[Above]) \in Nat \ {0}
                 /\ LET n == flows[Above][Len(flows[Above])].no
                    IN  /\ n \in 1..at /\ Hit(corpus[n]) = Above
                        /\ Unbroken(n, at) /\ corpus[at + 1].file = corpus[n].file
           /\ Above = "none" =>
                 \A n \in 1..at : Hit(corpus[n]) # "none" => ~Unbroken(n, at + 1)
<1>1. /\ at \in Nat /\ at < Len(corpus) /\ Len(corpus) \in Nat
      /\ flows \in [Refs -> Seq(CorpusSteps)]
  BY DEF CorpusInv, ScanFlowsInv, FlowsUpto
<1>2. "none" \notin Refs
  BY DEF Refs
<1>3. CASE Above # "none"
  <2>1. /\ at > 0 /\ corpus[at].file = corpus[at + 1].file
        /\ Above = last /\ last # "none"
    BY <1>3, <1>1 DEF Above
  <2>2. /\ last \in Refs /\ Len(flows[last]) # 0
        /\ Unbroken(flows[last][Len(flows[last])].no, at)
    BY <2>1 DEF ScanFlowsInv, LastInv
  <2>3. flows[last] \in Seq(CorpusSteps) /\ Len(flows[last]) \in Nat \ {0}
    BY <1>1, <2>2
  <2>4. Len(flows[last]) \in 1..Len(flows[last])
    BY <2>3
  <2>5. flows[last][Len(flows[last])] \in CorpusSteps
    BY <2>3, <2>4, Members
  <2>6. /\ flows[last][Len(flows[last])].no =< at
        /\ Hit(corpus[flows[last][Len(flows[last])].no]) = last
    BY <2>2, <2>4 DEF ScanFlowsInv, FlowsUpto
  <2>7. flows[last][Len(flows[last])].no \in 1..at
    BY <2>5, <2>6, <1>1 DEF CorpusSteps
  <2>8. corpus[at].file = corpus[flows[last][Len(flows[last])].no].file
    BY <2>7, <2>6, <2>2, <2>1, <1>1, OneOpenLine
  <2> QED
    BY <2>1, <2>2, <2>3, <2>6, <2>7, <2>8, <1>3
<1>4. ASSUME Above = "none", NEW n \in 1..at, Hit(corpus[n]) # "none", Unbroken(n, at + 1)
      PROVE  FALSE
  <2>1. Unbroken(n, at) /\ corpus[at + 1].file = corpus[n].file
    BY <1>4, <1>1, NextLine
  <2>2. corpus[at].file = corpus[n].file
    BY <1>4, <1>1, <2>1, OneOpenLine
  <2>3. last = "none"
    BY <1>4, <1>1, <2>1, <2>2 DEF Above
  <2> QED
    BY <2>1, <2>3, <1>4 DEF ScanFlowsInv, LastInv
<1> QED
  BY <1>3, <1>4, Zenon

(* The steps of a flow after the scan of a line: those it had, with the    *)
(* line added to the trace of the open one, and a step of its own.         *)
LEMMA TracesGrow ==
    ASSUME CorpusInv, ScanFlowsInv, at < Len(corpus),
           NEW f \in Refs, NEW k \in 1..Len(flows[f])
    PROVE  /\ flows[f][k] \in CorpusSteps /\ flows[f][k].no \in 1..at
           /\ TraceUpto(flows[f][k].no, at + 1) =
                IF /\ Above = f /\ k = Len(flows[f]) /\ corpus[at + 1].cont
                   /\ Hit(corpus[at + 1]) = "none"
                  THEN flows[f][k].conts \cup {at + 1} ELSE flows[f][k].conts
<1> DEFINE n == flows[f][k].no
           top == flows[f][Len(flows[f])].no
           l == corpus[at + 1]
<1>1. /\ at \in Nat /\ at < Len(corpus) /\ Len(corpus) \in Nat
      /\ flows[f] \in Seq(CorpusSteps) /\ Len(flows[f]) \in Nat
  BY DEF CorpusInv, ScanFlowsInv, FlowsUpto
<1>2. flows[f][k] \in CorpusSteps
  BY <1>1, Members
<1>3. n =< at /\ Hit(corpus[n]) = f /\ flows[f][k].conts = TraceUpto(n, at)
  BY DEF ScanFlowsInv, FlowsUpto
<1>4. n \in 1..at /\ f # "none"
  BY <1>1, <1>2, <1>3 DEF CorpusSteps, Refs
<1>5. CASE Unbroken(n, at + 1)
  <2>1. Unbroken(n, at) /\ Hit(l) = "none"
    BY <1>1, <1>4, <1>5, NextLine
  <2>2. Above # "none"
    BY <1>1, <1>3, <1>4, <1>5, AboveIsTheOpenFlow
  <2>3. /\ Above \in Refs
        /\ LET m == flows[Above][Len(flows[Above])].no
           IN  m \in 1..at /\ Hit(corpus[m]) = Above /\ Unbroken(m, at)
    BY <1>1, <2>2, AboveIsTheOpenFlow
  <2>4. flows[Above][Len(flows[Above])].no = n /\ Above = f
    BY <1>1, <1>3, <1>4, <2>1, <2>2, <2>3, OneOpenLine
  <2>5. k = Len(flows[f])
    <3>1. CASE k < Len(flows[f])
      <4>1. Len(flows[f]) \in 1..Len(flows[f])
        BY <1>1, <3>1
      <4>2. n < top
        BY <3>1, <4>1, <1>1 DEF ScanFlowsInv, InLineOrder
      <4> QED
        BY <4>2, <2>4, <1>4
    <3> QED
      BY <3>1, <1>1
  <2>6. TraceUpto(n, at + 1) = IF l.cont THEN TraceUpto(n, at) \cup {at + 1} ELSE TraceUpto(n, at)
    BY <1>1, <1>4, <1>5, NextLine
  <2> QED
    BY <2>1, <2>4, <2>5, <2>6, <1>2, <1>3, <1>4
<1>6. CASE ~Unbroken(n, at + 1)
  <2>1. TraceUpto(n, at + 1) = flows[f][k].conts
    BY <1>1, <1>3, <1>4, <1>6, NextLine
  <2>2. ASSUME Above = f, k = Len(flows[f]), l.cont, Hit(l) = "none"
        PROVE  FALSE
    <3>1. Unbroken(n, at) /\ l.file = corpus[n].file
      BY <2>2, <1>1, <1>4, AboveIsTheOpenFlow
    <3> QED
      BY <3>1, <2>2, <1>1, <1>4, <1>6, NextLine
  <2> QED
    BY <2>1, <2>2, <1>2, <1>4
<1> QED
  BY <1>5, <1>6

(* A scanned line leaves the flows what the lines so far make them.        *)
LEMMA ScanLineKeeps ==
    ASSUME CorpusInv, ScanFlowsInv, ScanLine
    PROVE  ScanFlowsInv'
<1> DEFINE N == at + 1
           l == corpus[N]
<1>1. /\ at \in Nat /\ N \in 1..Len(corpus) /\ at < Len(corpus) /\ Len(corpus) \in Nat
      /\ flows \in [Refs -> Seq(CorpusSteps)]
      /\ at' = N /\ corpus' = corpus /\ wanted' = wanted
  BY DEF CorpusInv, ScanFlowsInv, FlowsUpto, ScanLine
<1>2. "none" \notin Refs /\ Hit(l) \in Refs \cup {"none"}
  BY DEF Refs, Hit
<1>3. /\ \A n : Hit(corpus[n])' = Hit(corpus[n])
      /\ \A n, m : Unbroken(n, m)' <=> Unbroken(n, m)
      /\ \A n, m : TraceUpto(n, m)' = TraceUpto(n, m)
  BY <1>1, SameMarks
<1>4. CorpusSteps' = CorpusSteps
  BY <1>1 DEF CorpusSteps
<1>5. \A f \in Refs : Len(flows[f]) \in Nat /\ flows[f] \in Seq(CorpusSteps)
  BY <1>1
<1>6. ASSUME NEW f \in Refs, NEW k \in 1..Len(flows[f])
      PROVE  /\ flows[f][k] \in CorpusSteps /\ flows[f][k].no \in 1..at
             /\ Hit(corpus[flows[f][k].no]) = f
             /\ TraceUpto(flows[f][k].no, N) =
                  IF Above = f /\ k = Len(flows[f]) /\ l.cont /\ Hit(l) = "none"
                    THEN flows[f][k].conts \cup {N} ELSE flows[f][k].conts
  <2>1. Hit(corpus[flows[f][k].no]) = f
    BY DEF ScanFlowsInv, FlowsUpto
  <2> QED
    BY <2>1, <1>1, TracesGrow
<1>7. \A f \in Refs : \A n \in 1..at :
          Hit(corpus[n]) = f => \E k \in 1..Len(flows[f]) : flows[f][k].no = n
  BY DEF ScanFlowsInv, FlowsUpto
<1>8. \A f \in Refs : \A i, j \in 1..Len(flows[f]) : i < j => flows[f][i].no < flows[f][j].no
  BY DEF ScanFlowsInv, InLineOrder
<1>9. Unbroken(N, N) /\ TraceUpto(N, N) = {} /\ 1..N = (1..at) \cup {N}
  BY <1>1, NextLine
<1>10. CASE Hit(l) # "none"
  <2> DEFINE hit == Hit(l)
             step == [no |-> N, conts |-> {}]
  <2>1. /\ hit \in Refs /\ last' = hit
        /\ flows' = [flows EXCEPT ![hit] = Append(@, step)]
    BY <1>2, <1>10 DEF ScanLine
  <2>2. step \in CorpusSteps /\ step.no = N /\ step.conts = {}
    BY <1>1 DEF CorpusSteps
  <2> HIDE DEF step
  <2>3. /\ flows' \in [Refs -> Seq(CorpusSteps)]
        /\ flows'[hit] = Append(flows[hit], step)
        /\ Len(flows'[hit]) = Len(flows[hit]) + 1
        /\ flows'[hit][Len(flows[hit]) + 1] = step
        /\ \A k \in 1..Len(flows[hit]) : flows'[hit][k] = flows[hit][k]
        /\ \A f \in Refs \ {hit} : flows'[f] = flows[f]
    <3>1. /\ Append(flows[hit], step) \in Seq(CorpusSteps)
          /\ Len(Append(flows[hit], step)) = Len(flows[hit]) + 1
          /\ Append(flows[hit], step)[Len(flows[hit]) + 1] = step
          /\ \A i \in 1..Len(flows[hit]) : Append(flows[hit], step)[i] = flows[hit][i]
      BY <1>5, <2>1, <2>2, Appended
    <3> QED
      BY <1>1, <2>1, <3>1
  <2>4. ASSUME NEW f \in Refs, NEW k \in 1..Len(flows'[f])
        PROVE  \/ k \in 1..Len(flows[f]) /\ flows'[f][k] = flows[f][k]
               \/ f = hit /\ k = Len(flows[f]) + 1 /\ flows'[f][k] = step
    BY <2>1, <2>3, <1>5
  <2>5. ASSUME NEW f \in Refs, NEW k \in 1..Len(flows'[f])
        PROVE  /\ flows'[f][k].no =< N /\ Hit(corpus[flows'[f][k].no]) = f
               /\ flows'[f][k].conts = TraceUpto(flows'[f][k].no, N)
    <3>1. CASE k \in 1..Len(flows[f]) /\ flows'[f][k] = flows[f][k]
      BY <3>1, <1>1, <1>6, <1>10
    <3>2. CASE f = hit /\ flows'[f][k] = step
      BY <3>2, <1>1, <1>9, <2>2
    <3> QED
      BY <2>4, <3>1, <3>2
  <2>6. ASSUME NEW f \in Refs, NEW n \in 1..N, Hit(corpus[n]) = f
        PROVE  \E k \in 1..Len(flows'[f]) : flows'[f][k].no = n
    <3>1. CASE n = N
      BY <3>1, <2>1, <2>2, <2>3, <1>5, <2>6
    <3>2. CASE n \in 1..at
      <4>1. PICK k \in 1..Len(flows[f]) : flows[f][k].no = n
        BY <3>2, <2>6, <1>7
      <4> QED
        BY <4>1, <2>1, <2>3, <1>5
    <3> QED
      BY <3>1, <3>2, <1>9
  <2>7. ASSUME NEW f \in Refs, NEW i \in 1..Len(flows'[f]), NEW j \in 1..Len(flows'[f]), i < j
        PROVE  flows'[f][i].no < flows'[f][j].no
    <3>1. i \in 1..Len(flows[f]) /\ flows'[f][i] = flows[f][i]
      BY <2>7, <2>1, <2>3, <1>5
    <3>2. CASE j \in 1..Len(flows[f]) /\ flows'[f][j] = flows[f][j]
      BY <3>1, <3>2, <2>7, <1>8
    <3>3. CASE flows'[f][j] = step
      <4>1. flows[f][i].no \in 1..at
        BY <3>1, <1>6
      <4> QED
        BY <4>1, <3>1, <3>3, <2>2, <1>1
    <3> QED
      BY <2>4, <3>2, <3>3
  <2>8. Len(flows'[hit]) # 0 /\ Unbroken(flows'[hit][Len(flows'[hit])].no, N)
    BY <2>1, <2>2, <2>3, <1>5, <1>9
  <2>9. FlowsUpto(at)'
    <3>1. flows' \in [Refs -> Seq(CorpusSteps)]
      BY <2>3
    <3> QED
      BY <3>1, <2>5, <2>6, <1>1, <1>3, <1>4 DEF FlowsUpto
  <2>10. InLineOrder'
    BY <2>7 DEF InLineOrder
  <2>11. LastInv'
    BY <2>1, <2>8, <1>1, <1>2, <1>3 DEF LastInv
  <2> QED
    BY <2>9, <2>10, <2>11, <1>1 DEF ScanFlowsInv
<1> HIDE DEF l
<1>11. CASE Hit(l) = "none" /\ Above # "none" /\ l.cont
  <2> DEFINE top == Len(flows[Above])
  <2>1. /\ Above \in Refs /\ last' = Above
        /\ flows' = [flows EXCEPT ![Above][top].conts = @ \cup {N}]
    BY <1>1, <1>11, AboveIsTheOpenFlow DEF ScanLine, l
  <2>2. /\ top \in Nat \ {0} /\ top \in 1..top
        /\ LET n == flows[Above][top].no
           IN  n \in 1..at /\ Unbroken(n, at) /\ l.file = corpus[n].file
    BY <1>1, <1>11, AboveIsTheOpenFlow DEF l
  <2>3. flows[Above] \in Seq(CorpusSteps) /\ flows[Above][top] \in CorpusSteps
    BY <2>1, <2>2, <1>5, <1>6
  <2> DEFINE step == [flows[Above][top] EXCEPT !.conts = @ \cup {N}]
  <2>4. /\ step \in CorpusSteps /\ step.no = flows[Above][top].no
        /\ step.conts = flows[Above][top].conts \cup {N}
    BY <2>3, <1>1 DEF CorpusSteps
  <2>5. /\ flows'[Above] = [flows[Above] EXCEPT ![top] = step]
        /\ \A f \in Refs \ {Above} : flows'[f] = flows[f]
        /\ flows' = [f \in Refs |-> flows'[f]]
    BY <2>1, <1>1
  <2> HIDE DEF step
  <2>6. /\ flows'[Above] \in Seq(CorpusSteps) /\ Len(flows'[Above]) = top
        /\ flows'[Above][top] = step
        /\ \A k \in 1..top : k # top => flows'[Above][k] = flows[Above][k]
    BY <2>2, <2>3, <2>4, <2>5
  <2>7. flows' \in [Refs -> Seq(CorpusSteps)]
    BY <2>5, <2>6, <1>5
  <2>8. ASSUME NEW f \in Refs
        PROVE  /\ Len(flows'[f]) = Len(flows[f])
               /\ \A k \in 1..Len(flows[f]) :
                     /\ flows'[f][k].no = flows[f][k].no
                     /\ flows'[f][k].conts =
                          IF f = Above /\ k = top THEN flows[f][k].conts \cup {N}
                          ELSE flows[f][k].conts
    BY <2>4, <2>5, <2>6
  <2>9. ASSUME NEW f \in Refs, NEW k \in 1..Len(flows'[f])
        PROVE  /\ flows'[f][k].no =< N /\ Hit(corpus[flows'[f][k].no]) = f
               /\ flows'[f][k].conts = TraceUpto(flows'[f][k].no, N)
    <3>1. k \in 1..Len(flows[f])
      BY <2>8
    <3>2. /\ flows[f][k].no \in 1..at /\ Hit(corpus[flows[f][k].no]) = f
          /\ TraceUpto(flows[f][k].no, N) =
               IF f = Above /\ k = top THEN flows[f][k].conts \cup {N} ELSE flows[f][k].conts
      BY <3>1, <1>6, <1>11
    <3>3. /\ flows'[f][k].no = flows[f][k].no
          /\ flows'[f][k].conts =
               IF f = Above /\ k = top THEN flows[f][k].conts \cup {N} ELSE flows[f][k].conts
      BY <3>1, <2>8
    <3> QED
      BY <3>2, <3>3, <1>1
  <2>10. ASSUME NEW f \in Refs, NEW n \in 1..N, Hit(corpus[n]) = f
         PROVE  \E k \in 1..Len(flows'[f]) : flows'[f][k].no = n
    <3>1. n \in 1..at
      BY <2>10, <1>2, <1>9, <1>11 DEF l
    <3>2. PICK k \in 1..Len(flows[f]) : flows[f][k].no = n
      BY <3>1, <2>10, <1>7
    <3>3. k \in 1..Len(flows'[f]) /\ flows'[f][k].no = n
      BY <3>2, <2>8
    <3> QED
      BY <3>3
  <2>11. Unbroken(flows[Above][top].no, N)
    BY <2>2, <1>1, <1>11, NextLine DEF l
  <2>12. FlowsUpto(at)'
    BY <2>7, <2>9, <2>10, <1>1, <1>3, <1>4 DEF FlowsUpto
  <2>13. InLineOrder'
    BY <2>8, <1>8 DEF InLineOrder
  <2>14. LastInv'
    <3>1. Len(flows'[Above]) = top /\ flows'[Above][top].no = flows[Above][top].no
      BY <2>1, <2>2, <2>8
    <3> QED
      BY <3>1, <2>1, <2>2, <2>11, <1>1, <1>2, <1>3 DEF LastInv
  <2> QED
    BY <2>12, <2>13, <2>14, <1>1 DEF ScanFlowsInv
<1>12. CASE Hit(l) = "none" /\ (Above = "none" \/ ~l.cont)
  <2>1. flows' = flows /\ last' = IF l.blank THEN Above ELSE "none"
    BY <1>12 DEF ScanLine, l
  <2>2. ASSUME NEW f \in Refs, NEW k \in 1..Len(flows[f])
        PROVE  /\ flows[f][k].no =< N /\ Hit(corpus[flows[f][k].no]) = f
               /\ flows[f][k].conts = TraceUpto(flows[f][k].no, N)
    <3>1. /\ flows[f][k].no \in 1..at /\ Hit(corpus[flows[f][k].no]) = f
          /\ TraceUpto(flows[f][k].no, N) = flows[f][k].conts
      BY <1>2, <1>6, <1>12
    <3> QED
      BY <3>1, <1>1
  <2>3. ASSUME NEW f \in Refs, NEW n \in 1..N, Hit(corpus[n]) = f
        PROVE  \E k \in 1..Len(flows[f]) : flows[f][k].no = n
    BY <2>3, <1>2, <1>7, <1>9, <1>12 DEF l
  <2>4. FlowsUpto(at)'
    BY <2>1, <2>2, <2>3, <1>1, <1>3, <1>4 DEF FlowsUpto
  <2>5. InLineOrder'
    BY <2>1, <1>8 DEF InLineOrder
  <2>6. LastInv'
    <3>1. CASE last' # "none"
      <4>1. last' = Above /\ Above # "none" /\ l.blank
        BY <2>1, <3>1
      <4>2. /\ Above \in Refs /\ Len(flows[Above]) # 0
            /\ flows[Above][Len(flows[Above])].no \in 1..at
            /\ Unbroken(flows[Above][Len(flows[Above])].no, at)
            /\ l.file = corpus[flows[Above][Len(flows[Above])].no].file
        BY <4>1, <1>1, AboveIsTheOpenFlow DEF l
      <4>3. Unbroken(flows[Above][Len(flows[Above])].no, N)
        BY <4>1, <4>2, <1>1, <1>12, NextLine DEF l
      <4> QED
        BY <4>1, <4>2, <4>3, <2>1, <1>1, <1>3 DEF LastInv
    <3>2. CASE last' = "none"
      <4>1. ASSUME NEW n \in 1..N, Hit(corpus[n]) # "none", Unbroken(n, N)
            PROVE  FALSE
        <5>1. n \in 1..at
          BY <4>1, <1>9, <1>12 DEF l
        <5>2. l.cont \/ l.blank
          BY <5>1, <4>1, <1>1, NextLine DEF l
        <5>3. Above # "none"
          BY <5>1, <4>1, <1>1, AboveIsTheOpenFlow
        <5> QED
          BY <5>2, <5>3, <3>2, <2>1, <1>12
      <4> QED
        BY <4>1, <3>2, <1>1, <1>3 DEF LastInv
    <3> QED
      BY <3>1, <3>2
  <2> QED
    BY <2>4, <2>5, <2>6, <1>1 DEF ScanFlowsInv
<1> QED
  BY <1>2, <1>10, <1>11, <1>12, CorpusInv, <1>1 DEF l

-----------------------------------------------------------------------------
(* The other steps of the comparison.                                      *)

(* Sorting a flow by time changes its order and nothing else.              *)
LEMMA InTimeKeepsTheSteps ==
    ASSUME CorpusInv, NEW s \in Seq(CorpusSteps)
    PROVE  /\ InTime(s) \in Seq(CorpusSteps) /\ Len(InTime(s)) = Len(s)
           /\ \A k \in 1..Len(s) : \E j \in 1..Len(s) : InTime(s)[k] = s[j]
           /\ \A j \in 1..Len(s) : \E k \in 1..Len(s) : InTime(s)[k] = s[j]
<1> DEFINE n == Len(s)
           ts(i) == LineOf(s[i]).ts
           L == {p \in (1..n) \X (1..n) : StampBefore(ts(p[1]), ts(p[2]))}
           R == {p \in (1..n) \X (1..n) :
                    <<p[1], p[2]>> \in L \/ (<<p[2], p[1]>> \notin L /\ p[1] < p[2])}
           a == Arranged(1..n, R)
<1>1. n \in Nat
  OBVIOUS
<1>2. ASSUME NEW i \in 1..n
      PROVE  ts(i) \in Int \cup {NoStamp}
  <2>1. s[i] \in CorpusSteps
    BY Members
  <2>2. s[i].no \in 1..Len(corpus)
    BY <2>1 DEF CorpusSteps
  <2> QED
    BY <2>2 DEF CorpusInv, LineOf
<1>3. \A i, j \in 1..n : <<i, j>> \in L <=> StampBefore(ts(i), ts(j))
  OBVIOUS
<1> HIDE DEF n, ts
<1>4. \A i, j \in 1..n : <<i, j>> \in L => <<j, i>> \notin L
  BY <1>2, <1>3 DEF StampBefore
<1>5. \A i, j, k \in 1..n : <<i, j>> \in L /\ <<j, k>> \in L => <<i, k>> \in L
  BY <1>2, <1>3 DEF StampBefore
<1>6. \A i, j, k \in 1..n : <<i, j>> \in L => <<i, k>> \in L \/ <<k, j>> \in L
  BY <1>2, <1>3 DEF StampBefore
<1>7. Sooner(s, LAMBDA x, y : StampBefore(LineOf(x).ts, LineOf(y).ts)) = R
  BY <1>3 DEF Sooner, n, ts
<1>8. InTime(s) = [k \in 1..n |-> s[a[k]]]
  BY <1>7 DEF InTime, StableSort, n
<1> HIDE DEF L
<1>9. IsFiniteSet(1..n) /\ Cardinality(1..n) = n /\ Orders(R, 1..n)
  BY <1>1, <1>4, <1>5, <1>6, SortedOrders
<1> HIDE DEF R
<1>10. a \in [1..n -> 1..n] /\ \A i \in 1..n : \E k \in 1..n : a[k] = i
  BY <1>9, ArrangedInOrder
<1> HIDE DEF a
<1>11. s \in [1..n -> CorpusSteps]
  BY DEF n
<1>12. InTime(s) \in [1..n -> CorpusSteps]
  BY <1>8, <1>10, <1>11
<1>13. InTime(s) \in Seq(CorpusSteps) /\ Len(InTime(s)) = n
  BY <1>1, <1>12
<1>14. \A k \in 1..n : InTime(s)[k] = s[a[k]] /\ a[k] \in 1..n
  BY <1>8, <1>10
<1> QED
  BY <1>10, <1>13, <1>14 DEF n

(* The flows in time order are what the lines make them.                   *)
LEMMA AlignKeeps ==
    ASSUME CorpusInv, FlowsUpto(Len(corpus)), Align
    PROVE  FlowsUpto(Len(corpus))' /\ DiffsInv'
<1>1. /\ corpus' = corpus /\ wanted' = wanted
      /\ flows' = [f \in Refs |-> InTime(flows[f])]
      /\ flows'["good"] = InTime(flows["good"]) /\ flows'["bad"] = InTime(flows["bad"])
  BY DEF Align, Refs
<1>2. /\ \A n : Hit(corpus[n])' = Hit(corpus[n])
      /\ \A n, m : TraceUpto(n, m)' = TraceUpto(n, m)
  BY <1>1, SameMarks
<1>3. CorpusSteps' = CorpusSteps
  BY <1>1 DEF CorpusSteps
<1>4. ASSUME NEW f \in Refs
      PROVE  /\ flows[f] \in Seq(CorpusSteps) /\ flows'[f] = InTime(flows[f])
             /\ InTime(flows[f]) \in Seq(CorpusSteps)
             /\ Len(InTime(flows[f])) = Len(flows[f])
             /\ \A k \in 1..Len(flows[f]) :
                   \E j \in 1..Len(flows[f]) : InTime(flows[f])[k] = flows[f][j]
             /\ \A j \in 1..Len(flows[f]) :
                   \E k \in 1..Len(flows[f]) : InTime(flows[f])[k] = flows[f][j]
  <2>1. flows[f] \in Seq(CorpusSteps)
    BY DEF FlowsUpto
  <2> QED
    BY <2>1, <1>1, InTimeKeepsTheSteps
<1>5. flows' \in [Refs -> Seq(CorpusSteps)]
  BY <1>1, <1>4
<1>6. ASSUME NEW f \in Refs, NEW k \in 1..Len(flows'[f])
      PROVE  /\ flows'[f][k].no =< Len(corpus) /\ Hit(corpus[flows'[f][k].no]) = f
             /\ flows'[f][k].conts = TraceUpto(flows'[f][k].no, Len(corpus))
  <2>1. k \in 1..Len(flows[f]) /\ flows'[f][k] = InTime(flows[f])[k]
    BY <1>4
  <2>2. PICK j \in 1..Len(flows[f]) : flows'[f][k] = flows[f][j]
    BY <1>4, <2>1
  <2> QED
    BY <2>2 DEF FlowsUpto
<1>7. ASSUME NEW f \in Refs, NEW n \in 1..Len(corpus), Hit(corpus[n]) = f
      PROVE  \E k \in 1..Len(flows'[f]) : flows'[f][k].no = n
  <2>1. PICK j \in 1..Len(flows[f]) : flows[f][j].no = n
    BY <1>7 DEF FlowsUpto
  <2>2. PICK k \in 1..Len(flows[f]) : InTime(flows[f])[k] = flows[f][j]
    BY <1>4
  <2>3. k \in 1..Len(flows'[f]) /\ flows'[f][k].no = n
    BY <2>1, <2>2, <1>4
  <2> QED
    BY <2>3
<1>8. FlowsUpto(Len(corpus))'
  BY <1>1, <1>2, <1>3, <1>5, <1>6, <1>7 DEF FlowsUpto
<1>9. \A g, b : Alignments(g, b)' = Alignments(g, b)
  BY <1>1 DEF Alignments, Pairs, Ordered, LineOf
<1>10. \A g, b, m : Aligned(g, b, m)' = Aligned(g, b, m)
  BY <1>1 DEF Aligned, DiffFields, LineOf
<1>11. DiffsInv'
  BY <1>1, <1>9, <1>10 DEF DiffsInv, Align
<1> QED
  BY <1>8, <1>11

(* Following links scans again for more ids, or keeps all as it is.        *)
LEMMA FollowLinksKeeps ==
    ASSUME CorpusInv, WantedInv, phase = "direct", ScanFlowsInv, FollowLinks
    PROVE  /\ WantedInv' /\ CorpusInv' /\ phase' \in {"linked", "align"}
           /\ phase' = "linked" => ScanFlowsInv'
           /\ phase' = "align" => FlowsUpto(Len(corpus))'
<1> DEFINE cand(f) == LinkCandidates(f)
           shared == {p[2] : p \in cand("good")} \cap {p[2] : p \in cand("bad")}
<1> HIDE DEF cand
<1>1. /\ links' = [f \in Refs |-> {p \in cand(f) : p[2] \notin shared}]
      /\ wanted' = [f \in Refs |-> {RefId(f)} \cup
                       {p[2] : p \in {q \in cand(f) : q[2] \notin shared}}]
      /\ IF \A f \in Refs : \A p \in cand(f) : p[2] \in shared
           THEN phase' = "align" /\ at' = at /\ flows' = flows
           ELSE phase' = "linked" /\ at' = 0 /\ flows' = Nothing
      /\ last' = "none" /\ corpus' = corpus /\ at = Len(corpus)
  BY Zenon DEF FollowLinks, Refs, cand
<1> HIDE DEF shared
<1>2. CorpusInv'
  BY <1>1 DEF CorpusInv
<1>3. WantedInv'
  BY <1>1 DEF WantedInv, RefId
<1>4. CASE \A f \in Refs : \A p \in cand(f) : p[2] \in shared
  <2>1. phase' = "align" /\ flows' = flows
    BY <1>1, <1>4
  <2>2. \A f \in Refs : wanted'[f] = {RefId(f)}
    BY <1>1, <1>4
  <2>3. \A f \in Refs : wanted[f] = {RefId(f)}
    BY DEF WantedInv
  <2>4. /\ \A n : Hit(corpus[n])' = Hit(corpus[n])
        /\ \A n, m : TraceUpto(n, m)' = TraceUpto(n, m)
    BY <1>1, <2>2, <2>3, SameMarks DEF Refs
  <2>5. CorpusSteps' = CorpusSteps
    BY <1>1 DEF CorpusSteps
  <2>6. FlowsUpto(Len(corpus))
    BY <1>1 DEF ScanFlowsInv
  <2>7. FlowsUpto(Len(corpus))'
    BY <1>1, <2>1, <2>4, <2>5, <2>6 DEF FlowsUpto
  <2> QED
    BY <1>2, <1>3, <2>1, <2>7
<1>5. CASE ~(\A f \in Refs : \A p \in cand(f) : p[2] \in shared)
  <2>1. phase' = "linked" /\ at' = 0 /\ flows' = Nothing /\ last' = "none"
    BY <1>1, <1>5
  <2>2. \A f \in Refs : flows'[f] = <<>> /\ Len(flows'[f]) = 0
    BY <2>1 DEF Nothing
  <2>3. flows' \in [Refs -> Seq(CorpusSteps')]
    BY <2>1 DEF Nothing
  <2>4. FlowsUpto(at)' /\ InLineOrder' /\ LastInv'
    BY <2>1, <2>2, <2>3 DEF FlowsUpto, InLineOrder, LastInv
  <2>5. at' \in 0..Len(corpus')
    BY <2>1, <1>1 DEF CorpusInv
  <2> QED
    BY <1>2, <1>3, <2>1, <2>4, <2>5 DEF ScanFlowsInv
<1> QED
  BY <1>4, <1>5

(* The invariant holds of every comparison, and no analysis touches it.    *)
TfaInv ==
    /\ command = "compare" => CompareInv
    /\ command = "analyze" => phase = "idle"
    /\ command \in {"analyze", "compare"}

(* A comparison starts in its invariant.                                   *)
LEMMA TfaInitInv == ASSUME TfaInit PROVE TfaInv
<1>1. CASE command = "analyze" /\ CompareIdle
  BY <1>1 DEF TfaInv, CompareIdle
<1>2. CASE command = "compare" /\ CompareInit
  <2>1. /\ corpus \in Corpora /\ phase = "direct" /\ at = 0 /\ last = "none"
        /\ wanted = [f \in Refs |-> {RefId(f)}]
        /\ links = [f \in Refs |-> {}] /\ flows = Nothing
    BY <1>2 DEF CompareInit
  <2>2. CorpusInv
    <3> DEFINE X == {corpus[i] : i \in DOMAIN corpus}
    <3>1. corpus \in Seq(X)
      BY <2>1, CorporaAssumption
    <3> HIDE DEF X
    <3>2. Len(corpus) \in Nat /\ DOMAIN corpus = 1..Len(corpus)
      BY <3>1
    <3> QED
      BY <2>1, <3>2, CorporaAssumption DEF CorpusInv
  <2>3. WantedInv
    BY <2>1 DEF WantedInv, RefId
  <2>4. /\ \A f \in Refs : flows[f] = <<>> /\ Len(flows[f]) = 0
        /\ flows \in [Refs -> Seq(CorpusSteps)]
    BY <2>1 DEF Nothing
  <2>5. ScanFlowsInv
    BY <2>1, <2>2, <2>4 DEF ScanFlowsInv, FlowsUpto, InLineOrder, LastInv, CorpusInv
  <2> QED
    BY <1>2, <2>1, <2>2, <2>3, <2>5 DEF TfaInv, CompareInv
<1> QED
  BY <1>1, <1>2 DEF TfaInit

(* Every step of either command keeps it.                                  *)
LEMMA TfaNextInv == ASSUME TfaInv, [TfaNext]_tfaVars PROVE TfaInv'
<1>1. CASE UNCHANGED compareVars /\ UNCHANGED command
  <2>1. /\ corpus' = corpus /\ phase' = phase /\ at' = at /\ last' = last /\ wanted' = wanted
        /\ links' = links /\ flows' = flows /\ diffs' = diffs /\ command' = command
    BY <1>1 DEF compareVars
  <2>2. /\ \A n : Hit(corpus[n])' = Hit(corpus[n])
        /\ \A n, m : Unbroken(n, m)' <=> Unbroken(n, m)
        /\ \A n, m : TraceUpto(n, m)' = TraceUpto(n, m)
    BY <2>1, SameMarks
  <2>3. CorpusSteps' = CorpusSteps
    BY <2>1 DEF CorpusSteps
  <2>4. \A m : FlowsUpto(m)' <=> FlowsUpto(m)
    BY <2>1, <2>2, <2>3 DEF FlowsUpto
  <2>5. (InLineOrder' <=> InLineOrder) /\ (LastInv' <=> LastInv)
    BY <2>1, <2>2 DEF InLineOrder, LastInv
  <2>6. \A g, b : Alignments(g, b)' = Alignments(g, b)
    BY <2>1 DEF Alignments, Pairs, Ordered, LineOf
  <2>7. \A g, b, m : Aligned(g, b, m)' = Aligned(g, b, m)
    BY <2>1 DEF Aligned, DiffFields, LineOf
  <2>8. DiffsInv' <=> DiffsInv
    BY <2>1, <2>6, <2>7 DEF DiffsInv
  <2>9. (CorpusInv' <=> CorpusInv) /\ (WantedInv' <=> WantedInv)
    BY <2>1 DEF CorpusInv, WantedInv, RefId
  <2> QED
    BY <2>1, <2>4, <2>5, <2>8, <2>9 DEF TfaInv, CompareInv, ScanFlowsInv
<1>2. CASE command = "compare" /\ CompareNext /\ UNCHANGED command
  <2>1. CompareInv
    BY <1>2 DEF TfaInv
  <2>2. CorpusInv /\ WantedInv
    BY <2>1 DEF CompareInv
  <2>3. SUFFICES CompareInv'
    BY <1>2 DEF TfaInv
  <2>4. CASE ScanLine
    <3>1. /\ phase \in {"direct", "linked"} /\ phase' = phase
          /\ corpus' = corpus /\ wanted' = wanted /\ links' = links
      BY <2>4 DEF ScanLine
    <3>2. ScanFlowsInv'
      BY <2>1, <2>2, <2>4, <3>1, ScanLineKeeps DEF CompareInv
    <3>3. CorpusInv' /\ WantedInv'
      BY <2>2, <3>1 DEF CorpusInv, WantedInv, RefId
    <3> QED
      BY <3>1, <3>2, <3>3 DEF CompareInv
  <2>5. CASE FollowLinks
    <3>1. phase = "direct" /\ ScanFlowsInv
      BY <2>1, <2>5 DEF FollowLinks, CompareInv
    <3>2. /\ WantedInv' /\ CorpusInv' /\ phase' \in {"linked", "align"}
          /\ phase' = "linked" => ScanFlowsInv'
          /\ phase' = "align" => FlowsUpto(Len(corpus))'
      BY <2>2, <2>5, <3>1, FollowLinksKeeps
    <3> QED
      BY <3>2 DEF CompareInv
  <2>6. CASE SkipLinks \/ ScanEnds
    <3>1. /\ phase \in {"direct", "linked"} /\ phase' = "align" /\ at = Len(corpus)
          /\ corpus' = corpus /\ wanted' = wanted /\ links' = links /\ flows' = flows
      BY <2>6 DEF SkipLinks, ScanEnds
    <3>2. FlowsUpto(Len(corpus))
      BY <2>1, <3>1 DEF CompareInv, ScanFlowsInv
    <3>3. /\ \A n : Hit(corpus[n])' = Hit(corpus[n])
          /\ \A n, m : TraceUpto(n, m)' = TraceUpto(n, m)
      BY <3>1, SameMarks
    <3>4. CorpusSteps' = CorpusSteps
      BY <3>1 DEF CorpusSteps
    <3>5. FlowsUpto(Len(corpus))'
      BY <3>1, <3>2, <3>3, <3>4 DEF FlowsUpto
    <3>6. CorpusInv' /\ WantedInv'
      BY <2>2, <3>1 DEF CorpusInv, WantedInv, RefId
    <3> QED
      BY <3>1, <3>5, <3>6 DEF CompareInv
  <2>7. CASE Align
    <3>1. /\ phase = "align" /\ phase' = "done"
          /\ corpus' = corpus /\ wanted' = wanted /\ links' = links
      BY <2>7 DEF Align
    <3>2. FlowsUpto(Len(corpus))' /\ DiffsInv'
      BY <2>1, <2>2, <2>7, <3>1, AlignKeeps DEF CompareInv
    <3>3. CorpusInv' /\ WantedInv'
      BY <2>2, <3>1 DEF CorpusInv, WantedInv, RefId
    <3> QED
      BY <3>1, <3>2, <3>3 DEF CompareInv
  <2> QED
    BY <1>2, <2>4, <2>5, <2>6, <2>7 DEF CompareNext
<1>3. CASE command = "analyze" /\ UNCHANGED <<command, compareVars>>
  BY <1>1, <1>3
<1> QED
  BY <1>1, <1>2, <1>3 DEF TfaNext, tfaVars

-----------------------------------------------------------------------------
(* The flows and their lines.                                              *)

(* Once both flows are scanned, what the invariant says of their lines is  *)
(* what the property asks of them.                                         *)
LEMMA FlowsKeepThem == ASSUME TfaInv PROVE FlowsKeepTheirLines
<1> SUFFICES ASSUME phase \in {"align", "done"}
             PROVE  FlowsKeepTheirLines
  BY DEF FlowsKeepTheirLines, LinkedFlowsKeepTheirLines, TracesStayWithTheirLine
<1>1. CorpusInv /\ WantedInv /\ FlowsUpto(Len(corpus))
  BY DEF TfaInv, CompareInv
<1>2. Len(corpus) \in Nat /\ flows \in [Refs -> Seq(CorpusSteps)]
  BY <1>1 DEF CorpusInv, FlowsUpto
<1>3. /\ Good \in wanted["good"] /\ Bad \in wanted["bad"]
      /\ wanted["good"] = {Good} \cup {p[2] : p \in links["good"]}
  BY <1>1 DEF WantedInv, RefId, Refs
<1>4. ASSUME NEW f \in Refs, NEW s \in Elems(flows[f])
      PROVE  /\ s \in CorpusSteps /\ s.no \in 1..Len(corpus) /\ Hit(corpus[s.no]) = f
             /\ s.conts = TraceUpto(s.no, Len(corpus))
  <2>1. PICK k \in 1..Len(flows[f]) : s = flows[f][k]
    BY DEF Elems
  <2>2. flows[f][k] \in CorpusSteps
    BY <1>2, <2>1, Members
  <2> QED
    BY <1>1, <2>1, <2>2 DEF FlowsUpto, CorpusSteps
<1>5. ASSUME NEW f \in Refs, NEW n \in 1..Len(corpus), Hit(corpus[n]) = f
      PROVE  n \in LinesOf(flows[f])
  BY <1>1, <1>5 DEF FlowsUpto, LinesOf, Elems
<1>6. \A n : Hit(corpus[n]) \in Refs => corpus[n].ids \cap wanted[Hit(corpus[n])] # {}
  BY DEF Hit, Refs
<1>7. LinkedFlowsKeepTheirLines
  <2>1. LinesOf(flows["good"]) \cap LinesOf(flows["bad"]) = {}
    <3>1. ASSUME NEW i \in LinesOf(flows["good"]), i \in LinesOf(flows["bad"])
          PROVE  FALSE
      <4>1. PICK s \in Elems(flows["good"]) : s.no = i
        BY DEF LinesOf
      <4>2. PICK t \in Elems(flows["bad"]) : t.no = i
        BY <3>1 DEF LinesOf
      <4> QED
        BY <4>1, <4>2, <1>4 DEF Refs
    <3> QED
      BY <3>1
  <2>2. Carrying(Good) \subseteq LinesOf(flows["good"])
    <3>1. ASSUME NEW i \in Carrying(Good)
          PROVE  i \in LinesOf(flows["good"])
      <4>1. i \in 1..Len(corpus) /\ Good \in corpus[i].ids
        BY DEF Carrying
      <4>2. Hit(corpus[i]) = "good"
        BY <4>1, <1>3 DEF Hit
      <4> QED
        BY <4>1, <4>2, <1>5 DEF Refs
    <3> QED
      BY <3>1
  <2>3. ASSUME NEW i \in Carrying(Bad) \ Carrying(Good)
        PROVE  \/ i \in LinesOf(flows["bad"])
               \/ \E p \in links["good"] : p[2] \in corpus[i].ids
    <3>1. i \in 1..Len(corpus) /\ Bad \in corpus[i].ids /\ Good \notin corpus[i].ids
      BY DEF Carrying
    <3>2. CASE corpus[i].ids \cap wanted["good"] # {}
      BY <3>1, <3>2, <1>3
    <3>3. CASE corpus[i].ids \cap wanted["good"] = {}
      <4>1. Hit(corpus[i]) = "bad"
        BY <3>1, <3>3, <1>3 DEF Hit
      <4> QED
        BY <3>1, <4>1, <1>5 DEF Refs
    <3> QED
      BY <3>2, <3>3
  <2>4. ASSUME NEW f \in Refs, NEW s \in Elems(flows[f])
        PROVE  corpus[s.no].ids \cap wanted[f] # {}
    BY <1>4, <1>6
  <2> QED
    BY <2>1, <2>2, <2>3, <2>4 DEF LinkedFlowsKeepTheirLines
<1>8. TracesStayWithTheirLine
  <2>1. ASSUME NEW f \in Refs, NEW s \in Elems(flows[f])
        PROVE  s.conts = {j \in (s.no + 1)..Len(corpus) :
                          /\ corpus[j].cont
                          /\ \A i \in (s.no + 1)..j :
                                 /\ corpus[i].file = corpus[s.no].file
                                 /\ corpus[i].cont \/ corpus[i].blank
                                 /\ Hit(corpus[i]) = "none"}
    BY <1>4 DEF TraceUpto, Unbroken
  <2> QED
    BY <2>1 DEF TracesStayWithTheirLine
<1> QED
  BY <1>7, <1>8 DEF FlowsKeepTheirLines

(* Of two compared flows, each has all of its lines and none of the        *)
(* other's, with the stack traces that belong to them (compare.py: scan,   *)
(* in one pass or two), for every corpus.                                  *)
THEOREM FlowsAreKept == TfaSpec => []FlowsKeepTheirLines
<1>1. TfaInit => TfaInv
  BY TfaInitInv
<1>2. TfaInv /\ [TfaNext]_tfaVars => TfaInv'
  BY TfaNextInv
<1>3. TfaInv => FlowsKeepTheirLines
  BY FlowsKeepThem
<1> QED
  BY <1>1, <1>2, <1>3, PTL DEF TfaSpec

-----------------------------------------------------------------------------
(* The alignment.                                                          *)

(* An alignment is one to one: as many steps of the good flow as of the    *)
(* bad.                                                                    *)
LEMMA AlignmentsAreOneToOne ==
    ASSUME NEW g, NEW b, Len(g) \in Nat, Len(b) \in Nat, NEW m \in Alignments(g, b)
    PROVE  LET S == {p[1] : p \in m}  T == {p[2] : p \in m}
           IN  /\ S \in SUBSET (1..Len(g)) /\ T \in SUBSET (1..Len(b))
               /\ IsFiniteSet(S) /\ IsFiniteSet(T) /\ Cardinality(S) = Cardinality(T)
<1> DEFINE S == {p[1] : p \in m}
           T == {p[2] : p \in m}
           Of(i) == CHOOSE p \in m : p[1] = i
           f == [i \in S |-> Of(i)[2]]
<1>1. /\ m \subseteq (1..Len(g)) \X (1..Len(b))
      /\ \A p, q \in m : p # q => Ordered(p, q)
  BY DEF Alignments, Pairs
<1>2. S \in SUBSET (1..Len(g)) /\ T \in SUBSET (1..Len(b))
  BY <1>1
<1>3. IsFiniteSet(S) /\ IsFiniteSet(T)
  <2>1. IsFiniteSet(1..Len(g)) /\ IsFiniteSet(1..Len(b))
    BY FS_Interval
  <2> QED
    BY <1>2, <2>1, FS_Subset
<1>4. \A p, q \in m : p[1] = q[1] \/ p[2] = q[2] => p = q
  BY <1>1 DEF Ordered
<1>5. \A i \in S : Of(i) \in m /\ Of(i)[1] = i
  OBVIOUS
<1>6. \A p \in m : Of(p[1]) = p
  BY <1>4, <1>5
<1> HIDE DEF Of
<1>7. f \in [S -> T]
  BY <1>5
<1>8. f \in Injection(S, T)
  BY <1>4, <1>5, <1>7 DEF Injection, IsInjective
<1>9. f \in Surjection(S, T)
  BY <1>6, <1>7 DEF Surjection
<1>10. Cardinality(S) = Cardinality(T)
  BY <1>3, <1>8, <1>9, FS_Injection
<1> QED
  BY <1>2, <1>3, <1>10

(* If every step is in the alignment, it pairs the steps in turn.          *)
LEMMA WholeAlignments ==
    ASSUME NEW g, NEW b, Len(g) \in Nat, Len(b) \in Nat, NEW m \in Alignments(g, b),
           \A i \in 1..Len(g) : \E p \in m : p[1] = i,
           \A j \in 1..Len(b) : \E p \in m : p[2] = j
    PROVE  /\ Len(g) = Len(b)
           /\ \A i \in 1..Len(g) : <<i, i>> \in m
<1>1. /\ m \subseteq (1..Len(g)) \X (1..Len(b))
      /\ \A p, q \in m : p # q => Ordered(p, q)
  BY DEF Alignments, Pairs
<1>2. ASSUME NEW p \in m, NEW q \in m, p[1] = q[1] \/ p[2] = q[2]
      PROVE  p = q
  <2>1. p[1] \in Int /\ q[1] \in Int /\ p[2] \in Int /\ q[2] \in Int
    BY <1>1
  <2>2. ~(p[1] < q[1] /\ p[2] < q[2]) /\ ~(q[1] < p[1] /\ q[2] < p[2])
    BY <1>2, <2>1
  <2>3. ~Ordered(p, q)
    BY <2>2, Zenon DEF Ordered
  <2> QED
    BY <1>1, <2>3, Zenon
<1>5. \A i \in 1..Len(g) : i \in 1..Len(b) => <<i, i>> \in m
  <2> DEFINE Bad0 == {i \in 1..Len(g) : i \in 1..Len(b) /\ <<i, i>> \notin m}
  <2>1. SUFFICES ASSUME Bad0 # {} PROVE FALSE
    OBVIOUS
  <2>2. Bad0 \in SUBSET Nat
    OBVIOUS
  <2>3. PICK i \in Bad0 : \A j \in Bad0 : i <= j
    BY <2>1, <2>2, LeastNumber
  <2>4. PICK p \in m : p[1] = i
    OBVIOUS
  <2>5. PICK q \in m : q[2] = i
    OBVIOUS
  <2>6. p[2] \in 1..Len(b) /\ q[1] \in 1..Len(g) /\ p = <<i, p[2]>> /\ q = <<q[1], i>>
    BY <1>1, <2>4, <2>5
  <2>7. ASSUME NEW j \in 1..(i - 1) PROVE <<j, j>> \in m
    <3>1. j \notin Bad0
      BY <2>2, <2>3
    <3>2. j \in 1..Len(g) /\ j \in 1..Len(b)
      BY <2>3
    <3> QED
      BY <3>1, <3>2
  <2>8. ~(q[1] < i)
    <3>1. CASE q[1] < i
      <4>1. <<q[1], q[1]>> \in m
        BY <2>6, <2>7, <3>1
      <4>2. <<q[1], q[1]>> = q
        BY <4>1, <1>2
      <4> QED
        BY <4>2, <2>6, <3>1
    <3> QED
      BY <3>1
  <2>9. ~(p[2] < i)
    <3>1. CASE p[2] < i
      <4>1. <<p[2], p[2]>> \in m
        BY <2>6, <2>7, <3>1
      <4>2. <<p[2], p[2]>> = p
        BY <4>1, <1>2
      <4> QED
        BY <4>2, <2>6, <3>1
    <3> QED
      BY <3>1
  <2>10. p[2] # i /\ q[1] # i
    BY <2>6
  <2>11. p[1] < q[1] /\ q[2] < p[2]
    BY <2>4, <2>5, <2>6, <2>8, <2>9, <2>10
  <2>12. p[1] \in Int /\ q[1] \in Int /\ p[2] \in Int /\ q[2] \in Int
    BY <1>1
  <2>13. p # q
    BY <2>11, <2>12
  <2>14. Ordered(p, q)
    BY <1>1, <2>13
  <2> QED
    BY <2>11, <2>12, <2>14 DEF Ordered
<1>6. ~(Len(g) < Len(b))
  <2>1. CASE Len(g) < Len(b)
    <3>1. PICK p \in m : p[2] = Len(g) + 1
      BY <2>1
    <3>2. p[1] \in 1..Len(g) /\ <<p[1], p[1]>> \in m
      BY <1>1, <1>5, <2>1
    <3>3. <<p[1], p[1]>> = p
      BY <3>2, <1>2
    <3> QED
      BY <3>1, <3>2, <3>3
  <2> QED
    BY <2>1
<1>7. ~(Len(b) < Len(g))
  <2>1. CASE Len(b) < Len(g)
    <3>1. PICK p \in m : p[1] = Len(b) + 1
      BY <2>1
    <3>2. p[2] \in 1..Len(b) /\ <<p[2], p[2]>> \in m
      BY <1>1, <1>5, <2>1
    <3> QED
      BY <3>1, <3>2, <1>2
  <2> QED
    BY <2>1
<1> QED
  BY <1>5, <1>6, <1>7

(* Of an increasing sequence of positions with no gap between them, and    *)
(* none before the first or after the last, none is missing.               *)
NoGap(G, n, N) ==
    /\ G[0] = 0 /\ G[n + 1] = N + 1 /\ \A k \in 0..(n + 1) : G[k] \in Int
    /\ \A k \in 1..(n + 1) : G[k] <= G[k - 1] + 1

(* Each position of such a sequence is one of its members.                 *)
LEMMA NoGapNoneMissing ==
    ASSUME NEW n \in Nat, NEW N \in Nat, NEW G, NoGap(G, n, N)
    PROVE  \A i \in 1..N : \E k \in 1..n : G[k] = i
<1> USE DEF NoGap
<1> TAKE i \in 1..N
<1> DEFINE T == {k \in 0..(n + 1) : G[k] >= i}
<1>1. n + 1 \in T /\ T \in SUBSET Nat
  OBVIOUS
<1>2. PICK k \in T : \A j \in T : k <= j
  BY <1>1, LeastNumber
<1>3. k # 0 /\ k \in 1..(n + 1)
  OBVIOUS
<1>4. k - 1 \notin T /\ k - 1 \in 0..(n + 1)
  BY <1>2, <1>3
<1>5. G[k - 1] < i /\ G[k] \in Int /\ G[k - 1] \in Int
  BY <1>3, <1>4
<1>6. G[k] = i
  BY <1>3, <1>5
<1> QED
  BY <1>3, <1>6

(* The positions of the pairs in either flow, in turn.                     *)
LEMMA PairedPositions ==
    ASSUME NEW M \in Nat, NEW N \in Nat, NEW S \in SUBSET (1..M), NEW T \in SUBSET (1..N),
           Cardinality(S) = Cardinality(T)
    PROVE  /\ Len(Ascending(S)) \in Nat /\ Len(Ascending(T)) = Len(Ascending(S))
           /\ \A k \in 1..Len(Ascending(S)) : Ascending(S)[k] \in S /\ Ascending(T)[k] \in T
<1> DEFINE is == Ascending(S)
           js == Ascending(T)
<1>1. Len(is) \in Nat /\ Len(is) = Cardinality(S) /\ is \in [1..Len(is) -> S]
  BY KeptInOrder, Zenon
<1>2. Len(js) = Cardinality(T) /\ js \in [1..Len(js) -> T]
  BY KeptInOrder, Zenon
<1> HIDE DEF is, js
<1>3. Len(js) = Len(is)
  BY <1>1, <1>2
<1>4. ASSUME NEW k \in 1..Len(is) PROVE is[k] \in S /\ js[k] \in T
  BY <1>1, <1>2, <1>3
<1> QED
  BY <1>1, <1>3, <1>4 DEF is, js

(* The parts of a sequence put together from three.                        *)
Thrice(u, v, w) == u \o v \o w
HasAll(c, u) == \A j \in 1..Len(u) : \E i \in 1..Len(c) : c[i] = u[j]

(* A sequence made of three has what each of them has.                     *)
LEMMA ThreeParts ==
    ASSUME NEW D, NEW u \in Seq(D), NEW v \in Seq(D), NEW w \in Seq(D)
    PROVE  /\ Thrice(u, v, w) \in Seq(D)
           /\ HasAll(Thrice(u, v, w), u) /\ HasAll(Thrice(u, v, w), v)
           /\ HasAll(Thrice(u, v, w), w)
<1> DEFINE c == Thrice(u, v, w)
<1>1. /\ c \in Seq(D) /\ Len(c) = Len(u) + Len(v) + Len(w)
      /\ \A j \in 1..Len(u) : c[j] = u[j]
      /\ \A j \in 1..Len(v) : c[Len(u) + j] = v[j]
      /\ \A j \in 1..Len(w) : c[Len(u) + Len(v) + j] = w[j]
  BY DEF Thrice
<1>2. Len(u) \in Nat /\ Len(v) \in Nat /\ Len(w) \in Nat
  OBVIOUS
<1> HIDE DEF c
<1>3. ASSUME NEW j \in 1..Len(u) PROVE \E i \in 1..Len(c) : c[i] = u[j]
  BY <1>1, <1>2, j \in 1..Len(c)
<1>4. ASSUME NEW j \in 1..Len(v) PROVE \E i \in 1..Len(c) : c[i] = v[j]
  BY <1>1, <1>2, Len(u) + j \in 1..Len(c)
<1>5. ASSUME NEW j \in 1..Len(w) PROVE \E i \in 1..Len(c) : c[i] = w[j]
  <2>1. Len(u) + Len(v) + j \in 1..Len(c)
    BY <1>1, <1>2
  <2> QED
    BY <1>1, <2>1
<1> QED
  BY <1>1, <1>3, <1>4, <1>5 DEF c, HasAll

(* What only flow f did between two pairs.                                 *)
OnlySteps(f, u) == [i \in 1..Len(u) |-> [kind |-> f, step |-> u[i], fields |-> {}]]
HasSteps(D, f, C) == \A x \in C : [kind |-> f, step |-> x, fields |-> {}] \in D

(* They are differences, and the first of them is one of f.                *)
LEMMA OnlyInOne ==
    ASSUME NEW C, NEW D, NEW f, NEW u \in Seq(C), HasSteps(D, f, C)
    PROVE  /\ OnlySteps(f, u) \in Seq(D)
           /\ Len(u) # 0 => 1 \in 1..Len(OnlySteps(f, u)) /\ OnlySteps(f, u)[1].kind = f
<1>1. Len(u) \in Nat /\ \A i \in 1..Len(u) : u[i] \in C
  OBVIOUS
<1>2. OnlySteps(f, u) \in [1..Len(u) -> D]
  BY <1>1 DEF OnlySteps, HasSteps
<1>3. OnlySteps(f, u) \in Seq(D) /\ Len(OnlySteps(f, u)) = Len(u)
  BY <1>1, <1>2
<1>4. Len(u) # 0 => 1 \in 1..Len(u) /\ OnlySteps(f, u)[1].kind = f
  BY <1>1 DEF OnlySteps
<1> QED
  BY <1>3, <1>4

(* No difference is among these.                                           *)
AllSame(d) == \A n \in 1..Len(d) : d[n].kind = "same" /\ d[n].fields = {}

(* A sequence of one member.                                               *)
LEMMA OneStep ==
    ASSUME NEW D, NEW x \in D
    PROVE  <<x>> \in Seq(D) /\ Len(<<x>>) = 1 /\ <<x>>[1] = x
  OBVIOUS

(* What comes before a pair, after the pair before it, and the pair.       *)
PartOf(g, b, from, to, bfrom, bto, w) ==
    Thrice(OnlySteps("good", SubSeq(g, from + 1, to - 1)),
           OnlySteps("bad", SubSeq(b, bfrom + 1, bto - 1)), w)

(* It is a list of differences, and if all of them are the same in both    *)
(* flows nothing is between the two pairs.                                 *)
LEMMA OnePart ==
    ASSUME NEW C, NEW D, NEW g \in Seq(C), NEW b \in Seq(C),
           NEW from \in 0..(Len(g) + 1), NEW to \in 0..(Len(g) + 1),
           NEW bfrom \in 0..(Len(b) + 1), NEW bto \in 0..(Len(b) + 1),
           NEW w \in Seq(D), HasSteps(D, "good", C), HasSteps(D, "bad", C)
    PROVE  /\ PartOf(g, b, from, to, bfrom, bto, w) \in Seq(D)
           /\ AllSame(PartOf(g, b, from, to, bfrom, bto, w)) =>
                 to <= from + 1 /\ bto <= bfrom + 1 /\ AllSame(w)
<1> DEFINE gs == SubSeq(g, from + 1, to - 1)
           bs == SubSeq(b, bfrom + 1, bto - 1)
           u == OnlySteps("good", gs)
           v == OnlySteps("bad", bs)
           part == PartOf(g, b, from, to, bfrom, bto, w)
<1>1. gs \in Seq(C) /\ (to > from + 1 => Len(gs) # 0)
  OBVIOUS
<1>2. bs \in Seq(C) /\ (bto > bfrom + 1 => Len(bs) # 0)
  OBVIOUS
<1>3. part = Thrice(u, v, w)
  BY DEF PartOf
<1> HIDE DEF gs, bs, part
<1>4. u \in Seq(D) /\ (Len(gs) # 0 => 1 \in 1..Len(u) /\ u[1].kind = "good")
  BY <1>1, OnlyInOne
<1>5. v \in Seq(D) /\ (Len(bs) # 0 => 1 \in 1..Len(v) /\ v[1].kind = "bad")
  BY <1>2, OnlyInOne
<1> HIDE DEF u, v
<1>6. u \in Seq(D) /\ v \in Seq(D)
  BY <1>4, <1>5
<1>7. /\ Thrice(u, v, w) \in Seq(D)
      /\ HasAll(Thrice(u, v, w), u) /\ HasAll(Thrice(u, v, w), v)
      /\ HasAll(Thrice(u, v, w), w)
  BY <1>6, ThreeParts
<1>8. ASSUME AllSame(part) PROVE Len(gs) = 0 /\ Len(bs) = 0 /\ AllSame(w)
  <2>1. \A i \in 1..Len(part) : part[i].kind = "same" /\ part[i].fields = {}
    BY <1>8 DEF AllSame
  <2>2. CASE Len(gs) # 0
    <3>1. PICK i \in 1..Len(part) : part[i] = u[1]
      BY <1>3, <1>4, <1>7, <2>2 DEF HasAll
    <3> QED
      BY <1>4, <2>1, <2>2, <3>1
  <2>3. CASE Len(bs) # 0
    <3>1. PICK i \in 1..Len(part) : part[i] = v[1]
      BY <1>3, <1>5, <1>7, <2>3 DEF HasAll
    <3> QED
      BY <1>5, <2>1, <2>3, <3>1
  <2>4. AllSame(w)
    BY <2>1, <1>3, <1>7 DEF AllSame, HasAll
  <2> QED
    BY <2>2, <2>3, <2>4
<1> QED
  BY <1>1, <1>2, <1>3, <1>7, <1>8 DEF part

(* If what is put together from the parts has no difference, no part has.  *)
LEMMA NoPartDiffers ==
    ASSUME NEW D, NEW N \in Nat, NEW ss \in [1..N -> Seq(D)], AllSame(FlattenSeq(ss))
    PROVE  \A k \in 1..N : AllSame(ss[k])
<1>1. ss \in Seq(Seq(D)) /\ Len(ss) = N
  OBVIOUS
<1>2. ASSUME NEW k \in 1..N, NEW i \in 1..Len(ss[k])
      PROVE  ss[k][i].kind = "same" /\ ss[k][i].fields = {}
  <2>1. PICK n \in 1..Len(FlattenSeq(ss)) : FlattenSeq(ss)[n] = ss[k][i]
    BY <1>1, FlattenHoldsTheParts
  <2> QED
    BY <2>1 DEF AllSame
<1> QED
  BY <1>2 DEF AllSame

(* Without a difference, the aligned flows are equal step by step.         *)
LEMMA NoDifference ==
    ASSUME NEW C, NEW g \in Seq(C), NEW b \in Seq(C), NEW m \in Alignments(g, b),
           AllSame(Aligned(g, b, m))
    PROVE  /\ Len(g) = Len(b)
           /\ \A i \in 1..Len(g) :
                 <<i, i>> \in Pairs(g, b) /\ DiffFields(g[i], b[i]) = {}
<1> DEFINE Kinds == {"good", "bad", "same"}
           Fields == {{}} \cup {DiffFields(s, t) : s \in C, t \in C}
           D == [kind : Kinds, step : C, fields : Fields]
<1> DEFINE S == {p[1] : p \in m}
           T == {p[2] : p \in m}
           is == Ascending(S)
           js == Ascending(T)
           n == Len(is)
           G == [k \in 0..(n + 1) |->
                    IF k = 0 THEN 0 ELSE IF k > Len(is) THEN Len(g) + 1 ELSE is[k]]
           B == [k \in 0..(n + 1) |->
                    IF k = 0 THEN 0 ELSE IF k > Len(js) THEN Len(b) + 1 ELSE js[k]]
           same(k) == [kind |-> "same", step |-> g[is[k]],
                       fields |-> DiffFields(g[is[k]], b[js[k]])]
           w == [k \in 1..(n + 1) |-> IF k =< Len(is) THEN <<same(k)>> ELSE <<>>]
           ss == [k \in 1..(n + 1) |-> PartOf(g, b, G[k - 1], G[k], B[k - 1], B[k], w[k])]
<1>1. /\ Len(g) \in Nat /\ Len(b) \in Nat
      /\ \A i \in 1..Len(g) : g[i] \in C
      /\ \A i \in 1..Len(b) : b[i] \in C
  OBVIOUS
<1>2. /\ S \in SUBSET (1..Len(g)) /\ T \in SUBSET (1..Len(b))
      /\ Cardinality(S) = Cardinality(T)
  BY <1>1, AlignmentsAreOneToOne
<1> HIDE DEF S, T
<1>3. /\ n \in Nat /\ Len(js) = n
      /\ \A k \in 1..n : is[k] \in S /\ js[k] \in T
  BY <1>1, <1>2, PairedPositions
<1> HIDE DEF is, js, n
<1>a. HasSteps(D, "good", C) /\ HasSteps(D, "bad", C)
  BY DEF HasSteps
<1>4. \A k \in 1..n : is[k] \in 1..Len(g) /\ js[k] \in 1..Len(b)
  BY <1>2, <1>3
<1>5. Len(is) = n /\ n + 1 \in Nat /\ \A k \in 1..(n + 1) : k \in 0..(n + 1) /\ k - 1 \in 0..(n + 1)
  BY <1>3 DEF n
<1>6. Aligned(g, b, m) = FlattenSeq(ss)
  <2> DEFINE G0(k) == IF k = 0 THEN 0 ELSE IF k > Len(is) THEN Len(g) + 1 ELSE is[k]
             B0(k) == IF k = 0 THEN 0 ELSE IF k > Len(js) THEN Len(b) + 1 ELSE js[k]
             part(k) == Thrice(OnlySteps("good", SubSeq(g, G0(k - 1) + 1, G0(k) - 1)),
                               OnlySteps("bad", SubSeq(b, B0(k - 1) + 1, B0(k) - 1)),
                               IF k =< Len(is) THEN <<same(k)>> ELSE <<>>)
  <2>1. Aligned(g, b, m) = FlattenSeq([k \in 1..(Len(is) + 1) |-> part(k)])
    BY DEF Aligned, OnlySteps, Thrice, is, js, S, T
  <2>2. ASSUME NEW k \in 1..(n + 1)
        PROVE  /\ G[k] = G0(k) /\ G[k - 1] = G0(k - 1)
               /\ B[k] = B0(k) /\ B[k - 1] = B0(k - 1)
               /\ w[k] = IF k =< Len(is) THEN <<same(k)>> ELSE <<>>
    BY <1>5
  <2> HIDE DEF G, B, w, G0, B0, same
  <2>3. \A k \in 1..(n + 1) : part(k) = ss[k]
    BY <2>2 DEF PartOf
  <2> HIDE DEF part
  <2>4. [k \in 1..(Len(is) + 1) |-> part(k)] = ss
    BY <2>3, <1>5
  <2> QED
    BY <2>1, <2>4
<1>7. /\ G[0] = 0 /\ G[n + 1] = Len(g) + 1 /\ B[0] = 0 /\ B[n + 1] = Len(b) + 1
      /\ \A k \in 1..n : G[k] = is[k] /\ B[k] = js[k]
  BY <1>3, <1>5
<1>8. \A k \in 0..(n + 1) : G[k] \in 0..(Len(g) + 1) /\ B[k] \in 0..(Len(b) + 1)
  BY <1>1, <1>3, <1>4, <1>5
<1>9. /\ \A k \in 1..(n + 1) : w[k] \in Seq(D)
      /\ \A k \in 1..n : w[k] = <<same(k)>>
  <2>1. ASSUME NEW k \in 1..n
        PROVE  w[k] = <<same(k)>> /\ same(k) \in D
    <3>1. is[k] \in 1..Len(g) /\ js[k] \in 1..Len(b)
      BY <1>4
    <3>2. g[is[k]] \in C /\ b[js[k]] \in C
      BY <1>1, <3>1
    <3>3. w[k] = <<same(k)>>
      BY <1>3, <1>5
    <3> HIDE DEF w
    <3>4. same(k) \in D
      BY <3>2
    <3> QED
      BY <3>3, <3>4
  <2>2. w[n + 1] = <<>>
    BY <1>3, <1>5
  <2> HIDE DEF w, same, D
  <2>3. \A k \in 1..n : w[k] \in Seq(D)
    BY <2>1, OneStep
  <2>4. <<>> \in Seq(D)
    OBVIOUS
  <2>5. \A k \in 1..(n + 1) : k \in 1..n \/ k = n + 1
    BY <1>3
  <2> QED
    BY <2>1, <2>2, <2>3, <2>4, <2>5
<1> HIDE DEF G, B, w, D
<1>10. \A k \in 1..(n + 1) : PartOf(g, b, G[k - 1], G[k], B[k - 1], B[k], w[k]) \in Seq(D)
  BY <1>5, <1>8, <1>9, OnePart, <1>a
<1>11. ss \in [1..(n + 1) -> Seq(D)]
  BY <1>10
<1>12. \A k \in 1..(n + 1) : ss[k] = PartOf(g, b, G[k - 1], G[k], B[k - 1], B[k], w[k])
  OBVIOUS
<1> HIDE DEF ss, same
<1>13. \A k \in 1..(n + 1) : AllSame(PartOf(g, b, G[k - 1], G[k], B[k - 1], B[k], w[k]))
  <2>1. AllSame(FlattenSeq(ss))
    BY <1>6
  <2>2. n + 1 \in Nat
    BY <1>5
  <2>3. \A k \in 1..(n + 1) : AllSame(ss[k])
    BY <1>11, <2>1, <2>2, NoPartDiffers
  <2> QED
    BY <1>12, <2>3
<1>14. \A k \in 1..(n + 1) : G[k] <= G[k - 1] + 1 /\ B[k] <= B[k - 1] + 1 /\ AllSame(w[k])
  BY <1>5, <1>8, <1>9, <1>13, OnePart, <1>a
<1>15. \A k \in 1..n : DiffFields(g[is[k]], b[js[k]]) = {}
  <2> TAKE k \in 1..n
  <2>1. k \in 1..(n + 1) /\ w[k] = <<same(k)>>
    BY <1>3, <1>9
  <2>2. Len(w[k]) = 1 /\ w[k][1] = same(k) /\ 1 \in 1..1
    BY <2>1, OneStep
  <2>3. AllSame(w[k])
    BY <2>1, <1>14
  <2>4. same(k).fields = {}
    BY <2>2, <2>3 DEF AllSame
  <2> QED
    BY <2>4 DEF same
<1>16. \A i \in 1..Len(g) : \E k \in 1..n : is[k] = i
  <2>1. NoGap(G, n, Len(g))
    BY <1>7, <1>8, <1>14 DEF NoGap
  <2>2. Len(g) \in Nat /\ n \in Nat
    BY <1>1, <1>3
  <2>3. \A i \in 1..Len(g) : \E k \in 1..n : G[k] = i
    BY <2>1, <2>2, NoGapNoneMissing
  <2> QED
    BY <2>3, <1>7
<1>17. \A i \in 1..Len(b) : \E k \in 1..n : js[k] = i
  <2>1. NoGap(B, n, Len(b))
    BY <1>7, <1>8, <1>14 DEF NoGap
  <2>2. Len(b) \in Nat /\ n \in Nat
    BY <1>1, <1>3
  <2>3. \A i \in 1..Len(b) : \E k \in 1..n : B[k] = i
    BY <2>1, <2>2, NoGapNoneMissing
  <2> QED
    BY <2>3, <1>7
<1>18. S = 1..Len(g) /\ T = 1..Len(b)
  <2>1. \A i \in 1..Len(g) : i \in S
    BY <1>3, <1>16
  <2>2. \A i \in 1..Len(b) : i \in T
    BY <1>3, <1>17
  <2> QED
    BY <1>2, <2>1, <2>2
<1>19. /\ \A i \in 1..Len(g) : \E p \in m : p[1] = i
       /\ \A i \in 1..Len(b) : \E p \in m : p[2] = i
  BY <1>18 DEF S, T
<1>20. Len(g) = Len(b) /\ \A i \in 1..Len(g) : <<i, i>> \in m
  BY <1>1, <1>19, WholeAlignments
<1>21. is = js
  BY <1>18, <1>20 DEF is, js
<1>22. \A i \in 1..Len(g) : DiffFields(g[i], b[i]) = {}
  BY <1>15, <1>16, <1>21
<1>23. m \subseteq Pairs(g, b)
  BY DEF Alignments
<1> QED
  BY <1>20, <1>22, <1>23

(* A comparison that found no break paired all steps of both flows.        *)
LEMMA NoBreakKeepsThePath == ASSUME TfaInv PROVE NoBreakMeansSamePath
<1> SUFFICES ASSUME phase = "done", BreakIndex = 0 PROVE NoBreakMeansSamePath
  BY DEF NoBreakMeansSamePath
<1>1. FlowsUpto(Len(corpus)) /\ DiffsInv
  BY DEF TfaInv, CompareInv
<1>2. flows["good"] \in Seq(CorpusSteps) /\ flows["bad"] \in Seq(CorpusSteps)
  BY <1>1 DEF FlowsUpto, Refs
<1>3. PICK m \in Alignments(flows["good"], flows["bad"]) :
          diffs = Aligned(flows["good"], flows["bad"], m)
  BY <1>1 DEF DiffsInv
<1>4. AllSame(diffs)
  <2> DEFINE broken == {i \in 1..Len(diffs) : diffs[i].kind # "same" \/ diffs[i].fields # {}}
  <2>1. CASE broken # {}
    <3>1. broken \in SUBSET Nat
      OBVIOUS
    <3>2. \E i \in broken : \A j \in broken : i =< j
      BY <2>1, <3>1, LeastNumber
    <3>3. BreakIndex \in broken
      BY <2>1, <3>2 DEF BreakIndex
    <3> QED
      BY <3>3
  <2> QED
    BY <2>1 DEF AllSame
<1>5. /\ Len(flows["good"]) = Len(flows["bad"])
      /\ \A i \in 1..Len(flows["good"]) :
            /\ <<i, i>> \in Pairs(flows["good"], flows["bad"])
            /\ DiffFields(flows["good"][i], flows["bad"][i]) = {}
  BY <1>2, <1>3, <1>4, NoDifference
<1>6. ASSUME NEW i \in 1..Len(flows["good"])
      PROVE  LET g == LineOf(flows["good"][i])  b == LineOf(flows["bad"][i])
             IN  /\ g.step = b.step
                 /\ DOMAIN g.pay = DOMAIN b.pay
                 /\ \A k \in DOMAIN g.pay : g.pay[k] = b.pay[k] \/ g.pay[k] = Good
  <2> DEFINE g == LineOf(flows["good"][i])
             b == LineOf(flows["bad"][i])
  <2>1. g.step = b.step
    BY <1>5 DEF Pairs
  <2>2. \A k \in DOMAIN g.pay \cup DOMAIN b.pay :
            /\ k \in DOMAIN g.pay /\ k \in DOMAIN b.pay
            /\ g.pay[k] = b.pay[k] \/ (g.pay[k] = Good /\ b.pay[k] = Bad)
    BY <1>5, Zenon DEF DiffFields
  <2> HIDE DEF g, b
  <2>3. DOMAIN g.pay = DOMAIN b.pay
    BY <2>2
  <2> QED
    BY <2>1, <2>2, <2>3 DEF g, b
<1> QED
  BY <1>5, <1>6 DEF NoBreakMeansSamePath

(* Two flows are reported to take the same path with the same payload only *)
(* if they do, whatever alignment is found (compare.py: compare_flows).    *)
THEOREM NoBreakIsTrue == TfaSpec => []NoBreakMeansSamePath
<1>1. TfaInit => TfaInv
  BY TfaInitInv
<1>2. TfaInv /\ [TfaNext]_tfaVars => TfaInv'
  BY TfaNextInv
<1>3. TfaInv => NoBreakMeansSamePath
  BY NoBreakKeepsThePath
<1> QED
  BY <1>1, <1>2, <1>3, PTL DEF TfaSpec
=============================================================================
