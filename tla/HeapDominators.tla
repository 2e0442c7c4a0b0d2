--------------------------- MODULE HeapDominators ---------------------------
(***************************************************************************)
(* Retained sizes (heap_index.retained, heap_compact.compute_dominators)   *)
(* and the queries that answer from them (heap_queries.py).                *)
(*                                                                         *)
(* The computation is Lengauer and Tarjan's with simple linking, over node *)
(* numbers that are row numbers; the last row is the virtual root.  It may *)
(* be interrupted between any two steps, by cancellation, by the time      *)
(* budget or by a crash, and be started again.  The statements that clear  *)
(* what an earlier computation left (executescript) commit one by one;     *)
(* what it inserts is committed together with the marker at the end.       *)
(***************************************************************************)
EXTENDS HeapIndex

CONSTANTS Dumps,      \* the dumps examined
          MaxStarts,  \* how often the computation is started
          MaxSelection   \* how many objects a query selects

VARIABLES dump,
          index,      \* what build_index made of it
          phase, starts,
          graph,      \* the compact graph: oids, succ, pred, by node number
          work,       \* the arrays of the computation
          created,    \* there is a table dom
          table,      \* its rows: oid -> [parent, retained]
          complete    \* the marker dominators_complete

vars == <<dump, index, phase, starts, graph, work, created, table, complete>>

None == 0            \* no node: node numbers start at 1
VirtualRoot == 0     \* the oid of the virtual root
NoGraph == <<>>

-----------------------------------------------------------------------------
(* The graph *)

Objects == index.rows \o <<[oid |-> VirtualRoot, class |-> 0, kind |-> "virtual", shallow |-> 0]>>
Oids == {r.oid : r \in ToSet(Objects)}

\* Edges of the virtual root go to the roots that are objects.
RootEdges == Mapped(LAMBDA o : Edge(VirtualRoot, o, <<"<root>">>, "strong"),
                    SetToSeq(index.roots \cap Oids))

\* Strong references between objects of the dump; what a dump does not hold is no node.
StrongEdges ==
    LET known == Oids
    IN  SelectSeq(index.edges \o RootEdges,
                  LAMBDA e : e.strength = "strong" /\ e.src \in known /\ e.dst \in known)

CompactGraph ==
    LET rows  == Objects
        nodes == 1..Len(rows)
        Node(oid) == CHOOSE n \in nodes : rows[n].oid = oid
        pairs == Mapped(LAMBDA e : <<Node(e.src), Node(e.dst)>>, StrongEdges)
    IN  [oids |-> [n \in nodes |-> rows[n].oid],
         size |-> [n \in nodes |-> rows[n].shallow],
         succ |-> [n \in nodes |-> Mapped(LAMBDA p : p[2],
                                          SelectSeq(pairs, LAMBDA p : p[1] = n))],
         pred |-> [n \in nodes |-> Mapped(LAMBDA p : p[1],
                                          SelectSeq(pairs, LAMBDA p : p[2] = n))]]

Nodes == 1..Len(graph.oids)
Root == Len(graph.oids)

-----------------------------------------------------------------------------
(* compute_dominators *)

Init ==
    /\ dump \in Dumps /\ index = BuildIndex(dump)
    /\ phase = "idle" /\ starts = 0
    /\ graph = NoGraph /\ work = NoGraph
    /\ created = FALSE /\ table = <<>> /\ complete = FALSE

\* The table of an earlier computation goes first, its marker after it.
DropTable ==
    /\ phase = "idle" /\ starts < MaxStarts
    /\ created' = FALSE /\ table' = <<>>
    /\ starts' = starts + 1
    /\ phase' = "dropped"
    /\ UNCHANGED <<dump, index, graph, work, complete>>

\* Mutant: the marker of an earlier computation stays.
KeepMarker ==
    /\ phase = "dropped"
    /\ phase' = "unmarked"
    /\ UNCHANGED <<dump, index, starts, graph, work, created, table, complete>>

DeleteMarker ==
    /\ phase = "dropped"
    /\ complete' = FALSE
    /\ phase' = "unmarked"
    /\ UNCHANGED <<dump, index, starts, graph, work, created, table>>

\* The empty table, and the arrays of the computation.
Prepare ==
    /\ phase = "unmarked"
    /\ created' = TRUE
    /\ graph' = CompactGraph
    /\ LET zero == [n \in 1..Len(graph'.oids) |-> None]
           root == Len(graph'.oids)
       IN  work' = [vertex |-> <<root>>, stack |-> <<root>>,
                    cursor |-> [n \in DOMAIN zero |-> 1],
                    semi |-> [zero EXCEPT ![root] = 1],
                    label |-> [zero EXCEPT ![root] = root],
                    parent |-> zero, ancestor |-> zero, dom |-> zero,
                    bucket |-> [n \in DOMAIN zero |-> <<>>]]
    /\ phase' = "traverse"
    /\ UNCHANGED <<dump, index, starts, table, complete>>

\* One step of the depth-first search: the next edge of the node on the stack.
Traverse ==
    LET node == Last(work.stack)
        at   == work.cursor[node]
        Visit(child) ==
            [work EXCEPT !.vertex = Append(@, child), !.stack = Append(@, child),
                         !.cursor[node] = at + 1, !.parent[child] = node,
                         !.label[child] = child, !.semi[child] = Len(work.vertex) + 1]
    IN  /\ phase = "traverse"
        /\ IF at > Len(graph.succ[node])
           THEN /\ work' = [work EXCEPT !.stack = Front(@)]
                /\ phase' = IF Len(work.stack) > 1 THEN "traverse" ELSE "link"
           ELSE LET child == graph.succ[node][at] IN
                /\ work' = IF work.semi[child] = None THEN Visit(child)
                           ELSE [work EXCEPT !.cursor[node] = at + 1]
                /\ phase' = "traverse"
        /\ UNCHANGED <<dump, index, starts, graph, created, table, complete>>

\* Mutant: a compressed path does not pass on the better label.
BareCompress(w, node) == [w EXCEPT !.ancestor[node] = w.ancestor[w.ancestor[node]]]

\* One node of a path is linked past its ancestor, whose label it takes when
\* that one's semidominator comes first.
Compress(w, node) ==
    LET a == w.ancestor[node] IN
    [w EXCEPT !.label[node] = IF w.semi[w.label[a]] < w.semi[w.label[node]]
                              THEN w.label[a] ELSE @,
              !.ancestor[node] = w.ancestor[a]]

\* evaluate: compress the path of a node from the top; its answer is its label.
Evaluate(w, node) ==
    LET Climb(path, n) == IF w.ancestor[w.ancestor[Last(path)]] # None
                          THEN Append(path, w.ancestor[Last(path)]) ELSE path
        path == FoldLeft(Climb, <<node>>, w.vertex)
    IN  IF w.ancestor[node] = None THEN w ELSE FoldLeft(Compress, w, Reverse(Front(path)))

\* The vertices are linked from the last to the second; i is the next one.
Link ==
    LET i    == Cardinality({n \in Nodes : work.ancestor[n] = None /\ work.semi[n] # None})
        node == work.vertex[i]
        p    == work.parent[node]
        Lower(w, pred) ==
            IF w.semi[pred] = None THEN w
            ELSE LET e == Evaluate(w, pred)
                     s == e.semi[e.label[pred]]
                 IN  [e EXCEPT !.semi[node] = IF s < @ THEN s ELSE @]
        Resolve(w, member) ==
            LET e == Evaluate(w, member)
                c == e.label[member]
            IN  [e EXCEPT !.dom[member] = IF e.semi[c] < e.semi[member] THEN c ELSE p]
        lowered == FoldLeft(Lower, work, graph.pred[node])
        owner   == lowered.vertex[lowered.semi[node]]
        linked  == [lowered EXCEPT !.bucket[owner] = <<node>> \o @, !.ancestor[node] = p]
        emptied == [linked EXCEPT !.bucket[p] = <<>>]
    IN  /\ phase = "link"
        /\ IF i > 1
           THEN work' = FoldLeft(Resolve, emptied, linked.bucket[p]) /\ phase' = "link"
           ELSE work' = [work EXCEPT !.dom[Root] = Root] /\ phase' = "resolve"
        /\ UNCHANGED <<dump, index, starts, graph, created, table, complete>>

\* Dominators in the order of the search: a node that was resolved to another
\* one takes over that one's dominator.
ResolveDominators ==
    /\ phase = "resolve"
    /\ work' = [work EXCEPT !.dom =
                   FoldLeft(LAMBDA dom, n : IF dom[n] = work.vertex[work.semi[n]] THEN dom
                                            ELSE [dom EXCEPT ![n] = dom[dom[n]]],
                            work.dom, Tail(work.vertex))]
    /\ phase' = "save"
    /\ UNCHANGED <<dump, index, starts, graph, created, table, complete>>

\* Sizes are summed from the last vertex up; rows and marker are committed together.
Save ==
    LET retained == FoldLeft(LAMBDA size, n : [size EXCEPT ![work.dom[n]] = @ + size[n]],
                             graph.size, Reverse(Tail(work.vertex)))
        Node(oid) == CHOOSE n \in Nodes : graph.oids[n] = oid
    IN  /\ phase = "save"
        /\ table' = [oid \in {graph.oids[n] : n \in ToSet(work.vertex)} |->
                         [parent |-> graph.oids[work.dom[Node(oid)]],
                          retained |-> retained[Node(oid)]]]
        /\ complete' = TRUE
        /\ phase' = "idle"
        /\ graph' = NoGraph /\ work' = NoGraph
        /\ UNCHANGED <<dump, index, starts, created>>

\* Cancelled, out of time or crashed: what is not committed is lost.
Interrupt ==
    /\ phase # "idle"
    /\ phase' = "idle"
    /\ graph' = NoGraph /\ work' = NoGraph
    /\ UNCHANGED <<dump, index, starts, created, table, complete>>

Next ==
    \/ DropTable \/ DeleteMarker \/ Prepare
    \/ Traverse \/ Link \/ ResolveDominators \/ Save \/ Interrupt

Spec == Init /\ [][Next]_vars

-----------------------------------------------------------------------------
(* Queries over the finished tables; each asks for the marker first.  After
   a crash that left the marker without its table a query fails. *)

Answers == complete /\ created

\* What is reached from a set along strong references, without some objects.
From(edges, start, without) ==
    FoldLeft(LAMBDA seen, r : seen \cup {e.dst : e \in {f \in edges : /\ f.src \in seen
                                                                   /\ f.dst \notin without}},
             start, Objects)

Subtree(oid) ==
    FoldLeft(LAMBDA seen, r : seen \cup {o \in DOMAIN table : table[o].parent \in seen},
             {oid}, Objects)

\* Mutant: what the selected objects dominate one by one.
SubtreesOf(selection) == UNION {Subtree(oid) : oid \in selection}

\* retained_set: the subtree of a single object; for several, what is not
\* reached without them, so that what only they share counts too.
RetainedSet(selection) ==
    IF Cardinality(selection) = 1 THEN UNION {Subtree(oid) : oid \in selection}
    ELSE (DOMAIN table \ {VirtualRoot}) \ From(ToSet(StrongEdges), {VirtualRoot}, selection)

\* The chain a leak suspect is reported with: down to the child that retains
\* most, as long as it retains four fifths, at most five steps.
ChildrenOf(oid) == {o \in DOMAIN table : table[o].parent = oid /\ o # VirtualRoot}
Heaviest(oids) == CHOOSE o \in oids : \A p \in oids : table[o].retained >= table[p].retained
AccumulationPoint(oid) ==
    FoldLeft(LAMBDA cursor, i :
                 IF ChildrenOf(cursor) = {} THEN cursor
                 ELSE LET child == Heaviest(ChildrenOf(cursor))
                      IN  IF 5 * table[child].retained >= 4 * table[cursor].retained
                          THEN child ELSE cursor,
             oid, <<1, 2, 3, 4, 5>>)

ShallowSum(oids) == MapThenSumSet(LAMBDA r : r.shallow, {r \in ToSet(Objects) : r.oid \in oids})

\* heap_queries.unreachable: the rows without an entry, class objects aside.
Unreachable == {r \in ToSet(Objects) : r.oid \notin DOMAIN table /\ r.kind # "class"}

-----------------------------------------------------------------------------
(* Properties *)

\* Whenever a query answers, the table holds every reachable object and no
\* other, with its immediate dominator and with the size of all that would
\* become unreachable without it.  Neither an interruption at any step, between
\* the statements that clear the tables too, nor a second computation leaves a
\* marker on a table that is not whole.
DominatorsAreExact ==
    LET edges == ToSet(StrongEdges)
        all   == From(edges, {VirtualRoot}, {})
        held  == [x \in all \ {VirtualRoot} |-> all \ From(edges, {VirtualRoot}, {x})]
        Dominates(x, y) == x = VirtualRoot \/ y \in held[x]
    IN  Answers =>
            /\ DOMAIN table = all
            /\ \A x \in DOMAIN held :
                   LET p == table[x].parent IN
                   /\ p # x /\ Dominates(p, x)
                   /\ \A q \in all \ {x} : Dominates(q, x) => Dominates(q, p)
                   /\ table[x].retained = ShallowSum(held[x])
            /\ table[VirtualRoot].retained = ShallowSum(all)
            /\ {r.oid : r \in Unreachable} \cap all = {}

\* The retained set of a selection is what becomes unreachable when all of it
\* is removed: an object and its subtree, and of several objects also what
\* only they share; a suspect's accumulation point lies within what it holds.
RetainedSetIsWhatItHolds ==
    LET edges == ToSet(StrongEdges)
        all   == From(edges, {VirtualRoot}, {})
    IN  Answers =>
            \A n \in 1..MaxSelection : \A selection \in kSubset(n, all \ {VirtualRoot}) :
                /\ RetainedSet(selection) = all \ From(edges, {VirtualRoot}, selection)
                /\ \A x \in selection : AccumulationPoint(x) \in RetainedSet(selection)

\* What the dominators page shows of an object or of a selection is what would
\* be freed with it (heap_dominators.py: compute, retained_set).
RetentionIsExact == DominatorsAreExact /\ RetainedSetIsWhatItHolds
=============================================================================
