----------------------------- MODULE HeapTrace -----------------------------
(***************************************************************************)
(* What holds an object: the retention tracer, over the file (_Tracer in   *)
(* heap_graph.py) and over the index (_IndexedTracer), and the search for  *)
(* root paths (heap_index.root_paths).                                     *)
(*                                                                         *)
(* The tracer samples objects of the top class and asks level by level who *)
(* refers to them, until it meets a static field, a root or user code.     *)
(***************************************************************************)
EXTENDS HeapIndex

CONSTANT UserClasses    \* the class names that are user code

Nothing == <<>>

\* Of several static fields with one target the last one read is known.
IsStaticTarget(d, oid) ==
    \E i \in 1..Len(d.classes) : \E j \in 1..Len(d.classes[i].statics) :
        d.classes[i].statics[j][2] = oid
StaticOf(d, oid) ==
    LET statics == FlattenSeq(Mapped(LAMBDA c : Mapped(LAMBDA s : <<s[2], c.name, s[1]>>,
                                                       c.statics), d.classes))
        s == Last(SelectSeq(statics, LAMBDA t : t[1] = oid))
    IN  <<"static", s[2], s[3]>>
IsRoot(d, oid) == oid \in ToSet(d.roots)

Capped(seq, cap) == SubSeq(seq, 1, IF Len(seq) < cap THEN Len(seq) ELSE cap)

-----------------------------------------------------------------------------
(* The holders of a level, as hits <<holder, target, class name, field>> *)

\* _Tracer.visit_holders: strong fields in the order of the file; of an array
\* only the first element that counts.
StreamHits(d, layout, frontier, visited) ==
    LET Hits(o) ==
            LET fields == layout[o.class]
                slots  == SelectSeq([i \in 1..Len(o.refs) |-> i],
                                    LAMBDA i : /\ o.refs[i] \in frontier
                                               /\ \/ o.kind # "instance"
                                                  \/ Strength(fields[i]) = "strong")
            IN  IF o.oid \in visited THEN <<>>
                ELSE IF o.kind = "instance"
                     THEN Mapped(LAMBDA i : <<o.oid, o.refs[i], NameOf(d, o.class), fields[i].name>>,
                                 slots)
                     ELSE Mapped(LAMBDA i : <<o.oid, o.refs[i], "Object[]", "[]">>,
                                 Capped(slots, 1))
    IN  FlattenSeq(Mapped(Hits, d.objects))

\* Mutant: weak references hold as well.
WeakToo(o, e) == IF o.kind = "instance" THEN e.field # <<"<class>">> ELSE e.field[1] = "["

\* The edges that are fields or elements, as the file has them.
Recorded(o, e) ==
    /\ e.strength = "strong"
    /\ IF o.kind = "instance" THEN e.field # <<"<class>">> ELSE e.field[1] = "["

\* _IndexedTracer.visit_holders: incoming edges in the order of the rows,
\* which is that of the file; of an array only the first row.
IndexedHits(d, edges, frontier, visited) ==
    LET incoming == SelectSeq(edges, LAMBDA e : e.dst \in frontier)
        OwnEdges(o) == SelectSeq(incoming, LAMBDA e : e.src = o.oid /\ Recorded(o, e))
        Hits(o) ==
            IF o.oid \in visited THEN <<>>
            ELSE IF o.kind = "instance"
                 THEN Mapped(LAMBDA e : <<e.src, e.dst, NameOf(d, o.class), Last(e.field)>>,
                             OwnEdges(o))
                 ELSE Mapped(LAMBDA e : <<e.src, e.dst, "Object[]", "[]">>, Capped(OwnEdges(o), 1))
    IN  FlattenSeq(Mapped(Hits, d.objects))

-----------------------------------------------------------------------------
(* The sample of the top class *)

StreamSample(d, leaf, cap) ==
    Capped(Mapped(LAMBDA o : o.oid,
                  SelectSeq(d.objects, LAMBDA o : o.kind = "instance" /\ NameOf(d, o.class) = leaf)),
           cap)

\* Class by class, each up to the cap, merged in the order of the rows.
IndexedSample(d, leaf, cap) ==
    LET RowsOf(c) == Capped(SelectSeq([i \in 1..Len(d.objects) |-> i],
                                      LAMBDA i : /\ d.objects[i].kind = "instance"
                                                 /\ d.objects[i].class = c.cid), cap)
        InOrder(set) == SelectSeq([i \in 1..Len(d.objects) |-> i], LAMBDA i : i \in set)
        Merge(rows, c) == IF c.name = leaf
                          THEN Capped(InOrder(ToSet(rows) \cup ToSet(RowsOf(c))), cap) ELSE rows
    IN  Mapped(LAMBDA i : d.objects[i].oid, FoldLeft(Merge, <<>>, d.classes))

-----------------------------------------------------------------------------
(* trace: a chain is a sequence of <<oid, label>>; the code keeps the labels. *)

Entry(oid, chain) == [oid |-> oid, chain |-> chain]

\* Mutant: the holders of a level are put after the first chain of it.
FirstChain(frontier, target) == frontier[1].chain

\* The chain of the target, where each frontier entry carries its own.
ChainOf(frontier, target) == (CHOOSE e \in ToSet(frontier) : e.oid = target).chain

\* Where a chain ends: at a static field, in user code or at a root.
TerminalOf(d, oid, chain, name, field) ==
    IF IsStaticTarget(d, oid) THEN <<Append(chain, <<0, StaticOf(d, oid)>>), StaticOf(d, oid)>>
    ELSE IF name \in UserClasses THEN <<chain, <<"user", name, field>>>>
    ELSE IF IsRoot(d, oid) THEN <<Append(chain, <<0, "a GC root">>), <<"gcroot", name, field>>>>
    ELSE Nothing

\* One level of trace: terminal entries of the frontier, then the holders.
Level(d, leaf, cap, acc, Hits(_, _)) ==
    LET rooted == SelectSeq(acc.frontier, LAMBDA e : IsStaticTarget(d, e.oid) \/ IsRoot(d, e.oid))
        Record(r, hit) ==
            LET chain    == Append(ChainOf(acc.frontier, hit[2]), <<hit[1], <<hit[3], hit[4]>>>>)
                terminal == TerminalOf(d, hit[1], chain, hit[3], hit[4])
                seen     == \E i \in 1..Len(r.next) : r.next[i].oid = hit[1]
            IN  IF r.terminal # Nothing THEN r
                ELSE [terminal |-> terminal,
                      best |-> IF Len(chain) > Len(r.best) THEN chain ELSE r.best,
                      next |-> IF terminal = Nothing /\ Len(r.next) < cap /\ ~seen
                               THEN Append(r.next, Entry(hit[1], chain)) ELSE r.next]
        found == FoldLeft(Record, [terminal |-> Nothing, best |-> acc.best, next |-> <<>>],
                          Hits({e.oid : e \in ToSet(acc.frontier)}, acc.visited))
    IN  IF acc.result # Nothing \/ acc.frontier = <<>> THEN acc
        ELSE IF rooted # <<>>
             THEN [acc EXCEPT !.result =
                       LET e == rooted[1] IN
                       IF IsStaticTarget(d, e.oid) THEN TerminalOf(d, e.oid, e.chain, leaf, "")
                       ELSE <<Append(e.chain, <<0, "a GC root">>), <<"gcroot", leaf, "">>>>]
        ELSE [frontier |-> found.next, result |-> found.terminal, best |-> found.best,
              visited |-> acc.visited \cup {e.oid : e \in ToSet(found.next)}]

\* The chain and how it ends; without an end the longest chain met.
Trace(d, leaf, sample, cap, levels, Hits(_, _)) ==
    LET start == [frontier |-> Mapped(LAMBDA oid : Entry(oid, <<<<oid, leaf>>>>), sample),
                  visited |-> ToSet(sample), best |-> <<>>, result |-> Nothing]
        end == FoldLeft(LAMBDA acc, i : Level(d, leaf, cap, acc, Hits), start,
                        [i \in 1..levels |-> i])
    IN  IF end.result # Nothing THEN end.result ELSE <<end.best, Nothing>>

StreamTrace(d, leaf, cap, levels) ==
    LET layout == Layouts(d)
    IN  Trace(d, leaf, StreamSample(d, leaf, cap), cap, levels,
              LAMBDA frontier, visited : StreamHits(d, layout, frontier, visited))
IndexedTrace(d, edges, leaf, cap, levels) ==
    Trace(d, leaf, IndexedSample(d, leaf, cap), cap, levels,
          LAMBDA frontier, visited : IndexedHits(d, edges, frontier, visited))

-----------------------------------------------------------------------------
(* root_paths: breadth first along incoming edges, up to five paths *)

MaxPaths == 5

\* Mutant: a search that met its limit of nodes does not say so.
SilentLimit(search) == search

\* The search was cut off by one of its limits.
Limited(search) == [search EXCEPT !.limited = TRUE]

RootPaths(d, edges, oid, maxNodes, maxDepth, includeWeak) ==
    LET incoming == SelectSeq(edges, LAMBDA e : includeWeak \/ e.strength = "strong")
        Enqueue(chain, search, e) ==
            IF e.src \in search.seen \/ search.full THEN search
            ELSE IF Cardinality(search.seen) >= maxNodes
                 THEN Limited([search EXCEPT !.full = TRUE])
            ELSE [search EXCEPT !.seen = @ \cup {e.src},
                                !.queue = Append(@, Entry(e.src, <<e>> \o chain))]
        Visit(search, i) ==
            LET current == Head(search.queue)
                rest    == [search EXCEPT !.queue = Tail(@), !.full = FALSE]
            IN  IF search.queue = <<>> \/ Len(search.paths) >= MaxPaths THEN search
                ELSE IF IsRoot(d, current.oid)
                     THEN [rest EXCEPT !.paths = Append(@, <<current.oid, current.chain>>)]
                ELSE IF Len(current.chain) >= maxDepth THEN Limited(rest)
                ELSE FoldLeft(LAMBDA s, e : Enqueue(current.chain, s, e), rest,
                              SelectSeq(incoming, LAMBDA e : e.dst = current.oid))
        end == FoldLeft(Visit, [queue |-> <<Entry(oid, <<>>)>>, seen |-> {oid}, paths |-> <<>>,
                                limited |-> FALSE, full |-> FALSE],
                        [i \in 1..(Len(d.objects) + Len(d.classes) + 2) |-> i])
    IN  [paths |-> end.paths, partial |-> end.limited \/ end.queue # <<>>]
=============================================================================
