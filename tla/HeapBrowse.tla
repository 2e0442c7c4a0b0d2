----------------------------- MODULE HeapBrowse -----------------------------
(***************************************************************************)
(* One dump investigated in the ways the code offers: the histogram of the *)
(* file and the index, the tracer over either, root paths, and retained    *)
(* sizes.  What one of them tells a reader must agree with the others.     *)
(***************************************************************************)
EXTENDS HeapDominators, HeapTrace

CONSTANTS Leaves,   \* the classes traced
          Caps,     \* sample caps of the tracer
          Levels,   \* how many reference levels it searches
          Limits    \* node and depth limits of root_paths

Fresh == phase = "idle" /\ starts = 0

\* The histogram of the file and the rows of the index add up to the same
\* shallow size for every class, inherited reference fields included, and the
\* duplicates found by scanning the file are never more than the index holds
\* (heap_waste.py: "the true waste is at least this much").
ScanAndIndexAgree ==
    Fresh =>
        /\ \A c \in ToSet(dump.classes) :
               LET rows(kind) == SelectSeq(index.rows, LAMBDA r : r.kind = kind /\ r.class = c.cid)
               IN  /\ HistogramSize(dump, c.cid) = Total(Mapped(LAMBDA r : r.shallow, rows("instance")))
                   /\ ArrayHistogramSize(dump, c.cid)
                          = Total(Mapped(LAMBDA r : r.shallow, rows("object_array")))
        /\ \A maxBytes \in {8, 100}, maxDistinct \in 1..3 :
               LET scan == ScannedWaste(dump, maxBytes, maxDistinct) IN
               /\ scan.wasted <= IndexedWaste(dump)
               /\ scan.wasted = IndexedWaste(dump)
                      \/ scan.capped
                      \/ \E o \in ToSet(Arrays(dump)) :
                             o.kind = "long" \/ o.bytes = 0 \/ o.bytes > maxBytes

\* The tracer reports the same chain, ending the same way, whether it reads
\* the file or the index (heap_trace.py: "Dump and field order are preserved
\* so the same sampled chain wins").
IndexedTraceAgrees ==
    Fresh =>
        \A leaf \in Leaves, cap \in Caps, levels \in Levels :
            StreamTrace(dump, leaf, cap, levels)
                = IndexedTrace(dump, index.edges, leaf, cap, levels)

\* Each step of a reported chain is held by the next: the objects of a chain
\* are joined by strong references, also where several chains were followed at
\* once (heap_graph.py: "Each reported chain follows connected object IDs").
ChainsAreConnected ==
    Fresh =>
        \A leaf \in Leaves, cap \in Caps, levels \in Levels :
            LET chain == StreamTrace(dump, leaf, cap, levels)[1] IN
            \A i \in 1..Len(chain) - 1 :
                chain[i + 1][1] # 0 =>
                    \E e \in ToSet(index.edges) :
                        /\ e.src = chain[i + 1][1] /\ e.dst = chain[i][1]
                        /\ e.strength = "strong"

\* When a search that met no limit shows no path, no root reaches the object;
\* every path that is shown starts at a root and follows references to it.
NoPathMeansUnreachable ==
    Fresh =>
        \A r \in ToSet(index.rows), limit \in Limits, weak \in BOOLEAN :
            LET found == RootPaths(dump, index.edges, r.oid, limit.nodes, limit.depth, weak)
                edges == {e \in ToSet(index.edges) : weak \/ e.strength = "strong"}
                Held(seen, x) == seen \cup {e.dst : e \in {f \in edges : f.src \in seen}}
            IN  /\ found.paths = <<>> /\ ~found.partial =>
                       r.oid \notin FoldLeft(Held, ToSet(dump.roots), index.rows)
                /\ \A i \in 1..Len(found.paths) :
                       LET root == found.paths[i][1]  steps == found.paths[i][2] IN
                       /\ IsRoot(dump, root)
                       /\ steps = <<>> => root = r.oid
                       /\ \A j \in 1..Len(steps) :
                              /\ steps[j].src = IF j = 1 THEN root ELSE steps[j - 1].dst
                              /\ j = Len(steps) => steps[j].dst = r.oid

\* The retention shown for a class or an object is in the dump, and the same
\* whichever way it was found (heap_trace.py, heap_queries.py: root_paths).
TracesAreTrue == IndexedTraceAgrees /\ ChainsAreConnected /\ NoPathMeansUnreachable
=============================================================================
