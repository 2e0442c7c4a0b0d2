----------------------------- MODULE HeapIndex -----------------------------
(***************************************************************************)
(* What is made of one heap dump: the object index (heap_index.build_index)*)
(* with its rows, edges and roots; the class histogram (heap_dump.py); and *)
(* the two searches for equal arrays (heap_index.duplicate_arrays over the *)
(* index, heap_waste over the file).                                       *)
(*                                                                         *)
(* A dump is a record                                                      *)
(*   classes : <<[cid, name, super, loader, statics, fields]>>             *)
(*   objects : <<[oid, kind, class, refs, bytes, content]>>                *)
(*   roots   : <<oid>>                                                     *)
(* in the order of the file, classes first as HotSpot writes them.  An     *)
(* identifier is a number, 0 is null.  A field is <<name, type>>, a static *)
(* <<name, target>>; refs are the reference slots of an instance in the    *)
(* order of its layout, or the elements of an array; bytes is the size of  *)
(* the payload in the file; content tells primitive arrays apart.          *)
(***************************************************************************)
EXTENDS Naturals, Sequences, FiniteSets, SequencesExt, FiniteSetsExt

\* The layout the sizes assume: heap_sizing.COMPRESSED, 8-byte identifiers.
IdSize == 8
OopSize == 4
ObjectHeader == 12
ArrayHeader == 16
Alignment == 8
TypeSizes == [ref |-> IdSize, byte |-> 1, char |-> 2, int |-> 4, long |-> 8]

Align(n) == ((n + Alignment - 1) \div Alignment) * Alignment

\* Reference slots are IdSize wide in the file and OopSize in the heap.
InstanceSize(payload, refs) ==
    LET excess == (IdSize - OopSize) * refs
    IN  Align(ObjectHeader + (IF payload < excess THEN 0 ELSE payload - excess))
ObjectArraySize(length) == Align(ArrayHeader + length * OopSize)
PrimArraySize(bytes) == Align(ArrayHeader + bytes)

Total(seq) == FoldLeft(LAMBDA sum, n : sum + n, 0, seq)
Mapped(Op(_), seq) == [i \in 1..Len(seq) |-> Op(seq[i])]

-----------------------------------------------------------------------------
(* Classes and layouts *)

Known(d, cid) == \E i \in 1..Len(d.classes) : d.classes[i].cid = cid
ClassOf(d, cid) == d.classes[CHOOSE i \in 1..Len(d.classes) : d.classes[i].cid = cid]
NameOf(d, cid) == IF Known(d, cid) THEN ClassOf(d, cid).name ELSE "?"

\* The class and its superclasses, each once.
Chain(d, cid) ==
    FoldLeft(LAMBDA chain, c :
                 LET sup == ClassOf(d, Last(chain)).super
                 IN  IF Known(d, sup) /\ ~\E i \in 1..Len(chain) : chain[i] = sup
                     THEN Append(chain, sup) ELSE chain,
             IF Known(d, cid) THEN <<cid>> ELSE <<>>, d.classes)

\* The fields of an instance in the order of the file: own first.
Layout(d, cid) ==
    FlattenSeq(Mapped(LAMBDA c : Mapped(LAMBDA f : [class |-> ClassOf(d, c).name,
                                                    name |-> f[1], type |-> f[2]],
                                        ClassOf(d, c).fields),
                      Chain(d, cid)))

\* The reference fields of every class, worked out once.
Layouts(d) == [cid \in {c.cid : c \in ToSet(d.classes)} |->
                   SelectSeq(Layout(d, cid), LAMBDA f : f.type = "ref")]
Strength(f) == IF f.class = "Reference" /\ f.name = "referent" THEN "weak" ELSE "strong"

-----------------------------------------------------------------------------
(* build_index *)

Shallow(o, layout) ==
    CASE o.kind = "instance"     -> InstanceSize(o.bytes, Len(layout[o.class]))
      [] o.kind = "object_array" -> ObjectArraySize(Len(o.refs))
      [] OTHER                   -> PrimArraySize(o.bytes)

\* Class objects have rows of their own, without a modelled size.
Rows(d, layout) ==
    Mapped(LAMBDA c : [oid |-> c.cid, class |-> c.cid, kind |-> "class", shallow |-> 0],
           d.classes)
    \o Mapped(LAMBDA o : [oid |-> o.oid, class |-> o.class, kind |-> o.kind,
                          shallow |-> Shallow(o, layout)],
              d.objects)

Edge(src, dst, field, strength) ==
    [src |-> src, dst |-> dst, field |-> field, strength |-> strength]

\* The first pass: what a class refers to, and that its loader defined it.
ClassEdges(c) ==
    Mapped(LAMBDA s : Edge(c.cid, s[2], <<"static", s[1]>>, "strong"), c.statics)
    \o <<Edge(c.cid, c.super, <<"<superclass>">>, "strong"),
         Edge(c.cid, c.loader, <<"<classloader>">>, "strong")>>
    \o (IF c.loader = 0 THEN <<>> ELSE <<Edge(c.loader, c.cid, <<"<definedClass>">>, "strong")>>)

\* The second pass: the class of an object, then its fields or elements.
ObjectEdges(o, layout) ==
    <<Edge(o.oid, o.class, <<"<class>">>, "strong")>>
    \o [i \in 1..Len(o.refs) |->
            IF o.kind = "instance"
            THEN LET f == layout[o.class][i]
                 IN  Edge(o.oid, o.refs[i], <<f.class, f.name>>, Strength(f))
            ELSE Edge(o.oid, o.refs[i], <<"[", i>>, "strong")]

\* Null references are no edges.
Edges(d, layout) ==
    SelectSeq(FlattenSeq(Mapped(ClassEdges, d.classes))
              \o FlattenSeq(Mapped(LAMBDA o : ObjectEdges(o, layout), d.objects)),
              LAMBDA e : e.dst # 0)

BuildIndex(d) == LET layout == Layouts(d) IN
                 [rows |-> Rows(d, layout), edges |-> Edges(d, layout), roots |-> ToSet(d.roots)]

-----------------------------------------------------------------------------
(* The class histogram of the parse pass *)

\* Mutant: the reference fields of superclasses are not counted.
OwnRefCount(d, cid) == Len(SelectSeq(ClassOf(d, cid).fields, LAMBDA f : f[2] = "ref"))

\* _ref_field_counts: own reference fields and those of the superclass.
RefCount(d, cid) ==
    Total(Mapped(LAMBDA c : Len(SelectSeq(ClassOf(d, c).fields, LAMBDA f : f[2] = "ref")),
                 Chain(d, cid)))

\* _scan_heap_segment counts and adds up payloads; _shallow_by_class divides:
\* all instances of a class share one layout.
HistogramSize(d, cid) ==
    LET instances == SelectSeq(d.objects, LAMBDA o : o.kind = "instance" /\ o.class = cid)
        payload   == Total(Mapped(LAMBDA o : o.bytes, instances))
    IN  IF instances = <<>> THEN 0
        ELSE Len(instances) * InstanceSize(payload \div Len(instances), RefCount(d, cid))

ArrayHistogramSize(d, cid) ==
    Total(Mapped(LAMBDA o : Align(ArrayHeader + Len(o.refs) * OopSize),
                 SelectSeq(d.objects, LAMBDA o : o.kind = "object_array" /\ o.class = cid)))

-----------------------------------------------------------------------------
(* Equal arrays *)

Arrays(d) == SelectSeq(d.objects, LAMBDA o : o.kind \in {"byte", "char", "long"})

\* duplicate_arrays: every group of equal arrays, by type and digest.
IndexedWaste(d) ==
    LET arrays == Arrays(d)
        Same(i) == {j \in 1..Len(arrays) : /\ arrays[j].kind = arrays[i].kind
                                           /\ arrays[j].content = arrays[i].content
                                           /\ arrays[j].bytes = arrays[i].bytes}
    IN  MapThenSumSet(LAMBDA i : IF \E j \in Same(i) : j < i THEN PrimArraySize(arrays[i].bytes)
                                 ELSE 0,
                      1..Len(arrays))

\* What a group of the file scan is known by.
Key(o) == <<o.kind, o.content, o.bytes>>

\* _WasteScanner: byte and char arrays up to a size, and no new value once as
\* many as the cap are known.
ScannedWaste(d, maxBytes, maxDistinct) ==
    LET Record(scan, o) ==
            IF \E g \in scan.groups : g = Key(o)
            THEN [scan EXCEPT !.wasted = @ + PrimArraySize(o.bytes)]
            ELSE IF Cardinality(scan.groups) >= maxDistinct THEN [scan EXCEPT !.capped = TRUE]
            ELSE [scan EXCEPT !.groups = @ \cup {Key(o)}]
    IN  FoldLeft(Record, [groups |-> {}, wasted |-> 0, capped |-> FALSE],
                 SelectSeq(Arrays(d), LAMBDA o : /\ o.kind \in {"byte", "char"}
                                                 /\ o.bytes > 0 /\ o.bytes <= maxBytes))
=============================================================================
