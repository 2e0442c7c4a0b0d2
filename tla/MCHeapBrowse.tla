---------------------------- MODULE MCHeapBrowse ----------------------------
EXTENDS HeapBrowse

(* Graphs of four nodes with two references each, and their class, which a *)
(* static field may join to the last one.                                  *)

Node(oid, a, b) == [oid |-> oid, kind |-> "instance", class |-> 10, refs |-> <<a, b>>,
                    bytes |-> 20, content |-> 0]
NodeClass(loader, static) ==
    [cid |-> 10, name |-> "Node", super |-> 0, loader |-> loader,
     statics |-> <<<<"held", static>>>>,
     fields |-> <<<<"a", "ref">>, <<"size", "int">>, <<"b", "ref">>>>]
Graph(refs, static, roots) ==
    [classes |-> <<NodeClass(0, static)>>, roots |-> roots,
     objects |-> [i \in 1..Len(refs) |-> Node(i, refs[i][1], refs[i][2])]]

Graphs ==
    {Graph(<<a, <<b, 4>>, <<c, 1>>, d>>, static, roots) :
         a \in {<<2, 3>>, <<2, 2>>, <<4, 2>>}, b \in {0, 1, 3}, c \in {0, 2, 4},
         d \in {<<0, 0>>, <<2, 3>>, <<3, 1>>},
         static \in {0, 4}, roots \in {<<1>>, <<2, 1>>, <<3>>, <<10, 2>>, <<99, 1, 1>>}}

(* Mixed dumps: two classes of one name, a weak reference, an array, a user *)
(* class, and primitive arrays.                                             *)

Class(cid, name, super, statics, fields) ==
    [cid |-> cid, name |-> name, super |-> super, loader |-> 0, statics |-> statics,
     fields |-> fields]
Object(oid, kind, class, refs, bytes, content) ==
    [oid |-> oid, kind |-> kind, class |-> class, refs |-> refs, bytes |-> bytes,
     content |-> content]

Mixed ==
    {[classes |-> <<Class(20, "Item", 0, <<>>, <<<<"next", "ref">>, <<"age", "int">>>>),
                    Class(21, "Reference", 0, <<>>, <<<<"referent", "ref">>>>),
                    Class(22, "Cache", 21, <<<<"top", static>>>>, <<<<"queue", "ref">>>>),
                    Class(23, "Item", 0, <<>>, <<<<"owner", "ref">>>>),
                    Class(24, "Owner", 20, <<>>, <<<<"items", "ref">>>>),
                    Class(25, "Object[]", 0, <<>>, <<>>)>>,
      objects |-> <<Object(1, "instance", 23, <<a>>, 8, 0),
                    Object(2, "instance", 20, <<b>>, 12, 0),
                    Object(3, "instance", 22, <<1, c>>, 16, 0),
                    Object(4, "object_array", 25, d, 0, 0),
                    Object(5, "instance", owner, IF owner = 24 THEN <<4, 3>> ELSE <<4>>,
                           IF owner = 24 THEN 20 ELSE 8, 0),
                    Object(6, "byte", 0, <<>>, 8, 1), Object(7, "char", 0, <<>>, 8, 1),
                    Object(8, "byte", 0, <<>>, bytes, content), Object(9, "long", 0, <<>>, 8, 1)>>,
      roots |-> roots] :
         a \in {2, 4}, b \in {1, 3}, c \in {0, 2}, d \in {<<2, 1, 2>>, <<0, 3>>},
         owner \in {23, 24}, static \in {0, 4}, roots \in {<<5>>, <<22>>, <<3>>},
         bytes \in {8, 16}, content \in {1}}

Samples == {1, 2, 5}
Depths == {1, 3}
SearchLimits == {[nodes |-> 3, depth |-> 40], [nodes |-> 50, depth |-> 40],
                 [nodes |-> 50, depth |-> 1]}
AllDumps == Graphs \cup Mixed
=============================================================================
