-------------------------- MODULE MCMessageDecode --------------------------
EXTENDS DecodeMeaning

F(label, type) == [label |-> label, type |-> type]

(* Node: sub-messages of its own type, single and repeated, beside varints.
   Tiny is another name for Node, which has inputs of its own.
   Leaf: the other kinds of field.  Scalar: types that convert their values. *)
MCSchema ==
  [Tiny |-> (1 :> F("single", "uint64") @@ 2 :> F("repeated", "uint64") @@
             3 :> F("single", "Tiny") @@ 4 :> F("repeated", "Tiny")),
   Node |-> (1 :> F("single", "uint64") @@ 2 :> F("repeated", "uint64") @@
             3 :> F("single", "Node") @@ 4 :> F("repeated", "Node")),
   Leaf |-> (1 :> F("optional", "fixed64") @@ 2 :> F("repeated", "fixed32") @@
             3 :> F("single", "string") @@ 4 :> F("repeated", "bytes") @@
             5 :> F("choice", "uint64") @@ 6 :> F("choice", "Node")),
   Scalar |-> (1 :> F("single", "bool") @@ 2 :> F("repeated", "bool") @@
               3 :> F("single", "sint32") @@ 4 :> F("repeated", "sint32") @@
               5 :> F("optional", "enum") @@ 6 :> F("repeated", "sint64") @@
               7 :> F("single", "sfixed32"))]
MCSizeOf ==
  [uint64 |-> 8, fixed32 |-> Fixed32, fixed64 |-> Fixed64, string |-> 8, bytes |-> 16,
   bool |-> 1, sint32 |-> 4, sint64 |-> 8, Tiny |-> 40, Node |-> 40, Leaf |-> 64]

V(n) == 8 * n           \* the tag of field n with each wire type
L(n) == 8 * n + 2

(* Every message of at most four bytes over the tags of Tiny, a few lengths and
   a continuation. *)
NodeBytes == {V(1), V(2), L(2), L(3), L(4), 0, 1, 2, 64}
ShortInputs == UNION {[1 .. n -> NodeBytes] : n \in 0 .. 4}

(* Whole fields, some of them malformed, to put one after the other. *)
NodeParts ==
  {<<V(1), 66, 1>>, <<L(2), 3, 1, 65, 2>>, <<L(2), 0>>, <<V(2), 5>>,
   <<L(3), 2, V(1), 3>>, <<L(3), 4, L(2), 2, 3, 64>>, <<L(3), 2, L(4), 0>>,
   <<L(4), 0>>, <<L(4), 4, L(4), 2, V(2), 7>>, <<V(4), 0>>, <<L(7), 1, 9>>,
   <<L(3), 3, V(1)>>, <<L(4), 1, V(1), L(4), 0>>}

LeafParts ==
  {<<V(1) + 1, 1, 2, 3>>, <<V(1) + 1, 1>>,
   <<L(2), 4, 1, 0, 2, 1>>, <<L(2), 3, 1, 0, 2>>, <<L(2), 1, 9>>, <<V(2) + 5, 7, 1>>,
   <<L(3), 2, 5, 6>>, <<L(3), 0>>, <<L(3), 63, 127, 1>>, <<L(4), 1, 9>>, <<L(4), 0>>,
   <<L(2), 126, 15>>, <<V(5), 3>>, <<L(6), 2, V(1), 4>>, <<L(6), 0>>, <<V(7) + 5, 0, 0>>}

Concatenations(parts, max) ==
  {FlattenSeq(s) : s \in UNION {[1 .. n -> parts] : n \in 0 .. max}}

(* Numbers at the ends of the types: zero, one, the least and greatest of 32
   bits, one above them, the least and greatest of 64 bits. *)
Ends == {<<0>>, <<1>>, <<127, 15>>, <<64, 16>>, <<127, 31>>, <<64, 32>>,
         <<64, 64, 8>>, <<127, 127, 7>>, <<127, 127, 15>>}
ScalarParts ==
  {<<V(n)>> \o v : n \in 1 .. 6, v \in Ends} \cup
  {<<L(2), 3, 0, 64, 32>>, <<L(4), 4, 3, 127, 31, 2>>,
   <<V(7) + 5, 127, 127>>, <<V(7) + 5, 0, 64>>, <<V(7) + 5, 0, 128 - 1>>}

LongNodes == Concatenations(NodeParts, 3)
LongLeaves == Concatenations(LeafParts, 3)
ScalarPairs == Concatenations(ScalarParts, 2)
MCInputs == [Tiny |-> ShortInputs, Node |-> LongNodes, Leaf |-> LongLeaves,
             Scalar |-> ScalarPairs]
MCHeapSizes == [Tiny |-> {400}, Node |-> {0, 60, 100, 800}, Leaf |-> {0, 12, 40, 800},
                Scalar |-> {3, 400}]

(* An item of a fixed width, and a length of as many more as the largest int. *)
WrapInputs == [Leaf |-> {<<V(2) + 5, 7, 1, L(2), 126, 15>>, <<L(2), 4, 1, 0, 2, 1>>, <<L(2), 126, 15>>}]
WrapHeapSizes == [Leaf |-> {60}]

NodePairs == Concatenations(NodeParts, 1)
AllPairs == Concatenations(LeafParts \cup NodeParts, 1)
PairInputs == [Node |-> AllPairs, Leaf |-> AllPairs]
PairHeapSizes == [Node |-> {60, 800}, Leaf |-> {60, 800}]
RefusedInputs == [Node |-> NodePairs]
RefusedHeapSizes == [Node |-> {0, 60}]
=============================================================================
