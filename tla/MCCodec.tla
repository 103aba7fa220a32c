------------------------------ MODULE MCCodec ------------------------------
EXTENDS Codec

F(label, type) == [label |-> label, type |-> type]

(* Every kind of field: Outer has two oneof members and a sub-message of
   another type, single, repeated and in the oneof. *)
MCSchema ==
  [Inner |-> (1 :> F("single", "uint64") @@ 2 :> F("repeated", "uint64") @@
              3 :> F("optional", "bytes")),
   Outer |-> (1 :> F("optional", "fixed64") @@ 2 :> F("repeated", "fixed32") @@
              3 :> F("single", "string") @@ 4 :> F("repeated", "bytes") @@
              5 :> F("choice", "uint64") @@ 6 :> F("choice", "Inner") @@
              7 :> F("single", "Inner") @@ 9 :> F("repeated", "Inner")),
   Scalar |-> (1 :> F("single", "bool") @@ 2 :> F("repeated", "bool") @@
               3 :> F("single", "int32") @@ 4 :> F("repeated", "int32") @@
               5 :> F("single", "sint32") @@ 6 :> F("repeated", "sint32") @@
               7 :> F("optional", "sint64") @@ 8 :> F("repeated", "int64") @@
               10 :> F("choice", "enum") @@ 11 :> F("choice", "uint32") @@
               12 :> F("single", "sfixed32") @@ 13 :> F("repeated", "sfixed64") @@
               14 :> F("single", "double") @@ 15 :> F("repeated", "string"))]
MCSizeOf == [uint64 |-> 8, fixed32 |-> 4, fixed64 |-> 8, string |-> 8, bytes |-> 16,
             bool |-> 1, int32 |-> 4, sint32 |-> 4, int64 |-> 8, sfixed64 |-> 8,
             Inner |-> 40, Outer |-> 200, Scalar |-> 200]

Inners == {1 :> <<a>> @@ 2 :> b @@ 3 :> c :
             a \in {0, 300}, b \in {<<>>, <<5, 64>>}, c \in {<<>>, <<<<>>>>, <<<<9>>>>}}
SomeInners == {1 :> <<0>> @@ 2 :> <<>> @@ 3 :> <<>>, 1 :> <<300>> @@ 2 :> <<5, 64>> @@ 3 :> <<<<9>>>>}

(* The fields of Outer, each over its interesting values, two at a time, and
   all of them. *)
Values ==
  1 :> {<<>>, <<0>>, <<77>>} @@ 2 :> {<<>>, <<0, 1000>>} @@ 3 :> {<<<<>>>>, <<<<3, 4>>>>, <<<<3, 0, 4>>>>} @@
  4 :> {<<>>, <<<<>>, <<0, 7>>>>} @@ 5 :> {<<>>, <<0>>, <<65>>} @@
  6 :> {<<>>} \cup {<<i>> : i \in SomeInners} @@
  7 :> {<<>>} \cup {<<i>> : i \in Inners} @@
  9 :> {<<>>} \cup {<<i, j>> : i, j \in SomeInners}
Plain == EmptyMessage("Outer")
Full(choice) == [n \in DOMAIN Plain |->
  IF n \in {5, 6} \ {choice} THEN <<>> ELSE CHOOSE v \in Values[n] : v # Plain[n]]
Outers ==
  {Full(5), Full(6)} \cup
  UNION {{[Plain EXCEPT ![n] = v, ![m] = w] : v \in Values[n], w \in Values[m]} :
           n \in {1, 2, 3, 4, 5, 7}, m \in {4, 6, 7, 9}}
Proper == {m \in Outers : m[5] = <<>> \/ m[6] = <<>>}

(* The scalar fields, at the ends of their types, two at a time. *)
Ends32 == {-(IntMax + 1), -1, 0, 1, IntMax}
Ends64 == Ends32 \cup {-(Word \div 2), Word \div 2 - 1, IntMax + 1, -(IntMax + 2)}
EndsFixed(values) == {-(values \div 2), -1, 0, values \div 2 - 1}
One(values) == {<<v>> : v \in values}
Two(values) == {<<>>} \cup {<<v, w>> : v \in values, w \in values}
Scalars ==
  1 :> One({0, 1}) @@ 2 :> Two({0, 1}) @@ 3 :> One(Ends32) @@ 4 :> Two(Ends32) @@
  5 :> One(Ends32) @@ 6 :> Two(Ends32) @@ 7 :> {<<>>} \cup One(Ends64) @@
  8 :> {<<>>} \cup One(Ends64) @@ 10 :> {<<>>} \cup One(Ends32) @@
  11 :> {<<>>} \cup One({0, IntMax + 1, Uint32 - 1}) @@
  12 :> One(EndsFixed(FixedValues("sfixed32"))) @@
  13 :> Two(EndsFixed(FixedValues("sfixed64"))) @@
  14 :> One({0, FixedValues("double") - 1}) @@ 15 :> {<<>>, <<<<0, 1>>, <<2, 0>>>>}
PlainScalar == EmptyMessage("Scalar")
SomeScalars ==
  UNION {{[PlainScalar EXCEPT ![n] = v, ![n + 1] = w] : v \in Scalars[n], w \in Scalars[n + 1]} :
           n \in {1, 3, 5, 7, 10, 12, 14}}
ProperScalars == {m \in SomeScalars : m[10] = <<>> \/ m[11] = <<>>}

MCSources == [Inner |-> Inners, Outer |-> Proper, Scalar |-> ProperScalars]
MCNoInputs == [t \in DOMAIN MCSources |-> {}]
MCHeapSizes == [t \in DOMAIN MCSources |-> {1000}]
=============================================================================
