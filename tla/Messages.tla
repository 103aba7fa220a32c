------------------------------ MODULE Messages ------------------------------
(***************************************************************************)
(* What the generator knows of a .proto file, and what the generated       *)
(* structs hold.  A message is a function from its field numbers to        *)
(* sequences: a field that may be absent (optional, a oneof member, a      *)
(* sub-message pointer) is a sequence of at most one value, a repeated one *)
(* the sequence of its items, any other a sequence of one value.           *)
(***************************************************************************)
EXTENDS Scalars, Sequences, SequencesExt

CONSTANT Schema         \* message type -> field number -> [label, type]

(* label is "single", "optional", "repeated" or the name of a oneof; type is a
   message type, a scalar type or one of these. *)
PayloadTypes == {"string", "bytes"}
LeafTypes == VarintTypes \cup FixedTypes \cup PayloadTypes

MessageTypes == DOMAIN Schema
FieldsOf(t) == DOMAIN Schema[t]
LabelOf(t, n) == Schema[t][n].label
TypeOf(t, n) == Schema[t][n].type

RepeatedFields(t) == {n \in FieldsOf(t) : LabelOf(t, n) = "repeated"}
InOneof(t, n) == LabelOf(t, n) \notin {"single", "optional", "repeated"}
(* The fields that share memory with field n. *)
OneofOf(t, n) ==
  IF InOneof(t, n) THEN {m \in FieldsOf(t) : LabelOf(t, m) = LabelOf(t, n)} ELSE {n}

InOrder(numbers) ==
  [i \in 1 .. Cardinality(numbers) |->
     CHOOSE n \in numbers : Cardinality({m \in numbers : m <= n}) = i]

DefaultOf(t, n) ==
  IF LabelOf(t, n) # "single" \/ TypeOf(t, n) \in MessageTypes THEN <<>>
  ELSE IF TypeOf(t, n) \in PayloadTypes THEN <<<<>>>>
  ELSE <<0>>

(* message_init *)
EmptyMessage(t) == [n \in FieldsOf(t) |-> DefaultOf(t, n)]

(* Mutant: the choice of the oneof stays what it was. *)
Assign_no_choice(t, m, n, values) ==
  [k \in FieldsOf(t) |-> IF k = n THEN values ELSE m[k]]

(* Storing to a oneof member makes it the choice. *)
Assign(t, m, n, values) ==
  [k \in FieldsOf(t) |-> IF k = n THEN values
                         ELSE IF k \in OneofOf(t, n) THEN <<>> ELSE m[k]]
=============================================================================
