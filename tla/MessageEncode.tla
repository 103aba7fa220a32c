--------------------------- MODULE MessageEncode ---------------------------
(***************************************************************************)
(* pbtools_message_encode with the generated encode_inner of every message *)
(* type of a schema.  Each call is a function of the encoder; the buffer   *)
(* is filled backwards, so fields are written last to first, and of each   *)
(* field the value before its header.                                      *)
(***************************************************************************)
EXTENDS EncoderOps, Messages

CONSTANTS Sources,      \* message type -> the messages of it that are encoded
          BufferSizes,  \* of the encode buffers
          Nesting       \* messages in messages in messages: at most so many levels

(* A struct in memory: its type and what it holds. *)
Structs == UNION {{<<t, m>> : m \in Sources[t]} : t \in MessageTypes}

SubMessages(x) ==
  UNION {{<<TypeOf(x[1], n), v>> : v \in Range(x[2][n])} :
           n \in {n \in FieldsOf(x[1]) : TypeOf(x[1], n) \in MessageTypes}}

(* The structs with at most so many levels, their own included. *)
Within[levels \in 0 .. Nesting] ==
  IF levels = 0 THEN {}
  ELSE LET inner == Within[levels - 1] IN {x \in Structs : SubMessages(x) \subseteq inner}

ItemsOf(type) ==
  IF type \in MessageTypes THEN Sources[type]
  ELSE IF type \in PayloadTypes THEN Seq(Byte) ELSE Holds(type)

(* What a struct of type t can hold: values of the types of its fields, as many
   as their labels allow, and of a oneof one member. *)
IsStruct(t, m) ==
  /\ DOMAIN m = FieldsOf(t)
  /\ \A n \in FieldsOf(t) :
       /\ m[n] \in Seq(ItemsOf(TypeOf(t, n)))
       /\ LabelOf(t, n) # "repeated" => Len(m[n]) <= 1
       /\ LabelOf(t, n) = "single" /\ TypeOf(t, n) \in LeafTypes => Len(m[n]) = 1
       /\ m[n] # <<>> => \A k \in OneofOf(t, n) \ {n} : m[k] = <<>>

ASSUME SourceAssumption ==
  /\ BufferSizes \subseteq 0 .. IntMax /\ Nesting \in Nat
  /\ \A t \in MessageTypes : \A m \in Sources[t] : IsStruct(t, m)
  /\ Within[Nesting] = Structs

(* The encoders of a buffer like buf. *)
Encoders(buf) == [size : Int, pos : Int, buf : [DOMAIN buf -> Byte]]
-----------------------------------------------------------------------------
(* strlen: a string ends at its first NUL. *)
CString(bytes) ==
  LET nuls == {i \in DOMAIN bytes : bytes[i] = 0}
  IN  IF nuls = {} THEN bytes ELSE SubSeq(bytes, 1, Min(nuls) - 1)

Payload(type, value) == IF type = "string" THEN CString(value) ELSE value

FixedOf(type, value) == DigitsOf(ToFixed(type, value), 2 * Base, Width(type))
FixedWireType(type) == IF type \in Fixed32Types THEN WIRE_32_BIT ELSE WIRE_64_BIT

(* pbtools_encoder_write_<type>_always: optional fields and oneof members. *)
WriteAlways(e, type, n, value) ==
  CASE type \in VarintTypes -> encoder_write_tagged_varint_always(e, n, VARINT, ToVarint(type, value))
    [] type \in FixedTypes ->
         encoder_write_tag(encoder_write(e, FixedOf(type, value)), n, FixedWireType(type))
    [] type \in PayloadTypes ->
         encoder_write_length_delimited(encoder_write(e, Payload(type, value)), n,
                                        Len(Payload(type, value)))

(* pbtools_encoder_write_<type>: zeros and empty payloads are not written. *)
Write(e, type, n, value) ==
  IF type \in PayloadTypes
  THEN IF Payload(type, value) = <<>> THEN e ELSE WriteAlways(e, type, n, value)
  ELSE IF value = 0 THEN e ELSE WriteAlways(e, type, n, value)

(* item[v], a function of the encoder, for each v of values, the last first. *)
Backwards(e, values, item) ==
  LET after[i \in 0 .. Len(values)] ==
        IF i = 0 THEN e ELSE item[values[Len(values) + 1 - i]][after[i - 1]]
  IN  after[Len(values)]

WriteItem(e, type, value) ==
  IF type \in VarintTypes THEN encoder_write_varint(e, ItemToVarint(type, value))
                          ELSE encoder_write(e, FixedOf(type, value))

(* encoder_write_repeated: numbers are packed, their header is left out when
   they take no byte. *)
WritePacked(e, type, n, values) ==
  LET item == [v \in Range(values) |-> [acc \in Encoders(e.buf) |-> WriteItem(acc, type, v)]]
      packed == Backwards(e, values, item)
  IN  IF values = <<>> THEN e
      ELSE encoder_write_tagged_varint(packed, n, LENGTH_DELIMITED, e.pos - packed.pos)

WriteRepeated(e, type, n, values) ==
  IF type \in PayloadTypes
  THEN Backwards(e, values,
                 [v \in Range(values) |-> [acc \in Encoders(e.buf) |-> WriteAlways(acc, type, n, v)]])
  ELSE WritePacked(e, type, n, values)

(* The length is how far the position has moved since e. *)
EndSubMessage(e, inner, n) == encoder_write_length_delimited(inner, n, e.pos - inner.pos)

(* Sub-messages, present or repeated, each with a header of its own; inner is
   their encode_inner. *)
WriteMessages(e, type, n, values, inner) ==
  Backwards(e, values,
    [v \in Range(values) |-> [acc \in Encoders(e.buf) |-> EndSubMessage(acc, inner[<<type, v>>][acc], n)]])

WriteField(e, t, n, values, inner) ==
  LET type == TypeOf(t, n)
  IN  IF type \in MessageTypes THEN WriteMessages(e, type, n, values, inner)
      ELSE IF LabelOf(t, n) = "repeated" THEN WriteRepeated(e, type, n, values)
      ELSE IF LabelOf(t, n) = "single" THEN Write(e, type, n, values[1])
      ELSE IF values = <<>> THEN e ELSE WriteAlways(e, type, n, values[1])

(* The order of the fields in the encoding: the oneofs come first. *)
FieldOrder(t) ==
  LET oneofs == {n \in FieldsOf(t) : InOneof(t, n)}
  IN  Reverse(InOrder(oneofs)) \o InOrder(FieldsOf(t) \ oneofs)

(* The plain fields last to first, then the member each oneof has chosen. *)
WriteFields(e, t, m, inner) ==
  Backwards(e, FieldOrder(t),
            [n \in FieldsOf(t) |-> [acc \in Encoders(e.buf) |-> WriteField(acc, t, n, m[n], inner)]])

EncodeLevel(buf, inner) ==
  [x \in Structs |-> [e \in Encoders(buf) |-> WriteFields(e, x[1], x[2], inner)]]

(* The encode_inner of every struct, in a buffer like buf, level by level. *)
encode_inner(buf) ==
  LET within[levels \in 0 .. Nesting] ==
        IF levels = 0 THEN [x \in Structs |-> [e \in Encoders(buf) |-> e]]
        ELSE EncodeLevel(buf, within[levels - 1])
  IN  within[Nesting]

pbtools_message_encode(t, m, size) ==
  LET e == encoder_init(size, [i \in 0 .. size - 1 |-> 0])
      result == encoder_get_result(encode_inner(e.buf)[<<t, m>>][e])
  IN  [length |-> result.length, bytes |-> [i \in 1 .. result.length |-> result.buf[i - 1]]]
=============================================================================
