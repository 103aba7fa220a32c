------------------------------- MODULE Codec -------------------------------
(***************************************************************************)
(* A message through pbtools_message_encode and then, as the receiver does *)
(* it, through pbtools_message_decode into an empty message of its type.   *)
(***************************************************************************)
EXTENDS MessageDecode, MessageEncode

(* Tags are uint32_t. *)
ASSUME CodecAssumption ==
  /\ \A t \in MessageTypes : \A n \in FieldsOf(t) : Tag(n, 7) < Uint32

VARIABLES source,       \* the message encoded
          buffer,       \* size of the buffer
          encoded       \* [length, bytes], what encode returned and wrote

cvars == <<source, buffer, encoded>>

Nothing == <<>>

CInit ==
  /\ Init
  /\ source \in Sources[root] /\ buffer \in BufferSizes /\ encoded = Nothing

Encode ==
  /\ decodes = 0 /\ encoded = Nothing
  /\ encoded' = pbtools_message_encode(root, source, buffer)
  /\ UNCHANGED <<vars, source, buffer>>

Decode ==
  /\ decodes = 0 /\ encoded # Nothing /\ encoded.length >= 0
  /\ pbtools_message_decode(encoded.bytes)
  /\ UNCHANGED cvars

CNext == Encode \/ Decode \/ (Run /\ UNCHANGED cvars)

CSpec == CInit /\ [][CNext]_<<vars, cvars>>
-----------------------------------------------------------------------------
(* The encoding a message should have, without encoders and positions: the
   records of its fields, one after the other. *)
Record(n, wire_type, body) ==
  VarintBytes(Tag(n, wire_type))
    \o (IF wire_type = LENGTH_DELIMITED THEN VarintBytes(Len(body)) \o body ELSE body)

(* A value, and an item of a packed field. *)
ValueBytes(type, value) ==
  IF type \in VarintTypes THEN VarintBytes(ToVarint(type, value))
  ELSE IF type \in FixedTypes THEN FixedOf(type, value) ELSE Payload(type, value)
ItemBytes(type, value) ==
  IF type \in VarintTypes THEN VarintBytes(ItemToVarint(type, value)) ELSE FixedOf(type, value)

(* A single field that holds what an empty message does has no record. *)
IsDefault(t, n, value) ==
  /\ LabelOf(t, n) = "single"
  /\ IF TypeOf(t, n) \in PayloadTypes THEN Payload(TypeOf(t, n), value) = <<>> ELSE value = 0

(* The records of field n of type t; inner is the encoding of sub-messages. *)
RecordsOf(t, n, values, inner) ==
  LET type == TypeOf(t, n)
      all(body(_)) == [i \in DOMAIN values |-> Record(n, WireTypeOf(type), body(values[i]))]
  IN  IF type \in MessageTypes THEN all(LAMBDA v : inner[<<type, v>>])
      ELSE IF LabelOf(t, n) = "repeated" /\ type \notin PayloadTypes
      THEN IF values = <<>> THEN <<>>
           ELSE <<Record(n, LENGTH_DELIMITED,
                         FlattenSeq([i \in DOMAIN values |-> ItemBytes(type, values[i])]))>>
      ELSE IF values # <<>> /\ IsDefault(t, n, values[1]) THEN <<>>
      ELSE all(LAMBDA v : ValueBytes(type, v))

RecordsIn(t, m, inner) ==
  FlattenSeq([i \in DOMAIN FieldOrder(t) |->
                RecordsOf(t, FieldOrder(t)[i], m[FieldOrder(t)[i]], inner)])

(* The encoding of every struct with so many levels. *)
EncodingWithin[levels \in 0 .. Nesting] ==
  IF levels = 0 THEN [x \in Structs |-> <<>>]
  ELSE LET inner == EncodingWithin[levels - 1]
       IN  [x \in Structs |-> FlattenSeq(RecordsIn(x[1], x[2], inner))]

Encoding == EncodingWithin[Nesting]

(* What of a struct is sent: a string as far as its first NUL, everything else
   as it is. *)
UpToNul(bytes) ==
  SubSeq(bytes, 1, Max({0} \cup {n \in DOMAIN bytes : 0 \notin Range(SubSeq(bytes, 1, n))}))

SentValue(type, v, inner) ==
  IF type = "string" THEN UpToNul(v) ELSE IF type \in MessageTypes THEN inner[<<type, v>>] ELSE v

SentWithin[levels \in 0 .. Nesting] ==
  IF levels = 0 THEN [x \in Structs |-> x[2]]
  ELSE LET inner == SentWithin[levels - 1]
       IN  [x \in Structs |-> [n \in FieldsOf(x[1]) |->
              [i \in DOMAIN x[2][n] |-> SentValue(TypeOf(x[1], n), x[2][n][i], inner)]]]

Sent == SentWithin[Nesting]

(* What was encoded is what is decoded, whole and in order: through nested
   length headers written backwards on one side and slices and two passes on
   the other, with fields that are zero, empty or absent told apart wherever
   the schema lets them be, and numbers of every type at the ends of their
   ranges unchanged by the wire's. *)
RoundTrip ==
  Idle /\ decodes = 1 /\ refused = {} =>
    result = encoded.length /\ message = Sent[<<root, source>>]

(* The caller gets exactly the encoding of the message and its length, whatever
   the lengths of the headers that are written backwards from positions.  A
   buffer too small by any amount, and by one byte more than that, is an error,
   never a shorter message.  A buffer of no bytes has no position that is not
   an error: an empty message gets -1. *)
WholeOrNothing ==
  LET whole == Encoding[<<root, source>>]
  IN  encoded # Nothing =>
        encoded = IF Len(whole) < buffer THEN [length |-> Len(whole), bytes |-> whole]
                  ELSE [length |-> IF buffer = 0 /\ whole = <<>> THEN -1 ELSE -ENCODE_BUFFER_FULL,
                        bytes  |-> <<>>]
=============================================================================
