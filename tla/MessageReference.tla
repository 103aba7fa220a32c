-------------------------- MODULE MessageReference --------------------------
(***************************************************************************)
(* What an encoded message means, without decoders, slices or passes: the  *)
(* bytes are cut into records, and each field of the message is a function *)
(* of the records that carry its number.  Only TLC's runs use it.          *)
(***************************************************************************)
EXTENDS Messages

Malformed == [field |-> 0, wire_type |-> -1, value |-> 0, bytes |-> <<>>]

(* The varint in front of bytes: its value and how many bytes it takes, none
   when it is cut short or too long. *)
Varint(bytes) ==
  LET ends == {n \in 1 .. Min({MaxGroups, Len(bytes)}) : bytes[n] < Base}
      n == Min(ends)
      group(i) == (bytes[i] % Base) * Base ^ (i - 1)
  IN  IF ends = {} THEN [value |-> 0, size |-> 0]
      ELSE [value |-> MapThenSumSet(group, 1 .. n) % Word, size |-> n]

Rest(bytes, n) == SubSeq(bytes, n + 1, Len(bytes))
First(bytes, n) == SubSeq(bytes, 1, n)

LittleEndian(bytes) ==
  MapThenSumSet(LAMBDA i : bytes[i] * (2 * Base) ^ (i - 1), DOMAIN bytes)

(* The records of bytes, in order, the last one Malformed when the rest cannot
   be cut.  A tag has 32 bits and a length stays below INT_MAX. *)
RECURSIVE Records(_)
Records(bytes) ==
  IF bytes = <<>> THEN <<>>
  ELSE
  LET tag == Varint(bytes)
      key == tag.value % (2 * (IntMax + 1))
      body == Rest(bytes, tag.size)
      v == Varint(body)
      content == Rest(body, v.size)
      record(value, payload) == [field |-> key \div 8, wire_type |-> key % 8,
                                 value |-> value, bytes |-> payload]
      fixed(width) == IF Len(body) < width THEN <<Malformed>>
                      ELSE <<record(LittleEndian(First(body, width)), <<>>)>>
                             \o Records(Rest(body, width))
  IN  IF tag.size = 0 \/ key \div 8 = 0 THEN <<Malformed>>
      ELSE CASE key % 8 = VARINT /\ v.size > 0 ->
                  <<record(v.value, <<>>)>> \o Records(content)
             [] key % 8 = LENGTH_DELIMITED /\ v.size > 0 /\ v.value < IntMax
                  /\ v.value <= Len(content) ->
                  <<record(0, First(content, v.value))>> \o Records(Rest(content, v.value))
             [] key % 8 = WIRE_32_BIT -> fixed(Fixed32)
             [] key % 8 = WIRE_64_BIT -> fixed(Fixed64)
             [] OTHER -> <<Malformed>>

WireType(type) ==
  CASE type \in VarintTypes -> VARINT
    [] type \in Fixed32Types -> WIRE_32_BIT
    [] type \in FixedTypes \ Fixed32Types -> WIRE_64_BIT
    [] OTHER -> LENGTH_DELIMITED

(* The number of a type's range that agrees with n in all the low bits. *)
Wrapped(n, values) == ((n + values \div 2) % values) - values \div 2

(* What a number on the wire means in a field of a type: 32-bit types ignore
   the bits above their own, zigzag counts 0, -1, 1, -2 and so on. *)
NumberOf(type, n) ==
  LET sign == IF n % 2 = 0 THEN n \div 2 ELSE -((n + 1) \div 2)
  IN  CASE type \in {"int32", "enum"}  -> Wrapped(n, Uint32)
        [] type = "uint32"             -> n % Uint32
        [] type = "sint32"             -> Wrapped(sign, Uint32)
        [] type = "int64"              -> Wrapped(n, Word)
        [] type = "sint64"             -> sign
        [] type = "bool"               -> IF n = 0 THEN 0 ELSE 1
        [] type = "sfixed32"           -> Wrapped(n, (2 * Base) ^ Fixed32)
        [] type = "sfixed64"           -> Wrapped(n, (2 * Base) ^ Fixed64)
        [] OTHER                       -> n

(* The varints in a packed payload, -1 at the end when it cannot be cut. *)
RECURSIVE Varints(_)
Varints(bytes) ==
  LET v == Varint(bytes)
  IN  IF bytes = <<>> THEN <<>>
      ELSE IF v.size = 0 THEN <<-1>>
      ELSE <<v.value>> \o Varints(Rest(bytes, v.size))

(* The fixed-width values in a packed payload. *)
Fixeds(bytes, width) ==
  [i \in 1 .. Len(bytes) \div width |->
     LittleEndian(SubSeq(bytes, (i - 1) * width + 1, i * width))]

FixedWidth(type) == IF WireType(type) = WIRE_32_BIT THEN Fixed32 ELSE Fixed64

Numbers(type, values) == [i \in DOMAIN values |-> NumberOf(type, values[i])]

(* The items a record that fits brings to its field. *)
RECURSIVE Items(_, _), Valid(_, _), Meaning(_, _, _)
Items(type, r) ==
  CASE type \in MessageTypes -> <<Meaning(type, Records(r.bytes), EmptyMessage(type))>>
    [] type \in PayloadTypes -> <<r.bytes>>
    [] type \in VarintTypes \cup FixedTypes /\ r.wire_type = WireType(type) ->
         <<NumberOf(type, r.value)>>
    [] type \in VarintTypes /\ r.wire_type = LENGTH_DELIMITED ->
         Numbers(type, Varints(r.bytes))
    [] OTHER -> Numbers(type, Fixeds(r.bytes, FixedWidth(type)))

(* The value of a field that is not repeated.  A bool there is the one type
   that is cut to 32 bits before it is tested. *)
ValueOf(type, r) ==
  IF type = "bool" /\ r.value % Uint32 = 0 THEN <<0>> ELSE Items(type, r)

Known(t, records) == {i \in DOMAIN records : records[i].field \in FieldsOf(t)}

(* Only repeated numbers may use another wire type than their values, and then
   their payload is made of whole values, or is too short for one (see Short). *)
Fits(t, r) ==
  LET type == TypeOf(t, r.field)
  IN  IF r.wire_type = WireType(type)
      THEN type \in MessageTypes => Valid(type, Records(r.bytes))
      ELSE /\ LabelOf(t, r.field) = "repeated" /\ r.wire_type = LENGTH_DELIMITED
           /\ type \in VarintTypes => -1 \notin Range(Varints(r.bytes))
           /\ type \in FixedTypes =>
                Len(r.bytes) % FixedWidth(type) = 0 \/ Len(r.bytes) < FixedWidth(type)

(* A fixed-width payload too short for one value passes for an empty one in
   front of all the items of its field and after them; between them it is an
   error. *)
Short(t, r) ==
  /\ TypeOf(t, r.field) \in FixedTypes /\ r.wire_type = LENGTH_DELIMITED
  /\ Len(r.bytes) % FixedWidth(TypeOf(t, r.field)) # 0

Valid(t, records) ==
  LET bring(n) == {i \in Known(t, records) : records[i].field = n
                                             /\ Items(TypeOf(t, n), records[i]) # <<>>}
  IN  /\ \A i \in DOMAIN records : records[i] # Malformed
      /\ \A i \in Known(t, records) : Fits(t, records[i])
      /\ \A i \in Known(t, records) : Short(t, records[i]) =>
           LET items == bring(records[i].field)
           IN  items = {} \/ i < Min(items) \/ i > Max(items)

(* Records of a field: the last decides, those of a repeated field add up.  A
   oneof is decided by the last record of any member, a field no record is for
   keeps its value; a sub-message starts empty each time. *)
Meaning(t, records, old) ==
  LET of(n) == SelectSeq(records, LAMBDA r : r.field = n)
      items(n) == FlattenSeq([i \in DOMAIN of(n) |-> Items(TypeOf(t, n), of(n)[i])])
      choice(n) == SelectSeq(records, LAMBDA r : r.field \in OneofOf(t, n))
      value(n) ==
        IF LabelOf(t, n) = "repeated" THEN IF items(n) = <<>> THEN old[n] ELSE items(n)
        ELSE IF choice(n) = <<>> THEN old[n]
        ELSE IF Last(choice(n)).field = n THEN ValueOf(TypeOf(t, n), Last(choice(n)))
        ELSE <<>>
  IN  [n \in FieldsOf(t) |-> value(n)]
=============================================================================
