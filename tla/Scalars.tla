------------------------------ MODULE Scalars ------------------------------
(***************************************************************************)
(* What the functions for each scalar type do to a value between the       *)
(* struct and the wire.  The wire has unsigned numbers: a varint stands    *)
(* for 0 .. Word - 1, a fixed-width field for all the values of its bytes. *)
(* In the struct a bool is 0 or 1, a float or double its bits.             *)
(***************************************************************************)
EXTENDS Wire

Uint32 == 2 * (IntMax + 1)      \* the values of uint32_t are 0 .. Uint32 - 1

(* Every value of uint64_t has a varint. *)
ASSUME ScalarAssumption == Word % Uint32 = 0 /\ Word <= Power(Base, MaxGroups)

Varint32Types == {"int32", "uint32", "sint32", "bool", "enum"}
VarintTypes == Varint32Types \cup {"int64", "uint64", "sint64"}
Fixed32Types == {"fixed32", "sfixed32", "float"}
FixedTypes == Fixed32Types \cup {"fixed64", "sfixed64", "double"}

Width(type) == IF type \in Fixed32Types THEN Fixed32 ELSE Fixed64
Range32 == -(IntMax + 1) .. IntMax
Range64 == -(Word \div 2) .. Word \div 2 - 1

(* The cast of n to a signed type of so many values. *)
Signed(n, values) ==
  LET low == n % values IN IF 2 * low < values THEN low ELSE low - values

(* ~n *)
Complement(n, values) == values - 1 - n

(* Mutant: the complement is taken of the value before the shift. *)
zigzag_unshifted(value, values) ==
  IF value < 0 THEN (2 * Complement(value % values, values)) % values
               ELSE (2 * value) % values

(* value is cast to unsigned, shifted, and complemented when it was negative. *)
zigzag(value, values) ==
  LET shifted == (2 * (value % values)) % values
  IN  IF value < 0 THEN Complement(shifted, values) ELSE shifted

sint32_encode(value) == zigzag(value, Uint32)
sint64_encode(value) == zigzag(value, Word)

unzigzag(n) == IF n % 2 = 1 THEN Complement(n \div 2, Word) ELSE n \div 2

sint32_decode(n) == Signed(unzigzag(n), Uint32)
sint64_decode(n) == Signed(unzigzag(n), Word)

Bool(n) == IF n # 0 THEN 1 ELSE 0
-----------------------------------------------------------------------------
(* Single, optional and oneof members.  The 32-bit types go through the 64-bit
   functions, by sign extension and truncation. *)
ToVarint(type, value) ==
  CASE type \in {"int32", "int64", "bool", "enum"}  -> value % Word
    [] type \in {"uint32", "uint64"}                -> value
    [] type \in {"sint32", "sint64"}                -> sint64_encode(value)

FromVarint(type, n) ==
  CASE type \in {"int32", "enum"} -> Signed(n, Uint32)
    [] type = "int64"             -> Signed(n, Word)
    [] type = "uint32"            -> n % Uint32
    [] type = "uint64"            -> n
    [] type = "sint32"            -> Signed(sint64_decode(n), Uint32)
    [] type = "sint64"            -> sint64_decode(n)
    [] type = "bool"              -> Bool(Signed(n, Uint32))

(* Items of repeated fields: sint32 has functions of its own, and a bool is not
   truncated before it is tested. *)
ItemToVarint(type, value) ==
  IF type = "sint32" THEN sint32_encode(value) ELSE ToVarint(type, value)

ItemFromVarint(type, n) ==
  CASE type = "sint32" -> sint32_decode(n)
    [] type = "bool"   -> Bool(n)
    [] OTHER           -> FromVarint(type, n)

(* The values that Width(type) bytes have. *)
FixedValues(type) == Power(2 * Base, Width(type))

ToFixed(type, value) == value % FixedValues(type)
FromFixed(type, n) ==
  IF type \in {"sfixed32", "sfixed64"} THEN Signed(n, FixedValues(type)) ELSE n
-----------------------------------------------------------------------------
(* What a member or an item of each type can hold. *)
Holds(type) ==
  CASE type \in {"int32", "sint32", "enum"} -> Range32
    [] type = "uint32"                      -> 0 .. Uint32 - 1
    [] type \in {"int64", "sint64"}         -> Range64
    [] type = "uint64"                      -> 0 .. Word - 1
    [] type = "bool"                        -> {0, 1}
    [] type \in {"sfixed32", "sfixed64"}    ->
         -(FixedValues(type) \div 2) .. FixedValues(type) \div 2 - 1
    [] OTHER                                -> 0 .. FixedValues(type) - 1
=============================================================================
