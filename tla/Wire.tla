-------------------------------- MODULE Wire --------------------------------
(***************************************************************************)
(* The protobuf wire format as the generated C library reads and writes    *)
(* it: error codes, wire types and widths.  The widths are constants so    *)
(* that TLC can use narrow ones; the code has Base = 128, MaxGroups = 10,  *)
(* Word = 2^64, Fixed32 = 4 and Fixed64 = 8.                               *)
(***************************************************************************)
EXTENDS CInt, Digits

CONSTANTS Base,         \* a byte holds one group of a varint, 0 .. Base - 1,
                        \*   and the continuation bit, worth Base
          MaxGroups,    \* the most bytes a varint may have
          Word,         \* the values of uint64_t are 0 .. Word - 1
          Fixed32,      \* bytes of a 32-bit field
          Fixed64       \* bytes of a 64-bit field

ASSUME WireAssumption ==
  /\ Base \in Nat \ {0, 1} /\ MaxGroups \in Nat \ {0} /\ Word \in Nat \ {0}
  /\ Fixed32 \in 1 .. IntMax /\ Fixed64 \in 1 .. IntMax

Byte == 0 .. (2 * Base - 1)

BAD_WIRE_TYPE             == 1
OUT_OF_DATA               == 2
OUT_OF_MEMORY             == 3
ENCODE_BUFFER_FULL        == 4
BAD_FIELD_NUMBER          == 5
VARINT_OVERFLOW           == 6
SEEK_OVERFLOW             == 7
LENGTH_DELIMITED_OVERFLOW == 8
Errors == 1 .. 8

VARINT           == 0
WIRE_64_BIT      == 1
LENGTH_DELIMITED == 2
WIRE_32_BIT      == 5
=============================================================================
