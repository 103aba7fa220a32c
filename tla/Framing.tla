------------------------------ MODULE Framing ------------------------------
(***************************************************************************)
(* The frames that both kernel modules expect: the size of a message in    *)
(* Header bytes, the highest first, and then the message.  The code has    *)
(* Header = 4 and ByteValues = 256.                                        *)
(***************************************************************************)
EXTENDS CInt, Digits, Sequences

CONSTANTS Header,       \* bytes of the size
          ByteValues,   \* the values of a byte are 0 .. ByteValues - 1
          Beyond        \* the bytes memory may have behind what was received

(* The number that the bytes of a header stand for, and the header of n. *)
ntohl(bytes) == FromDigits([i \in 1 .. Header |-> bytes[Header + 1 - i]], ByteValues, Header)
htonl(n) == [i \in 1 .. Header |-> DigitsOf(n, ByteValues, Header)[Header + 1 - i]]

Bytes == 0 .. ByteValues - 1

(* A header is a uint32_t, twice as many values as an int has not negative
   ones. *)
ASSUME FramingAssumption ==
  /\ Header \in Nat \ {0} /\ ByteValues \in Nat \ {0, 1}
  /\ Power(ByteValues, Header) = 2 * (IntMax + 1)
  /\ Beyond \subseteq Bytes

Frame(message) == htonl(Len(message)) \o message

(* Mutant: a size as large as the buffer passes. *)
extract_message_size_whole_buffer(header, BUFFER_SIZE) ==
  LET size == int(ntohl(header)) IN IF size <= BUFFER_SIZE THEN size ELSE -1

(* Mutant: a message of one byte less than the buffer is too large. *)
extract_message_size_smaller(header, BUFFER_SIZE) ==
  LET size == int(ntohl(header)) IN IF size < BUFFER_SIZE - 1 THEN size ELSE -1

(* The size is kept in an int before it is compared with the buffer. *)
extract_message_size(header, BUFFER_SIZE) ==
  LET size == int(ntohl(header)) IN IF size < BUFFER_SIZE THEN size ELSE -1
=============================================================================
