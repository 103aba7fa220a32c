--------------------------- MODULE CodecProofs ---------------------------
(***************************************************************************)
(* The encoding of a message of any schema, and the decoding of what was   *)
(* encoded, proved. First what every encoder function of the schema        *)
(* appends to the front of a buffer: the reference encoding of its struct, *)
(* or the error of a full buffer. Then, from the readers of fields up to   *)
(* the stack of nested calls, that decoding the encoding goes from record  *)
(* to record and gives back what was sent.                                 *)
(***************************************************************************)
EXTENDS Codec, MessageProofs

-----------------------------------------------------------------------------
(* Encoding: what an encoder writes, from one chunk to a whole message. *)
(* From e to f, c has been written: either f holds it in front of what e held,
   or it has aborted.  Nothing more is written by an aborted encoder, and only
   for a byte does one abort. *)
Appends(e, f, c, b) ==
  /\ f \in EncType(b)
  /\ Full(e) => f = e
  /\ \A a \in Seq(Byte) : Good(e, a, b) => Good(f, c \o a, b)

Writes(e, f, c, b) == Appends(e, f, c, b) /\ (Full(f) => Full(e) \/ c # <<>>)

LEMMA WriteTyped ==
  ASSUME NEW b \in Nat, NEW e \in EncType(b), NEW c \in Seq(Byte)
  PROVE  encoder_write(e, c) \in EncType(b)
<1> DEFINE B == [0 .. b - 1 -> Byte]
           p == e.pos - Len(c)
           f == [i \in 0 .. b - 1 |-> IF i \in p + 1 .. e.pos THEN c[i - p] ELSE e.buf[i]]
           m == -ENCODE_BUFFER_FULL
<1>1. e \in [size : Int, pos : Int, buf : B] /\ Len(c) \in Nat /\ DOMAIN e.buf = 0 .. b - 1
  BY DEF EncType
<1>2. e.pos \in Int /\ e.buf \in B /\ p \in Int
  BY <1>1
<1>3. f \in B
  <2>1. ASSUME NEW i \in 0 .. b - 1, i \in p + 1 .. e.pos PROVE c[i - p] \in Byte
    <3>1. i - p \in 1 .. Len(c)
      BY <1>1, <1>2, <2>1
    <3> QED BY <3>1, ElementOfSeq
  <2> HIDE DEF p
  <2> QED BY <1>2, <2>1
<1>4. Copied(e, c) = [e EXCEPT !.pos = p, !.buf = f]
  BY <1>1 DEF Copied
<1>5. encoder_abort(e, ENCODE_BUFFER_FULL) = IF e.size >= 0 THEN [e EXCEPT !.size = m, !.pos = m] ELSE e
  BY DEF encoder_abort
<1>6. m \in Int
  BY DEF ENCODE_BUFFER_FULL
<1> HIDE DEF B, p, f, m
<1>7. /\ [e EXCEPT !.pos = p, !.buf = f] \in [size : Int, pos : Int, buf : B]
      /\ [e EXCEPT !.size = m, !.pos = m] \in [size : Int, pos : Int, buf : B]
  BY ONLY <1>1, <1>2, <1>3, <1>6
<1> QED BY <1>1, <1>4, <1>5, <1>7 DEF encoder_write, EncType, B

LEMMA WriteAppends ==
  ASSUME NEW b \in Nat, NEW e \in EncType(b), NEW c \in Seq(Byte)
  PROVE  /\ Appends(e, encoder_write(e, c), c, b)
         /\ c # <<>> => Writes(e, encoder_write(e, c), c, b)
<1>1. Full(e) => encoder_write(e, c) = e
  BY FullStays
<1> QED BY <1>1, WriteTyped, WriteOK DEF Appends, Writes

LEMMA NothingWritten ==
  ASSUME NEW b \in Nat, NEW e \in EncType(b)
  PROVE  Writes(e, e, <<>>, b)
<1>1. \A a \in Seq(Byte) : <<>> \o a = a
  BY ConcatEmptySeq
<1> QED BY <1>1 DEF Writes, Appends

(* One after the other. *)
LEMMA AppendsOn ==
  ASSUME NEW b \in Nat, NEW e, NEW f, NEW g, NEW c \in Seq(Byte), NEW d \in Seq(Byte),
         Appends(e, f, c, b), Appends(f, g, d, b)
  PROVE  Appends(e, g, d \o c, b)
<1>1. g \in EncType(b) /\ (Full(e) => g = e)
  BY DEF Appends
<1>2. ASSUME NEW a \in Seq(Byte), Good(e, a, b) PROVE Good(g, (d \o c) \o a, b)
  <2>1. c \o a \in Seq(Byte)
    BY JoinOn
  <2>2. Good(g, d \o (c \o a), b)
    BY <1>2, <2>1 DEF Appends
  <2> QED BY <2>2, ConcatAssoc
<1> QED BY <1>1, <1>2 DEF Appends

LEMMA WritesOn ==
  ASSUME NEW b \in Nat, NEW e, NEW f, NEW g, NEW c \in Seq(Byte), NEW d \in Seq(Byte),
         Writes(e, f, c, b), Writes(f, g, d, b)
  PROVE  Writes(e, g, d \o c, b)
<1>1. Appends(e, g, d \o c, b)
  BY AppendsOn DEF Writes
<1>2. d \o c = <<>> => d = <<>> /\ c = <<>>
  <2>1. Len(d \o c) = Len(d) + Len(c) /\ Len(d) \in Nat /\ Len(c) \in Nat
    BY JoinOn
  <2>2. d \o c = <<>> => Len(d) = 0 /\ Len(c) = 0
    BY <2>1
  <2> QED BY <2>2, EmptySeq
<1> QED BY <1>1, <1>2 DEF Writes

LEMMA VarintAppended ==
  ASSUME NEW b \in Nat, NEW e \in EncType(b), NEW v \in Int
  PROVE  Writes(e, encoder_write_varint(e, v), VarintBytes(v), b)
BY VarintBytesType, WriteAppends DEF encoder_write_varint

LEMMA TagAppended ==
  ASSUME NEW b \in Nat, NEW e \in EncType(b), NEW n \in Nat, NEW wire_type \in Nat
  PROVE  Writes(e, encoder_write_tag(e, n, wire_type), VarintBytes(Tag(n, wire_type)), b)
<1>1. Tag(n, wire_type) \in Int
  BY DEF Tag
<1> QED BY <1>1, VarintAppended DEF encoder_write_tag

LEMMA TaggedAppended ==
  ASSUME NEW b \in Nat, NEW e \in EncType(b), NEW n \in Nat, NEW wire_type \in Nat, NEW v \in Int
  PROVE  Writes(e, encoder_write_tagged_varint_always(e, n, wire_type, v),
                VarintBytes(Tag(n, wire_type)) \o VarintBytes(v), b)
<1> DEFINE f == encoder_write_varint(e, v)
           g == encoder_write_tag(f, n, wire_type)
           c == VarintBytes(v)
           d == VarintBytes(Tag(n, wire_type))
<1>1. Writes(e, f, c, b) /\ f \in EncType(b)
  BY VarintAppended DEF Writes, Appends
<1>2. Writes(f, g, d, b)
  <2> HIDE DEF f
  <2> QED BY <1>1, TagAppended
<1>3. c \in Seq(Byte) /\ d \in Seq(Byte)
  <2>1. Tag(n, wire_type) \in Int
    BY DEF Tag
  <2> QED BY <2>1, VarintBytesType
<1>4. encoder_write_tagged_varint_always(e, n, wire_type, v) = g
  BY DEF encoder_write_tagged_varint_always
<1> HIDE DEF f, g, c, d
<1>5. Writes(e, g, d \o c, b)
  BY <1>1, <1>2, <1>3, WritesOn
<1> QED BY <1>4, <1>5 DEF c, d

(* The length of what was written, taken from the positions before and after. *)
LEMMA LengthAppended ==
  ASSUME NEW b \in Nat, NEW e \in EncType(b), NEW f, NEW c \in Seq(Byte), NEW n \in Nat,
         Appends(e, f, c, b)
  PROVE  Writes(e, encoder_write_length_delimited(f, n, e.pos - f.pos),
                Record(n, LENGTH_DELIMITED, c), b)
<1> DEFINE t == VarintBytes(Tag(n, LENGTH_DELIMITED))
           v == VarintBytes(Len(c))
           w(x) == encoder_write_tagged_varint_always(f, n, LENGTH_DELIMITED, x)
           g == w(e.pos - f.pos)
           r == t \o (v \o c)
<1>1. g = encoder_write_length_delimited(f, n, e.pos - f.pos)
  BY DEF encoder_write_length_delimited
<1>2. Record(n, LENGTH_DELIMITED, c) = r
  BY DEF Record
<1>3. LENGTH_DELIMITED \in Nat /\ Tag(n, LENGTH_DELIMITED) \in Int /\ Len(c) \in Int
  BY DEF LENGTH_DELIMITED, Tag
<1>4. f \in EncType(b) /\ (Full(e) => f = e) /\ e.pos - f.pos \in Int
  BY DEF Appends, EncType
<1>5. t \in Seq(Byte) /\ v \in Seq(Byte) /\ t # <<>>
  BY <1>3, VarintBytesType
<1>6. g \in EncType(b)
  BY <1>3, <1>4, TaggedAppended DEF Writes, Appends
<1>7. Full(f) => g = f
  BY <1>4, FullHeader
<1>8. Appends(f, w(Len(c)), t \o v, b)
  BY <1>3, <1>4, TaggedAppended DEF Writes
<1> HIDE DEF t, v, w
<1>9. r \in Seq(Byte) /\ r # <<>> /\ Len(r) = Len(t) + (Len(v) + Len(c)) /\ r = (t \o v) \o c
  <2>1. v \o c \in Seq(Byte) /\ Len(v \o c) = Len(v) + Len(c)
    BY <1>5, JoinOn
  <2>2. r \in Seq(Byte) /\ Len(r) = Len(t) + Len(v \o c)
    BY <1>5, <2>1, JoinOn
  <2>3. Len(t) > 0 /\ Len(v) \in Nat /\ Len(c) \in Nat
    BY <1>5, EmptySeq
  <2>4. r = (t \o v) \o c
    BY <1>5, ConcatAssoc
  <2>5. Len(r) > 0
    BY <2>1, <2>2, <2>3
  <2> QED BY <2>1, <2>2, <2>4, <2>5
<1>10. ASSUME NEW a \in Seq(Byte), Good(e, a, b) PROVE Good(g, r \o a, b)
  <2>0. Good(f, c \o a, b) /\ c \o a \in Seq(Byte) /\ Len(c \o a) = Len(c) + Len(a) /\ Len(a) \in Nat
    BY <1>10, JoinOn DEF Appends
  <2>1. Len(r \o a) = Len(r) + Len(a) /\ Len(r) >= Len(c)
    <3>1. Len(t) \in Nat /\ Len(v) \in Nat /\ Len(c) \in Nat
      BY <1>5
    <3>2. Len(r \o a) = Len(r) + Len(a)
      BY <1>9, JoinOn
    <3> QED BY <1>9, <3>1, <3>2
  <2>2. CASE Full(f)
    <3>1. g = f
      BY <1>7, <2>2
    <3>2. ~ Alive(f, b)
      BY <2>2 DEF Alive, Full, ENCODE_BUFFER_FULL
    <3>3. Len(c \o a) + 1 > b
      BY <2>0, <3>2 DEF Good
    <3>4. Len(r \o a) + 1 > b
      <4>1. Len(r \o a) \in Int /\ Len(r) \in Int /\ Len(c) \in Int
        BY <1>9, JoinOn
      <4> QED BY <2>0, <2>1, <3>3, <4>1
    <3> QED BY <2>2, <3>1, <3>4 DEF Good
  <2>3. CASE ~ Full(f)
    <3>1. Alive(f, b) /\ EndHolds(f, c \o a, b)
      BY <2>0, <2>3 DEF Good
    <3>2. ~ Full(e)
      BY <1>4, <2>3
    <3>3. Alive(e, b) /\ EndHolds(e, a, b)
      BY <1>10, <3>2 DEF Good
    <3>4. e.pos - f.pos = Len(c)
      <4>1. e.pos \in Int /\ f.pos \in Int /\ Len(c) \in Int
        BY <3>1, <3>3 DEF Alive
      <4> QED BY <2>0, <3>1, <3>3, <4>1 DEF EndHolds
    <3>5. Good(w(Len(c)), (t \o v) \o (c \o a), b)
      BY <1>8, <2>0 DEF Appends
    <3>6. (t \o v) \o (c \o a) = r \o a
      <4>1. t \o v \in Seq(Byte)
        BY <1>5, JoinOn
      <4>2. (t \o v) \o (c \o a) = ((t \o v) \o c) \o a
        BY <4>1, ConcatAssoc
      <4> QED BY <1>9, <4>2
    <3> QED BY <3>4, <3>5, <3>6
  <2> QED BY <2>2, <2>3
<1>11. Full(e) => g = e
  BY <1>4, <1>7
<1> HIDE DEF g, r
<1>12. Writes(e, g, r, b)
  BY <1>6, <1>9, <1>10, <1>11 DEF Writes, Appends
<1> QED BY <1>1, <1>2, <1>12

(* Backwards puts what is written for each value in front of what was written
   for those behind it. *)
LEMMA BackwardsWrites ==
  ASSUME NEW b \in Nat, NEW e \in EncType(b), NEW V, NEW values \in Seq(V), NEW item,
         NEW bytes \in [1 .. Len(values) -> Seq(Byte)],
         \A i \in 1 .. Len(values) : \A acc \in EncType(b) :
           Writes(acc, item[values[i]][acc], bytes[i], b)
  PROVE  Writes(e, Backwards(e, values, item), FlattenSeq(bytes), b)
<1> DEFINE n == Len(values)
           E == EncType(b)
           at(i) == n + 1 - i
           step == [i \in 1 .. n |-> [acc \in E |-> item[values[at(i)]][acc]]]
           Solves(g) == g = [i \in 0 .. n |-> IF i = 0 THEN e
                                              ELSE item[values[n + 1 - i]][g[i - 1]]]
<1>1. n \in Nat /\ \A i \in 1 .. n : at(i) \in 1 .. n
  OBVIOUS
<1>2. \A i \in 1 .. n : \A acc \in E : Writes(acc, item[values[i]][acc], bytes[i], b)
  OBVIOUS
<1> HIDE DEF n
<1>3. step \in [1 .. n -> [E -> E]]
  <2>1. \A i \in 1 .. n : \A acc \in E : item[values[at(i)]][acc] \in E
    BY <1>1, <1>2 DEF Writes, Appends
  <2> HIDE DEF E, at
  <2> QED BY <2>1
<1>4. PICK g \in [0 .. n -> E] : Iterates(g, n, e, step)
  <2> HIDE DEF step, E
  <2>1. e \in E
    BY DEF E
  <2> QED BY <1>1, <1>3, <2>1, Recursion, Zenon
<1>5. \A i \in 0 .. n : i # 0 => step[i][g[i - 1]] = item[values[at(i)]][g[i - 1]]
  <2> HIDE DEF E, at
  <2> QED BY <1>1
<1>6. Solves(g)
  <2> HIDE DEF step
  <2> QED BY <1>4, <1>5 DEF Iterates
<1> DEFINE after == CHOOSE f : Solves(f)
<1>7. Backwards(e, values, item) = after[n]
  BY DEF Backwards, n
<1>8. Solves(after)
  <2> HIDE DEF Solves
  <2> QED BY <1>6
<1> HIDE DEF after
<1>9. bytes \in Seq(Seq(Byte)) /\ Len(bytes) = n
  BY <1>1 DEF n
<1>10. PICK h \in [0 .. Len(bytes) -> Seq(Byte)] :
         /\ h[0] = <<>> /\ FlattenSeq(bytes) = h[Len(bytes)]
         /\ \A i \in 1 .. Len(bytes) : h[i] = h[i - 1] \o bytes[i]
  BY <1>9, FlattenSteps
<1> DEFINE Reached(k) == k <= n => \E c \in Seq(Byte) :
                                      Writes(e, after[k], c, b) /\ h[n - k] \o c = h[n]
           T == {k \in Nat : Reached(k)}
<1>11. Reached(0)
  <2>1. after[0] = e /\ h[n - 0] \o <<>> = h[n]
    <3>1. h[n] \in Seq(Byte) /\ n - 0 = n
      BY <1>1, <1>9
    <3>2. h[n] \o <<>> = h[n]
      BY <3>1, ConcatEmptySeq
    <3> QED BY <1>1, <1>8, <3>1, <3>2
  <2>2. Writes(e, e, <<>>, b) /\ <<>> \in Seq(Byte)
    BY NothingWritten
  <2> QED BY <2>1, <2>2
<1>12. ASSUME NEW k \in Nat, Reached(k) PROVE Reached(k + 1)
  <2> SUFFICES ASSUME k + 1 <= n
               PROVE  \E c \in Seq(Byte) :
                        Writes(e, after[k + 1], c, b) /\ h[n - (k + 1)] \o c = h[n]
    OBVIOUS
  <2>0. k <= n
    BY <1>1
  <2>1. PICK c \in Seq(Byte) : Writes(e, after[k], c, b) /\ h[n - k] \o c = h[n]
    BY <1>12, <2>0
  <2> DEFINE j == n - k  d == bytes[j]  f == after[k]
  <2>2. /\ j \in 1 .. n /\ k + 1 \in 0 .. n /\ k + 1 # 0 /\ (k + 1) - 1 = k
        /\ n + 1 - (k + 1) = j /\ n - (k + 1) = j - 1 /\ j - 1 \in 0 .. n
    BY <1>1
  <2>3. after[k + 1] = item[values[j]][f]
    <3>1. after[k + 1] = item[values[n + 1 - (k + 1)]][after[(k + 1) - 1]]
      BY <1>8, <2>2
    <3> QED BY <2>2, <3>1
  <2>4. f \in E /\ d \in Seq(Byte)
    BY <2>1, <2>2, <1>9 DEF Writes, Appends, n
  <2>5. Writes(f, after[k + 1], d, b)
    <3> HIDE DEF j, d, f
    <3>1. Writes(f, item[values[j]][f], bytes[j], b)
      BY <1>2, <2>2, <2>4
    <3> QED BY <2>3, <3>1 DEF d
  <2>6. h[j] = h[j - 1] \o d /\ h[j - 1] \in Seq(Byte)
    BY <1>9, <1>10, <2>2
  <2>7. Writes(e, after[k + 1], d \o c, b) /\ d \o c \in Seq(Byte)
    <3> HIDE DEF j, d
    <3> QED BY <2>1, <2>4, <2>5, WritesOn, JoinOn
  <2>8. h[j - 1] \o (d \o c) = h[n]
    <3> DEFINE x == h[j - 1]
    <3>1. x \in Seq(Byte) /\ (x \o d) \o c = h[n]
      BY <2>1, <2>6
    <3>2. d \in Seq(Byte)
      BY <2>4
    <3> HIDE DEF x, d
    <3>3. x \o (d \o c) = (x \o d) \o c
      BY <3>1, <3>2, ConcatAssoc
    <3> QED BY <3>1, <3>3 DEF x
  <2> QED BY <2>2, <2>7, <2>8
<1> HIDE DEF Reached
<1>13. 0 \in T /\ \A k \in Nat : k \in T => k + 1 \in T
  BY <1>11, <1>12
<1> HIDE DEF T
<1>14. n \in T
  BY <1>1, <1>13, NatSetInduction
<1>15. PICK c \in Seq(Byte) : Writes(e, after[n], c, b) /\ h[n - n] \o c = h[n]
  <2>1. Reached(n) /\ n <= n
    BY <1>1, <1>14 DEF T
  <2> QED BY <2>1 DEF Reached
<1>16. c = h[n]
  <2>1. n - n = 0
    BY <1>1
  <2>2. h[0] \o c = c
    BY <1>10, ConcatEmptySeq
  <2> QED BY <1>15, <2>1, <2>2
<1> QED BY <1>7, <1>9, <1>10, <1>15, <1>16

(* The types, told apart. *)
LEMMA WireTypesAre ==
  /\ \A type \in VarintTypes : WireTypeOf(type) = VARINT /\ type \notin FixedTypes /\ type \notin PayloadTypes
  /\ \A type \in FixedTypes :
       /\ WireTypeOf(type) = FixedWireType(type) /\ FixedWireType(type) # LENGTH_DELIMITED
       /\ FixedWireType(type) \in Nat /\ type \notin VarintTypes /\ type \notin PayloadTypes
  /\ \A type \in PayloadTypes :
       WireTypeOf(type) = LENGTH_DELIMITED /\ type \notin VarintTypes /\ type \notin FixedTypes
  /\ \A type \in MessageTypes :
       /\ WireTypeOf(type) = LENGTH_DELIMITED
       /\ type \notin VarintTypes /\ type \notin FixedTypes /\ type \notin PayloadTypes
  /\ VARINT \in Nat /\ LENGTH_DELIMITED \in Nat /\ VARINT # LENGTH_DELIMITED
<1>1. VARINT \in Nat /\ LENGTH_DELIMITED \in Nat /\ VARINT # LENGTH_DELIMITED
      /\ WIRE_32_BIT \in Nat /\ WIRE_64_BIT \in Nat
      /\ WIRE_32_BIT # LENGTH_DELIMITED /\ WIRE_64_BIT # LENGTH_DELIMITED
  BY DEF VARINT, LENGTH_DELIMITED, WIRE_32_BIT, WIRE_64_BIT
<1>2. \A type \in VarintTypes : type \notin FixedTypes /\ type \notin PayloadTypes
  BY DEF VarintTypes, Varint32Types, FixedTypes, Fixed32Types, PayloadTypes
<1>3. \A type \in FixedTypes : type \notin VarintTypes /\ type \notin PayloadTypes
  BY <1>2 DEF FixedTypes, Fixed32Types, PayloadTypes
<1>4. \A type \in PayloadTypes : type \notin VarintTypes /\ type \notin FixedTypes
  BY <1>2, <1>3
<1>5. \A type \in MessageTypes : type \notin VarintTypes /\ type \notin FixedTypes /\ type \notin PayloadTypes
  BY MessageAssumption DEF LeafTypes
<1>6. Fixed32Types \subseteq FixedTypes
  BY DEF FixedTypes
<1>7. \A type : type \in Fixed32Types => type \in FixedTypes /\ type \notin FixedTypes \ Fixed32Types
  BY <1>6
<1>8. \A type \in VarintTypes : WireTypeOf(type) = VARINT
  BY <1>2, <1>6 DEF WireTypeOf
<1>9. \A type \in FixedTypes : WireTypeOf(type) = FixedWireType(type)
  BY <1>3, <1>7 DEF WireTypeOf, FixedWireType
<1>10. \A type : type \notin VarintTypes /\ type \notin FixedTypes => WireTypeOf(type) = LENGTH_DELIMITED
  BY <1>6 DEF WireTypeOf
<1>11. \A type : FixedWireType(type) \in Nat /\ FixedWireType(type) # LENGTH_DELIMITED
  BY <1>1 DEF FixedWireType
<1> QED BY <1>1, <1>2, <1>3, <1>4, <1>5, <1>8, <1>9, <1>10, <1>11

LEMMA HeldNumbers == \A type : Holds(type) \subseteq Int
<1> TAKE type
<1>1. Range32 \subseteq Int /\ Range64 \subseteq Int /\ {0, 1} \subseteq Int /\ \A a, c : a .. c \subseteq Int
  BY DEF Range32, Range64
<1> QED BY <1>1 DEF Holds

LEMMA ItemsAreOf ==
  /\ \A type \in MessageTypes : ItemsOf(type) = Sources[type]
  /\ \A type \in PayloadTypes : ItemsOf(type) = Seq(Byte)
  /\ \A type \in VarintTypes \cup FixedTypes : ItemsOf(type) \subseteq Int
<1>1. \A type \in LeafTypes : type \notin MessageTypes
  BY MessageAssumption
<1>2. VarintTypes \cup FixedTypes \subseteq LeafTypes /\ PayloadTypes \subseteq LeafTypes
  BY DEF LeafTypes
<1>3. \A type \in VarintTypes \cup FixedTypes : type \notin PayloadTypes
  BY WireTypesAre
<1> QED BY <1>1, <1>2, <1>3, HeldNumbers DEF ItemsOf

LEMMA WordPositive == Word \in Nat \ {0} /\ Uint32 \in Nat \ {0}
BY WireAssumption, IntAssumption DEF Uint32

LEMMA ZigzagInt ==
  ASSUME NEW V \in Nat \ {0}, NEW value \in Int
  PROVE  zigzag(value, V) \in Int
<1> DEFINE low == value % V
           shifted == (2 * low) % V
<1>1. low \in Int
  OBVIOUS
<1>2. 2 * low \in Int
  BY <1>1
<1>3. shifted \in Int
  <2> HIDE DEF low
  <2> QED BY <1>2
<1> HIDE DEF shifted
<1>4. V - 1 - shifted \in Int
  BY <1>3
<1> QED BY <1>3, <1>4 DEF zigzag, Complement, shifted

LEMMA ToVarintInt ==
  ASSUME NEW type \in VarintTypes, NEW value \in Int
  PROVE  ToVarint(type, value) \in Int /\ ItemToVarint(type, value) \in Int
<1>1. value % Word \in Int
  BY WordPositive
<1>2. sint64_encode(value) \in Int /\ sint32_encode(value) \in Int
  BY WordPositive, ZigzagInt DEF sint64_encode, sint32_encode
<1>3. \/ type \in {"int32", "int64", "bool", "enum"} \/ type \in {"uint32", "uint64"}
      \/ type \in {"sint32", "sint64"}
  BY DEF VarintTypes, Varint32Types
<1>4. ToVarint(type, value) \in Int
  BY <1>1, <1>2, <1>3 DEF ToVarint
<1> QED BY <1>2, <1>4 DEF ItemToVarint

LEMMA FixedOfType ==
  ASSUME NEW type \in FixedTypes, NEW value \in Int
  PROVE  FixedOf(type, value) \in Seq(Byte) /\ Len(FixedOf(type, value)) = Width(type)
         /\ FixedOf(type, value) # <<>>
<1>1. Width(type) \in Nat \ {0} /\ 2 * Base \in Nat \ {0} /\ Byte = 0 .. 2 * Base - 1
  BY WireAssumption DEF Width, Byte
<1>2. PICK power \in [0 .. Width(type) -> Nat \ {0}] : FixedValues(type) = power[Width(type)]
  BY <1>1, PowerIs DEF FixedValues
<1>3. FixedValues(type) \in Nat \ {0}
  BY <1>1, <1>2
<1>4. ToFixed(type, value) \in Int
  BY <1>3 DEF ToFixed
<1> DEFINE w == Width(type)  d == 2 * Base  v == ToFixed(type, value)
<1>5. FixedOf(type, value) = DigitsOf(v, d, w)
  BY DEF FixedOf
<1> HIDE DEF w, d, v
<1>6. DigitsOf(v, d, w) \in [1 .. w -> 0 .. d - 1]
  BY <1>1, <1>4, DigitsType DEF w, d, v
<1>7. FixedOf(type, value) \in [1 .. w -> Byte] /\ w \in Nat \ {0}
  BY <1>1, <1>5, <1>6 DEF w, d
<1>8. FixedOf(type, value) \in Seq(Byte) /\ Len(FixedOf(type, value)) = w
  BY <1>7
<1>9. FixedOf(type, value) # <<>>
  BY <1>7, <1>8
<1> QED BY <1>8, <1>9 DEF w

LEMMA PayloadType ==
  ASSUME NEW type \in PayloadTypes, NEW value \in Seq(Byte)
  PROVE  Payload(type, value) \in Seq(Byte)
<1> DEFINE nuls == {i \in DOMAIN value : value[i] = 0}
<1>1. ASSUME nuls # {} PROVE SubSeq(value, 1, Min(nuls) - 1) \in Seq(Byte)
  <2>1. nuls \in SUBSET Nat /\ DOMAIN value = 1 .. Len(value)
    OBVIOUS
  <2>2. Min(nuls) \in nuls
    <3> HIDE DEF nuls
    <3> QED BY <1>1, <2>1, MinExists
  <2>3. Min(nuls) - 1 \in 0 .. Len(value) /\ Len(value) \in Nat
    BY <2>1, <2>2
  <2> DEFINE k == Min(nuls) - 1
  <2> HIDE DEF k
  <2>4. SubSeq(value, 1, k) \in Seq(Byte)
    <3>1. k \in 0 .. Len(value)
      BY <2>3 DEF k
    <3> QED BY <2>3, <3>1
  <2> QED BY <2>4 DEF k
<1> QED BY <1>1 DEF Payload, CString

LEMMA ValueType ==
  ASSUME NEW type \in LeafTypes, NEW value \in ItemsOf(type)
  PROVE  ValueBytes(type, value) \in Seq(Byte)
<1>1. CASE type \in VarintTypes
  BY <1>1, ItemsAreOf, ToVarintInt, VarintBytesType DEF ValueBytes
<1>2. CASE type \in FixedTypes
  BY <1>2, ItemsAreOf, FixedOfType, WireTypesAre DEF ValueBytes
<1>3. CASE type \in PayloadTypes
  BY <1>3, ItemsAreOf, PayloadType, WireTypesAre DEF ValueBytes
<1> QED BY <1>1, <1>2, <1>3 DEF LeafTypes

LEMMA RecordType ==
  ASSUME NEW n \in Nat, NEW wire_type \in Nat, NEW body \in Seq(Byte)
  PROVE  Record(n, wire_type, body) \in Seq(Byte)
<1>1. Tag(n, wire_type) \in Int /\ Len(body) \in Int
  BY DEF Tag
<1>2. VarintBytes(Tag(n, wire_type)) \in Seq(Byte) /\ VarintBytes(Len(body)) \in Seq(Byte)
  BY <1>1, VarintBytesType
<1>3. VarintBytes(Len(body)) \o body \in Seq(Byte)
  BY <1>2, JoinOn
<1> QED BY <1>2, <1>3, JoinOn DEF Record

(* A value and the header in front of it. *)
LEMMA AlwaysAppended ==
  ASSUME NEW b \in Nat, NEW e \in EncType(b), NEW type \in LeafTypes, NEW n \in Nat,
         NEW value \in ItemsOf(type)
  PROVE  Writes(e, WriteAlways(e, type, n, value),
                Record(n, WireTypeOf(type), ValueBytes(type, value)), b)
<1>1. CASE type \in VarintTypes
  <2>1. ToVarint(type, value) \in Int
    BY <1>1, ItemsAreOf, ToVarintInt
  <2>2. WireTypeOf(type) = VARINT /\ VARINT \in Nat /\ VARINT # LENGTH_DELIMITED
    BY <1>1, WireTypesAre
  <2>3. Record(n, VARINT, ValueBytes(type, value))
          = VarintBytes(Tag(n, VARINT)) \o VarintBytes(ToVarint(type, value))
    BY <1>1, <2>2 DEF Record, ValueBytes
  <2>4. WriteAlways(e, type, n, value)
          = encoder_write_tagged_varint_always(e, n, VARINT, ToVarint(type, value))
    BY <1>1, WireTypesAre DEF WriteAlways
  <2> QED BY <2>1, <2>2, <2>3, <2>4, TaggedAppended
<1>2. CASE type \in FixedTypes
  <2> DEFINE c == FixedOf(type, value)  w == FixedWireType(type)
             f == encoder_write(e, c)  d == VarintBytes(Tag(n, w))
  <2>1. c \in Seq(Byte) /\ c # <<>>
    BY <1>2, ItemsAreOf, FixedOfType
  <2>2. WireTypeOf(type) = w /\ w \in Nat /\ w # LENGTH_DELIMITED
    BY <1>2, WireTypesAre
  <2>3. Record(n, w, ValueBytes(type, value)) = d \o c
    BY <1>2, <2>2, WireTypesAre DEF Record, ValueBytes
  <2>4. WriteAlways(e, type, n, value) = encoder_write_tag(f, n, w)
    BY <1>2, WireTypesAre DEF WriteAlways
  <2>5. d \in Seq(Byte)
    <3>1. Tag(n, w) \in Int
      BY <2>2 DEF Tag
    <3> QED BY <3>1, VarintBytesType
  <2>6. Writes(e, f, c, b)
    BY <2>1, WriteAppends
  <2>7. f \in EncType(b)
    BY <2>6 DEF Writes, Appends
  <2> HIDE DEF c, w, f
  <2>8. Writes(f, encoder_write_tag(f, n, w), d, b)
    BY <2>2, <2>7, TagAppended
  <2> HIDE DEF d
  <2>9. Writes(e, encoder_write_tag(f, n, w), d \o c, b)
    BY <2>1, <2>5, <2>6, <2>8, WritesOn
  <2> QED BY <2>2, <2>3, <2>4, <2>9
<1>3. CASE type \in PayloadTypes
  <2> DEFINE c == Payload(type, value)  f == encoder_write(e, c)
             g == encoder_write_length_delimited(f, n, Len(c))
             d == VarintBytes(Tag(n, LENGTH_DELIMITED)) \o VarintBytes(Len(c))
  <2>1. c \in Seq(Byte)
    BY <1>3, ItemsAreOf, PayloadType
  <2>2. Len(c) \in Int /\ Tag(n, LENGTH_DELIMITED) \in Int /\ LENGTH_DELIMITED \in Nat
    BY <2>1 DEF LENGTH_DELIMITED, Tag
  <2>3. WireTypeOf(type) = LENGTH_DELIMITED /\ ValueBytes(type, value) = c
    BY <1>3, WireTypesAre DEF ValueBytes
  <2>4. WriteAlways(e, type, n, value) = g
    BY <1>3, WireTypesAre DEF WriteAlways
  <2>5. VarintBytes(Tag(n, LENGTH_DELIMITED)) \in Seq(Byte) /\ VarintBytes(Len(c)) \in Seq(Byte)
        /\ VarintBytes(Len(c)) # <<>>
    BY <2>2, VarintBytesType
  <2>6. d \in Seq(Byte) /\ d # <<>> /\ d \o c # <<>>
    <3> DEFINE t == VarintBytes(Tag(n, LENGTH_DELIMITED))  v == VarintBytes(Len(c))
    <3>1. t \in Seq(Byte) /\ v \in Seq(Byte) /\ v # <<>>
      BY <2>5
    <3> HIDE DEF t, v
    <3>2. t \o v \in Seq(Byte) /\ Len(t \o v) = Len(t) + Len(v) /\ Len(t) \in Nat /\ Len(v) > 0
      BY <3>1, JoinOn, EmptySeq
    <3>3. t \o v # <<>>
      BY <3>2
    <3>4. d = t \o v
      BY DEF t, v
    <3> HIDE DEF d, c
    <3>5. Len(d \o c) = Len(d) + Len(c) /\ Len(c) \in Nat /\ Len(d) > 0
      BY <2>1, <3>2, <3>4, JoinOn
    <3>6. d \o c # <<>>
      BY <3>5
    <3> QED BY <3>2, <3>3, <3>4, <3>6
  <2>7. Record(n, LENGTH_DELIMITED, c) = d \o c
    <3>1. Record(n, LENGTH_DELIMITED, c)
            = VarintBytes(Tag(n, LENGTH_DELIMITED)) \o (VarintBytes(Len(c)) \o c)
      BY DEF Record
    <3> HIDE DEF c
    <3>2. VarintBytes(Tag(n, LENGTH_DELIMITED)) \o (VarintBytes(Len(c)) \o c) = d \o c
      BY <2>1, <2>5, ConcatAssoc
    <3> QED BY <3>1, <3>2
  <2>8. Appends(e, f, c, b)
    BY <2>1, WriteAppends
  <2>9. f \in EncType(b)
    BY <2>8 DEF Appends
  <2>10. Writes(f, g, d, b)
    <3> HIDE DEF c, f
    <3> QED BY <2>2, <2>9, TaggedAppended DEF encoder_write_length_delimited
  <2> HIDE DEF c, f, g, d
  <2>11. Appends(e, g, d \o c, b)
    BY <2>1, <2>6, <2>8, <2>10, AppendsOn DEF Writes
  <2> QED BY <2>3, <2>4, <2>6, <2>7, <2>11 DEF Writes
<1> QED BY <1>1, <1>2, <1>3 DEF LeafTypes

LEMMA ItemAppended ==
  ASSUME NEW b \in Nat, NEW e \in EncType(b), NEW type \in VarintTypes \cup FixedTypes,
         NEW value \in ItemsOf(type)
  PROVE  /\ Writes(e, WriteItem(e, type, value), ItemBytes(type, value), b)
         /\ ItemBytes(type, value) \in Seq(Byte) /\ ItemBytes(type, value) # <<>>
<1>1. value \in Int
  BY ItemsAreOf
<1>2. CASE type \in VarintTypes
  <2>1. ItemToVarint(type, value) \in Int
    BY <1>1, <1>2, ToVarintInt
  <2> QED BY <1>2, <2>1, VarintAppended, VarintBytesType DEF WriteItem, ItemBytes
<1>3. CASE type \in FixedTypes
  <2>1. FixedOf(type, value) \in Seq(Byte) /\ FixedOf(type, value) # <<>> /\ type \notin VarintTypes
    BY <1>1, <1>3, FixedOfType, WireTypesAre
  <2> QED BY <2>1, WriteAppends DEF WriteItem, ItemBytes
<1> QED BY <1>2, <1>3

LEMMA EncodersOf ==
  ASSUME NEW b \in Nat, NEW e \in EncType(b)
  PROVE  Encoders(e.buf) = EncType(b)
BY DEF Encoders, EncType

(* A packed field: its header is left out only when nothing was written. *)
LEMMA PackedAppended ==
  ASSUME NEW b \in Nat, NEW e \in EncType(b), NEW type \in VarintTypes \cup FixedTypes,
         NEW n \in Nat, NEW values \in Seq(ItemsOf(type)), values # <<>>
  PROVE  LET body == FlattenSeq([i \in DOMAIN values |-> ItemBytes(type, values[i])])
         IN  /\ body \in Seq(Byte)
             /\ Writes(e, WritePacked(e, type, n, values), Record(n, LENGTH_DELIMITED, body), b)
<1> DEFINE bytes == [i \in 1 .. Len(values) |-> ItemBytes(type, values[i])]
           body == FlattenSeq(bytes)
           item == [v \in Range(values) |-> [acc \in Encoders(e.buf) |-> WriteItem(acc, type, v)]]
           f == Backwards(e, values, item)
           r == Record(n, LENGTH_DELIMITED, body)
           d == e.pos - f.pos
           g == encoder_write_length_delimited(f, n, d)
           w == WritePacked(e, type, n, values)
<1>1. \A i \in 1 .. Len(values) : values[i] \in ItemsOf(type) /\ values[i] \in Range(values)
  BY DEF Range
<1>2. bytes \in [1 .. Len(values) -> Seq(Byte)] /\ \A i \in 1 .. Len(values) : bytes[i] # <<>>
  BY <1>1, ItemAppended
<1>3. ASSUME NEW i \in 1 .. Len(values), NEW acc \in EncType(b)
      PROVE  Writes(acc, item[values[i]][acc], bytes[i], b)
  <2>1. item[values[i]][acc] = WriteItem(acc, type, values[i])
    BY <1>1, EncodersOf
  <2> QED BY <1>1, <2>1, ItemAppended
<1>4. bytes \in Seq(Seq(Byte)) /\ bytes # <<>> /\ Len(bytes) = Len(values)
  <2>1. Len(values) \in Nat /\ Len(values) > 0
    BY EmptySeq
  <2> HIDE DEF bytes
  <2> QED BY <1>2, <2>1
<1>5. w = encoder_write_tagged_varint(f, n, LENGTH_DELIMITED, d)
  BY DEF WritePacked
<1>6. w = IF d > 0 THEN g ELSE f
  BY <1>5 DEF encoder_write_tagged_varint, encoder_write_length_delimited
<1>7. FlattenSeq([i \in DOMAIN values |-> ItemBytes(type, values[i])]) = body
  OBVIOUS
<1> HIDE DEF item
<1>8. Writes(e, f, body, b)
  <2> HIDE DEF bytes
  <2> QED BY <1>2, <1>3, BackwardsWrites
<1> HIDE DEF bytes
<1>9. body \in Seq(Byte) /\ body # <<>>
  BY <1>2, <1>4, FlattenPlaces, FlattenSome
<1> HIDE DEF body, f, w
<1>10. Writes(e, g, r, b)
  BY <1>8, <1>9, LengthAppended DEF Writes
<1>11. r # <<>> /\ r \in Seq(Byte)
  <2>1. LENGTH_DELIMITED \in Nat
    BY WireTypesAre
  <2>2. r \in Seq(Byte)
    BY <1>9, <2>1, RecordType
  <2>3. Tag(n, LENGTH_DELIMITED) \in Int /\ Len(body) \in Int
    BY <1>9, <2>1 DEF Tag
  <2> DEFINE t == VarintBytes(Tag(n, LENGTH_DELIMITED))  v == VarintBytes(Len(body))
  <2>4. t \in Seq(Byte) /\ v \in Seq(Byte) /\ t # <<>>
    BY <2>3, VarintBytesType
  <2>5. r = t \o (v \o body)
    BY DEF Record
  <2> HIDE DEF t, v, r
  <2>6. v \o body \in Seq(Byte)
    BY <1>9, <2>4, JoinOn
  <2>7. Len(r) = Len(t) + Len(v \o body) /\ Len(t) > 0 /\ Len(v \o body) \in Nat
    BY <2>4, <2>5, <2>6, JoinOn, EmptySeq
  <2>8. Len(r) > 0
    BY <2>7
  <2> QED BY <2>2, <2>8
<1> HIDE DEF g, r
<1>12. ASSUME ~ (d > 0) PROVE Writes(e, f, r, b)
  <2>1. f \in EncType(b) /\ (Full(e) => f = e)
    BY <1>8 DEF Writes, Appends
  <2>2. ASSUME NEW a \in Seq(Byte), Good(e, a, b) PROVE Good(f, r \o a, b)
    <3>0. Good(f, body \o a, b) /\ Len(body \o a) = Len(body) + Len(a) /\ Len(body) > 0
          /\ Len(a) \in Nat /\ Len(body) \in Nat
      BY <1>8, <1>9, <2>2, JoinOn, EmptySeq DEF Writes, Appends
    <3>1. CASE Full(e)
      <4>1. ~ Alive(e, b)
        BY <3>1 DEF Alive, Full, ENCODE_BUFFER_FULL
      <4>2. Len(a) + 1 > b
        BY <2>2, <4>1 DEF Good
      <4>3. Len(r \o a) = Len(r) + Len(a) /\ Len(r) \in Nat
        BY <1>11, JoinOn
      <4>4. Len(r \o a) + 1 > b
        BY <3>0, <4>2, <4>3
      <4> QED BY <2>1, <3>1, <4>4 DEF Good
    <3>2. CASE ~ Full(e)
      <4>1. Alive(e, b) /\ EndHolds(e, a, b)
        BY <2>2, <3>2 DEF Good
      <4>2. e.pos \in Int /\ e.pos >= -1 /\ Len(a) = b - 1 - e.pos
        BY <4>1 DEF Alive, EndHolds
      <4>3. CASE Full(f)
        <5>1. d = e.pos + 4
          BY <4>2, <4>3 DEF Full, ENCODE_BUFFER_FULL
        <5> HIDE DEF d
        <5> QED BY <1>12, <4>2, <5>1
      <4>4. CASE ~ Full(f)
        <5>1. Alive(f, b) /\ EndHolds(f, body \o a, b)
          BY <3>0, <4>4 DEF Good
        <5>2. f.pos \in Int /\ Len(body \o a) = b - 1 - f.pos
          BY <5>1 DEF Alive, EndHolds
        <5>3. d > 0
          BY <3>0, <4>2, <5>2
        <5> QED BY <1>12, <5>3
      <4> QED BY <4>3, <4>4
    <3> QED BY <3>1, <3>2
  <2> QED BY <1>11, <2>1, <2>2 DEF Writes, Appends
<1>13. Writes(e, w, r, b)
  BY <1>6, <1>10, <1>12
<1> QED BY <1>7, <1>9, <1>13 DEF w, r

(* inner writes bytes for every struct. *)
InnerWrites(inner, bytes, b) ==
  /\ bytes \in [Structs -> Seq(Byte)]
  /\ \A x \in Structs : \A e \in EncType(b) : Writes(e, inner[x][e], bytes[x], b)

(* What a field of a struct may hold. *)
FieldHolds(t, n, values) ==
  /\ values \in Seq(ItemsOf(TypeOf(t, n)))
  /\ LabelOf(t, n) # "repeated" => Len(values) <= 1
  /\ LabelOf(t, n) = "single" /\ TypeOf(t, n) \in LeafTypes => Len(values) = 1

(* The records of all values, one after the other. *)
RecordsAppended(e, f, records, b) ==
  records \in Seq(Seq(Byte)) /\ Writes(e, f, FlattenSeq(records), b)

LEMMA MessagesAppended ==
  ASSUME NEW b \in Nat, NEW e \in EncType(b), NEW t \in MessageTypes, NEW n \in FieldsOf(t),
         NEW values, FieldHolds(t, n, values), NEW inner, NEW bytes, InnerWrites(inner, bytes, b),
         TypeOf(t, n) \in MessageTypes
  PROVE  RecordsAppended(e, WriteField(e, t, n, values, inner), RecordsOf(t, n, values, bytes), b)
<1> DEFINE type == TypeOf(t, n)
           item == [v \in Range(values) |->
                      [acc \in Encoders(e.buf) |-> EndSubMessage(acc, inner[<<type, v>>][acc], n)]]
           records == [i \in 1 .. Len(values) |-> Record(n, LENGTH_DELIMITED, bytes[<<type, values[i]>>])]
<1>1. n \in Nat /\ type \in MessageTypes /\ LENGTH_DELIMITED \in Nat
  BY MessageAssumption, WireTypesAre
<1>2. values \in Seq(Sources[type])
  BY <1>1, ItemsAreOf DEF FieldHolds
<1>3. \A i \in 1 .. Len(values) :
        values[i] \in Range(values) /\ <<type, values[i]>> \in Structs
        /\ bytes[<<type, values[i]>>] \in Seq(Byte)
  <2> TAKE i \in 1 .. Len(values)
  <2>1. values[i] \in Sources[type] /\ values[i] \in Range(values)
    BY <1>2 DEF Range
  <2>2. <<type, values[i]>> \in Structs
    BY <1>1, <2>1 DEF Structs
  <2> QED BY <2>1, <2>2 DEF InnerWrites
<1>4. RecordsOf(t, n, values, bytes) = records
  <2>1. WireTypeOf(type) = LENGTH_DELIMITED /\ DOMAIN values = 1 .. Len(values)
    BY <1>1, <1>2, WireTypesAre
  <2> QED BY <1>1, <2>1 DEF RecordsOf
<1>5. WriteField(e, t, n, values, inner) = Backwards(e, values, item)
  BY <1>1 DEF WriteField, WriteMessages
<1> HIDE DEF type
<1>6. records \in [1 .. Len(values) -> Seq(Byte)]
  BY <1>1, <1>3, RecordType
<1>7. ASSUME NEW i \in 1 .. Len(values), NEW acc \in EncType(b)
      PROVE  Writes(acc, item[values[i]][acc], records[i], b)
  <2> DEFINE x == <<type, values[i]>>  f == inner[x][acc]
  <2>1. item[values[i]][acc] = EndSubMessage(acc, f, n)
    BY <1>3, EncodersOf
  <2>2. Writes(acc, f, bytes[x], b) /\ bytes[x] \in Seq(Byte)
    BY <1>3 DEF InnerWrites
  <2>3. records[i] = Record(n, LENGTH_DELIMITED, bytes[x])
    OBVIOUS
  <2> HIDE DEF f, x, item, records
  <2>4. Writes(acc, EndSubMessage(acc, f, n), Record(n, LENGTH_DELIMITED, bytes[x]), b)
    BY <1>1, <2>2, LengthAppended DEF EndSubMessage, Writes
  <2> QED BY <2>1, <2>3, <2>4
<1> HIDE DEF item, records
<1>8. Writes(e, Backwards(e, values, item), FlattenSeq(records), b)
  BY <1>2, <1>6, <1>7, BackwardsWrites
<1>9. records \in Seq(Seq(Byte))
  BY <1>2, <1>6
<1> QED BY <1>4, <1>5, <1>8, <1>9 DEF RecordsAppended

LEMMA RepeatedAppended ==
  ASSUME NEW b \in Nat, NEW e \in EncType(b), NEW t \in MessageTypes, NEW n \in FieldsOf(t),
         NEW values, FieldHolds(t, n, values), NEW inner, NEW bytes,
         TypeOf(t, n) \in LeafTypes, LabelOf(t, n) = "repeated"
  PROVE  RecordsAppended(e, WriteField(e, t, n, values, inner), RecordsOf(t, n, values, bytes), b)
<1> DEFINE type == TypeOf(t, n)
           item == [v \in Range(values) |-> [acc \in Encoders(e.buf) |-> WriteAlways(acc, type, n, v)]]
           records == [i \in 1 .. Len(values) |-> Record(n, WireTypeOf(type), ValueBytes(type, values[i]))]
           body == FlattenSeq([i \in DOMAIN values |-> ItemBytes(type, values[i])])
<1>1. n \in Nat /\ type \in LeafTypes /\ type \notin MessageTypes /\ LENGTH_DELIMITED \in Nat
  BY MessageAssumption, WireTypesAre
<1>2. values \in Seq(ItemsOf(type)) /\ DOMAIN values = 1 .. Len(values)
      /\ \A i \in 1 .. Len(values) : values[i] \in ItemsOf(type) /\ values[i] \in Range(values)
  <2>1. values \in Seq(ItemsOf(type))
    BY DEF FieldHolds
  <2> QED BY <2>1 DEF Range
<1>3. WriteField(e, t, n, values, inner) = WriteRepeated(e, type, n, values)
  BY <1>1 DEF WriteField
<1>4. ~ IsDefault(t, n, values[1])
  BY DEF IsDefault
<1>5. CASE type \in PayloadTypes
  <2>1. RecordsOf(t, n, values, bytes) = records
    BY <1>1, <1>2, <1>4, <1>5 DEF RecordsOf
  <2>2. WriteRepeated(e, type, n, values) = Backwards(e, values, item)
    BY <1>5 DEF WriteRepeated
  <2> HIDE DEF type
  <2>3. records \in [1 .. Len(values) -> Seq(Byte)]
    <3>1. WireTypeOf(type) \in Nat
      BY <1>1, <1>5, WireTypesAre
    <3> QED BY <1>1, <1>2, <3>1, ValueType, RecordType
  <2>4. ASSUME NEW i \in 1 .. Len(values), NEW acc \in EncType(b)
        PROVE  Writes(acc, item[values[i]][acc], records[i], b)
    <3>1. item[values[i]][acc] = WriteAlways(acc, type, n, values[i])
      BY <1>2, EncodersOf
    <3> QED BY <1>1, <1>2, <3>1, AlwaysAppended
  <2> HIDE DEF item, records
  <2>5. Writes(e, Backwards(e, values, item), FlattenSeq(records), b)
    BY <1>2, <2>3, <2>4, BackwardsWrites
  <2>6. records \in Seq(Seq(Byte))
    BY <1>2, <2>3
  <2> QED BY <1>3, <2>1, <2>2, <2>5, <2>6 DEF RecordsAppended
<1>6. CASE type \notin PayloadTypes
  <2>1. type \in VarintTypes \cup FixedTypes
    BY <1>1, <1>6 DEF LeafTypes
  <2>2. WriteRepeated(e, type, n, values) = WritePacked(e, type, n, values)
    BY <1>6 DEF WriteRepeated
  <2>3. CASE values = <<>>
    <3>1. RecordsOf(t, n, values, bytes) = <<>>
      BY <1>1, <1>6, <2>3 DEF RecordsOf
    <3>2. WritePacked(e, type, n, values) = e
      BY <2>3 DEF WritePacked
    <3>3. <<>> \in Seq(Seq(Byte))
      OBVIOUS
    <3> QED BY <1>3, <2>2, <3>1, <3>2, <3>3, FlattenNone, NothingWritten DEF RecordsAppended
  <2>4. CASE values # <<>>
    <3> DEFINE r == Record(n, LENGTH_DELIMITED, body)
    <3>1. RecordsOf(t, n, values, bytes) = <<r>>
      BY <1>1, <1>6, <2>4 DEF RecordsOf
    <3> HIDE DEF type
    <3>2. body \in Seq(Byte) /\ Writes(e, WritePacked(e, type, n, values), r, b)
      BY <1>1, <1>2, <2>1, <2>4, PackedAppended
    <3> HIDE DEF body
    <3>3. r \in Seq(Byte)
      BY <1>1, <3>2, RecordType
    <3> HIDE DEF r
    <3>4. <<r>> \in Seq(Seq(Byte)) /\ FlattenSeq(<<r>>) = r
      BY <3>3, FlattenFew
    <3> QED BY <1>3, <2>2, <3>1, <3>2, <3>4 DEF RecordsAppended
  <2> QED BY <2>3, <2>4
<1> QED BY <1>5, <1>6

LEMMA OneAppended ==
  ASSUME NEW b \in Nat, NEW e \in EncType(b), NEW t \in MessageTypes, NEW n \in FieldsOf(t),
         NEW values, FieldHolds(t, n, values), NEW inner, NEW bytes,
         TypeOf(t, n) \in LeafTypes, LabelOf(t, n) # "repeated"
  PROVE  RecordsAppended(e, WriteField(e, t, n, values, inner), RecordsOf(t, n, values, bytes), b)
<1> DEFINE type == TypeOf(t, n)
           r == Record(n, WireTypeOf(type), ValueBytes(type, values[1]))
           f == WriteAlways(e, type, n, values[1])
<1>1. n \in Nat /\ type \in LeafTypes /\ type \notin MessageTypes
  BY MessageAssumption
<1>2. values \in Seq(ItemsOf(type)) /\ Len(values) <= 1 /\ (LabelOf(t, n) = "single" => Len(values) = 1)
  BY <1>1 DEF FieldHolds
<1>3. <<>> \in Seq(Seq(Byte))
  OBVIOUS
<1>4. CASE values = <<>>
  <2>1. LabelOf(t, n) # "single"
    BY <1>2, <1>4
  <2>2. WriteField(e, t, n, values, inner) = e
    BY <1>1, <1>4, <2>1 DEF WriteField
  <2>3. RecordsOf(t, n, values, bytes) = <<>>
    BY <1>1, <1>4 DEF RecordsOf
  <2> QED BY <1>3, <2>2, <2>3, FlattenNone, NothingWritten DEF RecordsAppended
<1>5. CASE values # <<>>
  <2>1. Len(values) = 1 /\ values[1] \in ItemsOf(type) /\ DOMAIN values = 1 .. 1
    <3>1. Len(values) = 1
      <4>1. values \in Seq(ItemsOf(type)) /\ Len(values) <= 1
        BY <1>2
      <4>2. Len(values) \in Nat /\ Len(values) # 0
        <5> HIDE DEF type
        <5> QED BY <4>1, <1>5, EmptySeq
      <4> DEFINE l == Len(values)
      <4>3. l \in Nat /\ l # 0 /\ l <= 1
        BY <4>1, <4>2
      <4> HIDE DEF l
      <4>4. l = 1
        BY ONLY <4>3
      <4> QED BY <4>4 DEF l
    <3>2. 1 \in 1 .. Len(values) /\ DOMAIN values = 1 .. Len(values)
      BY <1>2, <3>1
    <3>3. values[1] \in ItemsOf(type)
      <4> HIDE DEF type
      <4> QED BY <1>2, <3>2, ElementOfSeq
    <3> QED BY <3>1, <3>2, <3>3
  <2>2. Writes(e, f, r, b)
    <3> HIDE DEF type
    <3> QED BY <1>1, <2>1, AlwaysAppended
  <2>3. r \in Seq(Byte)
    <3>1. WireTypeOf(type) \in Nat
      <4>1. \A ty \in LeafTypes : WireTypeOf(ty) \in Nat
        BY WireTypesAre DEF LeafTypes
      <4> QED BY <1>1, <4>1
    <3> HIDE DEF type
    <3> QED BY <1>1, <2>1, <3>1, ValueType, RecordType
  <2>4. RecordsAppended(e, f, <<r>>, b)
    <3> HIDE DEF f, r
    <3>1. <<r>> \in Seq(Seq(Byte)) /\ FlattenSeq(<<r>>) = r
      BY <2>3, FlattenFew
    <3> QED BY <2>2, <3>1 DEF RecordsAppended
  <2>5. CASE IsDefault(t, n, values[1])
    <3>1. RecordsOf(t, n, values, bytes) = <<>>
      BY <1>1, <1>5, <2>5 DEF RecordsOf
    <3>2. WriteField(e, t, n, values, inner) = e
      BY <1>1, <2>5 DEF WriteField, Write, IsDefault
    <3> QED BY <1>3, <3>1, <3>2, FlattenNone, NothingWritten DEF RecordsAppended
  <2>6. CASE ~ IsDefault(t, n, values[1])
    <3>1. RecordsOf(t, n, values, bytes) = [i \in 1 .. 1 |-> Record(n, WireTypeOf(type), ValueBytes(type, values[i]))]
      BY <1>1, <2>1, <2>6 DEF RecordsOf
    <3>2. RecordsOf(t, n, values, bytes) = <<r>>
      <4> HIDE DEF type
      <4> QED BY <3>1
    <3>3. WriteField(e, t, n, values, inner) = f
      BY <1>1, <1>5, <2>6 DEF WriteField, Write, IsDefault
    <3> QED BY <2>4, <3>2, <3>3
  <2> QED BY <2>5, <2>6
<1> QED BY <1>4, <1>5

LEMMA FieldAppended ==
  ASSUME NEW b \in Nat, NEW e \in EncType(b), NEW t \in MessageTypes, NEW n \in FieldsOf(t),
         NEW values, FieldHolds(t, n, values), NEW inner, NEW bytes, InnerWrites(inner, bytes, b)
  PROVE  RecordsAppended(e, WriteField(e, t, n, values, inner), RecordsOf(t, n, values, bytes), b)
<1>1. TypeOf(t, n) \in MessageTypes \/ TypeOf(t, n) \in LeafTypes
  BY MessageAssumption
<1> QED BY <1>1, MessagesAppended, RepeatedAppended, OneAppended

LEMMA FieldOrderIs ==
  ASSUME NEW t \in MessageTypes
  PROVE  FieldOrder(t) \in Seq(FieldsOf(t))
<1> DEFINE F == FieldsOf(t)
           first == {n \in F : InOneof(t, n)}
<1>1. IsFiniteSet(F) /\ F \subseteq Nat
  BY MessageAssumption
<1>2. \A S \in SUBSET F : InOrder(S) \in Seq(F)
  <2> TAKE S \in SUBSET F
  <2>1. IsFiniteSet(S) /\ S \subseteq Nat
    BY <1>1, FS_Subset
  <2>2. InOrder(S) \in Seq(S)
    BY <2>1, InOrderIs
  <2> QED BY <2>2
<1>3. FieldOrder(t) = Reverse(InOrder(first)) \o InOrder(F \ first)
  BY DEF FieldOrder
<1>4. InOrder(first) \in Seq(F) /\ InOrder(F \ first) \in Seq(F)
  BY <1>2
<1> DEFINE p == InOrder(first)  q == InOrder(F \ first)
<1> HIDE DEF p, q, F
<1>5. Reverse(p) \in Seq(F)
  <2>1. p \in Seq(F) /\ Len(p) \in Nat
    BY <1>4 DEF p
  <2>2. \A i \in 1 .. Len(p) : p[Len(p) - i + 1] \in F
    BY <2>1, ElementOfSeq
  <2>3. Reverse(p) = [i \in 1 .. Len(p) |-> p[Len(p) - i + 1]]
    BY DEF Reverse
  <2>4. Reverse(p) \in [1 .. Len(p) -> F]
    BY <2>2, <2>3
  <2> QED BY <2>1, <2>4
<1>6. Reverse(p) \o q \in Seq(F)
  BY <1>4, <1>5, JoinOn DEF q
<1> QED BY <1>3, <1>6 DEF F, p, q

LEMMA StructHolds ==
  ASSUME NEW x \in Structs
  PROVE  /\ x[1] \in MessageTypes /\ DOMAIN x[2] = FieldsOf(x[1])
         /\ \A n \in FieldsOf(x[1]) : FieldHolds(x[1], n, x[2][n])
<1>1. PICK t \in MessageTypes : x \in {<<t, m>> : m \in Sources[t]}
  BY DEF Structs
<1>2. PICK m \in Sources[t] : x = <<t, m>>
  BY <1>1
<1>3. IsStruct(t, m)
  BY <1>1, <1>2, SourceAssumption
<1>4. x[1] = t /\ x[2] = m
  BY <1>2
<1> QED BY <1>3, <1>4 DEF IsStruct, FieldHolds

(* The fields of a struct, by the encoder and in the encoding. *)
LEMMA FieldsAppended ==
  ASSUME NEW b \in Nat, NEW e \in EncType(b), NEW x \in Structs,
         NEW inner, NEW bytes, InnerWrites(inner, bytes, b)
  PROVE  LET c == FlattenSeq(RecordsIn(x[1], x[2], bytes))
         IN  c \in Seq(Byte) /\ Writes(e, WriteFields(e, x[1], x[2], inner), c, b)
<1> DEFINE t == x[1]
           m == x[2]
           order == FieldOrder(t)
           item == [n \in FieldsOf(t) |-> [acc \in Encoders(e.buf) |-> WriteField(acc, t, n, m[n], inner)]]
           recs == [i \in DOMAIN order |-> RecordsOf(t, order[i], m[order[i]], bytes)]
           flat == [i \in DOMAIN recs |-> FlattenSeq(recs[i])]
<1>1. t \in MessageTypes /\ \A n \in FieldsOf(t) : FieldHolds(t, n, m[n])
  BY StructHolds
<1>2. RecordsIn(t, m, bytes) = FlattenSeq(recs)
  BY DEF RecordsIn
<1>3. WriteFields(e, t, m, inner) = Backwards(e, order, item)
  BY DEF WriteFields
<1> HIDE DEF t, m
<1>4. order \in Seq(FieldsOf(t))
  BY <1>1, FieldOrderIs
<1> HIDE DEF order
<1>5. DOMAIN order = 1 .. Len(order) /\ \A i \in 1 .. Len(order) : order[i] \in FieldsOf(t)
  BY <1>4
<1>6. ASSUME NEW i \in 1 .. Len(order), NEW acc \in EncType(b)
      PROVE  recs[i] \in Seq(Seq(Byte)) /\ Writes(acc, item[order[i]][acc], FlattenSeq(recs[i]), b)
  <2> DEFINE n == order[i]
             values == m[n]
             r == RecordsOf(t, n, values, bytes)
  <2>1. n \in FieldsOf(t) /\ FieldHolds(t, n, values)
    BY <1>1, <1>5
  <2>2. recs[i] = r
    BY <1>5
  <2>3. item[n][acc] = WriteField(acc, t, n, values, inner)
    BY <2>1, EncodersOf
  <2> HIDE DEF recs, item, r
  <2>4. RecordsAppended(acc, WriteField(acc, t, n, values, inner), r, b)
    <3> HIDE DEF n, values
    <3> QED BY <1>1, <2>1, FieldAppended DEF r
  <2> QED BY <2>2, <2>3, <2>4 DEF RecordsAppended
<1>7. recs \in [1 .. Len(order) -> Seq(Seq(Byte))]
  <2>1. \A i \in 1 .. Len(order) : recs[i] \in Seq(Seq(Byte))
    BY <1>6
  <2>2. recs = [i \in 1 .. Len(order) |-> recs[i]]
    BY <1>5
  <2> HIDE DEF recs
  <2> QED BY <2>1, <2>2
<1> HIDE DEF recs, item
<1>8. recs \in Seq(Seq(Seq(Byte))) /\ DOMAIN recs = 1 .. Len(order)
  BY <1>4, <1>7
<1>9. \A i \in 1 .. Len(order) : FlattenSeq(recs[i]) \in Seq(Byte)
  BY <1>7, FlattenPlaces
<1>10. /\ flat \in [1 .. Len(order) -> Seq(Byte)]
       /\ \A i \in 1 .. Len(order) : flat[i] = FlattenSeq(recs[i])
  BY <1>8, <1>9
<1>11. FlattenSeq(FlattenSeq(recs)) = FlattenSeq(flat)
  BY <1>8, FlattenFlatten
<1> HIDE DEF flat
<1>12. \A i \in 1 .. Len(order) : \A acc \in EncType(b) : Writes(acc, item[order[i]][acc], flat[i], b)
  BY <1>6, <1>10
<1>13. Writes(e, Backwards(e, order, item), FlattenSeq(flat), b)
  BY <1>4, <1>10, <1>12, BackwardsWrites
<1>14. FlattenSeq(flat) \in Seq(Byte)
  <2>1. flat \in Seq(Seq(Byte))
    BY <1>4, <1>10
  <2> QED BY <2>1, FlattenPlaces
<1> QED BY <1>2, <1>3, <1>11, <1>13, <1>14 DEF t, m

(* Whatever bytes there are for every struct, some encoders write them. *)
LEMMA Writers ==
  ASSUME NEW bytes \in [Structs -> Seq(Byte)]
  PROVE  \E inner : InnerWrites(inner, bytes, 0)
<1> DEFINE w(e, c) == IF c = <<>> THEN e ELSE encoder_write(e, c)
           inner == [x \in Structs |-> [e \in EncType(0) |-> w(e, bytes[x])]]
<1>1. ASSUME NEW e \in EncType(0), NEW c \in Seq(Byte) PROVE Writes(e, w(e, c), c, 0)
  BY NothingWritten, WriteAppends
<1> HIDE DEF w
<1>2. \A x \in Structs : \A e \in EncType(0) : Writes(e, inner[x][e], bytes[x], 0)
  BY <1>1
<1> HIDE DEF inner
<1> QED BY <1>2 DEF InnerWrites

LEMMA EncodingType ==
  ASSUME NEW bytes \in [Structs -> Seq(Byte)], NEW x \in Structs
  PROVE  FlattenSeq(RecordsIn(x[1], x[2], bytes)) \in Seq(Byte)
<1>1. PICK inner : InnerWrites(inner, bytes, 0)
  BY Writers
<1> DEFINE e == [size |-> 0, pos |-> -1, buf |-> [i \in 0 .. -1 |-> 0]]
<1>2. e \in EncType(0)
  <2>1. [i \in 0 .. -1 |-> 0] \in [0 .. -1 -> Byte] /\ 0 - 1 = -1
    OBVIOUS
  <2> DEFINE B == [0 .. 0 - 1 -> Byte]  f == [i \in 0 .. -1 |-> 0]
  <2>2. f \in B /\ -1 \in Int /\ 0 \in Int
    BY <2>1
  <2> HIDE DEF B, f
  <2>3. [size |-> 0, pos |-> -1, buf |-> f] \in [size : Int, pos : Int, buf : B]
    BY <2>2
  <2> QED BY <2>3 DEF EncType, B, f
<1> HIDE DEF e
<1>3. 0 \in Nat
  OBVIOUS
<1> QED BY <1>1, <1>2, <1>3, FieldsAppended

LEMMA EncodingSteps ==
  /\ EncodingWithin[0] = [x \in Structs |-> <<>>]
  /\ EncodingWithin \in [0 .. Nesting -> [Structs -> Seq(Byte)]]
  /\ \A k \in 1 .. Nesting :
       EncodingWithin[k] = [x \in Structs |-> FlattenSeq(RecordsIn(x[1], x[2], EncodingWithin[k - 1]))]
<1> DEFINE S == [Structs -> Seq(Byte)]
           a == [x \in Structs |-> <<>>]
           up(s) == [x \in Structs |-> FlattenSeq(RecordsIn(x[1], x[2], s))]
           step == [i \in 1 .. Nesting |-> [s \in S |-> up(s)]]
           Is(f) == f = [levels \in 0 .. Nesting |-> IF levels = 0 THEN a ELSE up(f[levels - 1])]
<1>1. a \in S /\ Nesting \in Nat
  BY SourceAssumption
<1>2. \A s \in S : up(s) \in S
  BY EncodingType
<1>3. EncodingWithin = CHOOSE f : Is(f)
  BY DEF EncodingWithin
<1> HIDE DEF up, a, S
<1>4. step \in [1 .. Nesting -> [S -> S]]
  BY <1>2
<1>5. PICK g \in [0 .. Nesting -> S] : Iterates(g, Nesting, a, step)
  <2> HIDE DEF step
  <2> QED BY <1>1, <1>4, Recursion, Zenon
<1>6. \A i \in 0 .. Nesting : i # 0 => step[i][g[i - 1]] = up(g[i - 1])
  <2> TAKE i \in 0 .. Nesting
  <2> HAVE i # 0
  <2>1. i - 1 \in 0 .. Nesting /\ i \in 1 .. Nesting
    BY <1>1
  <2>2. g[i - 1] \in S
    BY <2>1
  <2> QED BY <2>1, <2>2
<1>7. g = [i \in 0 .. Nesting |-> IF i = 0 THEN a ELSE step[i][g[i - 1]]]
  BY <1>5 DEF Iterates
<1> HIDE DEF step
<1>8. Is(g)
  BY <1>6, <1>7
<1>9. Is(EncodingWithin)
  <2> HIDE DEF Is
  <2> QED BY <1>3, <1>8
<1>10. \A k \in 1 .. Nesting : EncodingWithin[k] = up(EncodingWithin[k - 1])
  BY <1>1, <1>9
<1>11. \A k \in 0 .. Nesting : EncodingWithin[k] \in S
  <2> DEFINE T == {k \in Nat : k \in 0 .. Nesting => EncodingWithin[k] \in S}
  <2>1. 0 \in T
    BY <1>1, <1>9
  <2>2. ASSUME NEW k \in Nat, k \in T PROVE k + 1 \in T
    <3>1. k + 1 \in 0 .. Nesting => k \in 0 .. Nesting /\ k + 1 \in 1 .. Nesting /\ (k + 1) - 1 = k
      BY <1>1
    <3> HIDE DEF Is
    <3> QED BY <1>2, <1>10, <2>2, <3>1
  <2>3. Nat \subseteq T
    <3> HIDE DEF T
    <3> QED BY <2>1, <2>2, NatSetInduction
  <2> QED BY <2>3
<1>12. EncodingWithin \in [0 .. Nesting -> S]
  <2>1. EncodingWithin = [k \in 0 .. Nesting |-> EncodingWithin[k]]
    BY <1>9
  <2> HIDE DEF Is
  <2> QED BY <1>11, <2>1
<1>13. EncodingWithin[0] = a
  BY <1>1, <1>9
<1> QED BY <1>10, <1>12, <1>13 DEF S, up, a

(* The state of the encoders and the encodings, level by level. *)
LevelWrites(inner, bytes, b) ==
  /\ inner \in [Structs -> [EncType(b) -> EncType(b)]]
  /\ InnerWrites(inner, bytes, b)

LEMMA LevelUp ==
  ASSUME NEW b \in Nat, NEW buf \in [0 .. b - 1 -> Byte],
         NEW inner, NEW bytes, LevelWrites(inner, bytes, b)
  PROVE  LevelWrites(EncodeLevel(buf, inner),
                     [x \in Structs |-> FlattenSeq(RecordsIn(x[1], x[2], bytes))], b)
<1> DEFINE up == EncodeLevel(buf, inner)
           c == [x \in Structs |-> FlattenSeq(RecordsIn(x[1], x[2], bytes))]
           w(x, e) == WriteFields(e, x[1], x[2], inner)
<1>1. Encoders(buf) = EncType(b)
  BY DEF Encoders, EncType
<1>2. up = [x \in Structs |-> [e \in EncType(b) |-> w(x, e)]]
  BY <1>1 DEF EncodeLevel
<1>3. ASSUME NEW x \in Structs, NEW e \in EncType(b)
      PROVE  c[x] \in Seq(Byte) /\ Writes(e, w(x, e), c[x], b) /\ w(x, e) \in EncType(b)
  <2>1. InnerWrites(inner, bytes, b)
    BY DEF LevelWrites
  <2>2. c[x] \in Seq(Byte) /\ Writes(e, w(x, e), c[x], b)
    BY <2>1, FieldsAppended
  <2> QED BY <2>2 DEF Writes, Appends
<1> HIDE DEF w
<1>4. c \in [Structs -> Seq(Byte)]
  <2>0. EncType(b) # {}
    <3> DEFINE B == [0 .. b - 1 -> Byte]
    <3>1. [size |-> 0, pos |-> 0, buf |-> buf] \in [size : Int, pos : Int, buf : B]
      OBVIOUS
    <3> QED BY <3>1 DEF EncType
  <2>1. \A x \in Structs : c[x] \in Seq(Byte)
    BY <2>0, <1>3
  <2>2. c = [x \in Structs |-> c[x]]
    OBVIOUS
  <2> HIDE DEF c
  <2> QED BY <2>1, <2>2
<1> HIDE DEF c
<1>5. up \in [Structs -> [EncType(b) -> EncType(b)]]
  <2> HIDE DEF up
  <2> QED BY <1>2, <1>3
<1>6. \A x \in Structs : \A e \in EncType(b) : Writes(e, up[x][e], c[x], b)
  <2> HIDE DEF up
  <2> QED BY <1>2, <1>3
<1> HIDE DEF up
<1> QED BY <1>4, <1>5, <1>6 DEF LevelWrites, InnerWrites, up, c

(* encode_inner of a struct, with the sub-messages it has, writes its encoding. *)
LEMMA EncodeInnerWrites ==
  ASSUME NEW b \in Nat, NEW buf \in [0 .. b - 1 -> Byte]
  PROVE  InnerWrites(encode_inner(buf), Encoding, b)
<1> DEFINE E == EncType(b)
           F == [Structs -> [E -> E]]
           S == {f \in F : \E bytes : LevelWrites(f, bytes, b)}
           a == [x \in Structs |-> [e \in Encoders(buf) |-> e]]
           up(s) == EncodeLevel(buf, s)
           step == [i \in 1 .. Nesting |-> [s \in S |-> up(s)]]
           Is(f) == f = [levels \in 0 .. Nesting |-> IF levels = 0 THEN a ELSE up(f[levels - 1])]
           within == CHOOSE f : Is(f)
<1>1. LevelWrites(a, EncodingWithin[0], b) /\ a \in S /\ Nesting \in Nat
  <2>1. Nesting \in Nat /\ 0 \in 0 .. Nesting
    BY SourceAssumption
  <2>2. Encoders(buf) = EncType(b)
    BY DEF Encoders, EncType
  <2>3. a \in F /\ \A x \in Structs : \A e \in E : a[x][e] = e
    BY <2>2
  <2>4. EncodingWithin[0] = [x \in Structs |-> <<>>]
    BY <2>1, EncodingSteps
  <2> DEFINE none == [x \in Structs |-> <<>>]
  <2>5. none \in [Structs -> Seq(Byte)] /\ \A x \in Structs : none[x] = <<>>
    OBVIOUS
  <2> HIDE DEF a, none, F
  <2>6. \A x \in Structs : \A e \in E : Writes(e, a[x][e], none[x], b)
    BY <2>3, <2>5, NothingWritten
  <2>7. InnerWrites(a, none, b)
    BY <2>5, <2>6 DEF InnerWrites
  <2>8. LevelWrites(a, none, b)
    BY <2>3, <2>7 DEF LevelWrites, F
  <2> QED BY <2>1, <2>3, <2>4, <2>8 DEF none
<1>2. \A s \in S : up(s) \in S
  <2> TAKE s \in S
  <2>1. PICK bytes : LevelWrites(s, bytes, b)
    OBVIOUS
  <2>2. \E c : LevelWrites(up(s), c, b)
    BY <2>1, LevelUp
  <2> QED BY <2>2 DEF LevelWrites
<1>3. encode_inner(buf) = within[Nesting]
  BY DEF encode_inner
<1> HIDE DEF a, S
<1>4. step \in [1 .. Nesting -> [S -> S]]
  <2> HIDE DEF up
  <2> QED BY <1>2
<1>5. PICK g \in [0 .. Nesting -> S] : Iterates(g, Nesting, a, step)
  <2> HIDE DEF step
  <2> QED BY <1>1, <1>4, Recursion, Zenon
<1>6. \A i \in 0 .. Nesting : i # 0 => step[i][g[i - 1]] = up(g[i - 1])
  <2> TAKE i \in 0 .. Nesting
  <2> HAVE i # 0
  <2>1. i - 1 \in 0 .. Nesting /\ i \in 1 .. Nesting
    BY <1>1
  <2>2. g[i - 1] \in S
    BY <2>1
  <2> HIDE DEF up
  <2> QED BY <2>1, <2>2
<1>7. g = [i \in 0 .. Nesting |-> IF i = 0 THEN a ELSE step[i][g[i - 1]]]
  BY <1>5 DEF Iterates
<1> HIDE DEF step, up
<1>8. Is(g)
  BY <1>6, <1>7
<1>9. Is(within)
  <2> HIDE DEF Is
  <2> QED BY <1>8
<1> HIDE DEF within
<1>10. within[0] = a /\ \A k \in 1 .. Nesting : within[k] = up(within[k - 1])
  BY <1>1, <1>9
<1>11. \A k \in 0 .. Nesting : LevelWrites(within[k], EncodingWithin[k], b)
  <2> DEFINE T == {k \in Nat : k \in 0 .. Nesting => LevelWrites(within[k], EncodingWithin[k], b)}
  <2>1. 0 \in T
    BY <1>1, <1>10
  <2>2. ASSUME NEW k \in Nat, k \in T, k + 1 \in 0 .. Nesting
        PROVE  LevelWrites(within[k + 1], EncodingWithin[k + 1], b)
    <3>1. k \in 0 .. Nesting /\ k + 1 \in 1 .. Nesting /\ (k + 1) - 1 = k
      BY <1>1, <2>2
    <3>2. LevelWrites(within[k], EncodingWithin[k], b)
      BY <2>2, <3>1
    <3>3. EncodingWithin[k + 1] = [x \in Structs |-> FlattenSeq(RecordsIn(x[1], x[2], EncodingWithin[k]))]
      BY <3>1, EncodingSteps
    <3>4. within[k + 1] = EncodeLevel(buf, within[k])
      BY <1>10, <3>1 DEF up
    <3> QED BY <3>2, <3>3, <3>4, LevelUp
  <2>3. Nat \subseteq T
    <3>1. \A k \in Nat : k \in T => k + 1 \in T
      BY <2>2
    <3> HIDE DEF T
    <3> QED BY <2>1, <3>1, NatSetInduction
  <2> QED BY <2>3
<1> QED BY <1>1, <1>3, <1>11 DEF LevelWrites, Encoding

LEMMA EncodeIs ==
  ASSUME NEW t \in MessageTypes, NEW m \in Sources[t], NEW b \in 0 .. IntMax
  PROVE  LET whole == Encoding[<<t, m>>]
         IN  pbtools_message_encode(t, m, b) =
               IF Len(whole) < b THEN [length |-> Len(whole), bytes |-> whole]
               ELSE [length |-> IF b = 0 /\ whole = <<>> THEN -1 ELSE -ENCODE_BUFFER_FULL,
                     bytes  |-> <<>>]
<1> DEFINE x == <<t, m>>
           whole == Encoding[x]
           buf == [i \in 0 .. b - 1 |-> 0]
           e == encoder_init(b, buf)
           f == encode_inner(buf)[x][e]
           r == encoder_get_result(f)
           n == b - f.pos - 1
           at == f.pos
           bytes == [i \in 1 .. r.length |-> r.buf[i - 1]]
<1>1. b \in Nat /\ int(b) = b
  BY IntOfInt, IntAssumption
<1>2. buf \in [0 .. b - 1 -> Byte] /\ e = [size |-> b, pos |-> b - 1, buf |-> buf] /\ e.buf = buf
  BY <1>1, ByteFacts DEF encoder_init
<1>3. x \in Structs
  BY DEF Structs
<1>4. e \in EncType(b) /\ Good(e, <<>>, b) /\ ~ Full(e)
  <2> DEFINE B == [0 .. b - 1 -> Byte]
  <2>1. b \in Int /\ b - 1 \in Int /\ buf \in B
    BY <1>1, <1>2
  <2> HIDE DEF B, buf, e
  <2>2. e \in [size : Int, pos : Int, buf : B] /\ e.size = b /\ e.pos = b - 1
    BY <1>2, <2>1
  <2>3. Len(<<>>) = 0
    OBVIOUS
  <2>4. Alive(e, b) /\ EndHolds(e, <<>>, b)
    BY <1>1, <2>2, <2>3 DEF Alive, EndHolds
  <2>5. ~ Full(e)
    BY <1>1, <2>2 DEF Full, ENCODE_BUFFER_FULL
  <2> QED BY <2>2, <2>4, <2>5 DEF EncType, Good, B
<1>5. InnerWrites(encode_inner(buf), Encoding, b)
  BY <1>1, <1>2, EncodeInnerWrites
<1>6. pbtools_message_encode(t, m, b) = [length |-> r.length, bytes |-> bytes]
  BY <1>2 DEF pbtools_message_encode
<1> HIDE DEF buf, e
<1>7. whole \in Seq(Byte) /\ Writes(e, f, whole, b)
  BY <1>3, <1>4, <1>5 DEF InnerWrites
<1> HIDE DEF x, whole, f
<1>8. f \in EncType(b) /\ Good(f, whole, b) /\ (Full(f) => whole # <<>>)
  <2>1. <<>> \in Seq(Byte) /\ whole \o <<>> = whole
    BY <1>7, ConcatEmptySeq
  <2> QED BY <1>4, <1>7, <2>1 DEF Writes, Appends
<1>9. Len(whole) \in Nat /\ (Len(whole) = 0 <=> whole = <<>>)
  BY <1>7, EmptySeq
<1>10. DOMAIN f.buf = 0 .. b - 1 /\ f.pos \in Int
  BY <1>8 DEF EncType
<1>11. CASE f.pos >= 0
  <2>1. /\ f.size = b /\ at \in 0 .. b - 1 /\ Len(whole) = b - 1 - at
        /\ \A i \in 1 .. Len(whole) : f.buf[at + i] = whole[i]
    BY <1>8, <1>11 DEF Good, Alive, Full, EndHolds, ENCODE_BUFFER_FULL
  <2>2. n = Len(whole) /\ n \in 0 .. b - 1
    BY <1>1, <2>1
  <2>3. r.length = n /\ r.buf = [i \in 0 .. b - 1 |-> IF i < n THEN f.buf[at + 1 + i] ELSE f.buf[i]]
    BY <1>10, <1>11, <2>1 DEF encoder_get_result
  <2> HIDE DEF r, n, at
  <2>4. ASSUME NEW i \in 1 .. n PROVE r.buf[i - 1] = whole[i]
    <3>1. i - 1 \in 0 .. b - 1 /\ i - 1 < n /\ at \in Int
      BY <2>1, <2>2
    <3>2. r.buf[i - 1] = f.buf[at + 1 + (i - 1)]
      BY <2>3, <3>1
    <3>3. at + 1 + (i - 1) = at + i
      BY <3>1
    <3>4. f.buf[at + i] = whole[i]
      BY <2>1, <2>2
    <3> QED BY <3>2, <3>3, <3>4
  <2>5. bytes = [i \in 1 .. n |-> whole[i]]
    BY <2>3, <2>4
  <2>6. whole = [i \in 1 .. Len(whole) |-> whole[i]]
    BY <1>7
  <2>7. bytes = whole
    BY <2>2, <2>5, <2>6
  <2>8. Len(whole) < b /\ r.length = Len(whole)
    BY <1>1, <2>2, <2>3
  <2> HIDE DEF bytes
  <2> QED BY <1>6, <2>7, <2>8 DEF whole, x
<1>12. CASE ~ (f.pos >= 0)
  <2>1. r.length = at
    BY <1>12 DEF encoder_get_result
  <2>2. /\ ~ (Len(whole) < b)
        /\ at = IF b = 0 /\ whole = <<>> THEN -1 ELSE -ENCODE_BUFFER_FULL
    <3>1. CASE Full(f) /\ Len(whole) + 1 > b
      BY <1>1, <1>8, <1>9, <3>1 DEF Full
    <3>2. CASE Alive(f, b) /\ EndHolds(f, whole, b)
      BY <1>1, <1>9, <1>12, <3>2 DEF Alive, EndHolds
    <3> QED BY <1>8, <3>1, <3>2 DEF Good
  <2>3. bytes = <<>>
    <3>1. 1 .. r.length = {}
      BY <1>10, <1>12, <2>1
    <3> HIDE DEF r
    <3> QED BY <3>1
  <2> HIDE DEF bytes, r, at
  <2> QED BY <1>6, <2>1, <2>2, <2>3 DEF whole, x
<1> QED BY <1>11, <1>12

(* What a step of a run leaves alone. *)
Kept ==
  root' = root /\ input' = input /\ decodes' = decodes /\ (refused' = {} => refused = {})

LEMMA RunKeeps == Run => Kept
<1>1. \A top, h, how : Step(top, h, how) => Kept
  BY DEF Step, Kept
<1>2. \A top, h, n, child : Call(top, h, n, child) => Kept
  BY DEF Call, Kept
<1>3. \A caller : ReturnTo(caller) => Kept
  BY DEF ReturnTo, Kept
<1>4. \A top, d, h, wire_type : StoreGroup(top, d, h, wire_type) => Kept
  BY <1>1 DEF StoreGroup
<1>5. \A top, d, h : ReadItem(top, d, h) => Kept
  BY <1>2 DEF ReadItem
<1>6. ASSUME NEW tag PROVE SkipUnknown(tag) \/ DecodeLeaf(tag) => Kept
  BY <1>1 DEF SkipUnknown, DecodeLeaf
<1>7. ASSUME NEW tag PROVE pbtools_decoder_sub_message_decode(tag) => Kept
  BY <1>1, <1>2 DEF pbtools_decoder_sub_message_decode
<1>8. ASSUME NEW tag PROVE repeated_info_decode(tag) => Kept
  BY <1>1 DEF repeated_info_decode
<1>9. EndScan \/ NothingCounted \/ EndItems => Kept
  BY <1>1 DEF EndScan, NothingCounted, EndItems
<1>10. ItemsRefused => Kept
  BY <1>1 DEF ItemsRefused
<1>11. FirstItems => Kept
  BY <1>4, <1>5 DEF FirstItems
<1>12. ASSUME NEW tag PROVE NextItems(tag) \/ SkipOther(tag) => Kept
  BY <1>1, <1>4, <1>5 DEF NextItems, SkipOther
<1>13. ReturnSubMessage \/ ReturnItem => Kept
  BY <1>3 DEF ReturnSubMessage, ReturnItem
<1>14. ReturnResult => Kept
  BY DEF ReturnResult, Kept
<1> QED
  BY <1>6, <1>7, <1>8, <1>9, <1>10, <1>11, <1>12, <1>13, <1>14, Zenon DEF Run

(* What was encoded is what pbtools_message_encode made of the source. *)
EncodedOK ==
  /\ root \in Roots /\ source \in Sources[root] /\ buffer \in BufferSizes
  /\ encoded = Nothing \/ encoded = pbtools_message_encode(root, source, buffer)

LEMMA EncodedInvariant == CSpec => []EncodedOK
<1>1. CInit => EncodedOK
  BY DEF CInit, Init, EncodedOK
<1>2. EncodedOK /\ [CNext]_<<vars, cvars>> => EncodedOK'
  <2> SUFFICES ASSUME EncodedOK, [CNext]_<<vars, cvars>> PROVE EncodedOK'
    OBVIOUS
  <2>1. CASE Encode
    <3>1. root' = root /\ source' = source /\ buffer' = buffer
      BY <2>1 DEF Encode, vars
    <3>2. encoded' = pbtools_message_encode(root, source, buffer)
      BY <2>1 DEF Encode
    <3>3. pbtools_message_encode(root, source, buffer)' = pbtools_message_encode(root, source, buffer)
      BY <3>1
    <3> QED BY <3>1, <3>2, <3>3 DEF EncodedOK
  <2>2. CASE UNCHANGED cvars /\ root' = root
    BY <2>2 DEF EncodedOK, cvars
  <2>3. CASE Decode
    <3>1. root' = root /\ UNCHANGED cvars
      BY <2>3 DEF Decode, pbtools_message_decode
    <3> QED BY <2>2, <3>1
  <2>4. CASE Run /\ UNCHANGED cvars
    BY <2>2, <2>4, RunKeeps DEF Kept
  <2>5. CASE UNCHANGED <<vars, cvars>>
    BY <2>2, <2>5 DEF vars
  <2> QED BY <2>1, <2>3, <2>4, <2>5 DEF CNext
<1> QED BY <1>1, <1>2, PTL DEF CSpec

(* The caller gets exactly the encoding of the message and its length, or the
   error of a full buffer: never part of a message, whatever the schema, the
   message and the size of the buffer. *)
THEOREM EncodeWholeOrNothing == CSpec => []WholeOrNothing
<1>1. EncodedOK => WholeOrNothing
  <2> SUFFICES ASSUME EncodedOK, encoded # Nothing PROVE WholeOrNothing
    BY DEF WholeOrNothing
  <2>1. /\ root \in MessageTypes /\ source \in Sources[root] /\ buffer \in 0 .. IntMax
        /\ encoded = pbtools_message_encode(root, source, buffer)
    BY MessageAssumption, SourceAssumption DEF EncodedOK
  <2> QED BY <2>1, EncodeIs DEF WholeOrNothing
<1> QED BY <1>1, EncodedInvariant, PTL
-----------------------------------------------------------------------------
(* Decoding: what an encoder wrote is read back.  First the bytes of a value,
   by the readers of its type. *)
LEMMA BytesTaken ==
  ASSUME NEW a \in Seq(Byte), NEW b \in Seq(Byte), NEW in, NEW d, Left(in, d, a \o b)
  PROVE  Bytes(in, d, Len(a)) = a
<1>1. (\A i \in 1 .. Len(a) : in[d.base + d.pos + i] = a[i]) /\ decoder_left(d) >= Len(a)
  <2>1. Len(a) <= decoder_left(d) /\ Len(a) \in Nat /\ decoder_left(d) = Len(a \o b)
    BY LeftTaken DEF Left
  <2>2. Len(a \o b) \in Nat
    BY JoinOn
  <2> QED BY <2>1, <2>2, LeftTaken
<1>2. Bytes(in, d, Len(a)) = [i \in 1 .. Len(a) |-> a[i]]
  BY <1>1 DEF Bytes
<1> QED BY <1>2

(* The values of a fixed width, and the bytes they have. *)
LEMMA FixedBack ==
  ASSUME NEW type \in FixedTypes, NEW value \in Holds(type)
  PROVE  /\ FromFixed(type, ToFixed(type, value)) = value
         /\ FromDigits(FixedOf(type, value), 2 * Base, Width(type)) = ToFixed(type, value)
<1> DEFINE w == Width(type)
           d == 2 * Base
           values == FixedValues(type)
           v == ToFixed(type, value)
<1>1. w \in Nat \ {0} /\ d \in Nat \ {0} /\ Base \in Nat
  BY WidthIs, WireAssumption
<1>2. PICK power \in [0 .. w -> Nat \ {0}] :
        /\ power[0] = 1 /\ Power(d, w) = power[w]
        /\ \A i \in 1 .. w : power[i] = d * power[i - 1]
  <2> HIDE DEF d, w
  <2> QED BY <1>1, PowerIs
<1> DEFINE half == Base * power[w - 1]
<1>3. half \in Nat /\ values = 2 * half /\ values \in Nat \ {0}
  <2>1. w - 1 \in 0 .. w /\ w \in 1 .. w
    BY <1>1
  <2> DEFINE p == power[w - 1]
  <2>2. p \in Nat /\ values = d * p /\ values \in Nat \ {0}
    BY <1>2, <2>1 DEF FixedValues
  <2> HIDE DEF p, values, w
  <2>3. Base * p \in Nat /\ (2 * Base) * p = 2 * (Base * p)
    BY <1>1, <2>2
  <2> QED BY <2>2, <2>3 DEF p
<1> HIDE DEF half, d, w
<1>4. /\ values \div 2 = half
      /\ value \in Int
      /\ IF type \in {"sfixed32", "sfixed64"} THEN -half <= value /\ value < half
         ELSE 0 <= value /\ value < values
  <2>1. values \div 2 = half
    <3> HIDE DEF values
    <3> QED BY <1>3
  <2>2. type \notin VarintTypes
    BY WireTypesAre
  <2>3. Holds(type) = IF type \in {"sfixed32", "sfixed64"} THEN -half .. half - 1 ELSE 0 .. values - 1
    BY <2>1, <2>2 DEF Holds, VarintTypes, Varint32Types
  <2> HIDE DEF values
  <2> QED BY <1>3, <2>1, <2>3
<1>5. v = value % values
  BY DEF ToFixed
<1>6. v \in Nat /\ v < values /\ FromFixed(type, v) = value
  <2> DEFINE signed == type \in {"sfixed32", "sfixed64"}
  <2>1. CASE signed
    <3>1. FromFixed(type, v) = Signed(v, values)
      BY <2>1 DEF FromFixed
    <3> HIDE DEF values, v, signed
    <3>2. CASE value >= 0
      <4>1. v = value /\ v % values = v /\ 2 * v < values
        BY <1>3, <1>4, <1>5, <2>1, <3>2 DEF signed
      <4> QED BY <1>3, <1>4, <3>1, <4>1, <3>2 DEF Signed
    <3>3. CASE ~ (value >= 0)
      <4>1. v = value + values
        BY <1>3, <1>4, <1>5, <2>1, <3>3 DEF signed
      <4>2. v \in Nat /\ v < values /\ ~ (2 * v < values) /\ v - values = value
        BY <1>3, <1>4, <2>1, <3>3, <4>1 DEF signed
      <4>3. v % values = v
        BY <1>3, <4>2
      <4> QED BY <3>1, <4>2, <4>3 DEF Signed
    <3> QED BY <3>2, <3>3
  <2>2. CASE ~ signed
    <3>1. FromFixed(type, v) = v
      BY <2>2 DEF FromFixed
    <3> HIDE DEF values, v
    <3> QED BY <1>3, <1>4, <1>5, <2>2, <3>1
  <2> QED BY <2>1, <2>2
<1>7. FixedOf(type, value) = DigitsOf(v, d, w) /\ values = Power(d, w)
  BY DEF FixedOf, d, w, FixedValues
<1> HIDE DEF v, values
<1>8. Shifts(v, d, w)[w] = 0
  BY <1>1, <1>6, <1>7, ShiftsEnd
<1>9. FromDigits(DigitsOf(v, d, w), d, w) = v
  BY <1>1, <1>6, <1>8, DigitsBack
<1> QED BY <1>6, <1>7, <1>9 DEF v, d, w

(* A number of a fixed width that was written is read back, whole, from as many
   bytes as were written. *)
THEOREM FixedRoundTrip ==
  ASSUME NEW type \in FixedTypes, NEW value \in Holds(type), NEW rest \in Seq(Byte), NEW in, NEW d,
         Left(in, d, FixedOf(type, value) \o rest)
  PROVE  LET r == decoder_read_fixed(in, d, Width(type))
         IN  /\ r.dec = Advanced(d, Width(type)) /\ FromFixed(type, r.value) = value
             /\ Left(in, r.dec, rest)
<1> DEFINE a == FixedOf(type, value)
           w == Width(type)
<1>1. a \in Seq(Byte) /\ Len(a) = w
  <2>1. value \in Int
    BY HeldNumbers
  <2> QED BY <2>1, FixedOfType
<1>2. FromFixed(type, FromDigits(a, 2 * Base, w)) = value
  BY FixedBack
<1> HIDE DEF a, w
<1>3. Left(in, d, a \o rest)
  BY DEF a
<1>4. Bytes(in, d, w) = a /\ decoder_read(d, w) = Advanced(d, w) /\ Left(in, Advanced(d, w), rest)
  BY <1>1, <1>3, BytesTaken, SeekTakes, LeftTaken
<1>5. decoder_read_fixed(in, d, w) = [dec |-> Advanced(d, w), value |-> FromDigits(a, 2 * Base, w)]
  BY <1>4 DEF decoder_read_fixed
<1> QED BY <1>2, <1>4, <1>5 DEF w
-----------------------------------------------------------------------------
(* A string as far as its first NUL, found from either end. *)
LEMMA CStringIs ==
  ASSUME NEW bytes \in Seq(Byte)
  PROVE  CString(bytes) = UpToNul(bytes)
<1> DEFINE nuls == {i \in DOMAIN bytes : bytes[i] = 0}
           n == Len(bytes)
           k == IF nuls = {} THEN n ELSE Min(nuls) - 1
           clean == {0} \cup {i \in DOMAIN bytes : 0 \notin Range(SubSeq(bytes, 1, i))}
<1>1. n \in Nat /\ DOMAIN bytes = 1 .. n
  OBVIOUS
<1>2. nuls \in SUBSET Nat /\ nuls = {i \in 1 .. n : bytes[i] = 0}
  BY <1>1
<1>3. nuls # {} => Min(nuls) \in nuls /\ \A i \in nuls : Min(nuls) <= i
  <2> HIDE DEF nuls
  <2> QED BY <1>2, MinExists
<1>4. k \in 0 .. n
  <2> HIDE DEF n
  <2>1. nuls # {} => Min(nuls) \in 1 .. n
    BY <1>2, <1>3
  <2> HIDE DEF nuls
  <2> QED BY <1>1, <2>1
<1>5. ASSUME NEW i \in 1 .. n PROVE 0 \notin Range(SubSeq(bytes, 1, i)) <=> i <= k
  <2> DEFINE s == SubSeq(bytes, 1, i)
  <2>1. s \in Seq(Byte) /\ Len(s) = i /\ \A j \in 1 .. i : s[j] = bytes[j]
    <3>1. i \in 0 .. Len(bytes)
      OBVIOUS
    <3> QED BY <3>1, Initial
  <2> HIDE DEF s
  <2>2. Range(s) = {bytes[j] : j \in 1 .. i}
    BY <2>1 DEF Range
  <2>3. 0 \in Range(s) <=> \E j \in nuls : j <= i
    <3>1. \A j \in 1 .. i : j \in 1 .. n
      BY <1>1
    <3> HIDE DEF nuls
    <3>2. \A j \in nuls : j <= i => j \in 1 .. i
      BY <1>2
    <3> QED BY <1>2, <2>2, <3>1, <3>2
  <2>4. (\E j \in nuls : j <= i) <=> ~ (i <= k)
    <3>1. CASE nuls = {}
      BY <1>1, <3>1
    <3>2. CASE nuls # {}
      <4> DEFINE m == Min(nuls)
      <4>1. m \in nuls /\ m \in Nat /\ k = m - 1 /\ \A j \in nuls : m <= j /\ j \in Nat
        BY <1>2, <1>3, <3>2
      <4> HIDE DEF m, nuls, k
      <4>2. ASSUME NEW j \in nuls, j <= i PROVE ~ (i <= k)
        BY <4>1, <4>2
      <4>3. ~ (i <= k) => m <= i
        BY <4>1
      <4> QED BY <4>1, <4>2, <4>3
    <3> QED BY <3>1, <3>2
  <2> QED BY <2>3, <2>4 DEF s
<1> HIDE DEF k, nuls
<1>6. clean \subseteq 0 .. n /\ k \in clean /\ \A i \in clean : i <= k
  BY <1>1, <1>4, <1>5
<1> HIDE DEF clean
<1>7. Max(clean) = k
  <2>1. Max(clean) \in clean /\ k <= Max(clean)
    BY <1>1, <1>6, GreatestExists
  <2> DEFINE x == Max(clean)
  <2>2. x <= k /\ x \in Nat /\ k \in Nat
    <3> HIDE DEF x
    <3>1. x \in clean /\ x \in 0 .. n
      BY <1>6, <2>1 DEF x
    <3> HIDE DEF n
    <3> QED BY <1>1, <1>4, <1>6, <3>1
  <2>3. x \in Nat /\ k <= x /\ x <= k
    BY <2>1, <2>2
  <2> HIDE DEF x
  <2> QED BY <2>2, <2>3 DEF x
<1>8. UpToNul(bytes) = SubSeq(bytes, 1, k)
  BY <1>7 DEF UpToNul, clean
<1>9. CString(bytes) = SubSeq(bytes, 1, k)
  <2>1. CASE nuls = {}
    <3>1. CString(bytes) = bytes
      BY <2>1 DEF CString, nuls
    <3> QED BY <2>1, <3>1, SubSeqFull DEF k
  <2>2. CASE nuls # {}
    <3>1. CString(bytes) = SubSeq(bytes, 1, Min(nuls) - 1)
      BY <2>2 DEF CString, nuls
    <3> QED BY <2>2, <3>1 DEF k
  <2> QED BY <2>1, <2>2
<1> QED BY <1>8, <1>9

(* What follows the tag of a record. *)
Content(wire_type, body) ==
  IF wire_type = LENGTH_DELIMITED THEN VarintBytes(Len(body)) \o body ELSE body

LEMMA ContentIs ==
  ASSUME NEW w \in 0 .. 7, NEW n \in Nat, NEW body \in Seq(Byte)
  PROVE  /\ Record(n, w, body) = VarintBytes(Tag(n, w)) \o Content(w, body)
         /\ Content(w, body) \in Seq(Byte)
         /\ VarintBytes(Tag(n, w)) \in Seq(Byte) /\ VarintBytes(Tag(n, w)) # <<>>
<1>1. Tag(n, w) \in Int /\ Len(body) \in Int
  BY DEF Tag
<1>2. VarintBytes(Tag(n, w)) \in Seq(Byte) /\ VarintBytes(Tag(n, w)) # <<>> /\ VarintBytes(Len(body)) \in Seq(Byte)
  BY <1>1, VarintBytesType
<1>3. VarintBytes(Len(body)) \o body \in Seq(Byte)
  BY <1>2, JoinOn
<1> QED BY <1>2, <1>3 DEF Record, Content

(* The content of a record is behind its length, and a seek goes over it. *)
Behind(in, d, e, rest) == Left(in, e, rest) /\ e.size = d.size

LEMMA LengthBack ==
  ASSUME NEW body \in Seq(Byte), NEW rest \in Seq(Byte), NEW in, NEW d,
         Left(in, d, Content(LENGTH_DELIMITED, body) \o rest)
  PROVE  LET r == decoder_read_length_delimited(in, d, LENGTH_DELIMITED)
         IN  /\ r.value = Len(body) /\ int(r.value) = Len(body)
             /\ Behind(in, d, r.dec, body \o rest)
<1> DEFINE n == Len(body)
           a == VarintBytes(n)
           s == body \o rest
<1>1. n \in Nat /\ a \in Seq(Byte) /\ a # <<>>
  <2>1. n \in Nat /\ n \in Int
    OBVIOUS
  <2> QED BY <2>1, VarintBytesType
<1>2. s \in Seq(Byte) /\ Len(s) = n + Len(rest) /\ Len(rest) \in Nat
  BY JoinOn
<1>3. Content(LENGTH_DELIMITED, body) \o rest = a \o s
  <2>1. Content(LENGTH_DELIMITED, body) = a \o body
    BY DEF Content
  <2> HIDE DEF a
  <2> QED BY <1>1, <2>1, JoinAssoc
<1> HIDE DEF a, s, n
<1>4. Left(in, d, a \o s)
  BY <1>3
<1>5. n \in 0 .. IntMax - 1
  <2>1. a \o s \in Seq(Byte) /\ Len(a \o s) = Len(a) + Len(s) /\ Len(a) \in Nat /\ Len(a) # 0
    BY <1>1, <1>2, JoinOn, EmptySeq
  <2> DEFINE b == a \o s
  <2> HIDE DEF b
  <2>2. b \in Seq(Byte) /\ Left(in, d, b) /\ Len(b) = Len(a) + Len(s)
    BY <1>4, <2>1 DEF b
  <2>3. Len(b) <= IntMax
    <3>1. d.pos \in Nat /\ d.size <= IntMax /\ d.size = d.pos + Len(b) /\ Len(b) \in Nat
      BY <2>2, LeftIs
    <3> QED BY <3>1, IntAssumption
  <2> QED BY <1>1, <1>2, <2>1, <2>2, <2>3, IntAssumption
<1>6. /\ decoder_read_length_delimited(in, d, LENGTH_DELIMITED) = [dec |-> Advanced(d, Len(a)), value |-> n]
      /\ Left(in, Advanced(d, Len(a)), s)
  <2>1. Left(in, d, VarintBytes(n) \o s)
    BY <1>4 DEF a
  <2> QED BY <1>2, <1>5, <2>1, LengthRoundTrip DEF a
<1>7. int(n) = n
  BY <1>5, IntOfInt, IntAssumption
<1>8. Advanced(d, Len(a)).size = d.size
  BY DEF Advanced
<1> QED BY <1>6, <1>7, <1>8 DEF n, s, Behind

(* Over a whole content. *)
LEMMA SeekBehind ==
  ASSUME NEW body \in Seq(Byte), NEW rest \in Seq(Byte), NEW in, NEW d, Left(in, d, body \o rest)
  PROVE  /\ Behind(in, d, decoder_seek(d, Len(body)), rest)
         /\ Behind(in, d, decoder_read(d, Len(body)), rest)
<1>1. Advanced(d, Len(body)).size = d.size
  BY DEF Advanced
<1> QED BY <1>1, SeekTakes, LeftTaken DEF Behind

LEMMA SentPayload ==
  ASSUME NEW type \in PayloadTypes, NEW v \in Seq(Byte), NEW inner
  PROVE  SentValue(type, v, inner) = Payload(type, v)
<1>1. type \notin MessageTypes
  BY WireTypesAre
<1> QED BY <1>1, CStringIs DEF SentValue, Payload

(* What a read gives, unless the heap refused it. *)
Got(in, d, r, rest, value) == r.refused # "" \/ (Behind(in, d, r.dec, rest) /\ r.value = value)

(* A payload, whose tag was read. *)
LEMMA PayloadBack ==
  ASSUME NEW type \in PayloadTypes, NEW v \in Seq(Byte), NEW rest \in Seq(Byte), NEW in, NEW d, NEW h,
         Left(in, d, Content(LENGTH_DELIMITED, Payload(type, v)) \o rest)
  PROVE  LET r == decoder_read_payload(in, type, d, h, LENGTH_DELIMITED)
         IN  Got(in, d, r, rest, Payload(type, v))
<1> DEFINE body == Payload(type, v)
           r == decoder_read_payload(in, type, d, h, LENGTH_DELIMITED)
           l == decoder_read_length_delimited(in, d, LENGTH_DELIMITED)
           a == heap_alloc(h, l.value + (IF type = "string" THEN 1 ELSE 0), 1)
<1>1. body \in Seq(Byte)
  BY PayloadType
<1>2. r = IF a.addr = NULL
          THEN [dec |-> decoder_abort(l.dec, OUT_OF_MEMORY), heap |-> a.heap,
                value |-> Dangling(type), refused |-> "reported"]
          ELSE [dec |-> decoder_read(l.dec, l.value), heap |-> a.heap,
                value |-> Bytes(in, l.dec, l.value), refused |-> ""]
  BY DEF decoder_read_payload
<1> HIDE DEF body, r, a
<1>3. l.value = Len(body) /\ Behind(in, d, l.dec, body \o rest)
  BY <1>1, LengthBack DEF body
<1> HIDE DEF l
<1>4. Bytes(in, l.dec, Len(body)) = body /\ Behind(in, l.dec, decoder_read(l.dec, Len(body)), rest)
  BY <1>1, <1>3, BytesTaken, SeekBehind DEF Behind
<1>5. CASE a.addr = NULL
  <2>1. r.refused = "reported" /\ "reported" # ""
    BY <1>2, <1>5
  <2> QED BY <2>1 DEF r, Got
<1>6. CASE a.addr # NULL
  <2>1. r.dec = decoder_read(l.dec, Len(body)) /\ r.value = body
    BY <1>2, <1>3, <1>4, <1>6
  <2> QED BY <1>3, <1>4, <2>1 DEF r, body, Behind, Got
<1> QED BY <1>5, <1>6

(* A member that is not repeated, whose tag was read. *)
LEMMA LeafBack ==
  ASSUME NEW type \in LeafTypes, NEW v \in ItemsOf(type), NEW rest \in Seq(Byte), NEW in, NEW d, NEW h,
         Left(in, d, Content(WireTypeOf(type), ValueBytes(type, v)) \o rest), NEW inner
  PROVE  LET r == ReadLeaf(in, type, d, h, WireTypeOf(type), FALSE)
         IN  Got(in, d, r, rest, SentValue(type, v, inner))
<1> DEFINE w == WireTypeOf(type)
           body == ValueBytes(type, v)
           r == ReadLeaf(in, type, d, h, w, FALSE)
<1>0. type \notin MessageTypes /\ (type \notin PayloadTypes => type \in VarintTypes \cup FixedTypes)
  BY MessageAssumption DEF LeafTypes
<1>1. CASE type \in PayloadTypes
  <2>1. w = LENGTH_DELIMITED /\ v \in Seq(Byte) /\ body = Payload(type, v)
    BY <1>1, WireTypesAre, ItemsAreOf DEF ValueBytes
  <2>2. r = decoder_read_payload(in, type, d, h, LENGTH_DELIMITED)
    BY <1>1, <2>1 DEF ReadLeaf
  <2>3. Left(in, d, Content(LENGTH_DELIMITED, Payload(type, v)) \o rest)
    BY <2>1
  <2> DEFINE q == decoder_read_payload(in, type, d, h, LENGTH_DELIMITED)
  <2>4. Got(in, d, q, rest, Payload(type, v))
    BY <1>1, <2>1, <2>3, PayloadBack
  <2>5. SentValue(type, v, inner) = Payload(type, v)
    BY <1>1, <2>1, SentPayload
  <2> HIDE DEF r, q
  <2> QED BY <2>2, <2>4, <2>5 DEF r, q
<1>2. CASE type \notin PayloadTypes
  <2>1. SentValue(type, v, inner) = v
    BY <1>0, <1>2 DEF SentValue, PayloadTypes
  <2> DEFINE m == ReadNumber(in, type, d, w)
  <2>2. /\ r = [dec |-> m.dec, heap |-> h, value |-> Value(type, m.value, FALSE), refused |-> ""]
        /\ m = IF type \in VarintTypes THEN decoder_read_varint(in, d) ELSE decoder_read_fixed(in, d, Width(type))
    BY <1>0, <1>2 DEF ReadLeaf, ReadNumber
  <2>3. Behind(in, d, m.dec, rest) /\ Value(type, m.value, FALSE) = v
    <3>1. CASE type \in VarintTypes
      <4> DEFINE n == ToVarint(type, v)
      <4>1. /\ v \in Holds(type) /\ n \in 0 .. Word - 1 /\ FromVarint(type, n) = v
        <5>1. ItemsOf(type) = Holds(type)
          BY <1>0, <1>2 DEF ItemsOf
        <5> QED BY <3>1, <5>1, MemberRoundTrip
      <4>2. body = VarintBytes(n) /\ Content(w, body) = body
        BY <3>1, WireTypesAre DEF ValueBytes, Content
      <4> HIDE DEF n, m, w, body
      <4>3. Left(in, d, VarintBytes(n) \o rest)
        BY <4>2 DEF w, body
      <4>4. /\ m = [dec |-> Advanced(d, Len(VarintBytes(n))), value |-> n]
            /\ Left(in, Advanced(d, Len(VarintBytes(n))), rest)
        BY <2>2, <3>1, <4>1, <4>3, VarintRoundTrip
      <4>5. Advanced(d, Len(VarintBytes(n))).size = d.size
        BY DEF Advanced
      <4> QED BY <3>1, <4>1, <4>4, <4>5 DEF Behind, Value
    <3>2. CASE type \notin VarintTypes
      <4>1. type \in FixedTypes /\ v \in Holds(type)
        <5>1. ItemsOf(type) = Holds(type)
          BY <1>0, <1>2 DEF ItemsOf
        <5> QED BY <1>0, <1>2, <3>2, <5>1
      <4>2. body = FixedOf(type, v) /\ Content(w, body) = body
        BY <3>2, <4>1, WireTypesAre DEF ValueBytes, Content
      <4>3. m = decoder_read_fixed(in, d, Width(type))
        BY <2>2, <3>2
      <4> HIDE DEF m, w, body
      <4>4. Left(in, d, FixedOf(type, v) \o rest)
        BY <4>2 DEF w, body
      <4>5. /\ m.dec = Advanced(d, Width(type)) /\ FromFixed(type, m.value) = v
            /\ Left(in, m.dec, rest)
        BY <4>1, <4>3, <4>4, FixedRoundTrip
      <4>6. Advanced(d, Width(type)).size = d.size
        BY DEF Advanced
      <4> QED BY <3>2, <4>5, <4>6 DEF Behind, Value
    <3> QED BY <3>1, <3>2
  <2> HIDE DEF m, r
  <2>4. r.dec = m.dec /\ r.value = Value(type, m.value, FALSE)
    BY <2>2
  <2> QED BY <2>1, <2>3, <2>4 DEF r, w, Behind, Got
<1> QED BY <1>1, <1>2

(* The loop over a window, whatever its read does. *)
LEMMA LoopAlways ==
  ASSUME NEW d, NEW read, decoder_left(d) \in Nat
  PROVE  \E after : Loop(after, d, read)
<1> DEFINE Is(g, n) == g = [i \in 0 .. n |-> IF i = 0 THEN d ELSE read[g[i - 1]].dec]
           T == {n \in Nat : \E g : Is(g, n)}
<1>1. 0 \in T
  <2> DEFINE g == [i \in 0 .. 0 |-> d]
  <2>1. Is(g, 0)
    OBVIOUS
  <2> QED BY <2>1
<1>2. ASSUME NEW n \in Nat, n \in T PROVE n + 1 \in T
  <2>1. PICK g : Is(g, n)
    BY <1>2
  <2> DEFINE v(i) == IF i = n + 1 THEN read[g[n]].dec ELSE g[i]
             h == [i \in 0 .. n + 1 |-> v(i)]
  <2>2. \A i \in 0 .. n : i # n + 1 /\ i \in 0 .. n + 1
    BY <1>2
  <2>3. ASSUME NEW i \in 0 .. n + 1 PROVE v(i) = IF i = 0 THEN d ELSE read[h[i - 1]].dec
    <3>1. CASE i = n + 1
      <4>1. i - 1 = n /\ i # 0 /\ n \in 0 .. n + 1 /\ n # n + 1
        BY <1>2, <3>1
      <4>2. h[i - 1] = g[n]
        BY <4>1
      <4> QED BY <3>1, <4>1, <4>2
    <3>2. CASE i # n + 1 /\ i # 0
      <4>1. i \in 0 .. n /\ i - 1 \in 0 .. n + 1 /\ i - 1 # n + 1
        BY <1>2, <3>2
      <4>2. h[i - 1] = g[i - 1]
        BY <4>1
      <4>3. g[i] = read[g[i - 1]].dec
        BY <2>1, <3>2, <4>1
      <4> QED BY <3>2, <4>2, <4>3
    <3>3. CASE i # n + 1 /\ i = 0
      <4>1. 0 \in 0 .. n
        BY <1>2
      <4> QED BY <2>1, <3>3, <4>1
    <3> QED BY <3>1, <3>2, <3>3
  <2>4. h = [i \in 0 .. n + 1 |-> IF i = 0 THEN d ELSE read[h[i - 1]].dec]
    <3> HIDE DEF v
    <3> QED BY <2>3
  <2> HIDE DEF h
  <2>5. Is(h, n + 1)
    BY <2>4
  <2> QED BY <2>5
<1>3. decoder_left(d) \in T
  <2> HIDE DEF T
  <2> QED BY <1>1, <1>2, NatSetInduction
<1> QED BY <1>3 DEF Loop

(* An item of a packed field. *)
ItemValue(type, n) == Value(type, n, TRUE)

PackedItem(in, type, d) ==
  IF type \in VarintTypes THEN decoder_read_varint(in, d) ELSE decoder_read_fixed(in, d, Width(type))

LEMMA ItemBack ==
  ASSUME NEW type \in VarintTypes \cup FixedTypes, NEW v \in Holds(type), NEW rest \in Seq(Byte),
         NEW in, NEW d, Left(in, d, ItemBytes(type, v) \o rest)
  PROVE  LET r == PackedItem(in, type, d)
         IN  Behind(in, d, r.dec, rest) /\ ItemValue(type, r.value) = v
<1>1. CASE type \in VarintTypes
  <2> DEFINE n == ItemToVarint(type, v)
             m == decoder_read_varint(in, d)
  <2>1. n \in 0 .. Word - 1 /\ ItemFromVarint(type, n) = v
    BY <1>1, ItemRoundTrip
  <2>2. ItemBytes(type, v) = VarintBytes(n)
    BY <1>1 DEF ItemBytes
  <2> HIDE DEF n
  <2>3. /\ m = [dec |-> Advanced(d, Len(VarintBytes(n))), value |-> n]
        /\ Left(in, Advanced(d, Len(VarintBytes(n))), rest)
    BY <2>1, <2>2, VarintRoundTrip
  <2>4. Advanced(d, Len(VarintBytes(n))).size = d.size
    BY DEF Advanced
  <2> QED BY <1>1, <2>1, <2>3, <2>4 DEF Behind, Value, ItemValue, PackedItem
<1>2. CASE type \notin VarintTypes
  <2> DEFINE m == decoder_read_fixed(in, d, Width(type))
  <2>1. type \in FixedTypes /\ ItemBytes(type, v) = FixedOf(type, v)
    BY <1>2 DEF ItemBytes
  <2>2. Left(in, d, FixedOf(type, v) \o rest)
    BY <2>1
  <2>3. /\ m.dec = Advanced(d, Width(type)) /\ FromFixed(type, m.value) = v
        /\ Left(in, m.dec, rest)
    BY <2>1, <2>2, FixedRoundTrip
  <2>4. Advanced(d, Width(type)).size = d.size
    BY DEF Advanced
  <2> HIDE DEF m
  <2> QED BY <1>2, <2>3, <2>4 DEF Behind, Value, ItemValue, m, PackedItem
<1> QED BY <1>1, <1>2

(* All items, to the end of their window. *)
LEMMA AllBack ==
  ASSUME NEW type \in VarintTypes \cup FixedTypes, NEW values \in Seq(Holds(type)), NEW in, NEW d,
         Left(in, d, FlattenSeq([i \in DOMAIN values |-> ItemBytes(type, values[i])]))
  PROVE  LET p == ReadAll(in, type, d)
         IN  Behind(in, d, p.dec, <<>>) /\ p.values = values
<1> DEFINE n == Len(values)
           items == [i \in 1 .. n |-> ItemBytes(type, values[i])]
           read == [e \in Decoders |-> IF type \in VarintTypes THEN decoder_read_varint(in, e)
                                       ELSE decoder_read_fixed(in, e, Width(type))]
           after == CHOOSE a : Loop(a, d, read)
           p == ReadAll(in, type, d)
           left == decoder_left(d)
           rest(i) == RestOf(items, i)
<1>1. n \in Nat /\ DOMAIN values = 1 .. n /\ (\A i \in 1 .. n : values[i] \in Holds(type))
  BY ElementOfSeq
<1>2. items \in Seq(Seq(Byte)) /\ Len(items) = n /\ \A i \in 1 .. n : items[i] = ItemBytes(type, values[i]) /\ items[i] # <<>>
  <2>1. ItemsOf(type) = Holds(type)
    <3>1. type \notin MessageTypes /\ type \notin PayloadTypes
      BY WireTypesAre
    <3> QED BY <3>1 DEF ItemsOf
  <2>2. ASSUME NEW i \in 1 .. n PROVE ItemBytes(type, values[i]) \in Seq(Byte) /\ ItemBytes(type, values[i]) # <<>>
    <3> DEFINE b == 0  e == [size |-> 0, pos |-> -1, buf |-> [j \in 0 .. -1 |-> 0]]
    <3>1. values[i] \in Holds(type) /\ values[i] \in Int
      BY <1>1, HeldNumbers
    <3>2. CASE type \in VarintTypes
      BY <3>1, <3>2, ToVarintInt, VarintBytesType DEF ItemBytes
    <3>3. CASE type \notin VarintTypes
      BY <3>1, <3>3, FixedOfType DEF ItemBytes
    <3> QED BY <3>2, <3>3
  <2>3. items \in [1 .. n -> Seq(Byte)]
    BY <2>2
  <2> HIDE DEF n
  <2> QED BY <1>1, <2>2, <2>3
<1>3. Left(in, d, rest(0)) /\ \A i \in 0 .. n : rest(i) \in Seq(Byte)
  <2>1. [i \in DOMAIN values |-> ItemBytes(type, values[i])] = items
    BY <1>1
  <2> HIDE DEF items
  <2> QED BY <1>2, <2>1, RestOfIs, RestOfAll
<1>4. ASSUME NEW i \in 0 .. n - 1
      PROVE  rest(i) = items[i + 1] \o rest(i + 1) /\ rest(i) # <<>>
  <2> HIDE DEF items, n
  <2>1. i \in 0 .. Len(items) /\ i < Len(items) /\ i + 1 \in 0 .. n /\ i + 1 \in 1 .. n
    BY <1>1, <1>2
  <2>2. rest(i) = items[i + 1] \o rest(i + 1)
    BY <1>2, <2>1, RestOfIs
  <2>3. items[i + 1] \in Seq(Byte) /\ items[i + 1] # <<>> /\ rest(i + 1) \in Seq(Byte)
    BY <1>2, <1>3, <2>1, ElementOfSeq
  <2> DEFINE a == items[i + 1]  b == rest(i + 1)
  <2> HIDE DEF a, b
  <2>4. a \o b # <<>>
    BY <2>3, EmptySeq, JoinOn DEF a, b
  <2> QED BY <2>2, <2>4 DEF a, b
<1>5. rest(n) = <<>>
  <2> HIDE DEF items, n
  <2>1. n \in 0 .. Len(items) /\ n = Len(items)
    BY <1>1, <1>2
  <2> QED BY <1>2, <2>1, RestOfIs
<1> HIDE DEF rest
<1>6. left \in Nat /\ d \in Decoders
  BY <1>1, <1>3, LeftIs DEF Left
<1>7. p = [dec |-> after[Turns(after)],
           values |-> [i \in 1 .. Turns(after) |-> ItemValue(type, read[after[i - 1]].value)]]
  BY DEF ReadAll, Loop, Turns, ItemValue
<1> DEFINE Reached(i) == /\ i <= left /\ Behind(in, d, after[i], rest(i))
                         /\ decoder_left(after[i]) <= left - i
           Turn(i) == /\ i + 1 <= left /\ after[i + 1] = read[after[i]].dec
                      /\ Behind(in, after[i], read[after[i]].dec, rest(i + 1))
                      /\ ItemValue(type, read[after[i]].value) = values[i + 1]
                      /\ pbtools_decoder_available(after[i])
                      /\ decoder_left(read[after[i]].dec) <= decoder_left(after[i]) - 1
<1>8. ASSUME NEW e, NEW i \in 0 .. n - 1, Behind(in, d, e, rest(i))
      PROVE  /\ Behind(in, e, read[e].dec, rest(i + 1)) /\ ItemValue(type, read[e].value) = values[i + 1]
             /\ pbtools_decoder_available(e)
             /\ decoder_left(e) \in Nat /\ decoder_left(read[e].dec) \in Int
             /\ decoder_left(read[e].dec) <= decoder_left(e) - 1 /\ decoder_left(e) >= 1
  <2>1. i \in 0 .. n /\ i + 1 \in 1 .. n /\ i + 1 \in 0 .. n
    BY <1>1
  <2>2. Left(in, e, rest(i)) /\ e \in Decoders
    BY <1>8 DEF Behind, Left
  <2> DEFINE r == PackedItem(in, type, e)
             v == values[i + 1]
             s == rest(i + 1)
             a == items[i + 1]
  <2>3. read[e] = r
    BY <2>2 DEF PackedItem
  <2>4. v \in Holds(type) /\ s \in Seq(Byte) /\ a = ItemBytes(type, v) /\ a \in Seq(Byte) /\ a # <<>>
    BY <1>1, <1>2, <1>3, <2>1, ElementOfSeq
  <2> HIDE DEF s, a, v, items, read
  <2>5. Left(in, e, a \o s) /\ Left(in, e, ItemBytes(type, v) \o s)
    BY <1>4, <2>2, <2>4 DEF s, a
  <2>6. Behind(in, e, r.dec, s) /\ ItemValue(type, r.value) = v
    BY <2>4, <2>5, ItemBack
  <2> HIDE DEF r
  <2>7. /\ Len(a \o s) = Len(a) + Len(s) /\ Len(a) \in Nat /\ Len(s) \in Nat /\ Len(a) # 0 /\ a \o s \in Seq(Byte)
    BY <2>4, JoinOn, EmptySeq
  <2>8. decoder_left(e) = Len(a \o s) /\ decoder_left(r.dec) = Len(s)
    BY <2>5, <2>6 DEF Left, Behind
  <2>9. pbtools_decoder_available(e)
    <3>1. a \o s # <<>>
      BY <1>4 DEF s, a
    <3> DEFINE c == a \o s
    <3> HIDE DEF c
    <3> QED BY <2>5, <2>7, <3>1, LeftIs DEF c
  <2>10. decoder_left(e) \in Nat /\ decoder_left(r.dec) \in Int
         /\ decoder_left(r.dec) <= decoder_left(e) - 1 /\ decoder_left(e) >= 1
    BY <2>7, <2>8
  <2> QED BY <2>3, <2>6, <2>9, <2>10 DEF s, v
<1> HIDE DEF read
<1>9. Loop(after, d, read)
  BY <1>6, LoopAlways
<1> HIDE DEF after, p
<1>10. after[0] = d /\ \A i \in 0 .. left : i # 0 => after[i] = read[after[i - 1]].dec
  BY <1>6, <1>9 DEF Loop
<1>11. ASSUME NEW i \in 0 .. n - 1, Reached(i) PROVE Turn(i) /\ Reached(i + 1)
  <2> DEFINE e == after[i]  f == read[e].dec
  <2>0. i <= left /\ Behind(in, d, e, rest(i)) /\ decoder_left(e) <= left - i
    BY <1>11
  <2> HIDE DEF e
  <2>1. /\ Behind(in, e, f, rest(i + 1)) /\ ItemValue(type, read[e].value) = values[i + 1]
        /\ pbtools_decoder_available(e)
        /\ decoder_left(e) \in Nat /\ decoder_left(f) \in Int
        /\ decoder_left(f) <= decoder_left(e) - 1 /\ decoder_left(e) >= 1
    BY <1>8, <2>0
  <2> HIDE DEF f
  <2>2. i \in Int /\ i + 1 \in 0 .. left /\ i + 1 # 0 /\ (i + 1) - 1 = i
    BY <1>1, <1>6, <2>0, <2>1
  <2>3. after[i + 1] = f
    BY <1>10, <2>2 DEF e, f
  <2>4. i + 1 <= left /\ decoder_left(f) <= left - (i + 1)
    BY <1>6, <2>0, <2>1, <2>2
  <2>5. Behind(in, d, f, rest(i + 1))
    BY <2>0, <2>1 DEF Behind
  <2> QED BY <2>1, <2>3, <2>4, <2>5 DEF e, f
<1>12. Reached(0)
  <2>1. decoder_left(after[0]) = left /\ 0 <= left /\ left <= left - 0
    BY <1>6, <1>10
  <2>2. Behind(in, d, after[0], rest(0))
    BY <1>3, <1>10 DEF Behind
  <2> QED BY <2>1, <2>2
<1> DEFINE T == {i \in Nat : i <= n => Reached(i)}
<1> HIDE DEF Reached, Turn
<1>13. \A i \in Nat : i \in T => i + 1 \in T
  <2> SUFFICES ASSUME NEW i \in Nat, i \in T, i + 1 <= n PROVE Reached(i + 1)
    OBVIOUS
  <2>1. i \in 0 .. n - 1 /\ i <= n
    BY <1>1
  <2> QED BY <1>11, <2>1
<1>14. \A i \in 0 .. n : Reached(i)
  <2>1. 0 \in T
    BY <1>12
  <2> HIDE DEF T
  <2>2. Nat \subseteq T
    BY <1>13, <2>1, NatSetInduction
  <2> QED BY <1>1, <2>2 DEF T
<1>15. n \in 0 .. left /\ ~ pbtools_decoder_available(after[n]) /\ Behind(in, d, after[n], <<>>)
  <2>1. Reached(n)
    BY <1>1, <1>14
  <2>2. n <= left /\ Behind(in, d, after[n], <<>>)
    BY <1>5, <2>1 DEF Reached
  <2>3. ~ pbtools_decoder_available(after[n])
    <3>1. Left(in, after[n], <<>>) /\ <<>> \in Seq(Byte)
      BY <2>2 DEF Behind
    <3> QED BY <3>1, LeftIs
  <2> QED BY <1>1, <1>6, <2>2, <2>3
<1>16. \A i \in 0 .. n - 1 : Turn(i)
  <2>1. \A i \in 0 .. n - 1 : i \in 0 .. n
    BY <1>1
  <2> QED BY <1>11, <1>14, <2>1
<1>17. Turns(after) = n
  <2> DEFINE ends == {i \in DOMAIN after : ~ pbtools_decoder_available(after[i])}
  <2>1. DOMAIN after = 0 .. left
    BY <1>9 DEF Loop
  <2>2. n \in ends /\ ends \in SUBSET Nat
    BY <1>6, <1>15, <2>1
  <2>3. \A i \in ends : ~ (i < n)
    <3> SUFFICES ASSUME NEW i \in ends, i < n PROVE FALSE
      OBVIOUS
    <3>1. i \in 0 .. n - 1
      BY <1>1, <1>6, <2>1
    <3>2. pbtools_decoder_available(after[i])
      BY <1>16, <3>1 DEF Turn
    <3> QED BY <3>2
  <2> HIDE DEF ends
  <2> DEFINE m == Min(ends)
  <2>4. m \in ends /\ m <= n /\ m \in Nat
    <3>1. m \in ends /\ m <= n
      BY <2>2, MinExists
    <3> HIDE DEF m
    <3> QED BY <2>2, <3>1
  <2> HIDE DEF m, n
  <2>5. m = n
    <3>1. ~ (m < n)
      BY <2>3, <2>4
    <3> QED BY <1>1, <2>4, <3>1
  <2> QED BY <2>5 DEF m, Turns, ends
<1>18. p.values = values
  <2>1. \A i \in 1 .. n : ItemValue(type, read[after[i - 1]].value) = values[i]
    <3> TAKE i \in 1 .. n
    <3>1. i - 1 \in 0 .. n - 1 /\ (i - 1) + 1 = i
      BY <1>1
    <3>2. Turn(i - 1)
      BY <1>16, <3>1
    <3> QED BY <3>1, <3>2 DEF Turn
  <2>2. p.values = [i \in 1 .. n |-> values[i]]
    BY <1>7, <1>17, <2>1
  <2>3. values = [i \in 1 .. n |-> values[i]]
    BY <1>1
  <2> QED BY <2>2, <2>3
<1>19. p.dec = after[n]
  BY <1>7, <1>17
<1> QED BY <1>15, <1>18, <1>19 DEF p
-----------------------------------------------------------------------------
(* A packed field whose tag was read. *)
PackedBytes(type, values) == FlattenSeq([i \in DOMAIN values |-> ItemBytes(type, values[i])])

LEMMA PackedType ==
  ASSUME NEW type \in VarintTypes \cup FixedTypes, NEW values \in Seq(Holds(type))
  PROVE  /\ [i \in DOMAIN values |-> ItemBytes(type, values[i])] \in Seq(Seq(Byte))
         /\ Len([i \in DOMAIN values |-> ItemBytes(type, values[i])]) = Len(values)
         /\ PackedBytes(type, values) \in Seq(Byte)
<1> DEFINE n == Len(values)
           items == [i \in DOMAIN values |-> ItemBytes(type, values[i])]
<1>1. n \in Nat /\ DOMAIN values = 1 .. n /\ \A i \in 1 .. n : values[i] \in Holds(type)
  BY ElementOfSeq
<1>2. \A i \in 1 .. n : ItemBytes(type, values[i]) \in Seq(Byte)
  BY <1>1, HeldNumbers, ToVarintInt, VarintBytesType, FixedOfType DEF ItemBytes
<1>3. items \in [1 .. n -> Seq(Byte)]
  BY <1>1, <1>2
<1> HIDE DEF items, n
<1>4. items \in Seq(Seq(Byte)) /\ Len(items) = n
  BY <1>1, <1>3
<1>5. FlattenSeq(items) \in Seq(Byte)
  BY <1>4, FlattenPlaces
<1> QED BY <1>4, <1>5 DEF PackedBytes, items, n

LEMMA PackedBack ==
  ASSUME NEW type \in VarintTypes \cup FixedTypes, NEW values \in Seq(Holds(type)),
         NEW rest \in Seq(Byte), NEW in, NEW d,
         Left(in, d, Content(LENGTH_DELIMITED, PackedBytes(type, values)) \o rest)
  PROVE  LET r == ReadPacked(in, type, d)
         IN  Behind(in, d, r.dec, rest) /\ r.values = values
<1> DEFINE body == PackedBytes(type, values)
           l == decoder_read_length_delimited(in, d, LENGTH_DELIMITED)
           s == decoder_init_slice(l.dec, int(l.value))
           p == ReadAll(in, type, s)
           r == ReadPacked(in, type, d)
<1>1. body \in Seq(Byte)
  BY PackedType
<1>2. ASSUME s \in Decoders
      PROVE  r = [dec |-> decoder_seek(l.dec, p.dec.pos), values |-> p.values]
  BY <1>2 DEF ReadPacked, decoder_get_result
<1> HIDE DEF r, p
<1>3. int(l.value) = Len(body) /\ Behind(in, d, l.dec, body \o rest)
  <2> HIDE DEF l
  <2> QED BY <1>1, LengthBack DEF l
<1> HIDE DEF l
<1>4. Left(in, s, body) /\ s.pos = 0 /\ s.size = Len(body) /\ s \in Decoders
  <2>1. Left(in, l.dec, body \o rest)
    BY <1>3 DEF Behind
  <2> HIDE DEF body
  <2>2. LET e == decoder_init_slice(l.dec, Len(body)) IN Left(in, e, body) /\ e.pos = 0 /\ e.size = Len(body)
    BY <1>1, <2>1, SliceTakes
  <2> QED BY <1>3, <2>2 DEF Left
<1> HIDE DEF s
<1>5. Behind(in, s, p.dec, <<>>) /\ p.values = values
  BY <1>4, AllBack DEF p, PackedBytes
<1>6. p.dec.pos = Len(body)
  <2>1. Left(in, p.dec, <<>>) /\ p.dec.size = Len(body) /\ <<>> \in Seq(Byte) /\ Len(<<>>) = 0
    BY <1>4, <1>5 DEF Behind
  <2> DEFINE e == p.dec
  <2> HIDE DEF e
  <2>2. e.size = e.pos + 0 /\ e.pos \in Nat
    BY <2>1, LeftIs DEF e
  <2> QED BY <2>1, <2>2 DEF e
<1>7. Behind(in, l.dec, decoder_seek(l.dec, Len(body)), rest)
  <2> HIDE DEF body
  <2> QED BY <1>1, <1>3, SeekBehind DEF Behind
<1>8. r.dec = decoder_seek(l.dec, Len(body)) /\ r.values = values
  BY <1>2, <1>4, <1>5, <1>6
<1> QED BY <1>3, <1>7, <1>8 DEF r, Behind

(* What the scan counts of a repeated field: its record is skipped, and of a
   packed field the items are counted. *)
LEMMA CountOneBack ==
  ASSUME NEW type \in PayloadTypes \cup MessageTypes, NEW body \in Seq(Byte), NEW rest \in Seq(Byte),
         NEW in, NEW d, Left(in, d, Content(LENGTH_DELIMITED, body) \o rest)
  PROVE  LET c == CountItems(in, type, d, LENGTH_DELIMITED)
         IN  Behind(in, d, c.dec, rest) /\ c.count = 1
<1> DEFINE l == decoder_read_length_delimited(in, d, LENGTH_DELIMITED)
           c == CountItems(in, type, d, LENGTH_DELIMITED)
<1>1. c = [dec |-> decoder_seek(l.dec, int(l.value)), count |-> 1]
  BY CountMember
<1> HIDE DEF c, l
<1>2. int(l.value) = Len(body) /\ Behind(in, d, l.dec, body \o rest)
  BY LengthBack DEF l
<1>3. Behind(in, l.dec, decoder_seek(l.dec, Len(body)), rest)
  BY <1>2, SeekBehind DEF Behind
<1>4. c.dec = decoder_seek(l.dec, Len(body)) /\ c.count = 1
  BY <1>1, <1>2
<1> QED BY <1>2, <1>3, <1>4 DEF Behind, c

LEMMA CountPackedBack ==
  ASSUME NEW type \in VarintTypes \cup FixedTypes, NEW values \in Seq(Holds(type)),
         NEW rest \in Seq(Byte), NEW in, NEW d,
         Left(in, d, Content(LENGTH_DELIMITED, PackedBytes(type, values)) \o rest)
  PROVE  LET c == CountItems(in, type, d, LENGTH_DELIMITED)
         IN  Behind(in, d, c.dec, rest) /\ c.count = Len(values)
<1> DEFINE body == PackedBytes(type, values)
           l == decoder_read_length_delimited(in, d, LENGTH_DELIMITED)
           c == CountItems(in, type, d, LENGTH_DELIMITED)
           items == [i \in DOMAIN values |-> ItemBytes(type, values[i])]
<1>1. CASE type \in VarintTypes
  <2> DEFINE p == ReadPacked(in, type, d)
  <2>1. c = [dec |-> p.dec, count |-> Len(p.values)]
    BY <1>1, CountPackedVarints
  <2> HIDE DEF p, c
  <2>2. Behind(in, d, p.dec, rest) /\ p.values = values
    BY PackedBack DEF p
  <2> QED BY <2>1, <2>2 DEF c
<1>2. CASE type \in FixedTypes
  <2> DEFINE w == Width(type)
  <2>1. c = [dec |-> decoder_seek(l.dec, int(l.value)), count |-> int(l.value) \div w]
    BY <1>2, CountPackedFixed
  <2>2. body \in Seq(Byte) /\ items \in Seq(Seq(Byte)) /\ Len(items) = Len(values) /\ body = FlattenSeq(items)
    BY PackedType DEF PackedBytes
  <2>3. w \in Nat \ {0} /\ \A i \in 1 .. Len(items) : Len(items[i]) = w
    <3>1. w \in Nat \ {0}
      BY WidthIs
    <3>2. ASSUME NEW i \in 1 .. Len(values) PROVE items[i] = FixedOf(type, values[i]) /\ values[i] \in Int
      <4>1. type \notin VarintTypes /\ i \in DOMAIN values /\ values[i] \in Holds(type)
        BY <1>2, WireTypesAre, ElementOfSeq
      <4> QED BY <4>1, HeldNumbers DEF ItemBytes
    <3> HIDE DEF items
    <3> QED BY <1>2, <2>2, <3>1, <3>2, FixedOfType
  <2> HIDE DEF c, l, body, items, w
  <2>4. Len(body) = w * Len(values)
    BY <2>2, <2>3, FlattenWidth
  <2>5. Len(body) \div w = Len(values)
    <3>1. Len(values) \in Nat /\ 0 \in 0 .. w - 1
      BY <2>3
    <3> DEFINE n == Len(values)
    <3> HIDE DEF n
    <3>2. (0 + w * n) \div w = n
      BY <2>3, <3>1, DivideBack DEF n
    <3>3. 0 + w * n = w * n
      BY <2>3, <3>1 DEF n
    <3> QED BY <2>4, <3>2, <3>3 DEF n
  <2>6. int(l.value) = Len(body) /\ Behind(in, d, l.dec, body \o rest)
    BY <2>2, LengthBack DEF l, body
  <2>7. Behind(in, l.dec, decoder_seek(l.dec, Len(body)), rest)
    BY <2>2, <2>6, SeekBehind DEF Behind
  <2>8. c.dec = decoder_seek(l.dec, Len(body)) /\ c.count = Len(values)
    BY <2>1, <2>5, <2>6
  <2> QED BY <2>6, <2>7, <2>8 DEF Behind, c
<1> QED BY <1>1, <1>2

(* What the second pass reads of one record. *)
GotOne(in, d, r, rest, value) ==
  r.refused # "" \/ (Behind(in, d, r.dec, rest) /\ r.values = <<value>>)

LEMMA GroupPayloadBack ==
  ASSUME NEW type \in PayloadTypes, NEW v \in Seq(Byte), NEW rest \in Seq(Byte), NEW in, NEW d, NEW h,
         Left(in, d, Content(LENGTH_DELIMITED, Payload(type, v)) \o rest)
  PROVE  LET r == ReadGroup(in, type, d, h, LENGTH_DELIMITED)
         IN  GotOne(in, d, r, rest, Payload(type, v))
<1> DEFINE r == ReadGroup(in, type, d, h, LENGTH_DELIMITED)
           one == decoder_read_payload(in, type, d, h, LENGTH_DELIMITED)
<1>1. r = [dec |-> one.dec, heap |-> one.heap, values |-> <<one.value>>, refused |-> one.refused]
  BY DEF ReadGroup, ReadLeaf
<1> HIDE DEF r, one
<1>2. Got(in, d, one, rest, Payload(type, v))
  BY PayloadBack DEF one
<1>3. r.refused = one.refused /\ r.dec = one.dec /\ r.values = <<one.value>>
  BY <1>1
<1> QED BY <1>2, <1>3 DEF r, Got, GotOne

LEMMA GroupPackedBack ==
  ASSUME NEW type \in VarintTypes \cup FixedTypes, NEW values \in Seq(Holds(type)),
         NEW rest \in Seq(Byte), NEW in, NEW d, NEW h,
         Left(in, d, Content(LENGTH_DELIMITED, PackedBytes(type, values)) \o rest)
  PROVE  LET r == ReadGroup(in, type, d, h, LENGTH_DELIMITED)
         IN  Behind(in, d, r.dec, rest) /\ r.values = values
<1> DEFINE r == ReadGroup(in, type, d, h, LENGTH_DELIMITED)
           p == ReadPacked(in, type, d)
<1>1. r = [dec |-> p.dec, heap |-> h, values |-> p.values, refused |-> ""]
  BY WireTypesAre DEF ReadGroup
<1> HIDE DEF r, p
<1>2. r.dec = p.dec /\ r.values = p.values
  BY <1>1
<1> QED BY <1>2, PackedBack DEF r, p
-----------------------------------------------------------------------------
(* The functions of the levels, and what they come to: the encoding of a struct,
   and what of it is sent, are made of those of its sub-messages. *)
LEMMA WithinSteps ==
  Within[0] = {} /\ \A k \in 1 .. Nesting : Within[k] = {x \in Structs : SubMessages(x) \subseteq Within[k - 1]}
<1> DEFINE S == SUBSET Structs
           up(s) == {x \in Structs : SubMessages(x) \subseteq s}
           step == [i \in 1 .. Nesting |-> [s \in S |-> up(s)]]
           Is(f) == f = [levels \in 0 .. Nesting |-> IF levels = 0 THEN {} ELSE up(f[levels - 1])]
<1>1. Nesting \in Nat /\ {} \in S /\ \A s \in S : up(s) \in S
  BY SourceAssumption
<1>2. Within = CHOOSE f : Is(f)
  BY DEF Within
<1> HIDE DEF up, S
<1>3. step \in [1 .. Nesting -> [S -> S]]
  BY <1>1
<1>4. PICK g \in [0 .. Nesting -> S] : Iterates(g, Nesting, {}, step)
  <2> HIDE DEF step
  <2> QED BY <1>1, <1>3, Recursion, Zenon
<1>5. \A i \in 0 .. Nesting : i # 0 => step[i][g[i - 1]] = up(g[i - 1])
  <2> TAKE i \in 0 .. Nesting
  <2> HAVE i # 0
  <2>1. i - 1 \in 0 .. Nesting /\ i \in 1 .. Nesting
    BY <1>1
  <2>2. g[i - 1] \in S
    BY <2>1
  <2> QED BY <2>1, <2>2
<1>6. g = [i \in 0 .. Nesting |-> IF i = 0 THEN {} ELSE step[i][g[i - 1]]]
  BY <1>4 DEF Iterates
<1> HIDE DEF step
<1>7. Is(g)
  BY <1>5, <1>6
<1>8. Is(Within)
  <2> HIDE DEF Is
  <2> QED BY <1>2, <1>7
<1>9. Within[0] = {}
  BY <1>1, <1>8
<1>10. \A k \in 1 .. Nesting : Within[k] = up(Within[k - 1])
  <2> TAKE k \in 1 .. Nesting
  <2>1. k \in 0 .. Nesting /\ k # 0
    OBVIOUS
  <2> QED BY <1>8, <2>1
<1> QED BY <1>9, <1>10 DEF up

SentOf(x, inner) ==
  [n \in FieldsOf(x[1]) |-> [i \in DOMAIN x[2][n] |-> SentValue(TypeOf(x[1], n), x[2][n][i], inner)]]

LEMMA SentSteps ==
  \A k \in 1 .. Nesting : SentWithin[k] = [x \in Structs |-> SentOf(x, SentWithin[k - 1])]
<1> DEFINE a == [x \in Structs |-> x[2]]
           up(s) == [x \in Structs |-> SentOf(x, s)]
           To(f, n) == f = [levels \in 0 .. n |-> IF levels = 0 THEN a ELSE up(f[levels - 1])]
           T == {n \in Nat : \E g : To(g, n)}
<1>1. SentWithin = CHOOSE f : To(f, Nesting)
  BY DEF SentWithin, SentOf
<1> HIDE DEF up, a
<1>2. 0 \in T
  <2> DEFINE g == [i \in 0 .. 0 |-> a]
  <2>1. To(g, 0)
    OBVIOUS
  <2> QED BY <2>1
<1>3. ASSUME NEW n \in Nat, n \in T PROVE n + 1 \in T
  <2>1. PICK g : To(g, n)
    BY <1>3
  <2> DEFINE v(i) == IF i = n + 1 THEN up(g[n]) ELSE g[i]
             h == [i \in 0 .. n + 1 |-> v(i)]
  <2>2. ASSUME NEW i \in 0 .. n + 1 PROVE v(i) = IF i = 0 THEN a ELSE up(h[i - 1])
    <3>1. CASE i = n + 1
      <4>1. i - 1 = n /\ i # 0 /\ n \in 0 .. n + 1 /\ n # n + 1
        BY <1>3, <3>1
      <4>2. h[i - 1] = g[n]
        BY <4>1
      <4> QED BY <3>1, <4>1, <4>2
    <3>2. CASE i # n + 1 /\ i # 0
      <4>1. i \in 0 .. n /\ i - 1 \in 0 .. n + 1 /\ i - 1 # n + 1
        BY <1>3, <3>2
      <4>2. h[i - 1] = g[i - 1]
        BY <4>1
      <4>3. g[i] = up(g[i - 1])
        BY <2>1, <3>2, <4>1
      <4> QED BY <3>2, <4>2, <4>3
    <3>3. CASE i # n + 1 /\ i = 0
      <4>1. 0 \in 0 .. n
        BY <1>3
      <4> QED BY <2>1, <3>3, <4>1
    <3> QED BY <3>1, <3>2, <3>3
  <2>3. h = [i \in 0 .. n + 1 |-> IF i = 0 THEN a ELSE up(h[i - 1])]
    <3> HIDE DEF v
    <3> QED BY <2>2
  <2> HIDE DEF h
  <2>4. To(h, n + 1)
    BY <2>3
  <2> QED BY <2>4
<1>4. Nesting \in T
  <2> HIDE DEF T
  <2> QED BY <1>2, <1>3, NatSetInduction, SourceAssumption
<1>5. To(SentWithin, Nesting)
  <2>1. PICK g : To(g, Nesting)
    BY <1>4
  <2> HIDE DEF To
  <2> QED BY <1>1, <2>1
<1>6. \A k \in 1 .. Nesting : SentWithin[k] = up(SentWithin[k - 1])
  <2> TAKE k \in 1 .. Nesting
  <2>1. k \in 0 .. Nesting /\ k # 0
    OBVIOUS
  <2> QED BY <1>5, <2>1
<1> QED BY <1>6 DEF up

(* A sub-message of a struct. *)
LEMMA SubMessageIs ==
  ASSUME NEW x \in Structs, NEW n \in FieldsOf(x[1]), TypeOf(x[1], n) \in MessageTypes,
         NEW i \in DOMAIN x[2][n]
  PROVE  LET y == <<TypeOf(x[1], n), x[2][n][i]>> IN y \in Structs /\ y \in SubMessages(x)
<1> DEFINE type == TypeOf(x[1], n)
           values == x[2][n]
           v == values[i]
<1>1. FieldHolds(x[1], n, values)
  BY StructHolds
<1>2. values \in Seq(Sources[type])
  BY <1>1, ItemsAreOf DEF FieldHolds
<1>3. v \in Sources[type] /\ v \in Range(values)
  <2>0. i \in DOMAIN values
    OBVIOUS
  <2> HIDE DEF values, type
  <2>1. i \in 1 .. Len(values)
    BY <1>2, <2>0
  <2> QED BY <1>2, <2>1, ElementOfSeq DEF Range
<1>4. <<type, v>> \in Structs
  BY <1>3 DEF Structs
<1>5. <<type, v>> \in SubMessages(x)
  BY <1>3 DEF SubMessages
<1> QED BY <1>4, <1>5

(* The records and what is sent depend on sub-messages by what is inside only. *)
LEMMA SameInside ==
  ASSUME NEW x \in Structs, NEW p, NEW q, \A y \in SubMessages(x) : p[y] = q[y]
  PROVE  /\ \A n \in FieldsOf(x[1]) : RecordsOf(x[1], n, x[2][n], p) = RecordsOf(x[1], n, x[2][n], q)
         /\ RecordsIn(x[1], x[2], p) = RecordsIn(x[1], x[2], q)
         /\ SentOf(x, p) = SentOf(x, q)
<1> DEFINE t == x[1]  m == x[2]
<1>1. ASSUME NEW n \in FieldsOf(t) PROVE RecordsOf(t, n, m[n], p) = RecordsOf(t, n, m[n], q)
  <2> DEFINE type == TypeOf(t, n)
  <2>1. CASE type \in MessageTypes
    <3>1. \A i \in DOMAIN m[n] : p[<<type, m[n][i]>>] = q[<<type, m[n][i]>>]
      BY <2>1, SubMessageIs
    <3> DEFINE r(s) == [i \in DOMAIN m[n] |-> Record(n, WireTypeOf(type), s[<<type, m[n][i]>>])]
    <3>2. r(p) = r(q)
      BY <3>1
    <3>3. RecordsOf(t, n, m[n], p) = r(p) /\ RecordsOf(t, n, m[n], q) = r(q)
      BY <2>1 DEF RecordsOf
    <3> QED BY <3>2, <3>3
  <2>2. CASE type \notin MessageTypes
    BY <2>2 DEF RecordsOf
  <2> QED BY <2>1, <2>2
<1>2. RecordsIn(t, m, p) = RecordsIn(t, m, q)
  <2> DEFINE order == FieldOrder(t)
             r(s) == [i \in DOMAIN order |-> RecordsOf(t, order[i], m[order[i]], s)]
  <2>1. t \in MessageTypes
    BY StructHolds
  <2>2. \A i \in DOMAIN order : order[i] \in FieldsOf(t)
    <3>1. order \in Seq(FieldsOf(t))
      BY <2>1, FieldOrderIs
    <3> HIDE DEF order
    <3> QED BY <3>1
  <2>3. r(p) = r(q)
    BY <1>1, <2>2
  <2> QED BY <2>3 DEF RecordsIn
<1>3. SentOf(x, p) = SentOf(x, q)
  <2>1. ASSUME NEW n \in FieldsOf(t), NEW i \in DOMAIN m[n]
        PROVE  SentValue(TypeOf(t, n), m[n][i], p) = SentValue(TypeOf(t, n), m[n][i], q)
    <3>1. TypeOf(t, n) \in MessageTypes => p[<<TypeOf(t, n), m[n][i]>>] = q[<<TypeOf(t, n), m[n][i]>>]
      BY SubMessageIs
    <3> QED BY <3>1 DEF SentValue
  <2> QED BY <2>1 DEF SentOf
<1> QED BY <1>1, <1>2, <1>3

(* Whatever is inside, of a struct with so many levels. *)
LEMMA LevelsSettle ==
  \A k \in 0 .. Nesting : \A x \in Within[k] : \A j \in k .. Nesting :
    /\ EncodingWithin[j][x] = FlattenSeq(RecordsIn(x[1], x[2], Encoding))
    /\ SentWithin[j][x] = SentOf(x, Sent)
<1> DEFINE e(x) == FlattenSeq(RecordsIn(x[1], x[2], Encoding))
           Settled(k) == \A x \in Within[k] : \A j \in k .. Nesting :
                           EncodingWithin[j][x] = e(x) /\ SentWithin[j][x] = SentOf(x, Sent)
           T == {k \in Nat : k \in 0 .. Nesting => Settled(k)}
<1>1. Nesting \in Nat
  BY SourceAssumption
<1>2. 0 \in T
  BY WithinSteps
<1>3. ASSUME NEW k \in Nat, k \in T PROVE k + 1 \in T
  <2> SUFFICES ASSUME k + 1 \in 0 .. Nesting, NEW x \in Within[k + 1], NEW j \in k + 1 .. Nesting
               PROVE  EncodingWithin[j][x] = e(x) /\ SentWithin[j][x] = SentOf(x, Sent)
    OBVIOUS
  <2>1. /\ k + 1 \in 1 .. Nesting /\ (k + 1) - 1 = k /\ k \in 0 .. Nesting
        /\ j \in 1 .. Nesting /\ j - 1 \in k .. Nesting /\ Nesting \in k .. Nesting
    BY <1>1
  <2>2. x \in Structs /\ SubMessages(x) \subseteq Within[k]
    BY <2>1, WithinSteps
  <2>3. Settled(k)
    BY <1>3, <2>1
  <2>4. \A y \in SubMessages(x) : /\ EncodingWithin[j - 1][y] = Encoding[y]
                                  /\ SentWithin[j - 1][y] = Sent[y]
    <3> TAKE y \in SubMessages(x)
    <3>1. y \in Within[k]
      BY <2>2
    <3>2. EncodingWithin[j - 1][y] = e(y) /\ EncodingWithin[Nesting][y] = e(y)
      BY <2>1, <2>3, <3>1
    <3>3. SentWithin[j - 1][y] = SentOf(y, Sent) /\ SentWithin[Nesting][y] = SentOf(y, Sent)
      BY <2>1, <2>3, <3>1
    <3> QED BY <3>2, <3>3 DEF Encoding, Sent
  <2>5. /\ EncodingWithin[j][x] = FlattenSeq(RecordsIn(x[1], x[2], EncodingWithin[j - 1]))
        /\ SentWithin[j][x] = SentOf(x, SentWithin[j - 1])
    <3>1. EncodingWithin[j] = [z \in Structs |-> FlattenSeq(RecordsIn(z[1], z[2], EncodingWithin[j - 1]))]
      BY <2>1, EncodingSteps
    <3>2. SentWithin[j] = [z \in Structs |-> SentOf(z, SentWithin[j - 1])]
      BY <2>1, SentSteps
    <3> QED BY <2>2, <3>1, <3>2
  <2>6. RecordsIn(x[1], x[2], EncodingWithin[j - 1]) = RecordsIn(x[1], x[2], Encoding)
    BY <2>2, <2>4, SameInside
  <2>7. SentOf(x, SentWithin[j - 1]) = SentOf(x, Sent)
    BY <2>2, <2>4, SameInside
  <2> QED BY <2>5, <2>6, <2>7
<1>4. Nat \subseteq T
  <2> HIDE DEF T
  <2> QED BY <1>2, <1>3, NatSetInduction
<1> QED BY <1>4

LEMMA WholeIs ==
  /\ Encoding \in [Structs -> Seq(Byte)]
  /\ \A x \in Structs : /\ Encoding[x] = FlattenSeq(RecordsIn(x[1], x[2], Encoding))
                        /\ Sent[x] = SentOf(x, Sent)
<1>1. Nesting \in Nat /\ Nesting \in 0 .. Nesting /\ Nesting \in Nesting .. Nesting /\ Within[Nesting] = Structs
  BY SourceAssumption
<1>2. Encoding \in [Structs -> Seq(Byte)]
  BY <1>1, EncodingSteps DEF Encoding
<1>3. \A x \in Structs : /\ EncodingWithin[Nesting][x] = FlattenSeq(RecordsIn(x[1], x[2], Encoding))
                         /\ SentWithin[Nesting][x] = SentOf(x, Sent)
  BY <1>1, LevelsSettle
<1> QED BY <1>2, <1>3 DEF Encoding, Sent

(* The order of the fields has each field once. *)
LEMMA FieldOrderAll ==
  ASSUME NEW t \in MessageTypes
  PROVE  EachOnce(FieldOrder(t), FieldsOf(t))
<1> DEFINE F == FieldsOf(t)
           one == {n \in F : InOneof(t, n)}
           p == InOrder(one)
           q == InOrder(F \ one)
           order == FieldOrder(t)
<1>1. IsFiniteSet(F) /\ F \subseteq Nat
  BY MessageAssumption
<1>2. /\ one \in SUBSET F /\ (F \ one) \in SUBSET F /\ order = Reverse(p) \o q /\ order \in Seq(F)
  BY FieldOrderIs DEF FieldOrder
<1> HIDE DEF one, F, order
<1>3. IsFiniteSet(one) /\ one \subseteq Nat /\ IsFiniteSet(F \ one) /\ (F \ one) \subseteq Nat
  BY <1>1, <1>2, FS_Subset
<1>4. /\ p \in Seq(one) /\ \A i, j \in 1 .. Len(p) : p[i] = p[j] => i = j
      /\ \A x \in one : \E i \in 1 .. Len(p) : p[i] = x
  BY <1>3, InOrderIs
<1>5. /\ q \in Seq(F \ one) /\ \A i, j \in 1 .. Len(q) : q[i] = q[j] => i = j
      /\ \A x \in F \ one : \E i \in 1 .. Len(q) : q[i] = x
  BY <1>3, InOrderIs
<1> HIDE DEF p, q
<1> DEFINE a == Len(p)  b == Len(q)  r == Reverse(p)
<1>6. a \in Nat /\ b \in Nat
  BY <1>4, <1>5
<1>7. r = [i \in 1 .. a |-> p[a - i + 1]]
  BY DEF Reverse
<1>8. /\ r \in Seq(one) /\ Len(r) = a /\ \A i \in 1 .. a : r[i] = p[a - i + 1] /\ a - i + 1 \in 1 .. a
      /\ \A i \in 1 .. a : r[i] \in one
  <2>0. a = Len(p)
    OBVIOUS
  <2> HIDE DEF r, a
  <2>1. \A i \in 1 .. a : a - i + 1 \in 1 .. a
    BY <1>6
  <2>2. \A i \in 1 .. a : p[a - i + 1] \in one
    BY <1>4, <2>0, <2>1, ElementOfSeq
  <2>3. r \in [1 .. a -> one]
    BY <1>7, <2>2
  <2> QED BY <1>6, <1>7, <2>1, <2>2, <2>3
<1>9. \A i \in 1 .. b : q[i] \in F \ one
  BY <1>5, ElementOfSeq
<1> HIDE DEF r
<1>10. /\ Len(order) = a + b /\ \A i \in 1 .. a : order[i] = r[i]
       /\ \A i \in 1 .. b : order[a + i] = q[i]
  <2>1. r \in Seq(F)
    <3>1. r \in [1 .. a -> F]
      <4>1. \A i \in 1 .. a : r[i] \in F
        BY <1>2, <1>8
      <4>2. r = [i \in 1 .. a |-> r[i]]
        BY <1>7
      <4> HIDE DEF a
      <4> QED BY <4>1, <4>2
    <3> HIDE DEF a
    <3> QED BY <1>6, <3>1
  <2>2. q \in Seq(F)
    <3>1. q \in [1 .. b -> F]
      <4>1. q = [i \in 1 .. b |-> q[i]]
        BY <1>5
      <4>2. \A i \in 1 .. b : q[i] \in F
        BY <1>9
      <4> HIDE DEF b
      <4> QED BY <4>1, <4>2
    <3> HIDE DEF b
    <3> QED BY <1>6, <3>1
  <2>3. Joined(r \o q, r, q)
    BY <2>1, <2>2, JoinedIs
  <2>4. order = r \o q
    BY <1>2 DEF r
  <2> HIDE DEF a, b
  <2> QED BY <1>8, <2>3, <2>4 DEF Joined, b
<1>11. ASSUME NEW i \in 1 .. Len(order) PROVE i \in 1 .. a \/ (i - a \in 1 .. b /\ i = a + (i - a))
  <2> HIDE DEF a, b
  <2> QED BY <1>6, <1>10
<1>12. ASSUME NEW i \in 1 .. Len(order), NEW j \in 1 .. Len(order), order[i] = order[j] PROVE i = j
  <2> DEFINE c == i - a  d == j - a
  <2>1. CASE i \in 1 .. a /\ j \in 1 .. a
    <3>1. p[a - i + 1] = p[a - j + 1] /\ a - i + 1 \in 1 .. a /\ a - j + 1 \in 1 .. a
      BY <1>8, <1>10, <1>12, <2>1
    <3>2. a - i + 1 = a - j + 1
      BY <1>4, <3>1
    <3> HIDE DEF a
    <3> QED BY <1>6, <2>1, <3>2
  <2>2. CASE i \in 1 .. a /\ j \notin 1 .. a
    <3>1. d \in 1 .. b /\ j = a + d
      BY <1>11, <2>2
    <3> HIDE DEF d
    <3>2. order[i] \in one /\ order[j] \notin one
      BY <1>8, <1>9, <1>10, <2>2, <3>1
    <3> QED BY <1>12, <3>2
  <2>3. CASE i \notin 1 .. a /\ j \in 1 .. a
    <3>1. c \in 1 .. b /\ i = a + c
      BY <1>11, <2>3
    <3> HIDE DEF c
    <3>2. order[j] \in one /\ order[i] \notin one
      BY <1>8, <1>9, <1>10, <2>3, <3>1
    <3> QED BY <1>12, <3>2
  <2>4. CASE i \notin 1 .. a /\ j \notin 1 .. a
    <3>1. c \in 1 .. b /\ i = a + c /\ d \in 1 .. b /\ j = a + d
      BY <1>11, <2>4
    <3> HIDE DEF c, d
    <3>2. q[c] = q[d]
      BY <1>10, <1>12, <3>1
    <3> QED BY <1>5, <3>1, <3>2
  <2> QED BY <2>1, <2>2, <2>3, <2>4
<1>13. ASSUME NEW n \in F PROVE \E i \in 1 .. Len(order) : order[i] = n
  <2>1. CASE n \in one
    <3>1. PICK i \in 1 .. a : p[i] = n
      BY <1>4, <2>1
    <3> DEFINE k == a - i + 1
    <3>2. k \in 1 .. a /\ a - k + 1 = i /\ k \in 1 .. Len(order)
      <4> HIDE DEF a, b
      <4> QED BY <1>6, <1>10
    <3> HIDE DEF k
    <3>3. order[k] = n
      BY <1>8, <1>10, <3>1, <3>2
    <3> QED BY <3>2, <3>3
  <2>2. CASE n \notin one
    <3>1. PICK i \in 1 .. b : q[i] = n
      BY <1>5, <2>2
    <3>2. a + i \in 1 .. Len(order) /\ order[a + i] = n
      <4> HIDE DEF a, b
      <4> QED BY <1>6, <1>10, <3>1
    <3> QED BY <3>2
  <2> QED BY <2>1, <2>2
<1> QED BY <1>2, <1>12, <1>13 DEF F, order, EachOnce
-----------------------------------------------------------------------------
(* The records of a struct, and each field's: Wire and Body say what they are. *)
Parts(x) == [n \in FieldsOf(x[1]) |-> RecordsOf(x[1], n, x[2][n], Encoding)]

All(x) == RecordsIn(x[1], x[2], Encoding)

First(x) == CHOOSE first : Layout(All(x), first, Parts(x), FieldsOf(x[1]))

Numbers(t, n) == TypeOf(t, n) \in VarintTypes \cup FixedTypes

Repeated(t, n) == n \in RepeatedFields(t)

Wire(t, n) == IF Repeated(t, n) THEN LENGTH_DELIMITED ELSE WireTypeOf(TypeOf(t, n))

Body(x, n, i) ==
  LET type == TypeOf(x[1], n)  values == x[2][n]
  IN  IF type \in MessageTypes THEN Encoding[<<type, values[i]>>]
      ELSE IF Repeated(x[1], n) /\ Numbers(x[1], n) THEN PackedBytes(type, values)
      ELSE ValueBytes(type, values[i])

RecordsOK(x, n, r, values) ==
  /\ r \in Seq(Seq(Byte))
  /\ \A i \in 1 .. Len(r) : /\ i \in 1 .. Len(values) /\ Body(x, n, i) \in Seq(Byte)
                            /\ r[i] = Record(n, Wire(x[1], n), Body(x, n, i))
  /\ Repeated(x[1], n) =>
       Len(r) = IF Numbers(x[1], n) THEN (IF values = <<>> THEN 0 ELSE 1) ELSE Len(values)
  /\ ~ Repeated(x[1], n) =>
       Len(r) <= 1 /\ Len(values) <= 1 /\ (Len(r) = 0 => Sent[x][n] = DefaultOf(x[1], n))

SentForm(x, n, values) ==
  Sent[x][n] = [i \in 1 .. Len(values) |-> SentValue(TypeOf(x[1], n), values[i], Sent)]

(* A field as the records have it. *)
LEMMA FieldIs ==
  ASSUME NEW x \in Structs, NEW n \in FieldsOf(x[1])
  PROVE  /\ x[1] \in MessageTypes /\ n \in Nat \ {0}
         /\ Parts(x)[n] = RecordsOf(x[1], n, x[2][n], Encoding)
         /\ FieldHolds(x[1], n, x[2][n])
         /\ x[2][n] \in Seq(ItemsOf(TypeOf(x[1], n))) /\ DOMAIN x[2][n] = 1 .. Len(x[2][n])
         /\ \A i \in 1 .. Len(x[2][n]) : x[2][n][i] \in ItemsOf(TypeOf(x[1], n))
         /\ SentForm(x, n, x[2][n])
         /\ TypeOf(x[1], n) \in MessageTypes \/ TypeOf(x[1], n) \in LeafTypes
         /\ Repeated(x[1], n) <=> LabelOf(x[1], n) = "repeated"
<1>1. x[1] \in MessageTypes /\ FieldHolds(x[1], n, x[2][n])
  BY StructHolds
<1>2. n \in Nat \ {0} /\ (TypeOf(x[1], n) \in MessageTypes \/ TypeOf(x[1], n) \in LeafTypes)
  BY <1>1, MessageAssumption
<1>3. Parts(x)[n] = RecordsOf(x[1], n, x[2][n], Encoding)
  BY DEF Parts
<1>4. x[2][n] \in Seq(ItemsOf(TypeOf(x[1], n)))
  BY <1>1 DEF FieldHolds
<1> DEFINE values == x[2][n]  S == ItemsOf(TypeOf(x[1], n))
<1>5. DOMAIN values = 1 .. Len(values) /\ \A i \in 1 .. Len(values) : values[i] \in S
  <2>1. values \in Seq(S)
    BY <1>4
  <2> HIDE DEF values, S
  <2> QED BY <2>1, ElementOfSeq
<1>6. SentForm(x, n, values)
  <2>1. Sent[x] = SentOf(x, Sent)
    BY WholeIs
  <2> QED BY <1>5, <2>1 DEF SentOf, SentForm
<1>7. Repeated(x[1], n) <=> LabelOf(x[1], n) = "repeated"
  BY DEF Repeated, RepeatedFields
<1> QED BY <1>1, <1>2, <1>3, <1>4, <1>5, <1>6, <1>7

LEMMA MessageRecords ==
  ASSUME NEW x \in Structs, NEW n \in FieldsOf(x[1]), TypeOf(x[1], n) \in MessageTypes
  PROVE  RecordsOK(x, n, Parts(x)[n], x[2][n])
<1> DEFINE t == x[1]
           type == TypeOf(t, n)
           values == x[2][n]
           r == [i \in 1 .. Len(values) |-> Record(n, LENGTH_DELIMITED, Encoding[<<type, values[i]>>])]
<1>1. /\ n \in Nat \ {0} /\ Parts(x)[n] = RecordsOf(t, n, values, Encoding)
      /\ FieldHolds(t, n, values) /\ SentForm(x, n, values)
      /\ DOMAIN values = 1 .. Len(values) /\ Len(values) \in Nat
      /\ (Repeated(t, n) <=> LabelOf(t, n) = "repeated")
  BY FieldIs
<1>2. WireTypeOf(type) = LENGTH_DELIMITED /\ LENGTH_DELIMITED \in Nat /\ ~ Numbers(t, n)
  BY WireTypesAre DEF Numbers
<1>3. Parts(x)[n] = r
  BY <1>1, <1>2 DEF RecordsOf
<1>4. ASSUME NEW i \in 1 .. Len(values)
      PROVE  /\ Body(x, n, i) = Encoding[<<type, values[i]>>] /\ Body(x, n, i) \in Seq(Byte)
             /\ r[i] = Record(n, Wire(t, n), Body(x, n, i)) /\ r[i] \in Seq(Byte)
  <2>1. <<type, values[i]>> \in Structs
    BY <1>1, SubMessageIs
  <2>2. Encoding[<<type, values[i]>>] \in Seq(Byte)
    BY <2>1, WholeIs
  <2>3. Body(x, n, i) = Encoding[<<type, values[i]>>]
    BY DEF Body
  <2>4. Record(n, LENGTH_DELIMITED, Encoding[<<type, values[i]>>]) \in Seq(Byte)
    BY <1>1, <1>2, <2>2, RecordType
  <2>5. Wire(t, n) = LENGTH_DELIMITED
    BY <1>2 DEF Wire
  <2> QED BY <2>2, <2>3, <2>4, <2>5
<1>5. r \in Seq(Seq(Byte)) /\ Len(r) = Len(values)
  <2>1. r \in [1 .. Len(values) -> Seq(Byte)]
    BY <1>4
  <2> HIDE DEF r, values
  <2> QED BY <1>1, <2>1
<1> HIDE DEF r
<1>6. ASSUME ~ Repeated(t, n)
      PROVE  Len(values) <= 1 /\ (Len(values) = 0 => Sent[x][n] = DefaultOf(t, n))
  <2>1. Len(values) <= 1
    BY <1>1, <1>6 DEF FieldHolds
  <2>2. Len(values) = 0 => Sent[x][n] = <<>>
    <3> DEFINE s(i) == SentValue(type, values[i], Sent)
    <3>1. Sent[x][n] = [i \in 1 .. Len(values) |-> s(i)]
      BY <1>1 DEF SentForm
    <3> HIDE DEF s, values
    <3> QED BY <3>1
  <2>3. DefaultOf(t, n) = <<>>
    BY DEF DefaultOf
  <2> QED BY <2>1, <2>2, <2>3
<1> QED
  <2> HIDE DEF values, t
  <2> QED BY <1>2, <1>3, <1>4, <1>5, <1>6 DEF RecordsOK, t, values

LEMMA RepeatedRecords ==
  ASSUME NEW x \in Structs, NEW n \in FieldsOf(x[1]), TypeOf(x[1], n) \in LeafTypes,
         TypeOf(x[1], n) \notin MessageTypes, Repeated(x[1], n)
  PROVE  RecordsOK(x, n, Parts(x)[n], x[2][n])
<1> DEFINE t == x[1]
           type == TypeOf(t, n)
           values == x[2][n]
<1>1. /\ n \in Nat \ {0} /\ Parts(x)[n] = RecordsOf(t, n, values, Encoding)
      /\ DOMAIN values = 1 .. Len(values) /\ Len(values) \in Nat /\ LabelOf(t, n) = "repeated"
      /\ values \in Seq(ItemsOf(type))
      /\ \A i \in 1 .. Len(values) : values[i] \in ItemsOf(type)
  BY FieldIs
<1>2. LENGTH_DELIMITED \in Nat /\ Wire(t, n) = LENGTH_DELIMITED
  BY WireTypesAre DEF Wire
<1>3. CASE type \in PayloadTypes
  <2> DEFINE r == [i \in 1 .. Len(values) |-> Record(n, LENGTH_DELIMITED, ValueBytes(type, values[i]))]
  <2>1. WireTypeOf(type) = LENGTH_DELIMITED /\ ~ Numbers(t, n)
    BY <1>3, WireTypesAre DEF Numbers
  <2>2. ~ (values # <<>> /\ IsDefault(t, n, values[1]))
    <3>1. LabelOf(t, n) # "single"
      BY <1>1
    <3> QED BY <3>1 DEF IsDefault
  <2>3. Parts(x)[n] = r
    BY <1>1, <1>3, <2>1, <2>2 DEF RecordsOf
  <2>4. ASSUME NEW i \in 1 .. Len(values)
        PROVE  /\ Body(x, n, i) \in Seq(Byte) /\ r[i] = Record(n, LENGTH_DELIMITED, Body(x, n, i))
               /\ r[i] \in Seq(Byte)
    <3>1. Body(x, n, i) = ValueBytes(type, values[i])
      BY <2>1 DEF Body
    <3>2. ValueBytes(type, values[i]) \in Seq(Byte)
      BY <1>1, ValueType
    <3>3. Record(n, LENGTH_DELIMITED, ValueBytes(type, values[i])) \in Seq(Byte)
      BY <1>1, <1>2, <3>2, RecordType
    <3> QED BY <3>1, <3>2, <3>3
  <2>5. r \in Seq(Seq(Byte)) /\ Len(r) = Len(values)
    <3>1. r \in [1 .. Len(values) -> Seq(Byte)]
      BY <2>4
    <3> HIDE DEF r, values
    <3> QED BY <1>1, <3>1
  <2> HIDE DEF r, values, t
  <2> QED BY <1>2, <2>1, <2>3, <2>4, <2>5 DEF RecordsOK, t, values
<1>4. CASE type \notin PayloadTypes
  <2> DEFINE body == PackedBytes(type, values)
             r == IF values = <<>> THEN <<>> ELSE <<Record(n, LENGTH_DELIMITED, body)>>
  <2>1. type \in VarintTypes \cup FixedTypes /\ Numbers(t, n) /\ ItemsOf(type) = Holds(type)
    BY <1>4 DEF LeafTypes, Numbers, ItemsOf
  <2>2. Parts(x)[n] = r
    BY <1>1, <1>4 DEF RecordsOf, PackedBytes
  <2>3. body \in Seq(Byte)
    BY <1>1, <2>1, PackedType
  <2>4. Record(n, LENGTH_DELIMITED, body) \in Seq(Byte)
    BY <1>1, <1>2, <2>3, RecordType
  <2>5. \A i : Body(x, n, i) = body
    BY <2>1 DEF Body
  <2> DEFINE record == Record(n, LENGTH_DELIMITED, body)
  <2>6. /\ r \in Seq(Seq(Byte)) /\ Len(r) = (IF values = <<>> THEN 0 ELSE 1)
        /\ \A i \in 1 .. Len(r) : i = 1 /\ r[i] = record /\ values # <<>>
    <3>1. record \in Seq(Byte)
      BY <2>4
    <3>2. (values = <<>> => r = <<>>) /\ (values # <<>> => r = <<record>>)
      OBVIOUS
    <3> HIDE DEF r, record, values
    <3> QED BY <3>1, <3>2, NoneOrOne
  <2>7. values # <<>> => 1 \in 1 .. Len(values)
    <3> HIDE DEF values, type
    <3> QED BY <1>1, EmptySeq
  <2> HIDE DEF r, body, values, t
  <2> QED BY <1>2, <2>1, <2>2, <2>3, <2>5, <2>6, <2>7 DEF RecordsOK, t, values
<1> QED BY <1>3, <1>4

LEMMA OneRecord ==
  ASSUME NEW x \in Structs, NEW n \in FieldsOf(x[1]), TypeOf(x[1], n) \in LeafTypes,
         TypeOf(x[1], n) \notin MessageTypes, ~ Repeated(x[1], n)
  PROVE  RecordsOK(x, n, Parts(x)[n], x[2][n])
<1> DEFINE t == x[1]
           type == TypeOf(t, n)
           values == x[2][n]
           w == WireTypeOf(type)
           some == [i \in 1 .. Len(values) |-> Record(n, w, ValueBytes(type, values[i]))]
           default == values # <<>> /\ IsDefault(t, n, values[1])
           r == IF default THEN <<>> ELSE some
<1>1. /\ n \in Nat \ {0} /\ Parts(x)[n] = RecordsOf(t, n, values, Encoding)
      /\ DOMAIN values = 1 .. Len(values) /\ Len(values) \in Nat /\ LabelOf(t, n) # "repeated"
      /\ values \in Seq(ItemsOf(type))
      /\ \A i \in 1 .. Len(values) : values[i] \in ItemsOf(type)
      /\ FieldHolds(t, n, values) /\ SentForm(x, n, values)
  BY FieldIs
<1>2. w \in Nat /\ Wire(t, n) = w
  BY WireTypesAre DEF Wire, LeafTypes
<1>3. Parts(x)[n] = r
  BY <1>1 DEF RecordsOf
<1>4. ASSUME NEW i \in 1 .. Len(values)
      PROVE  /\ Body(x, n, i) \in Seq(Byte) /\ some[i] = Record(n, w, Body(x, n, i))
             /\ some[i] \in Seq(Byte)
  <2>1. Body(x, n, i) = ValueBytes(type, values[i])
    BY DEF Body
  <2>2. ValueBytes(type, values[i]) \in Seq(Byte)
    BY <1>1, ValueType
  <2>3. Record(n, w, ValueBytes(type, values[i])) \in Seq(Byte)
    BY <1>1, <1>2, <2>2, RecordType
  <2> QED BY <2>1, <2>2, <2>3
<1>5. some \in Seq(Seq(Byte)) /\ Len(some) = Len(values)
  <2>1. some \in [1 .. Len(values) -> Seq(Byte)]
    BY <1>4
  <2> HIDE DEF some, values
  <2> QED BY <1>1, <2>1
<1>6. Len(values) <= 1 /\ (LabelOf(t, n) = "single" => Len(values) = 1)
  BY <1>1 DEF FieldHolds
<1> DEFINE s(i) == SentValue(type, values[i], Sent)
<1>7. Sent[x][n] = [i \in 1 .. Len(values) |-> s(i)]
  BY <1>1 DEF SentForm
<1>8. values = <<>> => LabelOf(t, n) # "single" /\ Sent[x][n] = <<>> /\ DefaultOf(t, n) = <<>>
  <2>1. values = <<>> => Len(values) = 0
    OBVIOUS
  <2>2. Len(values) = 0 => Sent[x][n] = <<>>
    <3> HIDE DEF s, values
    <3> QED BY <1>7
  <2>3. Len(values) = 0 => LabelOf(t, n) # "single"
    <3>1. Len(values) = 0 => Len(values) # 1
      OBVIOUS
    <3> QED BY <1>6, <3>1
  <2> QED BY <2>1, <2>2, <2>3 DEF DefaultOf
<1>9. default => Sent[x][n] = DefaultOf(t, n)
  <2> SUFFICES ASSUME default PROVE Sent[x][n] = DefaultOf(t, n)
    OBVIOUS
  <2>1. LabelOf(t, n) = "single" /\ Len(values) = 1
    BY <1>6 DEF IsDefault
  <2>2. Sent[x][n] = <<s(1)>>
    <3> HIDE DEF s, values
    <3> QED BY <1>7, <2>1
  <2>3. values[1] \in ItemsOf(type)
    <3>1. 1 \in 1 .. Len(values)
      BY <2>1
    <3> QED BY <1>1, <3>1
  <2>4. CASE type \in PayloadTypes
    <3>1. s(1) = Payload(type, values[1]) /\ Payload(type, values[1]) = <<>>
      BY <2>3, <2>4, SentPayload, ItemsAreOf DEF IsDefault
    <3>2. DefaultOf(t, n) = <<<<>>>>
      BY <2>1, <2>4 DEF DefaultOf
    <3> HIDE DEF s
    <3> QED BY <2>2, <3>1, <3>2
  <2>5. CASE type \notin PayloadTypes
    <3>1. s(1) = values[1] /\ values[1] = 0
      BY <2>5 DEF SentValue, IsDefault, PayloadTypes
    <3>2. DefaultOf(t, n) = <<0>>
      BY <2>1, <2>5 DEF DefaultOf
    <3> HIDE DEF s
    <3> QED BY <2>2, <3>1, <3>2
  <2> QED BY <2>4, <2>5
<1>10. /\ r \in Seq(Seq(Byte)) /\ (default => Len(r) = 0 /\ r = <<>>) /\ (~ default => r = some)
  <2> HIDE DEF some, default
  <2> QED BY <1>5
<1>11. Len(r) <= 1 /\ (Len(r) = 0 => default \/ values = <<>>)
  <2> HIDE DEF r, default, some
  <2>1. values \in Seq(ItemsOf(type)) /\ Len(values) <= 1 /\ Len(some) = Len(values)
    BY <1>1, <1>5, <1>6
  <2> HIDE DEF values, type
  <2> QED BY <1>10, <2>1, EmptySeq
<1>12. Len(r) = 0 => Sent[x][n] = DefaultOf(t, n)
  BY <1>8, <1>9, <1>11
<1>13. \A i \in 1 .. Len(r) : /\ i \in 1 .. Len(values) /\ Body(x, n, i) \in Seq(Byte)
                              /\ r[i] = Record(n, Wire(t, n), Body(x, n, i))
  <2> TAKE i \in 1 .. Len(r)
  <2>1. r = some /\ i \in 1 .. Len(values)
    <3> HIDE DEF r, default, some, values
    <3>1. ~ default
      BY <1>10
    <3> QED BY <1>5, <1>10, <3>1
  <2> QED BY <1>2, <1>4, <2>1
<1> HIDE DEF r, values, t
<1> QED BY <1>3, <1>6, <1>10, <1>11, <1>12, <1>13 DEF RecordsOK, t, values

LEMMA RecordsAre ==
  ASSUME NEW x \in Structs, NEW n \in FieldsOf(x[1])
  PROVE  RecordsOK(x, n, Parts(x)[n], x[2][n])
<1>1. TypeOf(x[1], n) \in MessageTypes \/ TypeOf(x[1], n) \in LeafTypes
  BY FieldIs
<1> QED BY <1>1, MessageRecords, RepeatedRecords, OneRecord

(* The records of a struct, where they are. *)
LEMMA AllIs ==
  ASSUME NEW x \in Structs
  PROVE  /\ All(x) \in Seq(Seq(Byte)) /\ Encoding[x] = FlattenSeq(All(x)) /\ Encoding[x] \in Seq(Byte)
         /\ Layout(All(x), First(x), Parts(x), FieldsOf(x[1]))
<1> DEFINE t == x[1]
           F == FieldsOf(t)
           order == FieldOrder(t)
           parts == Parts(x)
<1>1. t \in MessageTypes
  BY StructHolds
<1>2. parts \in [F -> Seq(Seq(Byte))]
  <2>1. \A n \in F : parts[n] \in Seq(Seq(Byte))
    BY RecordsAre DEF RecordsOK
  <2> QED BY <2>1 DEF Parts
<1>3. EachOnce(order, F)
  BY <1>1, FieldOrderAll
<1>4. All(x) = FlattenSeq([i \in DOMAIN order |-> parts[order[i]]])
  <2>1. \A i \in DOMAIN order : order[i] \in F
    <3> HIDE DEF order
    <3> QED BY <1>3 DEF EachOnce
  <2>2. \A n \in F : parts[n] = RecordsOf(t, n, x[2][n], Encoding)
    BY DEF Parts
  <2>3. All(x) = FlattenSeq([i \in DOMAIN order |-> RecordsOf(t, order[i], x[2][order[i]], Encoding)])
    BY DEF All, RecordsIn
  <2> HIDE DEF parts, order, F
  <2>4. \A i \in DOMAIN order : parts[order[i]] = RecordsOf(t, order[i], x[2][order[i]], Encoding)
    BY <2>1, <2>2
  <2> QED BY <2>3, <2>4
<1> HIDE DEF order, parts, F
<1>5. All(x) \in Seq(Seq(Byte)) /\ LaidOut(All(x), parts, F)
  <2> DEFINE S == Seq(Byte)
  <2> HIDE DEF S
  <2>1. parts \in [F -> Seq(S)]
    BY <1>2 DEF S
  <2> DEFINE w == FlattenSeq([i \in DOMAIN order |-> parts[order[i]]])
  <2>2. w = FlattenSeq([i \in DOMAIN order |-> parts[order[i]]])
    OBVIOUS
  <2> HIDE DEF w
  <2>4. w \in Seq(S) /\ LaidOut(w, parts, F)
    BY <1>3, <2>1, <2>2, LayoutExists
  <2>3. All(x) = w
    BY <1>4, <2>2
  <2> QED BY <2>3, <2>4 DEF S
<1>6. Encoding[x] = FlattenSeq(All(x)) /\ Encoding[x] \in Seq(Byte)
  BY WholeIs DEF All
<1> QED BY <1>5, <1>6 DEF LaidOut, First, parts, F, t
-----------------------------------------------------------------------------
(* How many of the records of n there are among the first j of a struct. *)
SoFar(x, n, j) ==
  LET first == First(x)[n]  all == Len(Parts(x)[n])
  IN  IF j <= first THEN 0 ELSE IF j >= first + all THEN all ELSE j - first

(* The record behind the first j is the i-th of field n. *)
NextIs(x, j, n, i) ==
  /\ n \in FieldsOf(x[1]) /\ i \in 1 .. Len(Parts(x)[n]) /\ j + 1 = First(x)[n] + i
  /\ SoFar(x, n, j) = i - 1 /\ SoFar(x, n, j + 1) = i
  /\ \A k \in FieldsOf(x[1]) : k # n => SoFar(x, k, j + 1) = SoFar(x, k, j)

LEMMA PartsLength ==
  ASSUME NEW x \in Structs, NEW n \in FieldsOf(x[1])
  PROVE  Len(Parts(x)[n]) \in Nat /\ First(x)[n] \in Nat /\ Len(All(x)) \in Nat
<1>1. Parts(x)[n] \in Seq(Seq(Byte))
  BY RecordsAre DEF RecordsOK
<1>2. First(x) \in [FieldsOf(x[1]) -> Nat] /\ All(x) \in Seq(Seq(Byte))
  BY AllIs DEF Layout
<1> QED BY <1>1, <1>2

LEMMA TakenEnds ==
  ASSUME NEW x \in Structs, NEW n \in FieldsOf(x[1])
  PROVE  SoFar(x, n, 0) = 0 /\ SoFar(x, n, Len(All(x))) = Len(Parts(x)[n])
<1> DEFINE first == First(x)[n]  all == Len(Parts(x)[n])  whole == Len(All(x))
<1>1. all \in Nat /\ first \in Nat /\ whole \in Nat
  BY PartsLength
<1>2. all > 0 => first + all \in 1 .. whole
  <2>1. all > 0 => all \in 1 .. Len(Parts(x)[n])
    BY <1>1
  <2>2. \A i \in 1 .. Len(Parts(x)[n]) : First(x)[n] + i \in 1 .. Len(All(x))
    BY AllIs DEF Layout
  <2> QED BY <2>1, <2>2
<1>3. /\ SoFar(x, n, 0) = IF 0 <= first THEN 0 ELSE IF 0 >= first + all THEN all ELSE 0 - first
      /\ SoFar(x, n, whole) = IF whole <= first THEN 0 ELSE IF whole >= first + all THEN all ELSE whole - first
  BY DEF SoFar
<1> HIDE DEF first, all, whole
<1> QED BY <1>1, <1>2, <1>3 DEF all, whole

LEMMA NextRecord ==
  ASSUME NEW x \in Structs, NEW j \in 0 .. Len(All(x)), j < Len(All(x))
  PROVE  \E n \in FieldsOf(x[1]) : \E i \in 1 .. Len(Parts(x)[n]) : NextIs(x, j, n, i)
<1> DEFINE F == FieldsOf(x[1])
<1>1. Layout(All(x), First(x), Parts(x), F)
  BY AllIs
<1>2. Len(All(x)) \in Nat
  <2>1. All(x) \in Seq(Seq(Byte))
    BY AllIs
  <2> DEFINE s == All(x)  S == Seq(Byte)
  <2> HIDE DEF s, S
  <2> QED BY <2>1 DEF s, S
<1>3. j + 1 \in 1 .. Len(All(x)) /\ j \in Nat
  BY <1>2
<1>4. PICK n \in F : \E i \in 1 .. Len(Parts(x)[n]) : j + 1 = First(x)[n] + i
  BY <1>1, <1>3 DEF Layout
<1>5. PICK i \in 1 .. Len(Parts(x)[n]) : j + 1 = First(x)[n] + i
  BY <1>4
<1>6. ASSUME NEW k \in F
      PROVE  /\ SoFar(x, k, j) = IF j <= First(x)[k] THEN 0
                                 ELSE IF j >= First(x)[k] + Len(Parts(x)[k]) THEN Len(Parts(x)[k])
                                 ELSE j - First(x)[k]
             /\ SoFar(x, k, j + 1) = IF j + 1 <= First(x)[k] THEN 0
                                     ELSE IF j + 1 >= First(x)[k] + Len(Parts(x)[k]) THEN Len(Parts(x)[k])
                                     ELSE j + 1 - First(x)[k]
             /\ First(x)[k] \in Nat /\ Len(Parts(x)[k]) \in Nat
  BY PartsLength DEF SoFar
<1>7. SoFar(x, n, j) = i - 1 /\ SoFar(x, n, j + 1) = i
  <2> DEFINE first == First(x)[n]  all == Len(Parts(x)[n])  a == SoFar(x, n, j)  b == SoFar(x, n, j + 1)
  <2>1. /\ a = IF j <= first THEN 0 ELSE IF j >= first + all THEN all ELSE j - first
        /\ b = IF j + 1 <= first THEN 0 ELSE IF j + 1 >= first + all THEN all ELSE j + 1 - first
        /\ first \in Nat /\ all \in Nat /\ i \in 1 .. all /\ j + 1 = first + i /\ j \in Nat
    BY <1>3, <1>5, <1>6
  <2> HIDE DEF first, all, a, b
  <2>2. a = i - 1 /\ b = i
    BY <2>1
  <2> QED BY <2>2 DEF a, b
<1>8. ASSUME NEW k \in F, k # n PROVE SoFar(x, k, j + 1) = SoFar(x, k, j)
  <2> DEFINE first == First(x)[k]  all == Len(Parts(x)[k])  a == SoFar(x, k, j)  b == SoFar(x, k, j + 1)
             other == First(x)[n]  some == Len(Parts(x)[n])
  <2>1. /\ a = IF j <= first THEN 0 ELSE IF j >= first + all THEN all ELSE j - first
        /\ b = IF j + 1 <= first THEN 0 ELSE IF j + 1 >= first + all THEN all ELSE j + 1 - first
        /\ first \in Nat /\ all \in Nat /\ i \in 1 .. some /\ j + 1 = other + i /\ j \in Nat
        /\ other \in Nat /\ some \in Nat
    BY <1>3, <1>5, <1>6
  <2>2. first + all <= other \/ other + some <= first
    BY <1>1, <1>8 DEF Layout
  <2> HIDE DEF first, all, other, some, a, b
  <2>3. a = b
    BY <2>1, <2>2
  <2> QED BY <2>3 DEF a, b
<1>9. NextIs(x, j, n, i)
  BY <1>5, <1>7, <1>8 DEF NextIs
<1> QED BY <1>9

(* The tag of the i-th record of field n. *)
LEMMA WireIs ==
  ASSUME NEW t \in MessageTypes, NEW n \in FieldsOf(t)
  PROVE  Wire(t, n) \in 0 .. 7 /\ n \in Nat \ {0} /\ Tag(n, Wire(t, n)) < Uint32
<1>1. n \in Nat \ {0} /\ Tag(n, 7) < Uint32
  BY MessageAssumption, CodecAssumption
<1>2. Wire(t, n) \in 0 .. 7
  BY DEF Wire, WireTypeOf, LENGTH_DELIMITED, VARINT, WIRE_32_BIT, WIRE_64_BIT
<1>3. Tag(n, Wire(t, n)) <= Tag(n, 7)
  <2> DEFINE w == Wire(t, n)
  <2>1. w \in 0 .. 7
    BY <1>2
  <2> HIDE DEF w
  <2>2. Tag(n, w) <= Tag(n, 7)
    BY <1>1, <2>1 DEF Tag
  <2> QED BY <2>2 DEF w
<1>4. Uint32 \in Int /\ Tag(n, 7) \in Int /\ Tag(n, Wire(t, n)) \in Int
  BY <1>1, <1>2, IntAssumption DEF Uint32, Tag
<1> QED BY <1>1, <1>2, <1>3, <1>4

LEMMA TagBack ==
  ASSUME NEW x \in Structs, NEW n \in FieldsOf(x[1]), NEW i \in 1 .. Len(Parts(x)[n]),
         NEW j, j + 1 = First(x)[n] + i, j \in Nat, NEW in, NEW d, Left(in, d, RestOf(All(x), j))
  PROVE  LET tag == pbtools_decoder_read_tag(in, d)
         IN  /\ tag.field_number = n /\ tag.wire_type = Wire(x[1], n)
             /\ Body(x, n, i) \in Seq(Byte) /\ RestOf(All(x), j + 1) \in Seq(Byte)
             /\ j + 1 \in 0 .. Len(All(x))
             /\ Behind(in, d, tag.dec, Content(Wire(x[1], n), Body(x, n, i)) \o RestOf(All(x), j + 1))
<1> DEFINE all == All(x)
           w == Wire(x[1], n)
           body == Body(x, n, i)
           rest == RestOf(all, j + 1)
           a == VarintBytes(Tag(n, w))
           b == Content(w, body)
<1>1. x[1] \in MessageTypes
  BY StructHolds
<1>2. w \in 0 .. 7 /\ n \in Nat \ {0} /\ Tag(n, w) < Uint32
  BY <1>1, WireIs
<1>3. body \in Seq(Byte) /\ Parts(x)[n][i] = Record(n, w, body)
  BY RecordsAre DEF RecordsOK
<1>4. all \in Seq(Seq(Byte)) /\ j + 1 \in 1 .. Len(all) /\ all[j + 1] = Record(n, w, body)
  <2>1. Layout(all, First(x), Parts(x), FieldsOf(x[1])) /\ all \in Seq(Seq(Byte))
    BY AllIs
  <2> HIDE DEF all, body, w
  <2>2. First(x)[n] + i \in 1 .. Len(all) /\ all[First(x)[n] + i] = Parts(x)[n][i]
    BY <2>1 DEF Layout
  <2> QED BY <1>3, <2>1, <2>2
<1>5. Record(n, w, body) = a \o b /\ b \in Seq(Byte) /\ a \in Seq(Byte)
  BY <1>2, <1>3, ContentIs
<1> HIDE DEF body, w, all
<1>6. rest \in Seq(Byte) /\ RestOf(all, j) = all[j + 1] \o rest
  <2>1. j \in 0 .. Len(all) /\ j < Len(all) /\ j + 1 \in 0 .. Len(all)
    <3>1. Len(all) \in Nat
      <4> DEFINE S == Seq(Byte)
      <4> HIDE DEF S
      <4> QED BY <1>4 DEF S
    <3> QED BY <1>4, <3>1
  <2> QED BY <1>4, <2>1, RestOfIs
<1> HIDE DEF a, b, rest
<1>7. RestOf(all, j) = a \o (b \o rest) /\ b \o rest \in Seq(Byte)
  <2>0. a \in Seq(Byte) /\ b \in Seq(Byte) /\ rest \in Seq(Byte)
    BY <1>5, <1>6
  <2>1. (a \o b) \o rest = a \o (b \o rest)
    BY <2>0, JoinAssoc
  <2>2. b \o rest \in Seq(Byte)
    BY <1>5, <1>6, JoinOn
  <2> QED BY <1>4, <1>5, <1>6, <2>1, <2>2
<1> DEFINE s == b \o rest
           e == Advanced(d, Len(VarintBytes(Tag(n, w))))
<1>8. s \in Seq(Byte) /\ Left(in, d, VarintBytes(Tag(n, w)) \o s)
  BY <1>7 DEF all, a
<1> HIDE DEF s
<1>9. /\ pbtools_decoder_read_tag(in, d) = [dec |-> e, field_number |-> n, wire_type |-> w]
      /\ Left(in, e, s)
  BY <1>2, <1>8, TagRoundTrip
<1>10. e.size = d.size
  BY DEF Advanced
<1> HIDE DEF e
<1>11. j + 1 \in 0 .. Len(all)
  BY <1>4
<1> QED BY <1>3, <1>6, <1>9, <1>10, <1>11 DEF s, b, w, body, rest, all, Behind
-----------------------------------------------------------------------------
(* The scan of a struct's encoding: what the message and the infos are when the
   first j of its records were read. *)
Seen(x, n, k) == IF Repeated(x[1], n) \/ k = 0 THEN DefaultOf(x[1], n) ELSE Sent[x][n]

InfoBack(in, x, n, info, k) ==
  /\ DOMAIN info = {"length", "wire_type", "dec"}
  /\ info.length = IF k = 0 THEN 0 ELSE IF Numbers(x[1], n) THEN Len(x[2][n]) ELSE k
  /\ k > 0 => /\ info.wire_type = LENGTH_DELIMITED
              /\ Left(in, info.dec, Content(LENGTH_DELIMITED, Body(x, n, 1))
                                      \o RestOf(All(x), First(x)[n] + 1))

ScanBack(in, x, j, d, msg, infos) ==
  /\ Left(in, d, RestOf(All(x), j))
  /\ msg = [n \in FieldsOf(x[1]) |-> Seen(x, n, SoFar(x, n, j))]
  /\ DOMAIN infos = RepeatedFields(x[1])
  /\ \A n \in RepeatedFields(x[1]) : InfoBack(in, x, n, infos[n], SoFar(x, n, j))

(* A field has records only when it holds something, and one is enough for a
   field that is not repeated. *)
LEMMA MemberIs ==
  ASSUME NEW x \in Structs, NEW n \in FieldsOf(x[1]), NEW i \in 1 .. Len(Parts(x)[n]),
         ~ Repeated(x[1], n)
  PROVE  /\ i = 1 /\ Len(x[2][n]) = 1 /\ x[2][n] # <<>>
         /\ x[2][n][1] \in ItemsOf(TypeOf(x[1], n))
         /\ Sent[x][n] = <<SentValue(TypeOf(x[1], n), x[2][n][1], Sent)>>
         /\ \A k \in OneofOf(x[1], n) : k # n => Sent[x][k] = <<>> /\ DefaultOf(x[1], k) = <<>>
<1> DEFINE t == x[1]  values == x[2][n]  r == Parts(x)[n]
<1>1. /\ Len(r) <= 1 /\ Len(values) <= 1 /\ i \in 1 .. Len(values) /\ Len(r) \in Nat
  BY RecordsAre, PartsLength DEF RecordsOK
<1>2. values \in Seq(ItemsOf(TypeOf(t, n))) /\ SentForm(x, n, values)
  BY FieldIs
<1>3. i = 1 /\ Len(values) = 1 /\ values # <<>> /\ values[1] \in ItemsOf(TypeOf(t, n))
  <2> DEFINE S == ItemsOf(TypeOf(t, n))  a == Len(r)
  <2>1. values \in Seq(S) /\ a <= 1 /\ Len(values) <= 1 /\ i \in 1 .. Len(values) /\ i \in 1 .. a
        /\ a \in Nat /\ Len(values) \in Nat
    BY <1>1, <1>2, LenProperties
  <2> DEFINE b == Len(values)
  <2>4. b \in Nat /\ b <= 1 /\ i \in 1 .. b /\ (values = <<>> => b = 0)
    BY <2>1
  <2> HIDE DEF values, S, a, b
  <2>5. i = 1 /\ b = 1
    BY <2>4
  <2>2. i = 1 /\ Len(values) = 1 /\ values # <<>>
    BY <2>4, <2>5 DEF b
  <2>3. values[1] \in S
    BY <2>1, <2>2, ElementOfSeq
  <2> QED BY <2>2, <2>3 DEF S
<1>4. Sent[x][n] = <<SentValue(TypeOf(t, n), values[1], Sent)>>
  <2> DEFINE s(k) == SentValue(TypeOf(t, n), values[k], Sent)
  <2>1. Sent[x][n] = [k \in 1 .. Len(values) |-> s(k)]
    BY <1>2 DEF SentForm
  <2>2. Sent[x][n] = <<s(1)>>
    <3> HIDE DEF s, values
    <3> QED BY <1>3, <2>1
  <2> QED BY <2>2
<1>5. ASSUME NEW k \in OneofOf(t, n), k # n PROVE Sent[x][k] = <<>> /\ DefaultOf(t, k) = <<>>
  <2>1. x[1] \in MessageTypes /\ x[2][k] = <<>> /\ k \in FieldsOf(t)
    <3>1. InOneof(t, n) /\ k \in FieldsOf(t)
      BY <1>5 DEF OneofOf
    <3>2. PICK u \in MessageTypes : \E m \in Sources[u] : x = <<u, m>>
      BY DEF Structs
    <3>3. PICK m \in Sources[u] : x = <<u, m>>
      BY <3>2
    <3>4. IsStruct(u, m)
      BY SourceAssumption
    <3>5. t = u /\ x[2] = m
      BY <3>3
    <3>6. m[n] # <<>> => \A o \in OneofOf(u, n) \ {n} : m[o] = <<>>
      BY <3>4, <3>5 DEF IsStruct
    <3> QED BY <1>3, <1>5, <3>1, <3>5, <3>6
  <2>2. Sent[x][k] = <<>>
    <3>1. SentForm(x, k, x[2][k])
      BY <2>1, FieldIs
    <3> DEFINE s(o) == SentValue(TypeOf(t, k), x[2][k][o], Sent)
    <3>2. Sent[x][k] = [o \in 1 .. Len(<<>>) |-> s(o)]
      BY <2>1, <3>1 DEF SentForm
    <3> HIDE DEF s
    <3> QED BY <3>2
  <2>3. DefaultOf(t, k) = <<>>
    BY <1>5 DEF OneofOf, InOneof, DefaultOf
  <2> QED BY <2>2, <2>3
<1> QED BY <1>3, <1>4, <1>5

LEMMA MemberScanned ==
  ASSUME NEW x \in Structs, NEW j, NEW n, NEW i, NextIs(x, j, n, i), ~ Repeated(x[1], n),
         NEW in, NEW d, NEW msg, NEW infos, ScanBack(in, x, j, d, msg, infos),
         NEW e, Left(in, e, RestOf(All(x), j + 1))
  PROVE  ScanBack(in, x, j + 1, e,
                  Assign(x[1], msg, n, <<SentValue(TypeOf(x[1], n), x[2][n][1], Sent)>>), infos)
<1> DEFINE t == x[1]  w == <<SentValue(TypeOf(t, n), x[2][n][1], Sent)>>
           m == Assign(t, msg, n, w)
<1>1. /\ n \in FieldsOf(t) /\ i \in 1 .. Len(Parts(x)[n])
      /\ SoFar(x, n, j) = i - 1 /\ SoFar(x, n, j + 1) = i
      /\ \A k \in FieldsOf(t) : k # n => SoFar(x, k, j + 1) = SoFar(x, k, j)
  BY DEF NextIs
<1>2. /\ i = 1 /\ Sent[x][n] = w
      /\ \A k \in OneofOf(t, n) : k # n => Sent[x][k] = <<>> /\ DefaultOf(t, k) = <<>>
  BY <1>1, MemberIs
<1>3. /\ \A k \in FieldsOf(t) : msg[k] = Seen(x, k, SoFar(x, k, j))
      /\ DOMAIN infos = RepeatedFields(t)
      /\ \A k \in RepeatedFields(t) : InfoBack(in, x, k, infos[k], SoFar(x, k, j))
  BY DEF ScanBack
<1> HIDE DEF w
<1>4. \A k \in FieldsOf(t) : (IF k = n THEN w ELSE IF k \in OneofOf(t, n) THEN <<>> ELSE msg[k])
                               = Seen(x, k, SoFar(x, k, j + 1))
  <2> TAKE k \in FieldsOf(t)
  <2>1. CASE k = n
    BY <1>1, <1>2, <2>1 DEF Seen
  <2>2. CASE k # n /\ k \in OneofOf(t, n)
    BY <1>1, <1>2, <2>2 DEF Seen
  <2>3. CASE k # n /\ k \notin OneofOf(t, n)
    BY <1>1, <1>3, <2>3
  <2> QED BY <2>1, <2>2, <2>3
<1>5. m = [k \in FieldsOf(t) |-> Seen(x, k, SoFar(x, k, j + 1))]
  BY <1>4 DEF Assign
<1>6. \A k \in RepeatedFields(t) : k # n /\ k \in FieldsOf(t)
  BY DEF Repeated, RepeatedFields
<1> HIDE DEF m
<1>7. \A k \in RepeatedFields(t) : InfoBack(in, x, k, infos[k], SoFar(x, k, j + 1))
  BY <1>1, <1>3, <1>6
<1> QED BY <1>3, <1>5, <1>7 DEF ScanBack, m, w

LEMMA RepeatedScanned ==
  ASSUME NEW x \in Structs, NEW j, NEW n, NEW i, NextIs(x, j, n, i), Repeated(x[1], n),
         NEW in, NEW d, NEW msg, NEW infos, ScanBack(in, x, j, d, msg, infos),
         NEW e, Left(in, e, RestOf(All(x), j + 1)), NEW info, InfoBack(in, x, n, info, i)
  PROVE  ScanBack(in, x, j + 1, e, msg, [infos EXCEPT ![n] = info])
<1> DEFINE t == x[1]  new == [infos EXCEPT ![n] = info]
<1>1. /\ n \in FieldsOf(t) /\ i \in 1 .. Len(Parts(x)[n])
      /\ SoFar(x, n, j) = i - 1 /\ SoFar(x, n, j + 1) = i
      /\ \A k \in FieldsOf(t) : k # n => SoFar(x, k, j + 1) = SoFar(x, k, j)
  BY DEF NextIs
<1>2. /\ msg = [k \in FieldsOf(t) |-> Seen(x, k, SoFar(x, k, j))]
      /\ DOMAIN infos = RepeatedFields(t)
      /\ \A k \in RepeatedFields(t) : InfoBack(in, x, k, infos[k], SoFar(x, k, j))
  BY DEF ScanBack
<1>3. \A k \in FieldsOf(t) : Seen(x, k, SoFar(x, k, j + 1)) = Seen(x, k, SoFar(x, k, j))
  <2> TAKE k \in FieldsOf(t)
  <2>1. CASE k = n
    BY <2>1 DEF Seen
  <2>2. CASE k # n
    BY <1>1, <2>2
  <2> QED BY <2>1, <2>2
<1>4. msg = [k \in FieldsOf(t) |-> Seen(x, k, SoFar(x, k, j + 1))]
  BY <1>2, <1>3
<1>5. \A k \in RepeatedFields(t) : k \in FieldsOf(t)
  BY DEF RepeatedFields
<1>6. DOMAIN new = RepeatedFields(t) /\ \A k \in RepeatedFields(t) : new[k] = IF k = n THEN info ELSE infos[k]
  BY <1>2
<1> HIDE DEF new
<1>7. \A k \in RepeatedFields(t) : InfoBack(in, x, k, new[k], SoFar(x, k, j + 1))
  <2> TAKE k \in RepeatedFields(t)
  <2>1. CASE k = n
    BY <1>1, <1>6, <2>1
  <2>2. CASE k # n
    BY <1>1, <1>2, <1>5, <1>6, <2>2
  <2> QED BY <2>1, <2>2
<1> QED BY <1>4, <1>6, <1>7 DEF ScanBack, new

(* The next record of a repeated field, counted. *)
LEMMA SliceLeft ==
  ASSUME NEW s \in Seq(Byte), NEW in, NEW d, Left(in, d, s)
  PROVE  Left(in, decoder_init_slice(d, decoder_left(d)), s)
<1> DEFINE e == decoder_init_slice(d, decoder_left(d))
<1>1. /\ d.base \in Int /\ d.size \in Int /\ d.pos \in Nat /\ d.size <= IntMax
      /\ d.size = d.pos + Len(s) /\ Len(s) \in Nat
  BY LeftIs
<1>2. decoder_left(d) = Len(s) /\ \A i \in 1 .. Len(s) : in[d.base + d.pos + i] = s[i]
  BY DEF Left
<1>3. e = [base |-> d.base + d.pos, size |-> Len(s), pos |-> 0]
  BY <1>1, <1>2 DEF decoder_init_slice, Slice
<1>4. e \in Decoders /\ Live(e) /\ decoder_left(e) = Len(s)
  BY <1>1, <1>3, IntAssumption DEF Decoders, Live, decoder_left
<1>5. \A i \in 1 .. Len(s) : in[e.base + e.pos + i] = s[i]
  <2> TAKE i \in 1 .. Len(s)
  <2>1. e.base + e.pos + i = d.base + d.pos + i
    BY <1>1, <1>3
  <2> QED BY <1>2, <2>1
<1> HIDE DEF e
<1> QED BY <1>4, <1>5 DEF Left, e

LEMMA CountBack ==
  ASSUME NEW x \in Structs, NEW n \in FieldsOf(x[1]), NEW i \in 1 .. Len(Parts(x)[n]), Repeated(x[1], n),
         NEW rest \in Seq(Byte), NEW in, NEW d,
         Left(in, d, Content(LENGTH_DELIMITED, Body(x, n, i)) \o rest)
  PROVE  LET c == CountItems(in, TypeOf(x[1], n), d, LENGTH_DELIMITED)
         IN  /\ Behind(in, d, c.dec, rest)
             /\ c.count = IF Numbers(x[1], n) THEN Len(x[2][n]) ELSE 1
<1> DEFINE type == TypeOf(x[1], n)  values == x[2][n]
<1>1. /\ type \in MessageTypes \/ type \in LeafTypes
      /\ values \in Seq(ItemsOf(type)) /\ x[1] \in MessageTypes
  BY FieldIs
<1>2. Body(x, n, i) \in Seq(Byte)
  BY RecordsAre DEF RecordsOK
<1>3. CASE Numbers(x[1], n)
  <2>1. type \in VarintTypes \cup FixedTypes /\ ItemsOf(type) = Holds(type) /\ type \notin MessageTypes
    <3>1. type \in VarintTypes \cup FixedTypes
      BY <1>3 DEF Numbers
    <3> QED BY <3>1, WireTypesAre DEF ItemsOf
  <2>2. Body(x, n, i) = PackedBytes(type, values)
    BY <1>3, <2>1 DEF Body
  <2> HIDE DEF type, values
  <2> QED BY <1>1, <1>3, <2>1, <2>2, CountPackedBack DEF type, values
<1>4. CASE ~ Numbers(x[1], n)
  <2>1. type \in PayloadTypes \cup MessageTypes
    BY <1>1, <1>4 DEF Numbers, LeafTypes
  <2> DEFINE body == Body(x, n, i)
  <2> HIDE DEF type, body
  <2>2. body \in Seq(Byte) /\ Left(in, d, Content(LENGTH_DELIMITED, body) \o rest)
    BY <1>2 DEF body
  <2> QED BY <1>4, <2>1, <2>2, CountOneBack DEF type
<1> QED BY <1>3, <1>4

(* The repeated field's record, counted: where the reading pass will start is
   kept at the first. *)
LEMMA InfoCounted ==
  ASSUME NEW x \in Structs, NEW n \in FieldsOf(x[1]), NEW i \in 1 .. Len(Parts(x)[n]), Repeated(x[1], n),
         NEW j, j + 1 = First(x)[n] + i, RestOf(All(x), j + 1) \in Seq(Byte),
         NEW in, NEW d, Left(in, d, Content(LENGTH_DELIMITED, Body(x, n, i)) \o RestOf(All(x), j + 1)),
         NEW info, InfoBack(in, x, n, info, i - 1)
  PROVE  LET c == CountItems(in, TypeOf(x[1], n), d, LENGTH_DELIMITED)
             begun == repeated_info_init_decode(info, d, LENGTH_DELIMITED)
         IN  InfoBack(in, x, n, [begun EXCEPT !.length = @ + c.count], i)
<1> DEFINE values == x[2][n]
           c == CountItems(in, TypeOf(x[1], n), d, LENGTH_DELIMITED)
           begun == repeated_info_init_decode(info, d, LENGTH_DELIMITED)
           new == [begun EXCEPT !.length = @ + c.count]
           s == Content(LENGTH_DELIMITED, Body(x, n, i)) \o RestOf(All(x), j + 1)
<1>1. c.count = IF Numbers(x[1], n) THEN Len(values) ELSE 1
  BY CountBack
<1>2. /\ Len(values) \in Nat /\ i \in 1 .. Len(values)
      /\ Len(Parts(x)[n]) \in Nat
      /\ Numbers(x[1], n) => i = 1
  <2>1. /\ Len(Parts(x)[n]) = IF Numbers(x[1], n) THEN (IF values = <<>> THEN 0 ELSE 1) ELSE Len(values)
        /\ i \in 1 .. Len(values)
    BY RecordsAre DEF RecordsOK
  <2>2. Len(values) \in Nat /\ Len(Parts(x)[n]) \in Nat
    BY FieldIs, PartsLength
  <2> DEFINE a == Len(Parts(x)[n])
  <2>3. i \in 1 .. a
    OBVIOUS
  <2> HIDE DEF a, values
  <2>4. Numbers(x[1], n) => i = 1
    BY <2>1, <2>2, <2>3 DEF a
  <2> QED BY <2>1, <2>2, <2>4
<1>3. s \in Seq(Byte) /\ decoder_init_slice(d, decoder_left(d)) = decoder_init_slice(d, decoder_left(d))
  <2>1. Body(x, n, i) \in Seq(Byte) /\ LENGTH_DELIMITED \in 0 .. 7
    BY RecordsAre DEF RecordsOK, LENGTH_DELIMITED
  <2>2. Content(LENGTH_DELIMITED, Body(x, n, i)) \in Seq(Byte)
    <3>1. n \in Nat
      BY FieldIs
    <3> DEFINE b == Body(x, n, i)
    <3> HIDE DEF b
    <3> QED BY <2>1, <3>1, ContentIs DEF b
  <2> QED BY <2>2, JoinOn
<1>4. Left(in, decoder_init_slice(d, decoder_left(d)), s)
  BY <1>3, SliceLeft
<1>5. /\ DOMAIN info = {"length", "wire_type", "dec"}
      /\ info.length = IF i - 1 = 0 THEN 0 ELSE IF Numbers(x[1], n) THEN Len(values) ELSE i - 1
      /\ i - 1 > 0 => /\ info.wire_type = LENGTH_DELIMITED
                      /\ Left(in, info.dec, Content(LENGTH_DELIMITED, Body(x, n, 1))
                                              \o RestOf(All(x), First(x)[n] + 1))
  BY DEF InfoBack
<1> HIDE DEF c
<1>6. CASE i = 1
  <2>1. info.length = 0 /\ j + 1 = First(x)[n] + 1
    BY <1>5, <1>6
  <2>2. begun = [info EXCEPT !.dec = decoder_init_slice(d, decoder_left(d)), !.wire_type = LENGTH_DELIMITED]
    BY <2>1 DEF repeated_info_init_decode
  <2> DEFINE slice == decoder_init_slice(d, decoder_left(d))
  <2> HIDE DEF slice, begun
  <2>3. begun = [info EXCEPT !.dec = slice, !.wire_type = LENGTH_DELIMITED]
    BY <2>2 DEF slice
  <2>4. /\ DOMAIN new = {"length", "wire_type", "dec"} /\ new.length = c.count
        /\ new.wire_type = LENGTH_DELIMITED /\ new.dec = slice
    <3>1. DOMAIN begun = {"length", "wire_type", "dec"} /\ begun.length = 0
          /\ begun.wire_type = LENGTH_DELIMITED /\ begun.dec = slice
      BY <1>5, <2>1, <2>3
    <3>2. c.count \in Nat
      BY <1>1, <1>2
    <3> QED BY <3>1, <3>2
  <2> HIDE DEF new
  <2>5. Left(in, new.dec, Content(LENGTH_DELIMITED, Body(x, n, 1)) \o RestOf(All(x), First(x)[n] + 1))
    BY <1>4, <1>6, <2>1, <2>4 DEF slice
  <2>6. new.length = IF i = 0 THEN 0 ELSE IF Numbers(x[1], n) THEN Len(values) ELSE i
    BY <1>1, <1>6, <2>4
  <2>7. InfoBack(in, x, n, new, i)
    BY <2>4, <2>5, <2>6 DEF InfoBack
  <2> QED BY <2>7 DEF new, begun, c
<1>7. CASE i # 1
  <2>1. i - 1 > 0 /\ i \in Nat /\ ~ Numbers(x[1], n)
    BY <1>2, <1>7
  <2>2. info.length = i - 1 /\ c.count = 1
    BY <1>1, <1>5, <2>1
  <2>3. begun = info
    BY <2>1, <2>2 DEF repeated_info_init_decode
  <2> HIDE DEF begun
  <2>4. /\ DOMAIN new = {"length", "wire_type", "dec"} /\ new.length = i
        /\ new.wire_type = info.wire_type /\ new.dec = info.dec
    BY <1>5, <2>1, <2>2, <2>3
  <2> HIDE DEF new
  <2>5. InfoBack(in, x, n, new, i)
    BY <1>5, <2>1, <2>4 DEF InfoBack
  <2> QED BY <2>5 DEF new, begun, c
<1> QED BY <1>6, <1>7
-----------------------------------------------------------------------------
(* Something is left of the window as long as records are. *)
LEMMA RecordsLeft ==
  ASSUME NEW x \in Structs, NEW j \in 0 .. Len(All(x))
  PROVE  /\ RestOf(All(x), j) \in Seq(Byte) /\ j \in Nat
         /\ (RestOf(All(x), j) = <<>> <=> j = Len(All(x)))
<1> DEFINE all == All(x)  S == Seq(Byte)
<1>1. all \in Seq(S) /\ Layout(all, First(x), Parts(x), FieldsOf(x[1]))
  BY AllIs
<1>2. Len(all) \in Nat
  <2> HIDE DEF all, S
  <2> QED BY <1>1
<1>3. /\ RestOf(all, j) \in Seq(Byte) /\ j \in Nat
      /\ j = Len(all) => RestOf(all, j) = <<>>
      /\ j < Len(all) => RestOf(all, j) = all[j + 1] \o RestOf(all, j + 1)
  <2>1. all \in Seq(Seq(Byte)) /\ j \in 0 .. Len(all) /\ j \in Nat
    BY <1>1, <1>2
  <2> HIDE DEF all
  <2> QED BY <2>1, RestOfIs
<1>4. ASSUME j < Len(all) PROVE RestOf(all, j) # <<>>
  <2>1. \E n \in FieldsOf(x[1]) : \E i \in 1 .. Len(Parts(x)[n]) : NextIs(x, j, n, i)
    BY <1>4, NextRecord
  <2>2. PICK n \in FieldsOf(x[1]) : \E i \in 1 .. Len(Parts(x)[n]) : NextIs(x, j, n, i)
    BY <2>1
  <2>3. PICK i \in 1 .. Len(Parts(x)[n]) : NextIs(x, j, n, i)
    BY <2>2
  <2> DEFINE a == VarintBytes(Tag(n, Wire(x[1], n)))
             b == Content(Wire(x[1], n), Body(x, n, i))
             rest == RestOf(all, j + 1)
  <2>4. Body(x, n, i) \in Seq(Byte) /\ Parts(x)[n][i] = Record(n, Wire(x[1], n), Body(x, n, i))
    BY RecordsAre DEF RecordsOK
  <2>5. Wire(x[1], n) \in 0 .. 7 /\ n \in Nat
    BY StructHolds, WireIs
  <2>6. Parts(x)[n][i] = a \o b /\ a \in Seq(Byte) /\ b \in Seq(Byte) /\ a # <<>>
    BY <2>4, <2>5, ContentIs
  <2>7. all[j + 1] = Parts(x)[n][i]
    BY <1>1, <2>3 DEF Layout, NextIs
  <2>8. rest \in Seq(Byte)
    <3>1. j + 1 \in 0 .. Len(all)
      BY <1>2, <1>4
    <3> HIDE DEF all
    <3> QED BY <1>1, <3>1, RestOfIs
  <2> HIDE DEF all, a, b, rest
  <2>9. RestOf(all, j) = (a \o b) \o rest
    BY <1>3, <1>4, <2>6, <2>7 DEF rest
  <2>10. Len(a) \in Nat /\ Len(a) # 0 /\ a \o b \in Seq(Byte) /\ Len(a \o b) = Len(a) + Len(b) /\ Len(b) \in Nat
    BY <2>6, EmptySeq, JoinOn
  <2>11. Len((a \o b) \o rest) = Len(a \o b) + Len(rest) /\ Len(rest) \in Nat
    BY <2>8, <2>10, JoinOn
  <2>12. Len(<<>>) = 0
    OBVIOUS
  <2> QED BY <2>9, <2>10, <2>11, <2>12
<1> QED BY <1>2, <1>3, <1>4

(* The items of a repeated field when k of them were read. *)
Fresh(type) == IF type \in MessageTypes THEN EmptyMessage(type) ELSE Dangling(type)

Partly(x, n, k) ==
  [i \in 1 .. Len(x[2][n]) |-> IF i <= k THEN Sent[x][n][i] ELSE Fresh(TypeOf(x[1], n))]

LEMMA PartlyIs ==
  ASSUME NEW x \in Structs, NEW n \in FieldsOf(x[1])
  PROVE  /\ Len(x[2][n]) \in Nat /\ DOMAIN Sent[x][n] = 1 .. Len(x[2][n])
         /\ Partly(x, n, 0) = [i \in 1 .. Len(x[2][n]) |-> Fresh(TypeOf(x[1], n))]
         /\ Partly(x, n, Len(x[2][n])) = Sent[x][n]
         /\ Len(x[2][n]) = 0 => Sent[x][n] = <<>>
         /\ \A k \in 0 .. Len(x[2][n]) - 1 :
              /\ Partly(x, n, k)[k + 1] = Fresh(TypeOf(x[1], n))
              /\ [Partly(x, n, k) EXCEPT ![k + 1] = Sent[x][n][k + 1]] = Partly(x, n, k + 1)
<1> DEFINE values == x[2][n]  len == Len(values)  type == TypeOf(x[1], n)
           s(i) == SentValue(type, values[i], Sent)
           sent == Sent[x][n]
           u == Fresh(type)
<1>1. len \in Nat /\ sent = [i \in 1 .. len |-> s(i)]
  BY FieldIs DEF SentForm
<1> HIDE DEF s, values, len, sent, u
<1>2. sent = [i \in 1 .. len |-> sent[i]] /\ DOMAIN sent = 1 .. len
  BY <1>1
<1>3. \A k : Partly(x, n, k) = [i \in 1 .. len |-> IF i <= k THEN sent[i] ELSE u]
  BY DEF Partly, len, values, sent, u, type
<1>4. Partly(x, n, 0) = [i \in 1 .. len |-> u]
  <2>1. \A i \in 1 .. len : ~ (i <= 0)
    BY <1>1
  <2> QED BY <1>3, <2>1
<1>5. Partly(x, n, len) = sent
  <2>1. \A i \in 1 .. len : i <= len
    BY <1>1
  <2>2. Partly(x, n, len) = [i \in 1 .. len |-> IF i <= len THEN sent[i] ELSE u]
    BY <1>3
  <2>3. Partly(x, n, len) = [i \in 1 .. len |-> sent[i]]
    BY <2>1, <2>2
  <2> QED BY <1>2, <2>3
<1>6. len = 0 => sent = <<>>
  BY <1>1
<1>7. ASSUME NEW k \in 0 .. len - 1
      PROVE  /\ Partly(x, n, k)[k + 1] = u
             /\ [Partly(x, n, k) EXCEPT ![k + 1] = sent[k + 1]] = Partly(x, n, k + 1)
  <2> DEFINE p == Partly(x, n, k)  q == Partly(x, n, k + 1)  e == [p EXCEPT ![k + 1] = sent[k + 1]]
  <2>1. /\ p = [i \in 1 .. len |-> IF i <= k THEN sent[i] ELSE u]
        /\ q = [i \in 1 .. len |-> IF i <= k + 1 THEN sent[i] ELSE u]
    BY <1>3
  <2>2. k + 1 \in 1 .. len /\ ~ (k + 1 <= k) /\ k \in Int
    BY <1>1
  <2>3. \A i \in 1 .. len : i <= k + 1 <=> i <= k \/ i = k + 1
    BY <2>2
  <2> HIDE DEF p, q
  <2>4. p[k + 1] = u
    BY <2>1, <2>2
  <2>5. e = [i \in 1 .. len |-> IF i = k + 1 THEN sent[k + 1] ELSE p[i]]
    BY <2>1
  <2>6. \A i \in 1 .. len : (IF i = k + 1 THEN sent[k + 1] ELSE p[i]) = (IF i <= k + 1 THEN sent[i] ELSE u)
    BY <2>1, <2>3
  <2> HIDE DEF e
  <2>7. e = q
    BY <2>1, <2>5, <2>6
  <2> QED BY <2>4, <2>7 DEF p, q, e
<1> QED BY <1>1, <1>2, <1>4, <1>5, <1>6, <1>7 DEF len, values, sent, u, type

LEMMA PartlyStep ==
  ASSUME NEW x \in Structs, NEW n \in FieldsOf(x[1]), NEW k \in 0 .. Len(x[2][n]) - 1
  PROVE  /\ Partly(x, n, k)[k + 1] = Fresh(TypeOf(x[1], n))
         /\ [Partly(x, n, k) EXCEPT ![k + 1] = Sent[x][n][k + 1]] = Partly(x, n, k + 1)
BY PartlyIs
-----------------------------------------------------------------------------
(* What was counted when the scan is over. *)
CountedBack(in, x, n, info) ==
  /\ 1 \in 1 .. Len(Parts(x)[n]) /\ info.wire_type = LENGTH_DELIMITED
  /\ Left(in, info.dec, Content(LENGTH_DELIMITED, Body(x, n, 1)) \o RestOf(All(x), First(x)[n] + 1))

CountedIs(in, x, n, info) ==
  /\ DOMAIN info = {"length", "wire_type", "dec"} /\ info.length = Len(x[2][n])
  /\ Len(x[2][n]) \in Nat /\ n \in FieldsOf(x[1])
  /\ Len(x[2][n]) > 0 => CountedBack(in, x, n, info)

LEMMA CountedAll ==
  ASSUME NEW x \in Structs, NEW n \in RepeatedFields(x[1]), NEW in, NEW info,
         InfoBack(in, x, n, info, Len(Parts(x)[n]))
  PROVE  CountedIs(in, x, n, info)
<1> DEFINE values == x[2][n]  r == Len(Parts(x)[n])  len == Len(values)
<1>1. n \in FieldsOf(x[1]) /\ Repeated(x[1], n)
  BY DEF RepeatedFields, Repeated
<1>2. /\ r = IF Numbers(x[1], n) THEN (IF values = <<>> THEN 0 ELSE 1) ELSE len
      /\ r \in Nat /\ len \in Nat
  BY <1>1, RecordsAre, PartsLength, PartlyIs DEF RecordsOK
<1>3. values = <<>> <=> len = 0
  <2>1. values \in Seq(ItemsOf(TypeOf(x[1], n)))
    BY <1>1, FieldIs
  <2> DEFINE S == ItemsOf(TypeOf(x[1], n))
  <2> HIDE DEF values, S
  <2> QED BY <2>1, EmptySeq DEF S
<1>4. /\ DOMAIN info = {"length", "wire_type", "dec"}
      /\ info.length = IF r = 0 THEN 0 ELSE IF Numbers(x[1], n) THEN len ELSE r
      /\ r > 0 => /\ info.wire_type = LENGTH_DELIMITED
                  /\ Left(in, info.dec, Content(LENGTH_DELIMITED, Body(x, n, 1))
                                          \o RestOf(All(x), First(x)[n] + 1))
  BY DEF InfoBack
<1> HIDE DEF values, r, len
<1>5. info.length = len /\ (len > 0 => r > 0)
  BY <1>2, <1>3, <1>4
<1>6. ASSUME len > 0 PROVE CountedBack(in, x, n, info)
  <2>1. r > 0
    BY <1>5, <1>6
  <2>2. 1 \in 1 .. r
    BY <1>2, <2>1
  <2> QED BY <1>4, <2>1, <2>2 DEF CountedBack, r
<1> QED BY <1>1, <1>2, <1>4, <1>5, <1>6 DEF CountedIs, values, len

(* The items of n with k of them read, and where the next is. *)
ItemsBack(in, x, n, info, k, items) ==
  /\ DOMAIN info = {"length", "wire_type", "dec"} /\ info.length = Len(x[2][n])
  /\ k \in 1 .. Len(x[2][n]) /\ items = Partly(x, n, k)
  /\ Numbers(x[1], n) => k = Len(x[2][n])
  /\ Left(in, info.dec, RestOf(All(x), First(x)[n] + (IF Numbers(x[1], n) THEN 1 ELSE k)))

(* A call of decode_inner for x, in its scan and in its finalizers. *)
FieldsLeft(t, todo) ==
  /\ todo \in Seq(RepeatedFields(t))
  /\ \A i, j \in 1 .. Len(todo) : todo[i] = todo[j] => i = j

HasFields(t, msg) == msg = [n \in FieldsOf(t) |-> msg[n]]

StillBack(in, x, todo, from, msg, infos) ==
  /\ DOMAIN msg = FieldsOf(x[1]) /\ HasFields(x[1], msg)
  /\ DOMAIN infos = RepeatedFields(x[1])
  /\ \A n \in FieldsOf(x[1]) : (\A i \in 1 .. Len(todo) : todo[i] # n) => msg[n] = Sent[x][n]
  /\ \A i \in 1 .. Len(todo) : i >= from =>
       msg[todo[i]] = <<>> /\ InfoBack(in, x, todo[i], infos[todo[i]], Len(Parts(x)[todo[i]]))

FinalBack(in, x, f) ==
  /\ FieldsLeft(x[1], f.todo)
  /\ f.reading => /\ f.todo # <<>> /\ StillBack(in, x, f.todo, 2, f.msg, f.infos)
                  /\ ItemsBack(in, x, f.todo[1], f.infos[f.todo[1]], f.index, f.msg[f.todo[1]])
  /\ ~ f.reading => f.index = 0 /\ StillBack(in, x, f.todo, 1, f.msg, f.infos)

FrameBack(in, x, f) ==
  /\ DOMAIN f = FrameFields /\ f.type = x[1] /\ f.dec.size = Len(Encoding[x])
  /\ f.scanning \in BOOLEAN /\ f.reading \in BOOLEAN
  /\ f.scanning => /\ ~ f.reading /\ f.index = 0
                   /\ \E j \in 0 .. Len(All(x)) : ScanBack(in, x, j, f.dec, f.msg, f.infos)
  /\ ~ f.scanning => Left(in, f.dec, <<>>) /\ FinalBack(in, x, f)

(* A step of the scan. *)
LEMMA ScannedBack ==
  ASSUME NEW x \in Structs, NEW in, NEW f, FrameBack(in, x, f), f.scanning,
         NEW j \in 0 .. Len(All(x)), NEW e, e.size = f.dec.size, NEW m, NEW infos,
         ScanBack(in, x, j, e, m, infos)
  PROVE  FrameBack(in, x, Scanned(f, e, m, infos))
<1> DEFINE g == Scanned(f, e, m, infos)
<1>1. /\ DOMAIN f = FrameFields /\ f.type = x[1] /\ f.dec.size = Len(Encoding[x])
      /\ f.scanning \in BOOLEAN /\ f.reading \in BOOLEAN /\ ~ f.reading /\ f.index = 0
  BY DEF FrameBack
<1>2. /\ DOMAIN g = FrameFields /\ g.dec = e /\ g.type = f.type /\ g.msg = m /\ g.infos = infos
      /\ g.reading = f.reading /\ g.index = f.index /\ g.scanning = f.scanning
  BY <1>1 DEF FrameFields, Scanned
<1> HIDE DEF g
<1>3. g.scanning /\ ~ g.reading /\ g.scanning \in BOOLEAN /\ g.reading \in BOOLEAN
  BY <1>1, <1>2, Zenon
<1>4. \E k \in 0 .. Len(All(x)) : ScanBack(in, x, k, g.dec, g.msg, g.infos)
  BY <1>2
<1>5. FrameBack(in, x, g)
  BY <1>1, <1>2, <1>3, <1>4 DEF FrameBack
<1> QED BY <1>5 DEF g

(* The end of the scan: every record was read. *)
LEMMA ScanEnds ==
  ASSUME NEW x \in Structs, NEW in, NEW f, FrameBack(in, x, f), f.scanning,
         ~ pbtools_decoder_available(f.dec)
  PROVE  FrameBack(in, x, [f EXCEPT !.scanning = FALSE, !.todo = InOrder(RepeatedFields(f.type))])
<1> DEFINE S == RepeatedFields(f.type)
           todo == InOrder(S)
           g == [f EXCEPT !.scanning = FALSE, !.todo = todo]
<1>1. /\ DOMAIN f = FrameFields /\ f.type = x[1] /\ f.dec.size = Len(Encoding[x])
      /\ f.scanning \in BOOLEAN /\ f.reading \in BOOLEAN /\ ~ f.reading /\ f.index = 0
      /\ \E j \in 0 .. Len(All(x)) : ScanBack(in, x, j, f.dec, f.msg, f.infos)
  BY DEF FrameBack
<1>2. PICK j \in 0 .. Len(All(x)) : ScanBack(in, x, j, f.dec, f.msg, f.infos)
  BY <1>1
<1>3. j = Len(All(x)) /\ RestOf(All(x), j) = <<>>
  <2> DEFINE s == RestOf(All(x), j)
  <2>1. s \in Seq(Byte) /\ (s = <<>> <=> j = Len(All(x))) /\ Left(in, f.dec, s)
    BY <1>2, RecordsLeft DEF ScanBack
  <2> HIDE DEF s
  <2>2. s = <<>>
    BY <2>1, LeftIs
  <2> QED BY <2>1, <2>2 DEF s
<1>4. /\ Left(in, f.dec, <<>>)
      /\ f.msg = [n \in FieldsOf(x[1]) |-> Seen(x, n, Len(Parts(x)[n]))]
      /\ DOMAIN f.infos = RepeatedFields(x[1])
      /\ \A n \in RepeatedFields(x[1]) : InfoBack(in, x, n, f.infos[n], Len(Parts(x)[n]))
  <2>1. \A n \in FieldsOf(x[1]) : SoFar(x, n, j) = Len(Parts(x)[n])
    BY <1>3, TakenEnds
  <2>2. \A n \in RepeatedFields(x[1]) : n \in FieldsOf(x[1])
    BY DEF RepeatedFields
  <2>3. /\ Left(in, f.dec, RestOf(All(x), j))
        /\ f.msg = [n \in FieldsOf(x[1]) |-> Seen(x, n, SoFar(x, n, j))]
        /\ DOMAIN f.infos = RepeatedFields(x[1])
        /\ \A n \in RepeatedFields(x[1]) : InfoBack(in, x, n, f.infos[n], SoFar(x, n, j))
    BY <1>2 DEF ScanBack
  <2>4. f.msg = [n \in FieldsOf(x[1]) |-> Seen(x, n, Len(Parts(x)[n]))]
    BY <2>1, <2>3
  <2>5. \A n \in RepeatedFields(x[1]) : InfoBack(in, x, n, f.infos[n], Len(Parts(x)[n]))
    BY <2>1, <2>2, <2>3
  <2> QED BY <1>3, <2>3, <2>4, <2>5
<1>5. /\ todo \in Seq(S) /\ \A i, k \in 1 .. Len(todo) : todo[i] = todo[k] => i = k
      /\ \A n \in S : \E i \in 1 .. Len(todo) : todo[i] = n
  <2>1. IsFiniteSet(FieldsOf(f.type)) /\ FieldsOf(f.type) \subseteq Nat
    BY <1>1, StructHolds, MessageAssumption
  <2>2. S \in SUBSET FieldsOf(f.type)
    BY DEF RepeatedFields
  <2>3. IsFiniteSet(S) /\ S \subseteq Nat
    BY <2>1, <2>2, FS_Subset
  <2> HIDE DEF S
  <2> QED BY <2>3, InOrderIs
<1>6. /\ DOMAIN g = FrameFields /\ g.dec = f.dec /\ g.type = f.type /\ g.msg = f.msg
      /\ g.infos = f.infos /\ g.todo = todo
      /\ g.reading = f.reading /\ g.index = f.index /\ g.scanning = FALSE
  BY <1>1 DEF FrameFields
<1> HIDE DEF g, todo
<1>7. ~ g.scanning /\ ~ g.reading /\ g.scanning \in BOOLEAN /\ g.reading \in BOOLEAN
  BY <1>1, <1>6, Zenon
<1>8. FieldsLeft(x[1], todo)
  BY <1>1, <1>5 DEF FieldsLeft
<1>9. StillBack(in, x, todo, 1, f.msg, f.infos)
  <2>1. ASSUME NEW n \in FieldsOf(x[1]), \A i \in 1 .. Len(todo) : todo[i] # n
        PROVE  f.msg[n] = Sent[x][n]
    <3>1. ~ Repeated(x[1], n)
      BY <1>1, <1>5, <2>1 DEF Repeated
    <3>2. Len(Parts(x)[n]) = 0 => Sent[x][n] = DefaultOf(x[1], n)
      BY <3>1, RecordsAre DEF RecordsOK
    <3>3. f.msg[n] = Seen(x, n, Len(Parts(x)[n]))
      BY <1>4
    <3> QED BY <3>1, <3>2, <3>3 DEF Seen
  <2>2. ASSUME NEW i \in 1 .. Len(todo)
        PROVE  f.msg[todo[i]] = <<>> /\ InfoBack(in, x, todo[i], f.infos[todo[i]], Len(Parts(x)[todo[i]]))
    <3> DEFINE n == todo[i]
    <3>1. n \in RepeatedFields(x[1])
      <4>1. n \in S
        <5> HIDE DEF S
        <5> QED BY <1>5, ElementOfSeq
      <4> QED BY <1>1, <4>1
    <3> HIDE DEF n
    <3>2. n \in FieldsOf(x[1]) /\ LabelOf(x[1], n) = "repeated" /\ Repeated(x[1], n)
      BY <3>1 DEF RepeatedFields, Repeated
    <3>3. f.msg[n] = DefaultOf(x[1], n)
      BY <1>4, <3>2 DEF Seen
    <3>4. DefaultOf(x[1], n) = <<>>
      BY <3>2 DEF DefaultOf
    <3>5. InfoBack(in, x, n, f.infos[n], Len(Parts(x)[n]))
      BY <1>4, <3>1
    <3> QED BY <3>3, <3>4, <3>5 DEF n
  <2>3. DOMAIN f.msg = FieldsOf(x[1]) /\ HasFields(x[1], f.msg)
    BY <1>4 DEF HasFields
  <2> QED BY <1>4, <2>1, <2>2, <2>3 DEF StillBack
<1>10. FinalBack(in, x, g)
  BY <1>1, <1>6, <1>7, <1>8, <1>9 DEF FinalBack
<1>11. FrameBack(in, x, g)
  BY <1>1, <1>4, <1>6, <1>7, <1>10 DEF FrameBack
<1> QED BY <1>11 DEF g, todo
-----------------------------------------------------------------------------
(* The finalizers.  First what is known of the field whose finalizer runs. *)
FinalFacts(in, x, f, n) ==
  /\ n \in RepeatedFields(x[1]) /\ n \in FieldsOf(x[1]) /\ Repeated(x[1], n)
  /\ FieldsLeft(x[1], f.todo) /\ StillBack(in, x, f.todo, 2, f.msg, f.infos)
  /\ Left(in, f.dec, <<>>) /\ Len(x[2][n]) \in Nat
  /\ DOMAIN f.infos[n] = {"length", "wire_type", "dec"} /\ f.infos[n].length = Len(x[2][n])
  /\ f.reading => ItemsBack(in, x, n, f.infos[n], f.index, f.msg[n])
  /\ ~ f.reading => /\ f.index = 0 /\ f.msg[n] = <<>>
                    /\ Len(x[2][n]) > 0 => CountedBack(in, x, n, f.infos[n])

LEMMA FinalIs ==
  ASSUME NEW x \in Structs, NEW in, NEW f, FrameBack(in, x, f), ~ f.scanning, f.todo # <<>>,
         NEW n, n = f.todo[1]
  PROVE  FinalFacts(in, x, f, n)
<1> DEFINE todo == f.todo
<1>1. /\ FieldsLeft(x[1], todo) /\ Left(in, f.dec, <<>>) /\ f.reading \in BOOLEAN
      /\ f.reading => /\ StillBack(in, x, todo, 2, f.msg, f.infos)
                      /\ ItemsBack(in, x, todo[1], f.infos[todo[1]], f.index, f.msg[todo[1]])
      /\ ~ f.reading => f.index = 0 /\ StillBack(in, x, todo, 1, f.msg, f.infos)
  BY DEF FrameBack, FinalBack
<1>2. n \in RepeatedFields(x[1]) /\ Len(todo) \in Nat /\ 1 \in 1 .. Len(todo)
  <2> DEFINE S == RepeatedFields(x[1])
  <2>1. todo \in Seq(S) /\ todo # <<>>
    BY <1>1 DEF FieldsLeft
  <2> HIDE DEF S, todo
  <2>2. todo[1] \in S /\ Len(todo) \in Nat /\ Len(todo) # 0
    BY <2>1, EmptySeq
  <2> QED BY <2>2 DEF S, todo
<1>3. n \in FieldsOf(x[1]) /\ Repeated(x[1], n)
  BY <1>2 DEF RepeatedFields, Repeated
<1> HIDE DEF todo
<1>4. n = todo[1]
  BY DEF todo
<1>5. CASE f.reading
  <2>1. ItemsBack(in, x, n, f.infos[n], f.index, f.msg[n])
    BY <1>1, <1>4, <1>5
  <2>2. Len(x[2][n]) \in Nat
    BY <1>3, PartlyIs
  <2> QED BY <1>1, <1>2, <1>3, <1>5, <2>1, <2>2 DEF ItemsBack, todo, FinalFacts
<1>6. CASE ~ f.reading
  <2>1. StillBack(in, x, todo, 1, f.msg, f.infos) /\ f.index = 0
    BY <1>1, <1>6
  <2>2. StillBack(in, x, todo, 2, f.msg, f.infos)
    <3>1. \A i \in 1 .. Len(todo) : i >= 2 => i >= 1
      BY <1>2
    <3> QED BY <2>1, <3>1 DEF StillBack
  <2>3. f.msg[n] = <<>> /\ InfoBack(in, x, n, f.infos[n], Len(Parts(x)[n]))
    BY <1>2, <1>4, <2>1 DEF StillBack
  <2>4. /\ DOMAIN f.infos[n] = {"length", "wire_type", "dec"} /\ f.infos[n].length = Len(x[2][n])
        /\ Len(x[2][n]) \in Nat
        /\ Len(x[2][n]) > 0 => CountedBack(in, x, n, f.infos[n])
    <3> DEFINE info == f.infos[n]
    <3>1. InfoBack(in, x, n, info, Len(Parts(x)[n])) /\ n \in RepeatedFields(x[1])
      BY <1>2, <2>3
    <3> HIDE DEF info
    <3>2. CountedIs(in, x, n, info)
      BY <3>1, CountedAll
    <3> QED BY <3>2 DEF info, CountedIs
  <2> QED BY <1>1, <1>2, <1>3, <1>6, <2>1, <2>2, <2>3, <2>4 DEF todo, FinalFacts
<1> QED BY <1>1, <1>5, <1>6 DEF FinalFacts

(* A finalizer is done when its field is. *)
LEMMA DoneBack ==
  ASSUME NEW x \in Structs, NEW in, NEW f, FrameBack(in, x, f), ~ f.scanning, f.todo # <<>>,
         f.msg[f.todo[1]] = Sent[x][f.todo[1]]
  PROVE  FrameBack(in, x, Done(f, f.dec, f.msg))
<1> DEFINE g == Done(f, f.dec, f.msg)  todo == f.todo  rest == Tail(todo)  len == Len(todo)
<1>1. /\ FieldsLeft(x[1], todo) /\ StillBack(in, x, todo, 2, f.msg, f.infos) /\ Left(in, f.dec, <<>>)
      /\ f.msg[todo[1]] = Sent[x][todo[1]] /\ todo # <<>>
  BY FinalIs DEF FinalFacts
<1>2. DOMAIN f = FrameFields /\ f.type = x[1] /\ f.dec.size = Len(Encoding[x]) /\ f.scanning \in BOOLEAN
  BY DEF FrameBack
<1>3. /\ DOMAIN g = FrameFields /\ g.dec = f.dec /\ g.type = f.type /\ g.msg = f.msg
      /\ g.infos = f.infos /\ g.todo = rest
      /\ g.reading = FALSE /\ g.index = 0 /\ g.scanning = f.scanning
  BY <1>2 DEF FrameFields, Done
<1>4. /\ len \in Nat /\ len > 0 /\ rest \in Seq(RepeatedFields(x[1])) /\ Len(rest) = len - 1
      /\ \A i \in 1 .. len - 1 : rest[i] = todo[i + 1]
      /\ todo \in Seq(RepeatedFields(x[1]))
  <2> DEFINE S == RepeatedFields(x[1])
  <2>1. todo \in Seq(S) /\ todo # <<>>
    BY <1>1 DEF FieldsLeft
  <2> HIDE DEF todo, S, rest, len
  <2>2. /\ len \in Nat /\ len > 0 /\ rest \in Seq(S) /\ Len(rest) = len - 1
    BY <2>1 DEF rest, len
  <2>3. \A i \in 1 .. len - 1 : rest[i] = todo[i + 1]
    BY <2>1 DEF rest, len
  <2> QED BY <2>1, <2>2, <2>3 DEF S
<1>5. \A i, j \in 1 .. len : todo[i] = todo[j] => i = j
  BY <1>1 DEF FieldsLeft
<1> HIDE DEF g, todo, rest, len
<1>6. ~ g.reading /\ ~ g.scanning /\ g.scanning \in BOOLEAN /\ g.reading \in BOOLEAN
  BY <1>2, <1>3, Zenon
<1>7. \A i \in 1 .. len - 1 : i + 1 \in 1 .. len /\ i + 1 >= 2 /\ i \in Int
  BY <1>4
<1>8. FieldsLeft(x[1], rest)
  <2>1. ASSUME NEW i \in 1 .. len - 1, NEW j \in 1 .. len - 1, rest[i] = rest[j] PROVE i = j
    <3>1. todo[i + 1] = todo[j + 1] /\ i + 1 \in 1 .. len /\ j + 1 \in 1 .. len
      BY <1>4, <1>7, <2>1
    <3>2. i + 1 = j + 1
      BY <1>5, <3>1
    <3> QED BY <1>7, <3>2
  <2> QED BY <1>4, <2>1 DEF FieldsLeft
<1>9. StillBack(in, x, rest, 1, f.msg, f.infos)
  <2>1. ASSUME NEW n \in FieldsOf(x[1]), \A i \in 1 .. Len(rest) : rest[i] # n
        PROVE  f.msg[n] = Sent[x][n]
    <3>1. CASE n = todo[1]
      BY <1>1, <3>1
    <3>2. CASE n # todo[1]
      <4>1. ASSUME NEW i \in 1 .. len PROVE todo[i] # n
        <5>1. CASE i = 1
          BY <3>2, <5>1
        <5>2. CASE i # 1
          <6>1. i - 1 \in 1 .. len - 1 /\ i - 1 + 1 = i
            BY <1>4, <5>2
          <6>2. rest[i - 1] = todo[i]
            BY <1>4, <6>1
          <6> QED BY <1>4, <2>1, <6>1, <6>2
        <5> QED BY <5>1, <5>2
      <4> QED BY <1>1, <4>1 DEF StillBack, len
    <3> QED BY <3>1, <3>2
  <2>2. ASSUME NEW i \in 1 .. Len(rest)
        PROVE  f.msg[rest[i]] = <<>> /\ InfoBack(in, x, rest[i], f.infos[rest[i]], Len(Parts(x)[rest[i]]))
    <3>1. i + 1 \in 1 .. len /\ i + 1 >= 2 /\ rest[i] = todo[i + 1]
      BY <1>4, <1>7
    <3>2. f.msg[todo[i + 1]] = <<>> /\ InfoBack(in, x, todo[i + 1], f.infos[todo[i + 1]], Len(Parts(x)[todo[i + 1]]))
      BY <1>1, <3>1 DEF StillBack, len
    <3> QED BY <3>1, <3>2
  <2> QED BY <1>1, <2>1, <2>2 DEF StillBack
<1>10. FinalBack(in, x, g)
  BY <1>3, <1>6, <1>8, <1>9 DEF FinalBack
<1>11. FrameBack(in, x, g)
  BY <1>1, <1>2, <1>3, <1>6, <1>10 DEF FrameBack
<1> QED BY <1>11 DEF g

(* Items were read and stored. *)
LEMMA StoredBack ==
  ASSUME NEW x \in Structs, NEW in, NEW f, FrameBack(in, x, f), ~ f.scanning, f.todo # <<>>,
         NEW n, n = f.todo[1], NEW e, NEW k, NEW items,
         ItemsBack(in, x, n, [f.infos[n] EXCEPT !.dec = e], k, items)
  PROVE  FrameBack(in, x, Stored(f, n, e, k, items))
<1> DEFINE g == Stored(f, n, e, k, items)  todo == f.todo
           infos == [f.infos EXCEPT ![n].dec = e]
           info == [f.infos[n] EXCEPT !.dec = e]
           msg == [f.msg EXCEPT ![n] = items]
<1>1. /\ n \in RepeatedFields(x[1]) /\ n \in FieldsOf(x[1]) /\ todo # <<>> /\ n = todo[1]
      /\ FieldsLeft(x[1], todo) /\ StillBack(in, x, todo, 2, f.msg, f.infos)
      /\ Left(in, f.dec, <<>>) /\ DOMAIN f.infos[n] = {"length", "wire_type", "dec"}
  BY FinalIs DEF FinalFacts
<1>2. DOMAIN f = FrameFields /\ f.type = x[1] /\ f.dec.size = Len(Encoding[x]) /\ f.scanning \in BOOLEAN
  BY DEF FrameBack
<1>3. /\ DOMAIN g = FrameFields /\ g.dec = f.dec /\ g.type = f.type /\ g.msg = msg
      /\ g.infos = infos /\ g.todo = todo
      /\ g.reading = TRUE /\ g.index = k /\ g.scanning = f.scanning
  BY <1>2 DEF FrameFields, Stored
<1>4. /\ DOMAIN f.msg = FieldsOf(x[1]) /\ DOMAIN f.infos = RepeatedFields(x[1])
      /\ HasFields(x[1], f.msg)
  BY <1>1 DEF StillBack
<1>5. /\ DOMAIN msg = FieldsOf(x[1]) /\ HasFields(x[1], msg)
      /\ msg[n] = items /\ \A m \in FieldsOf(x[1]) : m # n => msg[m] = f.msg[m]
      /\ DOMAIN infos = RepeatedFields(x[1]) /\ infos[n] = info
      /\ \A m \in RepeatedFields(x[1]) : m # n => infos[m] = f.infos[m]
  BY <1>1, <1>4 DEF HasFields
<1>6. ItemsBack(in, x, n, info, k, items)
  OBVIOUS
<1>7. /\ \A i, j \in 1 .. Len(todo) : todo[i] = todo[j] => i = j
      /\ 1 \in 1 .. Len(todo) /\ \A i \in 1 .. Len(todo) : todo[i] \in RepeatedFields(x[1]) /\ i \in Int
  <2> DEFINE S == RepeatedFields(x[1])
  <2>1. todo \in Seq(S) /\ todo # <<>> /\ \A i, j \in 1 .. Len(todo) : todo[i] = todo[j] => i = j
    BY <1>1 DEF FieldsLeft
  <2> HIDE DEF S, todo
  <2>2. Len(todo) \in Nat /\ Len(todo) # 0
    BY <2>1, EmptySeq
  <2>3. \A i \in 1 .. Len(todo) : todo[i] \in S
    BY <2>1, ElementOfSeq
  <2> QED BY <2>1, <2>2, <2>3 DEF S
<1> HIDE DEF g, todo, infos, info, msg
<1>8. g.reading /\ ~ g.scanning /\ g.scanning \in BOOLEAN /\ g.reading \in BOOLEAN
  BY <1>2, <1>3, Zenon
<1>9. StillBack(in, x, todo, 2, msg, infos)
  <2>1. ASSUME NEW m \in FieldsOf(x[1]), \A i \in 1 .. Len(todo) : todo[i] # m
        PROVE  msg[m] = Sent[x][m]
    <3>1. m # n
      BY <1>1, <1>7, <2>1
    <3>2. f.msg[m] = Sent[x][m]
      BY <1>1, <2>1 DEF StillBack
    <3> QED BY <1>5, <3>1, <3>2
  <2>2. ASSUME NEW i \in 1 .. Len(todo), i >= 2
        PROVE  msg[todo[i]] = <<>> /\ InfoBack(in, x, todo[i], infos[todo[i]], Len(Parts(x)[todo[i]]))
    <3>1. todo[i] # n /\ todo[i] \in RepeatedFields(x[1]) /\ todo[i] \in FieldsOf(x[1])
      <4>1. todo[i] \in RepeatedFields(x[1]) /\ i # 1
        BY <1>7, <2>2
      <4>2. todo[i] # todo[1]
        BY <1>7, <4>1
      <4> QED BY <1>1, <4>1, <4>2 DEF RepeatedFields
    <3>2. f.msg[todo[i]] = <<>> /\ InfoBack(in, x, todo[i], f.infos[todo[i]], Len(Parts(x)[todo[i]]))
      BY <1>1, <2>2 DEF StillBack
    <3> QED BY <1>5, <3>1, <3>2
  <2> QED BY <1>5, <2>1, <2>2 DEF StillBack
<1>10. ItemsBack(in, x, g.todo[1], g.infos[g.todo[1]], g.index, g.msg[g.todo[1]])
  BY <1>1, <1>3, <1>5, <1>6
<1>11. FinalBack(in, x, g)
  BY <1>1, <1>3, <1>8, <1>9, <1>10 DEF FinalBack
<1>12. FrameBack(in, x, g)
  BY <1>1, <1>2, <1>3, <1>8, <1>11 DEF FrameBack
<1> QED BY <1>12 DEF g
-----------------------------------------------------------------------------
(* The scan: the next record, whose tag is read, is one of the struct's. *)
AtRecord(in, x, f, j, n, i) ==
  LET tag == pbtools_decoder_read_tag(in, f.dec)
  IN  /\ NextIs(x, j, n, i) /\ ScanBack(in, x, j, f.dec, f.msg, f.infos)
      /\ n \in FieldsOf(x[1]) /\ i \in 1 .. Len(Parts(x)[n]) /\ j + 1 \in 0 .. Len(All(x))
      /\ tag.field_number = n /\ tag.wire_type = Wire(x[1], n)
      /\ Body(x, n, i) \in Seq(Byte) /\ RestOf(All(x), j + 1) \in Seq(Byte)
      /\ Behind(in, f.dec, tag.dec, Content(Wire(x[1], n), Body(x, n, i)) \o RestOf(All(x), j + 1))

LEMMA ScanAt ==
  ASSUME NEW x \in Structs, NEW in, NEW f, FrameBack(in, x, f), f.scanning,
         pbtools_decoder_available(f.dec)
  PROVE  \E j, n, i : AtRecord(in, x, f, j, n, i)
<1>1. \E j \in 0 .. Len(All(x)) : ScanBack(in, x, j, f.dec, f.msg, f.infos)
  BY DEF FrameBack
<1>2. PICK j \in 0 .. Len(All(x)) : ScanBack(in, x, j, f.dec, f.msg, f.infos)
  BY <1>1
<1> DEFINE s == RestOf(All(x), j)  len == Len(All(x))
<1>3. s \in Seq(Byte) /\ j \in Nat /\ (s = <<>> <=> j = len) /\ Left(in, f.dec, s)
  BY <1>2, RecordsLeft DEF ScanBack
<1> HIDE DEF s
<1>4. s # <<>>
  BY <1>3, LeftIs
<1>5. j < len
  <2>1. len \in Nat
    <3>1. All(x) \in Seq(Seq(Byte))
      BY AllIs
    <3> DEFINE S == Seq(Byte)  all == All(x)
    <3> HIDE DEF S, all
    <3> QED BY <3>1 DEF S, all
  <2> QED BY <1>3, <1>4, <2>1
<1>6. \E n \in FieldsOf(x[1]) : \E i \in 1 .. Len(Parts(x)[n]) : NextIs(x, j, n, i)
  BY <1>5, NextRecord
<1>7. PICK n \in FieldsOf(x[1]) : \E i \in 1 .. Len(Parts(x)[n]) : NextIs(x, j, n, i)
  BY <1>6
<1>8. PICK i \in 1 .. Len(Parts(x)[n]) : NextIs(x, j, n, i)
  BY <1>7
<1> DEFINE d == f.dec  tag == pbtools_decoder_read_tag(in, d)
<1>9. j + 1 = First(x)[n] + i /\ Left(in, d, RestOf(All(x), j))
  BY <1>3, <1>8 DEF NextIs, s
<1> HIDE DEF d
<1>10. /\ tag.field_number = n /\ tag.wire_type = Wire(x[1], n)
       /\ Body(x, n, i) \in Seq(Byte) /\ RestOf(All(x), j + 1) \in Seq(Byte)
       /\ j + 1 \in 0 .. Len(All(x))
       /\ Behind(in, d, tag.dec, Content(Wire(x[1], n), Body(x, n, i)) \o RestOf(All(x), j + 1))
  BY <1>3, <1>9, TagBack
<1>11. AtRecord(in, x, f, j, n, i)
  BY <1>2, <1>8, <1>10 DEF AtRecord, d
<1> QED BY <1>11

(* A member that is not repeated. *)
LEMMA LeafScanned ==
  ASSUME NEW x \in Structs, NEW in, NEW f, FrameBack(in, x, f), f.scanning,
         NEW j, NEW n, NEW i, AtRecord(in, x, f, j, n, i), ~ Repeated(x[1], n),
         TypeOf(x[1], n) \in LeafTypes, NEW h
  PROVE  LET tag == pbtools_decoder_read_tag(in, f.dec)
             r == ReadLeaf(in, TypeOf(x[1], n), tag.dec, h, tag.wire_type, FALSE)
         IN  \/ r.refused # ""
             \/ FrameBack(in, x, Scanned(f, r.dec, Assign(x[1], f.msg, n, <<r.value>>), f.infos))
<1> DEFINE tag == pbtools_decoder_read_tag(in, f.dec)
           type == TypeOf(x[1], n)
           d == tag.dec
           w == WireTypeOf(type)
           v == x[2][n][1]
           rest == RestOf(All(x), j + 1)
           r == ReadLeaf(in, type, d, h, w, FALSE)
<1>1. /\ NextIs(x, j, n, i) /\ ScanBack(in, x, j, f.dec, f.msg, f.infos)
      /\ n \in FieldsOf(x[1]) /\ i \in 1 .. Len(Parts(x)[n]) /\ j + 1 \in 0 .. Len(All(x))
      /\ tag.wire_type = Wire(x[1], n) /\ rest \in Seq(Byte)
      /\ Behind(in, f.dec, d, Content(Wire(x[1], n), Body(x, n, i)) \o rest)
  BY DEF AtRecord
<1>2. i = 1 /\ v \in ItemsOf(type)
  BY <1>1, MemberIs
<1>3. tag.wire_type = w /\ Wire(x[1], n) = w
  BY <1>1 DEF Wire
<1>4. Body(x, n, i) = ValueBytes(type, v)
  <2>1. type \notin MessageTypes
    BY MessageAssumption
  <2> HIDE DEF type
  <2> QED BY <1>2, <2>1 DEF Body, type
<1>5. Left(in, d, Content(w, ValueBytes(type, v)) \o rest) /\ d.size = f.dec.size
  BY <1>1, <1>3, <1>4 DEF Behind
<1> HIDE DEF d, w, v, rest, type, tag
<1>6. Got(in, d, r, rest, SentValue(type, v, Sent))
  <2>1. type \in LeafTypes
    BY DEF type
  <2> QED BY <1>1, <1>2, <1>5, <2>1, LeafBack DEF w
<1> HIDE DEF r
<1>7. ASSUME r.refused = ""
      PROVE  FrameBack(in, x, Scanned(f, r.dec, Assign(x[1], f.msg, n, <<r.value>>), f.infos))
  <2>1. Left(in, r.dec, rest) /\ r.dec.size = f.dec.size /\ r.value = SentValue(type, v, Sent)
    BY <1>5, <1>6, <1>7 DEF Got, Behind
  <2> DEFINE e == r.dec  m == Assign(x[1], f.msg, n, <<SentValue(TypeOf(x[1], n), x[2][n][1], Sent)>>)
  <2>2. Left(in, e, RestOf(All(x), j + 1))
    BY <2>1 DEF rest
  <2> HIDE DEF e
  <2>3. ScanBack(in, x, j + 1, e, m, f.infos)
    BY <1>1, <2>2, MemberScanned
  <2> HIDE DEF m
  <2>4. FrameBack(in, x, Scanned(f, e, m, f.infos))
    BY <1>1, <2>1, <2>3, ScannedBack DEF e
  <2> QED BY <2>1, <2>4 DEF e, m, type, v
<1> QED BY <1>3, <1>7 DEF r, d, type, tag

(* A record of a repeated field is counted. *)
LEMMA CountScanned ==
  ASSUME NEW x \in Structs, NEW in, NEW f, FrameBack(in, x, f), f.scanning,
         NEW j, NEW n, NEW i, AtRecord(in, x, f, j, n, i), Repeated(x[1], n)
  PROVE  LET tag == pbtools_decoder_read_tag(in, f.dec)
             info == repeated_info_init_decode(f.infos[n], tag.dec, tag.wire_type)
             c == CountItems(in, TypeOf(x[1], n), tag.dec, tag.wire_type)
             new == [info EXCEPT !.length = @ + c.count]
         IN  FrameBack(in, x, Scanned(f, c.dec, f.msg, [f.infos EXCEPT ![n] = new]))
<1> DEFINE tag == pbtools_decoder_read_tag(in, f.dec)
           d == tag.dec
           old == f.infos[n]
           rest == RestOf(All(x), j + 1)
           begun == repeated_info_init_decode(old, d, LENGTH_DELIMITED)
           c == CountItems(in, TypeOf(x[1], n), d, LENGTH_DELIMITED)
           new == [begun EXCEPT !.length = @ + c.count]
<1>1. /\ NextIs(x, j, n, i) /\ ScanBack(in, x, j, f.dec, f.msg, f.infos)
      /\ n \in FieldsOf(x[1]) /\ i \in 1 .. Len(Parts(x)[n]) /\ j + 1 \in 0 .. Len(All(x))
      /\ tag.wire_type = Wire(x[1], n) /\ rest \in Seq(Byte)
      /\ Behind(in, f.dec, d, Content(Wire(x[1], n), Body(x, n, i)) \o rest)
  BY DEF AtRecord
<1>2. tag.wire_type = LENGTH_DELIMITED /\ Wire(x[1], n) = LENGTH_DELIMITED
  BY <1>1 DEF Wire
<1>3. Left(in, d, Content(LENGTH_DELIMITED, Body(x, n, i)) \o rest) /\ d.size = f.dec.size
  BY <1>1, <1>2 DEF Behind
<1>4. InfoBack(in, x, n, old, i - 1) /\ j + 1 = First(x)[n] + i
  <2>1. n \in RepeatedFields(x[1]) /\ SoFar(x, n, j) = i - 1 /\ j + 1 = First(x)[n] + i
    BY <1>1 DEF NextIs, Repeated
  <2>2. InfoBack(in, x, n, old, SoFar(x, n, j))
    BY <1>1, <2>1 DEF ScanBack
  <2> QED BY <2>1, <2>2
<1> HIDE DEF d, old, tag
<1>5. Behind(in, d, c.dec, rest)
  BY <1>1, <1>3, CountBack
<1>6. InfoBack(in, x, n, new, i)
  BY <1>1, <1>3, <1>4, InfoCounted
<1> HIDE DEF new
<1> DEFINE e == c.dec  infos == [f.infos EXCEPT ![n] = new]
<1>7. Left(in, e, RestOf(All(x), j + 1)) /\ e.size = f.dec.size
  BY <1>3, <1>5 DEF Behind
<1> HIDE DEF e
<1>8. ScanBack(in, x, j + 1, e, f.msg, infos)
  BY <1>1, <1>6, <1>7, RepeatedScanned
<1> HIDE DEF infos
<1>9. FrameBack(in, x, Scanned(f, e, f.msg, infos))
  BY <1>1, <1>7, <1>8, ScannedBack
<1> QED BY <1>2, <1>9 DEF e, infos, new, d, old, tag
-----------------------------------------------------------------------------
(* A call that has only begun, on a window that is the encoding. *)
LEMMA StartBack ==
  ASSUME NEW x \in Structs, NEW in, NEW d, Left(in, d, Encoding[x]), d.size = Len(Encoding[x]), NEW n
  PROVE  LET c == Started(x[1], d, EmptyMessage(x[1]), n) IN FrameBack(in, x, c)
<1> DEFINE t == x[1]
           m == EmptyMessage(t)
           c == Started(t, d, m, n)
           infos == [k \in RepeatedFields(t) |-> Info(d)]
<1>1. /\ DOMAIN c = FrameFields /\ c.type = t /\ c.dec = d /\ c.msg = m /\ c.field = n
      /\ c.infos = infos /\ c.todo = <<>> /\ c.reading = FALSE /\ c.index = 0 /\ c.scanning = TRUE
  BY DEF Frame, FrameFields, Started
<1> HIDE DEF c
<1>2. DOMAIN infos = RepeatedFields(t) /\ \A k \in RepeatedFields(t) : infos[k] = Info(d)
  OBVIOUS
<1> HIDE DEF infos
<1>3. c.scanning /\ ~ c.reading /\ c.scanning \in BOOLEAN /\ c.reading \in BOOLEAN
  BY <1>1, Zenon
<1>4. /\ All(x) \in Seq(Seq(Byte)) /\ Encoding[x] = FlattenSeq(All(x))
  BY AllIs
<1>5. RestOf(All(x), 0) = Encoding[x] /\ 0 \in 0 .. Len(All(x))
  <2> DEFINE all == All(x)
  <2>1. all \in Seq(Seq(Byte))
    BY <1>4
  <2> HIDE DEF all
  <2>2. RestOf(all, 0) = FlattenSeq(all)
    BY <2>1, RestOfAll
  <2>3. Len(all) \in Nat
    <3> DEFINE S == Seq(Byte)
    <3> HIDE DEF S
    <3> QED BY <2>1 DEF S
  <2> QED BY <1>4, <2>2, <2>3 DEF all
<1>6. \A k \in FieldsOf(t) : SoFar(x, k, 0) = 0
  BY TakenEnds
<1>7. m = [k \in FieldsOf(t) |-> Seen(x, k, SoFar(x, k, 0))]
  <2>1. \A k \in FieldsOf(t) : Seen(x, k, SoFar(x, k, 0)) = DefaultOf(t, k)
    BY <1>6 DEF Seen
  <2> QED BY <2>1 DEF EmptyMessage
<1>8. ASSUME NEW k \in RepeatedFields(t) PROVE InfoBack(in, x, k, infos[k], SoFar(x, k, 0))
  <2>1. infos[k] = Info(d) /\ SoFar(x, k, 0) = 0
    BY <1>2, <1>6, <1>8 DEF RepeatedFields
  <2>2. DOMAIN Info(d) = {"length", "wire_type", "dec"} /\ Info(d).length = 0
    BY DEF Info
  <2>3. InfoBack(in, x, k, Info(d), 0)
    BY <2>2 DEF InfoBack
  <2> QED BY <2>1, <2>3
<1>9. ScanBack(in, x, 0, d, m, infos)
  BY <1>2, <1>5, <1>7, <1>8 DEF ScanBack
<1>10. \E j \in 0 .. Len(All(x)) : ScanBack(in, x, j, c.dec, c.msg, c.infos)
  BY <1>1, <1>5, <1>9
<1>11. FrameBack(in, x, c)
  BY <1>1, <1>3, <1>10 DEF FrameBack
<1> QED BY <1>11 DEF c

(* The caller, when the call that it waits for has decoded y. *)
Resume(f, n, y) ==
  IF f.scanning
  THEN [f EXCEPT !.dec = decoder_seek(@, Len(Encoding[y])),
                 !.msg = Assign(f.type, @, n, <<Sent[y]>>)]
  ELSE [f EXCEPT !.infos[n].dec = decoder_seek(@, Len(Encoding[y])),
                 !.msg[n][f.index + 1] = Sent[y],
                 !.index = @ + 1]

(* A sub-message behind its length: its window is its encoding, and the caller
   goes on behind it. *)
InWindow(in, y, d, rest, n) ==
  LET r == decoder_read_length_delimited(in, d, LENGTH_DELIMITED)
      c == [SubFrame(y[1], r, EmptyMessage(y[1])) EXCEPT !.field = n]
  IN  /\ FrameBack(in, y, c) /\ c.field = n
      /\ Behind(in, d, decoder_seek(r.dec, Len(Encoding[y])), rest)

LEMMA WindowBack ==
  ASSUME NEW y \in Structs, NEW rest \in Seq(Byte), NEW in, NEW d,
         Left(in, d, Content(LENGTH_DELIMITED, Encoding[y]) \o rest), NEW n
  PROVE  InWindow(in, y, d, rest, n)
<1> DEFINE body == Encoding[y]
           r == decoder_read_length_delimited(in, d, LENGTH_DELIMITED)
           u == r.dec
           s == decoder_init_slice(u, Len(body))
           c == [SubFrame(y[1], r, EmptyMessage(y[1])) EXCEPT !.field = n]
<1>1. body \in Seq(Byte)
  BY AllIs
<1>2. Left(in, d, Content(LENGTH_DELIMITED, body) \o rest)
  OBVIOUS
<1> HIDE DEF body
<1>3. int(r.value) = Len(body) /\ Behind(in, d, u, body \o rest)
  BY <1>1, <1>2, LengthBack
<1>4. c = Started(y[1], s, EmptyMessage(y[1]), n)
  BY <1>3 DEF SubFrame, Started
<1> HIDE DEF c, u
<1>5. Left(in, u, body \o rest) /\ u.size = d.size
  BY <1>3 DEF Behind
<1>6. Left(in, s, body) /\ s.size = Len(body)
  BY <1>1, <1>5, SliceTakes
<1> HIDE DEF s
<1>7. FrameBack(in, y, c) /\ c.field = n
  <2>1. Left(in, s, Encoding[y]) /\ s.size = Len(Encoding[y])
    BY <1>6 DEF body
  <2> DEFINE b == Started(y[1], s, EmptyMessage(y[1]), n)
  <2>2. FrameBack(in, y, b)
    BY <2>1, StartBack
  <2>3. b.field = n
    BY DEF Started, Frame
  <2> QED BY <1>4, <2>2, <2>3
<1>8. Behind(in, u, decoder_seek(u, Len(body)), rest)
  BY <1>1, <1>5, SeekBehind
<1>9. Behind(in, d, decoder_seek(u, Len(body)), rest)
  BY <1>5, <1>8 DEF Behind
<1> QED BY <1>7, <1>9 DEF c, u, body, InWindow

(* A sub-message that is not repeated. *)
LEMMA SubMessageScanned ==
  ASSUME NEW x \in Structs, NEW in, NEW f, FrameBack(in, x, f), f.scanning,
         NEW j, NEW n, NEW i, AtRecord(in, x, f, j, n, i), ~ Repeated(x[1], n),
         TypeOf(x[1], n) \in MessageTypes
  PROVE  LET tag == pbtools_decoder_read_tag(in, f.dec)
             type == TypeOf(x[1], n)
             r == decoder_read_length_delimited(in, tag.dec, tag.wire_type)
             c == [SubFrame(type, r, EmptyMessage(type)) EXCEPT !.field = n]
             y == <<type, x[2][n][1]>>
         IN  /\ y \in Structs /\ FrameBack(in, y, c) /\ c.field = n
             /\ FrameBack(in, x, Resume([f EXCEPT !.dec = r.dec], n, y))
<1> DEFINE tag == pbtools_decoder_read_tag(in, f.dec)
           type == TypeOf(x[1], n)
           d == tag.dec
           v == x[2][n][1]
           y == <<type, v>>
           rest == RestOf(All(x), j + 1)
           r == decoder_read_length_delimited(in, d, LENGTH_DELIMITED)
           c == [SubFrame(type, r, EmptyMessage(type)) EXCEPT !.field = n]
           g == [f EXCEPT !.dec = r.dec]
           e == decoder_seek(r.dec, Len(Encoding[y]))
           m == Assign(x[1], f.msg, n, <<SentValue(TypeOf(x[1], n), x[2][n][1], Sent)>>)
<1>1. /\ NextIs(x, j, n, i) /\ ScanBack(in, x, j, f.dec, f.msg, f.infos)
      /\ n \in FieldsOf(x[1]) /\ i \in 1 .. Len(Parts(x)[n]) /\ j + 1 \in 0 .. Len(All(x))
      /\ tag.wire_type = Wire(x[1], n) /\ rest \in Seq(Byte)
      /\ Behind(in, f.dec, d, Content(Wire(x[1], n), Body(x, n, i)) \o rest)
  BY DEF AtRecord
<1>2. i = 1 /\ x[2][n] # <<>> /\ Len(x[2][n]) = 1
  BY <1>1, MemberIs
<1>3. tag.wire_type = LENGTH_DELIMITED /\ Wire(x[1], n) = LENGTH_DELIMITED
  <2>1. WireTypeOf(type) = LENGTH_DELIMITED
    BY WireTypesAre
  <2> QED BY <1>1, <2>1 DEF Wire
<1>4. y \in Structs
  <2>1. 1 \in DOMAIN x[2][n]
    <3>1. DOMAIN x[2][n] = 1 .. Len(x[2][n])
      BY <1>1, FieldIs
    <3> DEFINE b == Len(x[2][n])
    <3>2. b = 1 /\ DOMAIN x[2][n] = 1 .. b
      BY <1>2, <3>1
    <3> HIDE DEF b
    <3> QED BY <3>2
  <2> QED BY <1>1, <2>1, SubMessageIs
<1>5. Body(x, n, i) = Encoding[y]
  BY <1>2 DEF Body
<1>6. SentValue(type, v, Sent) = Sent[y]
  <2>1. type # "string"
    BY MessageAssumption DEF LeafTypes, PayloadTypes
  <2> HIDE DEF type, v
  <2>2. type \in MessageTypes
    BY DEF type
  <2> QED BY <2>1, <2>2 DEF SentValue
<1>7. Left(in, d, Content(LENGTH_DELIMITED, Encoding[y]) \o rest) /\ d.size = f.dec.size
  BY <1>1, <1>3, <1>5 DEF Behind
<1>8. y[1] = type
  OBVIOUS
<1> HIDE DEF d, y, rest, v
<1>9. FrameBack(in, y, c) /\ c.field = n /\ Behind(in, d, e, rest)
  <2> DEFINE b == [SubFrame(y[1], r, EmptyMessage(y[1])) EXCEPT !.field = n]
  <2>1. FrameBack(in, y, b) /\ b.field = n /\ Behind(in, d, e, rest)
    BY <1>1, <1>4, <1>7, WindowBack DEF InWindow
  <2>2. b = c
    BY <1>8
  <2> QED BY <2>1, <2>2
<1>10. Left(in, e, RestOf(All(x), j + 1)) /\ e.size = f.dec.size
  BY <1>7, <1>9 DEF Behind, rest
<1>11. DOMAIN f = FrameFields /\ f.type = x[1]
  BY DEF FrameBack
<1>12. Resume(g, n, y) = Scanned(f, e, m, f.infos)
  <2>1. m = Assign(f.type, f.msg, n, <<Sent[y]>>)
    BY <1>6, <1>11 DEF v
  <2> HIDE DEF m, r, tag
  <2> DEFINE u == r.dec  len == Len(Encoding[y])  w == <<Sent[y]>>
             b == [f EXCEPT !.dec = u]
  <2>2. e = decoder_seek(u, len) /\ m = Assign(f.type, f.msg, n, w) /\ g = b
    BY <2>1
  <2> HIDE DEF u, len, w, e
  <2>3. /\ DOMAIN b = FrameFields /\ b.dec = u /\ b.type = f.type /\ b.msg = f.msg
        /\ b.scanning = f.scanning
    BY <1>11 DEF FrameFields
  <2>4. b.scanning
    BY <2>3, Zenon
  <2>5. Resume(b, n, y) = [b EXCEPT !.dec = decoder_seek(@, len), !.msg = Assign(b.type, @, n, w)]
    BY <2>4 DEF Resume, len, w
  <2>6. [b EXCEPT !.dec = decoder_seek(@, len), !.msg = Assign(b.type, @, n, w)]
          = [b EXCEPT !.dec = e, !.msg = m]
    BY <1>11, <2>2, <2>3 DEF FrameFields
  <2>7. [b EXCEPT !.dec = e, !.msg = m] = [f EXCEPT !.dec = e, !.msg = m]
    BY <1>11 DEF FrameFields
  <2>8. [f EXCEPT !.dec = e, !.msg = m] = Scanned(f, e, m, f.infos)
    BY <1>11, SameFrame
  <2> QED BY <2>2, <2>5, <2>6, <2>7, <2>8
<1> HIDE DEF e
<1>13. ScanBack(in, x, j + 1, e, m, f.infos)
  BY <1>1, <1>10, MemberScanned
<1> HIDE DEF m
<1>14. FrameBack(in, x, Scanned(f, e, m, f.infos))
  BY <1>1, <1>10, <1>13, ScannedBack
<1> QED BY <1>3, <1>4, <1>9, <1>12, <1>14 DEF y, v, d
-----------------------------------------------------------------------------
(* The reading pass.  Where a record's items are, its tag read. *)
AtItem(in, x, f, n, d) ==
  LET k == f.index + 1  rest == RestOf(All(x), First(x)[n] + k)
  IN  /\ f.index \in Nat /\ k \in 1 .. Len(x[2][n]) /\ k \in 1 .. Len(Parts(x)[n])
      /\ Numbers(x[1], n) => f.index = 0
      /\ Body(x, n, k) \in Seq(Byte) /\ rest \in Seq(Byte)
      /\ Left(in, d, Content(LENGTH_DELIMITED, Body(x, n, k)) \o rest)

LEMMA ItemPlace ==
  ASSUME NEW x \in Structs, NEW n \in FieldsOf(x[1]), NEW i \in 1 .. Len(Parts(x)[n])
  PROVE  /\ Body(x, n, i) \in Seq(Byte) /\ RestOf(All(x), First(x)[n] + i) \in Seq(Byte)
         /\ First(x)[n] \in Nat /\ First(x)[n] + i \in 1 .. Len(All(x)) /\ Len(All(x)) \in Nat
<1> DEFINE all == All(x)  p == First(x)[n]  len == Len(all)
<1>1. Body(x, n, i) \in Seq(Byte)
  BY RecordsAre DEF RecordsOK
<1>2. p \in Nat /\ len \in Nat
  BY PartsLength
<1>3. p + i \in 1 .. len
  <2>1. Layout(all, First(x), Parts(x), FieldsOf(x[1]))
    BY AllIs
  <2> QED BY <2>1 DEF Layout
<1> DEFINE j == p + i
<1>4. j \in 0 .. len
  <2>1. j \in 1 .. len
    BY <1>3
  <2> HIDE DEF j, len
  <2> QED BY <2>1, <1>2
<1> HIDE DEF j
<1>5. RestOf(All(x), j) \in Seq(Byte)
  BY <1>4, RecordsLeft
<1> QED BY <1>1, <1>2, <1>3, <1>5 DEF j

LEMMA FirstAt ==
  ASSUME NEW x \in Structs, NEW in, NEW f, FrameBack(in, x, f), ~ f.scanning, f.todo # <<>>,
         ~ f.reading, NEW n, n = f.todo[1], f.infos[n].length > 0
  PROVE  f.infos[n].wire_type = LENGTH_DELIMITED /\ AtItem(in, x, f, n, f.infos[n].dec)
<1>1. /\ n \in FieldsOf(x[1]) /\ f.index = 0 /\ Len(x[2][n]) \in Nat /\ Len(x[2][n]) > 0
      /\ CountedBack(in, x, n, f.infos[n])
  BY FinalIs DEF FinalFacts
<1>2. /\ 1 \in 1 .. Len(Parts(x)[n]) /\ f.infos[n].wire_type = LENGTH_DELIMITED
      /\ Left(in, f.infos[n].dec,
              Content(LENGTH_DELIMITED, Body(x, n, 1)) \o RestOf(All(x), First(x)[n] + 1))
  BY <1>1 DEF CountedBack
<1>3. Body(x, n, 1) \in Seq(Byte) /\ RestOf(All(x), First(x)[n] + 1) \in Seq(Byte)
  BY <1>1, <1>2, ItemPlace
<1>4. f.index + 1 = 1 /\ f.index \in Nat /\ 1 \in 1 .. Len(x[2][n])
  BY <1>1
<1> QED BY <1>1, <1>2, <1>3, <1>4 DEF AtItem

LEMMA NextAt ==
  ASSUME NEW x \in Structs, NEW in, NEW f, FrameBack(in, x, f), ~ f.scanning, f.todo # <<>>,
         f.reading, NEW n, n = f.todo[1], f.index < f.infos[n].length
  PROVE  LET tag == pbtools_decoder_read_tag(in, f.infos[n].dec)
         IN  /\ tag.field_number = n /\ tag.wire_type = LENGTH_DELIMITED
             /\ AtItem(in, x, f, n, tag.dec) /\ f.msg[n] = Partly(x, n, f.index)
<1> DEFINE d == f.infos[n].dec  k == f.index  len == Len(x[2][n])  p == First(x)[n]
           tag == pbtools_decoder_read_tag(in, d)
<1>1. /\ n \in FieldsOf(x[1]) /\ Repeated(x[1], n) /\ len \in Nat
      /\ f.infos[n].length = len /\ ItemsBack(in, x, n, f.infos[n], k, f.msg[n])
  BY FinalIs DEF FinalFacts
<1>2. k \in 1 .. len /\ k < len /\ ~ Numbers(x[1], n) /\ f.msg[n] = Partly(x, n, k)
      /\ Left(in, d, RestOf(All(x), p + k))
  <2>1. /\ k \in 1 .. len /\ f.msg[n] = Partly(x, n, k) /\ (Numbers(x[1], n) => k = len)
        /\ Left(in, d, RestOf(All(x), p + (IF Numbers(x[1], n) THEN 1 ELSE k)))
    BY <1>1 DEF ItemsBack
  <2>2. k < len
    BY <1>1
  <2>3. ~ Numbers(x[1], n)
    <3> HIDE DEF k, len
    <3> QED BY <1>1, <2>1, <2>2
  <2> QED BY <2>1, <2>2, <2>3
<1>3. Len(Parts(x)[n]) = len
  BY <1>1, <1>2, RecordsAre DEF RecordsOK
<1> HIDE DEF len
<1>4. k + 1 \in 1 .. Len(Parts(x)[n]) /\ k + 1 \in 1 .. len /\ k \in Nat
  <2> HIDE DEF k
  <2>1. k + 1 \in 1 .. len /\ k \in Nat
    BY <1>1, <1>2
  <2> QED BY <1>3, <2>1
<1> DEFINE i == k + 1  j == p + k
<1>5. p \in Nat /\ Body(x, n, i) \in Seq(Byte) /\ RestOf(All(x), p + i) \in Seq(Byte)
  BY <1>1, <1>4, ItemPlace
<1>6. j \in Nat /\ j + 1 = p + i
  <2> HIDE DEF p, k
  <2> QED BY <1>4, <1>5
<1> HIDE DEF i, j, d
<1>7. Left(in, d, RestOf(All(x), j)) /\ i \in 1 .. Len(Parts(x)[n]) /\ j + 1 = First(x)[n] + i
  BY <1>2, <1>4, <1>6 DEF i, j
<1>8. /\ tag.field_number = n /\ tag.wire_type = Wire(x[1], n)
      /\ Behind(in, d, tag.dec, Content(Wire(x[1], n), Body(x, n, i)) \o RestOf(All(x), j + 1))
  BY <1>1, <1>6, <1>7, TagBack
<1>9. Wire(x[1], n) = LENGTH_DELIMITED
  BY <1>1 DEF Wire
<1>10. Left(in, tag.dec, Content(LENGTH_DELIMITED, Body(x, n, i)) \o RestOf(All(x), p + i))
  BY <1>6, <1>8, <1>9 DEF Behind
<1>11. i = f.index + 1 /\ f.index \in Nat /\ i \in 1 .. Len(x[2][n])
  BY <1>4 DEF i, len
<1> HIDE DEF tag
<1>12. AtItem(in, x, f, n, tag.dec)
  BY <1>2, <1>5, <1>7, <1>10, <1>11 DEF AtItem
<1> QED BY <1>2, <1>8, <1>9, <1>12 DEF tag, d

(* The loop only ends when it has read every item, and not at an error. *)
ItemsEnded(x, f, n) ==
  f.msg[n] = Sent[x][n] /\ decoder_get_result(f.infos[n].dec) \in Nat

LEMMA ItemsEnd ==
  ASSUME NEW x \in Structs, NEW in, NEW f, FrameBack(in, x, f), ~ f.scanning, f.todo # <<>>,
         f.reading, NEW n, n = f.todo[1], ~ are_more_items_to_decode(f.infos[n], f.index)
  PROVE  ItemsEnded(x, f, n)
<1> DEFINE d == f.infos[n].dec  k == f.index  len == Len(x[2][n])  p == First(x)[n]
           i == IF Numbers(x[1], n) THEN 1 ELSE k
           rest == RestOf(All(x), p + i)
<1>1. /\ n \in FieldsOf(x[1]) /\ Repeated(x[1], n) /\ len \in Nat
      /\ f.infos[n].length = len /\ ItemsBack(in, x, n, f.infos[n], k, f.msg[n])
  BY FinalIs DEF FinalFacts
<1>2. /\ k \in 1 .. len /\ f.msg[n] = Partly(x, n, k) /\ (Numbers(x[1], n) => k = len)
      /\ Left(in, d, rest)
  BY <1>1 DEF ItemsBack
<1>3. /\ Repeated(x[1], n) /\ x[2][n] # <<>>
      /\ Len(Parts(x)[n]) = IF Numbers(x[1], n) THEN 1 ELSE len
  <2>1. x[2][n] # <<>>
    <3> DEFINE v == x[2][n]
    <3>1. len # 0 /\ len = Len(v)
      <4> HIDE DEF k
      <4> QED BY <1>1, <1>2
    <3> HIDE DEF len, v
    <3>2. v # <<>>
      BY <3>1
    <3> QED BY <3>2 DEF v
  <2> QED BY <1>1, <2>1, RecordsAre DEF RecordsOK
<1> HIDE DEF len, k
<1>4. i \in 1 .. Len(Parts(x)[n]) /\ i \in Nat
  BY <1>1, <1>2, <1>3
<1> HIDE DEF i
<1>5. /\ p \in Nat /\ p + i \in 1 .. Len(All(x)) /\ Len(All(x)) \in Nat /\ rest \in Seq(Byte)
  BY <1>1, <1>4, ItemPlace
<1> DEFINE j == p + i  all == Len(All(x))
<1>6. j \in 0 .. all
  <2>1. j \in 1 .. all /\ all \in Nat
    BY <1>5
  <2> HIDE DEF j, all
  <2> QED BY <2>1
<1> HIDE DEF j
<1>7. rest = <<>> <=> j = all
  BY <1>6, RecordsLeft DEF j
<1> HIDE DEF rest, d
<1>8. d.pos \in Nat /\ (pbtools_decoder_available(d) <=> rest # <<>>)
  BY <1>2, <1>5, LeftIs
<1>9. decoder_get_result(d) \in Nat
  BY <1>8 DEF decoder_get_result
<1>10. k = len
  <2>1. SUFFICES ASSUME k # len PROVE FALSE
    OBVIOUS
  <2>2. k < len /\ ~ Numbers(x[1], n) /\ i = k
    BY <1>1, <1>2, <2>1 DEF i
  <2>3. Len(Parts(x)[n]) = len /\ i + 1 \in 1 .. Len(Parts(x)[n])
    BY <1>1, <1>2, <1>3, <2>2
  <2> DEFINE o == i + 1
  <2>4. p + o \in 1 .. all
    <3> HIDE DEF o
    <3>1. o \in 1 .. Len(Parts(x)[n])
      BY <2>3 DEF o
    <3> QED BY <1>1, <3>1, ItemPlace
  <2>5. j < all
    <3>1. p \in Nat /\ i \in Nat /\ all \in Nat /\ p + (i + 1) \in 1 .. all
      BY <1>4, <1>5, <2>4
    <3> HIDE DEF p, all
    <3> QED BY <3>1 DEF j
  <2>6. rest # <<>>
    <3>1. j # all
      <4> HIDE DEF all
      <4> QED BY <1>6, <2>5
    <3> QED BY <1>7, <3>1
  <2>7. pbtools_decoder_available(f.infos[n].dec) /\ f.index < f.infos[n].length
    BY <1>1, <1>8, <2>2, <2>6 DEF d, k
  <2> QED BY <2>7 DEF are_more_items_to_decode
<1>11. Partly(x, n, len) = Sent[x][n]
  BY <1>1, PartlyIs DEF len
<1> QED BY <1>2, <1>9, <1>10, <1>11 DEF d, ItemsEnded
-----------------------------------------------------------------------------
(* The items of a record, from the index on. *)
GroupBack(in, x, f, n, r) ==
  LET count == Len(r.values)
  IN  /\ count \in Nat \ {0} /\ DOMAIN r.values = 1 .. count /\ f.index + count \in 1 .. Len(x[2][n])
      /\ Numbers(x[1], n) => f.index = 0 /\ f.index + count = Len(x[2][n])
      /\ ~ Numbers(x[1], n) => count = 1
      /\ \A i \in 1 .. count : r.values[i] = Sent[x][n][f.index + i]
      /\ Left(in, r.dec, RestOf(All(x), First(x)[n] + f.index + 1))

LEMMA NumberSent ==
  ASSUME NEW x \in Structs, NEW n \in FieldsOf(x[1]), Numbers(x[1], n)
  PROVE  \A i \in 1 .. Len(x[2][n]) : Sent[x][n][i] = x[2][n][i]
<1> DEFINE type == TypeOf(x[1], n)
<1>1. type # "string" /\ type \notin MessageTypes
  <2>1. type \in VarintTypes \cup FixedTypes
    BY DEF Numbers
  <2>2. type \in LeafTypes
    BY <2>1 DEF LeafTypes
  <2>3. type \notin MessageTypes
    BY <2>2, MessageAssumption
  <2> HIDE DEF type
  <2>4. type # "string"
    BY <2>1 DEF VarintTypes, Varint32Types, FixedTypes, Fixed32Types
  <2> QED BY <2>3, <2>4
<1> HIDE DEF type
<1>2. \A v : SentValue(type, v, Sent) = v
  BY <1>1 DEF SentValue
<1>3. SentForm(x, n, x[2][n])
  BY FieldIs
<1> QED BY <1>2, <1>3 DEF SentForm, type

LEMMA PayloadSent ==
  ASSUME NEW x \in Structs, NEW n \in FieldsOf(x[1]), TypeOf(x[1], n) \in PayloadTypes,
         NEW k \in 1 .. Len(x[2][n])
  PROVE  /\ Sent[x][n][k] = Payload(TypeOf(x[1], n), x[2][n][k]) /\ x[2][n][k] \in Seq(Byte)
         /\ Body(x, n, k) = Payload(TypeOf(x[1], n), x[2][n][k]) /\ ~ Numbers(x[1], n)
<1> DEFINE type == TypeOf(x[1], n)  v == x[2][n][k]
<1>1. v \in ItemsOf(type) /\ SentForm(x, n, x[2][n])
  BY FieldIs
<1>2. type \notin MessageTypes /\ type \notin VarintTypes /\ type \notin FixedTypes
  <2>1. type \in PayloadTypes
    OBVIOUS
  <2>2. type \notin MessageTypes
    BY <2>1, MessageAssumption DEF LeafTypes
  <2> HIDE DEF type
  <2> QED BY <2>1, <2>2 DEF PayloadTypes, VarintTypes, Varint32Types, FixedTypes, Fixed32Types
<1>3. v \in Seq(Byte)
  BY <1>1, <1>2 DEF ItemsOf
<1>4. Sent[x][n][k] = SentValue(type, v, Sent)
  BY <1>1 DEF SentForm
<1>5. SentValue(type, v, Sent) = Payload(type, v)
  BY <1>3, SentPayload
<1>6. ~ Numbers(x[1], n)
  BY <1>2 DEF Numbers
<1>7. Body(x, n, k) = Payload(type, v)
  BY <1>2, <1>6 DEF Body, ValueBytes
<1> QED BY <1>3, <1>4, <1>5, <1>6, <1>7

LEMMA GroupIs ==
  ASSUME NEW x \in Structs, NEW n \in FieldsOf(x[1]), Repeated(x[1], n),
         TypeOf(x[1], n) \in LeafTypes, NEW in, NEW f, NEW d, AtItem(in, x, f, n, d), NEW h
  PROVE  LET r == ReadGroup(in, TypeOf(x[1], n), d, h, LENGTH_DELIMITED)
         IN  r.refused # "" \/ GroupBack(in, x, f, n, r)
<1> DEFINE type == TypeOf(x[1], n)  k == f.index  len == Len(x[2][n])  p == First(x)[n]
           rest == RestOf(All(x), p + (k + 1))
           r == ReadGroup(in, type, d, h, LENGTH_DELIMITED)
<1>1. /\ k \in Nat /\ k + 1 \in 1 .. len /\ (Numbers(x[1], n) => k = 0)
      /\ rest \in Seq(Byte) /\ len \in Nat
      /\ Left(in, d, Content(LENGTH_DELIMITED, Body(x, n, k + 1)) \o rest)
  BY PartlyIs DEF AtItem
<1>2. p \in Nat /\ p + (k + 1) = p + k + 1
  <2>1. p \in Nat /\ k \in Nat
    BY <1>1, PartsLength
  <2> HIDE DEF p, k
  <2> QED BY <2>1
<1>3. CASE type \in PayloadTypes
  <2> DEFINE v == x[2][n][k + 1]
  <2>1. /\ Sent[x][n][k + 1] = Payload(type, v) /\ v \in Seq(Byte)
        /\ Body(x, n, k + 1) = Payload(type, v) /\ ~ Numbers(x[1], n)
    BY <1>1, <1>3, PayloadSent
  <2>2. Left(in, d, Content(LENGTH_DELIMITED, Payload(type, v)) \o rest) /\ rest \in Seq(Byte)
    BY <1>1, <2>1
  <2> HIDE DEF v, rest, type
  <2>3. GotOne(in, d, r, rest, Payload(type, v))
    BY <1>3, <2>1, <2>2, GroupPayloadBack
  <2> HIDE DEF r, k, len
  <2>4. ASSUME r.refused = "" PROVE GroupBack(in, x, f, n, r)
    <3> DEFINE one == Payload(type, v)
    <3> HIDE DEF one
    <3>1. Left(in, r.dec, rest) /\ r.values = <<one>>
      BY <2>3, <2>4 DEF GotOne, Behind, one
    <3>2. Len(r.values) = 1 /\ DOMAIN r.values = 1 .. 1 /\ r.values[1] = one
      BY <3>1
    <3>3. \A i \in 1 .. Len(r.values) : r.values[i] = Sent[x][n][k + i]
      <4>1. r.values[1] = Sent[x][n][k + 1]
        BY <2>1, <3>2 DEF one
      <4> QED BY <3>2, <4>1
    <3>4. Left(in, r.dec, RestOf(All(x), p + k + 1))
      BY <1>2, <3>1 DEF rest
    <3>5. Len(r.values) \in Nat \ {0} /\ k + Len(r.values) \in 1 .. len
      BY <1>1, <3>2
    <3> QED BY <2>1, <3>2, <3>3, <3>4, <3>5 DEF GroupBack, k, len
  <2> QED BY <2>4 DEF r, type
<1>4. CASE type \notin PayloadTypes
  <2> DEFINE values == x[2][n]
  <2>1. type \in VarintTypes \cup FixedTypes /\ Numbers(x[1], n) /\ k = 0
    BY <1>1, <1>4 DEF LeafTypes, Numbers
  <2>2. type \notin MessageTypes
    BY MessageAssumption
  <2>3. Body(x, n, k + 1) = PackedBytes(type, values)
    BY <2>1, <2>2 DEF Body
  <2>4. values \in Seq(Holds(type)) /\ DOMAIN values = 1 .. len
    <3>1. values \in Seq(ItemsOf(type)) /\ DOMAIN values = 1 .. len
      BY FieldIs
    <3> HIDE DEF values, type
    <3>2. ItemsOf(type) = Holds(type)
      BY <1>4, <2>2 DEF ItemsOf
    <3> QED BY <3>1, <3>2
  <2>5. Left(in, d, Content(LENGTH_DELIMITED, PackedBytes(type, values)) \o rest)
    BY <1>1, <2>3
  <2>6. \A i \in 1 .. len : Sent[x][n][i] = values[i]
    BY <2>1, NumberSent
  <2>11. len = Len(values)
    OBVIOUS
  <2> HIDE DEF values, rest, type, k, len
  <2>7. Behind(in, d, r.dec, rest) /\ r.values = values
    BY <1>1, <2>1, <2>4, <2>5, GroupPackedBack
  <2> HIDE DEF r
  <2>8. Len(r.values) = len /\ DOMAIN r.values = 1 .. len /\ k + len = len /\ len \in Nat \ {0}
    BY <1>1, <2>1, <2>4, <2>7, <2>11
  <2>9. \A i \in 1 .. len : r.values[i] = Sent[x][n][k + i]
    BY <2>1, <2>6, <2>7
  <2>10. Left(in, r.dec, RestOf(All(x), p + k + 1))
    BY <1>2, <2>7 DEF Behind, rest
  <2>12. k + len \in 1 .. len
    BY <2>8
  <2>13. GroupBack(in, x, f, n, r)
    BY <2>1, <2>8, <2>9, <2>10, <2>12 DEF GroupBack, k, len
  <2> QED BY <2>13 DEF r, type
<1> QED BY <1>3, <1>4

(* They are stored with those read before. *)
StoredItems(items, k, values) ==
  LET stored == k + 1 .. k + Len(values)
  IN  [i \in DOMAIN items \cup stored |-> IF i \in stored THEN values[i - k] ELSE items[i]]

LEMMA GroupStored ==
  ASSUME NEW x \in Structs, NEW n \in FieldsOf(x[1]), NEW in, NEW f, f.index \in Nat,
         NEW r, GroupBack(in, x, f, n, r), NEW info,
         DOMAIN info = {"length", "wire_type", "dec"}, info.length = Len(x[2][n])
  PROVE  ItemsBack(in, x, n, [info EXCEPT !.dec = r.dec], f.index + Len(r.values),
                   StoredItems(Partly(x, n, f.index), f.index, r.values))
<1> DEFINE k == f.index  len == Len(x[2][n])  count == Len(r.values)  p == First(x)[n]
           items == Partly(x, n, k)
           stored == StoredItems(items, k, r.values)
           new == [info EXCEPT !.dec = r.dec]
<1>1. /\ count \in Nat \ {0} /\ DOMAIN r.values = 1 .. count /\ k + count \in 1 .. len
      /\ Numbers(x[1], n) => k = 0 /\ k + count = len
      /\ ~ Numbers(x[1], n) => count = 1
      /\ \A i \in 1 .. count : r.values[i] = Sent[x][n][k + i]
      /\ Left(in, r.dec, RestOf(All(x), p + k + 1)) /\ k \in Nat
  BY DEF GroupBack
<1>2. /\ DOMAIN new = {"length", "wire_type", "dec"} /\ new.length = len /\ new.dec = r.dec
  OBVIOUS
<1>3. len \in Nat /\ p \in Nat
  BY PartlyIs, PartsLength
<1>4. stored = Partly(x, n, k + count)
  <2> DEFINE fresh == Fresh(TypeOf(x[1], n))  sent == Sent[x][n]  values == r.values
             some(m) == [i \in 1 .. len |-> IF i <= m THEN sent[i] ELSE fresh]
  <2>1. \A m : Partly(x, n, m) = some(m)
    BY DEF Partly
  <2>2. stored = StoredItems(some(k), k, values)
    BY <2>1
  <2>3. \A i \in 1 .. count : values[i] = sent[k + i]
    BY <1>1
  <2>4. Len(values) = count
    OBVIOUS
  <2> HIDE DEF fresh, sent, values, k, len, count, stored
  <2>5. ASSUME NEW i \in 1 .. len
        PROVE  (IF i \in k + 1 .. k + count THEN values[i - k] ELSE some(k)[i]) = some(k + count)[i]
    <3>1. CASE i \in k + 1 .. k + count
      <4>1. /\ i - k \in 1 .. count /\ k + (i - k) = i /\ i <= k + count
            /\ values[i - k] = sent[k + (i - k)]
        BY <1>1, <1>3, <2>3, <3>1
      <4> QED BY <3>1, <4>1
    <3>2. CASE i \notin k + 1 .. k + count
      <4>1. i <= k \/ i > k + count
        BY <1>1, <1>3, <3>2
      <4>2. i <= k <=> i <= k + count
        BY <1>1, <1>3, <4>1
      <4> QED BY <3>2, <4>2
    <3> QED BY <3>1, <3>2
  <2>6. DOMAIN some(k) \cup (k + 1 .. k + count) = 1 .. len
    BY <1>1, <1>3
  <2>7. StoredItems(some(k), k, values) = some(k + count)
    <3>1. StoredItems(some(k), k, values) =
            [i \in 1 .. len |-> IF i \in k + 1 .. k + count THEN values[i - k] ELSE some(k)[i]]
      BY <2>4, <2>6 DEF StoredItems
    <3> QED BY <2>5, <3>1
  <2> QED BY <2>1, <2>2, <2>7
<1> HIDE DEF new, stored
<1> DEFINE i == IF Numbers(x[1], n) THEN 1 ELSE k + count
<1>5. p + k + 1 = p + i
  <2>1. i = k + 1
    <3> HIDE DEF k, count, len
    <3> QED BY <1>1
  <2> HIDE DEF i, k, p
  <2> QED BY <1>1, <1>3, <2>1
<1>6. Left(in, new.dec, RestOf(All(x), p + i))
  BY <1>1, <1>2, <1>5
<1> QED BY <1>1, <1>2, <1>4, <1>6 DEF ItemsBack, new, stored
-----------------------------------------------------------------------------
(* The frame with its items allocated: nothing else of it is read from now on. *)
Ready(x, f, top, n) ==
  /\ DOMAIN top = FrameFields /\ n \in DOMAIN top.msg /\ n \in DOMAIN top.infos
  /\ top.msg[n] = Partly(x, n, f.index) /\ top.index = f.index
  /\ top.scanning = f.scanning /\ DOMAIN top.infos[n] = {"length", "wire_type", "dec"}
  /\ \A e, k, items : Stored(top, n, e, k, items) = Stored(f, n, e, k, items)

LEMMA ReadyNext ==
  ASSUME NEW x \in Structs, NEW in, NEW f, FrameBack(in, x, f), ~ f.scanning, f.todo # <<>>,
         NEW n, n = f.todo[1], f.msg[n] = Partly(x, n, f.index)
  PROVE  Ready(x, f, f, n)
<1>1. /\ n \in FieldsOf(x[1]) /\ n \in RepeatedFields(x[1]) /\ StillBack(in, x, f.todo, 2, f.msg, f.infos)
      /\ DOMAIN f.infos[n] = {"length", "wire_type", "dec"}
  <2>1. FinalFacts(in, x, f, n)
    BY FinalIs
  <2> QED BY <2>1 DEF FinalFacts
<1>2. n \in DOMAIN f.msg /\ n \in DOMAIN f.infos /\ DOMAIN f = FrameFields
  BY <1>1 DEF StillBack, FrameBack
<1> QED BY <1>1, <1>2 DEF Ready

LEMMA ReadyFirst ==
  ASSUME NEW x \in Structs, NEW in, NEW f, FrameBack(in, x, f), ~ f.scanning, f.todo # <<>>,
         ~ f.reading, NEW n, n = f.todo[1], NEW items,
         items = [i \in 1 .. f.infos[n].length |-> Fresh(TypeOf(x[1], n))]
  PROVE  Ready(x, f, [f EXCEPT !.msg[n] = items], n)
<1> DEFINE top == [f EXCEPT !.msg[n] = items]
<1>1. /\ n \in FieldsOf(x[1]) /\ n \in RepeatedFields(x[1])
      /\ StillBack(in, x, f.todo, 2, f.msg, f.infos) /\ f.index = 0
      /\ f.infos[n].length = Len(x[2][n]) /\ DOMAIN f.infos[n] = {"length", "wire_type", "dec"}
  <2>1. FinalFacts(in, x, f, n)
    BY FinalIs
  <2> QED BY <2>1 DEF FinalFacts
<1>2. n \in DOMAIN f.msg /\ n \in DOMAIN f.infos /\ DOMAIN f = FrameFields
  BY <1>1 DEF StillBack, FrameBack
<1>3. items = Partly(x, n, 0)
  BY <1>1, PartlyIs
<1>4. /\ DOMAIN top = FrameFields /\ top.infos = f.infos /\ top.index = f.index
      /\ top.scanning = f.scanning /\ top.msg = [f.msg EXCEPT ![n] = items]
  BY <1>2 DEF FrameFields
<1>5. ASSUME NEW e, NEW k, NEW v PROVE Stored(top, n, e, k, v) = Stored(f, n, e, k, v)
  <2> DEFINE m == [f.msg EXCEPT ![n] = items]  w == [f.msg EXCEPT ![n] = v]
             infos == [f.infos EXCEPT ![n].dec = e]
  <2>1. [m EXCEPT ![n] = v] = w
    OBVIOUS
  <2>2. top = [f EXCEPT !.msg = m]
    OBVIOUS
  <2>3. Stored(top, n, e, k, v) = [top EXCEPT !.infos = infos, !.reading = TRUE, !.index = k, !.msg = w]
    <3>1. top.infos = f.infos /\ top.msg = m /\ DOMAIN top = FrameFields
      BY <1>4
    <3> HIDE DEF top, m, w
    <3> QED BY <2>1, <3>1 DEF Stored, FrameFields
  <2>4. Stored(f, n, e, k, v) = [f EXCEPT !.infos = infos, !.reading = TRUE, !.index = k, !.msg = w]
    BY <1>2 DEF Stored, FrameFields
  <2> HIDE DEF m, w, infos, top
  <2>5. [[f EXCEPT !.msg = m] EXCEPT !.infos = infos, !.reading = TRUE, !.index = k, !.msg = w]
          = [f EXCEPT !.infos = infos, !.reading = TRUE, !.index = k, !.msg = w]
    BY <1>2 DEF FrameFields
  <2> QED BY <2>2, <2>3, <2>4, <2>5
<1> QED BY <1>1, <1>2, <1>3, <1>4, <1>5 DEF Ready

(* A group of items. *)
GroupStepped(in, x, f, n, d, top, h) ==
  LET r == ReadGroup(in, TypeOf(x[1], n), d, h, LENGTH_DELIMITED)
      stored == top.index + 1 .. top.index + Len(r.values)
      store(i) == IF i \in stored THEN r.values[i - top.index] ELSE top.msg[n][i]
      g == [top EXCEPT !.infos[n].dec = r.dec, !.reading = TRUE,
                       !.index = @ + Len(r.values),
                       !.msg[n] = [i \in DOMAIN @ \cup stored |-> store(i)]]
  IN  r.refused # "" \/ FrameBack(in, x, g)

ItemStepped(in, x, f, n, d, top) ==
  LET type == TypeOf(x[1], n)
      r == decoder_read_length_delimited(in, d, LENGTH_DELIMITED)
      c == [SubFrame(type, r, top.msg[n][top.index + 1]) EXCEPT !.field = n]
      g == [top EXCEPT !.infos[n].dec = r.dec, !.reading = TRUE]
      y == <<type, x[2][n][f.index + 1]>>
  IN  /\ y \in Structs /\ FrameBack(in, y, c) /\ c.field = n
      /\ FrameBack(in, x, Resume(g, n, y))

LEMMA GroupStep ==
  ASSUME NEW x \in Structs, NEW in, NEW f, FrameBack(in, x, f), ~ f.scanning, f.todo # <<>>,
         NEW n, n = f.todo[1], TypeOf(x[1], n) \in LeafTypes,
         NEW d, AtItem(in, x, f, n, d), NEW top, Ready(x, f, top, n), NEW h
  PROVE  GroupStepped(in, x, f, n, d, top, h)
<1> DEFINE r == ReadGroup(in, TypeOf(x[1], n), d, h, LENGTH_DELIMITED)
           stored == top.index + 1 .. top.index + Len(r.values)
           store(i) == IF i \in stored THEN r.values[i - top.index] ELSE top.msg[n][i]
           g == [top EXCEPT !.infos[n].dec = r.dec, !.reading = TRUE,
                            !.index = @ + Len(r.values),
                            !.msg[n] = [i \in DOMAIN @ \cup stored |-> store(i)]]
           items == Partly(x, n, f.index)
<1>1. /\ n \in FieldsOf(x[1]) /\ Repeated(x[1], n)
      /\ DOMAIN f.infos[n] = {"length", "wire_type", "dec"} /\ f.infos[n].length = Len(x[2][n])
  <2>1. FinalFacts(in, x, f, n)
    BY FinalIs
  <2> QED BY <2>1 DEF FinalFacts
<1>2. /\ DOMAIN top = FrameFields /\ n \in DOMAIN top.msg
      /\ top.msg[n] = items /\ top.index = f.index
      /\ \A e, k, v : Stored(top, n, e, k, v) = Stored(f, n, e, k, v)
  BY DEF Ready
<1>3. f.index \in Nat
  BY DEF AtItem
<1>4. r.refused # "" \/ GroupBack(in, x, f, n, r)
  BY <1>1, GroupIs
<1>5. g = Stored(f, n, r.dec, f.index + Len(r.values), StoredItems(items, f.index, r.values))
  <2> DEFINE u == r.dec  v == Len(r.values)  values == r.values
             put == top.index + 1 .. top.index + v
             at(i) == IF i \in put THEN values[i - top.index] ELSE top.msg[n][i]
             m(s) == [i \in DOMAIN s \cup put |-> at(i)]
  <2>1. m(items) = StoredItems(items, f.index, values)
    BY <1>2 DEF StoredItems
  <2>0. g = [top EXCEPT !.infos[n].dec = u, !.reading = TRUE, !.index = @ + v, !.msg[n] = m(@)]
    OBVIOUS
  <2> HIDE DEF u, v, values, put, at, m, items, g
  <2>2. [top EXCEPT !.infos[n].dec = u, !.reading = TRUE, !.index = @ + v, !.msg[n] = m(@)]
          = Stored(top, n, u, top.index + v, m(top.msg[n]))
    BY <1>2 DEF FrameFields, Stored
  <2>3. m(top.msg[n]) = m(items)
    BY <1>2
  <2> QED BY <1>2, <2>0, <2>1, <2>2, <2>3 DEF u, v, values
<1> HIDE DEF r, g
<1>6. ASSUME r.refused = "" PROVE FrameBack(in, x, g)
  <2> DEFINE info == f.infos[n]  e == r.dec  k == f.index + Len(r.values)
             kept == StoredItems(items, f.index, r.values)
  <2>1. GroupBack(in, x, f, n, r)
    BY <1>4, <1>6
  <2>2. DOMAIN info = {"length", "wire_type", "dec"} /\ info.length = Len(x[2][n])
    BY <1>1
  <2> HIDE DEF info
  <2>3. ItemsBack(in, x, n, [info EXCEPT !.dec = e], k, kept)
    BY <1>1, <1>3, <2>1, <2>2, GroupStored
  <2>4. ItemsBack(in, x, n, [f.infos[n] EXCEPT !.dec = e], k, kept)
    BY <2>3 DEF info
  <2>5. g = Stored(f, n, e, k, kept)
    BY <1>5
  <2> HIDE DEF e, k, kept
  <2>6. FrameBack(in, x, Stored(f, n, e, k, kept))
    BY <2>4, StoredBack
  <2> QED BY <2>5, <2>6
<1> QED BY <1>6 DEF r, g, GroupStepped

(* A call for the next item. *)
LEMMA ItemResumed ==
  ASSUME NEW x \in Structs, NEW f, ~ f.scanning, NEW n, NEW top, Ready(x, f, top, n), NEW u, NEW y
  PROVE  LET g == Fetched(top, n, u)
         IN  Resume(g, n, y) = Stored(f, n, decoder_seek(u, Len(Encoding[y])), f.index + 1,
                                      [Partly(x, n, f.index) EXCEPT ![f.index + 1] = Sent[y]])
<1> DEFINE g == Fetched(top, n, u)
           len == Len(Encoding[y])  sent == Sent[y]  items == Partly(x, n, f.index)
           k == f.index + 1
           infos == [top.infos EXCEPT ![n].dec = u]
<1>1. /\ DOMAIN top = FrameFields /\ n \in DOMAIN top.msg /\ n \in DOMAIN top.infos
      /\ top.msg[n] = items /\ top.index = f.index /\ top.scanning = f.scanning
      /\ DOMAIN top.infos[n] = {"length", "wire_type", "dec"}
      /\ \A e, i, v : Stored(top, n, e, i, v) = Stored(f, n, e, i, v)
  BY DEF Ready
<1>2. /\ DOMAIN g = FrameFields /\ g.msg = top.msg /\ g.index = top.index
      /\ g.scanning = top.scanning /\ g.infos = infos
  BY <1>1 DEF FrameFields, Fetched
<1>3. ~ g.scanning
  BY <1>1, <1>2, Zenon
<1>4. Resume(g, n, y) = [g EXCEPT !.infos[n].dec = decoder_seek(@, len), !.msg[n][g.index + 1] = sent,
                                  !.index = @ + 1]
  BY <1>3 DEF Resume
<1> DEFINE e == decoder_seek(u, len)
           msg == [top.msg EXCEPT ![n] = [items EXCEPT ![k] = sent]]
<1>5. [infos EXCEPT ![n].dec = decoder_seek(@, len)] = [top.infos EXCEPT ![n].dec = e]
  <2> DEFINE all == top.infos
  <2>1. n \in DOMAIN all /\ "dec" \in DOMAIN all[n]
    BY <1>1
  <2> HIDE DEF all, len
  <2>2. [[all EXCEPT ![n].dec = u] EXCEPT ![n].dec = decoder_seek(@, len)]
          = [all EXCEPT ![n].dec = decoder_seek(u, len)]
    <3> DEFINE seek(d) == decoder_seek(d, len)
    <3> HIDE DEF seek
    <3>1. [[all EXCEPT ![n].dec = u] EXCEPT ![n].dec = seek(@)] = [all EXCEPT ![n].dec = seek(u)]
      BY <2>1
    <3> QED BY <3>1 DEF seek
  <2> QED BY <2>2 DEF all
<1> HIDE DEF len, sent, items, g, e
<1>6. [g EXCEPT !.infos[n].dec = decoder_seek(@, len), !.msg[n][g.index + 1] = sent, !.index = @ + 1]
        = [g EXCEPT !.infos = [top.infos EXCEPT ![n].dec = e], !.msg = msg, !.index = k]
  <2>1. [g EXCEPT !.infos[n].dec = decoder_seek(@, len), !.msg[n][g.index + 1] = sent, !.index = @ + 1]
          = [g EXCEPT !.infos = [g.infos EXCEPT ![n].dec = decoder_seek(@, len)],
                      !.msg = [g.msg EXCEPT ![n] = [g.msg[n] EXCEPT ![g.index + 1] = sent]],
                      !.index = g.index + 1]
    <3> DEFINE seek(d) == decoder_seek(d, len)
    <3> HIDE DEF seek
    <3>1. [g EXCEPT !.infos[n].dec = seek(@), !.msg[n][g.index + 1] = sent, !.index = @ + 1]
          = [g EXCEPT !.infos = [g.infos EXCEPT ![n].dec = seek(@)],
                      !.msg = [g.msg EXCEPT ![n] = [g.msg[n] EXCEPT ![g.index + 1] = sent]],
                      !.index = g.index + 1]
      BY <1>2 DEF FrameFields
    <3> QED BY <3>1 DEF seek
  <2>2. /\ [g.infos EXCEPT ![n].dec = decoder_seek(@, len)] = [top.infos EXCEPT ![n].dec = e]
        /\ g.msg = top.msg /\ g.msg[n] = items /\ g.index + 1 = k
    BY <1>1, <1>2, <1>5
  <2> QED BY <2>1, <2>2
<1>7. [g EXCEPT !.infos = [top.infos EXCEPT ![n].dec = e], !.msg = msg, !.index = k]
        = Stored(top, n, e, k, [items EXCEPT ![k] = sent])
  <2> DEFINE v == [items EXCEPT ![k] = sent]
  <2> HIDE DEF v, k
  <2> QED BY <1>1 DEF g, Fetched, Stored, FrameFields, v
<1> QED BY <1>1, <1>4, <1>6, <1>7 DEF g, e, len, sent, items

LEMMA ItemStep ==
  ASSUME NEW x \in Structs, NEW in, NEW f, FrameBack(in, x, f), ~ f.scanning, f.todo # <<>>,
         NEW n, n = f.todo[1], TypeOf(x[1], n) \in MessageTypes,
         NEW d, AtItem(in, x, f, n, d), NEW top, Ready(x, f, top, n)
  PROVE  ItemStepped(in, x, f, n, d, top)
<1> DEFINE type == TypeOf(x[1], n)
           r == decoder_read_length_delimited(in, d, LENGTH_DELIMITED)
           c == [SubFrame(type, r, top.msg[n][top.index + 1]) EXCEPT !.field = n]
           g == [top EXCEPT !.infos[n].dec = r.dec, !.reading = TRUE]
           k == f.index + 1
           y == <<type, x[2][n][k]>>
           u == r.dec
           e == decoder_seek(u, Len(Encoding[y]))
           items == Partly(x, n, f.index)
           rest == RestOf(All(x), First(x)[n] + k)
           info == [f.infos[n] EXCEPT !.dec = e]
           stored == [items EXCEPT ![k] = Sent[y]]
<1>1. /\ n \in FieldsOf(x[1]) /\ Repeated(x[1], n) /\ Len(x[2][n]) \in Nat
      /\ DOMAIN f.infos[n] = {"length", "wire_type", "dec"} /\ f.infos[n].length = Len(x[2][n])
  <2>1. FinalFacts(in, x, f, n)
    BY FinalIs
  <2> QED BY <2>1 DEF FinalFacts
<1>2. /\ f.index \in Nat /\ k \in 1 .. Len(x[2][n])
      /\ rest \in Seq(Byte) /\ Left(in, d, Content(LENGTH_DELIMITED, Body(x, n, k)) \o rest)
  BY DEF AtItem
<1>3. y \in Structs
  <2>1. DOMAIN x[2][n] = 1 .. Len(x[2][n])
    BY <1>1, FieldIs
  <2>2. k \in DOMAIN x[2][n]
    BY <1>2, <2>1
  <2> HIDE DEF k
  <2> QED BY <1>1, <2>2, SubMessageIs
<1>4. Body(x, n, k) = Encoding[y] /\ y[1] = type
  BY DEF Body
<1>5. top.msg[n][top.index + 1] = EmptyMessage(type)
  <2>1. f.index \in 0 .. Len(x[2][n]) - 1
    <3> DEFINE len == Len(x[2][n])  i == f.index
    <3>1. i \in Nat /\ len \in Nat /\ i + 1 \in 1 .. len
      BY <1>1, <1>2
    <3> HIDE DEF len, i
    <3>2. i \in 0 .. len - 1
      BY <3>1
    <3> QED BY <3>2 DEF len, i
  <2>2. items[k] = Fresh(type)
    BY <1>1, <2>1, PartlyStep
  <2> QED BY <2>2 DEF Ready, Fresh
<1> HIDE DEF k, y, rest
<1>6. FrameBack(in, y, c) /\ c.field = n /\ Behind(in, d, e, rest)
  <2> DEFINE b == [SubFrame(y[1], r, EmptyMessage(y[1])) EXCEPT !.field = n]
  <2>1. Left(in, d, Content(LENGTH_DELIMITED, Encoding[y]) \o rest)
    BY <1>2, <1>4
  <2>2. FrameBack(in, y, b) /\ b.field = n /\ Behind(in, d, e, rest)
    <3>1. InWindow(in, y, d, rest, n)
      BY <1>2, <1>3, <2>1, WindowBack
    <3> QED BY <3>1 DEF InWindow
  <2>3. b = c
    BY <1>4, <1>5
  <2> QED BY <2>2, <2>3
<1>7. Resume(g, n, y) = Stored(f, n, e, k, stored)
  <2>1. g = Fetched(top, n, u)
    BY DEF Fetched
  <2> HIDE DEF u, g
  <2> QED BY <2>1, ItemResumed DEF k
<1>8. SentValue(type, x[2][n][k], Sent) = Sent[y]
  <2>1. type # "string"
    BY MessageAssumption DEF LeafTypes, PayloadTypes
  <2> DEFINE v == x[2][n][k]
  <2> HIDE DEF v
  <2>2. type \in MessageTypes
    OBVIOUS
  <2> HIDE DEF type
  <2>3. SentValue(type, v, Sent) = Sent[<<type, v>>]
    BY <2>1, <2>2 DEF SentValue
  <2> QED BY <2>3 DEF v, y
<1>9. ItemsBack(in, x, n, info, k, stored)
  <2>1. stored = Partly(x, n, k)
    <3>1. Sent[x][n][k] = Sent[y]
      <4>1. SentForm(x, n, x[2][n])
        BY <1>1, FieldIs
      <4> QED BY <1>2, <1>8, <4>1 DEF SentForm
    <3>2. f.index \in 0 .. Len(x[2][n]) - 1
      <4> DEFINE len == Len(x[2][n])  i == f.index
      <4>1. i \in Nat /\ len \in Nat /\ i + 1 \in 1 .. len
        BY <1>1, <1>2 DEF k
      <4> HIDE DEF len, i
      <4>2. i \in 0 .. len - 1
        BY <4>1
      <4> QED BY <4>2 DEF len, i
    <3>3. [items EXCEPT ![k] = Sent[x][n][k]] = Partly(x, n, k)
      BY <1>1, <3>2, PartlyStep DEF k
    <3> QED BY <3>1, <3>3
  <2>2. ~ Numbers(x[1], n)
    <3>1. type \notin LeafTypes
      BY MessageAssumption
    <3> QED BY <3>1 DEF Numbers, LeafTypes
  <2>3. Left(in, e, rest)
    BY <1>6 DEF Behind
  <2>4. DOMAIN info = {"length", "wire_type", "dec"} /\ info.length = Len(x[2][n]) /\ info.dec = e
    BY <1>1
  <2> HIDE DEF info, stored, e
  <2> QED BY <1>2, <2>1, <2>2, <2>3, <2>4 DEF ItemsBack, rest
<1> HIDE DEF e, stored
<1>10. FrameBack(in, x, Stored(f, n, e, k, stored))
  BY <1>9, StoredBack
<1> QED BY <1>3, <1>6, <1>7, <1>10 DEF y, k, ItemStepped
-----------------------------------------------------------------------------
(* The calls in progress: xs are the structs that they decode, and each caller
   is right once the call that it waits for is done. *)
Stacked(in, x0, fr, xs) ==
  /\ \E S : fr \in Seq(S)
  /\ xs \in Seq(Structs) /\ Len(xs) = Len(fr) /\ fr # <<>> /\ xs[1] = x0
  /\ FrameBack(in, xs[Len(fr)], fr[Len(fr)])
  /\ \A i \in 1 .. Len(fr) - 1 : FrameBack(in, xs[i], Resume(fr[i], fr[i + 1].field, xs[i + 1]))

LEMMA StackTop ==
  ASSUME NEW in, NEW x0, NEW fr, NEW xs, Stacked(in, x0, fr, xs)
  PROVE  /\ Len(fr) \in Nat \ {0} /\ xs[Len(fr)] \in Structs /\ FrameBack(in, xs[Len(fr)], fr[Len(fr)])
         /\ DOMAIN fr[Len(fr)] = FrameFields
<1>1. PICK S : fr \in Seq(S)
  BY DEF Stacked
<1>2. fr # <<>> /\ xs \in Seq(Structs) /\ Len(xs) = Len(fr) /\ FrameBack(in, xs[Len(fr)], fr[Len(fr)])
  BY DEF Stacked
<1>3. Len(fr) \in Nat \ {0}
  BY <1>1, <1>2, EmptySeq
<1>4. xs[Len(fr)] \in Structs
  BY <1>2, <1>3, ElementOfSeq
<1> QED BY <1>2, <1>3, <1>4 DEF FrameBack

LEMMA StackStep ==
  ASSUME NEW in, NEW x0, NEW fr, NEW xs, Stacked(in, x0, fr, xs), NEW g,
         FrameBack(in, xs[Len(fr)], g), g.field = fr[Len(fr)].field
  PROVE  Stacked(in, x0, Stepped(fr, g), xs) /\ Len(Stepped(fr, g)) = Len(fr)
<1> DEFINE n == Len(fr)  h == [fr EXCEPT ![n] = g]
<1>1. PICK S : fr \in Seq(S)
  BY DEF Stacked
<1>2. /\ fr # <<>> /\ xs \in Seq(Structs) /\ Len(xs) = n /\ xs[1] = x0 /\ FrameBack(in, xs[n], g)
      /\ g.field = fr[n].field
      /\ \A i \in 1 .. n - 1 : FrameBack(in, xs[i], Resume(fr[i], fr[i + 1].field, xs[i + 1]))
  BY DEF Stacked
<1>3. n \in Nat /\ n > 0 /\ DOMAIN fr = 1 .. n
  <2>1. n \in Nat /\ n # 0
    BY <1>1, <1>2, EmptySeq
  <2>2. DOMAIN fr = 1 .. n
    BY <1>1
  <2> HIDE DEF n
  <2> QED BY <2>1, <2>2
<1> HIDE DEF n
<1>4. h \in Seq(S \cup {g}) /\ Len(h) = n
  <2>1. h \in [1 .. n -> S \cup {g}]
    BY <1>1, <1>3
  <2> HIDE DEF h
  <2> QED BY <1>3, <2>1
<1>5. h[n] = g /\ \A i \in 1 .. n - 1 : h[i] = fr[i]
  BY <1>3
<1> HIDE DEF h
<1>6. ASSUME NEW i \in 1 .. n - 1
      PROVE  FrameBack(in, xs[i], Resume(h[i], h[i + 1].field, xs[i + 1]))
  <2>1. h[i] = fr[i]
    BY <1>5
  <2>2. h[i + 1].field = fr[i + 1].field
    <3>1. CASE i + 1 = n
      BY <1>2, <1>5, <3>1
    <3>2. CASE i + 1 # n
      <4>1. i + 1 \in 1 .. n - 1
        BY <1>3, <3>2
      <4> QED BY <1>5, <4>1
    <3> QED BY <3>1, <3>2
  <2> QED BY <1>2, <2>1, <2>2
<1>7. h # <<>>
  BY <1>3, <1>4, EmptySeq
<1>8. Stacked(in, x0, h, xs)
  <2>1. \E T : h \in Seq(T)
    BY <1>4
  <2> QED BY <1>2, <1>4, <1>5, <1>6, <1>7, <2>1 DEF Stacked
<1> QED BY <1>4, <1>8 DEF h, n, Stepped

LEMMA StackCall ==
  ASSUME NEW in, NEW x0, NEW fr, NEW xs, Stacked(in, x0, fr, xs), NEW g, NEW y \in Structs, NEW c,
         FrameBack(in, xs[Len(fr)], Resume(g, c.field, y)), g.field = fr[Len(fr)].field,
         FrameBack(in, y, c)
  PROVE  Stacked(in, x0, Called(fr, g, c), Append(xs, y))
<1> DEFINE n == Len(fr)  e == [fr EXCEPT ![n] = g]  h == Append(e, c)  ys == Append(xs, y)
<1>1. PICK S : fr \in Seq(S)
  BY DEF Stacked
<1>2. /\ fr # <<>> /\ xs \in Seq(Structs) /\ Len(xs) = n /\ xs[1] = x0
      /\ g.field = fr[n].field /\ FrameBack(in, xs[n], Resume(g, c.field, y))
      /\ \A i \in 1 .. n - 1 : FrameBack(in, xs[i], Resume(fr[i], fr[i + 1].field, xs[i + 1]))
  BY DEF Stacked
<1>3. n \in Nat /\ n > 0 /\ DOMAIN fr = 1 .. n
  <2>1. n \in Nat /\ n # 0
    BY <1>1, <1>2, EmptySeq
  <2>2. DOMAIN fr = 1 .. n
    BY <1>1
  <2> HIDE DEF n
  <2> QED BY <2>1, <2>2
<1> HIDE DEF n
<1> DEFINE T == S \cup {g} \cup {c}
<1>4. e \in Seq(T) /\ Len(e) = n
  <2>1. e \in [1 .. n -> T]
    BY <1>1, <1>3
  <2> HIDE DEF e, T
  <2> QED BY <1>3, <2>1
<1>5. e[n] = g /\ \A i \in 1 .. n - 1 : e[i] = fr[i]
  BY <1>3
<1>6. c \in T
  OBVIOUS
<1> HIDE DEF e, T
<1>7. h \in Seq(T) /\ Len(h) = n + 1 /\ h[n + 1] = c /\ \A i \in 1 .. n : h[i] = e[i]
  BY <1>3, <1>4, <1>6
<1>8. ys \in Seq(Structs) /\ Len(ys) = n + 1 /\ ys[n + 1] = y /\ \A i \in 1 .. n : ys[i] = xs[i]
  <2> DEFINE U == Structs
  <2>1. xs \in Seq(U) /\ y \in U
    BY <1>2
  <2> HIDE DEF U
  <2>2. ys \in Seq(U) /\ Len(ys) = n + 1 /\ ys[n + 1] = y /\ \A i \in 1 .. n : ys[i] = xs[i]
    BY <1>2, <1>3, <2>1
  <2> QED BY <2>2 DEF U
<1> HIDE DEF h, ys
<1>9. ASSUME NEW i \in 1 .. n
      PROVE  FrameBack(in, ys[i], Resume(h[i], h[i + 1].field, ys[i + 1]))
  <2>1. CASE i = n
    BY <1>2, <1>3, <1>5, <1>7, <1>8, <2>1
  <2>2. CASE i # n
    <3>1. i \in 1 .. n - 1 /\ i + 1 \in 1 .. n
      BY <1>3, <2>2
    <3>2. h[i + 1].field = fr[i + 1].field
      <4>1. h[i + 1] = e[i + 1]
        BY <1>7, <3>1
      <4>2. CASE i + 1 = n
        BY <1>2, <1>5, <4>1, <4>2
      <4>3. CASE i + 1 # n
        <5>1. i + 1 \in 1 .. n - 1
          BY <1>3, <3>1, <4>3
        <5> QED BY <1>5, <4>1, <5>1
      <4> QED BY <4>2, <4>3
    <3>3. h[i] = fr[i] /\ ys[i] = xs[i] /\ ys[i + 1] = xs[i + 1]
      BY <1>5, <1>7, <1>8, <3>1
    <3> QED BY <1>2, <3>1, <3>2, <3>3
  <2> QED BY <2>1, <2>2
<1>10. n + 1 - 1 = n /\ 1 \in 1 .. n
  BY <1>3
<1>11. h # <<>>
  <2>1. Len(h) # 0
    BY <1>3, <1>7
  <2> QED BY <1>7, <2>1, EmptySeq
<1>12. Stacked(in, x0, h, ys)
  <2>1. \E V : h \in Seq(V)
    BY <1>7
  <2>2. ys[1] = x0
    BY <1>2, <1>8, <1>10
  <2>3. FrameBack(in, ys[Len(h)], h[Len(h)])
    BY <1>7, <1>8
  <2>4. \A i \in 1 .. Len(h) - 1 : FrameBack(in, ys[i], Resume(h[i], h[i + 1].field, ys[i + 1]))
    <3>1. Len(h) - 1 = n
      BY <1>3, <1>7
    <3> QED BY <1>9, <3>1
  <2>5. Len(ys) = Len(h)
    BY <1>7, <1>8
  <2> QED BY <1>8, <1>11, <2>1, <2>2, <2>3, <2>4, <2>5 DEF Stacked
<1> QED BY <1>12 DEF h, e, ys, n, Called, Stepped

LEMMA ResumeKeeps ==
  ASSUME NEW f, NEW n, NEW y, DOMAIN Resume(f, n, y) = FrameFields
  PROVE  DOMAIN f = FrameFields /\ Resume(f, n, y).field = f.field
<1>1. CASE f.scanning
  <2> DEFINE d == decoder_seek(f.dec, Len(Encoding[y]))  m == Assign(f.type, f.msg, n, <<Sent[y]>>)
  <2>1. Resume(f, n, y) = [f EXCEPT !.dec = d, !.msg = m]
    BY <1>1 DEF Resume
  <2> HIDE DEF d, m
  <2> QED BY <2>1 DEF FrameFields
<1>2. CASE ~ f.scanning
  <2> DEFINE infos == [f.infos EXCEPT ![n].dec = decoder_seek(@, Len(Encoding[y]))]
             m == [f.msg EXCEPT ![n][f.index + 1] = Sent[y]]
             i == f.index + 1
             g == [[f EXCEPT !.infos[n].dec = decoder_seek(@, Len(Encoding[y]))]
                     EXCEPT !.msg[n][f.index + 1] = Sent[y]]
  <2>1. Resume(f, n, y) = [f EXCEPT !.infos[n].dec = decoder_seek(@, Len(Encoding[y])),
                                    !.msg[n][f.index + 1] = Sent[y], !.index = @ + 1]
    BY <1>2 DEF Resume
  <2>2. DOMAIN Resume(f, n, y) = DOMAIN f
    BY <2>1
  <2> DEFINE len == Len(Encoding[y])  sent == Sent[y]
  <2>3. Resume(f, n, y) = [f EXCEPT !.infos[n].dec = decoder_seek(@, len),
                                    !.msg[n][f.index + 1] = sent, !.index = @ + 1]
    BY <2>1
  <2> HIDE DEF len, sent
  <2> QED BY <2>2, <2>3 DEF FrameFields
<1> QED BY <1>1, <1>2

LEMMA StackReturn ==
  ASSUME NEW in, NEW x0, NEW fr, NEW xs, Stacked(in, x0, fr, xs), Len(fr) > 1, NEW g,
         g = Resume(fr[Len(fr) - 1], fr[Len(fr)].field, xs[Len(fr)])
  PROVE  Stacked(in, x0, Returned(fr, g), SubSeq(xs, 1, Len(fr) - 1))
<1> DEFINE n == Len(fr) - 1  e == SubSeq(fr, 1, n)  h == [e EXCEPT ![n] = g]  ys == SubSeq(xs, 1, n)
<1>1. PICK S : fr \in Seq(S)
  BY DEF Stacked
<1>2. n \in Nat /\ n > 0 /\ Len(fr) = n + 1
  BY <1>1
<1>3. /\ xs \in Seq(Structs) /\ Len(xs) = n + 1 /\ xs[1] = x0
      /\ \A i \in 1 .. n : FrameBack(in, xs[i], Resume(fr[i], fr[i + 1].field, xs[i + 1]))
  BY <1>2 DEF Stacked
<1>4. FrameBack(in, xs[n], g) /\ g.field = fr[n].field
  <2>1. n \in 1 .. n /\ g = Resume(fr[n], fr[n + 1].field, xs[n + 1])
    BY <1>2
  <2>2. FrameBack(in, xs[n], g)
    BY <1>3, <2>1
  <2> DEFINE f == fr[n]  k == fr[n + 1].field  y == xs[n + 1]
  <2>3. DOMAIN Resume(f, k, y) = FrameFields
    BY <2>1, <2>2 DEF FrameBack
  <2> HIDE DEF f, k, y
  <2>4. Resume(f, k, y).field = f.field
    BY <2>3, ResumeKeeps
  <2> QED BY <2>1, <2>2, <2>4 DEF f, k, y
<1>5. e \in Seq(S) /\ Len(e) = n /\ \A i \in 1 .. n : e[i] = fr[i]
  BY <1>1, <1>2
<1>6. ys \in Seq(Structs) /\ Len(ys) = n /\ \A i \in 1 .. n : ys[i] = xs[i]
  <2> DEFINE U == Structs
  <2>1. xs \in Seq(U)
    BY <1>3
  <2> HIDE DEF U, n
  <2>2. ys \in Seq(U) /\ Len(ys) = n /\ \A i \in 1 .. n : ys[i] = xs[i]
    BY <1>2, <1>3, <2>1
  <2> QED BY <2>2 DEF U
<1> HIDE DEF n, e
<1>7. h \in Seq(S \cup {g}) /\ Len(h) = n
  <2>1. h \in [1 .. n -> S \cup {g}]
    BY <1>2, <1>5
  <2> HIDE DEF h
  <2> QED BY <1>2, <2>1
<1>8. h[n] = g /\ \A i \in 1 .. n - 1 : h[i] = fr[i]
  BY <1>2, <1>5
<1> HIDE DEF h, ys
<1>9. ASSUME NEW i \in 1 .. n - 1
      PROVE  FrameBack(in, ys[i], Resume(h[i], h[i + 1].field, ys[i + 1]))
  <2>1. h[i] = fr[i] /\ i \in 1 .. n /\ i + 1 \in 1 .. n
    BY <1>2, <1>8
  <2>2. h[i + 1].field = fr[i + 1].field
    <3>1. CASE i + 1 = n
      BY <1>4, <1>8, <3>1
    <3>2. CASE i + 1 # n
      <4>1. i + 1 \in 1 .. n - 1
        BY <1>2, <3>2
      <4> QED BY <1>8, <4>1
    <3> QED BY <3>1, <3>2
  <2>3. ys[i] = xs[i] /\ ys[i + 1] = xs[i + 1]
    BY <1>6, <2>1
  <2> QED BY <1>3, <2>1, <2>2, <2>3
<1>10. h # <<>>
  <2>1. Len(h) # 0
    BY <1>2, <1>7
  <2> QED BY <1>7, <2>1, EmptySeq
<1>11. Stacked(in, x0, h, ys)
  <2>1. \E V : h \in Seq(V)
    BY <1>7
  <2>2. 1 \in 1 .. n /\ n \in 1 .. n
    BY <1>2
  <2>3. ys[1] = x0 /\ FrameBack(in, ys[n], h[n])
    BY <1>3, <1>4, <1>6, <1>8, <2>2
  <2> QED BY <1>6, <1>7, <1>9, <1>10, <2>1, <2>3 DEF Stacked
<1> QED BY <1>11 DEF h, e, ys, n, Returned
-----------------------------------------------------------------------------
(* The steps of a run in which no request was refused. *)
OnStack(x0, fr) == \E xs : Stacked(input, x0, fr, xs)

TopBack(x) == x \in Structs /\ FrameBack(input, x, Top) /\ DOMAIN Top = FrameFields /\ Top.type = x[1]

LEMMA TopOfStack ==
  ASSUME NEW x0, NEW xs, Stacked(input, x0, frames, xs)
  PROVE  TopBack(xs[Depth]) /\ ~ Idle
<1>1. /\ xs[Len(frames)] \in Structs /\ FrameBack(input, xs[Len(frames)], frames[Len(frames)])
      /\ DOMAIN frames[Len(frames)] = FrameFields
  BY StackTop
<1>2. frames # <<>>
  BY DEF Stacked
<1> QED BY <1>1, <1>2 DEF TopBack, Top, Depth, Idle, FrameBack

(* A step of the call on top. *)
LEMMA StepOn ==
  ASSUME NEW x0, NEW xs, Stacked(input, x0, frames, xs), NEW g, NEW h, NEW how, Step(g, h, how),
         refused' = {}, how = "" => FrameBack(input, xs[Depth], g) /\ g.field = Top.field
  PROVE  OnStack(x0, frames')
<1>1. frames' = Stepped(frames, g) /\ how = ""
  BY DEF Step, Stepped, Depth
<1>2. FrameBack(input, xs[Len(frames)], g) /\ g.field = frames[Len(frames)].field
  BY <1>1 DEF Depth, Top
<1>3. Stacked(input, x0, Stepped(frames, g), xs)
  BY <1>2, StackStep
<1> QED BY <1>1, <1>3 DEF OnStack

LEMMA CallOn ==
  ASSUME NEW x0, NEW xs, Stacked(input, x0, frames, xs), NEW g, NEW h, NEW n, NEW child,
         Call(g, h, n, child), g.field = Top.field, NEW y \in Structs,
         NEW c, c = [child EXCEPT !.field = n], FrameBack(input, y, c), c.field = n,
         FrameBack(input, xs[Depth], Resume(g, n, y))
  PROVE  OnStack(x0, frames')
<1>1. frames' = Called(frames, g, c)
  BY DEF Call, Called, Stepped, Depth
<1>2. FrameBack(input, xs[Len(frames)], Resume(g, c.field, y)) /\ g.field = frames[Len(frames)].field
  BY DEF Depth, Top
<1>3. Stacked(input, x0, Called(frames, g, c), Append(xs, y))
  BY <1>2, StackCall
<1> QED BY <1>1, <1>3 DEF OnStack

LEMMA DecodeLeafBack ==
  ASSUME NEW x0, NEW xs, Stacked(input, x0, frames, xs), Scanning, refused' = {},
         DecodeLeaf(pbtools_decoder_read_tag(input, Top.dec))
  PROVE  OnStack(x0, frames')
<1> DEFINE x == xs[Depth]
           tag == pbtools_decoder_read_tag(input, Top.dec)
           n == tag.field_number
           r == ReadLeaf(input, TypeOf(Top.type, n), tag.dec, heap, tag.wire_type, FALSE)
           g == [Top EXCEPT !.dec = r.dec, !.msg = Assign(Top.type, @, n, <<r.value>>)]
<1>1. Step(g, r.heap, r.refused) /\ IsLeaf(n)
  BY DEF DecodeLeaf
<1>2. TopBack(x) /\ Top.scanning /\ pbtools_decoder_available(Top.dec)
  BY TopOfStack DEF Scanning
<1> HIDE DEF x
<1>3. \E j, k, i : AtRecord(input, x, Top, j, k, i)
  BY <1>2, ScanAt DEF TopBack
<1>4. PICK j, k, i : AtRecord(input, x, Top, j, k, i)
  BY <1>3
<1>5. n = k
  BY <1>4 DEF AtRecord
<1>6. ~ Repeated(x[1], n) /\ TypeOf(x[1], n) \in LeafTypes
  BY <1>1, <1>2 DEF IsLeaf, IsRepeated, Repeated, TopBack
<1> HIDE DEF n, tag
<1> DEFINE q == ReadLeaf(input, TypeOf(x[1], n), tag.dec, heap, tag.wire_type, FALSE)
           b == Scanned(Top, q.dec, Assign(x[1], Top.msg, n, <<q.value>>), Top.infos)
<1>7. q.refused # "" \/ FrameBack(input, x, b)
  <2>1. AtRecord(input, x, Top, j, n, i)
    BY <1>4, <1>5
  <2> QED BY <1>2, <1>6, <2>1, LeafScanned DEF TopBack, tag
<1>8. q = r /\ DOMAIN Top = FrameFields
  BY <1>2 DEF TopBack
<1>9. g = b /\ g.field = Top.field
  <2> DEFINE e == q.dec  m == Assign(x[1], Top.msg, n, <<q.value>>)
  <2>1. g = [Top EXCEPT !.dec = e, !.msg = m]
    BY <1>2, <1>8 DEF TopBack, FrameFields
  <2> HIDE DEF e, m, g
  <2>2. [Top EXCEPT !.dec = e, !.msg = m] = Scanned(Top, e, m, Top.infos)
    BY <1>8, SameFrame
  <2>3. g.field = Top.field
    BY <1>8, <2>1 DEF FrameFields
  <2> QED BY <2>1, <2>2, <2>3 DEF e, m
<1> DEFINE how == r.refused  h == r.heap
<1>10. Step(g, h, how) /\ (how = "" => FrameBack(input, x, g) /\ g.field = Top.field)
  BY <1>1, <1>7, <1>8, <1>9
<1> HIDE DEF g, how, h
<1> QED BY <1>10, StepOn DEF x

LEMMA DecodeSubBack ==
  ASSUME NEW x0, NEW xs, Stacked(input, x0, frames, xs), Scanning, refused' = {},
         pbtools_decoder_sub_message_decode(pbtools_decoder_read_tag(input, Top.dec))
  PROVE  OnStack(x0, frames')
<1> DEFINE x == xs[Depth]
           tag == pbtools_decoder_read_tag(input, Top.dec)
           n == tag.field_number
           type == TypeOf(Top.type, n)
           a == heap_alloc(heap, SizeOf[type], WordAlign)
           r == decoder_read_length_delimited(input, tag.dec, tag.wire_type)
           g == [Top EXCEPT !.dec = r.dec]
           child == SubFrame(type, r, EmptyMessage(type))
           c == [child EXCEPT !.field = n]
           y == <<type, x[2][n][1]>>
<1>1. IsSubMessage(n) /\ Call(g, a.heap, n, child)
  <2>1. \A top, h : Step(top, h, "reported") => refused' # {}
    BY DEF Step
  <2> QED BY <2>1 DEF pbtools_decoder_sub_message_decode
<1>2. TopBack(x) /\ Top.scanning /\ pbtools_decoder_available(Top.dec)
  BY TopOfStack DEF Scanning
<1>3. \E j, k, i : AtRecord(input, x, Top, j, k, i)
  BY <1>2, ScanAt DEF TopBack
<1>4. PICK j, k, i : AtRecord(input, x, Top, j, k, i)
  BY <1>3
<1>5. n = k
  BY <1>4 DEF AtRecord
<1>6. ~ Repeated(x[1], n) /\ TypeOf(x[1], n) \in MessageTypes /\ type = TypeOf(x[1], n)
  BY <1>1, <1>2 DEF IsSubMessage, IsRepeated, Repeated, TopBack
<1>7. y \in Structs /\ FrameBack(input, y, c) /\ c.field = n /\ FrameBack(input, x, Resume(g, n, y))
  <2>1. AtRecord(input, x, Top, j, n, i)
    BY <1>4, <1>5
  <2> HIDE DEF n
  <2> DEFINE t == TypeOf(x[1], n)
             s == decoder_read_length_delimited(input, tag.dec, tag.wire_type)
             b == [SubFrame(t, s, EmptyMessage(t)) EXCEPT !.field = n]
             z == <<t, x[2][n][1]>>
  <2>2. z \in Structs /\ FrameBack(input, z, b) /\ b.field = n
        /\ FrameBack(input, x, Resume([Top EXCEPT !.dec = s.dec], n, z))
    BY <1>2, <1>6, <2>1, SubMessageScanned DEF TopBack
  <2>3. t = type /\ s = r
    BY <1>6
  <2> QED BY <2>2, <2>3
<1>8. g.field = Top.field
  BY <1>2 DEF TopBack, FrameFields
<1> DEFINE h == a.heap
<1>9. Call(g, h, n, child)
  BY <1>1
<1>10. c = [child EXCEPT !.field = n]
  OBVIOUS
<1> HIDE DEF g, h, n, child, y, c
<1> QED BY <1>7, <1>8, <1>9, <1>10, CallOn DEF x

LEMMA CountRepeatedBack ==
  ASSUME NEW x0, NEW xs, Stacked(input, x0, frames, xs), Scanning, refused' = {},
         repeated_info_decode(pbtools_decoder_read_tag(input, Top.dec))
  PROVE  OnStack(x0, frames')
<1> DEFINE x == xs[Depth]
           tag == pbtools_decoder_read_tag(input, Top.dec)
           n == tag.field_number
           info == repeated_info_init_decode(Top.infos[n], tag.dec, tag.wire_type)
           c == CountItems(input, TypeOf(Top.type, n), tag.dec, tag.wire_type)
           new == [info EXCEPT !.length = @ + c.count]
           g == [Top EXCEPT !.dec = c.dec, !.infos[n] = new]
<1>1. Step(g, heap, "") /\ IsRepeated(n)
  BY DEF repeated_info_decode
<1>2. TopBack(x) /\ Top.scanning /\ pbtools_decoder_available(Top.dec)
  BY TopOfStack DEF Scanning
<1> HIDE DEF x
<1>3. \E j, k, i : AtRecord(input, x, Top, j, k, i)
  BY <1>2, ScanAt DEF TopBack
<1>4. PICK j, k, i : AtRecord(input, x, Top, j, k, i)
  BY <1>3
<1>5. n = k
  BY <1>4 DEF AtRecord
<1>6. Repeated(x[1], n)
  BY <1>1, <1>2 DEF IsRepeated, Repeated, TopBack
<1> HIDE DEF n, tag
<1> DEFINE o == CountItems(input, TypeOf(x[1], n), tag.dec, tag.wire_type)
           p == [info EXCEPT !.length = @ + o.count]
           b == Scanned(Top, o.dec, Top.msg, [Top.infos EXCEPT ![n] = p])
<1>7. FrameBack(input, x, b)
  <2>1. AtRecord(input, x, Top, j, n, i)
    BY <1>4, <1>5
  <2> QED BY <1>2, <1>6, <2>1, CountScanned DEF TopBack, tag
<1>8. o = c /\ DOMAIN Top = FrameFields
  BY <1>2 DEF TopBack
<1>9. g = b /\ g.field = Top.field
  <2> DEFINE e == c.dec  f == Top
  <2>1. p = new /\ o.dec = e
    BY <1>8
  <2> HIDE DEF e, new, f, p, o
  <2>2. DOMAIN f = FrameFields
    BY <1>8 DEF f
  <2>3. [f EXCEPT !.dec = e, !.infos[n] = new] = Scanned(f, e, f.msg, [f.infos EXCEPT ![n] = new])
    BY <2>2 DEF FrameFields, Scanned
  <2>4. [f EXCEPT !.dec = e, !.infos[n] = new].field = f.field
    BY <2>2 DEF FrameFields
  <2> QED BY <2>1, <2>3, <2>4 DEF e, f
<1> DEFINE how == ""
<1>10. Step(g, heap, how) /\ FrameBack(input, x, g) /\ g.field = Top.field
  BY <1>1, <1>7, <1>9
<1> HIDE DEF g, how
<1> QED BY <1>10, StepOn DEF x

LEMMA SkipUnknownNever ==
  ASSUME NEW x0, NEW xs, Stacked(input, x0, frames, xs), Scanning,
         SkipUnknown(pbtools_decoder_read_tag(input, Top.dec))
  PROVE  FALSE
<1> DEFINE x == xs[Depth]
<1>1. TopBack(x) /\ Top.scanning /\ pbtools_decoder_available(Top.dec)
  BY TopOfStack DEF Scanning
<1>2. \E j, k, i : AtRecord(input, x, Top, j, k, i)
  BY <1>1, ScanAt DEF TopBack
<1>3. PICK j, k, i : AtRecord(input, x, Top, j, k, i)
  BY <1>2
<1>4. pbtools_decoder_read_tag(input, Top.dec).field_number \in FieldsOf(Top.type)
  BY <1>1, <1>3 DEF AtRecord, TopBack
<1> QED BY <1>4 DEF SkipUnknown

LEMMA EndScanBack ==
  ASSUME NEW x0, NEW xs, Stacked(input, x0, frames, xs), refused' = {}, EndScan
  PROVE  OnStack(x0, frames')
<1> DEFINE x == xs[Depth]
           g == [Top EXCEPT !.scanning = FALSE, !.todo = InOrder(RepeatedFields(Top.type))]
           how == ""
<1>1. Step(g, heap, how) /\ Top.scanning /\ ~ pbtools_decoder_available(Top.dec) /\ TopBack(x)
  BY TopOfStack DEF EndScan
<1>2. FrameBack(input, x, g)
  BY <1>1, ScanEnds DEF TopBack
<1>3. g.field = Top.field
  BY <1>1 DEF TopBack, FrameFields
<1> HIDE DEF g, how
<1> QED BY <1>1, <1>2, <1>3, StepOn
-----------------------------------------------------------------------------
FieldTop(x) ==
  /\ TopBack(x) /\ ~ Top.scanning /\ Top.todo # <<>> /\ Field = Top.todo[1]
  /\ ItemInfo = Top.infos[Field] /\ ItemType = TypeOf(x[1], Field)
  /\ FinalFacts(input, x, Top, Field)

LEMMA FinalTop ==
  ASSUME NEW x0, NEW xs, Stacked(input, x0, frames, xs), Finalizing
  PROVE  FieldTop(xs[Depth])
<1> DEFINE x == xs[Depth]  f == Top  n == Field
<1>1. TopBack(x) /\ ~ f.scanning /\ f.todo # <<>>
  BY TopOfStack DEF Finalizing
<1>2. Field = f.todo[1]
  <2> DEFINE todo == f.todo  S == RepeatedFields(x[1])
  <2>1. todo \in Seq(S) /\ todo # <<>>
    <3>1. FieldsLeft(x[1], todo)
      <4>1. FrameBack(input, x, f)
        BY <1>1 DEF TopBack
      <4>2. FinalBack(input, x, f)
        BY <1>1, <4>1 DEF FrameBack
      <4> QED BY <4>2 DEF FinalBack
    <3> QED BY <1>1, <3>1 DEF FieldsLeft
  <2> HIDE DEF todo, S
  <2>2. Head(todo) = todo[1]
    BY <2>1
  <2> QED BY <2>2 DEF Field, todo
<1>3. FinalFacts(input, x, f, n)
  <2> HIDE DEF f, n
  <2>1. x \in Structs /\ FrameBack(input, x, f) /\ n = f.todo[1]
    BY <1>1, <1>2 DEF TopBack, f, n
  <2> QED BY <1>1, <2>1, FinalIs
<1>4. ItemInfo = f.infos[Field] /\ ItemType = TypeOf(x[1], Field)
  BY <1>1 DEF ItemInfo, ItemType, TopBack
<1> QED BY <1>1, <1>2, <1>3, <1>4 DEF FieldTop

LEMMA DoneOn ==
  ASSUME NEW x0, NEW xs, Stacked(input, x0, frames, xs), refused' = {}, Finalizing,
         Top.msg[Field] = Sent[xs[Depth]][Field], NEW h, Step(Finished(Top), h, "")
  PROVE  OnStack(x0, frames')
<1> DEFINE x == xs[Depth]  f == Top  g == Finished(Top)  how == ""
<1>1. FieldTop(x) /\ Top.msg[Field] = Sent[x][Field]
  BY FinalTop
<1> HIDE DEF x
<1>2. x \in Structs /\ FrameBack(input, x, f) /\ ~ f.scanning /\ f.todo # <<>>
      /\ f.msg[f.todo[1]] = Sent[x][f.todo[1]] /\ DOMAIN f = FrameFields
  BY <1>1 DEF FieldTop, TopBack
<1> HIDE DEF f
<1>3. FrameBack(input, x, Done(f, f.dec, f.msg))
  BY <1>2, DoneBack
<1>4. Finished(f) = Done(f, f.dec, f.msg) /\ Finished(f).field = f.field
  BY <1>2 DEF Finished, Done, FrameFields
<1>5. Step(g, h, how) /\ FrameBack(input, x, g) /\ g.field = Top.field
  BY <1>3, <1>4 DEF f
<1> HIDE DEF g, how
<1> QED BY <1>5, StepOn DEF x

LEMMA NothingBack ==
  ASSUME NEW x0, NEW xs, Stacked(input, x0, frames, xs), refused' = {}, NothingCounted
  PROVE  OnStack(x0, frames')
<1> DEFINE x == xs[Depth]  f == Top  n == Field  info == ItemInfo  len == Len(x[2][n])
<1>1. Finalizing /\ info.length = 0 /\ Step(Finished(Top), heap, "")
  BY DEF NothingCounted
<1>2. FieldTop(x)
  BY <1>1, FinalTop
<1> HIDE DEF x
<1>3. /\ x \in Structs /\ n \in FieldsOf(x[1]) /\ info.length = len /\ info = f.infos[n]
      /\ f.reading => ItemsBack(input, x, n, info, f.index, f.msg[n])
      /\ ~ f.reading => f.msg[n] = <<>>
  BY <1>2 DEF FieldTop, TopBack, FinalFacts
<1> HIDE DEF f, n, info
<1>4. ~ f.reading
  <2>1. SUFFICES ASSUME f.reading PROVE FALSE
    OBVIOUS
  <2>2. f.index \in 1 .. len /\ len = 0
    BY <1>1, <1>3, <2>1 DEF ItemsBack
  <2> HIDE DEF len
  <2> QED BY <2>2
<1>5. Sent[x][n] = <<>>
  BY <1>1, <1>3, PartlyIs
<1>6. Top.msg[Field] = Sent[x][Field]
  BY <1>3, <1>4, <1>5 DEF f, n
<1> QED BY <1>1, <1>6, DoneOn DEF x

LEMMA EndItemsBack ==
  ASSUME NEW x0, NEW xs, Stacked(input, x0, frames, xs), refused' = {}, EndItems
  PROVE  OnStack(x0, frames')
<1> DEFINE x == xs[Depth]  f == Top  n == Field
           res == decoder_get_result(ItemInfo.dec)
<1>1. /\ Finalizing /\ f.reading /\ ~ are_more_items_to_decode(ItemInfo, f.index)
      /\ Step([Finished(f) EXCEPT !.dec = IF res < 0 THEN decoder_abort(@, -res) ELSE @], heap, "")
  BY DEF EndItems
<1>2. FieldTop(x)
  BY <1>1, FinalTop
<1> HIDE DEF x
<1>3. f.msg[n] = Sent[x][n] /\ res \in Nat
  <2>1. /\ x \in Structs /\ FrameBack(input, x, f) /\ ~ f.scanning /\ f.todo # <<>>
        /\ n = f.todo[1] /\ ItemInfo = f.infos[n]
    BY <1>2 DEF FieldTop, TopBack
  <2> HIDE DEF f, n
  <2>3. ~ are_more_items_to_decode(f.infos[n], f.index)
    BY <1>1, <2>1
  <2>2. f.msg[n] = Sent[x][n] /\ decoder_get_result(f.infos[n].dec) \in Nat
    <3>1. ItemsEnded(x, f, n)
      BY <1>1, <2>1, <2>3, ItemsEnd
    <3> QED BY <3>1 DEF ItemsEnded
  <2> QED BY <2>1, <2>2
<1>4. [Finished(f) EXCEPT !.dec = IF res < 0 THEN decoder_abort(@, -res) ELSE @] = Finished(f)
  <2>1. DOMAIN f = FrameFields
    BY <1>2 DEF FieldTop, TopBack
  <2> DEFINE b == Finished(f)  d == b.dec
  <2>2. ~ (res < 0) /\ b = [b EXCEPT !.dec = d]
    <3>1. ~ (res < 0)
      <4> HIDE DEF res
      <4> QED BY <1>3
    <3> HIDE DEF f
    <3>2. b = [b EXCEPT !.dec = d]
      BY <2>1 DEF Finished, FrameFields
    <3> QED BY <3>1, <3>2
  <2> HIDE DEF b, res
  <2>3. [b EXCEPT !.dec = IF res < 0 THEN decoder_abort(@, -res) ELSE @] = [b EXCEPT !.dec = d]
    BY <2>2 DEF d
  <2> QED BY <2>2, <2>3 DEF b
<1> QED BY <1>1, <1>3, <1>4, DoneOn DEF x

LEMMA RefusedNever ==
  ASSUME refused' = {}, ItemsRefused
  PROVE  FALSE
<1>1. \A top, h : Step(top, h, "reported") \/ Step(top, h, "silently") => refused' # {}
  BY DEF Step
<1> QED BY <1>1 DEF ItemsRefused

(* The items of a record are stored, or a call is made for one. *)
LEMMA StoreBack ==
  ASSUME NEW x0, NEW xs, Stacked(input, x0, frames, xs), refused' = {}, FieldTop(xs[Depth]),
         ItemType \in LeafTypes, NEW d, AtItem(input, xs[Depth], Top, Field, d),
         NEW top, Ready(xs[Depth], Top, top, Field), top.field = Top.field,
         NEW h, NEW wire_type, wire_type = LENGTH_DELIMITED, StoreGroup(top, d, h, wire_type)
  PROVE  OnStack(x0, frames')
<1> DEFINE x == xs[Depth]  f == Top  n == Field
           r == ReadGroup(input, ItemType, d, h, wire_type)
           stored == top.index + 1 .. top.index + Len(r.values)
           store(i) == IF i \in stored THEN r.values[i - top.index] ELSE top.msg[n][i]
           g == [top EXCEPT !.infos[n].dec = r.dec, !.reading = TRUE,
                            !.index = @ + Len(r.values),
                            !.msg[n] = [i \in DOMAIN @ \cup stored |-> store(i)]]
<1>1. Step(g, r.heap, r.refused)
  BY DEF StoreGroup
<1>2. /\ x \in Structs /\ FrameBack(input, x, f) /\ ~ f.scanning /\ f.todo # <<>>
      /\ n = f.todo[1] /\ ItemType = TypeOf(x[1], n)
  BY DEF FieldTop, TopBack
<1>3. AtItem(input, x, f, n, d) /\ Ready(x, f, top, n)
  OBVIOUS
<1> HIDE DEF x, f
<1> DEFINE q == ReadGroup(input, TypeOf(x[1], n), d, h, LENGTH_DELIMITED)
           some(i) == IF i \in top.index + 1 .. top.index + Len(q.values)
                      THEN q.values[i - top.index] ELSE top.msg[n][i]
           b == [top EXCEPT !.infos[n].dec = q.dec, !.reading = TRUE,
                            !.index = @ + Len(q.values),
                            !.msg[n] = [i \in DOMAIN @ \cup
                                        top.index + 1 .. top.index + Len(q.values) |-> some(i)]]
<1>4. q.refused # "" \/ FrameBack(input, x, b)
  <2> HIDE DEF n
  <2>1. TypeOf(x[1], n) \in LeafTypes
    BY <1>2
  <2>2. GroupStepped(input, x, f, n, d, top, h)
    BY <1>2, <1>3, <2>1, GroupStep
  <2> QED BY <2>2 DEF GroupStepped
<1>5. q = r
  BY <1>2
<1>6. g = b
  BY <1>5
<1>7. g.field = Top.field
  <2> DEFINE v == r.values  u == r.dec
  <2>1. DOMAIN top = FrameFields
    BY <1>3 DEF Ready
  <2>2. g.field = top.field
    <3> HIDE DEF store, v, u, n
    <3> QED BY <2>1 DEF FrameFields, v, u
  <2> QED BY <2>2
<1> DEFINE how == r.refused  k == r.heap
<1>8. Step(g, k, how) /\ (how = "" => FrameBack(input, x, g) /\ g.field = Top.field)
  BY <1>1, <1>4, <1>5, <1>6, <1>7
<1> HIDE DEF g, how, k
<1> QED BY <1>8, StepOn DEF x

LEMMA CallItemBack ==
  ASSUME NEW x0, NEW xs, Stacked(input, x0, frames, xs), refused' = {}, FieldTop(xs[Depth]),
         ItemType \in MessageTypes, NEW d, AtItem(input, xs[Depth], Top, Field, d),
         NEW top, Ready(xs[Depth], Top, top, Field), top.field = Top.field,
         NEW h, ReadItem(top, d, h)
  PROVE  OnStack(x0, frames')
<1> DEFINE x == xs[Depth]  f == Top  n == Field
           r == decoder_read_length_delimited(input, d, LENGTH_DELIMITED)
           child == SubFrame(ItemType, r, top.msg[n][top.index + 1])
           g == [top EXCEPT !.infos[n].dec = r.dec, !.reading = TRUE]
           c == [child EXCEPT !.field = n]
           y == <<ItemType, x[2][n][f.index + 1]>>
<1>1. Call(g, h, n, child)
  BY DEF ReadItem
<1>2. /\ x \in Structs /\ FrameBack(input, x, f) /\ ~ f.scanning /\ f.todo # <<>>
      /\ n = f.todo[1] /\ ItemType = TypeOf(x[1], n)
  BY DEF FieldTop, TopBack
<1>3. AtItem(input, x, f, n, d) /\ Ready(x, f, top, n)
  OBVIOUS
<1> HIDE DEF x, f
<1> DEFINE t == TypeOf(x[1], n)
           b == [SubFrame(t, r, top.msg[n][top.index + 1]) EXCEPT !.field = n]
           z == <<t, x[2][n][f.index + 1]>>
<1>4. z \in Structs /\ FrameBack(input, z, b) /\ b.field = n /\ FrameBack(input, x, Resume(g, n, z))
  <2> HIDE DEF n
  <2>1. TypeOf(x[1], n) \in MessageTypes
    BY <1>2
  <2>2. ItemStepped(input, x, f, n, d, top)
    BY <1>2, <1>3, <2>1, ItemStep
  <2> QED BY <2>2 DEF ItemStepped
<1>5. t = ItemType /\ z = y /\ b = c
  BY <1>2
<1>6. g.field = Top.field
  <2> DEFINE u == r.dec
  <2>1. DOMAIN top = FrameFields
    BY <1>3 DEF Ready
  <2> HIDE DEF u, n
  <2> QED BY <2>1 DEF FrameFields, u
<1>7. c = [child EXCEPT !.field = n]
  OBVIOUS
<1>8. y \in Structs /\ FrameBack(input, y, c) /\ c.field = n /\ FrameBack(input, x, Resume(g, n, y))
  BY <1>4, <1>5
<1> HIDE DEF g, n, child, y, c
<1> QED BY <1>1, <1>6, <1>7, <1>8, CallOn DEF x

LEMMA FirstItemsBack ==
  ASSUME NEW x0, NEW xs, Stacked(input, x0, frames, xs), refused' = {}, FirstItems
  PROVE  OnStack(x0, frames')
<1> DEFINE x == xs[Depth]  f == Top  n == Field  items == FreshItems  d == ItemInfo.dec
           top == [Top EXCEPT !.msg[Field] = FreshItems]
<1>1. /\ Finalizing /\ ~ f.reading /\ ItemInfo.length > 0
      /\ ItemType \in MessageTypes => ReadItem(top, d, Allocation.heap)
      /\ ItemType \notin MessageTypes => StoreGroup(top, d, Allocation.heap, ItemInfo.wire_type)
  BY DEF FirstItems, StartItems
<1>2. FieldTop(x)
  BY <1>1, FinalTop
<1>3. /\ x \in Structs /\ FrameBack(input, x, f) /\ ~ f.scanning /\ f.todo # <<>>
      /\ n = f.todo[1] /\ ItemType = TypeOf(x[1], n) /\ ItemInfo = f.infos[n]
      /\ n \in FieldsOf(x[1]) /\ DOMAIN f = FrameFields
  BY <1>2 DEF FieldTop, TopBack, FinalFacts
<1>4. ItemType \in MessageTypes \/ ItemType \in LeafTypes
  BY <1>3, FieldIs
<1>5. items = [i \in 1 .. f.infos[n].length |-> Fresh(TypeOf(x[1], n))]
  BY <1>3 DEF FreshItems, Fresh
<1>6. top = [f EXCEPT !.msg[n] = items] /\ top.field = f.field
  BY <1>3 DEF FrameFields
<1> HIDE DEF x, f, n, items, top
<1>7. Ready(x, f, top, n)
  BY <1>1, <1>3, <1>5, <1>6, ReadyFirst
<1>8. ItemInfo.wire_type = LENGTH_DELIMITED /\ AtItem(input, x, f, n, d)
  BY <1>1, <1>3, FirstAt
<1> HIDE DEF d
<1> DEFINE h == Allocation.heap  wire_type == ItemInfo.wire_type
<1>9. /\ ItemType \in MessageTypes => ReadItem(top, d, h)
      /\ ItemType \notin MessageTypes => StoreGroup(top, d, h, wire_type)
      /\ wire_type = LENGTH_DELIMITED
  BY <1>1, <1>8
<1> HIDE DEF h, wire_type
<1>10. /\ FieldTop(xs[Depth]) /\ AtItem(input, xs[Depth], Top, Field, d)
       /\ Ready(xs[Depth], Top, top, Field) /\ top.field = Top.field
  BY <1>2, <1>6, <1>7, <1>8 DEF x, f, n
<1>11. CASE ItemType \in MessageTypes
  BY <1>9, <1>10, <1>11, CallItemBack
<1>12. CASE ItemType \notin MessageTypes
  BY <1>4, <1>9, <1>10, <1>12, StoreBack
<1> QED BY <1>11, <1>12

LEMMA NextTop ==
  ASSUME NEW x0, NEW xs, Stacked(input, x0, frames, xs), MoreItems
  PROVE  LET tag == pbtools_decoder_read_tag(input, ItemInfo.dec)
         IN  /\ FieldTop(xs[Depth]) /\ tag.field_number = Field /\ tag.wire_type = LENGTH_DELIMITED
             /\ AtItem(input, xs[Depth], Top, Field, tag.dec) /\ Ready(xs[Depth], Top, Top, Field)
<1> DEFINE x == xs[Depth]  f == Top  n == Field
           tag == pbtools_decoder_read_tag(input, ItemInfo.dec)
<1>1. Finalizing /\ f.reading /\ f.index < ItemInfo.length
  BY DEF MoreItems, are_more_items_to_decode
<1>2. FieldTop(x)
  BY <1>1, FinalTop
<1>3. /\ x \in Structs /\ FrameBack(input, x, f) /\ ~ f.scanning /\ f.todo # <<>>
      /\ n = f.todo[1] /\ ItemInfo = f.infos[n]
  BY <1>2 DEF FieldTop, TopBack
<1> HIDE DEF x, f, n, tag
<1>4. f.index < f.infos[n].length /\ tag = pbtools_decoder_read_tag(input, f.infos[n].dec)
  BY <1>1, <1>3 DEF tag
<1>5. /\ tag.field_number = n /\ tag.wire_type = LENGTH_DELIMITED
      /\ AtItem(input, x, f, n, tag.dec) /\ f.msg[n] = Partly(x, n, f.index)
  BY <1>1, <1>3, <1>4, NextAt
<1>6. Ready(x, f, f, n)
  BY <1>3, <1>5, ReadyNext
<1> QED BY <1>2, <1>5, <1>6 DEF x, f, n, tag

LEMMA NextItemsBack ==
  ASSUME NEW x0, NEW xs, Stacked(input, x0, frames, xs), refused' = {}, MoreItems,
         NextItems(pbtools_decoder_read_tag(input, ItemInfo.dec))
  PROVE  OnStack(x0, frames')
<1> DEFINE tag == pbtools_decoder_read_tag(input, ItemInfo.dec)
           d == tag.dec  wire_type == tag.wire_type  x == xs[Depth]
<1>1. /\ FieldTop(x) /\ wire_type = LENGTH_DELIMITED
      /\ AtItem(input, x, Top, Field, d) /\ Ready(x, Top, Top, Field)
  BY NextTop
<1>2. /\ ItemType \in MessageTypes => ReadItem(Top, d, heap)
      /\ ItemType \notin MessageTypes => StoreGroup(Top, d, heap, wire_type)
  BY DEF NextItems
<1>3. ItemType \in MessageTypes \/ ItemType \in LeafTypes
  <2>1. x \in Structs /\ Field \in FieldsOf(x[1]) /\ ItemType = TypeOf(x[1], Field)
    BY <1>1 DEF FieldTop, TopBack, FinalFacts
  <2> HIDE DEF x
  <2> QED BY <2>1, FieldIs
<1> DEFINE top == Top
<1>4. /\ AtItem(input, x, Top, Field, d) /\ Ready(x, Top, top, Field) /\ top.field = Top.field
      /\ ItemType \in MessageTypes => ReadItem(top, d, heap)
      /\ ItemType \notin MessageTypes => StoreGroup(top, d, heap, wire_type)
  BY <1>1, <1>2
<1> HIDE DEF d, wire_type, top
<1>5. CASE ItemType \in MessageTypes
  BY <1>1, <1>4, <1>5, CallItemBack
<1>6. CASE ItemType \notin MessageTypes
  BY <1>1, <1>3, <1>4, <1>6, StoreBack
<1> QED BY <1>5, <1>6

LEMMA SkipOtherNever ==
  ASSUME NEW x0, NEW xs, Stacked(input, x0, frames, xs), MoreItems,
         SkipOther(pbtools_decoder_read_tag(input, ItemInfo.dec))
  PROVE  FALSE
BY NextTop DEF SkipOther

(* The end of a call. *)
LEMMA ReturnedBack ==
  ASSUME NEW y \in Structs, NEW in, NEW f, FrameBack(in, y, f), ~ f.scanning, f.todo = <<>>
  PROVE  f.msg = Sent[y] /\ decoder_get_result(f.dec) = Len(Encoding[y])
<1> DEFINE F == FieldsOf(y[1])
<1>1. /\ Left(in, f.dec, <<>>) /\ FinalBack(in, y, f) /\ f.dec.size = Len(Encoding[y])
      /\ f.reading \in BOOLEAN
  BY DEF FrameBack
<1>2. f.msg = [n \in F |-> f.msg[n]] /\ \A n \in F : f.msg[n] = Sent[y][n]
  <2>1. StillBack(in, y, f.todo, 1, f.msg, f.infos)
    BY <1>1 DEF FinalBack
  <2>2. \A i \in 1 .. Len(f.todo) : FALSE
    OBVIOUS
  <2> QED BY <2>1, <2>2 DEF StillBack, HasFields
<1>3. Sent[y] = [n \in F |-> Sent[y][n]]
  BY WholeIs DEF SentOf
<1>4. f.msg = Sent[y]
  BY <1>2, <1>3
<1>5. f.dec.pos = f.dec.size
  <2> DEFINE d == f.dec  s == <<>>
  <2>1. s \in Seq(Byte) /\ Len(s) = 0 /\ Left(in, d, s)
    BY <1>1
  <2> HIDE DEF d, s
  <2>2. d.size = d.pos + Len(s) /\ d.pos \in Nat
    BY <2>1, LeftIs
  <2> QED BY <2>1, <2>2 DEF d
<1> QED BY <1>1, <1>4, <1>5 DEF decoder_get_result
-----------------------------------------------------------------------------
(* The call on top is done. *)
LEMMA TopReturned ==
  ASSUME NEW x0, NEW xs, Stacked(input, x0, frames, xs), Returning
  PROVE  Top.msg = Sent[xs[Depth]] /\ decoder_get_result(Top.dec) = Len(Encoding[xs[Depth]])
<1> DEFINE y == xs[Depth]  f == Top
<1>1. y \in Structs /\ FrameBack(input, y, f) /\ ~ f.scanning /\ f.todo = <<>>
  BY TopOfStack DEF TopBack, Returning
<1> HIDE DEF y, f
<1>2. f.msg = Sent[y] /\ decoder_get_result(f.dec) = Len(Encoding[y])
  BY <1>1, ReturnedBack
<1> QED BY <1>2 DEF y, f

LEMMA ReturnOn ==
  ASSUME NEW x0, NEW xs, Stacked(input, x0, frames, xs), Depth > 1, NEW g, ReturnTo(g),
         g = Resume(Caller, Top.field, xs[Depth])
  PROVE  OnStack(x0, frames')
<1>1. g = Resume(frames[Len(frames) - 1], frames[Len(frames)].field, xs[Len(frames)])
  BY DEF Caller, Top, Depth
<1>2. Stacked(input, x0, Returned(frames, g), SubSeq(xs, 1, Len(frames) - 1))
  BY <1>1, StackReturn DEF Depth
<1>3. frames' = Returned(frames, g)
  BY DEF ReturnTo, Returned, Depth
<1> QED BY <1>2, <1>3 DEF OnStack

LEMMA ReturnSubMessageBack ==
  ASSUME NEW x0, NEW xs, Stacked(input, x0, frames, xs), ReturnSubMessage
  PROVE  OnStack(x0, frames')
<1> DEFINE y == xs[Depth]  len == decoder_get_result(Top.dec)  msg == Top.msg
           g == [Caller EXCEPT !.dec = GiveBack(@),
                               !.msg = Assign(Caller.type, @, Top.field, <<msg>>)]
           h == [Caller EXCEPT !.dec = decoder_seek(@, len),
                               !.msg = Assign(Caller.type, @, Top.field, <<msg>>)]
<1>1. Returning /\ Depth > 1 /\ Caller.scanning /\ ReturnTo(g)
  BY DEF ReturnSubMessage
<1>2. msg = Sent[y] /\ len = Len(Encoding[y])
  BY <1>1, TopReturned
<1>3. g = h
  BY DEF GiveBack
<1> HIDE DEF len, msg, g
<1>4. h = Resume(Caller, Top.field, y)
  BY <1>1, <1>2 DEF Resume
<1> HIDE DEF h
<1> QED BY <1>1, <1>3, <1>4, ReturnOn

LEMMA ReturnItemBack ==
  ASSUME NEW x0, NEW xs, Stacked(input, x0, frames, xs), ReturnItem
  PROVE  OnStack(x0, frames')
<1> DEFINE y == xs[Depth]  len == decoder_get_result(Top.dec)  msg == Top.msg
           g == [Caller EXCEPT !.infos[Top.field].dec = GiveBack(@),
                               !.msg[Top.field][Caller.index + 1] = msg,
                               !.index = @ + 1]
           h == [Caller EXCEPT !.infos[Top.field].dec = decoder_seek(@, len),
                               !.msg[Top.field][Caller.index + 1] = msg,
                               !.index = @ + 1]
<1>1. Returning /\ Depth > 1 /\ ~ Caller.scanning /\ ReturnTo(g)
  BY DEF ReturnItem
<1>2. msg = Sent[y] /\ len = Len(Encoding[y])
  BY <1>1, TopReturned
<1>3. g = h
  BY DEF GiveBack
<1> HIDE DEF len, msg, g
<1>4. h = Resume(Caller, Top.field, y)
  BY <1>1, <1>2 DEF Resume
<1> HIDE DEF h
<1> QED BY <1>1, <1>3, <1>4, ReturnOn

LEMMA ReturnResultBack ==
  ASSUME NEW x0, NEW xs, Stacked(input, x0, frames, xs), ReturnResult
  PROVE  result' = Len(Encoding[x0]) /\ message' = Sent[x0] /\ frames' = <<>>
<1>1. /\ Returning /\ Depth = 1 /\ frames' = <<>> /\ message' = Top.msg
      /\ result' = decoder_get_result(Top.dec)
  BY DEF ReturnResult
<1>2. xs[Depth] = x0
  BY <1>1 DEF Stacked
<1> QED BY <1>1, <1>2, TopReturned

(* Every step goes on so until the outermost call returns. *)
LEMMA RunBack ==
  ASSUME NEW x0, OnStack(x0, frames), refused' = {}, Run
  PROVE  \/ OnStack(x0, frames')
         \/ result' = Len(Encoding[x0]) /\ message' = Sent[x0] /\ frames' = <<>>
<1>1. PICK xs : Stacked(input, x0, frames, xs)
  BY DEF OnStack
<1>2. CASE \/ EndScan \/ NothingCounted \/ ItemsRefused \/ FirstItems \/ EndItems
           \/ ReturnSubMessage \/ ReturnItem \/ ReturnResult
  BY <1>1, <1>2, EndScanBack, NothingBack, RefusedNever, FirstItemsBack, EndItemsBack,
     ReturnSubMessageBack, ReturnItemBack, ReturnResultBack
<1>3. CASE Scanning /\ \E tag \in {pbtools_decoder_read_tag(input, Top.dec)} :
              \/ SkipUnknown(tag) \/ DecodeLeaf(tag)
              \/ pbtools_decoder_sub_message_decode(tag) \/ repeated_info_decode(tag)
  <2> DEFINE tag == pbtools_decoder_read_tag(input, Top.dec)
  <2>1. \/ SkipUnknown(tag) \/ DecodeLeaf(tag)
        \/ pbtools_decoder_sub_message_decode(tag) \/ repeated_info_decode(tag)
    BY <1>3
  <2> QED BY <1>1, <1>3, <2>1, SkipUnknownNever, DecodeLeafBack, DecodeSubBack, CountRepeatedBack
<1>4. CASE MoreItems /\ \E tag \in {pbtools_decoder_read_tag(input, ItemInfo.dec)} :
              NextItems(tag) \/ SkipOther(tag)
  <2> DEFINE tag == pbtools_decoder_read_tag(input, ItemInfo.dec)
  <2>1. NextItems(tag) \/ SkipOther(tag)
    BY <1>4
  <2> QED BY <1>1, <1>4, <2>1, NextItemsBack, SkipOtherNever
<1> QED BY <1>2, <1>3, <1>4, Zenon DEF Run

LEMMA RunBusy == Run => ~ Idle
<1>1. EndScan \/ EndItems \/ NothingCounted => ~ Idle
  BY DEF EndScan, EndItems, NothingCounted, Finalizing
<1>2. ItemsRefused \/ FirstItems => ~ Idle
  BY DEF ItemsRefused, FirstItems, StartItems, Finalizing
<1>3. Scanning \/ MoreItems => ~ Idle
  BY DEF Scanning, MoreItems, Finalizing
<1>4. ReturnSubMessage \/ ReturnItem \/ ReturnResult => ~ Idle
  BY DEF ReturnSubMessage, ReturnItem, ReturnResult, Returning
<1> QED BY <1>1, <1>2, <1>3, <1>4, Zenon DEF Run

(* The decode of what was encoded starts with the whole encoding to go. *)
LEMMA DecodeBegins ==
  ASSUME EncodedOK, encoded # Nothing, encoded.length >= 0, message = EmptyMessage(root),
         pbtools_message_decode(encoded.bytes)
  PROVE  LET x0 == <<root, source>>
         IN  /\ x0 \in Structs /\ encoded.length = Len(Encoding[x0]) /\ input' = Encoding[x0]
             /\ \E xs : Stacked(Encoding[x0], x0, frames', xs)
<1> DEFINE x0 == <<root, source>>  whole == Encoding[x0]  d == decoder_init(Len(whole))
           m == EmptyMessage(root)
           f == Frame(root, d, m)
<1>1. /\ root \in MessageTypes /\ source \in Sources[root] /\ buffer \in 0 .. IntMax
      /\ encoded = pbtools_message_encode(root, source, buffer)
  BY MessageAssumption, SourceAssumption DEF EncodedOK
<1>2. x0 \in Structs /\ whole \in Seq(Byte) /\ x0[1] = root
  <2>1. x0 \in Structs
    BY <1>1 DEF Structs
  <2> QED BY <2>1, WholeIs
<1>3. encoded = IF Len(whole) < buffer THEN [length |-> Len(whole), bytes |-> whole]
                ELSE [length |-> IF buffer = 0 /\ whole = <<>> THEN -1 ELSE -ENCODE_BUFFER_FULL,
                      bytes  |-> <<>>]
  BY <1>1, EncodeIs
<1> HIDE DEF whole
<1>4. Len(whole) \in Nat
  <2> DEFINE S == Byte
  <2> HIDE DEF S
  <2> QED BY <1>2 DEF S
<1>5. Len(whole) < buffer /\ encoded.length = Len(whole) /\ encoded.bytes = whole
  <2>1. Len(whole) < buffer
    <3>1. SUFFICES ASSUME ~ (Len(whole) < buffer) PROVE FALSE
      OBVIOUS
    <3>2. encoded.length = -1 \/ encoded.length = -ENCODE_BUFFER_FULL
      BY <1>3, <3>1
    <3> QED BY <3>2 DEF ENCODE_BUFFER_FULL
  <2> QED BY <1>3, <2>1
<1>6. Len(whole) \in 0 .. IntMax /\ int(Len(whole)) = Len(whole)
  <2>1. Len(whole) \in 0 .. IntMax
    BY <1>1, <1>4, <1>5, IntAssumption
  <2> QED BY <2>1, IntOfInt
<1>7. input' = whole /\ frames' = <<f>>
  BY <1>5 DEF pbtools_message_decode
<1>8. d = [base |-> 0, size |-> Len(whole), pos |-> 0]
  BY <1>6 DEF decoder_init
<1>9. Left(whole, d, whole) /\ d.size = Len(whole)
  <2> DEFINE len == Len(whole)
  <2>1. len \in Nat /\ len <= IntMax
    BY <1>6
  <2> HIDE DEF len
  <2>2. d = [base |-> 0, size |-> len, pos |-> 0]
    BY <1>8 DEF len
  <2> HIDE DEF d
  <2>3. d \in Decoders /\ Live(d) /\ decoder_left(d) = len
    BY <2>1, <2>2 DEF Decoders, Live, decoder_left
  <2>4. \A i \in 1 .. len : whole[d.base + d.pos + i] = whole[i]
    BY <2>1, <2>2
  <2> QED BY <2>2, <2>3, <2>4 DEF Left, len
<1> HIDE DEF d
<1>10. FrameBack(whole, x0, Started(root, d, m, 0))
  <2> HIDE DEF x0
  <2>1. Left(whole, d, Encoding[x0]) /\ d.size = Len(Encoding[x0])
    BY <1>9 DEF whole
  <2>2. FrameBack(whole, x0, Started(x0[1], d, EmptyMessage(x0[1]), 0))
    BY <1>2, <2>1, StartBack
  <2> QED BY <1>2, <2>2
<1>11. Started(root, d, m, 0) = f
  <2> DEFINE infos == [n \in RepeatedFields(root) |-> Info(d)]
             g == [type |-> root, dec |-> d, msg |-> m, field |-> 0, scanning |-> TRUE,
                   infos |-> infos, todo |-> <<>>, reading |-> FALSE, index |-> 0]
  <2>1. f = g
    BY DEF Frame
  <2>2. [g EXCEPT !.field = 0] = g
    <3>1. DOMAIN g = FrameFields /\ g.field = 0
      BY DEF FrameFields
    <3>2. g = [k \in FrameFields |-> g[k]]
      BY DEF FrameFields
    <3> HIDE DEF g
    <3> QED BY <3>1, <3>2 DEF FrameFields
  <2> QED BY <2>1, <2>2 DEF Started
<1>12. Stacked(whole, x0, <<f>>, <<x0>>)
  <2> HIDE DEF f, x0
  <2>1. <<f>> \in Seq({f}) /\ <<x0>> \in Seq(Structs)
    BY <1>2
  <2>2. Len(<<f>>) = 1 /\ Len(<<x0>>) = 1 /\ <<f>>[1] = f /\ <<x0>>[1] = x0 /\ <<f>> # <<>>
    OBVIOUS
  <2>3. FrameBack(whole, x0, f)
    BY <1>10, <1>11
  <2> DEFINE fr == <<f>>  xs == <<x0>>
  <2>4. /\ fr \in Seq({f}) /\ xs \in Seq(Structs) /\ Len(fr) = 1 /\ Len(xs) = 1 /\ fr[1] = f
        /\ xs[1] = x0 /\ fr # <<>>
    BY <2>1, <2>2
  <2> HIDE DEF fr, xs
  <2>5. Stacked(whole, x0, fr, xs)
    BY <2>3, <2>4 DEF Stacked
  <2> QED BY <2>5 DEF fr, xs
<1>13. \E xs : Stacked(whole, x0, frames', xs)
  BY <1>7, <1>12
<1> QED BY <1>2, <1>5, <1>7, <1>13 DEF whole
-----------------------------------------------------------------------------
(* Nothing was decoded yet; or the decode of the encoding is on its way, and
   all of its calls are right so far; or it has returned, right. *)
RoundOK ==
  /\ decodes \in {0, 1}
  /\ decodes = 0 => Idle /\ message = EmptyMessage(root)
  /\ decodes = 1 =>
       LET x0 == <<root, source>>
       IN  /\ encoded # Nothing /\ encoded.length = Len(Encoding[x0]) /\ input = Encoding[x0]
           /\ refused = {} /\ Idle => result = Len(Encoding[x0]) /\ message = Sent[x0]
           /\ refused = {} /\ ~ Idle => OnStack(x0, frames)

LEMMA RoundDecode ==
  ASSUME RoundOK, EncodedOK, Decode
  PROVE  RoundOK'
<1> DEFINE x0 == <<root, source>>
<1>1. /\ decodes = 0 /\ encoded # Nothing /\ encoded.length >= 0 /\ UNCHANGED cvars
      /\ pbtools_message_decode(encoded.bytes) /\ message = EmptyMessage(root)
  BY DEF Decode, RoundOK
<1>2. /\ decodes' = 1 /\ root' = root /\ source' = source /\ encoded' = encoded
      /\ frames' # <<>>
  BY <1>1 DEF pbtools_message_decode, cvars
<1>3. /\ encoded.length = Len(Encoding[x0]) /\ input' = Encoding[x0]
      /\ \E xs : Stacked(Encoding[x0], x0, frames', xs)
  BY <1>1, DecodeBegins
<1>4. OnStack(x0, frames)'
  <2>1. \E xs : Stacked(input', x0, frames', xs)
    BY <1>3
  <2>2. x0' = x0
    BY <1>2
  <2> HIDE DEF x0
  <2> QED BY <2>1, <2>2 DEF OnStack
<1> QED BY <1>1, <1>2, <1>3, <1>4 DEF RoundOK, Idle

LEMMA RoundRun ==
  ASSUME RoundOK, Run, UNCHANGED cvars
  PROVE  RoundOK'
<1> DEFINE x0 == <<root, source>>
<1>1. /\ root' = root /\ source' = source /\ encoded' = encoded /\ input' = input
      /\ decodes' = decodes /\ (refused' = {} => refused = {})
  BY RunKeeps DEF Kept, cvars
<1>2. /\ decodes = 1 /\ ~ Idle /\ encoded # Nothing
      /\ encoded.length = Len(Encoding[x0]) /\ input = Encoding[x0]
      /\ refused = {} => OnStack(x0, frames)
  BY RunBusy DEF RoundOK
<1>3. x0' = x0
  BY <1>1
<1>4. ASSUME refused' = {}
      PROVE  /\ Idle' => result' = Len(Encoding[x0]) /\ message' = Sent[x0]
             /\ ~ Idle' => OnStack(x0, frames')
  <2>1. OnStack(x0, frames)
    BY <1>1, <1>2, <1>4
  <2> HIDE DEF x0
  <2>2. \/ OnStack(x0, frames')
        \/ result' = Len(Encoding[x0]) /\ message' = Sent[x0] /\ frames' = <<>>
    BY <1>4, <2>1, RunBack
  <2>3. OnStack(x0, frames') => frames' # <<>>
    BY DEF OnStack, Stacked
  <2> QED BY <2>2, <2>3 DEF Idle
<1>5. OnStack(x0, frames)' <=> OnStack(x0, frames')
  <2> HIDE DEF x0
  <2> QED BY <1>1, <1>3 DEF OnStack
<1> QED BY <1>1, <1>2, <1>3, <1>4, <1>5 DEF RoundOK

LEMMA RoundInvariant == CSpec => []RoundOK
<1>1. CInit => RoundOK
  BY DEF CInit, Init, RoundOK, Idle
<1>2. RoundOK /\ EncodedOK /\ [CNext]_<<vars, cvars>> => RoundOK'
  <2> SUFFICES ASSUME RoundOK, EncodedOK, [CNext]_<<vars, cvars>> PROVE RoundOK'
    OBVIOUS
  <2>1. CASE Encode
    <3>1. UNCHANGED vars /\ decodes = 0
      BY <2>1 DEF Encode
    <3> QED BY <3>1 DEF RoundOK, vars, Idle
  <2>2. CASE Decode
    BY <2>2, RoundDecode
  <2>3. CASE Run /\ UNCHANGED cvars
    BY <2>3, RoundRun
  <2>4. CASE UNCHANGED <<vars, cvars>>
    BY <2>4 DEF vars, cvars, RoundOK, Idle, OnStack
  <2> QED BY <2>1, <2>2, <2>3, <2>4 DEF CNext
<1> QED BY <1>1, <1>2, EncodedInvariant, PTL DEF CSpec

(* What pbtools_message_encode wrote, pbtools_message_decode reads back: the
   length it returned and the message as it is sent, through nested calls, two
   passes over repeated fields and slices, whatever the schema, the message and
   the size of the buffer, unless the workspace refused a request. *)
THEOREM DecodeGivesBack == CSpec => []RoundTrip
<1>1. RoundOK => RoundTrip
  BY DEF RoundOK, RoundTrip
<1> QED BY <1>1, RoundInvariant, PTL
=============================================================================
