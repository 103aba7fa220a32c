--------------------------- MODULE EncoderProofs ---------------------------
(***************************************************************************)
(* The encoder for every buffer, payload, value and nesting: it writes the *)
(* encoding asked for or reports that it did not fit.                      *)
(*                                                                         *)
(* The induction relates the encoder to the bytes asked for: either the    *)
(* end of the buffer holds them, or the encoder has aborted and they do    *)
(* not fit (Good).  A group header is right because the position saved in  *)
(* the group is that of the bytes asked for when it was opened.            *)
(***************************************************************************)
EXTENDS Encoder, OperatorProofs

GroupsOK ==
  \A k \in 1 .. Len(groups) :
    /\ groups[k].asked <= Len(asked)
    /\ enc.size = buffer => groups[k].pos = buffer - 1 - groups[k].asked

IInv ==
  /\ TypeOK
  /\ Alive(enc, buffer) \/ Full(enc)
  /\ running => Good(enc, asked, buffer) /\ GroupsOK
  /\ EncodeResult

LEMMA IntOfSize == \A n \in 0 .. IntMax : int(n) = n
BY IntAssumption DEF int

LEMMA InitOK == Init => IInv
<1> SUFFICES ASSUME Init PROVE IInv
  OBVIOUS
<1>1. 0 \in 0 .. IntMax /\ int(0) = 0
  BY IntOfSize, IntAssumption
<1>2. Zeros(0) \in [0 .. -1 -> Byte] /\ 0 - 1 = -1
  BY ByteFacts DEF Zeros
<1>3. enc.size = 0 /\ enc.pos = -1 /\ enc.buf = Zeros(0)
  BY <1>1, <1>2 DEF Init, encoder_init
<1>4. enc \in EncType(0)
  BY <1>1, <1>2 DEF Init, encoder_init, EncType
<1>5. TypeOK
  <2>1. buffer = 0 /\ running = FALSE /\ groups = <<>> /\ asked = <<>> /\ result = 0
    BY DEF Init
  <2>2. enc \in EncType(buffer)
    BY <1>4, <2>1
  <2>3. groups \in Seq(GroupType) /\ asked \in Seq(Byte)
    BY <2>1
  <2>4. running \in BOOLEAN /\ buffer \in 0 .. IntMax /\ result \in Int
    <3>1. running \in BOOLEAN
      BY <2>1, Zenon
    <3>2. buffer \in 0 .. IntMax /\ result \in Int
      BY <1>1, <2>1
    <3> QED BY <3>1, <3>2
  <2> QED BY <2>2, <2>3, <2>4 DEF TypeOK, EncType
<1>6. Alive(enc, buffer)
  BY <1>3 DEF Init, Alive
<1>7. EncodeResult
  BY DEF Init, EncodeResult
<1> QED BY <1>5, <1>6, <1>7 DEF Init, IInv

LEMMA BeginOK ==
  ASSUME IInv, NEW size \in BufferSizes, pbtools_message_encode(size)
  PROVE  IInv'
<1>1. size \in 0 .. IntMax /\ int(size) = size /\ size \in Nat
  BY IntOfSize, IntAssumption, EncoderAssumption
<1>2. /\ running' = TRUE /\ buffer' = size /\ groups' = <<>> /\ asked' = <<>>
      /\ result' = result /\ enc' = encoder_init(size, Zeros(size))
  BY DEF pbtools_message_encode
<1>3. Zeros(size) \in [0 .. size - 1 -> Byte]
  BY <1>1, ByteFacts DEF Zeros
<1>4. enc'.size = size /\ enc'.pos = size - 1 /\ enc' \in EncType(size)
  BY <1>1, <1>2, <1>3 DEF encoder_init, EncType
<1>5. TypeOK'
  BY <1>1, <1>2, <1>4 DEF TypeOK, EncType, IInv
<1>6. Alive(enc', size) /\ EndHolds(enc', <<>>, size)
  BY <1>1, <1>4 DEF Alive, EndHolds
<1>7. GroupsOK'
  BY <1>2 DEF GroupsOK
<1>8. Good(enc', asked', buffer') /\ (Alive(enc, buffer) \/ Full(enc))'
  BY <1>2, <1>6 DEF Good
<1> QED BY <1>2, <1>5, <1>7, <1>8 DEF IInv, EncodeResult

(* A call that puts bytes in front of those asked for, and may close groups. *)
LEMMA Grows ==
  ASSUME IInv, running, NEW e \in EncType(buffer), NEW bytes \in Seq(Byte),
         Good(e, bytes \o asked, buffer), Full(enc) => e = enc,
         enc' = e, asked' = bytes \o asked,
         running' = running, buffer' = buffer, result' = result,
         groups' \in Seq(GroupType), Len(groups') <= Len(groups),
         \A k \in 1 .. Len(groups') : groups'[k] = groups[k]
  PROVE  IInv'
<1>1. asked \in Seq(Byte) /\ groups \in Seq(GroupType) /\ buffer \in Nat
  BY IntAssumption DEF IInv, TypeOK
<1>2. asked' \in Seq(Byte) /\ Len(asked') >= Len(asked)
  BY <1>1, ConcatBytes
<1>3. TypeOK'
  BY <1>2 DEF IInv, TypeOK, EncType
<1>4. (Alive(enc, buffer) \/ Full(enc))'
  BY DEF Good
<1>5. enc'.size = buffer => enc.size = buffer
  BY <1>1 DEF IInv, Alive
<1>6. GroupsOK'
  <2> SUFFICES ASSUME NEW k \in 1 .. Len(groups')
               PROVE  /\ groups'[k].asked <= Len(asked')
                      /\ enc'.size = buffer' => groups'[k].pos = buffer' - 1 - groups'[k].asked
    BY DEF GroupsOK
  <2>1. k \in 1 .. Len(groups) /\ groups'[k] = groups[k]
    BY <1>1
  <2>2. groups[k] \in GroupType
    BY <1>1, <2>1, ElementOfSeq
  <2>3. /\ groups[k].asked <= Len(asked)
        /\ enc.size = buffer => groups[k].pos = buffer - 1 - groups[k].asked
    BY <2>1 DEF IInv, GroupsOK
  <2>4. groups[k].asked <= Len(asked')
    <3>1. groups[k].asked \in Nat
      BY <2>2 DEF GroupType
    <3>2. Len(asked) \in Nat /\ Len(asked') \in Nat
      BY <1>1, <1>2
    <3> QED BY <1>2, <2>3, <3>1, <3>2
  <2> QED BY <1>5, <2>1, <2>3, <2>4
<1>7. Good(enc', asked', buffer')
  OBVIOUS
<1> QED BY <1>3, <1>4, <1>6, <1>7 DEF IInv, EncodeResult

LEMMA BecomesOK ==
  ASSUME IInv, running, NEW e \in EncType(buffer), NEW bytes \in Seq(Byte),
         Good(e, bytes \o asked, buffer), Full(enc) => e = enc, Becomes(e, bytes)
  PROVE  IInv'
<1>1. groups \in Seq(GroupType)
  BY DEF IInv, TypeOK
<1>2. /\ enc' = e /\ asked' = bytes \o asked /\ running' = running /\ buffer' = buffer
      /\ result' = result /\ groups' = groups
  BY DEF Becomes
<1>3. Len(groups') <= Len(groups) /\ \A k \in 1 .. Len(groups') : groups'[k] = groups[k]
  BY <1>1, <1>2
<1> QED BY <1>1, <1>2, <1>3, Grows

(* What the state gives the lemmas about the operators. *)
LEMMA State ==
  ASSUME IInv
  PROVE  /\ buffer \in Nat /\ enc \in EncType(buffer) /\ asked \in Seq(Byte)
         /\ running => Good(enc, asked, buffer)
BY IntAssumption DEF IInv, TypeOK, EncType

LEMMA WriteKeeps ==
  ASSUME IInv, NEW chunk \in Chunks, Write(chunk)
  PROVE  IInv'
<1>1. running /\ Becomes(encoder_write(enc, chunk), chunk)
  BY DEF Write, MayWrite
<1>2. chunk \in Seq(Byte) /\ Len(chunk) \in Nat
  BY EncoderAssumption
<1>3. Full(enc) => encoder_write(enc, chunk) = enc
  BY <1>2, State, FullStays
<1>4. /\ encoder_write(enc, chunk) \in EncType(buffer)
      /\ Good(encoder_write(enc, chunk), chunk \o asked, buffer)
  BY <1>1, <1>2, State, WriteOK
<1> QED BY <1>1, <1>2, <1>3, <1>4, BecomesOK

LEMMA AlwaysKeeps ==
  ASSUME IInv, running, NEW f \in Nat, NEW v \in Nat,
         Becomes(encoder_write_tagged_varint_always(enc, f, VARINT, v), Header(f, VARINT, v))
  PROVE  IInv'
<1> DEFINE w == encoder_write_tagged_varint_always(enc, f, VARINT, v)
           h == Header(f, VARINT, v)
<1>1. h \in Seq(Byte) /\ w \in EncType(buffer) /\ Good(w, h \o asked, buffer)
  BY State, HeaderOK DEF VARINT, Header
<1>2. Full(enc) => w = enc
  BY State, FullHeader
<1> QED BY <1>1, <1>2, BecomesOK

LEMMA TaggedKeeps ==
  ASSUME IInv, NEW f \in FieldNumbers, NEW v \in Values, WriteTaggedVarint(f, v)
  PROVE  IInv'
<1>1. f \in Nat /\ v \in Nat /\ running
  BY EncoderAssumption DEF WriteTaggedVarint, MayWrite
<1>2. CASE v > 0
  <2>1. Becomes(encoder_write_tagged_varint_always(enc, f, VARINT, v), Header(f, VARINT, v))
    BY <1>2 DEF WriteTaggedVarint, encoder_write_tagged_varint
  <2> QED BY <1>1, <2>1, AlwaysKeeps
<1>3. CASE ~ (v > 0)
  <2>1. Becomes(enc, <<>>)
    BY <1>3 DEF WriteTaggedVarint, encoder_write_tagged_varint
  <2>2. <<>> \in Seq(Byte) /\ <<>> \o asked = asked
    BY State
  <2>3. Good(enc, <<>> \o asked, buffer)
    BY <1>1, <2>2, State
  <2> QED BY <1>1, <2>1, <2>2, <2>3, State, BecomesOK
<1> QED BY <1>2, <1>3

LEMMA OpenKeeps == ASSUME IInv, Open PROVE IInv'
<1> DEFINE g == [pos |-> enc.pos, asked |-> Len(asked)]
<1>1. /\ running /\ groups' = Append(groups, g)
      /\ UNCHANGED <<running, buffer, enc, asked, result>>
  BY DEF Open, MayWrite
<1>2. groups \in Seq(GroupType) /\ asked \in Seq(Byte) /\ Len(asked) \in Nat /\ buffer \in Nat
  BY State DEF IInv, TypeOK
<1>3. g \in GroupType
  BY <1>2, State DEF GroupType, EncType
<1>4. g.asked <= Len(asked) /\ (enc.size = buffer => g.pos = buffer - 1 - g.asked)
  <2>1. g.asked = Len(asked) /\ g.pos = enc.pos
    OBVIOUS
  <2>2. CASE Alive(enc, buffer) /\ EndHolds(enc, asked, buffer)
    <3>1. enc.pos \in Int /\ Len(asked) = buffer - 1 - enc.pos
      BY <2>2 DEF Alive, EndHolds
    <3> QED BY <1>2, <2>1, <3>1
  <2>3. CASE Full(enc)
    <3>1. ~ (enc.size = buffer)
      BY <1>2, <2>3 DEF Full, ENCODE_BUFFER_FULL
    <3> QED BY <1>2, <2>1, <3>1
  <2> QED BY <1>1, <2>2, <2>3, State DEF Good
<1> HIDE DEF g
<1>5. /\ groups' \in Seq(GroupType) /\ Len(groups') = Len(groups) + 1
      /\ groups'[Len(groups) + 1] = g
      /\ \A k \in 1 .. Len(groups) : groups'[k] = groups[k]
  BY <1>1, <1>2, <1>3
<1>6. GroupsOK'
  <2> SUFFICES ASSUME NEW k \in 1 .. Len(groups')
               PROVE  /\ groups'[k].asked <= Len(asked)
                      /\ enc.size = buffer => groups'[k].pos = buffer - 1 - groups'[k].asked
    BY <1>1 DEF GroupsOK
  <2>1. CASE k = Len(groups) + 1
    BY <1>4, <1>5, <2>1
  <2>2. CASE k # Len(groups) + 1
    <3>1. k \in 1 .. Len(groups)
      BY <1>2, <1>5, <2>2
    <3> QED BY <1>1, <1>5, <3>1 DEF IInv, GroupsOK
  <2> QED BY <2>1, <2>2
<1>7. TypeOK'
  BY <1>1, <1>5 DEF IInv, TypeOK
<1> QED BY <1>1, <1>6, <1>7 DEF IInv, EncodeResult, Good, EndHolds, Alive, Full

(* The length a header carries is that of the bytes since Open: both moved
   together while the encoder was in use, and no header is written after. *)
LEMMA GroupMoved ==
  ASSUME IInv, running, groups # <<>>
  PROVE  /\ GroupLength \in Nat
         /\ Alive(enc, buffer) => Moved = GroupLength
<1> DEFINE g == groups[Len(groups)]
<1>1. groups \in Seq(GroupType) /\ Len(groups) \in 1 .. Len(groups) /\ buffer \in Nat
  BY State DEF IInv, TypeOK
<1>2. g \in GroupType /\ Len(asked) \in Nat
  BY <1>1, State, ElementOfSeq
<1>3. g.asked \in Nat /\ g.pos \in Int
  BY <1>2 DEF GroupType
<1>4. g.asked <= Len(asked) /\ (enc.size = buffer => g.pos = buffer - 1 - g.asked)
  BY <1>1 DEF IInv, GroupsOK
<1>5. GroupLength = Len(asked) - g.asked /\ Moved = g.pos - enc.pos
  BY DEF GroupLength, Moved, Group
<1> HIDE DEF g
<1>6. GroupLength \in Nat
  BY <1>2, <1>3, <1>4, <1>5
<1>7. ASSUME Alive(enc, buffer) PROVE Moved = GroupLength
  <2>1. enc.size = buffer /\ enc.pos \in Int
    BY <1>7 DEF Alive
  <2>2. ~ Full(enc)
    BY <1>1, <2>1 DEF Full, ENCODE_BUFFER_FULL
  <2>3. Len(asked) = buffer - 1 - enc.pos
    BY <2>2, State DEF Good, EndHolds
  <2> QED BY <1>1, <1>2, <1>3, <1>4, <1>5, <2>1, <2>3
<1> QED BY <1>6, <1>7

LEMMA CloseWithOK ==
  ASSUME IInv, running, groups # <<>>, NEW e \in EncType(buffer), NEW bytes \in Seq(Byte),
         Good(e, bytes \o asked, buffer), Full(enc) => e = enc, CloseWith(e, bytes)
  PROVE  IInv'
<1>1. groups \in Seq(GroupType) /\ Len(groups) >= 1 /\ Len(groups) \in Nat
  BY DEF IInv, TypeOK
<1>2. /\ enc' = e /\ asked' = bytes \o asked /\ running' = running /\ buffer' = buffer
      /\ result' = result /\ groups' = SubSeq(groups, 1, Len(groups) - 1)
  BY DEF CloseWith
<1>3. /\ groups' \in Seq(GroupType) /\ Len(groups') = Len(groups) - 1
      /\ \A k \in 1 .. Len(groups) - 1 : groups'[k] = groups[k]
  <2> DEFINE n == Len(groups) - 1
  <2>1. n \in Nat /\ 1 \in 1 .. Len(groups) + 1 /\ n \in 0 .. Len(groups)
    BY <1>1
  <2>2. /\ SubSeq(groups, 1, n) \in Seq(GroupType)
        /\ Len(SubSeq(groups, 1, n)) = n
        /\ \A k \in 1 .. n : SubSeq(groups, 1, n)[k] = groups[k]
    <3> HIDE DEF n
    <3> QED BY <1>1, <2>1
  <2> QED BY <1>2, <2>2
<1>4. Len(groups') <= Len(groups) /\ \A k \in 1 .. Len(groups') : groups'[k] = groups[k]
  BY <1>1, <1>3
<1> QED BY <1>2, <1>3, <1>4, Grows

(* The header of a group that is not empty. *)
LEMMA GroupHeader ==
  ASSUME IInv, running, groups # <<>>, NEW f \in Nat
  PROVE  LET w == encoder_write_tagged_varint_always(enc, f, LENGTH_DELIMITED, Moved)
             h == Header(f, LENGTH_DELIMITED, GroupLength)
         IN  /\ h \in Seq(Byte) /\ w \in EncType(buffer) /\ Good(w, h \o asked, buffer)
             /\ Full(enc) => w = enc
<1> DEFINE w == encoder_write_tagged_varint_always(enc, f, LENGTH_DELIMITED, Moved)
           h == Header(f, LENGTH_DELIMITED, GroupLength)
           always == encoder_write_tagged_varint_always(enc, f, LENGTH_DELIMITED, GroupLength)
<1>1. LENGTH_DELIMITED \in Nat
  BY DEF LENGTH_DELIMITED
<1>2. h \in Seq(Byte) /\ always \in EncType(buffer) /\ Good(always, h \o asked, buffer)
  BY <1>1, State, GroupMoved, HeaderOK DEF Header
<1>3. Full(enc) => w = enc /\ always = enc
  BY State, FullHeader
<1>4. Alive(enc, buffer) => w = always
  BY GroupMoved
<1>5. w = always
  BY <1>3, <1>4 DEF IInv
<1> HIDE DEF w, h, always
<1>6. h \in Seq(Byte) /\ w \in EncType(buffer) /\ Good(w, h \o asked, buffer) /\ (Full(enc) => w = enc)
  BY <1>2, <1>3, <1>5
<1> QED BY <1>6 DEF w, h

LEMMA CloseMessageKeeps ==
  ASSUME IInv, NEW f \in FieldNumbers, CloseMessage(f)
  PROVE  IInv'
<1> DEFINE w == encoder_write_tagged_varint_always(enc, f, LENGTH_DELIMITED, Moved)
           h == Header(f, LENGTH_DELIMITED, GroupLength)
<1>1. f \in Nat /\ running /\ groups # <<>>
  BY EncoderAssumption DEF CloseMessage
<1>2. CloseWith(w, h)
  BY DEF CloseMessage, encoder_write_length_delimited
<1>3. h \in Seq(Byte) /\ w \in EncType(buffer) /\ Good(w, h \o asked, buffer) /\ (Full(enc) => w = enc)
  BY <1>1, GroupHeader
<1> HIDE DEF w, h
<1> QED BY <1>1, <1>2, <1>3, CloseWithOK

LEMMA CloseRepeatedKeeps ==
  ASSUME IInv, NEW f \in FieldNumbers, CloseRepeated(f)
  PROVE  IInv'
<1> DEFINE w == encoder_write_tagged_varint_always(enc, f, LENGTH_DELIMITED, Moved)
           h == Header(f, LENGTH_DELIMITED, GroupLength)
           e == encoder_write_tagged_varint(enc, f, LENGTH_DELIMITED, Moved)
           bytes == IF GroupLength > 0 THEN h ELSE <<>>
<1>1. f \in Nat /\ running /\ groups # <<>>
  BY EncoderAssumption DEF CloseRepeated
<1>2. CloseWith(e, bytes)
  BY DEF CloseRepeated
<1>3. h \in Seq(Byte) /\ w \in EncType(buffer) /\ Good(w, h \o asked, buffer) /\ (Full(enc) => w = enc)
  BY <1>1, GroupHeader
<1>4. (Moved > 0 => e = w) /\ (~ (Moved > 0) => e = enc)
  BY DEF encoder_write_tagged_varint
<1>5. <<>> \in Seq(Byte) /\ <<>> \o asked = asked /\ enc \in EncType(buffer)
  BY State
<1>6. (GroupLength > 0 => bytes = h) /\ (~ (GroupLength > 0) => bytes = <<>>)
  OBVIOUS
<1>7. bytes \in Seq(Byte)
  BY <1>3, <1>5
<1> HIDE DEF w, h, e, bytes
<1>8. CASE Alive(enc, buffer)
  <2>1. Moved = GroupLength /\ GroupLength \in Nat
    BY <1>1, <1>8, GroupMoved
  <2>2. ~ Full(enc)
    BY <1>8, State DEF Alive, Full, ENCODE_BUFFER_FULL
  <2>3. CASE Moved > 0
    <3>1. e = w /\ bytes = h
      BY <1>4, <1>6, <2>1, <2>3
    <3> QED BY <1>1, <1>2, <1>3, <3>1, CloseWithOK
  <2>4. CASE ~ (Moved > 0)
    <3>1. e = enc /\ bytes = <<>>
      BY <1>4, <1>6, <2>1, <2>4
    <3>2. Good(e, bytes \o asked, buffer)
      BY <1>1, <1>5, <3>1, State
    <3> QED BY <1>1, <1>2, <1>5, <3>1, <3>2, CloseWithOK
  <2> QED BY <2>3, <2>4
<1>9. CASE Full(enc)
  <2>1. e = enc
    BY <1>3, <1>4, <1>9
  <2>2. Good(e, bytes \o asked, buffer)
    <3>1. Len(bytes \o asked) = Len(bytes) + Len(asked) /\ Len(bytes) \in Nat /\ Len(asked) \in Nat
      BY <1>7, State, ConcatBytes
    <3>2. Len(asked) + 1 > buffer /\ buffer \in Nat
      BY <1>1, <1>9, State DEF Good, Alive, Full, ENCODE_BUFFER_FULL
    <3>3. Len(bytes \o asked) + 1 > buffer
      BY <3>1, <3>2
    <3> QED BY <1>9, <2>1, <3>3 DEF Good
  <2> QED BY <1>1, <1>2, <1>5, <1>7, <2>1, <2>2, CloseWithOK
<1> QED BY <1>8, <1>9 DEF IInv

(* The result, and the move of the bytes to the front of the buffer. *)
LEMMA ReturnKeeps == ASSUME IInv, Return PROVE IInv'
<1> DEFINE r == encoder_get_result(enc)
           p == enc.pos
           n == enc.size - p - 1
           f == [i \in 0 .. buffer - 1 |-> IF i < n THEN enc.buf[p + 1 + i] ELSE enc.buf[i]]
<1>1. /\ running /\ running' = FALSE /\ result' = r.length /\ enc' = [enc EXCEPT !.buf = r.buf]
      /\ buffer' = buffer /\ groups' = groups /\ asked' = asked
  BY DEF Return
<1>2. /\ buffer \in Nat /\ asked \in Seq(Byte) /\ Len(asked) \in Nat
      /\ enc.buf \in [0 .. buffer - 1 -> Byte] /\ DOMAIN enc.buf = 0 .. buffer - 1
      /\ enc \in [size : Int, pos : Int, buf : [0 .. buffer - 1 -> Byte]]
  BY State DEF EncType
<1>3. Good(enc, asked, buffer)
  BY <1>1, State
<1>4. ASSUME NEW buf \in [0 .. buffer - 1 -> Byte], r.buf = buf, r.length \in Int,
             IF r.length >= 0
             THEN r.length = Len(asked) /\ \A i \in 1 .. r.length : buf[i - 1] = asked[i]
             ELSE Len(asked) + 1 > buffer
      PROVE  IInv'
  <2>1. enc' \in EncType(buffer) /\ enc'.size = enc.size /\ enc'.pos = p /\ enc'.buf = buf
    <3> DEFINE B == [0 .. buffer - 1 -> Byte]
    <3>1. enc \in [size : Int, pos : Int, buf : B] /\ buf \in B /\ enc' = [enc EXCEPT !.buf = buf]
      BY <1>1, <1>2, <1>4
    <3> HIDE DEF B
    <3>2. /\ enc' \in [size : Int, pos : Int, buf : B]
          /\ enc'.size = enc.size /\ enc'.pos = enc.pos /\ enc'.buf = buf
      BY <3>1
    <3> QED BY <3>2 DEF B, EncType
  <2>2. (Alive(enc, buffer) \/ Full(enc))'
    BY <1>1, <1>3, <2>1 DEF Good, Alive, Full
  <2> HIDE DEF r
  <2>3. TypeOK'
    <3>1. running' \in BOOLEAN
      BY <1>1
    <3> QED BY <1>1, <1>4, <2>1, <3>1 DEF IInv, TypeOK, EncType
  <2>4. EncodeResult'
    BY <1>1, <1>4, <2>1 DEF EncodeResult
  <2> QED BY <1>1, <2>2, <2>3, <2>4 DEF IInv
<1>5. CASE p >= 0
  <2>1. /\ enc.size = buffer /\ p \in 0 .. buffer - 1 /\ Len(asked) = buffer - 1 - p
        /\ \A i \in 1 .. Len(asked) : enc.buf[p + i] = asked[i]
    BY <1>3, <1>5 DEF Good, Alive, Full, EndHolds, ENCODE_BUFFER_FULL
  <2>2. r.length = n /\ r.buf = f
    BY <1>2, <1>5 DEF encoder_get_result
  <2>3. n = Len(asked) /\ n \in 0 .. buffer - 1 - p
    BY <1>2, <2>1
  <2> HIDE DEF r
  <2>4. f \in [0 .. buffer - 1 -> Byte]
    <3>1. \A i \in 0 .. buffer - 1 : i < n => p + 1 + i \in 0 .. buffer - 1
      BY <1>2, <2>1, <2>3
    <3> HIDE DEF p, n
    <3> QED BY <1>2, <3>1
  <2>5. ASSUME NEW i \in 1 .. n PROVE f[i - 1] = asked[i]
    <3>1. PICK j \in 0 .. buffer - 1 : j = i - 1 /\ j < n /\ p + 1 + j = p + i
      BY <1>2, <2>1, <2>3
    <3> HIDE DEF p, n
    <3>2. f[j] = enc.buf[p + 1 + j]
      BY <3>1
    <3>3. enc.buf[p + i] = asked[i]
      BY <2>1, <2>3
    <3> HIDE DEF f
    <3> QED BY <3>1, <3>2, <3>3
  <2> HIDE DEF f, n
  <2>6. r.length \in Int /\ r.length >= 0 /\ r.length = Len(asked)
    BY <1>2, <2>2, <2>3
  <2>7. \A i \in 1 .. r.length : f[i - 1] = asked[i]
    BY <2>2, <2>5
  <2> QED BY <1>4, <2>2, <2>4, <2>6, <2>7
<1>6. CASE ~ (p >= 0)
  <2>1. r.length = p /\ r.buf = enc.buf
    BY <1>6 DEF encoder_get_result
  <2>2. p \in Int
    BY <1>2
  <2>3. Len(asked) + 1 > buffer
    <3>1. CASE Full(enc)
      BY <1>2, <1>3, <3>1 DEF Good, Alive, EndHolds, Full, ENCODE_BUFFER_FULL
    <3>2. CASE Alive(enc, buffer) /\ EndHolds(enc, asked, buffer)
      BY <1>2, <1>6, <3>2 DEF Alive, EndHolds
    <3> QED BY <1>3, <3>1, <3>2 DEF Good
  <2> HIDE DEF r, p
  <2> QED BY <1>2, <1>4, <1>6, <2>1, <2>2, <2>3
<1> QED BY <1>5, <1>6, <1>2

LEMMA NextOK == IInv /\ [Next]_vars => IInv'
<1> SUFFICES ASSUME IInv, [Next]_vars PROVE IInv'
  OBVIOUS
<1>1. CASE \E size \in BufferSizes : pbtools_message_encode(size)
  BY <1>1, BeginOK
<1>2. CASE \E chunk \in Chunks : Write(chunk)
  BY <1>2, WriteKeeps
<1>3. CASE \E f \in FieldNumbers, v \in Values : WriteTaggedVarint(f, v)
  BY <1>3, TaggedKeeps
<1>4. ASSUME NEW f \in FieldNumbers, NEW v \in Values, WriteTaggedVarintAlways(f, v)
      PROVE  IInv'
  <2>1. f \in Nat /\ v \in Nat
    BY EncoderAssumption
  <2> QED BY <1>4, <2>1, AlwaysKeeps DEF WriteTaggedVarintAlways, MayWrite
<1>5. CASE Open
  BY <1>5, OpenKeeps
<1>6. CASE \E f \in FieldNumbers : CloseMessage(f)
  BY <1>6, CloseMessageKeeps
<1>7. CASE \E f \in FieldNumbers : CloseRepeated(f)
  BY <1>7, CloseRepeatedKeeps
<1>8. CASE Return
  BY <1>8, ReturnKeeps
<1>9. CASE UNCHANGED vars
  <2>1. /\ running' = running /\ buffer' = buffer /\ enc' = enc /\ groups' = groups
        /\ asked' = asked /\ result' = result
    BY <1>9 DEF vars
  <2>2. TypeOK'
    BY <2>1 DEF IInv, TypeOK
  <2>3. (Alive(enc, buffer) \/ Full(enc))'
    BY <2>1 DEF IInv
  <2>4. running' => (Good(enc, asked, buffer) /\ GroupsOK)'
    BY <2>1 DEF IInv, GroupsOK
  <2>5. EncodeResult'
    BY <2>1 DEF IInv, EncodeResult
  <2> QED BY <2>2, <2>3, <2>4, <2>5 DEF IInv
<1> QED BY <1>1, <1>2, <1>3, <1>4, <1>5, <1>6, <1>7, <1>8, <1>9 DEF Next

LEMMA EncoderInvariant == Spec => []IInv
<1> QED BY InitOK, NextOK, PTL DEF Spec

(* Every step keeps every variable in its type; in particular what is copied
   into the buffer stays inside it. *)
THEOREM EncoderTypeOK == Spec => []TypeOK
<1>1. IInv => TypeOK
  BY DEF IInv
<1> QED BY <1>1, EncoderInvariant, PTL

(* An encoder is aborted with the code of a full buffer, or has a position in
   the whole buffer it was given. *)
THEOREM EncoderPositionOK == Spec => []PositionOK
<1>1. IInv => PositionOK
  BY State DEF IInv, Alive, Full, PositionOK, Aborted, ENCODE_BUFFER_FULL
<1> QED BY <1>1, EncoderInvariant, PTL

(* Until it aborts, the end of the buffer holds the encoding asked for, every
   header with the length of its content, whatever the nesting. *)
THEOREM EncoderOutputIsAsked == Spec => []OutputIsAsked
<1>1. IInv => OutputIsAsked
  BY State DEF IInv, Good, Alive, Full, EndHolds, OutputIsAsked, Aborted, ENCODE_BUFFER_FULL
<1> QED BY <1>1, EncoderInvariant, PTL

(* The caller gets the whole encoding and its length, or an error when it did
   not fit: never a truncated success. *)
THEOREM EncoderEncodeResult == Spec => []EncodeResult
<1>1. IInv => EncodeResult
  BY DEF IInv
<1> QED BY <1>1, EncoderInvariant, PTL
=============================================================================
