--------------------------- MODULE MessageProofs ---------------------------
(***************************************************************************)
(* The decoding of messages of any schema, from inputs of any bytes and    *)
(* any length, proved.  First what the readers of fields do to a decoder:  *)
(* they keep it within the input, and where one ends without an error, it  *)
(* ends where the field is skipped to.                                     *)
(***************************************************************************)
EXTENDS MessageDecode, OperatorProofs, FiniteSetTheorems

NumberTypes == VarintTypes \cup FixedTypes

LEMMA WidthIs == \A type : Width(type) \in Nat \ {0}
BY WireAssumption DEF Width

(* decoder_read, and the numbers of a fixed width that it reads. *)
LEMMA ReadReads ==
  ASSUME NEW total, NEW d \in Windows(total), NEW size \in Nat
  PROVE  Reads(d, decoder_read(d, size), total)
<1> DEFINE e == decoder_read(d, size)
<1>1. /\ Runs(d, e, total)
      /\ Live(e) => e = decoder_seek(d, size)
      /\ Live(d) /\ size > decoder_left(d) => e.pos = -OUT_OF_DATA
  BY ReadRuns
<1>2. CASE Dead(d)
  BY <1>1, <1>2 DEF Reads, Runs
<1>3. CASE Live(d) /\ size > decoder_left(d)
  BY <1>1, <1>3 DEF Reads, OUT_OF_DATA, OUT_OF_MEMORY
<1>4. CASE Live(d) /\ ~ (size > decoder_left(d))
  <2>1. e = [d EXCEPT !.pos = @ + size] /\ size <= decoder_left(d)
    BY <1>4, LiveOrDead DEF decoder_read
  <2> QED
    BY <1>4, <2>1, MovedRuns, MovedReads
<1> QED
  BY <1>2, <1>3, <1>4, LiveOrDead

LEMMA FixedReads ==
  ASSUME NEW in \in Seq(Byte), NEW d \in Windows(Len(in)), NEW w \in Nat \ {0}
  PROVE  LET e == decoder_read_fixed(in, d, w).dec
         IN  /\ e = decoder_read(d, w)
             /\ Reads(d, e, Len(in))
             /\ Live(e) => e = decoder_seek(d, w) /\ d.pos < e.pos
<1> DEFINE e == decoder_read(d, w)
<1>1. decoder_read_fixed(in, d, w).dec = e
  BY DEF decoder_read_fixed
<1>2. Reads(d, e, Len(in)) /\ (Live(e) => e = decoder_seek(d, w))
  BY ReadReads, ReadRuns
<1>3. Live(e) => d.pos < e.pos
  <2> SUFFICES ASSUME Live(e) PROVE d.pos < e.pos
    OBVIOUS
  <2>1. w \in Int /\ w >= 0 /\ w > 0
    OBVIOUS
  <2>2. Live(decoder_seek(d, w))
    BY <1>2
  <2>3. Live(d) /\ w <= decoder_left(d)
    BY <2>1, <2>2, SeekRuns
  <2>4. e = Advanced(d, w)
    BY <1>2, <2>1, <2>3, SeekRuns
  <2> QED
    BY <2>1, <2>4, LiveOrDead DEF Advanced
<1> QED
  BY <1>1, <1>2, <1>3

(* The items of a packed payload, to the end of its slice. *)
LEMMA AllReads ==
  ASSUME NEW in \in Seq(Byte), NEW d \in Windows(Len(in)), NEW type
  PROVE  LET p == ReadAll(in, type, d)
             n == Len(p.values)
             k == decoder_left(d) \div Width(type)
         IN  /\ Reads(d, p.dec, Len(in)) /\ ~ pbtools_decoder_available(p.dec)
             /\ n \in Nat /\ DOMAIN p.values = 1 .. n
             /\ ~ pbtools_decoder_available(d) => n = 0 /\ p.dec = d
             /\ type \in FixedTypes =>
                  /\ Live(d) => k <= n
                  /\ n <= k \/ (n = k + 1 /\ p.dec.pos = -OUT_OF_DATA)
<1> DEFINE total == Len(in)
           read == [e \in Decoders |-> IF type \in VarintTypes THEN decoder_read_varint(in, e)
                                       ELSE decoder_read_fixed(in, e, Width(type))]
           after == CHOOSE a : Loop(a, d, read)
           p == ReadAll(in, type, d)
<1>1. \A e \in Windows(total) :
        read[e] = IF type \in VarintTypes THEN decoder_read_varint(in, e)
                  ELSE decoder_read_fixed(in, e, Width(type))
  BY DEF Windows
<1>2. Turning(read, total)
  BY <1>1, VarintReads, FixedReads, WidthIs DEF Turning
<1>3. type \in FixedTypes => \A e \in Windows(total) : read[e].dec = decoder_read(e, Width(type))
  <2>1. type \in FixedTypes => type \notin VarintTypes
    BY DEF FixedTypes, Fixed32Types, VarintTypes, Varint32Types
  <2> QED
    BY <1>1, <2>1, FixedReads, WidthIs
<1>4. p = [dec |-> after[Turns(after)],
           values |-> [i \in 1 .. Turns(after) |-> Value(type, read[after[i - 1]].value, TRUE)]]
  BY DEF ReadAll, Loop, Turns
<1> HIDE DEF read
<1>5. Loop(after, d, read)
  BY <1>2, LoopExists
<1> HIDE DEF after, p
<1> DEFINE t == Turns(after)
<1>6. t \in 0 .. decoder_left(d) /\ Reads(d, after[t], total)
      /\ ~ pbtools_decoder_available(after[t])
  BY <1>2, <1>5, LoopReads
<1>7. t \in Nat /\ (~ pbtools_decoder_available(d) => t = 0 /\ after[t] = d)
  <2>1. decoder_left(d) \in Nat /\ (~ pbtools_decoder_available(d) => decoder_left(d) = 0)
    BY LiveOrDead
  <2>2. after[0] = d
    BY <1>5, <2>1 DEF Loop
  <2> QED
    BY <1>6, <2>1, <2>2
<1>8. type \in FixedTypes =>
        /\ Live(d) => decoder_left(d) \div Width(type) <= t
        /\ \/ t <= decoder_left(d) \div Width(type)
           \/ t = (decoder_left(d) \div Width(type)) + 1 /\ after[t].pos = -OUT_OF_DATA
  BY <1>2, <1>3, <1>5, FixedLoop, WidthIs
<1> HIDE DEF t
<1>9. p.dec = after[t]
  BY <1>4 DEF t
<1>10. Len(p.values) = t /\ DOMAIN p.values = 1 .. t
  <2>1. p.values = [i \in 1 .. t |-> Value(type, read[after[i - 1]].value, TRUE)]
    BY <1>4 DEF t
  <2> QED
    BY <1>7, <2>1
<1> QED
  BY <1>6, <1>7, <1>8, <1>9, <1>10 DEF p

(* A packed field: it ends where it is skipped to, and a fixed width divides its
   length into the items, unless the last is cut off. *)
LEMMA PackedReads ==
  ASSUME NEW in \in Seq(Byte), NEW d \in Windows(Len(in)), NEW type
  PROVE  LET g == ReadPacked(in, type, d)
             n == Len(g.values)
             k == decoder_read_length_delimited(in, d, LENGTH_DELIMITED).value \div Width(type)
         IN  /\ Reads(d, g.dec, Len(in))
             /\ Live(g.dec) => g.dec = pbtools_decoder_skip_field(in, d, LENGTH_DELIMITED)
             /\ n \in Nat /\ DOMAIN g.values = 1 .. n
             /\ type \in FixedTypes => /\ n <= k \/ (n = k + 1 /\ g.dec.pos = -OUT_OF_DATA)
                                       /\ Live(g.dec) => n = k
<1> DEFINE r == decoder_read_length_delimited(in, d, LENGTH_DELIMITED)
           s == decoder_init_slice(r.dec, r.value)
           p == ReadAll(in, type, s)
           g == ReadPacked(in, type, d)
           n == Len(p.values)
           k == r.value \div Width(type)
<1>1. /\ r.value \in 0 .. IntMax - 1 /\ int(r.value) = r.value
      /\ Reads(d, r.dec, Len(in)) /\ r.dec \in Windows(Len(in))
  BY LengthReads DEF Reads, Runs
<1>2. r.value \in Nat /\ r.value \in Int /\ r.value >= 0 /\ r.value \in 0 .. IntMax
  BY <1>1, IntAssumption
<1>3. pbtools_decoder_skip_field(in, d, LENGTH_DELIMITED) = decoder_seek(r.dec, r.value)
  BY DEF pbtools_decoder_skip_field, SkipPayload, VARINT, WIRE_64_BIT, WIRE_32_BIT, LENGTH_DELIMITED
<1> HIDE DEF r
<1>4. /\ s \in Windows(Len(in))
      /\ Live(s) <=> r.value <= decoder_left(r.dec)
      /\ Live(s) => s = [base |-> r.dec.base + r.dec.pos, size |-> r.value, pos |-> 0]
  BY <1>1, <1>2, SliceRuns
<1>5. s.pos = 0 \/ s.pos = -OUT_OF_DATA
  BY DEF decoder_init_slice, Slice
<1>6. g = [dec |-> decoder_seek(r.dec, p.dec.pos), values |-> p.values]
  <2>1. s \in Decoders
    BY <1>4, LiveOrDead
  <2> QED
    BY <1>1, <2>1 DEF ReadPacked, decoder_get_result, r
<1> HIDE DEF s
<1>7. /\ Reads(s, p.dec, Len(in)) /\ ~ pbtools_decoder_available(p.dec)
      /\ n \in Nat /\ DOMAIN p.values = 1 .. n
      /\ ~ pbtools_decoder_available(s) => n = 0
      /\ type \in FixedTypes =>
           /\ Live(s) => decoder_left(s) \div Width(type) <= n
           /\ \/ n <= decoder_left(s) \div Width(type)
              \/ n = (decoder_left(s) \div Width(type)) + 1 /\ p.dec.pos = -OUT_OF_DATA
  BY <1>4, AllReads
<1> HIDE DEF p
<1>8. /\ p.dec \in Windows(Len(in)) /\ p.dec.pos # -OUT_OF_MEMORY
      /\ p.dec.pos \in Int
      /\ p.dec.pos >= 0 \/ -p.dec.pos \in Errors
  <2>1. p.dec \in Windows(Len(in)) /\ p.dec.pos # -OUT_OF_MEMORY
    BY <1>5, <1>7 DEF Reads, Runs, OUT_OF_DATA, OUT_OF_MEMORY
  <2> QED
    BY <2>1, LiveOrDead DEF Dead
<1>9. Live(p.dec) => Live(s) /\ p.dec.pos = r.value
  <2> SUFFICES ASSUME Live(p.dec) PROVE Live(s) /\ p.dec.pos = r.value
    OBVIOUS
  <2>1. Live(s) /\ ~ Dead(p.dec)
    BY <1>4, <1>7, <1>8, LiveOrDead DEF Reads, Runs
  <2>2. p.dec.size = s.size /\ s.size = r.value
    BY <1>4, <1>7, <2>1 DEF Reads, Runs
  <2>3. p.dec.pos = p.dec.size
    BY <1>7, <1>8, LiveOrDead DEF Live, pbtools_decoder_available
  <2> QED
    BY <2>1, <2>2, <2>3
<1> DEFINE e == decoder_seek(r.dec, p.dec.pos)
<1>10. /\ Runs(r.dec, e, Len(in))
       /\ Live(e) => 0 <= p.dec.pos
       /\ Live(r.dec) /\ p.dec.pos < 0 => e.pos = p.dec.pos
  BY <1>1, <1>8, SeekRuns
<1>11. Live(e) => Live(p.dec) /\ e = decoder_seek(r.dec, r.value)
  BY <1>8, <1>9, <1>10, LiveOrDead
<1>12. Reads(r.dec, e, Len(in))
  <2>1. CASE Live(p.dec)
    BY <1>1, <1>2, <1>9, <2>1, SeekReads
  <2>2. CASE ~ Live(p.dec)
    <3>1. p.dec.pos < 0
      BY <1>8, <2>2, LiveOrDead
    <3>2. Live(r.dec) => e.pos # -OUT_OF_MEMORY
      BY <1>8, <1>10, <3>1
    <3> QED
      BY <1>1, <1>10, <3>2, LiveOrDead DEF Reads, Runs
  <2> QED
    BY <2>1, <2>2
<1>13. Reads(d, e, Len(in))
  BY <1>1, <1>12, ReadsOn
<1>14. ASSUME type \in FixedTypes
       PROVE  /\ n <= k \/ (n = k + 1 /\ e.pos = -OUT_OF_DATA)
              /\ Live(e) => n = k
  <2>1. k \in Nat
    BY <1>2, WidthIs
  <2>2. CASE pbtools_decoder_available(s)
    <3>1. Live(s) /\ decoder_left(s) = r.value /\ decoder_left(s) > 0
      BY <1>1, <1>2, <1>4, <2>2, LiveOrDead DEF decoder_left
    <3>2. k <= n /\ (n <= k \/ (n = k + 1 /\ p.dec.pos = -OUT_OF_DATA))
      BY <1>7, <1>14, <3>1
    <3>3. Live(r.dec)
      BY <1>1, <1>4, <3>1, LiveOrDead
    <3>4. p.dec.pos = -OUT_OF_DATA => e.pos = -OUT_OF_DATA
      BY <1>10, <3>3 DEF OUT_OF_DATA
    <3>5. Live(e) => p.dec.pos # -OUT_OF_DATA
      BY <1>10 DEF OUT_OF_DATA
    <3> HIDE DEF k, e
    <3> QED
      BY <1>7, <2>1, <3>2, <3>4, <3>5
  <2>3. CASE ~ pbtools_decoder_available(s)
    <3>1. n = 0
      BY <1>7, <2>3
    <3>2. Live(e) => k = 0
      <4> SUFFICES ASSUME Live(e) PROVE k = 0
        OBVIOUS
      <4>1. Live(s) /\ s.size = r.value /\ s.pos = 0 /\ decoder_left(s) = 0
        BY <1>4, <1>9, <1>11, <2>3, LiveOrDead
      <4>2. r.value = 0
        BY <1>2, <4>1 DEF decoder_left
      <4> QED
        BY <4>2, WidthIs
    <3> HIDE DEF k, e
    <3> QED
      BY <2>1, <3>1, <3>2
  <2> QED
    BY <2>2, <2>3
<1> QED
  BY <1>3, <1>6, <1>7, <1>11, <1>13, <1>14 DEF r, g

LEMMA NumberReads ==
  ASSUME NEW in \in Seq(Byte), NEW d \in Windows(Len(in)), NEW type \in NumberTypes, NEW wire_type
  PROVE  LET e == ReadNumber(in, type, d, wire_type).dec
         IN  /\ Reads(d, e, Len(in))
             /\ Live(e) => /\ wire_type = WireTypeOf(type)
                           /\ e = pbtools_decoder_skip_field(in, d, wire_type)
<1> DEFINE e == ReadNumber(in, type, d, wire_type).dec
<1>1. CASE wire_type # WireTypeOf(type)
  <2>1. e = decoder_abort(d, BAD_WIRE_TYPE)
    BY <1>1 DEF ReadNumber
  <2>2. BAD_WIRE_TYPE \in Errors \ {OUT_OF_MEMORY}
    BY DEF BAD_WIRE_TYPE, Errors, OUT_OF_MEMORY
  <2> QED
    BY <2>1, <2>2, AbortReads
<1>2. CASE wire_type = WireTypeOf(type) /\ type \in VarintTypes
  <2>1. wire_type = VARINT /\ e = decoder_read_varint(in, d).dec
    BY <1>2 DEF ReadNumber, WireTypeOf, VarintTypes, Varint32Types, FixedTypes, Fixed32Types
  <2>2. pbtools_decoder_skip_field(in, d, wire_type) = e
    BY <2>1 DEF pbtools_decoder_skip_field, VARINT, WIRE_64_BIT, WIRE_32_BIT, LENGTH_DELIMITED
  <2> QED
    BY <1>2, <2>1, <2>2, VarintReads
<1>3. CASE wire_type = WireTypeOf(type) /\ type \in FixedTypes
  <2>1. type \notin VarintTypes
    BY <1>3 DEF FixedTypes, Fixed32Types, VarintTypes, Varint32Types
  <2>2. e = decoder_read_fixed(in, d, Width(type)).dec
    BY <1>3, <2>1 DEF ReadNumber
  <2>3. wire_type = IF type \in Fixed32Types THEN WIRE_32_BIT ELSE WIRE_64_BIT
    BY <1>3, <2>1 DEF WireTypeOf
  <2>4. pbtools_decoder_skip_field(in, d, wire_type) = decoder_seek(d, Width(type))
    BY <2>3 DEF pbtools_decoder_skip_field, Width, VARINT, WIRE_64_BIT, WIRE_32_BIT, LENGTH_DELIMITED
  <2> QED
    BY <1>3, <2>2, <2>4, FixedReads, WidthIs
<1> QED
  BY <1>1, <1>2, <1>3 DEF NumberTypes

(* One value of a leaf type: refused memory ends its decoder, and is the only
   way that it runs out of memory. *)
LeafRead(d, r, total) ==
  /\ Runs(d, r.dec, total) /\ r.refused \in {"", "reported"}
  /\ r.refused = "reported" => ~ Live(r.dec)
  /\ r.dec.pos = -OUT_OF_MEMORY => d.pos = -OUT_OF_MEMORY \/ r.refused = "reported"

LEMMA PayloadReads ==
  ASSUME NEW in \in Seq(Byte), NEW d \in Windows(Len(in)), NEW type, NEW h, NEW wire_type
  PROVE  LET r == decoder_read_payload(in, type, d, h, wire_type)
         IN  /\ LeafRead(d, r, Len(in))
             /\ Live(r.dec) => /\ wire_type = LENGTH_DELIMITED
                               /\ r.dec = pbtools_decoder_skip_field(in, d, wire_type)
<1> DEFINE l == decoder_read_length_delimited(in, d, wire_type)
           r == decoder_read_payload(in, type, d, h, wire_type)
<1>1. /\ l.value \in Nat
      /\ Reads(d, l.dec, Len(in)) /\ l.dec \in Windows(Len(in))
      /\ Live(l.dec) => wire_type = LENGTH_DELIMITED
  BY LengthReads DEF Reads, Runs
<1>2. wire_type = LENGTH_DELIMITED =>
        pbtools_decoder_skip_field(in, d, wire_type) = decoder_seek(l.dec, l.value)
  BY DEF pbtools_decoder_skip_field, SkipPayload, VARINT, WIRE_64_BIT, WIRE_32_BIT, LENGTH_DELIMITED
<1>3. \/ r.refused = "reported" /\ r.dec = decoder_abort(l.dec, OUT_OF_MEMORY)
      \/ r.refused = "" /\ r.dec = decoder_read(l.dec, l.value)
  BY DEF decoder_read_payload
<1> HIDE DEF l, r
<1>4. CASE r.refused = "reported" /\ r.dec = decoder_abort(l.dec, OUT_OF_MEMORY)
  <2>1. OUT_OF_MEMORY \in Errors
    BY DEF OUT_OF_MEMORY, Errors
  <2>2. Runs(l.dec, r.dec, Len(in)) /\ Dead(r.dec)
    BY <1>1, <1>4, <2>1, AbortRuns
  <2>3. ~ Live(r.dec) /\ r.dec \in Windows(Len(in))
    BY <2>2, LiveOrDead DEF Runs
  <2>4. Runs(d, r.dec, Len(in))
    <3>1. CASE Live(d)
      BY <2>2, <2>3, <3>1, LiveOrDead DEF Runs
    <3>2. CASE Dead(d)
      <4>1. l.dec = d
        BY <1>1, <3>2 DEF Reads, Runs
      <4> QED
        BY <2>2, <4>1
    <3> QED
      BY <3>1, <3>2, LiveOrDead
  <2> QED
    BY <1>4, <2>3, <2>4 DEF LeafRead, r
<1>5. CASE r.refused = "" /\ r.dec = decoder_read(l.dec, l.value)
  <2>1. Reads(l.dec, r.dec, Len(in)) /\ (Live(r.dec) => r.dec = decoder_seek(l.dec, l.value))
    BY <1>1, <1>5, ReadReads, ReadRuns
  <2>2. Reads(d, r.dec, Len(in))
    BY <1>1, <2>1, ReadsOn
  <2>3. Live(r.dec) => Live(l.dec)
    BY <1>1, <2>1, LiveOrDead DEF Reads, Runs
  <2> QED
    BY <1>1, <1>2, <1>5, <2>1, <2>2, <2>3 DEF LeafRead, Reads, r
<1> QED
  BY <1>3, <1>4, <1>5

(* A field holds payloads or messages, or else numbers of one kind. *)
LEMMA TypeKinds ==
  ASSUME NEW type \in LeafTypes \cup MessageTypes
  PROVE  /\ type \in PayloadTypes \cup MessageTypes => type \notin NumberTypes
         /\ type \notin PayloadTypes \cup MessageTypes => type \in NumberTypes
         /\ type \notin VarintTypes \/ type \notin FixedTypes
         /\ type \in PayloadTypes \cup MessageTypes => WireTypeOf(type) = LENGTH_DELIMITED
         /\ type \in VarintTypes => WireTypeOf(type) = VARINT
         /\ type \in FixedTypes =>
              WireTypeOf(type) = IF type \in Fixed32Types THEN WIRE_32_BIT ELSE WIRE_64_BIT
         /\ type \in NumberTypes => WireTypeOf(type) # LENGTH_DELIMITED
<1>1. type \in PayloadTypes => type \notin NumberTypes
  BY DEF PayloadTypes, NumberTypes, VarintTypes, Varint32Types, FixedTypes, Fixed32Types
<1>2. type \in VarintTypes => type \notin FixedTypes /\ WireTypeOf(type) = VARINT
  BY DEF WireTypeOf, VarintTypes, Varint32Types, FixedTypes, Fixed32Types
<1>3. type \in PayloadTypes \cup MessageTypes => type \notin NumberTypes
  BY <1>1, MessageAssumption DEF LeafTypes, NumberTypes
<1>4. type \in FixedTypes =>
        WireTypeOf(type) = IF type \in Fixed32Types THEN WIRE_32_BIT ELSE WIRE_64_BIT
  BY <1>2 DEF WireTypeOf
<1>5. Fixed32Types \subseteq FixedTypes
  BY DEF FixedTypes
<1>6. type \in PayloadTypes \cup MessageTypes => WireTypeOf(type) = LENGTH_DELIMITED
  BY <1>3, <1>5 DEF NumberTypes, WireTypeOf
<1>7. type \in NumberTypes => WireTypeOf(type) # LENGTH_DELIMITED
  BY <1>2, <1>4 DEF NumberTypes, VARINT, WIRE_32_BIT, WIRE_64_BIT, LENGTH_DELIMITED
<1> QED
  BY <1>2, <1>3, <1>4, <1>6, <1>7 DEF LeafTypes, NumberTypes

LEMMA LeafReads ==
  ASSUME NEW in \in Seq(Byte), NEW d \in Windows(Len(in)), NEW type \in LeafTypes, NEW h,
         NEW wire_type, NEW item
  PROVE  LET r == ReadLeaf(in, type, d, h, wire_type, item)
         IN  /\ LeafRead(d, r, Len(in))
             /\ Live(r.dec) => /\ r.dec = pbtools_decoder_skip_field(in, d, wire_type)
                               /\ wire_type = WireTypeOf(type)
<1>0. type \in LeafTypes \cup MessageTypes
  OBVIOUS
<1>1. CASE type \in PayloadTypes
  <2>1. WireTypeOf(type) = LENGTH_DELIMITED
    BY <1>0, <1>1, TypeKinds
  <2> QED
    BY <1>1, <2>1, PayloadReads DEF ReadLeaf
<1>2. CASE type \notin PayloadTypes
  <2> DEFINE e == ReadNumber(in, type, d, wire_type).dec
             r == ReadLeaf(in, type, d, h, wire_type, item)
  <2>1. r.dec = e /\ r.refused = ""
    BY <1>2 DEF ReadLeaf
  <2>2. type \in NumberTypes
    BY <1>2 DEF LeafTypes, NumberTypes
  <2>3. /\ Reads(d, e, Len(in))
        /\ Live(e) => wire_type = WireTypeOf(type) /\ e = pbtools_decoder_skip_field(in, d, wire_type)
    BY <2>2, NumberReads
  <2> HIDE DEF e, r
  <2> QED
    BY <1>2, <2>1, <2>3 DEF LeafRead, Reads, r
<1> QED
  BY <1>1, <1>2

LEMMA SkipIs ==
  ASSUME NEW in, NEW d
  PROVE  /\ pbtools_decoder_skip_field(in, d, VARINT) = decoder_read_varint(in, d).dec
         /\ pbtools_decoder_skip_field(in, d, WIRE_64_BIT) = decoder_seek(d, Fixed64)
         /\ pbtools_decoder_skip_field(in, d, WIRE_32_BIT) = decoder_seek(d, Fixed32)
         /\ LET r == decoder_read_length_delimited(in, d, LENGTH_DELIMITED)
            IN  pbtools_decoder_skip_field(in, d, LENGTH_DELIMITED) = decoder_seek(r.dec, r.value)
BY DEF pbtools_decoder_skip_field, SkipPayload, VARINT, WIRE_64_BIT, WIRE_32_BIT, LENGTH_DELIMITED

(* The arms of CountItems. *)
LEMMA TypeApart ==
  ASSUME NEW type
  PROVE  /\ type \in PayloadTypes \cup MessageTypes =>
              type \notin VarintTypes /\ type \notin FixedTypes
         /\ type \in VarintTypes =>
              /\ type \notin FixedTypes /\ type \notin PayloadTypes \cup MessageTypes
              /\ WireTypeOf(type) # LENGTH_DELIMITED
         /\ type \in FixedTypes =>
              /\ type \notin VarintTypes /\ type \notin PayloadTypes \cup MessageTypes
              /\ WireTypeOf(type) # LENGTH_DELIMITED
<1>1. CASE type \in LeafTypes \cup MessageTypes
  BY <1>1, TypeKinds DEF NumberTypes
<1>2. CASE type \notin LeafTypes \cup MessageTypes
  BY <1>2 DEF LeafTypes
<1> QED
  BY <1>1, <1>2

LEMMA CountMember ==
  ASSUME NEW in, NEW d, NEW type \in PayloadTypes \cup MessageTypes, NEW wire_type
  PROVE  CountItems(in, type, d, wire_type) =
           [dec   |-> decoder_seek(decoder_read_length_delimited(in, d, wire_type).dec,
                                   int(decoder_read_length_delimited(in, d, wire_type).value)),
            count |-> 1]
BY TypeApart DEF CountItems

LEMMA CountVarint ==
  ASSUME NEW in, NEW d, NEW type \in VarintTypes
  PROVE  CountItems(in, type, d, WireTypeOf(type)) =
           [dec |-> decoder_read_varint(in, d).dec, count |-> 1]
BY TypeApart DEF CountItems

LEMMA CountFixed ==
  ASSUME NEW in, NEW d, NEW type \in FixedTypes
  PROVE  CountItems(in, type, d, WireTypeOf(type)) =
           [dec |-> decoder_seek(d, Width(type)), count |-> 1]
BY TypeApart DEF CountItems

LEMMA CountPackedVarints ==
  ASSUME NEW in, NEW d, NEW type \in VarintTypes
  PROVE  CountItems(in, type, d, LENGTH_DELIMITED) =
           [dec |-> ReadPacked(in, type, d).dec, count |-> Len(ReadPacked(in, type, d).values)]
BY TypeApart DEF CountItems

LEMMA CountPackedFixed ==
  ASSUME NEW in, NEW d, NEW type \in FixedTypes
  PROVE  LET r == decoder_read_length_delimited(in, d, LENGTH_DELIMITED)
         IN  CountItems(in, type, d, LENGTH_DELIMITED) =
               [dec |-> decoder_seek(r.dec, int(r.value)), count |-> int(r.value) \div Width(type)]
BY TypeApart DEF CountItems

LEMMA CountWrong ==
  ASSUME NEW in, NEW d, NEW type \in NumberTypes, NEW wire_type,
         wire_type # WireTypeOf(type), wire_type # LENGTH_DELIMITED
  PROVE  CountItems(in, type, d, wire_type) =
           [dec |-> decoder_abort(d, BAD_WIRE_TYPE), count |-> 0]
<1>1. type \notin PayloadTypes \cup MessageTypes
  BY TypeApart DEF NumberTypes
<1> QED
  BY <1>1 DEF CountItems

(* The counting pass: the decoder ends where the field is skipped to, and the
   count is a number. *)
LEMMA CountReads ==
  ASSUME NEW in \in Seq(Byte), NEW d \in Windows(Len(in)),
         NEW type \in LeafTypes \cup MessageTypes, NEW wire_type
  PROVE  LET c == CountItems(in, type, d, wire_type)
         IN  /\ Reads(d, c.dec, Len(in)) /\ c.count \in Nat
             /\ Live(c.dec) => c.dec = pbtools_decoder_skip_field(in, d, wire_type)
             /\ wire_type = WireTypeOf(type) =>
                  c.count = 1 /\ c.dec = pbtools_decoder_skip_field(in, d, wire_type)
             /\ type \in MessageTypes => c.count = 1 /\ (Live(c.dec) => wire_type = LENGTH_DELIMITED)
<1> DEFINE r == decoder_read_length_delimited(in, d, wire_type)
           p == ReadPacked(in, type, d)
           c == CountItems(in, type, d, wire_type)
           skip == pbtools_decoder_skip_field(in, d, wire_type)
           e == decoder_seek(r.dec, r.value)
<1> SUFFICES /\ Reads(d, c.dec, Len(in)) /\ c.count \in Nat
             /\ Live(c.dec) => c.dec = skip
             /\ wire_type = WireTypeOf(type) => c.count = 1 /\ c.dec = skip
             /\ type \in MessageTypes => c.count = 1 /\ (Live(c.dec) => wire_type = LENGTH_DELIMITED)
  OBVIOUS
<1>1. /\ r.value \in Nat /\ int(r.value) = r.value
      /\ Reads(d, r.dec, Len(in)) /\ r.dec \in Windows(Len(in))
      /\ Live(r.dec) => wire_type = LENGTH_DELIMITED
  BY LengthReads DEF Reads, Runs
<1>2. wire_type = LENGTH_DELIMITED => skip = e
  BY SkipIs
<1> HIDE DEF r, skip
<1>3. Reads(d, e, Len(in)) /\ (Live(e) => wire_type = LENGTH_DELIMITED /\ e = skip)
  <2>1. Reads(r.dec, e, Len(in))
    BY <1>1, SeekReads
  <2>2. Live(e) => Live(r.dec)
    BY <1>1, <2>1, LiveOrDead DEF Reads, Runs
  <2> QED
    BY <1>1, <1>2, <2>1, <2>2, ReadsOn
<1>4. r.value \div Width(type) \in Nat
  BY <1>1, WidthIs
<1> HIDE DEF e, c
<1>5. CASE type \in PayloadTypes \cup MessageTypes
  <2>1. c = [dec |-> e, count |-> 1]
    <3>1. c = [dec |-> decoder_seek(r.dec, int(r.value)), count |-> 1]
      BY <1>5, CountMember DEF c, r
    <3> QED
      BY <1>1, <3>1 DEF e
  <2>2. WireTypeOf(type) = LENGTH_DELIMITED
    BY <1>5, TypeKinds
  <2> QED
    BY <1>2, <1>3, <2>1, <2>2
<1>6. CASE type \in VarintTypes /\ wire_type = WireTypeOf(type)
  <2>1. c = [dec |-> decoder_read_varint(in, d).dec, count |-> 1]
    BY <1>6, CountVarint DEF c
  <2>2. skip = decoder_read_varint(in, d).dec /\ type \notin MessageTypes
    BY <1>6, TypeKinds, SkipIs DEF skip, NumberTypes
  <2> QED
    BY <2>1, <2>2, VarintReads
<1>7. CASE type \in FixedTypes /\ wire_type = WireTypeOf(type)
  <2>1. c = [dec |-> decoder_seek(d, Width(type)), count |-> 1]
    BY <1>7, CountFixed DEF c
  <2>2. skip = decoder_seek(d, Width(type)) /\ type \notin MessageTypes
    BY <1>7, TypeKinds, SkipIs DEF skip, NumberTypes, Width
  <2> QED
    BY <2>1, <2>2, SeekReads, WidthIs
<1>8. CASE type \in VarintTypes /\ wire_type = LENGTH_DELIMITED
  <2>1. c = [dec |-> p.dec, count |-> Len(p.values)]
    BY <1>8, CountPackedVarints DEF c
  <2> HIDE DEF p
  <2>2. /\ Reads(d, p.dec, Len(in)) /\ Len(p.values) \in Nat
        /\ Live(p.dec) => p.dec = skip
    BY <1>8, PackedReads DEF p, skip
  <2>3. wire_type # WireTypeOf(type) /\ type \notin MessageTypes
    BY <1>8, TypeKinds DEF NumberTypes
  <2> QED
    BY <1>8, <2>1, <2>2, <2>3
<1>9. CASE type \in FixedTypes /\ wire_type = LENGTH_DELIMITED
  <2>1. c = [dec |-> e, count |-> r.value \div Width(type)]
    BY <1>1, <1>9, CountPackedFixed DEF c, e, r
  <2>2. wire_type # WireTypeOf(type) /\ type \notin MessageTypes
    BY <1>9, TypeKinds DEF NumberTypes
  <2> QED
    BY <1>3, <1>4, <2>1, <2>2
<1>10. CASE type \in NumberTypes /\ wire_type # WireTypeOf(type) /\ wire_type # LENGTH_DELIMITED
  <2>1. c = [dec |-> decoder_abort(d, BAD_WIRE_TYPE), count |-> 0]
    BY <1>10, CountWrong DEF c
  <2>2. BAD_WIRE_TYPE \in Errors \ {OUT_OF_MEMORY} /\ type \notin MessageTypes
    BY <1>10, TypeKinds DEF BAD_WIRE_TYPE, Errors, OUT_OF_MEMORY
  <2>3. Reads(d, c.dec, Len(in)) /\ ~ Live(c.dec)
    BY <2>1, <2>2, AbortReads
  <2> QED
    BY <1>10, <2>1, <2>2, <2>3
<1> QED
  BY <1>5, <1>6, <1>7, <1>8, <1>9, <1>10, TypeKinds DEF NumberTypes

(* The reading pass, one tag of it: it stores as many items as were counted, or
   ends in an error with no more, but for a value that is cut off. *)
LEMMA GroupReads ==
  ASSUME NEW in \in Seq(Byte), NEW d \in Windows(Len(in)), NEW type \in LeafTypes, NEW h,
         NEW wire_type
  PROVE  LET r == ReadGroup(in, type, d, h, wire_type)
             n == Len(r.values)
             c == CountItems(in, type, d, wire_type)
         IN  /\ LeafRead(d, r, Len(in)) /\ n \in Nat /\ DOMAIN r.values = 1 .. n
             /\ Live(r.dec) => n = c.count /\ r.dec = c.dec
             /\ \/ n <= c.count
                \/ type \in FixedTypes /\ n = c.count + 1 /\ r.dec.pos = -OUT_OF_DATA
<1> DEFINE r == ReadGroup(in, type, d, h, wire_type)
           n == Len(r.values)
           c == CountItems(in, type, d, wire_type)
           one == ReadLeaf(in, type, d, h, wire_type, TRUE)
           group == ReadPacked(in, type, d)
           packed == type \notin PayloadTypes /\ wire_type = LENGTH_DELIMITED
<1> SUFFICES /\ LeafRead(d, r, Len(in)) /\ n \in Nat /\ DOMAIN r.values = 1 .. n
             /\ Live(r.dec) => n = c.count /\ r.dec = c.dec
             /\ \/ n <= c.count
                \/ type \in FixedTypes /\ n = c.count + 1 /\ r.dec.pos = -OUT_OF_DATA
  OBVIOUS
<1>1. type \in PayloadTypes \/ type \in VarintTypes \/ type \in FixedTypes
  BY DEF LeafTypes
<1>2. type \in LeafTypes \cup MessageTypes
  OBVIOUS
<1>3. c.count \in Nat
  BY <1>2, CountReads
<1>4. CASE packed
  <2>1. r = [dec |-> group.dec, heap |-> h, values |-> group.values, refused |-> ""]
    BY <1>4 DEF ReadGroup
  <2> HIDE DEF r, c, group
  <2>2. /\ Reads(d, group.dec, Len(in))
        /\ Live(group.dec) => group.dec = pbtools_decoder_skip_field(in, d, LENGTH_DELIMITED)
        /\ n \in Nat /\ DOMAIN r.values = 1 .. n
    BY <2>1, PackedReads DEF group
  <2>3. LeafRead(d, r, Len(in))
    BY <2>1, <2>2 DEF LeafRead, Reads
  <2>4. r.dec = group.dec /\ r.values = group.values /\ wire_type = LENGTH_DELIMITED
    BY <1>4, <2>1
  <2>5. CASE type \in VarintTypes
    <3>1. c.count = Len(group.values) /\ c.dec = group.dec
      BY <2>4, <2>5, CountPackedVarints DEF c, group
    <3> QED
      BY <1>3, <2>2, <2>3, <2>4, <3>1
  <2>6. CASE type \in FixedTypes
    <3> DEFINE l == decoder_read_length_delimited(in, d, LENGTH_DELIMITED)
    <3>1. int(l.value) = l.value
      BY LengthReads
    <3>2. c.dec = decoder_seek(l.dec, int(l.value)) /\ c.count = int(l.value) \div Width(type)
      BY <2>4, <2>6, CountPackedFixed DEF c
    <3>3. c.dec = pbtools_decoder_skip_field(in, d, LENGTH_DELIMITED)
      BY <3>1, <3>2, SkipIs
    <3>4. c.count = l.value \div Width(type)
      BY <3>1, <3>2
    <3>5. /\ n <= c.count \/ (n = c.count + 1 /\ group.dec.pos = -OUT_OF_DATA)
          /\ Live(group.dec) => n = c.count
      BY <2>4, <2>6, <3>4, PackedReads DEF group
    <3> QED
      BY <2>2, <2>3, <2>4, <2>6, <3>3, <3>5
  <2> QED
    BY <1>1, <1>4, <2>5, <2>6, Zenon
<1>5. CASE ~ packed
  <2> DEFINE wrong == type \notin PayloadTypes /\ wire_type # WireTypeOf(type)
  <2>1. r = [dec |-> one.dec, heap |-> one.heap,
             values |-> IF wrong THEN <<>> ELSE <<one.value>>, refused |-> one.refused]
    BY <1>5 DEF ReadGroup
  <2>2. /\ LeafRead(d, one, Len(in))
        /\ Live(one.dec) => /\ one.dec = pbtools_decoder_skip_field(in, d, wire_type)
                            /\ wire_type = WireTypeOf(type)
    BY LeafReads
  <2>3. wire_type = WireTypeOf(type) =>
          c.count = 1 /\ c.dec = pbtools_decoder_skip_field(in, d, wire_type)
    BY <1>2, CountReads
  <2>4. ~ wrong => c.count = 1
    <3> DEFINE l == decoder_read_length_delimited(in, d, wire_type)
    <3>1. CASE type \in PayloadTypes
      <4>1. c = [dec |-> decoder_seek(l.dec, int(l.value)), count |-> 1]
        BY <3>1, CountMember
      <4> HIDE DEF c
      <4> QED
        BY <4>1
    <3>2. CASE type \notin PayloadTypes
      BY <2>3, <3>2
    <3> QED
      BY <3>1, <3>2
  <2>5. ~ (Live(one.dec) /\ wrong)
    BY <2>2
  <2> HIDE DEF r, c, one, wrong
  <2>6. LeafRead(d, r, Len(in))
    BY <2>1, <2>2 DEF LeafRead
  <2>7. CASE wrong
    <3>1. n = 0 /\ DOMAIN r.values = 1 .. n
      BY <2>1, <2>7
    <3> QED
      BY <1>3, <2>1, <2>5, <2>6, <2>7, <3>1
  <2>8. CASE ~ wrong
    <3>1. n = 1 /\ DOMAIN r.values = 1 .. n
      BY <2>1, <2>8
    <3> QED
      BY <2>1, <2>2, <2>3, <2>4, <2>6, <2>8, <3>1
  <2> QED
    BY <2>7, <2>8
<1> QED
  BY <1>4, <1>5

(* What is counted, and where that leaves the decoder, does not depend on the
   window that is scanned. *)
LEMMA SeekNothing ==
  ASSUME NEW total, NEW d \in Windows(total), ~ pbtools_decoder_available(d),
         NEW offset \in Int, offset >= 0 \/ -offset \in Errors
  PROVE  /\ decoder_seek(d, offset) \in Windows(total)
         /\ ~ pbtools_decoder_available(decoder_seek(d, offset))
<1> DEFINE e == decoder_seek(d, offset)
<1>1. /\ e \in Windows(total)
      /\ Live(e) => Live(d) /\ 0 <= offset /\ offset <= decoder_left(d)
      /\ Live(d) /\ 0 <= offset /\ offset <= decoder_left(d) => e = Advanced(d, offset)
  BY SeekRuns DEF Runs
<1>2. Live(d) => decoder_left(d) = 0
  BY LiveOrDead
<1>3. Live(e) => decoder_left(e) = 0
  BY <1>1, <1>2, LiveOrDead DEF Advanced, decoder_left
<1> HIDE DEF e
<1> QED
  BY <1>1, <1>3, LiveOrDead DEF e

LEMMA AlikeOffset ==
  ASSUME NEW total, NEW b \in Windows(total), NEW d \in Windows(total), Alike(b, d),
         NEW offset \in Int, offset >= 0 \/ -offset \in Errors
  PROVE  Alike(decoder_seek(b, offset), decoder_seek(d, offset))
<1>1. CASE offset >= 0
  <2>1. offset \in Nat
    BY <1>1
  <2> QED
    BY <2>1, AlikeSeek
<1>2. CASE ~ (offset >= 0)
  <2>1. ASSUME NEW e \in Windows(total)
        PROVE  decoder_seek(e, offset) \in Windows(total) /\ ~ Live(decoder_seek(e, offset))
    BY <1>2, SeekRuns DEF Runs
  <2> QED
    BY <2>1, AlikeDead
<1> QED
  BY <1>1, <1>2

LEMMA NothingLeft ==
  ASSUME NEW total, NEW d \in Windows(total), ~ pbtools_decoder_available(d)
  PROVE  decoder_left(d) = 0
<1>1. decoder_left(d) \in Nat /\ (Live(d) \/ Dead(d))
      /\ (Dead(d) => decoder_left(d) = 0)
      /\ (pbtools_decoder_available(d) <=> Live(d) /\ decoder_left(d) > 0)
  BY LiveOrDead
<1> QED
  BY <1>1

LEMMA AlikePacked ==
  ASSUME NEW in \in Seq(Byte), NEW b \in Windows(Len(in)), NEW d \in Windows(Len(in)), Alike(b, d),
         NEW type
  PROVE  LET g == ReadPacked(in, type, b)  h == ReadPacked(in, type, d)
         IN  Alike(g.dec, h.dec) /\ Len(g.values) = Len(h.values)
<1> DEFINE r(e) == decoder_read_length_delimited(in, e, LENGTH_DELIMITED)
           v == r(d).value
           s(e) == decoder_init_slice(r(e).dec, v)
           p(e) == ReadAll(in, type, s(e))
           g(e) == ReadPacked(in, type, e)
<1> SUFFICES Alike(g(b).dec, g(d).dec) /\ Len(g(b).values) = Len(g(d).values)
  OBVIOUS
<1>1. r(b).value = v /\ Alike(r(b).dec, r(d).dec)
  BY AlikeLength
<1>2. v \in 0 .. IntMax - 1 /\ v \in 0 .. IntMax /\ v \in Nat /\ int(v) = v
  <2>1. v \in 0 .. IntMax - 1 /\ int(v) = v
    BY LengthReads
  <2> QED
    BY <2>1, IntAssumption
<1>3. r(b).dec \in Windows(Len(in)) /\ r(d).dec \in Windows(Len(in))
  BY LengthReads DEF Reads, Runs
<1>4. s(b) \in Windows(Len(in)) /\ s(d) \in Windows(Len(in))
  <2> HIDE DEF r, v
  <2> QED
    BY <1>2, <1>3, SliceRuns
<1>5. /\ g(b) = [dec |-> decoder_seek(r(b).dec, p(b).dec.pos), values |-> p(b).values]
      /\ g(d) = [dec |-> decoder_seek(r(d).dec, p(d).dec.pos), values |-> p(d).values]
  <2>1. s(b) \in Decoders /\ s(d) \in Decoders
    BY <1>4, LiveOrDead
  <2> QED
    BY <1>1, <1>2, <2>1 DEF ReadPacked, decoder_get_result
<1> HIDE DEF r, v, g
<1>6. ASSUME NEW e \in Windows(Len(in)), s(e) \in Windows(Len(in))
      PROVE  /\ p(e).dec.pos \in Int /\ (p(e).dec.pos >= 0 \/ -p(e).dec.pos \in Errors)
             /\ ~ pbtools_decoder_available(s(e)) => Len(p(e).values) = 0 /\ p(e).dec = s(e)
  <2> HIDE DEF s
  <2>1. Reads(s(e), p(e).dec, Len(in))
        /\ (~ pbtools_decoder_available(s(e)) => Len(p(e).values) = 0 /\ p(e).dec = s(e))
    BY <1>6, AllReads
  <2>2. p(e).dec \in Windows(Len(in))
    BY <2>1 DEF Reads, Runs
  <2> QED
    BY <2>1, <2>2, LiveOrDead DEF Dead
<1>7. CASE pbtools_decoder_available(r(b).dec)
  <2>1. s(b) = s(d)
    BY <1>1, <1>3, <1>7, AlikeIs DEF decoder_init_slice, Slice
  <2>2. p(b) = p(d)
    BY <2>1
  <2>3. p(d).dec.pos \in Int /\ (p(d).dec.pos >= 0 \/ -p(d).dec.pos \in Errors)
    BY <1>4, <1>6
  <2> HIDE DEF p, s
  <2> QED
    BY <1>1, <1>3, <1>5, <2>2, <2>3, AlikeOffset
<1>8. CASE ~ pbtools_decoder_available(r(b).dec)
  <2>1. ~ pbtools_decoder_available(r(d).dec)
    BY <1>1, <1>3, <1>8, AlikeIs
  <2>2. ASSUME NEW e \in Windows(Len(in)), s(e) \in Windows(Len(in)), r(e).dec \in Windows(Len(in)),
               ~ pbtools_decoder_available(r(e).dec),
               g(e) = [dec |-> decoder_seek(r(e).dec, p(e).dec.pos), values |-> p(e).values]
        PROVE  /\ g(e).dec \in Windows(Len(in)) /\ ~ pbtools_decoder_available(g(e).dec)
               /\ Len(g(e).values) = 0
    <3>1. decoder_left(r(e).dec) = 0
      BY <2>2, NothingLeft, Zenon
    <3>2. ~ pbtools_decoder_available(s(e))
      <4>1. Live(s(e)) => v = 0 /\ s(e).size = v /\ s(e).pos = 0
        BY <1>2, <2>2, <3>1, SliceRuns
      <4> HIDE DEF s
      <4> QED
        BY <2>2, <4>1, LiveOrDead DEF decoder_left
    <3>3. /\ p(e).dec.pos \in Int /\ (p(e).dec.pos >= 0 \/ -p(e).dec.pos \in Errors)
          /\ Len(p(e).values) = 0
      BY <1>6, <2>2, <3>2
    <3> HIDE DEF p, s
    <3> QED
      BY <2>2, <3>3, SeekNothing
  <2> HIDE DEF p, s
  <2> QED
    BY <1>3, <1>4, <1>5, <1>8, <2>1, <2>2, AlikeIs
<1> QED
  BY <1>7, <1>8

LEMMA AlikeCount ==
  ASSUME NEW in \in Seq(Byte), NEW b \in Windows(Len(in)), NEW d \in Windows(Len(in)), Alike(b, d),
         NEW type \in LeafTypes \cup MessageTypes, NEW wire_type
  PROVE  LET g == CountItems(in, type, b, wire_type)  h == CountItems(in, type, d, wire_type)
         IN  Alike(g.dec, h.dec) /\ g.count = h.count
<1> DEFINE r(e) == decoder_read_length_delimited(in, e, wire_type)
           p(e) == ReadPacked(in, type, e)
           c(e) == CountItems(in, type, e, wire_type)
<1>1. r(b).value = r(d).value /\ Alike(r(b).dec, r(d).dec)
  BY AlikeLength
<1>2. /\ r(b).dec \in Windows(Len(in)) /\ r(d).dec \in Windows(Len(in))
      /\ r(d).value \in Nat /\ int(r(d).value) = r(d).value
  BY LengthReads DEF Reads, Runs
<1>3. Alike(decoder_seek(r(b).dec, int(r(b).value)), decoder_seek(r(d).dec, int(r(d).value)))
  <2> HIDE DEF r
  <2> QED
    BY <1>1, <1>2, AlikeSeek
<1>4. CASE type \in PayloadTypes \cup MessageTypes
  <2>1. /\ c(b) = [dec |-> decoder_seek(r(b).dec, int(r(b).value)), count |-> 1]
        /\ c(d) = [dec |-> decoder_seek(r(d).dec, int(r(d).value)), count |-> 1]
    <3>1. ASSUME NEW e
          PROVE  c(e) = [dec |-> decoder_seek(r(e).dec, int(r(e).value)), count |-> 1]
      BY <1>4, CountMember
    <3> QED
      BY <3>1
  <2> HIDE DEF c, r
  <2> QED
    BY <1>3, <2>1 DEF c
<1>5. CASE type \in VarintTypes /\ wire_type = WireTypeOf(type)
  <2>1. /\ c(b) = [dec |-> decoder_read_varint(in, b).dec, count |-> 1]
        /\ c(d) = [dec |-> decoder_read_varint(in, d).dec, count |-> 1]
    BY <1>5, CountVarint
  <2> HIDE DEF c
  <2> QED
    BY <2>1, AlikeVarint DEF c
<1>6. CASE type \in FixedTypes /\ wire_type = WireTypeOf(type)
  <2>1. /\ c(b) = [dec |-> decoder_seek(b, Width(type)), count |-> 1]
        /\ c(d) = [dec |-> decoder_seek(d, Width(type)), count |-> 1]
    BY <1>6, CountFixed
  <2> HIDE DEF c
  <2> QED
    BY <2>1, AlikeSeek, WidthIs DEF c
<1>7. CASE type \in VarintTypes /\ wire_type = LENGTH_DELIMITED
  <2>1. /\ c(b) = [dec |-> p(b).dec, count |-> Len(p(b).values)]
        /\ c(d) = [dec |-> p(d).dec, count |-> Len(p(d).values)]
    BY <1>7, CountPackedVarints
  <2>2. Alike(p(b).dec, p(d).dec) /\ Len(p(b).values) = Len(p(d).values)
    BY AlikePacked
  <2> HIDE DEF c, p
  <2> QED
    BY <2>1, <2>2 DEF c
<1>8. CASE type \in FixedTypes /\ wire_type = LENGTH_DELIMITED
  <2> DEFINE k(e) == int(r(e).value) \div Width(type)
  <2>1. /\ c(b) = [dec |-> decoder_seek(r(b).dec, int(r(b).value)), count |-> k(b)]
        /\ c(d) = [dec |-> decoder_seek(r(d).dec, int(r(d).value)), count |-> k(d)]
    BY <1>8, CountPackedFixed
  <2>2. k(b) = k(d)
    BY <1>1
  <2> HIDE DEF c, r, k
  <2> QED
    BY <1>3, <2>1, <2>2 DEF c
<1>9. CASE type \in NumberTypes /\ wire_type # WireTypeOf(type) /\ wire_type # LENGTH_DELIMITED
  <2>1. /\ c(b) = [dec |-> decoder_abort(b, BAD_WIRE_TYPE), count |-> 0]
        /\ c(d) = [dec |-> decoder_abort(d, BAD_WIRE_TYPE), count |-> 0]
    <3>1. c(b) = [dec |-> decoder_abort(b, BAD_WIRE_TYPE), count |-> 0]
      BY <1>9, CountWrong
    <3>2. c(d) = [dec |-> decoder_abort(d, BAD_WIRE_TYPE), count |-> 0]
      BY <1>9, CountWrong
    <3> HIDE DEF c
    <3> QED
      BY <3>1, <3>2
  <2>2. BAD_WIRE_TYPE \in Errors \ {OUT_OF_MEMORY}
    BY DEF BAD_WIRE_TYPE, Errors, OUT_OF_MEMORY
  <2> HIDE DEF c
  <2> QED
    BY <2>1, <2>2, AlikeAbort DEF c
<1> QED
  BY <1>4, <1>5, <1>6, <1>7, <1>8, <1>9, TypeKinds DEF NumberTypes
-----------------------------------------------------------------------------
(* Both passes go from tag to tag.  For field n of items of a type: the decoder
   behind the next tag and what it brings, and the items counted so far. *)
Sum(c, k) == [dec |-> Canon(c.dec), count |-> k + c.count]

FirstTag(in, type, info) == Sum(CountItems(in, type, info.dec, info.wire_type), 0)

NextTag(in, type, n, z) ==
  LET tag == pbtools_decoder_read_tag(in, z.dec)
  IN  IF tag.field_number = n
      THEN Sum(CountItems(in, type, tag.dec, tag.wire_type), z.count)
      ELSE [dec   |-> Canon(pbtools_decoder_skip_field(in, tag.dec, tag.wire_type)),
            count |-> z.count]

(* z is in every set that has y and, with each element, what comes after it. *)
Reaches(in, type, n, y, z) ==
  \A S : y \in S /\ (\A x \in S : NextTag(in, type, n, x) \in S) => z \in S

Totals(in) == [dec : Windows(Len(in)), count : Nat]

LEMMA NextTagIs ==
  ASSUME NEW in \in Seq(Byte), NEW d \in Windows(Len(in)), NEW k \in Nat, NEW n,
         NEW type \in LeafTypes \cup MessageTypes
  PROVE  LET tag == pbtools_decoder_read_tag(in, d)
             c == CountItems(in, type, tag.dec, tag.wire_type)
             e == pbtools_decoder_skip_field(in, tag.dec, tag.wire_type)
             z == NextTag(in, type, n, [dec |-> Canon(d), count |-> k])
         IN  /\ tag.field_number = n => z = Sum(c, k)
             /\ tag.field_number # n => z = [dec |-> Canon(e), count |-> k]
             /\ z \in Totals(in) /\ z.count >= k
<1> DEFINE tag == pbtools_decoder_read_tag(in, d)
           c == CountItems(in, type, tag.dec, tag.wire_type)
           e == pbtools_decoder_skip_field(in, tag.dec, tag.wire_type)
           y == [dec |-> Canon(d), count |-> k]
           z == NextTag(in, type, n, y)
           u == pbtools_decoder_read_tag(in, Canon(d))
<1> SUFFICES /\ tag.field_number = n => z = Sum(c, k)
             /\ tag.field_number # n => z = [dec |-> Canon(e), count |-> k]
             /\ z \in Totals(in) /\ z.count >= k
  OBVIOUS
<1>1. Canon(d) \in Windows(Len(in)) /\ Alike(Canon(d), d)
  BY CanonIs DEF Alike
<1>2. u.field_number = tag.field_number /\ u.wire_type = tag.wire_type /\ Alike(u.dec, tag.dec)
  BY <1>1, AlikeTag
<1>3. tag.dec \in Windows(Len(in)) /\ u.dec \in Windows(Len(in))
  BY <1>1, TagReads DEF Reads, Runs
<1>4. z = IF u.field_number = n THEN Sum(CountItems(in, type, u.dec, u.wire_type), k)
          ELSE [dec |-> Canon(pbtools_decoder_skip_field(in, u.dec, u.wire_type)), count |-> k]
  BY DEF NextTag
<1> HIDE DEF tag, u, y, z
<1>5. Sum(CountItems(in, type, u.dec, u.wire_type), k) = Sum(c, k)
  <2>1. /\ Alike(CountItems(in, type, u.dec, tag.wire_type).dec, c.dec)
        /\ CountItems(in, type, u.dec, tag.wire_type).count = c.count
    BY <1>2, <1>3, AlikeCount
  <2> QED
    BY <1>2, <2>1 DEF Sum, Alike
<1>6. Canon(pbtools_decoder_skip_field(in, u.dec, u.wire_type)) = Canon(e)
  BY <1>2, <1>3, AlikeSkip DEF Alike
<1>7. /\ c.dec \in Windows(Len(in)) /\ c.count \in Nat /\ e \in Windows(Len(in))
  BY <1>3, CountReads, SkipReads DEF Reads, Runs
<1> HIDE DEF c, e
<1>8. /\ tag.field_number = n => z = Sum(c, k)
      /\ tag.field_number # n => z = [dec |-> Canon(e), count |-> k]
  BY <1>2, <1>4, <1>5, <1>6
<1>9. Canon(c.dec) \in Windows(Len(in)) /\ Canon(e) \in Windows(Len(in))
  BY <1>7, CanonIs
<1> QED
  BY <1>7, <1>8, <1>9 DEF Sum, Totals

LEMMA ReachesSelf ==
  ASSUME NEW in, NEW type, NEW n, NEW y
  PROVE  Reaches(in, type, n, y, y)
BY DEF Reaches

LEMMA ReachesNext ==
  ASSUME NEW in, NEW type, NEW n, NEW y, NEW z, Reaches(in, type, n, y, z)
  PROVE  Reaches(in, type, n, y, NextTag(in, type, n, z))
BY DEF Reaches

(* What is reached and is not where it starts is reached from the next tag. *)
LEMMA ReachesOn ==
  ASSUME NEW in, NEW type, NEW n, NEW y, NEW z, Reaches(in, type, n, y, z), y # z
  PROVE  Reaches(in, type, n, NextTag(in, type, n, y), z)
<1> SUFFICES ASSUME NEW S, NextTag(in, type, n, y) \in S,
                    \A x \in S : NextTag(in, type, n, x) \in S
             PROVE  z \in S
  BY Zenon DEF Reaches
<1>1. z \in S \cup {y}
  <2>1. y \in S \cup {y} /\ \A x \in S \cup {y} : NextTag(in, type, n, x) \in S \cup {y}
    OBVIOUS
  <2> QED
    BY <2>1 DEF Reaches
<1> QED
  BY <1>1

(* Counts only grow. *)
LEMMA ReachesMore ==
  ASSUME NEW in \in Seq(Byte), NEW type \in LeafTypes \cup MessageTypes, NEW n,
         NEW d \in Windows(Len(in)), NEW k \in Nat, NEW z,
         Reaches(in, type, n, [dec |-> Canon(d), count |-> k], z)
  PROVE  z.count \in Nat /\ k <= z.count
<1> DEFINE y == [dec |-> Canon(d), count |-> k]
           S == {[dec |-> Canon(x.dec), count |-> x.count] : x \in {w \in Totals(in) : k <= w.count}}
<1>1. y \in S
  <2>1. [dec |-> d, count |-> k] \in {w \in Totals(in) : k <= w.count}
    BY DEF Totals
  <2> QED
    BY <2>1
<1>2. ASSUME NEW x \in S
      PROVE  NextTag(in, type, n, x) \in S
  <2>1. PICK w \in Totals(in) : k <= w.count /\ x = [dec |-> Canon(w.dec), count |-> w.count]
    OBVIOUS
  <2> DEFINE v == NextTag(in, type, n, x)
  <2>2. w.dec \in Windows(Len(in)) /\ w.count \in Nat
    BY DEF Totals
  <2>3. v \in Totals(in) /\ v.count >= w.count
    BY <2>1, <2>2, NextTagIs
  <2>4. v.count >= k /\ v = [dec |-> v.dec, count |-> v.count]
    BY <2>1, <2>2, <2>3 DEF Totals
  <2>5. v.dec = Canon(v.dec)
    <3> DEFINE tag == pbtools_decoder_read_tag(in, w.dec)
               c == CountItems(in, type, tag.dec, tag.wire_type)
               e == pbtools_decoder_skip_field(in, tag.dec, tag.wire_type)
    <3>1. v = Sum(c, w.count) \/ v = [dec |-> Canon(e), count |-> w.count]
      BY <2>1, <2>2, NextTagIs
    <3>2. v.dec = Canon(c.dec) \/ v.dec = Canon(e)
      BY <3>1 DEF Sum
    <3>3. c.dec \in Windows(Len(in)) /\ e \in Windows(Len(in))
      <4>1. tag.dec \in Windows(Len(in))
        BY <2>2, TagReads DEF Reads, Runs
      <4> QED
        BY <4>1, CountReads, SkipReads DEF Reads, Runs
    <3> HIDE DEF v, c, e
    <3> QED
      BY <3>2, <3>3, CanonIs
  <2> HIDE DEF v
  <2> QED
    BY <2>3, <2>4, <2>5 DEF v
<1>3. z \in S
  BY <1>1, <1>2 DEF Reaches
<1> QED
  BY <1>3 DEF Totals

(* Behind an error there is no tag, and nothing more is counted. *)
LEMMA ReachesNone ==
  ASSUME NEW in \in Seq(Byte), NEW type \in LeafTypes \cup MessageTypes, NEW n \in Nat \ {0},
         NEW d \in Windows(Len(in)), ~ pbtools_decoder_available(d), NEW k \in Nat, NEW z,
         Reaches(in, type, n, [dec |-> Canon(d), count |-> k], z)
  PROVE  z.count = k
<1> DEFINE y == [dec |-> Canon(d), count |-> k]
           tag == pbtools_decoder_read_tag(in, d)
           e == pbtools_decoder_skip_field(in, tag.dec, tag.wire_type)
<1>1. NextTag(in, type, n, y) = y
  <2>1. /\ decoder_read_varint(in, d).value = 0 /\ ~ Live(decoder_read_varint(in, d).dec)
    BY VarintNone
  <2>2. tag.field_number = 0
    BY <2>1, IntAssumption DEF pbtools_decoder_read_tag, TagRead, TagOf
  <2>3. tag.dec \in Windows(Len(in)) /\ ~ Live(tag.dec)
    BY <2>1, TagReads DEF Reads, Runs
  <2>4. e = tag.dec
    BY <2>3, LiveOrDead, SkipReads DEF Reads, Runs
  <2>5. Canon(e) = Canon(d)
    BY <2>3, <2>4, LiveOrDead DEF Canon
  <2> QED
    BY <2>2, <2>5, NextTagIs
<1>2. z \in {y}
  <2>1. y \in {y} /\ \A x \in {y} : NextTag(in, type, n, x) \in {y}
    BY <1>1
  <2> HIDE DEF y
  <2> QED
    BY <2>1 DEF Reaches, y
<1> QED
  BY <1>2
-----------------------------------------------------------------------------
(* The finalizers of a message run in the order of its field numbers, each once:
   InOrder enumerates any finite set of numbers. *)
LEMMA InOrderIs ==
  ASSUME NEW S, IsFiniteSet(S), S \subseteq Nat
  PROVE  /\ InOrder(S) \in Seq(S) /\ Len(InOrder(S)) = Cardinality(S)
         /\ \A i, j \in 1 .. Len(InOrder(S)) : InOrder(S)[i] = InOrder(S)[j] => i = j
         /\ \A x \in S : \E i \in 1 .. Len(InOrder(S)) : InOrder(S)[i] = x
<1> DEFINE n == Cardinality(S)
           upto(x) == {m \in S : m <= x}
           rank(x) == Cardinality(upto(x))
<1>1. n \in Nat /\ IsFiniteSet(1 .. n) /\ Cardinality(1 .. n) = n
  <2>1. Cardinality(S) \in Nat
    BY FS_CardinalityType
  <2> HIDE DEF n
  <2>2. IsFiniteSet(1 .. n) /\ Cardinality(1 .. n) = IF 1 > n THEN 0 ELSE n - 1 + 1
    <3>1. n \in Int /\ 1 \in Int
      BY <2>1 DEF n
    <3> QED
      BY <3>1, FS_Interval
  <2> QED
    BY <2>1, <2>2 DEF n
<1>2. \A x \in S : upto(x) \in SUBSET S /\ x \in upto(x)
  OBVIOUS
<1>3. \A x \in S : rank(x) \in 1 .. n
  <2> TAKE x \in S
  <2>1. IsFiniteSet(upto(x)) /\ Cardinality(upto(x)) <= n
    BY <1>2, FS_Subset
  <2>2. Cardinality(upto(x)) \in Nat
    BY <2>1, FS_CardinalityType
  <2>3. Cardinality(upto(x)) # 0
    BY <1>2, <2>1, FS_EmptySet
  <2> QED
    BY <1>1, <2>1, <2>2, <2>3
<1>4. \A x, y \in S : x < y => rank(x) # rank(y)
  <2> TAKE x, y \in S
  <2> HAVE x < y
  <2>1. \A m \in S : m <= x => m <= y
    OBVIOUS
  <2>4. ~ (y <= x) /\ y <= y
    OBVIOUS
  <2>5. upto(x) \in SUBSET upto(y) /\ y \notin upto(x) /\ y \in upto(y)
    BY <2>1, <2>4
  <2>2. IsFiniteSet(upto(y))
    BY <1>2, FS_Subset
  <2>3. Cardinality(upto(y)) # Cardinality(upto(x))
    BY <2>2, <2>5, FS_Subset
  <2> QED
    BY <2>3
<1>5. \A x, y \in S : rank(x) = rank(y) => x = y
  <2> TAKE x, y \in S
  <2>1. x < y \/ y < x \/ x = y
    OBVIOUS
  <2> HIDE DEF rank
  <2> QED
    BY <1>4, <2>1
<1>6. \A i \in 1 .. n : \E x \in S : rank(x) = i
  <2> SUFFICES ASSUME NEW i \in 1 .. n, \A x \in S : rank(x) # i PROVE FALSE
    OBVIOUS
  <2> DEFINE T == (1 .. n) \ {i}
             f == [x \in S |-> rank(x)]
  <2>1. IsFiniteSet(T) /\ Cardinality(T) = n - 1
    BY <1>1, FS_RemoveElement, ZenonT(40)
  <2>2. f \in [S -> T]
    BY <1>3
  <2>5. \A x \in S : f[x] = rank(x)
    OBVIOUS
  <2>3. Cardinality(T) < Cardinality(S)
    BY <1>1, <2>1
  <2> HIDE DEF rank, T, f
  <2>4. \E x, y \in S : x # y /\ f[x] = f[y]
    BY <2>1, <2>2, <2>3, FS_PigeonHole, Zenon
  <2> QED
    BY <1>5, <2>4, <2>5
<1>7. InOrder(S) = [i \in 1 .. n |-> CHOOSE x \in S : rank(x) = i]
  BY Zenon DEF InOrder
<1> HIDE DEF rank, n
<1>8. \A i \in 1 .. n : InOrder(S)[i] \in S /\ rank(InOrder(S)[i]) = i
  BY <1>6, <1>7
<1>9. InOrder(S) \in [1 .. n -> S]
  BY <1>7, <1>8
<1>10. InOrder(S) \in Seq(S) /\ Len(InOrder(S)) = n
  <2>1. n \in Nat
    BY <1>1
  <2> QED
    BY <1>9, <2>1
<1>11. \A i, j \in 1 .. Len(InOrder(S)) : InOrder(S)[i] = InOrder(S)[j] => i = j
  BY <1>8, <1>10
<1>12. ASSUME NEW x \in S PROVE \E i \in 1 .. Len(InOrder(S)) : InOrder(S)[i] = x
  <2>1. rank(x) \in 1 .. n
    BY <1>3
  <2>2. InOrder(S)[rank(x)] = x
    BY <1>5, <1>8, <2>1
  <2> QED
    BY <1>10, <2>1, <2>2
<1> QED
  BY <1>10, <1>11, <1>12 DEF n
-----------------------------------------------------------------------------
(* The calls in progress: what is kept for each, and between a call and the one
   that it waits for. *)
FrameFields ==
  {"type", "dec", "msg", "field", "infos", "todo", "reading", "index", "scanning"}

InfoOK(in, info) ==
  /\ DOMAIN info = {"length", "wire_type", "dec"}
  /\ info.length \in Nat /\ info.dec \in Windows(Len(in))

(* The items of n are there, as many as were counted. *)
ItemsOK(f, n) ==
  /\ f.infos[n].length > 0
  /\ TypeOf(f.type, n) \in MessageTypes =>
       /\ DOMAIN f.msg[n] = 1 .. f.infos[n].length
       /\ \A i \in 1 .. f.infos[n].length : DOMAIN f.msg[n][i] = FieldsOf(TypeOf(f.type, n))

FrameOK(in, f) ==
  /\ DOMAIN f = FrameFields
  /\ f.type \in MessageTypes /\ f.dec \in Windows(Len(in))
  /\ DOMAIN f.msg = FieldsOf(f.type) /\ DOMAIN f.infos = RepeatedFields(f.type)
  /\ \A n \in RepeatedFields(f.type) : InfoOK(in, f.infos[n])
  /\ f.scanning \in BOOLEAN /\ f.reading \in BOOLEAN /\ f.index \in Nat
  /\ f.todo \in Seq(RepeatedFields(f.type))
  /\ \A i, j \in 1 .. Len(f.todo) : f.todo[i] = f.todo[j] => i = j
  /\ f.reading => ~ f.scanning /\ f.todo # <<>> /\ ItemsOK(f, f.todo[1])
  /\ ~ f.reading => f.index = 0
  /\ ~ f.scanning => ~ pbtools_decoder_available(f.dec)

(* c is called by f: for an item when f has finished its scan. *)
LinkOK(f, c) ==
  ~ f.scanning => /\ f.reading /\ c.field = f.todo[1]
                  /\ c.type = TypeOf(f.type, c.field) /\ c.type \in MessageTypes
                  /\ f.index < f.infos[c.field].length

(* What a step of a call leaves of its frame. *)
Follows(in, f, g) ==
  /\ FrameOK(in, g) /\ g.field = f.field /\ g.type = f.type /\ Runs(f.dec, g.dec, Len(in))

FramesOK(in, fr) ==
  /\ \E S : fr \in Seq(S)
  /\ \A i \in 1 .. Len(fr) : FrameOK(in, fr[i])
  /\ \A i \in 1 .. Len(fr) - 1 : LinkOK(fr[i], fr[i + 1])

(* An error that ends the run is on its way, and memory refused is one. *)
Failed(f) == ~ Live(f.dec) \/ (f.reading /\ ~ Live(f.infos[f.todo[1]].dec))

OutOfMemory(f) ==
  \/ f.dec.pos = -OUT_OF_MEMORY
  \/ \E n \in RepeatedFields(f.type) : f.infos[n].dec.pos = -OUT_OF_MEMORY

(* The items counted for n, and how many of them were read when the reading pass
   is at info.dec. *)
CountedOK(in, t, n, info) ==
  info.length > 0 =>
    \E q : Reaches(in, TypeOf(t, n), n, FirstTag(in, TypeOf(t, n), info),
                   [dec |-> q, count |-> info.length])

ScannedOK(in, t, n, info, d) ==
  info.length > 0 =>
    \E q : /\ Reaches(in, TypeOf(t, n), n, FirstTag(in, TypeOf(t, n), info),
                      [dec |-> q, count |-> info.length])
           /\ pbtools_decoder_available(d) => q = Canon(d)

ReadOK(in, t, n, length, d, index) ==
  /\ \/ index <= length
     \/ TypeOf(t, n) \in FixedTypes /\ index = length + 1 /\ d.pos = -OUT_OF_DATA
  /\ pbtools_decoder_available(d) =>
       \E q : Reaches(in, TypeOf(t, n), n, [dec |-> Canon(d), count |-> index],
                      [dec |-> q, count |-> length])

CountOK(in, f) ==
  /\ f.scanning => \A n \in RepeatedFields(f.type) : ScannedOK(in, f.type, n, f.infos[n], f.dec)
  /\ ~ f.scanning => \A i \in 1 .. Len(f.todo) :
                       (f.reading => i # 1) => CountedOK(in, f.type, f.todo[i], f.infos[f.todo[i]])
  /\ f.reading => LET info == f.infos[f.todo[1]]
                  IN  ReadOK(in, f.type, f.todo[1], info.length, info.dec, f.index)

(* The same of a call that waits: it goes on behind the window of so many bytes
   of the call that it waits for. *)
WaitOK(in, f, size) ==
  /\ f.scanning => \A n \in RepeatedFields(f.type) :
                     ScannedOK(in, f.type, n, f.infos[n], decoder_seek(f.dec, size))
  /\ ~ f.scanning =>
       /\ \A i \in 2 .. Len(f.todo) : CountedOK(in, f.type, f.todo[i], f.infos[f.todo[i]])
       /\ LET info == f.infos[f.todo[1]]
          IN  ReadOK(in, f.type, f.todo[1], info.length, decoder_seek(info.dec, size), f.index + 1)

CountsOK(in, fr) ==
  /\ fr # <<>> => CountOK(in, fr[Len(fr)])
  /\ \A i \in 1 .. Len(fr) - 1 : WaitOK(in, fr[i], fr[i + 1].dec.size)

MessageInv ==
  /\ input \in Seq(Byte) /\ Len(input) <= IntMax
  /\ root \in Roots /\ DOMAIN message = FieldsOf(root)
  /\ result \in Int /\ decodes \in 0 .. MaxDecodes /\ refused \subseteq {"reported", "silently"}
  /\ FramesOK(input, frames)
  /\ CountsOK(input, frames)
  /\ ~ Idle => frames[1].type = root
  /\ "reported" \in refused => IF Idle THEN result < 0 ELSE \E i \in 1 .. Depth : Failed(frames[i])
  /\ Idle /\ result = -OUT_OF_MEMORY => "reported" \in refused
  /\ \A i \in 1 .. Depth : OutOfMemory(frames[i]) => "reported" \in refused

(* A step of the call on top, a call and a return leave the other calls. *)
Stepped(fr, g) == [fr EXCEPT ![Len(fr)] = g]

Called(fr, g, c) == Append(Stepped(fr, g), c)

Returned(fr, g) == [SubSeq(fr, 1, Len(fr) - 1) EXCEPT ![Len(fr) - 1] = g]

LEMMA StepFrames ==
  ASSUME NEW in, NEW fr, FramesOK(in, fr), fr # <<>>, NEW g, Follows(in, fr[Len(fr)], g)
  PROVE  /\ FramesOK(in, Stepped(fr, g)) /\ Stepped(fr, g) # <<>>
         /\ Len(Stepped(fr, g)) = Len(fr) /\ Stepped(fr, g)[Len(fr)] = g
         /\ \A i \in 1 .. Len(fr) - 1 : Stepped(fr, g)[i] = fr[i]
<1> DEFINE n == Len(fr)
           h == [fr EXCEPT ![n] = g]
<1>1. PICK S : fr \in Seq(S)
  BY DEF FramesOK
<1>2. n \in Nat /\ n > 0 /\ DOMAIN fr = 1 .. n
  BY <1>1
<1>8. /\ \A i \in 1 .. n : FrameOK(in, fr[i])
      /\ \A i \in 1 .. n - 1 : LinkOK(fr[i], fr[i + 1])
      /\ Follows(in, fr[n], g)
  BY DEF FramesOK
<1> HIDE DEF n
<1>3. h \in Seq(S \cup {g}) /\ Len(h) = n
  <2>1. h \in [1 .. n -> S \cup {g}]
    BY <1>1, <1>2
  <2> HIDE DEF h
  <2> QED
    BY <1>2, <2>1
<1>4. h[n] = g /\ \A i \in 1 .. n - 1 : h[i] = fr[i]
  BY <1>2
<1>5. \A i \in 1 .. n : FrameOK(in, h[i])
  <2> TAKE i \in 1 .. n
  <2>1. i = n \/ i \in 1 .. n - 1
    BY <1>2
  <2> QED
    BY <1>4, <1>8, <2>1 DEF Follows
<1>6. \A i \in 1 .. n - 1 : LinkOK(h[i], h[i + 1])
  <2> TAKE i \in 1 .. n - 1
  <2>1. LinkOK(fr[i], fr[i + 1]) /\ h[i] = fr[i]
    BY <1>4, <1>8
  <2>2. CASE i + 1 = n
    BY <1>4, <1>8, <2>1, <2>2 DEF LinkOK, Follows
  <2>3. CASE i + 1 # n
    <3>1. i + 1 \in 1 .. n - 1
      BY <1>2, <2>3
    <3> QED
      BY <1>4, <2>1, <3>1
  <2> QED
    BY <2>2, <2>3
<1>7. h # <<>>
  BY <1>2, <1>3
<1>9. Stepped(fr, g) = h
  BY DEF Stepped, n
<1> HIDE DEF h
<1>10. FramesOK(in, h)
  BY <1>3, <1>5, <1>6 DEF FramesOK
<1> QED
  BY <1>3, <1>4, <1>7, <1>9, <1>10 DEF n

LEMMA CallFrames ==
  ASSUME NEW in, NEW fr, FramesOK(in, fr), fr # <<>>, NEW g, Follows(in, fr[Len(fr)], g),
         NEW c, FrameOK(in, c), LinkOK(g, c)
  PROVE  /\ FramesOK(in, Called(fr, g, c)) /\ Called(fr, g, c) # <<>>
         /\ Len(Called(fr, g, c)) = Len(fr) + 1 /\ Called(fr, g, c)[Len(fr) + 1] = c
         /\ Called(fr, g, c)[Len(fr)] = g
         /\ \A i \in 1 .. Len(fr) - 1 : Called(fr, g, c)[i] = fr[i]
<1> DEFINE n == Len(fr)
           e == Stepped(fr, g)
           h == Append(e, c)
<1>1. /\ FramesOK(in, e) /\ e # <<>> /\ Len(e) = n /\ e[n] = g
      /\ \A i \in 1 .. n - 1 : e[i] = fr[i]
  BY StepFrames
<1> HIDE DEF e
<1>2. PICK S : e \in Seq(S)
  BY <1>1 DEF FramesOK
<1>3. n \in Nat /\ n > 0
  BY <1>1, <1>2
<1>4. h \in Seq(S \cup {c}) /\ Len(h) = n + 1 /\ h[n + 1] = c /\ \A i \in 1 .. n : h[i] = e[i]
  <2>1. e \in Seq(S \cup {c})
    BY <1>2
  <2> HIDE DEF n
  <2> QED
    BY <1>1, <1>3, <2>1
<1> HIDE DEF h
<1>5. \A i \in 1 .. n + 1 : FrameOK(in, h[i])
  <2> TAKE i \in 1 .. n + 1
  <2>1. i = n + 1 \/ i \in 1 .. n
    BY <1>3
  <2> QED
    BY <1>1, <1>4, <2>1 DEF FramesOK
<1>6. \A i \in 1 .. n : LinkOK(h[i], h[i + 1])
  <2> TAKE i \in 1 .. n
  <2>1. CASE i = n
    BY <1>1, <1>3, <1>4, <2>1
  <2>2. CASE i # n
    <3>1. i \in 1 .. n - 1 /\ i + 1 \in 1 .. n
      BY <1>3, <2>2
    <3> QED
      BY <1>1, <1>4, <3>1 DEF FramesOK
  <2> QED
    BY <2>1, <2>2
<1>7. h # <<>> /\ h[n] = g /\ \A i \in 1 .. n - 1 : h[i] = fr[i]
  BY <1>1, <1>3, <1>4
<1>8. FramesOK(in, h)
  <2>1. Len(h) - 1 = n
    BY <1>3, <1>4
  <2> QED
    BY <1>4, <1>5, <1>6, <2>1 DEF FramesOK
<1>9. Called(fr, g, c) = h
  BY DEF Called, h, e
<1> QED
  BY <1>4, <1>7, <1>8, <1>9 DEF n

LEMMA ReturnFrames ==
  ASSUME NEW in, NEW fr, FramesOK(in, fr), Len(fr) > 1, NEW g, Follows(in, fr[Len(fr) - 1], g)
  PROVE  /\ FramesOK(in, Returned(fr, g)) /\ Returned(fr, g) # <<>>
         /\ Len(Returned(fr, g)) = Len(fr) - 1 /\ Returned(fr, g)[Len(fr) - 1] = g
         /\ \A i \in 1 .. Len(fr) - 2 : Returned(fr, g)[i] = fr[i]
<1> DEFINE n == Len(fr) - 1
           e == SubSeq(fr, 1, n)
<1>1. PICK S : fr \in Seq(S)
  BY DEF FramesOK
<1>2. n \in Nat /\ n > 0 /\ Len(fr) = n + 1
  BY <1>1
<1>3. e \in Seq(S) /\ Len(e) = n /\ \A i \in 1 .. n : e[i] = fr[i]
  BY <1>1, <1>2
<1> HIDE DEF e
<1>4. FramesOK(in, e) /\ e # <<>> /\ Follows(in, e[Len(e)], g)
  <2>1. \A i \in 1 .. n : FrameOK(in, e[i])
    BY <1>2, <1>3 DEF FramesOK
  <2>2. \A i \in 1 .. n - 1 : LinkOK(e[i], e[i + 1])
    <3> TAKE i \in 1 .. n - 1
    <3>1. i \in 1 .. n /\ i + 1 \in 1 .. n /\ i \in 1 .. Len(fr) - 1
      BY <1>2
    <3> QED
      BY <1>3, <3>1 DEF FramesOK
  <2>3. e # <<>> /\ e[Len(e)] = fr[n]
    BY <1>2, <1>3
  <2> QED
    BY <1>3, <2>1, <2>2, <2>3 DEF FramesOK
<1> DEFINE h == [e EXCEPT ![n] = g]
<1>5. /\ FramesOK(in, h) /\ h # <<>> /\ Len(h) = n /\ h[n] = g
      /\ \A i \in 1 .. n - 1 : h[i] = e[i]
  <2> DEFINE k == Stepped(e, g)
  <2>1. /\ FramesOK(in, k) /\ k # <<>> /\ Len(k) = Len(e) /\ k[Len(e)] = g
        /\ \A i \in 1 .. Len(e) - 1 : k[i] = e[i]
    <3> HIDE DEF h, n
    <3>1. /\ FramesOK(in, k) /\ k # <<>> /\ Len(k) = Len(e)
          /\ \A i \in 1 .. Len(e) - 1 : k[i] = e[i]
      BY <1>4, StepFrames
    <3>2. k[Len(e)] = g
      BY <1>4, StepFrames
    <3> QED
      BY <3>1, <3>2
  <2>2. k = h /\ Len(e) = n
    BY <1>3 DEF Stepped
  <2> HIDE DEF k, h, n
  <2> QED
    BY <2>1, <2>2
<1>6. \A i \in 1 .. n - 1 : e[i] = fr[i]
  BY <1>2, <1>3
<1>7. n - 1 = Len(fr) - 2
  BY <1>2
<1>8. Returned(fr, g) = h
  BY DEF Returned, e
<1> HIDE DEF h, n
<1>9. \A i \in 1 .. Len(fr) - 2 : Returned(fr, g)[i] = fr[i]
  BY <1>5, <1>6, <1>7, <1>8
<1> QED
  BY <1>5, <1>8, <1>9 DEF n

(* A call that waits is left by the steps of the call that it waits for: an
   error of that one will be its own. *)
LEMMA WaitStill ==
  ASSUME NEW in \in Seq(Byte), NEW f, FrameOK(in, f), NEW c, NEW d, FrameOK(in, c), LinkOK(f, c),
         Follows(in, c, d), WaitOK(in, f, c.dec.size)
  PROVE  WaitOK(in, f, d.dec.size)
<1>1. /\ c.dec \in Windows(Len(in)) /\ d.dec \in Windows(Len(in)) /\ f.dec \in Windows(Len(in))
      /\ Runs(c.dec, d.dec, Len(in))
  BY DEF FrameOK, Follows
<1>2. CASE Live(d.dec)
  <2>1. d.dec.size = c.dec.size
    BY <1>1, <1>2, LiveOrDead DEF Runs
  <2> QED
    BY <2>1
<1>3. CASE ~ Live(d.dec)
  <2> DEFINE size == d.dec.size
  <2>1. size \in Int /\ size < 0 /\ -size \in Errors
    BY <1>1, <1>3, LiveOrDead DEF Dead
  <2> HIDE DEF size
  <2>2. ASSUME NEW e \in Windows(Len(in))
        PROVE  ~ pbtools_decoder_available(decoder_seek(e, size))
    <3>1. decoder_seek(e, size) \in Windows(Len(in)) /\ ~ Live(decoder_seek(e, size))
      BY <2>1, SeekRuns DEF Runs
    <3> QED
      BY <3>1, LiveOrDead
  <2>3. CASE f.scanning
    <3>1. \A n \in RepeatedFields(f.type) : ScannedOK(in, f.type, n, f.infos[n], decoder_seek(f.dec, size))
      BY <1>1, <2>2, <2>3 DEF WaitOK, ScannedOK
    <3> QED
      BY <2>3, <3>1 DEF WaitOK, size
  <2>4. CASE ~ f.scanning
    <3> DEFINE n == f.todo[1]  info == f.infos[n]
    <3>1. f.index < info.length /\ f.reading
      BY <2>4 DEF LinkOK
    <3>2. n \in RepeatedFields(f.type)
      BY <3>1 DEF FrameOK
    <3>3. info.length \in Nat /\ info.dec \in Windows(Len(in)) /\ f.index \in Nat
      BY <3>2 DEF FrameOK, InfoOK
    <3>4. f.index + 1 <= info.length
      BY <3>1, <3>3
    <3>5. ReadOK(in, f.type, n, info.length, decoder_seek(info.dec, size), f.index + 1)
      BY <2>2, <3>3, <3>4 DEF ReadOK
    <3>6. \A i \in 2 .. Len(f.todo) : CountedOK(in, f.type, f.todo[i], f.infos[f.todo[i]])
      BY <2>4 DEF WaitOK
    <3> QED
      BY <2>4, <3>5, <3>6 DEF WaitOK, size
  <2> QED
    BY <2>3, <2>4
<1> QED
  BY <1>2, <1>3

LEMMA StepCounts ==
  ASSUME NEW in \in Seq(Byte), NEW fr, FramesOK(in, fr), CountsOK(in, fr), fr # <<>>,
         NEW g, Follows(in, fr[Len(fr)], g), CountOK(in, g)
  PROVE  CountsOK(in, Stepped(fr, g))
<1> DEFINE n == Len(fr)
           h == Stepped(fr, g)
<1>1. /\ h # <<>> /\ Len(h) = n /\ h[n] = g
      /\ \A i \in 1 .. n - 1 : h[i] = fr[i]
  BY StepFrames
<1>2. n \in Nat /\ n > 0
  BY DEF FramesOK
<1> HIDE DEF h
<1>3. \A i \in 1 .. n - 1 : WaitOK(in, h[i], h[i + 1].dec.size)
  <2> TAKE i \in 1 .. n - 1
  <2>1. WaitOK(in, fr[i], fr[i + 1].dec.size) /\ h[i] = fr[i]
    BY <1>1 DEF CountsOK
  <2>2. CASE i + 1 = n
    <3>1. FrameOK(in, fr[i]) /\ FrameOK(in, fr[i + 1]) /\ LinkOK(fr[i], fr[i + 1])
      BY <1>2 DEF FramesOK
    <3>2. Follows(in, fr[i + 1], h[i + 1])
      BY <1>1, <2>2
    <3> HIDE DEF n
    <3> QED
      BY <2>1, <3>1, <3>2, WaitStill
  <2>3. CASE i + 1 # n
    <3>1. i + 1 \in 1 .. n - 1
      BY <1>2, <2>3
    <3> QED
      BY <1>1, <2>1, <3>1
  <2> QED
    BY <2>2, <2>3
<1> QED
  BY <1>1, <1>3 DEF CountsOK, h

LEMMA CallCounts ==
  ASSUME NEW in \in Seq(Byte), NEW fr, FramesOK(in, fr), CountsOK(in, fr), fr # <<>>,
         NEW g, Follows(in, fr[Len(fr)], g),
         NEW c, FrameOK(in, c), LinkOK(g, c), WaitOK(in, g, c.dec.size), CountOK(in, c)
  PROVE  CountsOK(in, Called(fr, g, c))
<1> DEFINE n == Len(fr)
           h == Called(fr, g, c)
<1>1. /\ h # <<>> /\ Len(h) = n + 1 /\ h[n + 1] = c /\ h[n] = g
      /\ \A i \in 1 .. n - 1 : h[i] = fr[i]
  BY CallFrames
<1>2. n \in Nat /\ n > 0
  BY DEF FramesOK
<1> HIDE DEF h
<1>3. \A i \in 1 .. n : WaitOK(in, h[i], h[i + 1].dec.size)
  <2> TAKE i \in 1 .. n
  <2>1. CASE i = n
    BY <1>1, <2>1
  <2>2. CASE i + 1 = n
    <3>1. /\ FrameOK(in, fr[i]) /\ FrameOK(in, fr[i + 1]) /\ LinkOK(fr[i], fr[i + 1])
          /\ WaitOK(in, fr[i], fr[i + 1].dec.size)
      BY <1>2, <2>2 DEF FramesOK, CountsOK
    <3>2. Follows(in, fr[i + 1], h[i + 1]) /\ h[i] = fr[i]
      BY <1>1, <1>2, <2>2
    <3> HIDE DEF n
    <3> QED
      BY <3>1, <3>2, WaitStill
  <2>3. CASE i # n /\ i + 1 # n
    <3>1. i \in 1 .. n - 1 /\ i + 1 \in 1 .. n - 1
      BY <1>2, <2>3
    <3> QED
      BY <1>1, <3>1 DEF CountsOK
  <2> QED
    BY <2>1, <2>2, <2>3
<1>4. Len(h) - 1 = n
  BY <1>1, <1>2
<1> QED
  BY <1>1, <1>3, <1>4 DEF CountsOK, h

LEMMA ReturnCounts ==
  ASSUME NEW in \in Seq(Byte), NEW fr, FramesOK(in, fr), CountsOK(in, fr), Len(fr) > 1,
         NEW g, Follows(in, fr[Len(fr) - 1], g), CountOK(in, g)
  PROVE  CountsOK(in, Returned(fr, g))
<1> DEFINE n == Len(fr) - 1
           h == Returned(fr, g)
<1>1. /\ h # <<>> /\ Len(h) = n /\ h[n] = g
      /\ \A i \in 1 .. Len(fr) - 2 : h[i] = fr[i]
  BY ReturnFrames
<1>2. n \in Nat /\ n > 0 /\ Len(fr) = n + 1
  BY DEF FramesOK
<1>3. \A i \in 1 .. n - 1 : h[i] = fr[i]
  <2>1. n - 1 = Len(fr) - 2
    BY <1>2
  <2> QED
    BY <1>1, <2>1
<1> HIDE DEF h
<1>4. \A i \in 1 .. n - 1 : WaitOK(in, h[i], h[i + 1].dec.size)
  <2> TAKE i \in 1 .. n - 1
  <2>1. WaitOK(in, fr[i], fr[i + 1].dec.size) /\ h[i] = fr[i]
    BY <1>2, <1>3 DEF CountsOK
  <2>2. CASE i + 1 = n
    <3>1. FrameOK(in, fr[i]) /\ FrameOK(in, fr[i + 1]) /\ LinkOK(fr[i], fr[i + 1])
      BY <1>2 DEF FramesOK
    <3>2. Follows(in, fr[i + 1], h[i + 1])
      BY <1>1, <2>2
    <3> HIDE DEF n
    <3> QED
      BY <2>1, <3>1, <3>2, WaitStill
  <2>3. CASE i + 1 # n
    <3> HIDE DEF n
    <3>1. i + 1 \in 1 .. n - 1
      BY <1>2, <2>3
    <3> QED
      BY <1>3, <2>1, <3>1
  <2> QED
    BY <2>2, <2>3
<1> QED
  BY <1>1, <1>4 DEF CountsOK, h
-----------------------------------------------------------------------------
LEMMA UpToLast ==
  ASSUME NEW n \in Nat, NEW i \in 1 .. n
  PROVE  i = n \/ i \in 1 .. n - 1
OBVIOUS

LEMMA FirstOrLater ==
  ASSUME NEW n \in Nat, n > 0
  PROVE  1 = n \/ 1 \in 1 .. n - 1
OBVIOUS

(* What a step, a call and a return must show of the frames they leave to keep
   the invariant. *)
LEMMA TopIs ==
  ASSUME MessageInv, ~ Idle
  PROVE  /\ Depth \in Nat /\ Depth > 0 /\ FrameOK(input, Top) /\ CountOK(input, Top)
         /\ input \in Seq(Byte) /\ Len(input) <= IntMax
<1>1. Depth \in Nat /\ Depth > 0
  BY DEF MessageInv, FramesOK, Idle, Depth
<1> QED
  BY <1>1 DEF MessageInv, FramesOK, CountsOK, Idle, Depth, Top

LEMMA CallerIs ==
  ASSUME MessageInv, ~ Idle, Depth > 1
  PROVE  /\ FrameOK(input, Caller) /\ LinkOK(Caller, Top) /\ WaitOK(input, Caller, Top.dec.size)
         /\ Depth - 1 \in 1 .. Depth
<1>1. Depth \in Nat /\ Depth - 1 \in 1 .. Depth /\ Depth - 1 \in 1 .. Depth - 1 /\ Depth - 1 + 1 = Depth
  BY TopIs
<1> QED
  BY <1>1 DEF MessageInv, FramesOK, CountsOK, Depth, Top, Caller

LEMMA TopStep ==
  ASSUME MessageInv, ~ Idle, NEW g, Follows(input, Top, g), CountOK(input, g)
  PROVE  LET fr == Stepped(frames, g)
         IN  /\ FramesOK(input, fr) /\ fr # <<>> /\ Len(fr) = Depth /\ fr[Depth] = g
             /\ \A i \in 1 .. Depth - 1 : fr[i] = frames[i]
             /\ CountsOK(input, fr)
<1> DEFINE n == Depth
           fr == Stepped(frames, g)
<1>1. /\ n \in Nat /\ n > 0 /\ Top = frames[n] /\ n = Len(frames) /\ frames # <<>>
      /\ input \in Seq(Byte) /\ FramesOK(input, frames) /\ CountsOK(input, frames)
  BY TopIs DEF MessageInv, Idle, Depth, Top
<1> HIDE DEF n
<1>2. /\ FramesOK(input, fr) /\ fr # <<>> /\ Len(fr) = n /\ fr[n] = g
      /\ \A i \in 1 .. n - 1 : fr[i] = frames[i]
  BY <1>1, StepFrames
<1>3. CountsOK(input, fr)
  BY <1>1, StepCounts
<1> HIDE DEF fr
<1> QED
  BY <1>2, <1>3 DEF fr, n

LEMMA StepKeeps ==
  ASSUME MessageInv, ~ Idle, NEW g, NEW h, NEW how, how = "" \/ how = "reported" \/ how = "silently",
         Step(g, h, how), Follows(input, Top, g), CountOK(input, g),
         Failed(Top) \/ how = "reported" => Failed(g),
         OutOfMemory(g) => OutOfMemory(Top) \/ how = "reported"
  PROVE  MessageInv'
<1> DEFINE n == Depth
<1>1. /\ n \in Nat /\ n > 0 /\ Top = frames[n] /\ n = Len(frames) /\ frames # <<>>
      /\ input \in Seq(Byte) /\ FramesOK(input, frames) /\ CountsOK(input, frames)
  BY TopIs DEF MessageInv, Idle, Depth, Top
<1> HIDE DEF n
<1>2. n \in Nat /\ n > 0
  BY <1>1
<1>3. frames' = Stepped(frames, g)
  BY DEF Step, Stepped, Depth
<1>4. /\ FramesOK(input, frames') /\ frames' # <<>> /\ Len(frames') = n /\ frames'[n] = g
      /\ \A i \in 1 .. n - 1 : frames'[i] = frames[i]
      /\ CountsOK(input, frames')
  BY <1>3, TopStep DEF n
<1>5. /\ input' = input /\ root' = root /\ message' = message /\ result' = result
      /\ decodes' = decodes /\ refused' = IF how = "" THEN refused ELSE refused \cup {how}
  BY DEF Step
<1>6. Depth' = n /\ ~ Idle'
  BY <1>4 DEF Depth, Idle
<1>7. "reported" \in refused' => \E i \in 1 .. n : Failed(frames'[i])
  <2>1. CASE how = "reported"
    BY <1>1, <1>4, <2>1
  <2>2. CASE how # "reported" /\ "reported" \in refused
    <3>1. PICK i \in 1 .. n : Failed(frames[i])
      BY <2>2 DEF MessageInv, n
    <3>2. i = n \/ i \in 1 .. n - 1
      BY <1>2, UpToLast
    <3> QED
      BY <1>1, <1>4, <3>1, <3>2
  <2> QED
    BY <1>5, <2>1, <2>2
<1>8. \A i \in 1 .. n : OutOfMemory(frames'[i]) => "reported" \in refused'
  <2> TAKE i \in 1 .. n
  <2> HAVE OutOfMemory(frames'[i])
  <2>1. OutOfMemory(frames[i]) \/ how = "reported"
    <3>1. i = n \/ i \in 1 .. n - 1
      BY <1>2, UpToLast
    <3> QED
      BY <1>1, <1>4, <3>1
  <2> QED
    BY <1>5, <2>1 DEF MessageInv, n
<1>9. /\ refused' \subseteq {"reported", "silently"} /\ Len(input) <= IntMax
      /\ root \in Roots /\ DOMAIN message = FieldsOf(root)
      /\ result \in Int /\ decodes \in 0 .. MaxDecodes
  BY <1>5 DEF MessageInv
<1>10. frames'[1].type = root
  <2>1. frames[1].type = root /\ g.type = Top.type
    BY DEF MessageInv, Follows
  <2>2. 1 = n \/ 1 \in 1 .. n - 1
    BY <1>2, FirstOrLater
  <2> QED
    BY <1>1, <1>4, <2>1, <2>2
<1> QED
  BY <1>1, <1>4, <1>5, <1>6, <1>7, <1>8, <1>9, <1>10 DEF MessageInv

LEMMA CallKeeps ==
  ASSUME MessageInv, ~ Idle, NEW g, NEW h, NEW n, NEW child, NEW c, c = [child EXCEPT !.field = n],
         Call(g, h, n, child), Follows(input, Top, g),
         FrameOK(input, c), LinkOK(g, c), WaitOK(input, g, c.dec.size), CountOK(input, c),
         Failed(Top) => Failed(g), OutOfMemory(g) => OutOfMemory(Top), ~ OutOfMemory(c)
  PROVE  MessageInv'
<1> DEFINE k == Depth
<1>1. /\ k \in Nat /\ k > 0 /\ Top = frames[k] /\ k = Len(frames) /\ frames # <<>>
      /\ input \in Seq(Byte) /\ FramesOK(input, frames) /\ CountsOK(input, frames)
  BY TopIs DEF MessageInv, Idle, Depth, Top
<1> HIDE DEF k
<1>2. k \in Nat /\ k > 0
  BY <1>1
<1>3. frames' = Called(frames, g, c)
  BY DEF Call, Called, Stepped, Depth
<1>4. /\ FramesOK(input, frames') /\ frames' # <<>> /\ Len(frames') = k + 1 /\ frames'[k + 1] = c
      /\ frames'[k] = g /\ \A i \in 1 .. k - 1 : frames'[i] = frames[i]
  BY <1>1, <1>3, CallFrames, SMTT(40)
<1>5. CountsOK(input, frames')
  BY <1>1, <1>3, CallCounts
<1>6. /\ input' = input /\ root' = root /\ message' = message /\ result' = result
      /\ decodes' = decodes /\ refused' = refused
  BY DEF Call
<1>7. Depth' = k + 1 /\ ~ Idle'
  BY <1>4 DEF Depth, Idle
<1>8. "reported" \in refused => \E i \in 1 .. k + 1 : Failed(frames'[i])
  <2> HAVE "reported" \in refused
  <2>1. PICK i \in 1 .. k : Failed(frames[i])
    BY DEF MessageInv, k
  <2>2. i \in 1 .. k + 1 /\ (i = k \/ i \in 1 .. k - 1)
    BY <1>2
  <2> QED
    BY <1>1, <1>4, <2>1, <2>2
<1>9. \A i \in 1 .. k + 1 : OutOfMemory(frames'[i]) => "reported" \in refused
  <2> TAKE i \in 1 .. k + 1
  <2> HAVE OutOfMemory(frames'[i])
  <2>1. i = k + 1 \/ i = k \/ i \in 1 .. k - 1
    BY <1>2
  <2>2. i \in 1 .. k /\ OutOfMemory(frames[i])
    BY <1>1, <1>4, <2>1
  <2> QED
    BY <2>2 DEF MessageInv, k
<1>10. /\ refused \subseteq {"reported", "silently"} /\ Len(input) <= IntMax
      /\ root \in Roots /\ DOMAIN message = FieldsOf(root)
      /\ result \in Int /\ decodes \in 0 .. MaxDecodes
  BY DEF MessageInv
<1>11. frames'[1].type = root
  <2>1. frames[1].type = root /\ (k = 1 \/ 1 \in 1 .. k - 1) /\ g.type = Top.type
    BY <1>1 DEF MessageInv, Idle, Follows
  <2> QED
    BY <1>1, <1>4, <2>1
<1> QED
  BY <1>1, <1>4, <1>5, <1>6, <1>7, <1>8, <1>9, <1>10, <1>11 DEF MessageInv

LEMMA ReturnKeeps ==
  ASSUME MessageInv, ~ Idle, Depth > 1, NEW g, ReturnTo(g),
         Follows(input, Caller, g), CountOK(input, g),
         Failed(Caller) \/ Failed(Top) => Failed(g),
         OutOfMemory(g) => OutOfMemory(Caller) \/ OutOfMemory(Top)
  PROVE  MessageInv'
<1> DEFINE n == Depth
<1>1. /\ n \in Nat /\ n > 1 /\ Top = frames[n] /\ Caller = frames[n - 1] /\ n = Len(frames)
      /\ input \in Seq(Byte) /\ FramesOK(input, frames) /\ CountsOK(input, frames)
  BY TopIs DEF MessageInv, Depth, Top, Caller
<1> HIDE DEF n
<1>2. n \in Nat /\ n > 1
  BY <1>1
<1>3. frames' = Returned(frames, g)
  BY DEF ReturnTo, Returned, Depth
<1>4. /\ FramesOK(input, frames') /\ frames' # <<>> /\ Len(frames') = n - 1 /\ frames'[n - 1] = g
      /\ \A i \in 1 .. n - 2 : frames'[i] = frames[i]
  <2> DEFINE fr == Returned(frames, g)
  <2>1. /\ FramesOK(input, fr) /\ fr # <<>> /\ Len(fr) = n - 1 /\ fr[n - 1] = g
        /\ \A i \in 1 .. n - 2 : fr[i] = frames[i]
    BY <1>1, ReturnFrames
  <2> QED
    BY <1>3, <2>1
<1>5. CountsOK(input, frames')
  BY <1>1, <1>3, ReturnCounts
<1>6. /\ input' = input /\ root' = root /\ message' = message /\ result' = result
      /\ decodes' = decodes /\ refused' = refused
  BY DEF ReturnTo
<1>7. Depth' = n - 1 /\ ~ Idle'
  BY <1>4 DEF Depth, Idle
<1>8. "reported" \in refused => \E i \in 1 .. n - 1 : Failed(frames'[i])
  <2> HAVE "reported" \in refused
  <2>1. PICK i \in 1 .. n : Failed(frames[i])
    BY DEF MessageInv, n
  <2>2. i = n \/ i = n - 1 \/ (i \in 1 .. n - 2 /\ i \in 1 .. n - 1)
    BY <1>2
  <2>3. n - 1 \in 1 .. n - 1
    BY <1>1
  <2> QED
    BY <1>1, <1>4, <2>1, <2>2, <2>3
<1>9. \A i \in 1 .. n - 1 : OutOfMemory(frames'[i]) => "reported" \in refused
  <2> TAKE i \in 1 .. n - 1
  <2> HAVE OutOfMemory(frames'[i])
  <2>1. i = n - 1 \/ i \in 1 .. n - 2
    BY <1>2
  <2>2. i \in 1 .. n /\ n \in 1 .. n /\ (OutOfMemory(frames[i]) \/ OutOfMemory(frames[n]))
    BY <1>1, <1>4, <2>1
  <2> QED
    BY <2>2 DEF MessageInv, n
<1>10. /\ refused \subseteq {"reported", "silently"} /\ Len(input) <= IntMax
      /\ root \in Roots /\ DOMAIN message = FieldsOf(root)
      /\ result \in Int /\ decodes \in 0 .. MaxDecodes
  BY DEF MessageInv
<1>11. frames'[1].type = root
  <2>1. frames[1].type = root /\ (n = 2 \/ 1 \in 1 .. n - 2) /\ g.type = Caller.type
    BY <1>1 DEF MessageInv, Idle, Follows
  <2>2. n = 2 => n - 1 = 1
    BY <1>1
  <2> QED
    BY <1>1, <1>4, <2>1, <2>2
<1> QED
  BY <1>1, <1>4, <1>5, <1>6, <1>7, <1>8, <1>9, <1>10, <1>11 DEF MessageInv
-----------------------------------------------------------------------------
(* The scan. *)
LEMMA FieldKinds ==
  ASSUME NEW t \in MessageTypes, NEW n \in FieldsOf(t)
  PROVE  TypeOf(t, n) \in LeafTypes \cup MessageTypes /\ n \in Nat \ {0}
BY MessageAssumption

(* The tag of another field brings nothing to n. *)
LEMMA ScanOther ==
  ASSUME NEW in \in Seq(Byte), NEW t \in MessageTypes, NEW n \in RepeatedFields(t),
         NEW d \in Windows(Len(in)), pbtools_decoder_available(d),
         NEW info, InfoOK(in, info), ScannedOK(in, t, n, info, d), NEW e,
         pbtools_decoder_read_tag(in, d).field_number # n,
         pbtools_decoder_available(e) =>
           LET tag == pbtools_decoder_read_tag(in, d)
           IN  e = pbtools_decoder_skip_field(in, tag.dec, tag.wire_type)
  PROVE  ScannedOK(in, t, n, info, e)
<1> DEFINE type == TypeOf(t, n)
           tag == pbtools_decoder_read_tag(in, d)
           skip == pbtools_decoder_skip_field(in, tag.dec, tag.wire_type)
           z == [dec |-> Canon(d), count |-> info.length]
           first == FirstTag(in, type, info)
<1>1. type \in LeafTypes \cup MessageTypes /\ info.length \in Nat
  BY FieldKinds DEF RepeatedFields, InfoOK
<1>2. NextTag(in, type, n, z) = [dec |-> Canon(skip), count |-> info.length]
  BY <1>1, NextTagIs
<1> SUFFICES ASSUME info.length > 0
             PROVE  \E q : /\ Reaches(in, type, n, first, [dec |-> q, count |-> info.length])
                           /\ pbtools_decoder_available(e) => q = Canon(e)
  BY DEF ScannedOK
<1>3. Reaches(in, type, n, first, z)
  BY DEF ScannedOK
<1>4. pbtools_decoder_available(e) => Canon(skip) = Canon(e)
  OBVIOUS
<1> HIDE DEF z, first, skip, type
<1>5. Reaches(in, type, n, first, [dec |-> Canon(skip), count |-> info.length])
  BY <1>2, <1>3, ReachesNext
<1> QED
  BY <1>4, <1>5

LEMMA NextOwn ==
  ASSUME NEW in \in Seq(Byte), NEW d \in Windows(Len(in)), NEW k \in Nat, NEW n,
         NEW type \in LeafTypes \cup MessageTypes
  PROVE  LET tag == pbtools_decoder_read_tag(in, d)
         IN  tag.field_number = n =>
               NextTag(in, type, n, [dec |-> Canon(d), count |-> k])
                 = Sum(CountItems(in, type, tag.dec, tag.wire_type), k)
<1> DEFINE tag == pbtools_decoder_read_tag(in, d)
           c == CountItems(in, type, tag.dec, tag.wire_type)
           e == pbtools_decoder_skip_field(in, tag.dec, tag.wire_type)
           z == NextTag(in, type, n, [dec |-> Canon(d), count |-> k])
<1>1. /\ tag.field_number = n => z = Sum(c, k)
      /\ tag.field_number # n => z = [dec |-> Canon(e), count |-> k]
      /\ z \in Totals(in) /\ z.count >= k
  BY NextTagIs, Zenon
<1> HIDE DEF c, e, z
<1> QED
  BY <1>1 DEF z, c

(* Its own tag brings what CountItems says; the first one is where the reading
   pass will start. *)
LEMMA ScanOwn ==
  ASSUME NEW in \in Seq(Byte), Len(in) <= IntMax, NEW t \in MessageTypes,
         NEW n \in RepeatedFields(t),
         NEW d \in Windows(Len(in)), pbtools_decoder_available(d),
         NEW info, InfoOK(in, info), ScannedOK(in, t, n, info, d),
         pbtools_decoder_read_tag(in, d).field_number = n
  PROVE  LET tag == pbtools_decoder_read_tag(in, d)
             c == CountItems(in, TypeOf(t, n), tag.dec, tag.wire_type)
             i == repeated_info_init_decode(info, tag.dec, tag.wire_type)
             j == [i EXCEPT !.length = @ + c.count]
         IN  /\ InfoOK(in, j) /\ ScannedOK(in, t, n, j, c.dec)
             /\ j.dec.pos = -OUT_OF_MEMORY => info.dec.pos = -OUT_OF_MEMORY
<1> DEFINE type == TypeOf(t, n)
           tag == pbtools_decoder_read_tag(in, d)
           c == CountItems(in, type, tag.dec, tag.wire_type)
           s == decoder_init_slice(tag.dec, decoder_left(tag.dec))
           i == repeated_info_init_decode(info, tag.dec, tag.wire_type)
           j == [i EXCEPT !.length = @ + c.count]
           z == [dec |-> Canon(d), count |-> info.length]
<1>1. type \in LeafTypes \cup MessageTypes /\ info.length \in Nat
  BY FieldKinds DEF RepeatedFields, InfoOK
<1>2. tag.dec \in Windows(Len(in))
  BY TagReads DEF Reads, Runs
<1>3. c.count \in Nat
  BY <1>1, <1>2, CountReads
<1>4. NextTag(in, type, n, z) = Sum(c, info.length)
  BY <1>1, NextOwn
<1>5. CASE info.length > 0
  <2>1. i = info
    BY <1>5 DEF repeated_info_init_decode
  <2>2. /\ DOMAIN j = {"length", "wire_type", "dec"} /\ j.length = info.length + c.count
        /\ j.dec = info.dec /\ j.wire_type = info.wire_type
    BY <2>1 DEF InfoOK
  <2>3. FirstTag(in, type, j) = FirstTag(in, type, info)
    BY <2>2 DEF FirstTag
  <2>4. Reaches(in, type, n, FirstTag(in, type, info), z)
    BY <1>5 DEF ScannedOK
  <2>5. Sum(c, info.length) = [dec |-> Canon(c.dec), count |-> j.length]
    BY <2>2 DEF Sum
  <2> HIDE DEF j, c, type
  <2>6. Reaches(in, type, n, FirstTag(in, type, j), [dec |-> Canon(c.dec), count |-> j.length])
    BY <1>4, <2>3, <2>4, <2>5, ReachesNext
  <2>7. InfoOK(in, j)
    BY <1>1, <1>3, <2>2 DEF InfoOK
  <2>8. ScannedOK(in, t, n, j, c.dec)
    BY <2>6 DEF ScannedOK, type
  <2> QED
    BY <2>2, <2>7, <2>8 DEF j, c, type
<1>6. CASE info.length = 0
  <2>1. i = [info EXCEPT !.dec = s, !.wire_type = tag.wire_type]
    BY <1>6 DEF repeated_info_init_decode
  <2>2. /\ DOMAIN j = {"length", "wire_type", "dec"} /\ j.length = c.count
        /\ j.dec = s /\ j.wire_type = tag.wire_type
    BY <1>3, <1>6, <2>1 DEF InfoOK
  <2>3. /\ s \in Windows(Len(in)) /\ Alike(s, tag.dec) /\ s.pos # -OUT_OF_MEMORY
    <3> DEFINE left == decoder_left(tag.dec)
    <3>1. left \in 0 .. IntMax /\ left <= decoder_left(tag.dec)
      BY <1>2, LiveOrDead, IntAssumption
    <3> HIDE DEF left
    <3>2. /\ s \in Windows(Len(in)) /\ Live(s)
          /\ s = [base |-> tag.dec.base + tag.dec.pos, size |-> left, pos |-> 0]
      BY <1>2, <3>1, SliceRuns DEF left
    <3> HIDE DEF s
    <3>3. decoder_left(s) = left /\ s.base + s.pos = tag.dec.base + tag.dec.pos
      BY <1>2, <3>1, <3>2, LiveOrDead DEF decoder_left
    <3>4. Alike(s, tag.dec)
      BY <1>2, <3>2, <3>3, AlikeIs, LiveOrDead DEF left
    <3>5. s.pos # -OUT_OF_MEMORY
      BY <3>2 DEF OUT_OF_MEMORY
    <3> QED
      BY <3>2, <3>4, <3>5
  <2>4. Sum(CountItems(in, type, s, tag.wire_type), 0) = Sum(c, 0)
    <3>1. /\ Alike(CountItems(in, type, s, tag.wire_type).dec, c.dec)
          /\ CountItems(in, type, s, tag.wire_type).count = c.count
      BY <1>1, <1>2, <2>3, AlikeCount
    <3> QED
      BY <3>1 DEF Sum, Alike
  <2>5. FirstTag(in, type, j) = [dec |-> Canon(c.dec), count |-> j.length]
    BY <1>3, <2>2, <2>4 DEF FirstTag, Sum
  <2> HIDE DEF j, c, type
  <2>6. Reaches(in, type, n, FirstTag(in, type, j), [dec |-> Canon(c.dec), count |-> j.length])
    BY <2>5, ReachesSelf
  <2>7. InfoOK(in, j)
    BY <1>3, <2>2, <2>3 DEF InfoOK
  <2>8. ScannedOK(in, t, n, j, c.dec)
    BY <2>6 DEF ScannedOK, type
  <2> QED
    BY <2>2, <2>3, <2>7, <2>8 DEF j, c, type
<1> QED
  BY <1>1, <1>5, <1>6

LEMMA FreshIs ==
  ASSUME NEW in, NEW f, DOMAIN f = FrameFields, f.type \in MessageTypes,
         f.dec \in Windows(Len(in)), DOMAIN f.msg = FieldsOf(f.type),
         DOMAIN f.infos = RepeatedFields(f.type),
         \A n \in RepeatedFields(f.type) : InfoOK(in, f.infos[n]),
         f.todo \in Seq(RepeatedFields(f.type)),
         \A i, j \in 1 .. Len(f.todo) : f.todo[i] = f.todo[j] => i = j,
         f.reading = FALSE, f.index = 0, f.scanning = TRUE
  PROVE  FrameOK(in, f)
<1>1. f.scanning \in BOOLEAN /\ f.reading \in BOOLEAN
  BY Zenon
<1>2. f.scanning /\ ~ f.reading
  BY Zenon
<1> QED
  BY <1>1, <1>2 DEF FrameOK

LEMMA ScanFrame ==
  ASSUME NEW in, NEW f, FrameOK(in, f), f.scanning, NEW g, DOMAIN g = FrameFields,
         Runs(f.dec, g.dec, Len(in)), g.type = f.type, DOMAIN g.msg = FieldsOf(f.type),
         DOMAIN g.infos = RepeatedFields(f.type),
         \A n \in RepeatedFields(f.type) : InfoOK(in, g.infos[n]),
         g.todo = f.todo, g.reading = f.reading, g.index = f.index, g.scanning = f.scanning
  PROVE  FrameOK(in, g)
<1>1. g.dec \in Windows(Len(in))
  BY DEF Runs
<1>2. /\ g.todo \in Seq(RepeatedFields(g.type))
      /\ \A i, j \in 1 .. Len(g.todo) : g.todo[i] = g.todo[j] => i = j
  BY DEF FrameOK
<1>3. g.type \in MessageTypes /\ g.scanning = TRUE /\ g.reading = FALSE /\ g.index = 0
  BY DEF FrameOK
<1> QED
  BY <1>1, <1>2, <1>3 DEF FrameOK

(* A step of the scan: the decoder at e, a message of the same fields, and the
   items counted in infos. *)
Scanned(f, e, m, infos) == [f EXCEPT !.dec = e, !.msg = m, !.infos = infos]

ScanOK(e, infos) ==
  /\ Runs(Top.dec, e, Len(input))
  /\ DOMAIN infos = RepeatedFields(Top.type)
  /\ \A n \in RepeatedFields(Top.type) :
       /\ InfoOK(input, infos[n]) /\ ScannedOK(input, Top.type, n, infos[n], e)
       /\ infos[n].dec.pos = -OUT_OF_MEMORY => OutOfMemory(Top)

LEMMA ScanKeeps ==
  ASSUME MessageInv, Scanning, NEW e, NEW m, NEW infos, ScanOK(e, infos),
         DOMAIN m = FieldsOf(Top.type),
         NEW h, NEW how, how = "" \/ how = "reported" \/ how = "silently",
         Step(Scanned(Top, e, m, infos), h, how),
         how = "reported" => ~ Live(e), e.pos = -OUT_OF_MEMORY => how = "reported"
  PROVE  MessageInv'
<1> DEFINE g == Scanned(Top, e, m, infos)
<1>1. ~ Idle /\ FrameOK(input, Top) /\ Top.scanning /\ Live(Top.dec) /\ ~ Top.reading
  <2>1. ~ Idle /\ FrameOK(input, Top) /\ Top.scanning
    BY TopIs DEF Scanning
  <2>2. Top.dec \in Windows(Len(input)) /\ ~ Top.reading
    BY <2>1 DEF FrameOK
  <2> QED
    BY <2>1, <2>2, LiveOrDead DEF Scanning
<1>2. /\ DOMAIN g = FrameFields /\ g.dec = e /\ g.type = Top.type /\ g.msg = m
      /\ g.field = Top.field /\ g.infos = infos /\ g.todo = Top.todo
      /\ g.reading = Top.reading /\ g.index = Top.index /\ g.scanning = Top.scanning
  BY <1>1 DEF FrameOK, FrameFields, Scanned
<1> HIDE DEF g
<1>3. FrameOK(input, g)
  BY <1>1, <1>2, ScanFrame DEF ScanOK
<1>4. CountOK(input, g)
  BY <1>1, <1>2 DEF CountOK, ScanOK
<1>5. Follows(input, Top, g)
  BY <1>2, <1>3 DEF Follows, ScanOK
<1>6. Failed(Top) \/ how = "reported" => Failed(g)
  BY <1>1, <1>2 DEF Failed
<1>7. OutOfMemory(g) => OutOfMemory(Top) \/ how = "reported"
  BY <1>2 DEF OutOfMemory, ScanOK
<1> QED
  <2>1. Step(g, h, how)
    BY DEF g
  <2> QED
    BY <1>1, <2>1, <1>4, <1>5, <1>6, <1>7, StepKeeps

LEMMA ScanOn ==
  ASSUME MessageInv, Scanning, NEW e, NEW m, NEW infos, ScanOK(e, infos),
         DOMAIN m = FieldsOf(Top.type), e.pos # -OUT_OF_MEMORY,
         Step(Scanned(Top, e, m, infos), heap, "")
  PROVE  MessageInv'
<1> DEFINE how == ""
<1>1. Step(Scanned(Top, e, m, infos), heap, how) /\ how = "" /\ how # "reported"
  OBVIOUS
<1> HIDE DEF how
<1>2. /\ how = "" \/ how = "reported" \/ how = "silently"
      /\ how = "reported" => ~ Live(e)
      /\ e.pos = -OUT_OF_MEMORY => how = "reported"
  BY <1>1
<1> QED
  BY <1>1, <1>2, ScanKeeps

LEMMA ScanTag ==
  ASSUME MessageInv, Scanning
  PROVE  LET tag == pbtools_decoder_read_tag(input, Top.dec)
         IN  /\ ~ Idle /\ FrameOK(input, Top) /\ Top.scanning /\ Live(Top.dec)
             /\ input \in Seq(Byte) /\ Len(input) <= IntMax
             /\ Top.dec \in Windows(Len(input)) /\ Top.type \in MessageTypes
             /\ Reads(Top.dec, tag.dec, Len(input)) /\ tag.dec \in Windows(Len(input))
             /\ \A n \in RepeatedFields(Top.type) :
                  /\ InfoOK(input, Top.infos[n])
                  /\ ScannedOK(input, Top.type, n, Top.infos[n], Top.dec)
                  /\ Top.infos[n].dec.pos = -OUT_OF_MEMORY => OutOfMemory(Top)
<1> DEFINE tag == pbtools_decoder_read_tag(input, Top.dec)
<1>1. /\ ~ Idle /\ FrameOK(input, Top) /\ CountOK(input, Top) /\ Top.scanning
      /\ input \in Seq(Byte) /\ Len(input) <= IntMax
  BY TopIs DEF Scanning
<1>2. Top.dec \in Windows(Len(input)) /\ Top.type \in MessageTypes
  BY <1>1 DEF FrameOK
<1>3. Live(Top.dec)
  BY <1>2, LiveOrDead DEF Scanning
<1>4. Reads(Top.dec, tag.dec, Len(input)) /\ tag.dec \in Windows(Len(input))
  BY <1>1, <1>2, TagReads DEF Reads, Runs
<1>5. \A n \in RepeatedFields(Top.type) :
        /\ InfoOK(input, Top.infos[n])
        /\ ScannedOK(input, Top.type, n, Top.infos[n], Top.dec)
        /\ Top.infos[n].dec.pos = -OUT_OF_MEMORY => OutOfMemory(Top)
  BY <1>1, SMTT(40) DEF FrameOK, CountOK, OutOfMemory
<1> HIDE DEF tag
<1> QED
  BY <1>1, <1>2, <1>3, <1>4, <1>5 DEF tag

(* Nothing else of a frame changes when its decoder moves on. *)
LEMMA SameFrame ==
  ASSUME NEW f, DOMAIN f = FrameFields, NEW e
  PROVE  /\ [f EXCEPT !.dec = e] = Scanned(f, e, f.msg, f.infos)
         /\ \A m : [f EXCEPT !.dec = e, !.msg = m] = Scanned(f, e, m, f.infos)
BY DEF FrameFields, Scanned

(* A decoder behind the field of the tag that was read. *)
LEMMA ScanOthers ==
  ASSUME MessageInv, Scanning, NEW e,
         LET tag == pbtools_decoder_read_tag(input, Top.dec)
         IN  /\ Runs(tag.dec, e, Len(input))
             /\ tag.field_number \notin RepeatedFields(Top.type)
             /\ pbtools_decoder_available(e) =>
                  e = pbtools_decoder_skip_field(input, tag.dec, tag.wire_type)
  PROVE  ScanOK(e, Top.infos) /\ DOMAIN Top.msg = FieldsOf(Top.type) /\ DOMAIN Top = FrameFields
<1> DEFINE tag == pbtools_decoder_read_tag(input, Top.dec)
<1>1. /\ FrameOK(input, Top) /\ input \in Seq(Byte) /\ Top.dec \in Windows(Len(input))
      /\ Top.type \in MessageTypes /\ Runs(Top.dec, tag.dec, Len(input))
      /\ \A n \in RepeatedFields(Top.type) :
           /\ InfoOK(input, Top.infos[n])
           /\ ScannedOK(input, Top.type, n, Top.infos[n], Top.dec)
           /\ Top.infos[n].dec.pos = -OUT_OF_MEMORY => OutOfMemory(Top)
  BY ScanTag DEF Reads
<1>2. pbtools_decoder_available(Top.dec)
  BY DEF Scanning
<1>3. \A n \in RepeatedFields(Top.type) : ScannedOK(input, Top.type, n, Top.infos[n], e)
  <2> TAKE n \in RepeatedFields(Top.type)
  <2>1. tag.field_number # n
    OBVIOUS
  <2> QED
    BY <1>1, <1>2, <2>1, ScanOther
<1>4. Runs(Top.dec, e, Len(input))
  <2> DEFINE d == Top.dec  u == tag.dec
  <2>1. d \in Windows(Len(input)) /\ Runs(d, u, Len(input)) /\ Runs(u, e, Len(input))
    BY <1>1
  <2> HIDE DEF d, u
  <2> QED
    BY <2>1, RunsOn DEF d
<1>5. /\ DOMAIN Top.msg = FieldsOf(Top.type) /\ DOMAIN Top.infos = RepeatedFields(Top.type)
      /\ DOMAIN Top = FrameFields
  BY <1>1 DEF FrameOK
<1> QED
  BY <1>1, <1>3, <1>4, <1>5 DEF ScanOK

LEMMA SkipUnknownKeeps ==
  ASSUME MessageInv, Scanning, SkipUnknown(pbtools_decoder_read_tag(input, Top.dec))
  PROVE  MessageInv'
<1> DEFINE tag == pbtools_decoder_read_tag(input, Top.dec)
           e == pbtools_decoder_skip_field(input, tag.dec, tag.wire_type)
           g == Scanned(Top, e, Top.msg, Top.infos)
<1>1. tag.field_number \notin RepeatedFields(Top.type)
  BY DEF SkipUnknown, RepeatedFields
<1>2. /\ tag.dec \in Windows(Len(input)) /\ Reads(Top.dec, tag.dec, Len(input)) /\ Live(Top.dec)
      /\ input \in Seq(Byte) /\ Top.dec \in Windows(Len(input))
  BY ScanTag
<1>3. Reads(tag.dec, e, Len(input))
  BY <1>2, SkipReads
<1>4. Step([Top EXCEPT !.dec = e], heap, "")
  BY DEF SkipUnknown
<1>5. e.pos # -OUT_OF_MEMORY
  BY <1>2, <1>3, LiveOrDead DEF Reads, OUT_OF_MEMORY
<1>6. Runs(tag.dec, e, Len(input))
  BY <1>3 DEF Reads
<1> HIDE DEF e
<1>7. ScanOK(e, Top.infos) /\ DOMAIN Top.msg = FieldsOf(Top.type) /\ DOMAIN Top = FrameFields
  BY <1>1, <1>6, ScanOthers DEF e
<1>8. Step(g, heap, "")
  BY <1>4, <1>7, SameFrame
<1> QED
  BY <1>5, <1>7, <1>8, ScanOn

LEMMA DecodeLeafKeeps ==
  ASSUME MessageInv, Scanning, DecodeLeaf(pbtools_decoder_read_tag(input, Top.dec))
  PROVE  MessageInv'
<1> DEFINE tag == pbtools_decoder_read_tag(input, Top.dec)
           n == tag.field_number
           type == TypeOf(Top.type, n)
           r == ReadLeaf(input, type, tag.dec, heap, tag.wire_type, FALSE)
           m == Assign(Top.type, Top.msg, n, <<r.value>>)
           g == Scanned(Top, r.dec, m, Top.infos)
<1>1. n \notin RepeatedFields(Top.type) /\ type \in LeafTypes
  BY DEF DecodeLeaf, IsLeaf, IsRepeated
<1>2. /\ tag.dec \in Windows(Len(input)) /\ Reads(Top.dec, tag.dec, Len(input)) /\ Live(Top.dec)
      /\ input \in Seq(Byte) /\ Top.dec \in Windows(Len(input))
  BY ScanTag
<1>3. /\ LeafRead(tag.dec, r, Len(input))
      /\ Live(r.dec) => /\ r.dec = pbtools_decoder_skip_field(input, tag.dec, tag.wire_type)
                        /\ tag.wire_type = WireTypeOf(type)
  <2> DEFINE d == tag.dec  w == tag.wire_type
             x == ReadLeaf(input, type, d, heap, w, FALSE)
  <2>1. type \in LeafTypes /\ d \in Windows(Len(input)) /\ input \in Seq(Byte)
    BY <1>1, <1>2
  <2> HIDE DEF d, w, type
  <2>2. /\ LeafRead(d, x, Len(input))
        /\ Live(x.dec) => /\ x.dec = pbtools_decoder_skip_field(input, d, w)
                          /\ w = WireTypeOf(type)
    BY <2>1, LeafReads, Zenon
  <2> QED
    BY <2>2 DEF d, w
<1>4. Step([Top EXCEPT !.dec = r.dec, !.msg = m], r.heap, r.refused)
  BY DEF DecodeLeaf
<1> HIDE DEF r
<1>5. /\ Runs(tag.dec, r.dec, Len(input))
      /\ r.refused = "" \/ r.refused = "reported" \/ r.refused = "silently"
      /\ r.refused = "reported" => ~ Live(r.dec)
      /\ r.dec.pos = -OUT_OF_MEMORY => r.refused = "reported"
  <2> DEFINE d == Top.dec  u == tag.dec
  <2>1. d \in Windows(Len(input)) /\ Live(d) /\ Reads(d, u, Len(input)) /\ LeafRead(u, r, Len(input))
    BY <1>2, <1>3
  <2> HIDE DEF d, u
  <2>2. u.pos # -OUT_OF_MEMORY
    BY <2>1, LiveOrDead DEF Reads, OUT_OF_MEMORY
  <2> QED
    BY <2>1, <2>2 DEF LeafRead, u
<1>6. pbtools_decoder_available(r.dec) => r.dec = pbtools_decoder_skip_field(input, tag.dec, tag.wire_type)
  BY <1>3, <1>5, LiveOrDead DEF Runs
<1>7. /\ ScanOK(r.dec, Top.infos)
      /\ DOMAIN Top.msg = FieldsOf(Top.type) /\ DOMAIN Top = FrameFields
  BY <1>1, <1>5, <1>6, ScanOthers
<1>8. DOMAIN m = FieldsOf(Top.type)
  BY DEF Assign
<1> HIDE DEF m
<1>9. Step(g, r.heap, r.refused)
  BY <1>4, <1>7, SameFrame
<1> QED
  BY <1>5, <1>7, <1>8, <1>9, ScanKeeps

LEMMA repeated_info_decodeKeeps ==
  ASSUME MessageInv, Scanning, repeated_info_decode(pbtools_decoder_read_tag(input, Top.dec))
  PROVE  MessageInv'
<1> DEFINE tag == pbtools_decoder_read_tag(input, Top.dec)
           n == tag.field_number
           t == Top.type
           old == Top.infos[n]
           i == repeated_info_init_decode(old, tag.dec, tag.wire_type)
           c == CountItems(input, TypeOf(t, n), tag.dec, tag.wire_type)
           j == [i EXCEPT !.length = @ + c.count]
           infos == [Top.infos EXCEPT ![n] = j]
           g == Scanned(Top, c.dec, Top.msg, infos)
<1>1. n \in RepeatedFields(t)
  BY DEF repeated_info_decode, IsRepeated
<1>2. /\ tag.dec \in Windows(Len(input)) /\ Reads(Top.dec, tag.dec, Len(input)) /\ Live(Top.dec)
      /\ input \in Seq(Byte) /\ Len(input) <= IntMax /\ Top.dec \in Windows(Len(input))
      /\ t \in MessageTypes /\ FrameOK(input, Top)
      /\ \A k \in RepeatedFields(t) :
           /\ InfoOK(input, Top.infos[k]) /\ ScannedOK(input, t, k, Top.infos[k], Top.dec)
           /\ Top.infos[k].dec.pos = -OUT_OF_MEMORY => OutOfMemory(Top)
  BY ScanTag
<1>3. /\ Reads(tag.dec, c.dec, Len(input))
      /\ Live(c.dec) => c.dec = pbtools_decoder_skip_field(input, tag.dec, tag.wire_type)
  <2>1. TypeOf(t, n) \in LeafTypes \cup MessageTypes
    BY <1>1, <1>2, FieldKinds DEF RepeatedFields
  <2> QED
    BY <1>2, <2>1, CountReads
<1>4. Step([Top EXCEPT !.dec = c.dec, !.infos[n] = j], heap, "")
  BY DEF repeated_info_decode
<1>5. pbtools_decoder_available(Top.dec)
  BY DEF Scanning
<1>6. /\ InfoOK(input, j) /\ ScannedOK(input, t, n, j, c.dec)
      /\ j.dec.pos = -OUT_OF_MEMORY => old.dec.pos = -OUT_OF_MEMORY
  BY <1>1, <1>2, <1>5, ScanOwn
<1>7. \A k \in RepeatedFields(t) : k # n => ScannedOK(input, t, k, Top.infos[k], c.dec)
  <2> TAKE k \in RepeatedFields(t)
  <2> HAVE k # n
  <2>1. c.dec \in Windows(Len(input))
    BY <1>3 DEF Reads, Runs
  <2>2. pbtools_decoder_available(c.dec) =>
          c.dec = pbtools_decoder_skip_field(input, tag.dec, tag.wire_type)
    BY <1>3, <2>1, LiveOrDead
  <2> HIDE DEF c
  <2> QED
    BY <1>2, <1>5, <2>2, ScanOther
<1>8. /\ c.dec.pos # -OUT_OF_MEMORY /\ Runs(Top.dec, c.dec, Len(input))
  <2> DEFINE d == Top.dec  u == tag.dec  e == c.dec
  <2>1. d \in Windows(Len(input)) /\ Live(d) /\ Reads(d, u, Len(input)) /\ Reads(u, e, Len(input))
    BY <1>2, <1>3
  <2> HIDE DEF d, u, e
  <2>2. Reads(d, e, Len(input))
    BY <2>1, ReadsOn
  <2>3. e.pos # -OUT_OF_MEMORY /\ Runs(d, e, Len(input))
    BY <2>1, <2>2, LiveOrDead DEF Reads, OUT_OF_MEMORY
  <2> QED
    BY <2>3 DEF d, e
<1> HIDE DEF c, j
<1>9. /\ DOMAIN Top = FrameFields /\ DOMAIN Top.msg = FieldsOf(t)
      /\ DOMAIN infos = RepeatedFields(t)
      /\ infos[n] = j /\ \A k \in RepeatedFields(t) : k # n => infos[k] = Top.infos[k]
  BY <1>1, <1>2 DEF FrameOK
<1>10. Step(g, heap, "")
  <2> DEFINE f == Top  e == c.dec  k == n
  <2>1. Step([f EXCEPT !.dec = e, !.infos[k] = j], heap, "") /\ DOMAIN f = FrameFields
    BY <1>4, <1>9
  <2> HIDE DEF f, e, k
  <2>2. [f EXCEPT !.dec = e, !.infos[k] = j] = Scanned(f, e, f.msg, [f.infos EXCEPT ![k] = j])
    BY <2>1 DEF FrameFields, Scanned
  <2>3. Step(Scanned(f, e, f.msg, [f.infos EXCEPT ![k] = j]), heap, "")
    BY <2>1, <2>2
  <2> QED
    BY <2>3 DEF f, e, k
<1> HIDE DEF infos
<1>11. \A k \in RepeatedFields(t) :
         /\ InfoOK(input, infos[k]) /\ ScannedOK(input, t, k, infos[k], c.dec)
         /\ infos[k].dec.pos = -OUT_OF_MEMORY => OutOfMemory(Top)
  <2> TAKE k \in RepeatedFields(t)
  <2>1. CASE k = n
    BY <1>1, <1>2, <1>6, <1>9, <2>1
  <2>2. CASE k # n
    BY <1>2, <1>7, <1>9, <2>2
  <2> QED
    BY <2>1, <2>2
<1>12. ScanOK(c.dec, infos)
  BY <1>8, <1>9, <1>11 DEF ScanOK
<1> QED
  BY <1>8, <1>9, <1>10, <1>12, ScanOn
-----------------------------------------------------------------------------
(* A call for a sub-message: a frame that has only begun, and the window that the
   caller goes on behind. *)
Started(t, d, m, n) == [Frame(t, d, m) EXCEPT !.field = n]

LEMMA FreshFrame ==
  ASSUME NEW in, NEW t \in MessageTypes, NEW d \in Windows(Len(in)), d.pos # -OUT_OF_MEMORY,
         NEW m, DOMAIN m = FieldsOf(t), NEW n
  PROVE  LET c == Started(t, d, m, n)
         IN  /\ FrameOK(in, c) /\ CountOK(in, c) /\ ~ OutOfMemory(c)
             /\ c.dec = d /\ c.type = t /\ c.field = n /\ c.scanning
<1> DEFINE c == Started(t, d, m, n)
           infos == [k \in RepeatedFields(t) |-> Info(d)]
<1>1. /\ DOMAIN c = FrameFields /\ c.type = t /\ c.dec = d /\ c.msg = m /\ c.field = n
      /\ c.infos = infos /\ c.todo = <<>> /\ c.reading = FALSE /\ c.index = 0 /\ c.scanning = TRUE
  BY DEF Frame, FrameFields, Started
<1> HIDE DEF c
<1>2. DOMAIN infos = RepeatedFields(t) /\ \A k \in RepeatedFields(t) : infos[k] = Info(d)
  OBVIOUS
<1> HIDE DEF infos
<1>3. /\ InfoOK(in, Info(d)) /\ Info(d).length = 0 /\ Info(d).dec = d
  BY DEF InfoOK, Info
<1>4. FrameOK(in, c)
  <2>1. c.todo \in Seq(RepeatedFields(t)) /\ \A i, j \in 1 .. Len(c.todo) : c.todo[i] = c.todo[j] => i = j
    BY <1>1
  <2>2. /\ c.type \in MessageTypes /\ c.dec \in Windows(Len(in)) /\ DOMAIN c.msg = FieldsOf(c.type)
        /\ DOMAIN c.infos = RepeatedFields(c.type)
        /\ \A k \in RepeatedFields(c.type) : InfoOK(in, c.infos[k])
    BY <1>1, <1>2, <1>3
  <2>3. /\ c.todo \in Seq(RepeatedFields(c.type))
        /\ \A i, j \in 1 .. Len(c.todo) : c.todo[i] = c.todo[j] => i = j
    BY <1>1, <2>1
  <2>4. DOMAIN c = FrameFields /\ c.reading = FALSE /\ c.index = 0 /\ c.scanning = TRUE
    BY <1>1
  <2> QED
    BY <2>2, <2>3, <2>4, FreshIs
<1>5. CountOK(in, c)
  BY <1>1, <1>2, <1>3 DEF CountOK, ScannedOK
<1>6. ~ OutOfMemory(c)
  BY <1>1, <1>2, <1>3 DEF OutOfMemory
<1> QED
  BY <1>1, <1>4, <1>5, <1>6 DEF c

LEMMA SubWindow ==
  ASSUME NEW in \in Seq(Byte), NEW d \in Windows(Len(in)), NEW wire_type
  PROVE  LET r == decoder_read_length_delimited(in, d, wire_type)
             s == decoder_init_slice(r.dec, int(r.value))
             e == decoder_seek(r.dec, s.size)
         IN  /\ Reads(d, r.dec, Len(in))
             /\ s \in Windows(Len(in)) /\ s.pos # -OUT_OF_MEMORY
             /\ e \in Windows(Len(in))
             /\ Live(e) => /\ wire_type = LENGTH_DELIMITED
                           /\ e = pbtools_decoder_skip_field(in, d, wire_type)
<1> DEFINE r == decoder_read_length_delimited(in, d, wire_type)
           v == r.value
           u == r.dec
           s == decoder_init_slice(u, int(v))
           e == decoder_seek(u, s.size)
<1>1. /\ v \in 0 .. IntMax - 1 /\ int(v) = v /\ Reads(d, u, Len(in)) /\ u \in Windows(Len(in))
      /\ Live(u) => wire_type = LENGTH_DELIMITED
  BY LengthReads DEF Reads, Runs
<1>2. wire_type = LENGTH_DELIMITED => pbtools_decoder_skip_field(in, d, wire_type) = decoder_seek(u, v)
  BY SkipIs
<1> HIDE DEF v, u
<1>3. s \in Windows(Len(in)) /\ (Live(s) <=> v <= decoder_left(u))
  BY <1>1, SliceRuns, IntAssumption
<1>4. s.pos # -OUT_OF_MEMORY /\ (Live(s) => s.size = v)
  BY <1>1, <1>3, LiveOrDead DEF decoder_init_slice, Slice, OUT_OF_MEMORY, OUT_OF_DATA
<1>5. s.size \in Int /\ (s.size >= 0 \/ -s.size \in Errors) /\ (~ Live(s) => s.size < 0)
  BY <1>3, LiveOrDead DEF Dead, Live
<1> HIDE DEF s
<1>6. e \in Windows(Len(in)) /\ (Live(e) => Live(u) /\ 0 <= s.size)
  BY <1>1, <1>5, SeekRuns DEF Runs
<1>7. Live(e) => wire_type = LENGTH_DELIMITED /\ e = pbtools_decoder_skip_field(in, d, wire_type)
  BY <1>1, <1>2, <1>4, <1>5, <1>6
<1> QED
  BY <1>1, <1>3, <1>4, <1>6, <1>7 DEF v, u, s

LEMMA sub_message_decodeKeeps ==
  ASSUME MessageInv, Scanning,
         pbtools_decoder_sub_message_decode(pbtools_decoder_read_tag(input, Top.dec))
  PROVE  MessageInv'
<1> DEFINE tag == pbtools_decoder_read_tag(input, Top.dec)
           n == tag.field_number
           type == TypeOf(Top.type, n)
           a == heap_alloc(heap, SizeOf[type], WordAlign)
           r == decoder_read_length_delimited(input, tag.dec, tag.wire_type)
           s == decoder_init_slice(r.dec, int(r.value))
           lost == IF InOneof(Top.type, n)
                   THEN Assign(Top.type, Top.msg, n, <<Dangling(type)>>) ELSE Top.msg
           d == decoder_abort(tag.dec, OUT_OF_MEMORY)
           child == SubFrame(type, r, EmptyMessage(type))
           g == [Top EXCEPT !.dec = r.dec]
           c == [child EXCEPT !.field = n]
<1>1. n \notin RepeatedFields(Top.type) /\ type \in MessageTypes
  BY DEF pbtools_decoder_sub_message_decode, IsSubMessage, IsRepeated
<1>2. /\ tag.dec \in Windows(Len(input)) /\ Reads(Top.dec, tag.dec, Len(input)) /\ Live(Top.dec)
      /\ input \in Seq(Byte) /\ Top.dec \in Windows(Len(input)) /\ Top.scanning
      /\ ~ Idle /\ FrameOK(input, Top)
  BY ScanTag
<1>3. CASE a.addr = NULL
  <2>1. Step([Top EXCEPT !.dec = d, !.msg = lost], a.heap, "reported")
    BY <1>3 DEF pbtools_decoder_sub_message_decode
  <2>2. Runs(tag.dec, d, Len(input)) /\ ~ Live(d)
    <3>1. OUT_OF_MEMORY \in Errors
      BY DEF OUT_OF_MEMORY, Errors
    <3>2. Runs(tag.dec, d, Len(input)) /\ Dead(d)
      BY <1>2, <3>1, AbortRuns
    <3> QED
      BY <3>2, LiveOrDead DEF Runs
  <2> HIDE DEF d
  <2>3. ~ pbtools_decoder_available(d)
    BY <2>2, LiveOrDead DEF Runs
  <2>4. ScanOK(d, Top.infos) /\ DOMAIN Top.msg = FieldsOf(Top.type) /\ DOMAIN Top = FrameFields
    BY <1>1, <2>2, <2>3, ScanOthers
  <2>5. DOMAIN lost = FieldsOf(Top.type)
    BY <2>4 DEF Assign
  <2> HIDE DEF lost
  <2>6. Step(Scanned(Top, d, lost, Top.infos), a.heap, "reported")
    BY <2>1, <2>4, SameFrame
  <2> DEFINE how == "reported"  h == a.heap
  <2>7. /\ how = "" \/ how = "reported" \/ how = "silently"
        /\ how = "reported" => ~ Live(d)
        /\ d.pos = -OUT_OF_MEMORY => how = "reported"
        /\ Step(Scanned(Top, d, lost, Top.infos), h, how)
    BY <2>2, <2>6
  <2> HIDE DEF how, h
  <2> QED
    BY <2>4, <2>5, <2>7, ScanKeeps
<1>4. CASE a.addr # NULL
  <2>1. Call(g, a.heap, n, child)
    BY <1>4 DEF pbtools_decoder_sub_message_decode
  <2>2. /\ Reads(tag.dec, r.dec, Len(input)) /\ s \in Windows(Len(input)) /\ s.pos # -OUT_OF_MEMORY
        /\ decoder_seek(r.dec, s.size) \in Windows(Len(input))
        /\ Live(decoder_seek(r.dec, s.size)) =>
             /\ tag.wire_type = LENGTH_DELIMITED
             /\ decoder_seek(r.dec, s.size)
                  = pbtools_decoder_skip_field(input, tag.dec, tag.wire_type)
    BY <1>2, SubWindow
  <2>3. child = Frame(type, s, EmptyMessage(type))
    BY DEF SubFrame
  <2> HIDE DEF r, s, child
  <2>4. DOMAIN EmptyMessage(type) = FieldsOf(type)
    BY DEF EmptyMessage
  <2>5. /\ FrameOK(input, c) /\ CountOK(input, c) /\ ~ OutOfMemory(c)
        /\ c.dec = s
    <3> DEFINE b == Started(type, s, EmptyMessage(type), n)
    <3>1. /\ FrameOK(input, b) /\ CountOK(input, b) /\ ~ OutOfMemory(b)
          /\ b.dec = s
      BY <1>1, <2>2, <2>4, FreshFrame
    <3>2. c = b
      BY <2>3 DEF Started
    <3> QED
      BY <3>1, <3>2
  <2>6. Reads(Top.dec, r.dec, Len(input)) /\ r.dec.pos # -OUT_OF_MEMORY
    <3> DEFINE f == Top.dec  u == tag.dec  v == r.dec
    <3>1. f \in Windows(Len(input)) /\ Live(f) /\ Reads(f, u, Len(input)) /\ Reads(u, v, Len(input))
      BY <1>2, <2>2
    <3> HIDE DEF f, u, v
    <3>2. Reads(f, v, Len(input))
      BY <3>1, ReadsOn
    <3>3. v.pos # -OUT_OF_MEMORY
      BY <3>1, <3>2, LiveOrDead DEF Reads, OUT_OF_MEMORY
    <3> QED
      BY <3>2, <3>3 DEF f, v
  <2>7. /\ DOMAIN g = FrameFields /\ g.dec = r.dec /\ g.type = Top.type /\ g.msg = Top.msg
        /\ g.field = Top.field /\ g.infos = Top.infos /\ g.todo = Top.todo
        /\ g.reading = Top.reading /\ g.index = Top.index /\ g.scanning = Top.scanning
    BY <1>2 DEF FrameOK, FrameFields
  <2> HIDE DEF g, c
  <2>8. Follows(input, Top, g)
    <3>1. /\ DOMAIN Top.msg = FieldsOf(Top.type) /\ DOMAIN Top.infos = RepeatedFields(Top.type)
          /\ \A k \in RepeatedFields(Top.type) : InfoOK(input, Top.infos[k])
      BY <1>2 DEF FrameOK
    <3>2. FrameOK(input, g)
      BY <1>2, <2>6, <2>7, <3>1, ScanFrame DEF Reads
    <3> QED
      BY <2>6, <2>7, <3>2 DEF Follows, Reads
  <2>9. LinkOK(g, c)
    BY <1>2, <2>7 DEF LinkOK
  <2>10. WaitOK(input, g, c.dec.size)
    <3> DEFINE e == decoder_seek(r.dec, s.size)
    <3>1. Runs(tag.dec, e, Len(input))
      <4>1. /\ r.dec \in Windows(Len(input)) /\ Runs(tag.dec, r.dec, Len(input))
        BY <2>2 DEF Reads, Runs
      <4>2. s.size \in Int /\ (s.size >= 0 \/ -s.size \in Errors)
        BY <2>2, LiveOrDead DEF Dead, Live
      <4>3. Runs(r.dec, e, Len(input))
        BY <4>1, <4>2, SeekRuns
      <4> DEFINE u == tag.dec  v == r.dec
      <4> HIDE DEF u, v, e
      <4> QED
        BY <1>2, <4>1, <4>3, RunsOn DEF u, v
    <3>2. pbtools_decoder_available(e) =>
            e = pbtools_decoder_skip_field(input, tag.dec, tag.wire_type)
      BY <2>2, LiveOrDead
    <3> HIDE DEF e
    <3>3. ScanOK(e, Top.infos)
      BY <1>1, <3>1, <3>2, ScanOthers
    <3> QED
      BY <1>2, <2>5, <2>7, <3>3 DEF WaitOK, ScanOK, e
  <2>11. ~ Failed(Top)
    BY <1>2 DEF Failed, FrameOK
  <2>12. OutOfMemory(g) => OutOfMemory(Top)
    BY <2>6, <2>7 DEF OutOfMemory
  <2> QED
    BY <1>2, <2>1, <2>5, <2>8, <2>9, <2>10, <2>11, <2>12, CallKeeps DEF c
<1> QED
  BY <1>3, <1>4
-----------------------------------------------------------------------------
(* The finalizers. *)
LEMMA RunsNothing ==
  ASSUME NEW total, NEW d \in Windows(total), ~ pbtools_decoder_available(d), NEW e, Runs(d, e, total)
  PROVE  ~ pbtools_decoder_available(e)
<1>1. e \in Windows(total)
  BY DEF Runs
<1>2. CASE Dead(d)
  BY <1>2 DEF Runs
<1>3. CASE Live(d)
  <2>1. /\ d.size \in Int /\ d.pos \in Int /\ e.size \in Int /\ e.pos \in Int /\ d.pos >= d.size
        /\ Dead(e) \/ (e.size = d.size /\ d.pos <= e.pos)
    BY <1>1, <1>3, LiveOrDead DEF Runs, pbtools_decoder_available
  <2> QED
    BY <2>1 DEF Dead, pbtools_decoder_available
<1> QED
  BY <1>2, <1>3, LiveOrDead

(* A frame that goes from one finalizer to the next. *)
Done(f, e, m) ==
  [f EXCEPT !.dec = e, !.msg = m, !.todo = Tail(f.todo), !.reading = FALSE, !.index = 0]

LEMMA DoneIs ==
  ASSUME NEW in, NEW f, FrameOK(in, f), CountOK(in, f), ~ f.scanning, f.todo # <<>>,
         NEW e, Runs(f.dec, e, Len(in)), NEW m, DOMAIN m = FieldsOf(f.type)
  PROVE  LET g == Done(f, e, m)
         IN  /\ Follows(in, f, g) /\ CountOK(in, g)
             /\ g.dec = e /\ ~ g.reading /\ g.infos = f.infos /\ g.type = f.type
<1> DEFINE g == Done(f, e, m)
           n == Len(f.todo)
           rest == Tail(f.todo)
<1>1. /\ DOMAIN g = FrameFields /\ g.dec = e /\ g.type = f.type /\ g.msg = m
      /\ g.field = f.field /\ g.infos = f.infos /\ g.todo = rest
      /\ g.reading = FALSE /\ g.index = 0 /\ g.scanning = f.scanning
  BY DEF FrameOK, FrameFields, Done
<1>2. /\ f.type \in MessageTypes /\ f.dec \in Windows(Len(in)) /\ DOMAIN f.infos = RepeatedFields(f.type)
      /\ \A k \in RepeatedFields(f.type) : InfoOK(in, f.infos[k])
      /\ f.scanning \in BOOLEAN /\ f.todo \in Seq(RepeatedFields(f.type))
      /\ \A i, j \in 1 .. n : f.todo[i] = f.todo[j] => i = j
      /\ ~ pbtools_decoder_available(f.dec)
  BY DEF FrameOK
<1>3. /\ n \in Nat /\ n > 0 /\ rest \in Seq(RepeatedFields(f.type)) /\ Len(rest) = n - 1
      /\ \A i \in 1 .. n - 1 : rest[i] = f.todo[i + 1]
  <2> DEFINE todo == f.todo  S == RepeatedFields(f.type)
  <2>1. todo \in Seq(S) /\ todo # <<>>
    BY <1>2
  <2> HIDE DEF todo, S
  <2>2. Len(todo) \in Nat /\ Len(todo) > 0 /\ Tail(todo) \in Seq(S) /\ Len(Tail(todo)) = Len(todo) - 1
    BY <2>1
  <2>3. \A i \in 1 .. Len(todo) - 1 : Tail(todo)[i] = todo[i + 1]
    BY <2>1
  <2> QED
    BY <2>2, <2>3 DEF todo, S
<1> HIDE DEF g, n, rest
<1>4. \A i, j \in 1 .. Len(rest) : rest[i] = rest[j] => i = j
  <2> TAKE i, j \in 1 .. Len(rest)
  <2>1. i \in 1 .. n - 1 /\ j \in 1 .. n - 1
    BY <1>3
  <2>2. rest[i] = f.todo[i + 1] /\ rest[j] = f.todo[j + 1] /\ i + 1 \in 1 .. n /\ j + 1 \in 1 .. n
    BY <1>3, <2>1
  <2>3. f.todo[i + 1] = f.todo[j + 1] => i + 1 = j + 1
    BY <1>2, <2>2
  <2> QED
    BY <2>1, <2>2, <2>3
<1>5. ~ pbtools_decoder_available(e) /\ e \in Windows(Len(in))
  BY <1>2, RunsNothing DEF Runs
<1>6. FrameOK(in, g)
  <2>1. /\ g.scanning \in BOOLEAN /\ g.reading \in BOOLEAN /\ ~ g.reading
    BY <1>1, <1>2, Zenon
  <2>2. g.index \in Nat /\ g.index = 0
    BY <1>1
  <2>3. /\ g.todo \in Seq(RepeatedFields(g.type))
        /\ \A i, j \in 1 .. Len(g.todo) : g.todo[i] = g.todo[j] => i = j
    BY <1>1, <1>3, <1>4
  <2>4. /\ g.type \in MessageTypes /\ g.dec \in Windows(Len(in)) /\ DOMAIN g = FrameFields
        /\ DOMAIN g.msg = FieldsOf(g.type) /\ DOMAIN g.infos = RepeatedFields(g.type)
        /\ ~ pbtools_decoder_available(g.dec)
        /\ \A k \in RepeatedFields(g.type) : InfoOK(in, g.infos[k])
    BY <1>1, <1>2, <1>5
  <2> QED
    BY <2>1, <2>2, <2>3, <2>4 DEF FrameOK
<1>7. CountOK(in, g)
  <2>1. \A i \in 1 .. Len(rest) : CountedOK(in, f.type, rest[i], f.infos[rest[i]])
    <3> TAKE i \in 1 .. Len(rest)
    <3>1. i + 1 \in 1 .. n /\ i + 1 # 1 /\ rest[i] = f.todo[i + 1]
      BY <1>3
    <3>2. CountedOK(in, f.type, f.todo[i + 1], f.infos[f.todo[i + 1]])
      BY <3>1 DEF CountOK, n
    <3> QED
      BY <3>1, <3>2
  <2>2. ~ g.scanning /\ ~ g.reading
    BY <1>1, Zenon
  <2> QED
    BY <1>1, <2>1, <2>2 DEF CountOK
<1>8. Follows(in, f, g)
  BY <1>1, <1>6 DEF Follows
<1> QED
  BY <1>1, <1>7, <1>8 DEF g

LEMMA DoneKeeps ==
  ASSUME MessageInv, Finalizing, NEW e, Runs(Top.dec, e, Len(input)),
         NEW m, DOMAIN m = FieldsOf(Top.type), NEW h, NEW how,
         how = "" \/ how = "reported" \/ how = "silently",
         Step(Done(Top, e, m), h, how), Failed(Top) \/ how = "reported" => ~ Live(e),
         e.pos = -OUT_OF_MEMORY => OutOfMemory(Top) \/ how = "reported"
  PROVE  MessageInv'
<1> DEFINE g == Done(Top, e, m)
<1>1. ~ Idle /\ FrameOK(input, Top) /\ CountOK(input, Top) /\ ~ Top.scanning /\ Top.todo # <<>>
  BY TopIs DEF Finalizing
<1>2. /\ Follows(input, Top, g) /\ CountOK(input, g)
      /\ g.dec = e /\ ~ g.reading /\ g.infos = Top.infos /\ g.type = Top.type
  <2> DEFINE f == Top
             b == Done(f, e, m)
  <2>1. /\ FrameOK(input, f) /\ CountOK(input, f) /\ ~ f.scanning /\ f.todo # <<>>
        /\ Runs(f.dec, e, Len(input)) /\ DOMAIN m = FieldsOf(f.type)
    BY <1>1
  <2> HIDE DEF f
  <2>2. /\ Follows(input, f, b) /\ CountOK(input, b)
        /\ b.dec = e /\ ~ b.reading /\ b.infos = f.infos /\ b.type = f.type
    <3>1. Follows(input, f, b) /\ CountOK(input, b)
      BY <2>1, DoneIs
    <3>2. b.dec = e /\ b.infos = f.infos /\ b.type = f.type
      BY <2>1 DEF FrameOK, FrameFields, Done
    <3>3. ~ b.reading
      BY <2>1, DoneIs
    <3> QED
      BY <3>1, <3>2, <3>3
  <2> HIDE DEF b
  <2> QED
    BY <2>2 DEF f, b
<1>3. Step(g, h, how)
  OBVIOUS
<1> HIDE DEF g
<1>4. Failed(Top) \/ how = "reported" => Failed(g)
  BY <1>2 DEF Failed
<1>5. OutOfMemory(g) => OutOfMemory(Top) \/ how = "reported"
  BY <1>2 DEF OutOfMemory
<1> QED
  BY <1>1, <1>2, <1>3, <1>4, <1>5, StepKeeps

(* The field whose finalizer runs. *)
LEMMA FinalizingIs ==
  ASSUME MessageInv, Finalizing
  PROVE  /\ ~ Idle /\ FrameOK(input, Top) /\ CountOK(input, Top) /\ ~ Top.scanning
         /\ input \in Seq(Byte) /\ Len(input) <= IntMax
         /\ DOMAIN Top = FrameFields /\ Top.type \in MessageTypes /\ Top.dec \in Windows(Len(input))
         /\ DOMAIN Top.msg = FieldsOf(Top.type) /\ DOMAIN Top.infos = RepeatedFields(Top.type)
         /\ Field = Top.todo[1] /\ Field \in RepeatedFields(Top.type) /\ Field \in FieldsOf(Top.type)
         /\ ItemType \in LeafTypes \cup MessageTypes
         /\ InfoOK(input, ItemInfo)
         /\ Finished(Top) = Done(Top, Top.dec, Top.msg)
<1>1. /\ ~ Idle /\ FrameOK(input, Top) /\ CountOK(input, Top) /\ ~ Top.scanning /\ Top.todo # <<>>
      /\ input \in Seq(Byte) /\ Len(input) <= IntMax
  BY TopIs DEF Finalizing
<1>2. /\ DOMAIN Top = FrameFields /\ Top.type \in MessageTypes /\ Top.dec \in Windows(Len(input))
      /\ DOMAIN Top.msg = FieldsOf(Top.type) /\ DOMAIN Top.infos = RepeatedFields(Top.type)
      /\ Top.todo \in Seq(RepeatedFields(Top.type))
      /\ \A n \in RepeatedFields(Top.type) : InfoOK(input, Top.infos[n])
  BY <1>1 DEF FrameOK
<1>3. Field = Top.todo[1] /\ Field \in RepeatedFields(Top.type)
  <2> DEFINE todo == Top.todo
  <2>1. todo \in Seq(RepeatedFields(Top.type)) /\ todo # <<>>
    BY <1>1, <1>2
  <2> HIDE DEF todo
  <2>2. Head(todo) = todo[1] /\ todo[1] \in RepeatedFields(Top.type)
    BY <2>1
  <2> QED
    BY <2>2 DEF Field, todo
<1>4. Field \in FieldsOf(Top.type) /\ ItemType \in LeafTypes \cup MessageTypes
  BY <1>2, <1>3, FieldKinds DEF RepeatedFields, ItemType
<1>5. Finished(Top) = Done(Top, Top.dec, Top.msg)
  BY <1>2 DEF Finished, Done, FrameFields
<1> QED
  BY <1>1, <1>2, <1>3, <1>4, <1>5 DEF ItemInfo

LEMMA NothingCountedKeeps ==
  ASSUME MessageInv, NothingCounted
  PROVE  MessageInv'
<1>1. Finalizing /\ ItemInfo.length = 0 /\ Step(Finished(Top), heap, "")
  BY DEF NothingCounted
<1>2. /\ FrameOK(input, Top) /\ Top.dec \in Windows(Len(input))
      /\ DOMAIN Top.msg = FieldsOf(Top.type)
      /\ Field = Top.todo[1] /\ Finished(Top) = Done(Top, Top.dec, Top.msg)
  BY <1>1, FinalizingIs
<1>3. ~ Top.reading
  <2>1. Top.reading => ItemsOK(Top, Field)
    BY <1>2 DEF FrameOK
  <2>2. ItemsOK(Top, Field) => ItemInfo.length > 0
    BY DEF ItemsOK, ItemInfo
  <2>3. ~ ItemsOK(Top, Field)
    <3> DEFINE n == ItemInfo.length
    <3>1. n = 0 /\ (ItemsOK(Top, Field) => n > 0)
      BY <1>1, <2>2, Zenon
    <3> HIDE DEF n
    <3> QED
      BY <3>1
  <2> QED
    BY <2>1, <2>3, Zenon
<1>4. Failed(Top) => ~ Live(Top.dec)
  BY <1>3 DEF Failed
<1>5. Top.dec.pos = -OUT_OF_MEMORY => OutOfMemory(Top)
  BY DEF OutOfMemory
<1>6. Runs(Top.dec, Top.dec, Len(input))
  <2> DEFINE d == Top.dec
  <2>1. d \in Windows(Len(input))
    BY <1>2
  <2> HIDE DEF d
  <2>2. Runs(d, d, Len(input))
    BY <2>1, LiveOrDead DEF Runs
  <2> QED
    BY <2>2 DEF d
<1> DEFINE how == ""  e == Top.dec  m == Top.msg
<1>7. /\ how = "" \/ how = "reported" \/ how = "silently"
      /\ Step(Done(Top, e, m), heap, how) /\ Runs(Top.dec, e, Len(input))
      /\ DOMAIN m = FieldsOf(Top.type)
      /\ Failed(Top) \/ how = "reported" => ~ Live(e)
      /\ e.pos = -OUT_OF_MEMORY => OutOfMemory(Top) \/ how = "reported"
  BY <1>1, <1>2, <1>4, <1>5, <1>6
<1> HIDE DEF how, e, m
<1> QED
  BY <1>1, <1>7, DoneKeeps

LEMMA RunsSelf ==
  ASSUME NEW total, NEW d \in Windows(total)
  PROVE  Runs(d, d, total)
BY LiveOrDead DEF Runs

LEMMA ItemsRefusedKeeps ==
  ASSUME MessageInv, ItemsRefused
  PROVE  MessageInv'
<1> DEFINE d == decoder_abort(Top.dec, OUT_OF_MEMORY)
           m == [Top.msg EXCEPT ![Field] = LostItems]
           top == [Finished(Top) EXCEPT !.msg[Field] = LostItems]
           h == Allocation.heap
<1>1. /\ Finalizing /\ ~ Top.reading
      /\ IF ItemType \in MessageTypes THEN Step(top, h, "silently")
         ELSE Step([top EXCEPT !.dec = decoder_abort(@, OUT_OF_MEMORY)], h, "reported")
  BY DEF ItemsRefused, StartItems
<1>2. /\ Top.dec \in Windows(Len(input)) /\ DOMAIN Top = FrameFields
      /\ DOMAIN Top.msg = FieldsOf(Top.type) /\ Finished(Top) = Done(Top, Top.dec, Top.msg)
  BY <1>1, FinalizingIs
<1>3. /\ Failed(Top) => ~ Live(Top.dec)
      /\ Top.dec.pos = -OUT_OF_MEMORY => OutOfMemory(Top)
  BY <1>1 DEF Failed, OutOfMemory
<1>4. DOMAIN m = FieldsOf(Top.type)
  BY <1>2
<1>5. /\ top = Done(Top, Top.dec, m)
      /\ [top EXCEPT !.dec = decoder_abort(@, OUT_OF_MEMORY)] = Done(Top, d, m)
  <2> DEFINE f == Top  n == Field  l == LostItems
             b == [f EXCEPT !.todo = Tail(@), !.reading = FALSE, !.index = 0]
             c == [b EXCEPT !.msg[n] = l]
  <2>1. DOMAIN f = FrameFields
    BY <1>2
  <2> HIDE DEF f, n, l
  <2>2. c = Done(f, f.dec, [f.msg EXCEPT ![n] = l])
    BY <2>1 DEF Done, FrameFields
  <2>3. [c EXCEPT !.dec = decoder_abort(@, OUT_OF_MEMORY)]
          = Done(f, decoder_abort(f.dec, OUT_OF_MEMORY), [f.msg EXCEPT ![n] = l])
    BY <2>1 DEF Done, FrameFields
  <2>4. top = c
    BY DEF Finished, f, n, l
  <2> QED
    BY <2>2, <2>3, <2>4 DEF f, n, l
<1>6. Runs(Top.dec, d, Len(input)) /\ ~ Live(d)
  <2>1. OUT_OF_MEMORY \in Errors
    BY DEF OUT_OF_MEMORY, Errors
  <2>2. Runs(Top.dec, d, Len(input)) /\ Dead(d)
    BY <1>2, <2>1, AbortRuns
  <2> QED
    BY <2>2, LiveOrDead DEF Runs
<1>7. Runs(Top.dec, Top.dec, Len(input))
  BY <1>2, RunsSelf
<1> HIDE DEF d, m, h, top
<1>8. CASE ItemType \in MessageTypes
  <2> DEFINE how == "silently"  e == Top.dec
  <2>1. /\ how = "" \/ how = "reported" \/ how = "silently"
        /\ Step(Done(Top, e, m), h, how) /\ Runs(Top.dec, e, Len(input))
        /\ Failed(Top) \/ how = "reported" => ~ Live(e)
        /\ e.pos = -OUT_OF_MEMORY => OutOfMemory(Top) \/ how = "reported"
    BY <1>1, <1>3, <1>5, <1>7, <1>8
  <2> HIDE DEF how, e
  <2> QED
    BY <1>1, <1>4, <2>1, DoneKeeps
<1>9. CASE ItemType \notin MessageTypes
  <2> DEFINE how == "reported"
  <2>1. /\ how = "" \/ how = "reported" \/ how = "silently"
        /\ Step(Done(Top, d, m), h, how)
        /\ Failed(Top) \/ how = "reported" => ~ Live(d)
        /\ d.pos = -OUT_OF_MEMORY => OutOfMemory(Top) \/ how = "reported"
    BY <1>1, <1>5, <1>6, <1>9
  <2> HIDE DEF how
  <2> QED
    BY <1>1, <1>4, <1>6, <2>1, DoneKeeps
<1> QED
  BY <1>8, <1>9

LEMMA EndItemsKeeps ==
  ASSUME MessageInv, EndItems
  PROVE  MessageInv'
<1> DEFINE res == ItemInfo.dec.pos
           e == IF res < 0 THEN decoder_abort(Top.dec, -res) ELSE Top.dec
           m == Top.msg
<1>1. /\ Finalizing /\ Top.reading
      /\ Step([Finished(Top) EXCEPT !.dec = IF res < 0 THEN decoder_abort(@, -res) ELSE @], heap, "")
  BY DEF EndItems, decoder_get_result
<1>2. /\ Top.dec \in Windows(Len(input)) /\ DOMAIN Top = FrameFields /\ Field = Top.todo[1]
      /\ DOMAIN m = FieldsOf(Top.type) /\ Finished(Top) = Done(Top, Top.dec, Top.msg)
      /\ InfoOK(input, ItemInfo) /\ Field \in RepeatedFields(Top.type)
  BY <1>1, FinalizingIs
<1>3. /\ res \in Int /\ (Live(ItemInfo.dec) <=> 0 <= res) /\ (res < 0 => -res \in Errors)
  BY <1>2, LiveOrDead DEF InfoOK, Dead
<1>4. [Finished(Top) EXCEPT !.dec = IF res < 0 THEN decoder_abort(@, -res) ELSE @] = Done(Top, e, m)
  <2> DEFINE f == Top  r == res
             b == [f EXCEPT !.todo = Tail(@), !.reading = FALSE, !.index = 0]
             c == IF r < 0 THEN decoder_abort(f.dec, -r) ELSE f.dec
  <2>1. DOMAIN f = FrameFields
    BY <1>2
  <2> HIDE DEF f, r
  <2>2. [b EXCEPT !.dec = IF r < 0 THEN decoder_abort(@, -r) ELSE @] = Done(f, c, f.msg)
    BY <2>1 DEF Done, FrameFields
  <2>3. Finished(f) = b
    BY DEF Finished
  <2> QED
    BY <2>2, <2>3 DEF f, r
<1>5. Failed(Top) <=> ~ Live(Top.dec) \/ res < 0
  <2>1. Top.infos[Top.todo[1]] = ItemInfo
    BY <1>2 DEF ItemInfo
  <2>2. Failed(Top) <=> ~ Live(Top.dec) \/ ~ Live(ItemInfo.dec)
    BY <1>1, <2>1, Zenon DEF Failed
  <2> DEFINE d == ItemInfo.dec  r == res
  <2>3. r \in Int /\ (Live(d) <=> 0 <= r)
    BY <1>3
  <2> HIDE DEF d, r
  <2>4. ~ Live(d) <=> r < 0
    BY <2>3
  <2> QED
    BY <2>2, <2>4, Zenon DEF d, r
<1>6. Top.dec.pos = -OUT_OF_MEMORY \/ res = -OUT_OF_MEMORY => OutOfMemory(Top)
  BY <1>2 DEF OutOfMemory, ItemInfo
<1>7. /\ Runs(Top.dec, e, Len(input)) /\ (Failed(Top) => ~ Live(e))
      /\ e.pos = -OUT_OF_MEMORY => Top.dec.pos = -OUT_OF_MEMORY \/ res = -OUT_OF_MEMORY
  <2> DEFINE d == Top.dec  r == res
  <2>1. d \in Windows(Len(input)) /\ r \in Int /\ (r < 0 => -r \in Errors)
    BY <1>2, <1>3
  <2> HIDE DEF d, r
  <2>2. CASE r < 0
    <3> DEFINE a == decoder_abort(d, -r)
    <3>1. Runs(d, a, Len(input)) /\ Dead(a) /\ (Live(d) => a.pos = -(-r))
      BY <2>1, <2>2, AbortRuns
    <3>2. Dead(d) => a = d
      BY <3>1 DEF Runs
    <3>3. e = a
      BY <2>2 DEF d, r
    <3> HIDE DEF a, e
    <3>4. ~ Live(a)
      BY <3>1, LiveOrDead DEF Runs
    <3>5. a.pos = -OUT_OF_MEMORY => d.pos = -OUT_OF_MEMORY \/ r = -OUT_OF_MEMORY
      BY <2>1, <3>1, <3>2, LiveOrDead DEF OUT_OF_MEMORY
    <3> QED
      BY <3>1, <3>3, <3>4, <3>5 DEF d, r
  <2>3. CASE ~ (r < 0)
    <3>1. e = d
      BY <2>3 DEF d, r
    <3>2. Runs(d, d, Len(input))
      BY <2>1, RunsSelf
    <3> HIDE DEF e
    <3> QED
      BY <1>5, <2>3, <3>1, <3>2 DEF d, r
  <2> QED
    BY <2>2, <2>3
<1>8. Step(Done(Top, e, m), heap, "")
  BY <1>1, <1>4
<1> DEFINE how == ""
<1>9. /\ how = "" \/ how = "reported" \/ how = "silently"
      /\ Step(Done(Top, e, m), heap, how)
      /\ Failed(Top) \/ how = "reported" => ~ Live(e)
      /\ e.pos = -OUT_OF_MEMORY => OutOfMemory(Top) \/ how = "reported"
  BY <1>6, <1>7, <1>8
<1> HIDE DEF how, e, m
<1> QED
  BY <1>1, <1>2, <1>7, <1>9, DoneKeeps

LEMMA EndScanKeeps ==
  ASSUME MessageInv, EndScan
  PROVE  MessageInv'
<1> DEFINE S == RepeatedFields(Top.type)
           todo == InOrder(S)
           g == [Top EXCEPT !.scanning = FALSE, !.todo = todo]
<1>1. /\ ~ Idle /\ Top.scanning /\ ~ pbtools_decoder_available(Top.dec) /\ Step(g, heap, "")
  BY DEF EndScan
<1>2. FrameOK(input, Top) /\ CountOK(input, Top)
  BY <1>1, TopIs
<1>3. /\ DOMAIN Top = FrameFields /\ Top.type \in MessageTypes /\ Top.dec \in Windows(Len(input))
      /\ DOMAIN Top.msg = FieldsOf(Top.type) /\ DOMAIN Top.infos = S
      /\ \A n \in S : InfoOK(input, Top.infos[n])
      /\ ~ Top.reading /\ Top.index = 0 /\ Top.reading \in BOOLEAN
  BY <1>1, <1>2 DEF FrameOK
<1>4. /\ todo \in Seq(S) /\ \A i, j \in 1 .. Len(todo) : todo[i] = todo[j] => i = j
  <2>1. IsFiniteSet(FieldsOf(Top.type)) /\ FieldsOf(Top.type) \subseteq Nat
    BY <1>3, MessageAssumption
  <2>2. S \in SUBSET FieldsOf(Top.type)
    BY DEF RepeatedFields
  <2>3. IsFiniteSet(S) /\ S \subseteq Nat
    BY <2>1, <2>2, FS_Subset
  <2> HIDE DEF S
  <2> QED
    BY <2>3, InOrderIs
<1> HIDE DEF todo
<1>5. /\ DOMAIN g = FrameFields /\ g.dec = Top.dec /\ g.type = Top.type /\ g.msg = Top.msg
      /\ g.field = Top.field /\ g.infos = Top.infos /\ g.todo = todo
      /\ g.reading = Top.reading /\ g.index = Top.index /\ g.scanning = FALSE
  BY <1>3 DEF FrameFields
<1>6. Step(g, heap, "")
  BY <1>1
<1> HIDE DEF g
<1>7. FrameOK(input, g)
  <2>1. /\ g.scanning \in BOOLEAN /\ g.reading \in BOOLEAN /\ ~ g.reading /\ ~ g.scanning
    BY <1>3, <1>5, Zenon
  <2>2. g.index \in Nat /\ g.index = 0
    BY <1>3, <1>5
  <2>3. /\ g.todo \in Seq(RepeatedFields(g.type))
        /\ \A i, j \in 1 .. Len(g.todo) : g.todo[i] = g.todo[j] => i = j
    BY <1>4, <1>5
  <2>4. /\ g.type \in MessageTypes /\ g.dec \in Windows(Len(input)) /\ DOMAIN g = FrameFields
        /\ DOMAIN g.msg = FieldsOf(g.type) /\ DOMAIN g.infos = RepeatedFields(g.type)
        /\ ~ pbtools_decoder_available(g.dec)
        /\ \A k \in RepeatedFields(g.type) : InfoOK(input, g.infos[k])
    BY <1>1, <1>3, <1>5
  <2> QED
    BY <2>1, <2>2, <2>3, <2>4 DEF FrameOK
<1>8. CountOK(input, g)
  <2>1. \A n \in S : ScannedOK(input, Top.type, n, Top.infos[n], Top.dec)
    BY <1>1, <1>2 DEF CountOK
  <2>2. \A n \in S : CountedOK(input, Top.type, n, Top.infos[n])
    BY <2>1 DEF ScannedOK, CountedOK
  <2>3. \A i \in 1 .. Len(todo) : todo[i] \in S
    <3> HIDE DEF S
    <3> QED
      BY <1>4
  <2>4. ~ g.scanning /\ ~ g.reading
    BY <1>3, <1>5, Zenon
  <2> QED
    BY <1>5, <2>2, <2>3, <2>4 DEF CountOK
<1>9. Follows(input, Top, g)
  <2>1. Runs(Top.dec, Top.dec, Len(input))
    BY <1>3, RunsSelf
  <2> QED
    BY <1>5, <1>7, <2>1 DEF Follows
<1>10. /\ Failed(Top) => Failed(g)
       /\ OutOfMemory(g) => OutOfMemory(Top)
  BY <1>3, <1>5 DEF Failed, OutOfMemory
<1> DEFINE how == ""
<1>11. /\ how = "" \/ how = "reported" \/ how = "silently"
       /\ Step(g, heap, how)
       /\ Failed(Top) \/ how = "reported" => Failed(g)
       /\ OutOfMemory(g) => OutOfMemory(Top) \/ how = "reported"
  BY <1>6, <1>10
<1> HIDE DEF how
<1> QED
  BY <1>1, <1>8, <1>9, <1>11, StepKeeps
-----------------------------------------------------------------------------
(* The reading pass: a group of items is read where the scan counted it. *)
LEMMA GroupOK ==
  ASSUME NEW in \in Seq(Byte), NEW t \in MessageTypes, NEW n \in RepeatedFields(t),
         TypeOf(t, n) \in LeafTypes, NEW d \in Windows(Len(in)), NEW h, NEW wire_type,
         NEW k \in Nat, NEW length \in Nat, NEW q,
         Reaches(in, TypeOf(t, n), n, Sum(CountItems(in, TypeOf(t, n), d, wire_type), k),
                 [dec |-> q, count |-> length])
  PROVE  LET r == ReadGroup(in, TypeOf(t, n), d, h, wire_type)
         IN  ReadOK(in, t, n, length, r.dec, k + Len(r.values))
<1> DEFINE type == TypeOf(t, n)
           r == ReadGroup(in, type, d, h, wire_type)
           c == CountItems(in, type, d, wire_type)
           i == Len(r.values)
           z == [dec |-> q, count |-> length]
<1>1. /\ type \in LeafTypes /\ type \in LeafTypes \cup MessageTypes
      /\ Reaches(in, type, n, Sum(c, k), z)
  OBVIOUS
<1> HIDE DEF type
<1>2. c.dec \in Windows(Len(in)) /\ c.count \in Nat
  BY <1>1, CountReads DEF Reads, Runs
<1>3. /\ i \in Nat /\ LeafRead(d, r, Len(in))
      /\ Live(r.dec) => i = c.count /\ r.dec = c.dec
      /\ \/ i <= c.count
         \/ type \in FixedTypes /\ i = c.count + 1 /\ r.dec.pos = -OUT_OF_DATA
  <2>1. i \in Nat /\ LeafRead(d, r, Len(in))
    BY <1>1, GroupReads
  <2>2. Live(r.dec) => i = c.count /\ r.dec = c.dec
    BY <1>1, GroupReads
  <2>3. \/ i <= c.count
        \/ type \in FixedTypes /\ i = c.count + 1 /\ r.dec.pos = -OUT_OF_DATA
    BY <1>1, GroupReads
  <2> QED
    BY <2>1, <2>2, <2>3
<1>4. r.dec \in Windows(Len(in))
  BY <1>3 DEF LeafRead, Runs
<1> HIDE DEF r, c, i, z
<1>5. Sum(c, k) = [dec |-> Canon(c.dec), count |-> k + c.count]
  BY DEF Sum
<1>6. k + c.count <= length
  <2>1. k + c.count \in Nat
    BY <1>2
  <2>2. z.count \in Nat /\ k + c.count <= z.count
    BY <1>1, <1>2, <1>5, <2>1, ReachesMore
  <2> QED
    BY <2>2 DEF z
<1>7. \/ k + i <= length
      \/ type \in FixedTypes /\ k + i = length + 1 /\ r.dec.pos = -OUT_OF_DATA
  BY <1>2, <1>3, <1>6
<1>8. ASSUME pbtools_decoder_available(r.dec)
      PROVE  Reaches(in, type, n, [dec |-> Canon(r.dec), count |-> k + i], z)
  <2>1. Live(r.dec)
    BY <1>4, <1>8, LiveOrDead
  <2> QED
    BY <1>1, <1>3, <1>5, <2>1
<1> QED
  BY <1>7, <1>8 DEF ReadOK, type, r, i, z

(* The next item is decoded by a call; the caller goes on behind it. *)
LEMMA ItemOK ==
  ASSUME NEW in \in Seq(Byte), NEW t \in MessageTypes, NEW n \in RepeatedFields(t),
         TypeOf(t, n) \in MessageTypes, NEW d \in Windows(Len(in)), NEW wire_type,
         NEW k \in Nat, NEW length \in Nat, NEW q,
         Reaches(in, TypeOf(t, n), n, Sum(CountItems(in, TypeOf(t, n), d, wire_type), k),
                 [dec |-> q, count |-> length])
  PROVE  LET r == decoder_read_length_delimited(in, d, LENGTH_DELIMITED)
             s == decoder_init_slice(r.dec, int(r.value))
         IN  ReadOK(in, t, n, length, decoder_seek(r.dec, s.size), k + 1)
<1> DEFINE type == TypeOf(t, n)
           r == decoder_read_length_delimited(in, d, LENGTH_DELIMITED)
           s == decoder_init_slice(r.dec, int(r.value))
           e == decoder_seek(r.dec, s.size)
           c == CountItems(in, type, d, wire_type)
           z == [dec |-> q, count |-> length]
<1>1. /\ type \in MessageTypes /\ type \in LeafTypes \cup MessageTypes /\ n \in Nat \ {0}
      /\ Reaches(in, type, n, Sum(c, k), z)
  BY FieldKinds DEF RepeatedFields
<1> HIDE DEF type
<1>2. /\ c.dec \in Windows(Len(in)) /\ c.count = 1
      /\ Live(c.dec) => /\ c.dec = pbtools_decoder_skip_field(in, d, wire_type)
                        /\ wire_type = LENGTH_DELIMITED
  <2>1. c.count = 1 /\ (Live(c.dec) => wire_type = LENGTH_DELIMITED)
    BY <1>1, CountReads
  <2>2. /\ c.dec \in Windows(Len(in))
        /\ Live(c.dec) => c.dec = pbtools_decoder_skip_field(in, d, wire_type)
    BY <1>1, CountReads DEF Reads, Runs
  <2> QED
    BY <2>1, <2>2
<1>3. /\ e \in Windows(Len(in))
      /\ Live(e) => e = pbtools_decoder_skip_field(in, d, LENGTH_DELIMITED)
  BY SubWindow
<1> HIDE DEF c, z, e
<1>4. Sum(c, k) = [dec |-> Canon(c.dec), count |-> k + 1]
  BY <1>2 DEF Sum
<1>5. k + 1 <= length
  <2>1. k + 1 \in Nat
    OBVIOUS
  <2>2. z.count \in Nat /\ k + 1 <= z.count
    BY <1>1, <1>2, <1>4, <2>1, ReachesMore
  <2> QED
    BY <2>2 DEF z
<1>6. ASSUME pbtools_decoder_available(e)
      PROVE  \E p : Reaches(in, type, n, [dec |-> Canon(e), count |-> k + 1],
                            [dec |-> p, count |-> length])
  <2>1. Live(e)
    BY <1>3, <1>6, LiveOrDead
  <2>2. CASE Live(c.dec)
    BY <1>1, <1>2, <1>3, <1>4, <2>1, <2>2 DEF z
  <2>3. CASE ~ Live(c.dec)
    <3>1. ~ pbtools_decoder_available(c.dec)
      BY <1>2, <2>3, LiveOrDead
    <3>2. k + 1 \in Nat
      OBVIOUS
    <3>3. z.count = k + 1
      BY <1>1, <1>2, <1>4, <3>1, <3>2, ReachesNone
    <3>4. Reaches(in, type, n, [dec |-> Canon(e), count |-> k + 1],
                  [dec |-> Canon(e), count |-> length])
      BY <3>3, ReachesSelf DEF z
    <3> QED
      BY <3>4
  <2> QED
    BY <2>2, <2>3
<1> QED
  BY <1>5, <1>6 DEF ReadOK, type, e

(* From the second tag on. *)
LEMMA ReadOn ==
  ASSUME NEW in \in Seq(Byte), NEW t \in MessageTypes, NEW n \in RepeatedFields(t),
         NEW d \in Windows(Len(in)), pbtools_decoder_available(d),
         NEW index \in Nat, NEW length \in Nat, index < length,
         ReadOK(in, t, n, length, d, index)
  PROVE  LET type == TypeOf(t, n)
             tag == pbtools_decoder_read_tag(in, d)
             c == CountItems(in, type, tag.dec, tag.wire_type)
             e == pbtools_decoder_skip_field(in, tag.dec, tag.wire_type)
         IN  \E q : /\ tag.field_number = n =>
                         Reaches(in, type, n, Sum(c, index), [dec |-> q, count |-> length])
                    /\ tag.field_number # n =>
                         Reaches(in, type, n, [dec |-> Canon(e), count |-> index],
                                 [dec |-> q, count |-> length])
<1> DEFINE type == TypeOf(t, n)
           tag == pbtools_decoder_read_tag(in, d)
           c == CountItems(in, type, tag.dec, tag.wire_type)
           e == pbtools_decoder_skip_field(in, tag.dec, tag.wire_type)
           y == [dec |-> Canon(d), count |-> index]
<1>1. PICK q : Reaches(in, type, n, y, [dec |-> q, count |-> length])
  BY DEF ReadOK
<1> DEFINE z == [dec |-> q, count |-> length]
<1>2. y # z
  OBVIOUS
<1>3. type \in LeafTypes \cup MessageTypes
  BY FieldKinds DEF RepeatedFields
<1>4. /\ tag.field_number = n => NextTag(in, type, n, y) = Sum(c, index)
      /\ tag.field_number # n => NextTag(in, type, n, y) = [dec |-> Canon(e), count |-> index]
  <2>1. tag.field_number = n => NextTag(in, type, n, y) = Sum(c, index)
    BY <1>3, NextOwn
  <2>2. tag.field_number # n => NextTag(in, type, n, y) = [dec |-> Canon(e), count |-> index]
    BY <1>3, NextTagIs
  <2> QED
    BY <2>1, <2>2
<1> HIDE DEF y, z, c, e, type, tag
<1>5. Reaches(in, type, n, NextTag(in, type, n, y), z)
  BY <1>1, <1>2, ReachesOn DEF z
<1> QED
  BY <1>4, <1>5 DEF z, c, e, type, tag

(* A frame g of a finalizer of n: what f was, with its items in place, the
   decoder at e and k items read. *)
ReadingOK(f, g, n, e, k) ==
  /\ g.dec = f.dec /\ g.type = f.type /\ g.todo = f.todo /\ ~ g.scanning /\ g.reading
  /\ g.index = k /\ g.infos[n].dec = e /\ g.infos[n].length = f.infos[n].length
  /\ \A m \in RepeatedFields(f.type) : m # n => g.infos[m] = f.infos[m]

Reading(f, g, n, e, k, items) ==
  /\ DOMAIN g = FrameFields /\ g.field = f.field
  /\ DOMAIN g.msg = DOMAIN f.msg /\ g.msg[n] = items
  /\ DOMAIN g.infos = DOMAIN f.infos /\ DOMAIN g.infos[n] = {"length", "wire_type", "dec"}
  /\ g.scanning \in BOOLEAN /\ g.reading \in BOOLEAN
  /\ ReadingOK(f, g, n, e, k)

(* The frame that the step starts from is f with the items of n in place. *)
Prepared(f, top, n, items) ==
  /\ DOMAIN top = FrameFields /\ DOMAIN top.msg = DOMAIN f.msg /\ top.msg[n] = items
  /\ top.infos = f.infos /\ top.index = f.index /\ top.type = f.type /\ top.dec = f.dec
  /\ top.field = f.field /\ top.todo = f.todo /\ top.scanning = f.scanning

Fetched(top, n, e) == [top EXCEPT !.infos[n].dec = e, !.reading = TRUE]

Stored(top, n, e, k, items) ==
  [top EXCEPT !.infos[n].dec = e, !.reading = TRUE, !.index = k, !.msg[n] = items]

LEMMA FetchedInfos ==
  ASSUME NEW in, NEW f, FrameOK(in, f), NEW n \in RepeatedFields(f.type), NEW e
  PROVE  LET infos == [f.infos EXCEPT ![n].dec = e]
         IN  /\ DOMAIN infos = DOMAIN f.infos /\ infos[n].dec = e
             /\ infos[n].length = f.infos[n].length
             /\ DOMAIN infos[n] = {"length", "wire_type", "dec"}
             /\ \A m \in RepeatedFields(f.type) : m # n => infos[m] = f.infos[m]
<1> DEFINE infos == [f.infos EXCEPT ![n].dec = e]
           info == [f.infos[n] EXCEPT !.dec = e]
<1>1. /\ n \in DOMAIN f.infos /\ DOMAIN f.infos = RepeatedFields(f.type)
      /\ DOMAIN f.infos[n] = {"length", "wire_type", "dec"}
  BY DEF FrameOK, RepeatedFields, InfoOK
<1>2. /\ DOMAIN infos = DOMAIN f.infos /\ infos[n] = info
      /\ \A m \in RepeatedFields(f.type) : m # n => infos[m] = f.infos[m]
  BY <1>1
<1>3. /\ info.dec = e /\ info.length = f.infos[n].length
      /\ DOMAIN info = {"length", "wire_type", "dec"}
  BY <1>1
<1> HIDE DEF infos, info
<1> QED
  BY <1>2, <1>3 DEF infos

LEMMA FetchedIs ==
  ASSUME NEW in, NEW f, FrameOK(in, f), NEW n \in RepeatedFields(f.type), ~ f.scanning,
         NEW top, NEW items, Prepared(f, top, n, items), NEW e
  PROVE  Reading(f, Fetched(top, n, e), n, e, f.index, items)
<1> DEFINE infos == [f.infos EXCEPT ![n].dec = e]
           g == Fetched(top, n, e)
<1>1. /\ DOMAIN g = FrameFields /\ g.field = f.field /\ g.msg = top.msg /\ g.infos = infos
      /\ g.dec = f.dec /\ g.type = f.type /\ g.todo = f.todo /\ g.scanning = f.scanning
      /\ g.reading = TRUE /\ g.index = f.index
  BY DEF Fetched, Prepared, FrameFields
<1>2. DOMAIN top.msg = DOMAIN f.msg /\ top.msg[n] = items
  BY DEF Prepared
<1>3. /\ DOMAIN infos = DOMAIN f.infos /\ infos[n].dec = e
      /\ infos[n].length = f.infos[n].length /\ DOMAIN infos[n] = {"length", "wire_type", "dec"}
      /\ \A m \in RepeatedFields(f.type) : m # n => infos[m] = f.infos[m]
  BY FetchedInfos
<1> HIDE DEF g, infos
<1>4. ~ g.scanning /\ g.reading /\ g.scanning \in BOOLEAN /\ g.reading \in BOOLEAN
  <2>1. f.scanning \in BOOLEAN
    BY DEF FrameOK
  <2> QED
    BY <1>1, <2>1, Zenon
<1>5. ReadingOK(f, g, n, e, f.index)
  BY <1>1, <1>3, <1>4 DEF ReadingOK
<1> QED
  BY <1>1, <1>2, <1>3, <1>4, <1>5 DEF Reading, g

LEMMA StoredIs ==
  ASSUME NEW in, NEW f, FrameOK(in, f), NEW n \in RepeatedFields(f.type), ~ f.scanning,
         NEW top, NEW items, Prepared(f, top, n, items), NEW e, NEW k, NEW stored
  PROVE  Reading(f, Stored(top, n, e, k, stored), n, e, k, stored)
<1> DEFINE infos == [f.infos EXCEPT ![n].dec = e]
           msg == [top.msg EXCEPT ![n] = stored]
           g == Stored(top, n, e, k, stored)
<1>1. /\ DOMAIN g = FrameFields /\ g.field = f.field /\ g.msg = msg /\ g.infos = infos
      /\ g.dec = f.dec /\ g.type = f.type /\ g.todo = f.todo /\ g.scanning = f.scanning
      /\ g.reading = TRUE /\ g.index = k
  BY DEF Stored, Prepared, FrameFields
<1>2. DOMAIN msg = DOMAIN f.msg /\ msg[n] = stored
  BY DEF Prepared, FrameOK, RepeatedFields
<1>3. /\ DOMAIN infos = DOMAIN f.infos /\ infos[n].dec = e
      /\ infos[n].length = f.infos[n].length /\ DOMAIN infos[n] = {"length", "wire_type", "dec"}
      /\ \A m \in RepeatedFields(f.type) : m # n => infos[m] = f.infos[m]
  BY FetchedInfos
<1> HIDE DEF g, infos, msg
<1>4. ~ g.scanning /\ g.reading /\ g.scanning \in BOOLEAN /\ g.reading \in BOOLEAN
  <2>1. f.scanning \in BOOLEAN
    BY DEF FrameOK
  <2> QED
    BY <1>1, <2>1, Zenon
<1>5. ReadingOK(f, g, n, e, k)
  BY <1>1, <1>3, <1>4 DEF ReadingOK
<1> QED
  BY <1>1, <1>2, <1>3, <1>4, <1>5 DEF Reading, g

LEMMA ReadingFollows ==
  ASSUME NEW in, NEW f, FrameOK(in, f), ~ f.scanning, f.todo # <<>>, NEW n, n = f.todo[1],
         n \in RepeatedFields(f.type), NEW e \in Windows(Len(in)), NEW k \in Nat,
         NEW items, f.infos[n].length > 0,
         TypeOf(f.type, n) \in MessageTypes =>
           /\ DOMAIN items = 1 .. f.infos[n].length
           /\ \A i \in 1 .. f.infos[n].length : DOMAIN items[i] = FieldsOf(TypeOf(f.type, n)),
         NEW g, Reading(f, g, n, e, k, items)
  PROVE  Follows(in, f, g)
<1>1. /\ DOMAIN g = FrameFields /\ g.field = f.field
      /\ DOMAIN g.msg = DOMAIN f.msg /\ g.msg[n] = items
      /\ DOMAIN g.infos = DOMAIN f.infos
      /\ DOMAIN g.infos[n] = {"length", "wire_type", "dec"}
      /\ ReadingOK(f, g, n, e, k)
  BY DEF Reading
<1>2. /\ f.type \in MessageTypes /\ f.dec \in Windows(Len(in))
      /\ DOMAIN f.msg = FieldsOf(f.type) /\ DOMAIN f.infos = RepeatedFields(f.type)
      /\ \A m \in RepeatedFields(f.type) : InfoOK(in, f.infos[m])
      /\ f.todo \in Seq(RepeatedFields(f.type))
      /\ \A i, j \in 1 .. Len(f.todo) : f.todo[i] = f.todo[j] => i = j
      /\ ~ pbtools_decoder_available(f.dec)
  BY DEF FrameOK
<1>3. FrameOK(in, g)
  <2>1. ~ g.scanning /\ g.reading
    BY <1>1 DEF ReadingOK
  <2>2. /\ g.type \in MessageTypes /\ g.dec \in Windows(Len(in)) /\ DOMAIN g = FrameFields
        /\ DOMAIN g.msg = FieldsOf(g.type) /\ DOMAIN g.infos = RepeatedFields(g.type)
        /\ ~ pbtools_decoder_available(g.dec) /\ g.index \in Nat
    BY <1>1, <1>2 DEF ReadingOK
  <2>3. /\ g.todo \in Seq(RepeatedFields(g.type)) /\ g.todo # <<>>
        /\ \A i, j \in 1 .. Len(g.todo) : g.todo[i] = g.todo[j] => i = j
    BY <1>1, <1>2 DEF ReadingOK
  <2>4. \A m \in RepeatedFields(g.type) : InfoOK(in, g.infos[m])
    <3>1. InfoOK(in, g.infos[n])
      BY <1>1, <1>2, SMTT(40) DEF ReadingOK, InfoOK
    <3> QED
      BY <1>1, <1>2, <3>1 DEF ReadingOK
  <2>5. ItemsOK(g, g.todo[1])
    <3>1. g.todo[1] = n /\ g.infos[n].length = f.infos[n].length /\ g.type = f.type
      BY <1>1 DEF ReadingOK
    <3> QED
      BY <1>1, <3>1 DEF ItemsOK
  <2>6. g.scanning \in BOOLEAN /\ g.reading \in BOOLEAN
    BY DEF Reading
  <2> QED
    BY <2>1, <2>2, <2>3, <2>4, <2>5, <2>6 DEF FrameOK
<1>4. Runs(f.dec, g.dec, Len(in))
  BY <1>1, <1>2, RunsSelf DEF ReadingOK
<1> QED
  BY <1>1, <1>3, <1>4 DEF Follows, ReadingOK

LEMMA ReadingCounts ==
  ASSUME NEW in, NEW f, FrameOK(in, f), f.todo # <<>>,
         \A i \in 1 .. Len(f.todo) : i # 1 => CountedOK(in, f.type, f.todo[i], f.infos[f.todo[i]]),
         NEW n, n = f.todo[1], n \in RepeatedFields(f.type),
         NEW g, NEW e, NEW k, ReadingOK(f, g, n, e, k)
  PROVE  /\ ReadOK(in, f.type, n, f.infos[n].length, e, k) => CountOK(in, g)
         /\ \A size : ReadOK(in, f.type, n, f.infos[n].length, decoder_seek(e, size), k + 1) =>
                        WaitOK(in, g, size)
<1>1. /\ f.todo \in Seq(RepeatedFields(f.type))
      /\ \A i, j \in 1 .. Len(f.todo) : f.todo[i] = f.todo[j] => i = j
  BY DEF FrameOK
<1>2. /\ g.type = f.type /\ g.todo = f.todo /\ ~ g.scanning /\ g.reading
      /\ g.index = k /\ g.infos[n].dec = e /\ g.infos[n].length = f.infos[n].length
      /\ \A m \in RepeatedFields(f.type) : m # n => g.infos[m] = f.infos[m]
  BY DEF ReadingOK
<1>3. \A i \in 1 .. Len(f.todo) : i # 1 => CountedOK(in, f.type, f.todo[i], g.infos[f.todo[i]])
  <2> DEFINE todo == f.todo  S == RepeatedFields(f.type)
  <2>1. /\ todo \in Seq(S) /\ todo # <<>> /\ n = todo[1]
        /\ \A i, j \in 1 .. Len(todo) : todo[i] = todo[j] => i = j
        /\ \A m \in S : m # n => g.infos[m] = f.infos[m]
        /\ \A i \in 1 .. Len(todo) : i # 1 => CountedOK(in, f.type, todo[i], f.infos[todo[i]])
    BY <1>1, <1>2
  <2> HIDE DEF todo, S
  <2> SUFFICES ASSUME NEW i \in 1 .. Len(todo), i # 1
               PROVE  CountedOK(in, f.type, todo[i], g.infos[todo[i]])
    BY DEF todo
  <2>2. 1 \in 1 .. Len(todo) /\ todo[i] \in S
    BY <2>1
  <2>3. todo[i] # n
    BY <2>1, <2>2
  <2> QED
    BY <2>1, <2>2, <2>3
<1>4. ASSUME ReadOK(in, f.type, n, f.infos[n].length, e, k)
      PROVE  CountOK(in, g)
  BY <1>2, <1>3, <1>4 DEF CountOK
<1>5. ASSUME NEW size, ReadOK(in, f.type, n, f.infos[n].length, decoder_seek(e, size), k + 1)
      PROVE  WaitOK(in, g, size)
  <2>1. \A i \in 2 .. Len(f.todo) : i \in 1 .. Len(f.todo) /\ i # 1
    OBVIOUS
  <2> QED
    BY <1>2, <1>3, <1>5, <2>1 DEF WaitOK
<1> QED
  BY <1>4, <1>5

(* What a step of the reading pass must show: the decoder, how many items are
   read, and the items. *)
ItemsAre(items) ==
  ItemType \in MessageTypes =>
    /\ DOMAIN items = 1 .. ItemInfo.length
    /\ \A i \in 1 .. ItemInfo.length : DOMAIN items[i] = FieldsOf(ItemType)

LEMMA ReadingTop ==
  ASSUME MessageInv, Finalizing, ItemInfo.length > 0, Top.reading => Live(ItemInfo.dec),
         NEW e \in Windows(Len(input)), NEW k \in Nat, NEW items, ItemsAre(items),
         NEW g, Reading(Top, g, Field, e, k, items)
  PROVE  /\ ~ Idle /\ Follows(input, Top, g) /\ ReadingOK(Top, g, Field, e, k)
         /\ ReadOK(input, Top.type, Field, ItemInfo.length, e, k) => CountOK(input, g)
         /\ \A size :
              ReadOK(input, Top.type, Field, ItemInfo.length, decoder_seek(e, size), k + 1) =>
                WaitOK(input, g, size)
         /\ Failed(Top) \/ ~ Live(e) => Failed(g)
         /\ OutOfMemory(g) => OutOfMemory(Top) \/ e.pos = -OUT_OF_MEMORY
<1> DEFINE f == Top
           n == Field
<1>1. /\ ~ Idle /\ FrameOK(input, f) /\ CountOK(input, f) /\ ~ f.scanning /\ f.todo # <<>>
      /\ n = f.todo[1] /\ n \in RepeatedFields(f.type)
  <2>1. Top.todo # <<>>
    BY DEF Finalizing
  <2> QED
    BY <2>1, FinalizingIs
<1>2. /\ f.infos[n].length > 0
      /\ TypeOf(f.type, n) \in MessageTypes =>
           /\ DOMAIN items = 1 .. f.infos[n].length
           /\ \A i \in 1 .. f.infos[n].length : DOMAIN items[i] = FieldsOf(TypeOf(f.type, n))
  BY DEF ItemsAre, ItemInfo, ItemType
<1>3. f.reading => Live(f.infos[n].dec)
  BY DEF ItemInfo
<1>4. ItemInfo = f.infos[n]
  BY DEF ItemInfo
<1>10. Reading(f, g, n, e, k, items)
  OBVIOUS
<1> HIDE DEF f, n
<1>5. Follows(input, f, g)
  BY <1>1, <1>2, <1>10, ReadingFollows
<1>6. ReadingOK(f, g, n, e, k)
  BY <1>10 DEF Reading
<1>7. /\ ReadOK(input, f.type, n, f.infos[n].length, e, k) => CountOK(input, g)
      /\ \A size : ReadOK(input, f.type, n, f.infos[n].length, decoder_seek(e, size), k + 1) =>
                     WaitOK(input, g, size)
  <2>1. \A i \in 1 .. Len(f.todo) :
          i # 1 => CountedOK(input, f.type, f.todo[i], f.infos[f.todo[i]])
    BY <1>1 DEF CountOK
  <2> QED
    BY <1>1, <1>6, <2>1, ReadingCounts
<1>8. Failed(f) \/ ~ Live(e) => Failed(g)
  <2>1. /\ g.dec = f.dec /\ g.todo[1] = n /\ g.infos[n].dec = e /\ f.todo[1] = n
    BY <1>1, <1>6 DEF ReadingOK
  <2>2. g.reading
    BY <1>6 DEF ReadingOK
  <2>3. Failed(f) => ~ Live(f.dec)
    BY <1>3, <2>1 DEF Failed
  <2> QED
    BY <2>1, <2>2, <2>3 DEF Failed
<1>9. OutOfMemory(g) => OutOfMemory(f) \/ e.pos = -OUT_OF_MEMORY
  <2>1. /\ g.dec = f.dec /\ g.infos[n].dec = e /\ g.type = f.type
        /\ \A m \in RepeatedFields(f.type) : m # n => g.infos[m] = f.infos[m]
    BY <1>6 DEF ReadingOK
  <2> QED
    BY <2>1 DEF OutOfMemory
<1> QED
  BY <1>1, <1>4, <1>5, <1>6, <1>7, <1>8, <1>9 DEF f, n

LEMMA StoreKeeps ==
  ASSUME MessageInv, Finalizing, ItemInfo.length > 0, Top.reading => Live(ItemInfo.dec),
         NEW e \in Windows(Len(input)), NEW k \in Nat, NEW items, ItemsAre(items),
         ReadOK(input, Top.type, Field, ItemInfo.length, e, k),
         NEW h, NEW how, how = "" \/ how = "reported" \/ how = "silently",
         NEW g, Reading(Top, g, Field, e, k, items), Step(g, h, how),
         how = "reported" => ~ Live(e),
         e.pos = -OUT_OF_MEMORY => OutOfMemory(Top) \/ how = "reported"
  PROVE  MessageInv'
<1>1. /\ ~ Idle /\ Follows(input, Top, g)
      /\ ReadOK(input, Top.type, Field, ItemInfo.length, e, k) => CountOK(input, g)
      /\ Failed(Top) \/ ~ Live(e) => Failed(g)
      /\ OutOfMemory(g) => OutOfMemory(Top) \/ e.pos = -OUT_OF_MEMORY
  BY ReadingTop
<1>2. Step(g, h, how)
  OBVIOUS
<1>3. /\ CountOK(input, g)
      /\ Failed(Top) \/ how = "reported" => Failed(g)
      /\ OutOfMemory(g) => OutOfMemory(Top) \/ how = "reported"
  BY <1>1
<1> QED
  BY <1>1, <1>2, <1>3, StepKeeps

LEMMA ItemKeeps ==
  ASSUME MessageInv, Finalizing, ItemInfo.length > 0, Top.reading => Live(ItemInfo.dec),
         NEW d \in Windows(Len(input)), NEW k \in Nat, k < ItemInfo.length,
         NEW items, ItemsAre(items), ItemType \in MessageTypes,
         d.pos = -OUT_OF_MEMORY => OutOfMemory(Top),
         NEW wire_type, NEW q,
         Reaches(input, ItemType, Field, Sum(CountItems(input, ItemType, d, wire_type), k),
                 [dec |-> q, count |-> ItemInfo.length]),
         NEW h, NEW m, DOMAIN m = FieldsOf(ItemType), NEW g,
         LET r == decoder_read_length_delimited(input, d, LENGTH_DELIMITED)
         IN  Reading(Top, g, Field, r.dec, k, items) /\ Call(g, h, Field, SubFrame(ItemType, r, m))
  PROVE  MessageInv'
<1> DEFINE r == decoder_read_length_delimited(input, d, LENGTH_DELIMITED)
           s == decoder_init_slice(r.dec, int(r.value))
           e == r.dec
           child == SubFrame(ItemType, r, m)
           c == Started(ItemType, s, m, Field)
<1>1. /\ ~ Idle /\ Field = Top.todo[1] /\ Field \in RepeatedFields(Top.type)
      /\ ItemType = TypeOf(Top.type, Field) /\ Top.type \in MessageTypes
      /\ InfoOK(input, ItemInfo) /\ ItemInfo = Top.infos[Field] /\ input \in Seq(Byte)
  BY FinalizingIs DEF ItemType, ItemInfo
<1>2. /\ Reads(d, e, Len(input)) /\ s \in Windows(Len(input)) /\ s.pos # -OUT_OF_MEMORY
  BY <1>1, SubWindow
<1>3. ReadOK(input, Top.type, Field, ItemInfo.length, decoder_seek(e, s.size), k + 1)
  <2> DEFINE t == Top.type  n == Field  length == ItemInfo.length
  <2>1. /\ t \in MessageTypes /\ n \in RepeatedFields(t) /\ TypeOf(t, n) \in MessageTypes
        /\ length \in Nat
        /\ Reaches(input, TypeOf(t, n), n, Sum(CountItems(input, TypeOf(t, n), d, wire_type), k),
                   [dec |-> q, count |-> length])
    BY <1>1 DEF InfoOK
  <2> HIDE DEF t, n, length
  <2>2. ReadOK(input, t, n, length, decoder_seek(e, s.size), k + 1)
    BY <1>1, <2>1, ItemOK
  <2> QED
    BY <2>2 DEF t, n, length
<1>4. /\ FrameOK(input, c) /\ CountOK(input, c) /\ ~ OutOfMemory(c)
      /\ c.dec = s /\ c.type = ItemType /\ c.field = Field
  <2>1. ItemType \in MessageTypes
    OBVIOUS
  <2> HIDE DEF s
  <2> QED
    BY <1>2, <2>1, FreshFrame
<1>5. Reading(Top, g, Field, e, k, items) /\ Call(g, h, Field, child) /\ c = [child EXCEPT !.field = Field]
  BY DEF Started, SubFrame
<1>6. e \in Windows(Len(input)) /\ (e.pos = -OUT_OF_MEMORY => OutOfMemory(Top))
  BY <1>2 DEF Reads, Runs
<1> HIDE DEF r, s, e, child, c
<1>7. /\ Follows(input, Top, g) /\ ReadingOK(Top, g, Field, e, k)
      /\ \A size :
           ReadOK(input, Top.type, Field, ItemInfo.length, decoder_seek(e, size), k + 1) =>
             WaitOK(input, g, size)
      /\ Failed(Top) \/ ~ Live(e) => Failed(g)
      /\ OutOfMemory(g) => OutOfMemory(Top) \/ e.pos = -OUT_OF_MEMORY
  BY <1>5, <1>6, ReadingTop
<1>8. WaitOK(input, g, c.dec.size)
  BY <1>3, <1>4, <1>7
<1>9. LinkOK(g, c)
  <2>1. /\ g.type = Top.type /\ g.todo = Top.todo /\ ~ g.scanning /\ g.reading /\ g.index = k
        /\ g.infos[Field].length = Top.infos[Field].length
    BY <1>7 DEF ReadingOK
  <2> QED
    BY <1>1, <1>4, <2>1 DEF LinkOK
<1>10. (Failed(Top) => Failed(g)) /\ (OutOfMemory(g) => OutOfMemory(Top))
  BY <1>6, <1>7
<1> QED
  BY <1>1, <1>4, <1>5, <1>7, <1>8, <1>9, <1>10, CallKeeps

(* A group of items stored, and a call for the next, where the scan counted
   them. *)
LEMMA StoreGroupKeeps ==
  ASSUME MessageInv, Finalizing, ItemInfo.length > 0, Top.reading => Live(ItemInfo.dec),
         NEW d \in Windows(Len(input)), NEW items, ItemsAre(items), ItemType \in LeafTypes,
         d.pos = -OUT_OF_MEMORY => OutOfMemory(Top),
         NEW wire_type, NEW q,
         Reaches(input, ItemType, Field, Sum(CountItems(input, ItemType, d, wire_type), Top.index),
                 [dec |-> q, count |-> ItemInfo.length]),
         NEW top, Prepared(Top, top, Field, items), NEW h,
         StoreGroup(top, d, h, wire_type)
  PROVE  MessageInv'
<1> DEFINE r == ReadGroup(input, ItemType, d, h, wire_type)
           places == top.index + 1 .. top.index + Len(r.values)
           store(i) == IF i \in places THEN r.values[i - top.index] ELSE top.msg[Field][i]
           k == Top.index + Len(r.values)
           stored == [i \in DOMAIN items \cup places |-> store(i)]
<1>1. Step([top EXCEPT !.infos[Field].dec = r.dec, !.reading = TRUE,
                       !.index = @ + Len(r.values),
                       !.msg[Field] = [i \in DOMAIN @ \cup places |-> store(i)]], r.heap, r.refused)
  BY DEF StoreGroup
<1>2. /\ FrameOK(input, Top) /\ DOMAIN Top = FrameFields /\ Field \in DOMAIN Top.msg
      /\ Field \in RepeatedFields(Top.type) /\ Top.type \in MessageTypes
      /\ InfoOK(input, ItemInfo) /\ input \in Seq(Byte) /\ ItemType = TypeOf(Top.type, Field)
  BY FinalizingIs DEF ItemType
<1>3. Top.index \in Nat
  BY <1>2 DEF FrameOK
<1>4. top.msg[Field] = items /\ top.index = Top.index
      /\ DOMAIN top = FrameFields /\ Field \in DOMAIN top.msg
  BY <1>2 DEF Prepared
<1>5. [top EXCEPT !.infos[Field].dec = r.dec, !.reading = TRUE, !.index = @ + Len(r.values),
                  !.msg[Field] = [i \in DOMAIN @ \cup places |-> store(i)]]
        = Stored(top, Field, r.dec, k, stored)
  <2> DEFINE n == Field  u == r.dec  v == Len(r.values)
             m(s) == [i \in DOMAIN s \cup places |-> store(i)]
  <2>1. DOMAIN top = FrameFields /\ n \in DOMAIN top.msg
    BY <1>4
  <2> HIDE DEF n, u, v, store, places
  <2>2. [top EXCEPT !.infos[n].dec = u, !.reading = TRUE, !.index = @ + v, !.msg[n] = m(@)]
          = Stored(top, n, u, top.index + v, m(top.msg[n]))
    BY <2>1 DEF FrameFields, Stored
  <2> QED
    BY <1>4, <2>2 DEF n, u, v
<1>6. Step(Stored(top, Field, r.dec, k, stored), r.heap, r.refused)
  BY <1>1, <1>5
<1>7. LeafRead(d, r, Len(input)) /\ Len(r.values) \in Nat
  BY <1>2, GroupReads
<1>8. ReadOK(input, Top.type, Field, ItemInfo.length, r.dec, k)
  <2> DEFINE t == Top.type  n == Field  length == ItemInfo.length  i == Top.index
  <2>1. /\ t \in MessageTypes /\ n \in RepeatedFields(t) /\ TypeOf(t, n) \in LeafTypes
        /\ ItemType = TypeOf(t, n) /\ length \in Nat /\ i \in Nat /\ input \in Seq(Byte)
        /\ Reaches(input, TypeOf(t, n), n, Sum(CountItems(input, TypeOf(t, n), d, wire_type), i),
                   [dec |-> q, count |-> length])
    BY <1>2, <1>3 DEF InfoOK
  <2> HIDE DEF t, n, length, i
  <2>2. ReadOK(input, t, n, length, r.dec, i + Len(r.values))
    BY <2>1, GroupOK
  <2> QED
    BY <2>2 DEF t, n, length, i
<1>9. ItemsAre(stored)
  <2>1. ~ (ItemType \in MessageTypes)
    BY MessageAssumption
  <2> QED
    BY <2>1 DEF ItemsAre
<1> DEFINE e == r.dec  how == r.refused
<1>10. /\ e \in Windows(Len(input)) /\ k \in Nat
       /\ how = "" \/ how = "reported" \/ how = "silently"
       /\ how = "reported" => ~ Live(e)
       /\ e.pos = -OUT_OF_MEMORY => OutOfMemory(Top) \/ how = "reported"
  <2>1. Runs(d, e, Len(input)) /\ how \in {"", "reported"}
    BY <1>7 DEF LeafRead
  <2>2. how = "reported" => ~ Live(e)
    BY <1>7 DEF LeafRead
  <2>3. e.pos = -OUT_OF_MEMORY => d.pos = -OUT_OF_MEMORY \/ how = "reported"
    BY <1>7 DEF LeafRead
  <2>4. e \in Windows(Len(input))
    BY <2>1 DEF Runs
  <2>5. k \in Nat
    <3> DEFINE i == Top.index  j == Len(r.values)
    <3>1. i \in Nat /\ j \in Nat
      BY <1>3, <1>7
    <3> HIDE DEF i, j
    <3>2. i + j \in Nat
      BY <3>1
    <3> QED
      BY <3>2 DEF i, j
  <2> HIDE DEF e, how, k
  <2> QED
    BY <2>1, <2>2, <2>3, <2>4, <2>5
<1>11. Step(Stored(top, Field, e, k, stored), r.heap, how)
       /\ ReadOK(input, Top.type, Field, ItemInfo.length, e, k)
  BY <1>6, <1>8
<1> HIDE DEF e, how, k, stored, r
<1>12. Reading(Top, Stored(top, Field, e, k, stored), Field, e, k, stored)
  BY <1>2, FinalizingIs, StoredIs
<1> DEFINE g == Stored(top, Field, e, k, stored)  u == r.heap
<1>13. Reading(Top, g, Field, e, k, stored) /\ Step(g, u, how)
  BY <1>11, <1>12
<1> HIDE DEF g, u
<1> QED
  BY <1>9, <1>10, <1>11, <1>13, StoreKeeps

LEMMA ReadItemKeeps ==
  ASSUME MessageInv, Finalizing, ItemInfo.length > 0, Top.reading => Live(ItemInfo.dec),
         NEW d \in Windows(Len(input)), NEW items, ItemsAre(items), ItemType \in MessageTypes,
         d.pos = -OUT_OF_MEMORY => OutOfMemory(Top), Top.index < ItemInfo.length,
         NEW wire_type, NEW q,
         Reaches(input, ItemType, Field, Sum(CountItems(input, ItemType, d, wire_type), Top.index),
                 [dec |-> q, count |-> ItemInfo.length]),
         NEW top, Prepared(Top, top, Field, items), NEW h, ReadItem(top, d, h)
  PROVE  MessageInv'
<1> DEFINE r == decoder_read_length_delimited(input, d, LENGTH_DELIMITED)
           k == Top.index
           m == items[k + 1]
<1>1. Call([top EXCEPT !.infos[Field].dec = r.dec, !.reading = TRUE], h, Field,
           SubFrame(ItemType, r, top.msg[Field][top.index + 1]))
  BY DEF ReadItem
<1>2. /\ FrameOK(input, Top) /\ DOMAIN Top = FrameFields /\ Field \in DOMAIN Top.msg
      /\ InfoOK(input, ItemInfo)
  BY FinalizingIs
<1>3. k \in Nat /\ ItemInfo.length \in Nat
  BY <1>2 DEF FrameOK, InfoOK
<1>4. Reading(Top, Fetched(top, Field, r.dec), Field, r.dec, k, items)
  <2> DEFINE e == r.dec
  <2> HIDE DEF e
  <2>1. Reading(Top, Fetched(top, Field, e), Field, e, Top.index, items)
    BY <1>2, FinalizingIs, FetchedIs
  <2> QED
    BY <2>1 DEF e
<1>5. Call(Fetched(top, Field, r.dec), h, Field, SubFrame(ItemType, r, m))
  BY <1>1 DEF Prepared, Fetched
<1>6. DOMAIN m = FieldsOf(ItemType)
  <2> DEFINE length == ItemInfo.length  i == k
  <2>1. i \in Nat /\ length \in Nat /\ i < length
    BY <1>3
  <2> HIDE DEF length, i
  <2>2. i + 1 \in 1 .. length
    BY <2>1
  <2>3. \A j \in 1 .. length : DOMAIN items[j] = FieldsOf(ItemType)
    BY DEF ItemsAre, length
  <2> QED
    BY <2>2, <2>3 DEF i
<1>7. k < ItemInfo.length
      /\ Reaches(input, ItemType, Field, Sum(CountItems(input, ItemType, d, wire_type), k),
                 [dec |-> q, count |-> ItemInfo.length])
  OBVIOUS
<1> DEFINE g == Fetched(top, Field, r.dec)
<1>8. Reading(Top, g, Field, r.dec, k, items) /\ Call(g, h, Field, SubFrame(ItemType, r, m))
  BY <1>4, <1>5
<1> HIDE DEF k, m, g
<1> QED
  BY <1>3, <1>6, <1>7, <1>8, ItemKeeps

LEMMA FirstItemsKeeps ==
  ASSUME MessageInv, FirstItems
  PROVE  MessageInv'
<1> DEFINE items == FreshItems
           top == [Top EXCEPT !.msg[Field] = items]
           h == Allocation.heap
           d == ItemInfo.dec
           wire_type == ItemInfo.wire_type
<1>1. /\ StartItems /\ Finalizing /\ ~ Top.reading /\ ItemInfo.length > 0
      /\ ItemType \in MessageTypes => ReadItem(top, d, h)
      /\ ItemType \notin MessageTypes => StoreGroup(top, d, h, wire_type)
  <2>1. StartItems /\ Finalizing /\ ~ Top.reading /\ ItemInfo.length > 0
    BY DEF FirstItems, StartItems
  <2>2. (ItemType \in MessageTypes => ReadItem(top, d, h))
        /\ (ItemType \notin MessageTypes => StoreGroup(top, d, h, wire_type))
    BY DEF FirstItems
  <2> QED
    BY <2>1, <2>2
<1>2. /\ FrameOK(input, Top) /\ CountOK(input, Top) /\ ~ Top.scanning
      /\ Field = Top.todo[1] /\ Field \in RepeatedFields(Top.type)
      /\ ItemType \in LeafTypes \cup MessageTypes /\ InfoOK(input, ItemInfo)
  BY <1>1, FinalizingIs
<1>3. Top.index = 0
  BY <1>1, <1>2 DEF FrameOK
<1>4. PICK q : Reaches(input, ItemType, Field, Sum(CountItems(input, ItemType, d, wire_type), Top.index),
                       [dec |-> q, count |-> ItemInfo.length])
  <2>1. 1 \in 1 .. Len(Top.todo)
    <3> DEFINE todo == Top.todo
    <3>1. todo \in Seq(RepeatedFields(Top.type)) /\ todo # <<>>
      BY <1>1, <1>2 DEF FrameOK, Finalizing
    <3> HIDE DEF todo
    <3>2. 1 \in 1 .. Len(todo)
      BY <3>1
    <3> QED
      BY <3>2 DEF todo
  <2>2. CountedOK(input, Top.type, Top.todo[1], Top.infos[Top.todo[1]])
    BY <1>1, <1>2, <2>1 DEF CountOK
  <2>3. CountedOK(input, Top.type, Field, ItemInfo)
    BY <1>2, <2>2 DEF ItemInfo
  <2>4. \E q : Reaches(input, ItemType, Field, FirstTag(input, ItemType, ItemInfo),
                       [dec |-> q, count |-> ItemInfo.length])
    BY <1>1, <2>3 DEF CountedOK, ItemType
  <2> QED
    BY <1>3, <2>4 DEF FirstTag
<1>5. ItemsAre(items)
  <2>1. DOMAIN EmptyMessage(ItemType) = FieldsOf(ItemType)
    BY DEF EmptyMessage
  <2> QED
    BY <2>1 DEF ItemsAre, FreshItems
<1>6. d \in Windows(Len(input)) /\ ItemInfo.length \in Nat
  BY <1>2 DEF InfoOK
<1>7. d.pos = -OUT_OF_MEMORY => OutOfMemory(Top)
  BY <1>2 DEF OutOfMemory, ItemInfo
<1>10. Prepared(Top, top, Field, items)
  <2>1. DOMAIN Top = FrameFields /\ Field \in DOMAIN Top.msg
    BY <1>1, FinalizingIs
  <2> HIDE DEF items
  <2> QED
    BY <2>1 DEF Prepared, FrameFields
<1> HIDE DEF items, top, h, d, wire_type
<1>8. CASE ItemType \in MessageTypes
  <2>1. ReadItem(top, d, h) /\ Prepared(Top, top, Field, items)
    BY <1>1, <1>8, <1>10
  <2>2. Top.index < ItemInfo.length
    BY <1>1, <1>3
  <2>3. Top.reading => Live(ItemInfo.dec)
    BY <1>1
  <2> QED
    BY <1>1, <1>4, <1>5, <1>6, <1>7, <1>8, <2>1, <2>2, <2>3, ReadItemKeeps
<1>9. CASE ItemType \notin MessageTypes
  <2>1. StoreGroup(top, d, h, wire_type) /\ Prepared(Top, top, Field, items)
    BY <1>1, <1>9, <1>10
  <2>2. ItemType \in LeafTypes
    BY <1>2, <1>9
  <2>3. Top.reading => Live(ItemInfo.dec)
    BY <1>1
  <2> QED
    BY <1>1, <1>4, <1>5, <1>6, <1>7, <2>1, <2>2, <2>3, StoreGroupKeeps
<1> QED
  BY <1>8, <1>9

(* The tag that the reading pass reads next: what the scan counted goes on
   there, with its items if it is of the field. *)
LEMMA MoreItemsIs ==
  ASSUME MessageInv, MoreItems
  PROVE  LET tag == pbtools_decoder_read_tag(input, ItemInfo.dec)
             c == CountItems(input, ItemType, tag.dec, tag.wire_type)
             e == pbtools_decoder_skip_field(input, tag.dec, tag.wire_type)
         IN  /\ Finalizing /\ ItemInfo.length > 0 /\ (Top.reading => Live(ItemInfo.dec))
             /\ tag.dec \in Windows(Len(input)) /\ Top.index \in Nat /\ Top.index < ItemInfo.length
             /\ tag.dec.pos = -OUT_OF_MEMORY => OutOfMemory(Top)
             /\ ItemsAre(Top.msg[Field]) /\ Prepared(Top, Top, Field, Top.msg[Field])
             /\ \E q :
                  /\ tag.field_number = Field =>
                       Reaches(input, ItemType, Field, Sum(c, Top.index),
                               [dec |-> q, count |-> ItemInfo.length])
                  /\ tag.field_number # Field =>
                       Reaches(input, ItemType, Field, [dec |-> Canon(e), count |-> Top.index],
                               [dec |-> q, count |-> ItemInfo.length])
<1> DEFINE tag == pbtools_decoder_read_tag(input, ItemInfo.dec)
           t == Top.type
           n == Field
           length == ItemInfo.length
           d == ItemInfo.dec
           k == Top.index
<1>1. Finalizing /\ Top.reading /\ pbtools_decoder_available(d) /\ k < length
  BY DEF MoreItems, are_more_items_to_decode
<1>2. /\ FrameOK(input, Top) /\ CountOK(input, Top) /\ DOMAIN Top = FrameFields
      /\ Field = Top.todo[1] /\ n \in RepeatedFields(t) /\ t \in MessageTypes
      /\ InfoOK(input, ItemInfo) /\ input \in Seq(Byte) /\ Field \in DOMAIN Top.msg
  BY <1>1, FinalizingIs
<1>3. ItemsOK(Top, Field) /\ k \in Nat
  BY <1>1, <1>2 DEF FrameOK
<1>4. ItemInfo.length > 0 /\ ItemsAre(Top.msg[Field])
  BY <1>3 DEF ItemsOK, ItemsAre, ItemInfo, ItemType
<1>5. d \in Windows(Len(input)) /\ length \in Nat
  BY <1>2 DEF InfoOK
<1>6. Live(d)
  <2> HIDE DEF d
  <2> QED
    BY <1>1, <1>5, LiveOrDead
<1>7. ReadOK(input, t, n, length, d, k)
  BY <1>1, <1>2 DEF CountOK, ItemInfo
<1>8. Prepared(Top, Top, Field, Top.msg[Field])
  BY <1>2 DEF Prepared
<1>9. ItemType = TypeOf(t, n)
  BY DEF ItemType
<1>10. d.pos = -OUT_OF_MEMORY => OutOfMemory(Top)
  BY <1>2 DEF OutOfMemory, ItemInfo
<1> HIDE DEF t, n, length, d, k
<1>11. /\ tag.dec \in Windows(Len(input))
       /\ tag.dec.pos = -OUT_OF_MEMORY => d.pos = -OUT_OF_MEMORY
  BY <1>2, <1>5, TagReads DEF Reads, Runs, d
<1> DEFINE type == TypeOf(t, n)
           c == CountItems(input, type, tag.dec, tag.wire_type)
           e == pbtools_decoder_skip_field(input, tag.dec, tag.wire_type)
<1>12. tag = pbtools_decoder_read_tag(input, d)
  BY DEF d
<1> HIDE DEF tag
<1>13. k < length /\ pbtools_decoder_available(d)
  BY <1>1 DEF k, length, d
<1>14. \E q : /\ tag.field_number = n =>
                   Reaches(input, type, n, Sum(c, k), [dec |-> q, count |-> length])
              /\ tag.field_number # n =>
                   Reaches(input, type, n, [dec |-> Canon(e), count |-> k],
                           [dec |-> q, count |-> length])
  BY <1>2, <1>3, <1>5, <1>7, <1>12, <1>13, ReadOn
<1> QED
  BY <1>1, <1>3, <1>4, <1>6, <1>8, <1>9, <1>10, <1>11, <1>14 DEF tag, t, n, length, d, k

LEMMA NextItemsKeeps ==
  ASSUME MessageInv, MoreItems, NextItems(pbtools_decoder_read_tag(input, ItemInfo.dec))
  PROVE  MessageInv'
<1> DEFINE tag == pbtools_decoder_read_tag(input, ItemInfo.dec)
           d == tag.dec
           wire_type == tag.wire_type
           items == Top.msg[Field]
<1>1. /\ tag.field_number = Field
      /\ ItemType \in MessageTypes => ReadItem(Top, d, heap)
      /\ ItemType \notin MessageTypes => StoreGroup(Top, d, heap, wire_type)
  BY DEF NextItems
<1>2. /\ Finalizing /\ ItemInfo.length > 0 /\ (Top.reading => Live(ItemInfo.dec))
      /\ d \in Windows(Len(input)) /\ Top.index < ItemInfo.length
      /\ d.pos = -OUT_OF_MEMORY => OutOfMemory(Top)
      /\ ItemsAre(items) /\ Prepared(Top, Top, Field, items)
  BY MoreItemsIs
<1>3. PICK q : Reaches(input, ItemType, Field, Sum(CountItems(input, ItemType, d, wire_type), Top.index),
                       [dec |-> q, count |-> ItemInfo.length])
  BY <1>1, MoreItemsIs
<1>4. ItemType \in LeafTypes \cup MessageTypes
  BY <1>2, FinalizingIs
<1> DEFINE top == Top  h == heap
<1>5. /\ Prepared(Top, top, Field, items)
      /\ ItemType \in MessageTypes => ReadItem(top, d, h)
      /\ ItemType \notin MessageTypes => StoreGroup(top, d, h, wire_type)
  BY <1>1, <1>2
<1> HIDE DEF items, top, h, d, wire_type, tag
<1>6. CASE ItemType \in MessageTypes
  BY <1>2, <1>3, <1>5, <1>6, ReadItemKeeps
<1>7. CASE ItemType \notin MessageTypes
  BY <1>2, <1>3, <1>4, <1>5, <1>7, StoreGroupKeeps
<1> QED
  BY <1>6, <1>7

LEMMA SkipOtherKeeps ==
  ASSUME MessageInv, MoreItems, SkipOther(pbtools_decoder_read_tag(input, ItemInfo.dec))
  PROVE  MessageInv'
<1> DEFINE tag == pbtools_decoder_read_tag(input, ItemInfo.dec)
           e == pbtools_decoder_skip_field(input, tag.dec, tag.wire_type)
           k == Top.index
           items == Top.msg[Field]
<1>1. tag.field_number # Field /\ Step([Top EXCEPT !.infos[Field].dec = e], heap, "")
  BY DEF SkipOther
<1>2. /\ Finalizing /\ ItemInfo.length > 0 /\ (Top.reading => Live(ItemInfo.dec))
      /\ tag.dec \in Windows(Len(input)) /\ k \in Nat /\ k < ItemInfo.length
      /\ tag.dec.pos = -OUT_OF_MEMORY => OutOfMemory(Top)
      /\ ItemsAre(items) /\ Prepared(Top, Top, Field, items)
  BY MoreItemsIs
<1>3. PICK q : Reaches(input, ItemType, Field, [dec |-> Canon(e), count |-> k],
                       [dec |-> q, count |-> ItemInfo.length])
  BY <1>1, MoreItemsIs
<1>4. Reads(tag.dec, e, Len(input))
  <2>1. input \in Seq(Byte)
    BY <1>2, FinalizingIs
  <2> HIDE DEF tag
  <2> QED
    BY <1>2, <2>1, SkipReads DEF e
<1>5. e \in Windows(Len(input)) /\ (e.pos = -OUT_OF_MEMORY => OutOfMemory(Top))
  <2> HIDE DEF e
  <2> QED
    BY <1>2, <1>4 DEF Reads, Runs
<1>6. DOMAIN Top = FrameFields /\ Top.reading /\ Top.reading \in BOOLEAN
      /\ Field \in DOMAIN Top.msg /\ InfoOK(input, ItemInfo) /\ ItemType = TypeOf(Top.type, Field)
  BY <1>2, FinalizingIs DEF FrameOK, MoreItems, ItemType
<1>7. /\ [Top EXCEPT !.infos[Field].dec = e] = Fetched(Top, Field, e)
      /\ Reading(Top, Fetched(Top, Field, e), Field, e, k, items)
  <2> HIDE DEF e, items
  <2>1. Reading(Top, Fetched(Top, Field, e), Field, e, Top.index, items)
    BY <1>2, FinalizingIs, FetchedIs
  <2> DEFINE f == Top  n == Field
  <2>2. DOMAIN f = FrameFields /\ f.reading = TRUE
    BY <1>6
  <2> HIDE DEF f, n
  <2>3. Fetched(f, n, e) = [f EXCEPT !.infos[n].dec = e]
    BY <2>2 DEF Fetched, FrameFields
  <2> QED
    BY <2>1, <2>3 DEF f, n
<1>8. ReadOK(input, Top.type, Field, ItemInfo.length, e, k)
  <2>1. k <= ItemInfo.length
    <3> DEFINE length == ItemInfo.length
    <3>1. k \in Nat /\ length \in Nat /\ k < length
      BY <1>2, <1>6 DEF InfoOK
    <3> HIDE DEF k, length
    <3>2. k <= length
      BY <3>1
    <3> QED
      BY <3>2 DEF length
  <2> HIDE DEF k, e
  <2> QED
    BY <1>3, <1>6, <2>1 DEF ReadOK
<1> DEFINE how == ""  h == heap  g == Fetched(Top, Field, e)
<1>9. /\ how = "" \/ how = "reported" \/ how = "silently"
      /\ Reading(Top, g, Field, e, k, items) /\ Step(g, h, how)
      /\ how = "reported" => ~ Live(e)
  BY <1>1, <1>7
<1> HIDE DEF how, h, e, k, items, g
<1> QED
  BY <1>2, <1>5, <1>8, <1>9, StoreKeeps
-----------------------------------------------------------------------------
(* A call returns: its caller goes on behind the window that it was given. *)
LEMMA ReturnIs ==
  ASSUME MessageInv, Returning, Depth > 1
  PROVE  /\ ~ Idle /\ FrameOK(input, Top) /\ FrameOK(input, Caller) /\ LinkOK(Caller, Top)
         /\ WaitOK(input, Caller, Top.dec.pos)
         /\ Failed(Top) => ~ Live(Top.dec)
         /\ \A d \in Windows(Len(input)) :
              /\ Runs(d, GiveBack(d), Len(input))
              /\ ~ Live(d) \/ ~ Live(Top.dec) => ~ Live(GiveBack(d))
              /\ GiveBack(d).pos = -OUT_OF_MEMORY => d.pos = -OUT_OF_MEMORY \/ OutOfMemory(Top)
<1> DEFINE u == Top.dec
<1>1. /\ ~ Idle /\ FrameOK(input, Top) /\ ~ Top.scanning /\ Top.todo = <<>>
  BY TopIs DEF Returning
<1>2. FrameOK(input, Caller) /\ LinkOK(Caller, Top) /\ WaitOK(input, Caller, u.size)
  BY <1>1, CallerIs
<1>3. u \in Windows(Len(input)) /\ ~ pbtools_decoder_available(u)
  BY <1>1 DEF FrameOK
<1>4. Failed(Top) => ~ Live(u)
  BY <1>1 DEF Failed, FrameOK
<1>5. u.pos = -OUT_OF_MEMORY => OutOfMemory(Top)
  BY DEF OutOfMemory
<1>6. \A d : GiveBack(d) = decoder_seek(d, u.pos)
  BY DEF GiveBack, decoder_get_result
<1> HIDE DEF u
<1>7. u.pos = u.size /\ u.pos \in Int /\ (Live(u) => u.pos \in Nat) /\ (~ Live(u) => -u.pos \in Errors)
  BY <1>3, LiveOrDead DEF Live, Dead, decoder_left, pbtools_decoder_available
<1>8. ASSUME NEW d \in Windows(Len(input))
      PROVE  /\ Runs(d, decoder_seek(d, u.pos), Len(input))
             /\ ~ Live(d) \/ ~ Live(u) => ~ Live(decoder_seek(d, u.pos))
             /\ decoder_seek(d, u.pos).pos = -OUT_OF_MEMORY =>
                  d.pos = -OUT_OF_MEMORY \/ u.pos = -OUT_OF_MEMORY
  <2> DEFINE offset == u.pos
             e == decoder_seek(d, offset)
  <2>1. offset \in Int /\ (offset >= 0 \/ -offset \in Errors) /\ (~ Live(u) => offset < 0)
    BY <1>7 DEF Errors
  <2>2. Live(u) => offset \in Nat
    BY <1>7
  <2> HIDE DEF offset
  <2>3. /\ Runs(d, e, Len(input)) /\ (Live(e) => Live(d) /\ 0 <= offset)
        /\ Live(d) /\ offset < 0 => e.pos = offset
    BY <2>1, SeekRuns
  <2>4. offset \in Nat => Reads(d, e, Len(input))
    BY SeekReads
  <2> HIDE DEF e
  <2>5. ~ Live(d) => e = d
    BY <2>3, LiveOrDead DEF Runs
  <2>6. ~ Live(d) \/ ~ Live(u) => ~ Live(e)
    BY <2>1, <2>3
  <2>7. e.pos = -OUT_OF_MEMORY => d.pos = -OUT_OF_MEMORY \/ offset = -OUT_OF_MEMORY
    <3>1. CASE offset \in Nat
      BY <2>4, <3>1 DEF Reads
    <3>2. CASE offset \notin Nat
      <4>1. offset < 0
        BY <2>1, <3>2
      <4> QED
        BY <2>3, <2>5, <4>1
    <3> QED
      BY <3>1, <3>2
  <2> QED
    BY <2>3, <2>6, <2>7 DEF e, offset
<1> QED
  BY <1>1, <1>2, <1>4, <1>5, <1>6, <1>7, <1>8 DEF u

LEMMA ReturnSubMessageKeeps ==
  ASSUME MessageInv, ReturnSubMessage
  PROVE  MessageInv'
<1> DEFINE f == Caller
           e == GiveBack(f.dec)
           m == Assign(f.type, f.msg, Top.field, <<Top.msg>>)
           g == Scanned(f, e, m, f.infos)
<1>1. Returning /\ Depth > 1 /\ f.scanning
      /\ ReturnTo([Caller EXCEPT !.dec = GiveBack(@),
                                 !.msg = Assign(Caller.type, @, Top.field, <<Top.msg>>)])
  BY DEF ReturnSubMessage
<1>2. /\ ~ Idle /\ FrameOK(input, f) /\ WaitOK(input, f, Top.dec.pos)
      /\ Failed(Top) => ~ Live(Top.dec)
  BY <1>1, ReturnIs
<1>3. /\ f.dec \in Windows(Len(input)) /\ DOMAIN f = FrameFields /\ ~ f.reading
      /\ DOMAIN f.infos = RepeatedFields(f.type)
      /\ \A n \in RepeatedFields(f.type) : InfoOK(input, f.infos[n])
  BY <1>1, <1>2 DEF FrameOK
<1>4. /\ Runs(f.dec, e, Len(input)) /\ (~ Live(f.dec) \/ ~ Live(Top.dec) => ~ Live(e))
      /\ e.pos = -OUT_OF_MEMORY => f.dec.pos = -OUT_OF_MEMORY \/ OutOfMemory(Top)
  <2> DEFINE d == f.dec
  <2>1. d \in Windows(Len(input))
    BY <1>3
  <2> HIDE DEF d
  <2>2. /\ Runs(d, GiveBack(d), Len(input))
        /\ ~ Live(d) \/ ~ Live(Top.dec) => ~ Live(GiveBack(d))
        /\ GiveBack(d).pos = -OUT_OF_MEMORY => d.pos = -OUT_OF_MEMORY \/ OutOfMemory(Top)
    BY <1>1, <2>1, ReturnIs
  <2> QED
    BY <2>2 DEF d
<1>5. e = decoder_seek(f.dec, Top.dec.pos)
  BY DEF GiveBack, decoder_get_result
<1>6. DOMAIN m = FieldsOf(f.type)
  BY DEF Assign
<1>7. ReturnTo(g)
  <2> HIDE DEF f
  <2>1. [f EXCEPT !.dec = GiveBack(@), !.msg = Assign(f.type, @, Top.field, <<Top.msg>>)]
          = Scanned(f, e, m, f.infos)
    BY <1>3 DEF FrameFields, Scanned
  <2> QED
    BY <1>1, <2>1 DEF f
<1> HIDE DEF f, e, m
<1>8. /\ DOMAIN g = FrameFields /\ g.dec = e /\ g.type = f.type /\ g.msg = m
      /\ g.field = f.field /\ g.infos = f.infos /\ g.todo = f.todo
      /\ g.reading = f.reading /\ g.index = f.index /\ g.scanning = f.scanning
  BY <1>3 DEF FrameFields, Scanned
<1> HIDE DEF g
<1>9. FrameOK(input, g)
  BY <1>1, <1>2, <1>3, <1>4, <1>6, <1>8, ScanFrame
<1>10. Follows(input, f, g)
  BY <1>4, <1>8, <1>9 DEF Follows
<1>11. CountOK(input, g)
  <2>1. \A n \in RepeatedFields(f.type) : ScannedOK(input, f.type, n, f.infos[n], e)
    BY <1>1, <1>2, <1>5 DEF WaitOK
  <2> QED
    BY <1>1, <1>3, <1>8, <2>1 DEF CountOK
<1>12. Failed(f) \/ Failed(Top) => Failed(g)
  BY <1>2, <1>3, <1>4, <1>8 DEF Failed
<1>13. OutOfMemory(g) => OutOfMemory(f) \/ OutOfMemory(Top)
  BY <1>4, <1>8 DEF OutOfMemory
<1> QED
  BY <1>1, <1>2, <1>7, <1>10, <1>11, <1>12, <1>13, ReturnKeeps DEF f

LEMMA ReturnItemKeeps ==
  ASSUME MessageInv, ReturnItem
  PROVE  MessageInv'
<1> DEFINE f == Caller
           n == Top.field
           e == GiveBack(f.infos[n].dec)
           k == f.index + 1
           items == [f.msg[n] EXCEPT ![k] = Top.msg]
           g == [f EXCEPT !.infos[n].dec = e, !.msg[n] = items, !.index = k]
<1>1. Returning /\ Depth > 1 /\ ~ f.scanning
      /\ ReturnTo([Caller EXCEPT !.infos[Top.field].dec = GiveBack(@),
                                 !.msg[Top.field][Caller.index + 1] = Top.msg,
                                 !.index = @ + 1])
  BY DEF ReturnItem
<1>2. /\ ~ Idle /\ FrameOK(input, f) /\ FrameOK(input, Top) /\ LinkOK(f, Top)
      /\ WaitOK(input, f, Top.dec.pos) /\ (Failed(Top) => ~ Live(Top.dec))
  BY <1>1, ReturnIs
<1>3. /\ f.reading /\ n = f.todo[1] /\ Top.type = TypeOf(f.type, n) /\ Top.type \in MessageTypes
      /\ f.index < f.infos[n].length
  BY <1>1, <1>2 DEF LinkOK
<1>4. /\ DOMAIN f = FrameFields /\ f.todo # <<>> /\ ItemsOK(f, n) /\ f.index \in Nat
      /\ DOMAIN f.infos = RepeatedFields(f.type) /\ DOMAIN f.msg = FieldsOf(f.type)
      /\ DOMAIN Top.msg = FieldsOf(Top.type)
      /\ f.scanning \in BOOLEAN /\ f.reading \in BOOLEAN
  BY <1>2, <1>3 DEF FrameOK
<1>5. n \in RepeatedFields(f.type) /\ n \in FieldsOf(f.type)
  <2> DEFINE todo == f.todo  S == RepeatedFields(f.type)
  <2>1. todo \in Seq(S) /\ todo # <<>>
    BY <1>2, <1>4 DEF FrameOK
  <2> HIDE DEF todo, S
  <2>2. todo[1] \in S
    BY <2>1
  <2> QED
    BY <1>3, <2>2 DEF todo, S, RepeatedFields
<1>6. /\ InfoOK(input, f.infos[n]) /\ f.infos[n].dec \in Windows(Len(input))
      /\ f.infos[n].length \in Nat
  BY <1>2, <1>5 DEF FrameOK, InfoOK
<1>7. /\ Runs(f.infos[n].dec, e, Len(input)) /\ e \in Windows(Len(input))
      /\ ~ Live(f.infos[n].dec) \/ ~ Live(Top.dec) => ~ Live(e)
      /\ e.pos = -OUT_OF_MEMORY => f.infos[n].dec.pos = -OUT_OF_MEMORY \/ OutOfMemory(Top)
  <2> DEFINE d == f.infos[n].dec
  <2>1. d \in Windows(Len(input))
    BY <1>6
  <2> HIDE DEF d
  <2>2. /\ Runs(d, GiveBack(d), Len(input))
        /\ ~ Live(d) \/ ~ Live(Top.dec) => ~ Live(GiveBack(d))
        /\ GiveBack(d).pos = -OUT_OF_MEMORY => d.pos = -OUT_OF_MEMORY \/ OutOfMemory(Top)
    BY <1>1, <2>1, ReturnIs
  <2> QED
    BY <2>2 DEF d, Runs
<1>8. e = decoder_seek(f.infos[n].dec, Top.dec.pos)
  BY DEF GiveBack, decoder_get_result
<1>9. ReturnTo(g)
  <2> HIDE DEF f, n
  <2>1. [f EXCEPT !.infos[n].dec = GiveBack(@), !.msg[n][f.index + 1] = Top.msg, !.index = @ + 1] = g
    BY <1>4, <1>5 DEF FrameFields
  <2> QED
    BY <1>1, <2>1 DEF f, n
<1>10. /\ f.infos[n].length > 0 /\ DOMAIN items = 1 .. f.infos[n].length
       /\ \A i \in 1 .. f.infos[n].length : DOMAIN items[i] = FieldsOf(TypeOf(f.type, n))
  <2> DEFINE length == f.infos[n].length  old == f.msg[n]  t == TypeOf(f.type, n)
  <2>1. /\ length > 0 /\ DOMAIN old = 1 .. length
        /\ \A i \in 1 .. length : DOMAIN old[i] = FieldsOf(t)
    BY <1>3, <1>4 DEF ItemsOK
  <2>2. DOMAIN Top.msg = FieldsOf(t)
    BY <1>3, <1>4
  <2> HIDE DEF length, old, t, k
  <2>3. DOMAIN [old EXCEPT ![k] = Top.msg] = 1 .. length
        /\ \A i \in 1 .. length : DOMAIN [old EXCEPT ![k] = Top.msg][i] = FieldsOf(t)
    BY <2>1, <2>2
  <2> QED
    BY <2>1, <2>3 DEF length, old, t
<1> HIDE DEF f, n, e, k, items
<1>11. Reading(f, g, n, e, k, items)
  <2> DEFINE infos == [f.infos EXCEPT ![n].dec = e]
  <2>1. /\ DOMAIN g = FrameFields /\ g.field = f.field /\ g.infos = infos
        /\ g.dec = f.dec /\ g.type = f.type /\ g.todo = f.todo /\ g.scanning = f.scanning
        /\ g.reading = f.reading /\ g.index = k
    BY <1>4 DEF FrameFields
  <2>2. DOMAIN g.msg = DOMAIN f.msg /\ g.msg[n] = items
    BY <1>4, <1>5 DEF FrameFields
  <2>3. /\ DOMAIN infos = DOMAIN f.infos /\ infos[n].dec = e
        /\ infos[n].length = f.infos[n].length
        /\ DOMAIN infos[n] = {"length", "wire_type", "dec"}
        /\ \A m \in RepeatedFields(f.type) : m # n => infos[m] = f.infos[m]
    BY <1>2, <1>5, FetchedInfos
  <2> HIDE DEF g, infos
  <2>4. ~ g.scanning /\ g.reading /\ g.scanning \in BOOLEAN /\ g.reading \in BOOLEAN
    BY <1>1, <1>3, <1>4, <2>1, Zenon
  <2>5. ReadingOK(f, g, n, e, k)
    BY <2>1, <2>3, <2>4 DEF ReadingOK
  <2> QED
    BY <2>1, <2>2, <2>3, <2>4, <2>5 DEF Reading
<1> HIDE DEF g
<1>12. k \in Nat
  BY <1>4, SMTT(40) DEF k
<1>13. Follows(input, f, g)
  BY <1>1, <1>2, <1>3, <1>4, <1>5, <1>7, <1>10, <1>11, <1>12, ReadingFollows
<1>14. CountOK(input, g)
  <2>1. \A i \in 1 .. Len(f.todo) :
          i # 1 => CountedOK(input, f.type, f.todo[i], f.infos[f.todo[i]])
    <3>1. \A i \in 2 .. Len(f.todo) : CountedOK(input, f.type, f.todo[i], f.infos[f.todo[i]])
      BY <1>1, <1>2 DEF WaitOK
    <3>2. \A i \in 1 .. Len(f.todo) : i # 1 => i \in 2 .. Len(f.todo)
      OBVIOUS
    <3> QED
      BY <3>1, <3>2
  <2>2. ReadOK(input, f.type, n, f.infos[n].length, e, k)
    BY <1>1, <1>2, <1>3, <1>8 DEF WaitOK, k
  <2>3. ReadingOK(f, g, n, e, k)
    BY <1>11 DEF Reading
  <2> QED
    BY <1>2, <1>3, <1>4, <1>5, <2>1, <2>2, <2>3, ReadingCounts
<1>15. Failed(f) \/ Failed(Top) => Failed(g)
  <2>1. /\ g.dec = f.dec /\ g.todo = f.todo /\ g.infos[n].dec = e /\ g.reading
    BY <1>11 DEF Reading, ReadingOK
  <2>2. ~ Live(f.infos[n].dec) \/ ~ Live(Top.dec) => Failed(g)
    BY <1>3, <1>7, <2>1 DEF Failed
  <2>3. Failed(f) => ~ Live(f.dec) \/ ~ Live(f.infos[n].dec)
    BY <1>3 DEF Failed
  <2>4. ~ Live(f.dec) => Failed(g)
    BY <2>1 DEF Failed
  <2> QED
    BY <1>2, <2>2, <2>3, <2>4
<1>16. OutOfMemory(g) => OutOfMemory(f) \/ OutOfMemory(Top)
  <2>1. /\ g.dec = f.dec /\ g.infos[n].dec = e /\ g.type = f.type
        /\ \A m \in RepeatedFields(f.type) : m # n => g.infos[m] = f.infos[m]
    BY <1>11 DEF Reading, ReadingOK
  <2> QED
    BY <1>5, <1>7, <2>1 DEF OutOfMemory
<1> QED
  BY <1>1, <1>2, <1>9, <1>13, <1>14, <1>15, <1>16, ReturnKeeps DEF f

(* The run ends: the result tells of the errors that were on their way. *)
LEMMA ReturnResultKeeps ==
  ASSUME MessageInv, ReturnResult
  PROVE  MessageInv'
<1>1. /\ ~ Idle /\ Depth = 1 /\ ~ Top.scanning /\ Top.todo = <<>>
      /\ frames' = <<>> /\ message' = Top.msg /\ result' = Top.dec.pos
      /\ input' = input /\ root' = root /\ refused' = refused /\ decodes' = decodes
  BY DEF ReturnResult, Returning, decoder_get_result
<1>2. FrameOK(input, Top) /\ Top = frames[1]
  BY <1>1, TopIs DEF Top
<1>3. Top.dec \in Windows(Len(input)) /\ DOMAIN Top.msg = FieldsOf(root)
  BY <1>1, <1>2 DEF FrameOK, MessageInv
<1>4. Failed(Top) => ~ Live(Top.dec)
  BY <1>1, <1>2 DEF Failed, FrameOK
<1>5. result' \in Int /\ (Failed(Top) => result' < 0)
  <2> DEFINE d == Top.dec
  <2>1. d \in Windows(Len(input))
    BY <1>3
  <2> HIDE DEF d
  <2>2. d.pos \in Int /\ (~ Live(d) => d.pos < 0)
    BY <2>1, LiveOrDead
  <2> QED
    BY <1>1, <1>4, <2>2 DEF d
<1>6. "reported" \in refused => Failed(Top)
  BY <1>1, <1>2 DEF MessageInv
<1>7. result' = -OUT_OF_MEMORY => "reported" \in refused
  <2>1. result' = -OUT_OF_MEMORY => OutOfMemory(Top)
    BY <1>1 DEF OutOfMemory
  <2> QED
    BY <1>1, <1>2, <2>1 DEF MessageInv
<1>8. Idle' /\ Depth' = 0 /\ FramesOK(input, frames') /\ CountsOK(input, frames')
  <2>1. <<>> \in Seq({}) /\ Len(<<>>) = 0
    OBVIOUS
  <2> QED
    BY <1>1, <2>1 DEF Idle, Depth, FramesOK, CountsOK
<1>9. /\ input \in Seq(Byte) /\ Len(input) <= IntMax /\ root \in Roots
      /\ decodes \in 0 .. MaxDecodes /\ refused \subseteq {"reported", "silently"}
  BY DEF MessageInv
<1> QED
  BY <1>1, <1>3, <1>5, <1>6, <1>7, <1>8, <1>9 DEF MessageInv

LEMMA WholeWindow ==
  ASSUME NEW in \in Seq(Byte), Len(in) <= IntMax
  PROVE  decoder_init(Len(in)) \in Windows(Len(in)) /\ decoder_init(Len(in)).pos = 0
<1>1. Len(in) \in 0 .. IntMax
  OBVIOUS
<1>2. decoder_init(Len(in)) = [base |-> 0, size |-> Len(in), pos |-> 0]
  BY <1>1, IntOfInt DEF decoder_init
<1> QED
  BY <1>1, <1>2, IntAssumption DEF Windows, Decoders, Live

LEMMA message_decodeKeeps ==
  ASSUME MessageInv, MayDecode, NEW in \in Inputs[root], pbtools_message_decode(in)
  PROVE  MessageInv'
<1> DEFINE d == decoder_init(Len(in))
           f == Frame(root, d, message)
           c == Started(root, d, message, 0)
<1>1. /\ input' = in /\ refused' = {} /\ decodes' = decodes + 1 /\ frames' = <<f>>
      /\ root' = root /\ message' = message /\ result' = result
  BY DEF pbtools_message_decode
<1>2. /\ root \in Roots /\ DOMAIN message = FieldsOf(root) /\ result \in Int
      /\ decodes \in 0 .. MaxDecodes
  BY DEF MessageInv
<1>3. in \in Seq(Byte) /\ Len(in) <= IntMax /\ root \in MessageTypes /\ MaxDecodes \in Nat
  BY <1>2, MessageAssumption
<1>4. decodes' \in 0 .. MaxDecodes
  BY <1>1, <1>2, <1>3 DEF MayDecode
<1>5. d \in Windows(Len(in)) /\ d.pos # -OUT_OF_MEMORY
  <2>1. d \in Windows(Len(in)) /\ d.pos = 0
    BY <1>3, WholeWindow
  <2> QED
    BY <2>1 DEF OUT_OF_MEMORY
<1> HIDE DEF d
<1>6. /\ FrameOK(in, c) /\ CountOK(in, c) /\ ~ OutOfMemory(c) /\ c.type = root
  BY <1>2, <1>3, <1>5, FreshFrame
<1>7. c = f
  <2>1. /\ DOMAIN f = FrameFields /\ f = [x \in DOMAIN f |-> f[x]] /\ f.field = 0
        /\ c = [f EXCEPT !.field = 0]
    BY DEF Frame, FrameFields, Started
  <2> HIDE DEF f, c
  <2> QED
    BY <2>1 DEF FrameFields
<1> HIDE DEF f, c
<1>8. /\ frames' # <<>> /\ Len(frames') = 1 /\ frames'[1] = f /\ frames' \in Seq({f})
  BY <1>1
<1>9. FramesOK(in, frames') /\ CountsOK(in, frames')
  <2>1. \A i \in 1 .. 1 : i = 1
    OBVIOUS
  <2>2. \A i \in 1 .. 1 - 1 : FALSE
    OBVIOUS
  <2> QED
    BY <1>6, <1>7, <1>8, <2>1, <2>2 DEF FramesOK, CountsOK
<1>10. ~ Idle' /\ Depth' = 1
  BY <1>8 DEF Idle, Depth
<1>11. \A i \in 1 .. Depth' : ~ OutOfMemory(frames'[i])
  BY <1>6, <1>7, <1>8, <1>10
<1> QED
  BY <1>1, <1>2, <1>3, <1>4, <1>6, <1>7, <1>8, <1>9, <1>10, <1>11 DEF MessageInv

LEMMA InitIs == Init => MessageInv
<1> SUFFICES ASSUME Init
             PROVE  MessageInv
  OBVIOUS
<1>1. /\ root \in Roots /\ message = EmptyMessage(root) /\ input = <<>> /\ frames = <<>>
      /\ result = 0 /\ refused = {} /\ decodes = 0
  BY DEF Init
<1>2. DOMAIN message = FieldsOf(root)
  BY <1>1 DEF EmptyMessage
<1>3. input \in Seq(Byte) /\ Len(input) <= IntMax /\ Len(frames) = 0 /\ frames \in Seq({})
  BY <1>1, IntAssumption
<1>4. 0 \in 0 .. MaxDecodes
  BY MessageAssumption
<1>5. FramesOK(input, frames) /\ CountsOK(input, frames)
  BY <1>1, <1>3 DEF FramesOK, CountsOK
<1>6. Idle /\ Depth = 0 /\ 0 # -OUT_OF_MEMORY
  BY <1>1 DEF Idle, Depth, OUT_OF_MEMORY
<1> QED
  BY <1>1, <1>2, <1>3, <1>4, <1>5, <1>6 DEF MessageInv

LEMMA NextKeeps == MessageInv /\ [Next]_vars => MessageInv'
<1> SUFFICES ASSUME MessageInv, [Next]_vars
             PROVE  MessageInv'
  OBVIOUS
<1>1. CASE MayDecode /\ \E in \in Inputs[root] : pbtools_message_decode(in)
  BY <1>1, message_decodeKeeps
<1>2. CASE Scanning /\ \E tag \in {pbtools_decoder_read_tag(input, Top.dec)} :
             \/ SkipUnknown(tag) \/ DecodeLeaf(tag)
             \/ pbtools_decoder_sub_message_decode(tag) \/ repeated_info_decode(tag)
  <2> DEFINE tag == pbtools_decoder_read_tag(input, Top.dec)
  <2>1. \/ SkipUnknown(tag) \/ DecodeLeaf(tag)
        \/ pbtools_decoder_sub_message_decode(tag) \/ repeated_info_decode(tag)
    BY <1>2
  <2>2. CASE SkipUnknown(tag)
    BY <1>2, <2>2, SkipUnknownKeeps
  <2>3. CASE DecodeLeaf(tag)
    BY <1>2, <2>3, DecodeLeafKeeps
  <2>4. CASE pbtools_decoder_sub_message_decode(tag)
    BY <1>2, <2>4, sub_message_decodeKeeps
  <2>5. CASE repeated_info_decode(tag)
    BY <1>2, <2>5, repeated_info_decodeKeeps
  <2> QED
    BY <2>1, <2>2, <2>3, <2>4, <2>5
<1>3. CASE EndScan
  BY <1>3, EndScanKeeps
<1>4. CASE NothingCounted
  BY <1>4, NothingCountedKeeps
<1>5. CASE ItemsRefused
  BY <1>5, ItemsRefusedKeeps
<1>6. CASE FirstItems
  BY <1>6, FirstItemsKeeps
<1>7. CASE EndItems
  BY <1>7, EndItemsKeeps
<1>8. CASE MoreItems /\ \E tag \in {pbtools_decoder_read_tag(input, ItemInfo.dec)} :
             NextItems(tag) \/ SkipOther(tag)
  BY <1>8, NextItemsKeeps, SkipOtherKeeps
<1>9. CASE ReturnSubMessage \/ ReturnItem \/ ReturnResult
  BY <1>9, ReturnSubMessageKeeps, ReturnItemKeeps, ReturnResultKeeps
<1>10. CASE UNCHANGED vars
  BY <1>10 DEF vars, MessageInv, Idle, Depth, FramesOK, CountsOK
<1>11. Run => \/ Scanning /\ \E tag \in {pbtools_decoder_read_tag(input, Top.dec)} :
                   \/ SkipUnknown(tag) \/ DecodeLeaf(tag)
                   \/ pbtools_decoder_sub_message_decode(tag) \/ repeated_info_decode(tag)
              \/ EndScan \/ NothingCounted \/ ItemsRefused \/ FirstItems \/ EndItems
              \/ MoreItems /\ \E tag \in {pbtools_decoder_read_tag(input, ItemInfo.dec)} :
                   NextItems(tag) \/ SkipOther(tag)
              \/ ReturnSubMessage \/ ReturnItem \/ ReturnResult
  BY Zenon DEF Run
<1>12. Next \/ UNCHANGED vars
  OBVIOUS
<1>13. Next => (MayDecode /\ \E in \in Inputs[root] : pbtools_message_decode(in)) \/ Run
  BY Zenon DEF Next
<1> QED
  BY <1>1, <1>2, <1>3, <1>4, <1>5, <1>6, <1>7, <1>8, <1>9, <1>10, <1>11, <1>12, <1>13
-----------------------------------------------------------------------------
(* The workspace: a request leaves it where it is, and when it is an int takes
   what is left of it at most. *)
HeapType == [buf : Nat, size : 0 .. IntMax, pos : Int]

Grown(h, g) == g.buf = h.buf /\ g.size = h.size /\ (h.pos \in 0 .. h.size => g.pos \in h.pos .. h.size)

KeptHeap(h, g) == g \in HeapType /\ Grown(h, g)

LEMMA KeptSelf == \A h \in HeapType : KeptHeap(h, h)
BY DEF HeapType, KeptHeap, Grown

LEMMA KeptOn ==
  ASSUME NEW h \in HeapType, NEW g, KeptHeap(h, g), NEW f, KeptHeap(g, f)
  PROVE  KeptHeap(h, f)
BY DEF HeapType, KeptHeap, Grown

LEMMA IntIs == \A n \in Int : int(n) \in Int
BY IntAssumption DEF int

LEMMA AllocKeeps ==
  ASSUME NEW h \in HeapType, NEW size \in Nat, NEW alignment \in {1, WordAlign}
  PROVE  LET pad == PadOf(h.buf + h.pos, alignment)
             g == heap_alloc(h, size, alignment).heap
         IN  /\ pad \in 0 .. alignment - 1
             /\ g \in HeapType
             /\ size + pad <= IntMax => KeptHeap(h, g)
<1> DEFINE pad == PadOf(h.buf + h.pos, alignment)
           left == h.size - h.pos
           g == heap_alloc(h, size, alignment).heap
           new == int(h.pos + int(size + pad))
<1>1. h.buf \in Nat /\ h.pos \in Int /\ h.size \in 0 .. IntMax
  BY DEF HeapType
<1>2. pad \in 0 .. alignment - 1
  <2>1. CASE alignment = 1
    BY <1>1, <2>1 DEF PadOf
  <2>2. CASE alignment = 8
    BY <1>1, <2>2 DEF PadOf
  <2> QED
    BY <2>1, <2>2 DEF WordAlign
<1> HIDE DEF pad
<1>3. pad \in Nat /\ size + pad \in Nat
  BY <1>2 DEF WordAlign
<1>4. new \in Int
  <2>1. int(size + pad) \in Int
    BY <1>3, IntIs
  <2>2. h.pos + int(size + pad) \in Int
    BY <1>1, <2>1
  <2> QED
    BY <2>2, IntIs
<1> HIDE DEF new, left
<1>5. g = IF int(size) <= int(left) /\ int(size + pad) <= int(left) THEN [h EXCEPT !.pos = new] ELSE h
  BY DEF heap_alloc, Taken, Refused, pad, left, new
<1> HIDE DEF g
<1>6. g \in HeapType /\ g.buf = h.buf /\ g.size = h.size
  BY <1>1, <1>4, <1>5 DEF HeapType
<1>7. ASSUME size + pad <= IntMax, h.pos \in 0 .. h.size PROVE g.pos \in h.pos .. h.size
  <2>1. size \in 0 .. IntMax /\ size + pad \in 0 .. IntMax /\ left \in 0 .. IntMax
    BY <1>1, <1>3, <1>7, IntAssumption DEF left
  <2>2. int(size) = size /\ int(size + pad) = size + pad /\ int(left) = left
    BY <2>1, IntOfInt
  <2>3. CASE size + pad <= left
    <3>1. h.pos + (size + pad) \in 0 .. IntMax /\ h.pos + (size + pad) \in h.pos .. h.size
      BY <1>1, <1>3, <1>7, <2>3, IntAssumption DEF left
    <3>2. new = h.pos + (size + pad)
      BY <2>2, <3>1, IntOfInt DEF new
    <3>3. g = [h EXCEPT !.pos = new] \/ g = h
      BY <1>5
    <3> QED
      BY <1>1, <1>7, <3>1, <3>2, <3>3 DEF HeapType
  <2>4. CASE ~ (size + pad <= left)
    BY <1>1, <1>5, <1>7, <2>2, <2>4
  <2> QED
    BY <2>3, <2>4
<1>8. size + pad <= IntMax => KeptHeap(h, g)
  BY <1>6, <1>7 DEF KeptHeap, Grown
<1> QED
  BY <1>2, <1>6, <1>8 DEF pad, g

LEMMA LeafHeap ==
  ASSUME NEW in \in Seq(Byte), NEW d \in Windows(Len(in)), NEW type, NEW h \in HeapType,
         NEW wire_type, NEW item
  PROVE  KeptHeap(h, ReadLeaf(in, type, d, h, wire_type, item).heap)
<1> DEFINE l == decoder_read_length_delimited(in, d, wire_type)
           size == l.value + (IF type = "string" THEN 1 ELSE 0)
           a == heap_alloc(h, size, 1)
<1>1. CASE type \in PayloadTypes
  <2>1. l.value \in 0 .. IntMax - 1
    BY LengthReads
  <2> HIDE DEF l
  <2>2. size \in Nat /\ size <= IntMax
    BY <2>1, IntAssumption
  <2> HIDE DEF size
  <2>3. KeptHeap(h, a.heap)
    <3> DEFINE pad == PadOf(h.buf + h.pos, 1)
    <3>1. pad \in 0 .. 1 - 1 /\ (size + pad <= IntMax => KeptHeap(h, a.heap))
      BY <2>2, AllocKeeps
    <3> HIDE DEF pad, a
    <3>2. size + pad <= IntMax
      BY <2>2, <3>1, IntAssumption
    <3> QED
      BY <3>1, <3>2
  <2>4. decoder_read_payload(in, type, d, h, wire_type).heap = a.heap
    BY DEF decoder_read_payload, l, size
  <2> QED
    BY <1>1, <2>3, <2>4 DEF ReadLeaf
<1>2. CASE type \notin PayloadTypes
  BY <1>2, KeptSelf DEF ReadLeaf
<1> QED
  BY <1>1, <1>2

LEMMA GroupHeap ==
  ASSUME NEW in \in Seq(Byte), NEW d \in Windows(Len(in)), NEW type, NEW h \in HeapType,
         NEW wire_type
  PROVE  KeptHeap(h, ReadGroup(in, type, d, h, wire_type).heap)
<1>1. KeptHeap(h, ReadLeaf(in, type, d, h, wire_type, TRUE).heap)
  BY LeafHeap
<1> QED
  BY <1>1, KeptSelf DEF ReadGroup

(* The requests of a sub-message and of the items counted. *)
LEMMA AllocationKeeps ==
  ASSUME MessageInv, StartItems, heap \in HeapType
  PROVE  Allocation.heap \in HeapType /\ (~ RequestWraps => KeptHeap(heap, Allocation.heap))
<1> DEFINE size == SizeOf[ItemType] * ItemInfo.length
           pad == PadOf(heap.buf + heap.pos, WordAlign)
<1>1. /\ ~ Idle /\ Field \in RepeatedFields(Top.type) /\ Top.type \in MessageTypes
      /\ InfoOK(input, ItemInfo) /\ Field \in FieldsOf(Top.type)
      /\ ItemInfo = Top.infos[Field] /\ ItemType = TypeOf(Top.type, Field)
  BY FinalizingIs DEF ItemInfo, ItemType, StartItems
<1>2. SizeOf[ItemType] \in Nat /\ ItemInfo.length \in Nat
  <2>1. SizeOf[ItemType] \in 1 .. IntMax - 8
    BY <1>1, MessageAssumption DEF RepeatedFields
  <2> QED
    BY <1>1, <2>1 DEF InfoOK
<1>3. size \in Nat
  <2> DEFINE a == SizeOf[ItemType]  b == ItemInfo.length
  <2>1. a \in Nat /\ b \in Nat
    BY <1>2
  <2> HIDE DEF a, b
  <2>2. a * b \in Nat
    BY <2>1
  <2> QED
    BY <2>2 DEF a, b
<1>4. RequestWraps <=> size + pad > IntMax
  BY DEF RequestWraps
<1> HIDE DEF size
<1>5. /\ pad \in 0 .. WordAlign - 1
      /\ heap_alloc(heap, size, WordAlign).heap \in HeapType
      /\ size + pad <= IntMax => KeptHeap(heap, heap_alloc(heap, size, WordAlign).heap)
  BY <1>3, AllocKeeps
<1> HIDE DEF pad
<1>6. ~ RequestWraps => size + pad <= IntMax
  BY <1>3, <1>4, <1>5, IntAssumption DEF WordAlign
<1> QED
  BY <1>5, <1>6 DEF Allocation, size

LEMMA sub_message_decodeHeap ==
  ASSUME MessageInv, Scanning, heap \in HeapType,
         pbtools_decoder_sub_message_decode(pbtools_decoder_read_tag(input, Top.dec))
  PROVE  KeptHeap(heap, heap')
<1> DEFINE tag == pbtools_decoder_read_tag(input, Top.dec)
           type == TypeOf(Top.type, tag.field_number)
           size == SizeOf[type]
           a == heap_alloc(heap, size, WordAlign)
           pad == PadOf(heap.buf + heap.pos, WordAlign)
<1>1. IsSubMessage(tag.field_number) /\ heap' = a.heap
  BY DEF pbtools_decoder_sub_message_decode, Step, Call
<1>2. Top.type \in MessageTypes
  BY ScanTag
<1>3. size \in 1 .. IntMax - 8
  BY <1>1, <1>2, MessageAssumption DEF IsSubMessage
<1> HIDE DEF size, tag
<1>4. size \in Nat
  BY <1>3, IntAssumption
<1>5. pad \in 0 .. WordAlign - 1 /\ (size + pad <= IntMax => KeptHeap(heap, a.heap))
  BY <1>4, AllocKeeps
<1> HIDE DEF pad, a
<1>6. size + pad <= IntMax
  BY <1>3, <1>5, IntAssumption DEF WordAlign
<1> QED
  BY <1>1, <1>5, <1>6

LEMMA FirstItemsHeap ==
  ASSUME MessageInv, FirstItems, heap \in HeapType
  PROVE  heap' \in HeapType /\ (~ RequestWraps => KeptHeap(heap, heap'))
<1> DEFINE d == ItemInfo.dec
           h == Allocation.heap
           wire_type == ItemInfo.wire_type
           r == ReadGroup(input, ItemType, d, h, wire_type)
<1>1. Finalizing /\ StartItems
  BY DEF FirstItems, StartItems
<1>2. h \in HeapType /\ (~ RequestWraps => KeptHeap(heap, h))
  BY <1>1, AllocationKeeps
<1>3. heap' = h \/ heap' = r.heap
  BY DEF FirstItems, ReadItem, StoreGroup, Step, Call
<1>4. input \in Seq(Byte) /\ d \in Windows(Len(input))
  BY <1>1, FinalizingIs DEF InfoOK
<1> HIDE DEF d, h, wire_type
<1>5. KeptHeap(h, r.heap)
  BY <1>2, <1>4, GroupHeap
<1> HIDE DEF r
<1>6. KeptHeap(h, heap')
  BY <1>2, <1>3, <1>5, KeptSelf
<1> QED
  BY <1>2, <1>6, KeptOn DEF KeptHeap

LEMMA NextItemsHeap ==
  ASSUME MessageInv, MoreItems, heap \in HeapType,
         NextItems(pbtools_decoder_read_tag(input, ItemInfo.dec))
  PROVE  KeptHeap(heap, heap')
<1> DEFINE tag == pbtools_decoder_read_tag(input, ItemInfo.dec)
           d == tag.dec
           wire_type == tag.wire_type
           r == ReadGroup(input, ItemType, d, heap, wire_type)
<1>1. heap' = heap \/ heap' = r.heap
  BY DEF NextItems, ReadItem, StoreGroup, Step, Call
<1>2. Finalizing /\ d \in Windows(Len(input))
  BY MoreItemsIs
<1>3. input \in Seq(Byte)
  BY <1>2, FinalizingIs
<1> HIDE DEF d, wire_type
<1>4. KeptHeap(heap, r.heap)
  BY <1>2, <1>3, GroupHeap
<1> QED
  BY <1>1, <1>4, KeptSelf

LEMMA DecodeLeafHeap ==
  ASSUME MessageInv, Scanning, heap \in HeapType,
         DecodeLeaf(pbtools_decoder_read_tag(input, Top.dec))
  PROVE  KeptHeap(heap, heap')
<1> DEFINE tag == pbtools_decoder_read_tag(input, Top.dec)
           type == TypeOf(Top.type, tag.field_number)
           r == ReadLeaf(input, type, tag.dec, heap, tag.wire_type, FALSE)
<1>1. heap' = r.heap
  BY DEF DecodeLeaf, Step
<1>2. input \in Seq(Byte) /\ tag.dec \in Windows(Len(input))
  BY ScanTag
<1> HIDE DEF tag, type
<1> QED
  BY <1>1, <1>2, LeafHeap

LEMMA NextHeap ==
  ASSUME MessageInv, heap \in HeapType, [Next]_vars
  PROVE  heap' \in HeapType /\ (~ RequestWraps => KeptHeap(heap, heap'))
<1>0. /\ heap' = heap => KeptHeap(heap, heap')
      /\ KeptHeap(heap, heap') => heap' \in HeapType /\ (~ RequestWraps => KeptHeap(heap, heap'))
  BY KeptSelf DEF KeptHeap
<1>1. CASE MayDecode /\ \E in \in Inputs[root] : pbtools_message_decode(in)
  BY <1>0, <1>1 DEF pbtools_message_decode
<1>2. CASE Scanning /\ \E tag \in {pbtools_decoder_read_tag(input, Top.dec)} :
             \/ SkipUnknown(tag) \/ DecodeLeaf(tag)
             \/ pbtools_decoder_sub_message_decode(tag) \/ repeated_info_decode(tag)
  <2> DEFINE tag == pbtools_decoder_read_tag(input, Top.dec)
  <2>1. \/ SkipUnknown(tag) \/ DecodeLeaf(tag)
        \/ pbtools_decoder_sub_message_decode(tag) \/ repeated_info_decode(tag)
    BY <1>2
  <2>2. SkipUnknown(tag) \/ repeated_info_decode(tag) => heap' = heap
    BY DEF SkipUnknown, repeated_info_decode, Step
  <2> QED
    BY <1>0, <1>2, <2>1, <2>2, DecodeLeafHeap, sub_message_decodeHeap
<1>3. CASE EndScan \/ NothingCounted \/ EndItems
  <2>1. heap' = heap
    BY <1>3 DEF EndScan, NothingCounted, EndItems, Step
  <2> QED
    BY <1>0, <2>1
<1>4. CASE ItemsRefused
  <2>1. heap' = Allocation.heap /\ StartItems
    BY <1>4 DEF ItemsRefused, Step
  <2> QED
    BY <2>1, AllocationKeeps
<1>5. CASE FirstItems
  BY <1>5, FirstItemsHeap
<1>6. CASE MoreItems /\ \E tag \in {pbtools_decoder_read_tag(input, ItemInfo.dec)} :
             NextItems(tag) \/ SkipOther(tag)
  <2> DEFINE tag == pbtools_decoder_read_tag(input, ItemInfo.dec)
  <2>1. NextItems(tag) \/ SkipOther(tag)
    BY <1>6
  <2>2. SkipOther(tag) => heap' = heap
    BY DEF SkipOther, Step
  <2> QED
    BY <1>0, <1>6, <2>1, <2>2, NextItemsHeap
<1>7. CASE ReturnSubMessage \/ ReturnItem \/ ReturnResult
  <2>1. heap' = heap
    BY <1>7 DEF ReturnSubMessage, ReturnItem, ReturnResult, ReturnTo
  <2> QED
    BY <1>0, <2>1
<1>8. CASE UNCHANGED vars
  BY <1>0, <1>8 DEF vars
<1>9. Run => \/ Scanning /\ \E tag \in {pbtools_decoder_read_tag(input, Top.dec)} :
                  \/ SkipUnknown(tag) \/ DecodeLeaf(tag)
                  \/ pbtools_decoder_sub_message_decode(tag) \/ repeated_info_decode(tag)
             \/ EndScan \/ NothingCounted \/ ItemsRefused \/ FirstItems \/ EndItems
             \/ MoreItems /\ \E tag \in {pbtools_decoder_read_tag(input, ItemInfo.dec)} :
                  NextItems(tag) \/ SkipOther(tag)
             \/ ReturnSubMessage \/ ReturnItem \/ ReturnResult
  BY Zenon DEF Run
<1>10. (MayDecode /\ \E in \in Inputs[root] : pbtools_message_decode(in)) \/ Run \/ UNCHANGED vars
  BY Zenon DEF Next
<1> QED
  BY <1>1, <1>2, <1>3, <1>4, <1>5, <1>6, <1>7, <1>8, <1>9, <1>10
-----------------------------------------------------------------------------
(* MessageInv is inductive. *)
LEMMA MessageInvariant == Spec => []MessageInv
<1>1. Init => MessageInv
  BY InitIs
<1>2. MessageInv /\ [Next]_vars => MessageInv'
  BY NextKeeps
<1> QED
  BY <1>1, <1>2, PTL DEF Spec

(* TypeOK of MessageDecode: every decoder of every call in progress stays
   within the input, through any nesting of messages and after any error. *)
THEOREM MessageTypeOK == Spec => []TypeOK
<1>1. MessageInv => TypeOK
  <2> SUFFICES ASSUME MessageInv
               PROVE  TypeOK
    OBVIOUS
  <2>1. result \in Int /\ decodes \in 0 .. MaxDecodes /\ refused \subseteq {"reported", "silently"}
    BY DEF MessageInv
  <2>2. ASSUME NEW f \in Range(frames)
        PROVE  FrameOK(input, f)
    <3>1. DOMAIN frames = 1 .. Len(frames)
      BY DEF MessageInv, FramesOK
    <3>2. PICK i \in 1 .. Len(frames) : f = frames[i]
      BY <3>1 DEF Range
    <3> QED
      BY <3>2 DEF MessageInv, FramesOK
  <2>3. ASSUME NEW f \in Range(frames)
        PROVE  /\ DOMAIN f.msg = FieldsOf(f.type)
               /\ \A d \in {f.dec} \cup {f.infos[n].dec : n \in RepeatedFields(f.type)} :
                    d.size > 0 => d.base \in 0 .. Len(input) /\ d.base + d.size <= Len(input)
    <3>1. DOMAIN f.msg = FieldsOf(f.type)
      BY <2>2 DEF FrameOK
    <3>2. f.dec \in Windows(Len(input))
      BY <2>2 DEF FrameOK
    <3>3. \A n \in RepeatedFields(f.type) : f.infos[n].dec \in Windows(Len(input))
      BY <2>2 DEF FrameOK, InfoOK
    <3>4. \A d \in Windows(Len(input)) :
            d.size > 0 => d.base \in 0 .. Len(input) /\ d.base + d.size <= Len(input)
      <4>1. Len(input) \in Nat
        <5>1. input \in Seq(Byte)
          BY Zenon DEF MessageInv
        <5> QED
          BY <5>1, LenProperties
      <4> QED
        BY <4>1 DEF Windows, Decoders
    <3> QED
      BY <3>1, <3>2, <3>3, <3>4
  <2> QED
    BY <2>1, <2>3 DEF TypeOK
<1> QED
  BY <1>1, MessageInvariant, PTL

(* CountsRespected of MessageDecode: the reading pass of a repeated field never
   stores more items than the counting pass made room for, but for the value
   that a packed payload cuts off. *)
THEOREM MessageCountsRespected == Spec => []CountsRespected
<1>1. MessageInv => CountsRespected
  <2> SUFFICES ASSUME MessageInv, NEW f \in Range(frames), f.reading
               PROVE  LET n == Head(f.todo)  info == f.infos[n]
                      IN  \/ f.index <= info.length
                          \/ /\ TypeOf(f.type, n) \in FixedTypes
                             /\ f.index = info.length + 1 /\ info.dec.pos = -OUT_OF_DATA
    BY DEF CountsRespected
  <2>1. DOMAIN frames = 1 .. Len(frames) /\ Len(frames) \in Nat
    BY DEF MessageInv, FramesOK
  <2>2. PICK i \in 1 .. Len(frames) : f = frames[i]
    BY <2>1 DEF Range
  <2>3. FrameOK(input, f)
    BY <2>2 DEF MessageInv, FramesOK
  <2> DEFINE n == f.todo[1]
             info == f.infos[n]
  <2>4. Head(f.todo) = n /\ n \in RepeatedFields(f.type) /\ ~ f.scanning
    <3> DEFINE todo == f.todo  S == RepeatedFields(f.type)
    <3>1. todo \in Seq(S) /\ todo # <<>> /\ ~ f.scanning
      BY <2>3 DEF FrameOK
    <3> HIDE DEF todo, S
    <3>2. Head(todo) = todo[1] /\ todo[1] \in S
      BY <3>1
    <3> QED
      BY <3>1, <3>2 DEF todo, S
  <2>5. f.index \in Nat /\ info.length \in Nat
    BY <2>3, <2>4 DEF FrameOK, InfoOK
  <2>6. CASE i = Len(frames)
    <3>1. CountOK(input, f)
      BY <2>2, <2>6 DEF MessageInv, CountsOK
    <3>2. ReadOK(input, f.type, n, info.length, info.dec, f.index)
      BY <3>1 DEF CountOK
    <3> QED
      BY <2>4, <3>2 DEF ReadOK
  <2>7. CASE i \in 1 .. Len(frames) - 1
    <3>1. LinkOK(f, frames[i + 1])
      BY <2>2, <2>7 DEF MessageInv, FramesOK
    <3>2. f.index < info.length
      BY <2>4, <3>1 DEF LinkOK
    <3> QED
      BY <2>4, <2>5, <3>2
  <2> QED
    BY <2>1, <2>6, <2>7, UpToLast
<1> QED
  BY <1>1, MessageInvariant, PTL

(* MemoryErrors of MessageDecode: a refused request that is reported fails the
   run it was made in, and a run only fails for memory when one was refused. *)
THEOREM MessageMemoryErrors == Spec => []MemoryErrors
<1>1. MessageInv => MemoryErrors
  BY DEF MessageInv, MemoryErrors
<1> QED
  BY <1>1, MessageInvariant, PTL

(* HeapOnlyGrows of MessageDecode: decoder_heap_alloc takes the workspace from its
   begin to its end, for every schema, message and room, but when the items counted
   cannot be asked for in an int. *)
THEOREM MessageHeapOnlyGrows == Spec => HeapOnlyGrows
<1> DEFINE Place == heap.pos \in 0 .. heap.size => heap'.pos \in heap.pos .. heap.size \/ RequestWraps
           Shape == heap \in HeapType
<1>1. Init => Shape
  BY MessageAssumption DEF Init, HeapType
<1>2. MessageInv /\ Shape /\ [Next]_vars => Shape'
  BY NextHeap
<1>3. MessageInv /\ Shape /\ [Next]_vars => Place
  BY NextHeap DEF KeptHeap, Grown
<1> HIDE DEF Place, Shape
<1>4. Spec => [][Place]_vars
  BY <1>1, <1>2, <1>3, MessageInvariant, PTL DEF Spec
<1> QED
  BY <1>4 DEF HeapOnlyGrows, Place
=============================================================================
