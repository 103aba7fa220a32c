----------------------------- MODULE DecoderOps -----------------------------
(***************************************************************************)
(* The decoder of the generated C library as operators: a window of the    *)
(* input with a position (base is where buf_p points, an offset in the     *)
(* input).  A decoder that met an error keeps minus its code in both size  *)
(* and pos, so that it has nothing left and nothing available.             *)
(***************************************************************************)
EXTENDS Wire, Sequences, FiniteSetsExt

Decoders == [base : Int, size : Int, pos : Int]

decoder_init(size) == [base |-> 0, size |-> int(size), pos |-> 0]

decoder_get_result(d) == d.pos

(* Mutant: a later error replaces the first. *)
decoder_abort_last_wins(d, error) == [d EXCEPT !.size = -error, !.pos = -error]

(* The first error is kept. *)
decoder_abort(d, error) ==
  IF d.pos >= 0 THEN [d EXCEPT !.size = -error, !.pos = -error] ELSE d

decoder_left(d) == d.size - d.pos

pbtools_decoder_available(d) == d.pos < d.size

decoder_get(d) ==
  IF pbtools_decoder_available(d) THEN [d EXCEPT !.pos = @ + 1]
                                  ELSE decoder_abort(d, OUT_OF_DATA)

(* Mutant: tests that something is left, not that enough is. *)
decoder_read_available(d, size) ==
  IF decoder_left(d) > 0 \/ size = 0 THEN [d EXCEPT !.pos = @ + size]
                                     ELSE decoder_abort(d, OUT_OF_DATA)

decoder_read(d, size) ==
  IF decoder_left(d) >= size THEN [d EXCEPT !.pos = @ + size]
                             ELSE decoder_abort(d, OUT_OF_DATA)

(* Mutant: a slice starts where its parent started. *)
Slice_from_start(parent, size, pos) == [base |-> parent.base, size |-> size, pos |-> pos]

Slice(parent, size, pos) == [base |-> parent.base + parent.pos, size |-> size, pos |-> pos]

(* Mutant: the size asked for is compared with the whole parent. *)
decoder_init_slice_whole_parent(parent, size) ==
  IF size <= parent.size THEN Slice(parent, size, 0)
                         ELSE Slice(parent, -OUT_OF_DATA, -OUT_OF_DATA)

(* A window on the next size bytes of parent; born aborted when parent has
   fewer left.  An aborted parent has zero left, and gives an empty window. *)
decoder_init_slice(parent, size) ==
  IF size <= decoder_left(parent) THEN Slice(parent, size, 0)
                                  ELSE Slice(parent, -OUT_OF_DATA, -OUT_OF_DATA)

(* Mutants: the code of a negative offset is dropped; the sum is not tested
   before it is cast back to int. *)
decoder_seek_forgives(d, offset) ==
  IF d.pos < 0 \/ offset < 0 THEN d
  ELSE IF d.pos + offset > IntMax THEN decoder_abort(d, SEEK_OVERFLOW)
  ELSE IF d.pos + offset > d.size THEN decoder_abort(d, OUT_OF_DATA)
  ELSE [d EXCEPT !.pos = @ + offset]

decoder_seek_wraps(d, offset) ==
  IF d.pos < 0 THEN d
  ELSE IF offset < 0 THEN decoder_abort(d, -offset)
  ELSE IF int(d.pos + offset) > d.size THEN decoder_abort(d, OUT_OF_DATA)
  ELSE [d EXCEPT !.pos = int(@ + offset)]

(* Skip offset bytes; a negative offset is the result of an aborted slice. *)
decoder_seek(d, offset) ==
  IF d.pos < 0 THEN d
  ELSE IF offset < 0 THEN decoder_abort(d, -offset)
  ELSE IF d.pos + offset > IntMax THEN decoder_abort(d, SEEK_OVERFLOW)
  ELSE IF d.pos + offset > d.size THEN decoder_abort(d, OUT_OF_DATA)
  ELSE [d EXCEPT !.pos = @ + offset]
-----------------------------------------------------------------------------
(* Operators that return a value give [dec |-> the decoder after, ...].  in is
   the input: byte i of the window of d is in[d.base + i + 1]. *)

(* The value of a varint of n bytes behind start; bits above Word are shifted
   out. *)
GroupsValue(in, start, n) ==
  FromDigits([i \in 1 .. n |-> in[start + i] % Base], Base, n) % Word

(* How many bytes of the window a varint may take, and which end one. *)
VarintRoom(d) ==
  IF pbtools_decoder_available(d) THEN Min({decoder_left(d), MaxGroups}) ELSE 0
VarintEnds(in, d) == {i \in 1 .. VarintRoom(d) : in[d.base + d.pos + i] < Base}

(* The loop reads up to MaxGroups bytes and stops at the first without the
   continuation bit.  At the end of the window decoder_get aborts and returns
   0, which ends the loop with the groups read so far as the value. *)
VarintRead(in, d, room, ends) ==
  IF ends = {} /\ room = MaxGroups
  THEN [dec |-> decoder_abort(d, VARINT_OVERFLOW), value |-> 0]
  ELSE [dec   |-> IF ends = {} THEN decoder_abort(d, OUT_OF_DATA)
                               ELSE [d EXCEPT !.pos = @ + Min(ends)],
        value |-> GroupsValue(in, d.base + d.pos, Min(ends \cup {room}))]

decoder_read_varint(in, d) == VarintRead(in, d, VarintRoom(d), VarintEnds(in, d))

read_varint_check_wire_type(in, d, wire_type, expected) ==
  IF wire_type # expected THEN [dec |-> decoder_abort(d, BAD_WIRE_TYPE), value |-> 0]
                          ELSE decoder_read_varint(in, d)

LengthOf(r) ==
  IF r.value < IntMax THEN r
  ELSE [dec |-> decoder_abort(r.dec, LENGTH_DELIMITED_OVERFLOW), value |-> 0]

decoder_read_length_delimited(in, d, wire_type) ==
  LengthOf(read_varint_check_wire_type(in, d, wire_type, LENGTH_DELIMITED))

(* The tag is cast to uint32_t before it is split. *)
TagOf(d, value) ==
  [dec          |-> IF value < 8 THEN decoder_abort(d, BAD_FIELD_NUMBER) ELSE d,
   field_number |-> value \div 8,
   wire_type    |-> value % 8]

TagRead(r) == TagOf(r.dec, r.value % (2 * (IntMax + 1)))

pbtools_decoder_read_tag(in, d) == TagRead(decoder_read_varint(in, d))

SkipPayload(r) == decoder_seek(r.dec, r.value)

pbtools_decoder_skip_field(in, d, wire_type) ==
  CASE wire_type = VARINT      -> decoder_read_varint(in, d).dec
    [] wire_type = WIRE_64_BIT -> decoder_seek(d, Fixed64)
    [] wire_type = WIRE_32_BIT -> decoder_seek(d, Fixed32)
    [] wire_type = LENGTH_DELIMITED ->
         SkipPayload(decoder_read_length_delimited(in, d, wire_type))
    [] OTHER -> decoder_abort(d, BAD_WIRE_TYPE)
=============================================================================
