----------------------------- MODULE EncoderOps -----------------------------
(***************************************************************************)
(* The encoder of the generated C library as operators.  It fills the      *)
(* caller's buffer from the end towards the front, so that a length is     *)
(* known before its header is written: pos is the last free byte.  buf is  *)
(* the buffer, a function on its offsets.                                  *)
(***************************************************************************)
EXTENDS Wire, Sequences, FiniteSetsExt

encoder_init(size, buf) == [size |-> int(size), pos |-> int(size) - 1, buf |-> buf]

(* Mutant: the sign of the error is lost. *)
encoder_abort_unsigned(e, error) ==
  IF e.size >= 0 THEN [e EXCEPT !.size = error, !.pos = error] ELSE e

(* The first error is kept. *)
encoder_abort(e, error) ==
  IF e.size >= 0 THEN [e EXCEPT !.size = -error, !.pos = -error] ELSE e

(* chunk is copied to the last free bytes. *)
Copied(e, chunk) ==
  LET pos == e.pos - Len(chunk)
  IN  [e EXCEPT !.pos = pos,
                !.buf = [i \in DOMAIN e.buf |->
                           IF i \in pos + 1 .. e.pos THEN chunk[i - pos] ELSE e.buf[i]]]

(* Mutants: chunks are tested against the whole buffer; a chunk is cut to what
   fits. *)
encoder_write_whole_buffer(e, chunk) ==
  IF e.size >= Len(chunk) THEN Copied(e, chunk) ELSE encoder_abort(e, ENCODE_BUFFER_FULL)

encoder_write_cuts(e, chunk) ==
  IF e.pos >= Len(chunk) THEN Copied(e, chunk)
  ELSE IF e.pos > 0 THEN Copied(e, SubSeq(chunk, 1, e.pos))
  ELSE encoder_abort(e, ENCODE_BUFFER_FULL)

(* A chunk needs pos >= its length, one byte more than it occupies. *)
encoder_write(e, chunk) ==
  IF e.pos >= Len(chunk) THEN Copied(e, chunk) ELSE encoder_abort(e, ENCODE_BUFFER_FULL)

(* Groups are taken until nothing is left; no uint64_t has more than MaxGroups. *)
VarintLength(value) ==
  Min({MaxGroups} \cup {n \in 1 .. MaxGroups : Shifts(value, Base, MaxGroups)[n] = 0})

(* Mutant: a byte keeps the groups above its own. *)
VarintBytes_untruncated(value) ==
  LET n == VarintLength(value)
  IN  [i \in 1 .. n |-> Shifts(value, Base, n)[i - 1] + (IF i < n THEN Base ELSE 0)]

(* The groups of value, low group first, the continuation bit on all but the last. *)
VarintBytes(value) ==
  LET n == VarintLength(value)
  IN  [i \in 1 .. n |-> DigitsOf(value, Base, n)[i] + (IF i < n THEN Base ELSE 0)]

encoder_write_varint(e, value) == encoder_write(e, VarintBytes(value))

Tag(field_number, wire_type) == field_number * 8 + wire_type

encoder_write_tag(e, field_number, wire_type) ==
  encoder_write_varint(e, Tag(field_number, wire_type))

encoder_write_tagged_varint_always(e, field_number, wire_type, value) ==
  encoder_write_tag(encoder_write_varint(e, value), field_number, wire_type)

encoder_write_tagged_varint(e, field_number, wire_type, value) ==
  IF value > 0 THEN encoder_write_tagged_varint_always(e, field_number, wire_type, value) ELSE e

encoder_write_length_delimited(e, field_number, value) ==
  encoder_write_tagged_varint_always(e, field_number, LENGTH_DELIMITED, value)

(* The number of bytes written, moved to the front of the buffer, or the error. *)
encoder_get_result(e) ==
  LET length == e.size - e.pos - 1
  IN  IF e.pos >= 0
      THEN [length |-> length,
            buf    |-> [i \in DOMAIN e.buf |->
                          IF i < length THEN e.buf[e.pos + 1 + i] ELSE e.buf[i]]]
      ELSE [length |-> e.pos, buf |-> e.buf]
=============================================================================
