------------------------------ MODULE Encoder ------------------------------
(***************************************************************************)
(* One run of pbtools_message_encode at the level of the encoder calls,    *)
(* for every generated message at once: any sequence of chunks (a varint,  *)
(* a fixed-width value, a string or bytes payload), tagged varints, and    *)
(* length-delimited groups, nested as the C calls nest.  A group saves the *)
(* position before its content and, content being written before its       *)
(* header, takes the length from how far the position has moved since.     *)
(***************************************************************************)
EXTENDS EncoderOps

CONSTANTS BufferSizes,  \* the sizes of the buffers callers bring
          Chunks,       \* payloads
          Values,       \* of varint fields
          FieldNumbers,
          MaxDepth,     \* bound: nesting of groups
          MaxAsked      \* bound: bytes asked for before the last step

ASSUME EncoderAssumption ==
  /\ BufferSizes \subseteq 0 .. IntMax
  /\ Chunks \subseteq Seq(Byte)
  /\ Values \subseteq Nat /\ FieldNumbers \subseteq Nat
  /\ MaxDepth \in Nat /\ MaxAsked \in Nat

VARIABLES running,      \* between the call and the return
          buffer,       \* its size
          enc,          \* the encoder: [size, pos, buf]
          groups,       \* the open groups: [pos, asked], see Open
          asked,        \* the encoding the calls so far stand for
          result        \* of the last run

vars == <<running, buffer, enc, groups, asked, result>>

(* What the caller's buffer holds before is arbitrary; zeros stand for it. *)
Zeros(size) == [i \in 0 .. size - 1 |-> 0]

Init ==
  /\ running = FALSE /\ buffer = 0 /\ groups = <<>> /\ asked = <<>>
  /\ enc = encoder_init(0, Zeros(0))
  /\ result = 0

pbtools_message_encode(size) ==
  /\ ~ running
  /\ running' = TRUE /\ buffer' = size /\ groups' = <<>> /\ asked' = <<>>
  /\ enc' = encoder_init(size, Zeros(size))
  /\ UNCHANGED result

MayWrite == running /\ Len(asked) <= MaxAsked

Becomes(e, bytes) ==
  /\ enc' = e
  /\ asked' = bytes \o asked
  /\ UNCHANGED <<running, buffer, groups, result>>

Write(chunk) == MayWrite /\ Becomes(encoder_write(enc, chunk), chunk)

Header(field_number, wire_type, value) ==
  VarintBytes(Tag(field_number, wire_type)) \o VarintBytes(value)

(* The proto3 form: a zero is not written. *)
WriteTaggedVarint(field_number, value) ==
  /\ MayWrite
  /\ Becomes(encoder_write_tagged_varint(enc, field_number, VARINT, value),
             IF value > 0 THEN Header(field_number, VARINT, value) ELSE <<>>)

WriteTaggedVarintAlways(field_number, value) ==
  /\ MayWrite
  /\ Becomes(encoder_write_tagged_varint_always(enc, field_number, VARINT, value),
             Header(field_number, VARINT, value))

Open ==
  /\ MayWrite /\ Len(groups) < MaxDepth
  /\ groups' = Append(groups, [pos |-> enc.pos, asked |-> Len(asked)])
  /\ UNCHANGED <<running, buffer, enc, asked, result>>

Group == groups[Len(groups)]
Moved == Group.pos - enc.pos
GroupLength == Len(asked) - Group.asked

CloseWith(e, bytes) ==
  /\ enc' = e
  /\ asked' = bytes \o asked
  /\ groups' = SubSeq(groups, 1, Len(groups) - 1)
  /\ UNCHANGED <<running, buffer, result>>

(* A sub-message gets its header even when it is empty. *)
CloseMessage(field_number) ==
  /\ running /\ groups # <<>>
  /\ CloseWith(encoder_write_length_delimited(enc, field_number, Moved),
               Header(field_number, LENGTH_DELIMITED, GroupLength))

(* Packed items get one only when there is a byte of them. *)
CloseRepeated(field_number) ==
  /\ running /\ groups # <<>>
  /\ CloseWith(encoder_write_tagged_varint(enc, field_number, LENGTH_DELIMITED, Moved),
               IF GroupLength > 0 THEN Header(field_number, LENGTH_DELIMITED, GroupLength)
                                  ELSE <<>>)

Return ==
  /\ running /\ groups = <<>>
  /\ running' = FALSE
  /\ LET r == encoder_get_result(enc)
     IN  result' = r.length /\ enc' = [enc EXCEPT !.buf = r.buf]
  /\ UNCHANGED <<buffer, groups, asked>>

Next ==
  \/ \E size \in BufferSizes : pbtools_message_encode(size)
  \/ \E chunk \in Chunks : Write(chunk)
  \/ \E f \in FieldNumbers, v \in Values : WriteTaggedVarint(f, v)
  \/ \E f \in FieldNumbers, v \in Values : WriteTaggedVarintAlways(f, v)
  \/ Open
  \/ \E f \in FieldNumbers : CloseMessage(f)
  \/ \E f \in FieldNumbers : CloseRepeated(f)
  \/ Return

Spec == Init /\ [][Next]_vars
-----------------------------------------------------------------------------
Aborted == enc.size < 0

GroupType == [pos : Int, asked : Nat]

TypeOK ==
  /\ running \in BOOLEAN
  /\ buffer \in 0 .. IntMax
  /\ enc \in [size : Int, pos : Int, buf : [0 .. buffer - 1 -> Byte]]
  /\ groups \in Seq(GroupType)
  /\ asked \in Seq(Byte)
  /\ result \in Int

(* An encoder is either aborted, with the code of a full buffer in size and
   pos, or keeps the whole size it was given and a position in it, so that no
   chunk is copied in front of the buffer. *)
PositionOK ==
  IF Aborted THEN enc.size = -ENCODE_BUFFER_FULL /\ enc.pos = enc.size
             ELSE enc.size = buffer /\ enc.pos \in -1 .. buffer - 1

(* Until it aborts, the end of the buffer holds exactly the encoding asked for,
   the newest call in front: no later chunk overwrites an earlier one, and the
   length in each header, computed from positions, is that of its content,
   however deep the nesting and however long the inner headers are. *)
OutputIsAsked ==
  running /\ ~ Aborted =>
    /\ Len(asked) = buffer - 1 - enc.pos
    /\ \A i \in 1 .. Len(asked) : enc.buf[enc.pos + i] = asked[i]

(* The caller gets the whole encoding at the front of the buffer, and its
   length, or an error when it did not fit.  A write that still fits after one
   that did not never turns a failed run into a truncated success. *)
EncodeResult ==
  ~ running =>
    IF result >= 0
    THEN result = Len(asked) /\ \A i \in 1 .. result : enc.buf[i - 1] = asked[i]
    ELSE Len(asked) + 1 > buffer
=============================================================================
