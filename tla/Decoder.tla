------------------------------ MODULE Decoder ------------------------------
(***************************************************************************)
(* One run of pbtools_message_decode at the level of the decoder calls,    *)
(* for every generated message at once: any sequence of reads, seeks,      *)
(* aborts and slices, nested as the C calls nest.  Only the decoder on top *)
(* of the call stack is used; a slice is given back to the decoder under   *)
(* it by decoder_seek(parent, decoder_get_result(slice)).  A decoder may   *)
(* also mark what it has left when a repeated field is first met           *)
(* (repeated_info_init_decode) and read the mark again, as a second pass,  *)
(* before it is given back.  Varints are sequences of decoder_get here.    *)
(***************************************************************************)
EXTENDS DecoderOps

CONSTANTS Inputs,       \* the lengths of the encoded messages
          Amounts,      \* the byte counts found in the input or in the code
          Causes,       \* the errors raised beside those of the calls below
          MaxDepth      \* bound: nesting of slices

ASSUME DecoderAssumption ==
  /\ Inputs \subseteq 0 .. IntMax
  /\ Amounts \subseteq 0 .. IntMax
  /\ Causes \subseteq Errors
  /\ MaxDepth \in Nat

VARIABLES input,        \* length of the encoded message
          frames,       \* the decoders in use, the last one on top
          result,       \* of pbtools_message_decode
          raised        \* the first error any decoder met in this run, 0 for none

vars == <<input, frames, result, raised>>

(* kind says how the frame is given back: a "slice" by a seek, a "mark" by
   aborting its owner with the error it met. *)
NoMark == [base |-> 0, size |-> 0, pos |-> 0]
Frame(d, kind) == [dec |-> d, kind |-> kind, mark |-> NoMark]

Depth == Len(frames)
Top == frames[Depth].dec

Init == input = 0 /\ frames = <<>> /\ result = 0 /\ raised = 0

Note(d) == IF raised = 0 /\ d.pos < 0 THEN -d.pos ELSE raised

SetTop(d) ==
  /\ frames' = [frames EXCEPT ![Depth].dec = d]
  /\ raised' = Note(d)
  /\ UNCHANGED <<input, result>>

pbtools_message_decode(size) ==
  /\ frames = <<>>
  /\ frames' = <<Frame(decoder_init(size), "slice")>>
  /\ input' = size /\ raised' = 0 /\ result' = 0

InUse == frames # <<>>

Get == InUse /\ SetTop(decoder_get(Top))

Read(size) == InUse /\ SetTop(decoder_read(Top, size))

Seek(offset) == InUse /\ SetTop(decoder_seek(Top, offset))

Abort(error) == InUse /\ SetTop(decoder_abort(Top, error))

Push(d, kind) ==
  /\ InUse /\ Depth < MaxDepth
  /\ frames' = Append(frames, Frame(d, kind))
  /\ raised' = Note(d)
  /\ UNCHANGED <<input, result>>

OpenSlice(size) == Push(decoder_init_slice(Top, size), "slice")

repeated_info_init_decode ==
  /\ InUse
  /\ frames' = [frames EXCEPT ![Depth].mark = decoder_init_slice(Top, decoder_left(Top))]
  /\ UNCHANGED <<input, result, raised>>

ReadMark == InUse /\ Push(frames[Depth].mark, "mark")

(* What the owner becomes when frame top is given back to it. *)
GivenBack(owner, top) ==
  LET res == decoder_get_result(top.dec)
  IN  IF top.kind = "slice" THEN decoder_seek(owner, res)
      ELSE IF res < 0 THEN decoder_abort(owner, -res) ELSE owner

GiveBack ==
  /\ Depth > 1
  /\ frames' = [SubSeq(frames, 1, Depth - 1) EXCEPT
                  ![Depth - 1].dec = GivenBack(@, frames[Depth])]
  /\ raised' = Note(frames'[Depth - 1].dec)
  /\ UNCHANGED <<input, result>>

Return ==
  /\ Depth = 1
  /\ result' = decoder_get_result(Top)
  /\ frames' = <<>>
  /\ UNCHANGED <<input, raised>>

Next ==
  \/ \E size \in Inputs : pbtools_message_decode(size)
  \/ Get
  \/ \E size \in Amounts : Read(size)
  \/ \E offset \in Amounts : Seek(offset)
  \/ \E error \in Causes : Abort(error)
  \/ \E size \in Amounts : OpenSlice(size)
  \/ repeated_info_init_decode
  \/ ReadMark
  \/ GiveBack
  \/ Return

Spec == Init /\ [][Next]_vars
-----------------------------------------------------------------------------
Aborted(d) == d.pos < 0

DecoderType == [base : Int, size : Int, pos : Int]
FrameType == [dec : DecoderType, kind : {"slice", "mark"}, mark : DecoderType]

TypeOK ==
  /\ input \in 0 .. IntMax
  /\ frames \in Seq(FrameType)
  /\ result \in Int
  /\ raised \in 0 .. 8

(* A decoder is either aborted, with its code in size and pos, or has its
   position within its window; and a window with any byte in it is inside the
   encoded message.  So decoder_get and decoder_read, which look at nothing but
   size and pos, never read outside the message, however deep the slice, also
   when it was taken from a decoder that had already aborted. *)
WindowOK(d) ==
  /\ \/ d.size = d.pos /\ -d.pos \in Errors
     \/ 0 <= d.pos /\ d.pos <= d.size
  /\ d.size > 0 => 0 <= d.base /\ d.base + d.size <= input

WindowsOK == \A i \in 1 .. Depth : WindowOK(frames[i].dec) /\ WindowOK(frames[i].mark)

(* A slice with bytes in it starts where its parent stands and stays within
   what its parent has left, until it is given back. *)
SlicesNested ==
  \A i \in 1 .. Depth - 1 :
    LET parent == frames[i].dec
        child  == frames[i + 1].dec
    IN  frames[i + 1].kind = "slice" /\ child.size > 0 =>
          /\ ~ Aborted(parent)
          /\ child.base = parent.base + parent.pos
          /\ child.size <= decoder_left(parent)

(* The error that is reported is the first one that happened anywhere in the
   nest: it stands in the outermost decoder that has aborted, and later errors,
   of enclosing decoders or of a second pass, do not hide it. *)
FirstErrorKept ==
  IF raised = 0
  THEN \A i \in 1 .. Depth : ~ Aborted(frames[i].dec)
  ELSE frames # <<>> =>
         \E k \in 1 .. Depth : /\ frames[k].dec.pos = -raised
                               /\ \A i \in 1 .. k - 1 : ~ Aborted(frames[i].dec)

(* Giving back a slice that did not abort moves its parent by what was read and
   never trips the parent's own overflow and end-of-data tests. *)
GiveBackNeverOverruns ==
  [][GiveBack =>
       LET top == frames[Depth]  before == frames[Depth - 1].dec  after == frames'[Depth - 1].dec
       IN  ~ Aborted(before) /\ ~ Aborted(top.dec) =>
             after = [before EXCEPT !.pos = @ + (IF top.kind = "slice" THEN top.dec.pos ELSE 0)]]_vars

(* What pbtools_message_decode returns: minus the first error met anywhere, or,
   when there was none, a position in the message. *)
ResultReportsFirstError ==
  frames = <<>> => IF raised = 0 THEN result \in 0 .. input ELSE result = -raised
=============================================================================
