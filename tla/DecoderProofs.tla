--------------------------- MODULE DecoderProofs ---------------------------
(***************************************************************************)
(* For every length of message, every nesting depth and every byte count a *)
(* caller may pass: no decoder leaves its window, and the result reports   *)
(* the first error.                                                        *)
(***************************************************************************)
EXTENDS Decoder, TLAPS

USE DEF OUT_OF_DATA, SEEK_OVERFLOW, Errors

(* What every operation on a decoder in use respects. *)
Kept(d, e) == /\ e \in DecoderType /\ WindowOK(e)
              /\ Aborted(d) => e = d

LEMMA AbortedOK ==
  ASSUME NEW b \in Int, NEW error \in Errors
  PROVE  LET d == [base |-> b, size |-> -error, pos |-> -error]
         IN  d \in DecoderType /\ WindowOK(d)
<1>1. -(-error) = error /\ -error \in Int /\ ~ (-error > 0)
  OBVIOUS
<1> QED BY <1>1 DEF WindowOK, DecoderType

LEMMA AbortKept ==
  ASSUME NEW d \in DecoderType, WindowOK(d), NEW error \in Errors
  PROVE  /\ Kept(d, decoder_abort(d, error))
         /\ ~ Aborted(d) => decoder_abort(d, error).pos = -error
<1>1. CASE Aborted(d)
  BY <1>1 DEF decoder_abort, Kept, Aborted, DecoderType
<1>2. CASE ~ Aborted(d)
  <2>1. decoder_abort(d, error) = [d EXCEPT !.size = -error, !.pos = -error]
    BY <1>2 DEF decoder_abort, Aborted, DecoderType
  <2>2. decoder_abort(d, error) = [base |-> d.base, size |-> -error, pos |-> -error]
    BY <2>1 DEF DecoderType
  <2>3. -(-error) = error /\ -error \in Int /\ ~ (-error > 0)
    OBVIOUS
  <2> QED BY <1>2, <2>2, <2>3 DEF Kept, WindowOK, DecoderType
<1> QED BY <1>1, <1>2

LEMMA GetKept ==
  ASSUME NEW d \in DecoderType, WindowOK(d)
  PROVE  Kept(d, decoder_get(d))
<1>1. CASE pbtools_decoder_available(d)
  <2>1. decoder_get(d) = [d EXCEPT !.pos = @ + 1]
    BY <1>1 DEF decoder_get
  <2>2. ~ Aborted(d) /\ d.pos + 1 <= d.size
    BY <1>1 DEF pbtools_decoder_available, WindowOK, Aborted, DecoderType
  <2> QED BY <2>1, <2>2 DEF Kept, WindowOK, Aborted, DecoderType
<1>2. CASE ~ pbtools_decoder_available(d)
  BY <1>2, AbortKept DEF decoder_get
<1> QED BY <1>1, <1>2

LEMMA ReadKept ==
  ASSUME NEW d \in DecoderType, WindowOK(d), NEW size \in Nat
  PROVE  Kept(d, decoder_read(d, size))
<1>1. CASE decoder_left(d) >= size
  <2>1. decoder_read(d, size) = [d EXCEPT !.pos = @ + size]
    BY <1>1 DEF decoder_read
  <2>2. (Aborted(d) => size = 0) /\ (~ Aborted(d) => d.pos + size <= d.size)
    BY <1>1 DEF decoder_left, WindowOK, Aborted, DecoderType
  <2> QED BY <2>1, <2>2 DEF Kept, WindowOK, Aborted, DecoderType
<1>2. CASE ~ (decoder_left(d) >= size)
  BY <1>2, AbortKept DEF decoder_read
<1> QED BY <1>1, <1>2

(* The offset is an amount, or minus the error of a slice given back. *)
LEMMA SeekKept ==
  ASSUME NEW d \in DecoderType, WindowOK(d), NEW offset \in Int,
         offset >= 0 \/ -offset \in Errors
  PROVE  /\ Kept(d, decoder_seek(d, offset))
         /\ ~ Aborted(d) /\ offset < 0 => decoder_seek(d, offset).pos = offset
<1>1. CASE Aborted(d)
  BY <1>1 DEF decoder_seek, Kept, Aborted
<1>2. CASE ~ Aborted(d) /\ offset < 0
  <2>1. decoder_seek(d, offset) = decoder_abort(d, -offset) /\ -offset \in Errors
    BY <1>2 DEF decoder_seek, Aborted
  <2> QED BY <1>2, <2>1, AbortKept
<1>3. CASE ~ Aborted(d) /\ offset >= 0
  <2>1. decoder_seek(d, offset) \in {decoder_abort(d, SEEK_OVERFLOW),
                                     decoder_abort(d, OUT_OF_DATA)}
        \/ /\ decoder_seek(d, offset) = [d EXCEPT !.pos = @ + offset]
           /\ d.pos + offset <= d.size
    BY <1>3 DEF decoder_seek, Aborted, DecoderType
  <2>2. Kept(d, decoder_abort(d, SEEK_OVERFLOW)) /\ Kept(d, decoder_abort(d, OUT_OF_DATA))
    BY AbortKept
  <2>3. d.pos + offset <= d.size => Kept(d, [d EXCEPT !.pos = @ + offset])
    BY <1>3 DEF Kept, WindowOK, Aborted, DecoderType
  <2> QED BY <1>3, <2>1, <2>2, <2>3
<1> QED BY <1>1, <1>2, <1>3

(* A new slice is inside the message, whatever the state of its parent. *)
LEMMA SliceOK ==
  ASSUME NEW p \in DecoderType, WindowOK(p), NEW size \in Nat, input \in Nat
  PROVE  decoder_init_slice(p, size) \in DecoderType /\ WindowOK(decoder_init_slice(p, size))
<1>1. CASE size <= decoder_left(p)
  <2>1. decoder_init_slice(p, size) = [base |-> p.base + p.pos, size |-> size, pos |-> 0]
    BY <1>1 DEF decoder_init_slice, Slice
  <2>2. size > 0 => 0 <= p.base + p.pos /\ p.base + p.pos + size <= p.base + p.size
                    /\ p.size > 0
    BY <1>1 DEF decoder_left, WindowOK, DecoderType
  <2>3. p.base \in Int /\ p.pos \in Int /\ p.size \in Int
    BY DEF DecoderType
  <2>4. size > 0 => p.base + p.pos + size <= p.base + p.size /\ p.base + p.size <= input
    BY <2>2 DEF WindowOK
  <2> DEFINE s == decoder_init_slice(p, size)
  <2>5. s \in DecoderType /\ s.size = size /\ s.pos = 0 /\ s.base = p.base + p.pos
    BY <2>1, <2>3 DEF DecoderType
  <2>6. size > 0 => 0 <= s.base /\ s.base + s.size <= input
    BY <2>2, <2>3, <2>4, <2>5
  <2>7. WindowOK(s)
    <3> HIDE DEF s
    <3>1. 0 <= s.pos /\ s.pos <= s.size
      BY <2>5
    <3> QED BY <2>5, <2>6, <3>1 DEF WindowOK
  <2> QED BY <2>5, <2>7
<1>2. CASE ~ (size <= decoder_left(p))
  <2>1. decoder_init_slice(p, size)
          = [base |-> p.base + p.pos, size |-> -OUT_OF_DATA, pos |-> -OUT_OF_DATA]
    BY <1>2 DEF decoder_init_slice, Slice
  <2>2. p.base + p.pos \in Int /\ OUT_OF_DATA \in Errors
    BY DEF DecoderType
  <2> QED BY <2>1, <2>2, AbortedOK
<1> QED BY <1>1, <1>2

-----------------------------------------------------------------------------
IInv == TypeOK /\ WindowsOK /\ FirstErrorKept /\ ResultReportsFirstError

LEMMA InitInv == Init => IInv
  BY IntAssumption DEF Init, IInv, TypeOK, WindowsOK, FirstErrorKept, ResultReportsFirstError,
        Depth

(* A window that is aborted has the code of some error. *)
LEMMA NoteOK ==
  ASSUME NEW d \in DecoderType, WindowOK(d), raised \in 0 .. 8
  PROVE  /\ Note(d) \in 0 .. 8
         /\ Aborted(d) => Note(d) # 0
         /\ raised = 0 /\ Aborted(d) => d.pos = -Note(d)
         /\ raised # 0 => Note(d) = raised
         /\ ~ Aborted(d) => Note(d) = raised
  BY DEF Note, WindowOK, Aborted, DecoderType

(* Using the top decoder, in any way that keeps it, keeps the invariant. *)
LEMMA SetTopStep ==
  ASSUME IInv, InUse, NEW d, Kept(Top, d), SetTop(d)
  PROVE  IInv'
<1>1. /\ frames \in Seq(FrameType) /\ Depth \in Nat \ {0} /\ Depth \in 1 .. Depth
      /\ frames[Depth] \in FrameType /\ raised \in 0 .. 8
  BY DEF IInv, TypeOK, InUse, Depth
<1>2. Top \in DecoderType /\ WindowOK(Top)
  BY <1>1 DEF Top, FrameType, IInv, WindowsOK
<1>3. d \in DecoderType /\ WindowOK(d) /\ (Aborted(Top) => d = Top)
  BY DEF Kept
<1>4. /\ frames' = [frames EXCEPT ![Depth].dec = d] /\ raised' = Note(d)
      /\ input' = input /\ result' = result
  BY DEF SetTop
<1>5. /\ frames' \in Seq(FrameType) /\ Depth' = Depth
      /\ frames'[Depth].dec = d /\ frames'[Depth].mark = frames[Depth].mark
      /\ \A i \in 1 .. Depth - 1 : frames'[i] = frames[i]
  <2>1. [frames[Depth] EXCEPT !.dec = d] \in FrameType
    BY <1>1, <1>3 DEF FrameType
  <2>2. frames' = [frames EXCEPT ![Depth] = [frames[Depth] EXCEPT !.dec = d]]
    BY <1>4
  <2>3. frames' \in Seq(FrameType) /\ Len(frames') = Len(frames)
    BY <1>1, <2>1, <2>2 DEF Depth
  <2> QED BY <1>1, <1>3, <2>1, <2>2, <2>3 DEF Depth, FrameType
<1>6. WindowsOK'
  <2>1. \A w : WindowOK(w)' <=> WindowOK(w)
    BY <1>4 DEF WindowOK
  <2>2. \A i \in 1 .. Depth : WindowOK(frames'[i].dec) /\ WindowOK(frames'[i].mark)
    BY <1>1, <1>3, <1>5 DEF IInv, WindowsOK
  <2> QED BY <1>5, <2>1, <2>2 DEF WindowsOK, WindowOK
<1>7. TypeOK'
  BY <1>1, <1>3, <1>4, <1>5, NoteOK DEF IInv, TypeOK
<1>8. FirstErrorKept'
  <2>1. CASE raised = 0
    <3>1. \A i \in 1 .. Depth - 1 : ~ Aborted(frames'[i].dec)
      BY <1>1, <1>5, <2>1 DEF IInv, FirstErrorKept
    <3> QED BY <1>1, <1>3, <1>4, <1>5, <2>1, <3>1, NoteOK DEF FirstErrorKept
  <2>2. CASE raised # 0
    <3>1. PICK k \in 1 .. Depth : /\ frames[k].dec.pos = -raised
                                 /\ \A i \in 1 .. k - 1 : ~ Aborted(frames[i].dec)
      BY <2>2 DEF IInv, FirstErrorKept, InUse
    <3>2. frames'[k].dec.pos = -raised
      <4>1. CASE k = Depth
        BY <1>1, <1>3, <1>5, <2>2, <3>1, <4>1 DEF Top, Aborted
      <4>2. CASE k # Depth
        BY <1>1, <1>5, <3>1, <4>2
      <4> QED BY <4>1, <4>2
    <3>3. \A i \in 1 .. k - 1 : frames'[i] = frames[i]
      BY <1>1, <1>5, <3>1
    <3>4. raised' = raised
      BY <1>1, <1>3, <1>4, <2>2, NoteOK
    <3> QED BY <1>5, <2>2, <3>1, <3>2, <3>3, <3>4 DEF FirstErrorKept
  <2> QED BY <2>1, <2>2
<1>9. ResultReportsFirstError'
  BY <1>1, <1>5 DEF ResultReportsFirstError, Depth
<1> QED BY <1>6, <1>7, <1>8, <1>9 DEF IInv

(* Pushing a slice of the top decoder, or reading its mark. *)
LEMMA PushStep ==
  ASSUME IInv, NEW d \in DecoderType, WindowOK(d), NEW kind \in {"slice", "mark"},
         Push(d, kind)
  PROVE  IInv'
<1>1. /\ frames \in Seq(FrameType) /\ Depth \in Nat \ {0} /\ raised \in 0 .. 8
      /\ frames # <<>>
  BY DEF IInv, TypeOK, Push, InUse, Depth
<1>2. /\ frames' = Append(frames, Frame(d, kind)) /\ raised' = Note(d)
      /\ input' = input /\ result' = result
  BY DEF Push
<1>3. Frame(d, kind) \in FrameType /\ Frame(d, kind).dec = d /\ Frame(d, kind).mark = NoMark
  BY DEF Frame, FrameType, NoMark, DecoderType
<1>4. /\ frames' \in Seq(FrameType) /\ Depth' = Depth + 1
      /\ frames'[Depth + 1] = Frame(d, kind)
      /\ \A i \in 1 .. Depth : frames'[i] = frames[i]
  BY <1>1, <1>2, <1>3 DEF Depth
<1>5. WindowsOK'
  <2>1. \A w : WindowOK(w)' <=> WindowOK(w)
    BY <1>2 DEF WindowOK
  <2>2. WindowOK(NoMark)
    BY DEF WindowOK, NoMark
  <2>3. \A i \in 1 .. Depth + 1 : WindowOK(frames'[i].dec) /\ WindowOK(frames'[i].mark)
    BY <1>1, <1>3, <1>4, <2>2 DEF IInv, WindowsOK
  <2> QED BY <1>4, <2>1, <2>3 DEF WindowsOK, WindowOK
<1>6. TypeOK'
  BY <1>1, <1>2, <1>4, NoteOK DEF IInv, TypeOK
<1>7. FirstErrorKept'
  <2>1. CASE raised = 0
    <3>1. \A i \in 1 .. Depth : ~ Aborted(frames'[i].dec)
      BY <1>4, <2>1 DEF IInv, FirstErrorKept
    <3>2. CASE Aborted(d)
      <4>1. raised' # 0 /\ frames'[Depth + 1].dec.pos = -raised'
        BY <1>1, <1>2, <1>3, <1>4, <2>1, <3>2, NoteOK
      <4> QED BY <1>1, <1>4, <3>1, <4>1 DEF FirstErrorKept
    <3>3. CASE ~ Aborted(d)
      <4>1. raised' = 0
        BY <1>1, <1>2, <2>1, <3>3, NoteOK
      <4> QED BY <1>1, <1>3, <1>4, <3>1, <3>3, <4>1 DEF FirstErrorKept
    <3> QED BY <3>2, <3>3
  <2>2. CASE raised # 0
    <3>1. PICK k \in 1 .. Depth : /\ frames[k].dec.pos = -raised
                                  /\ \A i \in 1 .. k - 1 : ~ Aborted(frames[i].dec)
      BY <1>1, <2>2 DEF IInv, FirstErrorKept
    <3>2. raised' = raised
      BY <1>1, <1>2, <2>2, NoteOK
    <3>3. /\ k \in 1 .. Depth + 1 /\ frames'[k] = frames[k]
          /\ \A i \in 1 .. k - 1 : frames'[i] = frames[i]
      BY <1>1, <1>4, <3>1
    <3> QED BY <1>4, <2>2, <3>1, <3>2, <3>3 DEF FirstErrorKept
  <2> QED BY <2>1, <2>2
<1>8. ResultReportsFirstError'
  <2>1. frames' # <<>>
    BY <1>1, <1>4 DEF Depth
  <2> QED BY <2>1 DEF ResultReportsFirstError
<1> QED BY <1>5, <1>6, <1>7, <1>8 DEF IInv

LEMMA MarkStep == IInv /\ repeated_info_init_decode => IInv'
<1> SUFFICES ASSUME IInv, repeated_info_init_decode PROVE IInv'
  OBVIOUS
<1> DEFINE m == decoder_init_slice(Top, decoder_left(Top))
<1>1. /\ frames \in Seq(FrameType) /\ Depth \in Nat \ {0} /\ Depth \in 1 .. Depth
      /\ frames[Depth] \in FrameType /\ frames # <<>>
      /\ frames' = [frames EXCEPT ![Depth].mark = m]
      /\ raised' = raised /\ input' = input /\ result' = result
  BY DEF IInv, TypeOK, InUse, Depth, repeated_info_init_decode
<1>2. Top \in DecoderType /\ WindowOK(Top) /\ input \in Nat
  BY <1>1, IntAssumption DEF Top, FrameType, IInv, WindowsOK, TypeOK
<1>3. decoder_left(Top) \in Nat
  BY <1>2 DEF decoder_left, WindowOK, DecoderType
<1>4. m \in DecoderType /\ WindowOK(m)
  BY <1>2, <1>3, SliceOK
<1> HIDE DEF m
<1>5. /\ frames' \in Seq(FrameType) /\ Depth' = Depth
      /\ \A i \in 1 .. Depth : /\ frames'[i].dec = frames[i].dec
                               /\ frames'[i].mark \in {m, frames[i].mark}
  <2>1. [frames[Depth] EXCEPT !.mark = m] \in FrameType
    BY <1>1, <1>4 DEF FrameType
  <2>2. frames' = [frames EXCEPT ![Depth] = [frames[Depth] EXCEPT !.mark = m]]
    BY <1>1
  <2>3. frames' \in Seq(FrameType) /\ Len(frames') = Len(frames)
    BY <1>1, <2>1, <2>2 DEF Depth
  <2>4. \A i \in 1 .. Depth : i # Depth => frames'[i] = frames[i]
    BY <1>1, <2>2 DEF Depth
  <2>5. frames'[Depth].dec = frames[Depth].dec /\ frames'[Depth].mark = m
    BY <1>1, <2>2 DEF Depth, FrameType
  <2> QED BY <2>3, <2>4, <2>5 DEF Depth
<1>6. WindowsOK'
  <2>1. \A w : WindowOK(w)' <=> WindowOK(w)
    BY <1>1 DEF WindowOK
  <2>2. \A i \in 1 .. Depth : WindowOK(frames'[i].dec) /\ WindowOK(frames'[i].mark)
    BY <1>4, <1>5 DEF IInv, WindowsOK
  <2> QED BY <1>5, <2>1, <2>2 DEF WindowsOK, WindowOK
<1>7. TypeOK'
  BY <1>1, <1>5 DEF IInv, TypeOK
<1>8. FirstErrorKept'
  <2>1. CASE raised = 0
    BY <1>1, <1>5, <2>1 DEF IInv, FirstErrorKept, Aborted
  <2>2. CASE raised # 0
    <3>1. PICK k \in 1 .. Depth : /\ frames[k].dec.pos = -raised
                                  /\ \A i \in 1 .. k - 1 : ~ Aborted(frames[i].dec)
      BY <1>1, <2>2 DEF IInv, FirstErrorKept
    <3>2. \A i \in 1 .. k - 1 : frames'[i].dec = frames[i].dec
      BY <1>1, <1>5, <3>1
    <3> QED BY <1>1, <1>5, <2>2, <3>1, <3>2 DEF FirstErrorKept
  <2> QED BY <2>1, <2>2
<1>9. ResultReportsFirstError'
  <2>1. frames' # <<>>
    BY <1>1, <1>5 DEF Depth
  <2> QED BY <2>1 DEF ResultReportsFirstError
<1> QED BY <1>6, <1>7, <1>8, <1>9 DEF IInv

(* Giving a frame back is an operation on its owner that keeps it, and the
   error of an aborted frame goes to an owner that has none. *)
LEMMA GivenBackKept ==
  ASSUME NEW owner \in DecoderType, WindowOK(owner), NEW top \in FrameType, WindowOK(top.dec)
  PROVE  /\ Kept(owner, GivenBack(owner, top))
         /\ ~ Aborted(owner) /\ Aborted(top.dec) => GivenBack(owner, top).pos = top.dec.pos
<1> DEFINE res == decoder_get_result(top.dec)
<1>1. res = top.dec.pos /\ res \in Int /\ (res >= 0 \/ -res \in Errors) /\ -(-res) = res
  BY DEF decoder_get_result, FrameType, DecoderType, WindowOK
<1>2. CASE top.kind = "slice"
  BY <1>1, <1>2, SeekKept DEF GivenBack, Aborted
<1>3. CASE top.kind # "slice" /\ res < 0
  <2>1. GivenBack(owner, top) = decoder_abort(owner, -res)
    BY <1>3 DEF GivenBack
  <2>2. -res \in Errors
    BY <1>1, <1>3
  <2>3. Kept(owner, decoder_abort(owner, -res))
        /\ (~ Aborted(owner) => decoder_abort(owner, -res).pos = -(-res))
    BY <2>2, AbortKept
  <2> QED BY <1>1, <2>1, <2>3
<1>4. CASE top.kind # "slice" /\ ~ (res < 0)
  BY <1>1, <1>4 DEF GivenBack, Kept, Aborted
<1> QED BY <1>2, <1>3, <1>4

LEMMA GiveBackStep == IInv /\ GiveBack => IInv'
<1> SUFFICES ASSUME IInv, GiveBack PROVE IInv'
  OBVIOUS
<1> DEFINE n == Depth - 1
           rest == SubSeq(frames, 1, n)
           d == GivenBack(frames[n].dec, frames[Depth])
<1>1. /\ frames \in Seq(FrameType) /\ Depth \in Nat /\ Depth > 1 /\ n \in Nat \ {0}
      /\ raised \in 0 .. 8 /\ frames # <<>>
      /\ frames[n] \in FrameType /\ frames[Depth] \in FrameType
      /\ input' = input /\ result' = result
  BY DEF IInv, TypeOK, GiveBack, Depth
<1>2. rest \in Seq(FrameType) /\ Len(rest) = n /\ \A i \in 1 .. n : rest[i] = frames[i]
  BY <1>1 DEF Depth
<1>3. /\ frames[n].dec \in DecoderType /\ frames[Depth].dec \in DecoderType
      /\ WindowOK(frames[n].dec) /\ WindowOK(frames[Depth].dec)
  BY <1>1 DEF FrameType, IInv, WindowsOK
<1>4. /\ Kept(frames[n].dec, d)
      /\ ~ Aborted(frames[n].dec) /\ Aborted(frames[Depth].dec)
            => d.pos = frames[Depth].dec.pos
  BY <1>1, <1>3, GivenBackKept
<1>5. d \in DecoderType /\ WindowOK(d) /\ (Aborted(frames[n].dec) => d = frames[n].dec)
  BY <1>4 DEF Kept
<1>6. frames' = [rest EXCEPT ![n] = [rest[n] EXCEPT !.dec = d]]
  <2>1. frames' = [rest EXCEPT ![n] =
                     [rest[n] EXCEPT !.dec = GivenBack(rest[n].dec, frames[Depth])]]
    BY DEF GiveBack
  <2>2. rest[n] = frames[n]
    BY <1>1, <1>2
  <2>3. GivenBack(rest[n].dec, frames[Depth]) = d
    BY <2>2
  <2> HIDE DEF rest, d, n
  <2> QED BY <2>1, <2>3
<1> HIDE DEF d, rest, n
<1>7. /\ frames' \in Seq(FrameType) /\ Len(frames') = n /\ frames' # <<>>
      /\ frames'[n].dec = d /\ frames'[n].mark = frames[n].mark
      /\ \A i \in 1 .. n : i # n => frames'[i] = frames[i]
  <2>1. [rest[n] EXCEPT !.dec = d] \in FrameType
    BY <1>1, <1>2, <1>5 DEF FrameType
  <2>2. frames' \in Seq(FrameType) /\ Len(frames') = n
    BY <1>1, <1>2, <1>6, <2>1
  <2>3. frames'[n] = [rest[n] EXCEPT !.dec = d] /\ rest[n] = frames[n]
    <3>1. n \in 1 .. n /\ DOMAIN rest = 1 .. n
      BY <1>1, <1>2
    <3> QED BY <1>2, <1>6, <3>1
  <2>4. \A i \in 1 .. n : i # n => frames'[i] = frames[i]
    BY <1>2, <1>6
  <2>5. frames'[n].dec = d /\ frames'[n].mark = frames[n].mark
    BY <1>1, <2>3 DEF FrameType
  <2> QED BY <1>1, <2>2, <2>4, <2>5
<1>8. raised' = Note(d)
  <2>1. raised' = Note(frames'[n].dec)
    BY DEF GiveBack, n
  <2> QED BY <1>7, <2>1
<1>9. n \in 1 .. Depth /\ Depth = n + 1
  BY <1>1 DEF n
<1>10. WindowsOK'
  <2>1. \A w : WindowOK(w)' <=> WindowOK(w)
    BY <1>1 DEF WindowOK
  <2>2. \A i \in 1 .. n : WindowOK(frames'[i].dec) /\ WindowOK(frames'[i].mark)
    BY <1>1, <1>5, <1>7, <1>9 DEF IInv, WindowsOK
  <2> QED BY <1>7, <2>1, <2>2 DEF WindowsOK, WindowOK, Depth
<1>11. TypeOK'
  BY <1>1, <1>5, <1>7, <1>8, NoteOK DEF IInv, TypeOK
<1>12. FirstErrorKept'
  <2>1. CASE raised = 0
    <3>1. \A i \in 1 .. Depth : ~ Aborted(frames[i].dec)
      BY <2>1 DEF IInv, FirstErrorKept
    <3>2. \A i \in 1 .. n : i # n => ~ Aborted(frames'[i].dec)
      BY <1>7, <1>9, <3>1
    <3>3. CASE Aborted(d)
      <4>1. raised' # 0 /\ frames'[n].dec.pos = -raised'
        BY <1>1, <1>5, <1>7, <1>8, <2>1, <3>3, NoteOK
      <4>2. /\ n \in 1 .. Len(frames')
            /\ \A i \in 1 .. n - 1 : ~ Aborted(frames'[i].dec)
        BY <1>1, <1>7, <3>2
      <4> QED BY <4>1, <4>2 DEF FirstErrorKept, Depth
    <3>4. CASE ~ Aborted(d)
      <4>1. raised' = 0
        BY <1>1, <1>5, <1>8, <2>1, <3>4, NoteOK
      <4> QED BY <1>1, <1>7, <3>2, <3>4, <4>1 DEF FirstErrorKept, Depth
    <3> QED BY <3>3, <3>4
  <2>2. CASE raised # 0
    <3>1. PICK k \in 1 .. Depth : /\ frames[k].dec.pos = -raised
                                 /\ \A i \in 1 .. k - 1 : ~ Aborted(frames[i].dec)
      BY <1>1, <2>2 DEF IInv, FirstErrorKept
    <3>2. raised' = raised /\ -raised < 0
      BY <1>1, <1>5, <1>8, <2>2, NoteOK
    <3>3. CASE k <= n
      <4>1. k \in 1 .. n /\ \A i \in 1 .. k - 1 : frames'[i] = frames[i]
        BY <1>1, <1>7, <1>9, <3>1, <3>3
      <4>2. frames'[k].dec.pos = -raised
        <5>1. CASE k = n
          BY <1>5, <1>7, <3>1, <3>2, <5>1 DEF Aborted
        <5>2. CASE k # n
          BY <1>7, <3>1, <4>1, <5>2
        <5> QED BY <5>1, <5>2
      <4> QED BY <1>7, <2>2, <3>1, <3>2, <4>1, <4>2 DEF FirstErrorKept, Depth
    <3>4. CASE k = Depth
      <4>1. ~ Aborted(frames[n].dec) /\ Aborted(frames[Depth].dec)
        BY <1>1, <1>9, <3>1, <3>2, <3>4 DEF Aborted
      <4>2. frames'[n].dec.pos = -raised
        BY <1>4, <1>7, <3>1, <3>4, <4>1
      <4>3. \A i \in 1 .. n - 1 : ~ Aborted(frames'[i].dec)
        BY <1>1, <1>7, <1>9, <3>1, <3>4
      <4> QED BY <1>1, <1>7, <2>2, <3>2, <4>2, <4>3 DEF FirstErrorKept, Depth
    <3> QED BY <1>1, <1>9, <3>1, <3>3, <3>4
  <2> QED BY <2>1, <2>2
<1>13. ResultReportsFirstError'
  BY <1>7 DEF ResultReportsFirstError
<1> QED BY <1>10, <1>11, <1>12, <1>13 DEF IInv

LEMMA NextInv == IInv /\ [Next]_vars => IInv'
<1> SUFFICES ASSUME IInv, [Next]_vars PROVE IInv'
  OBVIOUS
<1>1. CASE UNCHANGED vars
  <2>1. \A w : WindowOK(w)' <=> WindowOK(w)
    BY <1>1 DEF WindowOK, vars
  <2> QED BY <1>1, <2>1 DEF vars, IInv, TypeOK, WindowsOK, FirstErrorKept,
                ResultReportsFirstError, Depth, WindowOK
<1>2. ASSUME NEW size \in Inputs, pbtools_message_decode(size) PROVE IInv'
  <2> DEFINE f == Frame([base |-> 0, size |-> size, pos |-> 0], "slice")
  <2>1. size \in 0 .. IntMax
    BY <1>2, DecoderAssumption
  <2>2. int(size) = size
    BY <2>1, IntAssumption DEF int
  <2>3. frames' = <<f>> /\ input' = size /\ raised' = 0 /\ result' = 0
    BY <1>2, <2>2 DEF pbtools_message_decode, decoder_init
  <2>4. f \in FrameType /\ f.dec.pos = 0 /\ f.mark = NoMark
        /\ f.dec = [base |-> 0, size |-> size, pos |-> 0]
    BY <2>1, IntAssumption DEF Frame, FrameType, NoMark, DecoderType
  <2>5. WindowOK(f.dec)' /\ WindowOK(f.mark)'
    BY <2>1, <2>3, <2>4, IntAssumption DEF WindowOK, NoMark
  <2> HIDE DEF f
  <2>6. frames' \in Seq(FrameType) /\ Len(frames') = 1 /\ frames'[1] = f /\ frames' # <<>>
    BY <2>3, <2>4
  <2>7. TypeOK'
    BY <2>1, <2>3, <2>6 DEF TypeOK
  <2>8. WindowsOK'
    BY <2>5, <2>6 DEF WindowsOK, Depth
  <2>9. FirstErrorKept'
    BY <2>3, <2>4, <2>6 DEF FirstErrorKept, Depth, Aborted
  <2>10. ResultReportsFirstError'
    BY <2>6 DEF ResultReportsFirstError
  <2> QED BY <2>7, <2>8, <2>9, <2>10 DEF IInv
<1>3. ASSUME InUse
      PROVE /\ Top \in DecoderType /\ WindowOK(Top)
            /\ frames[Depth].mark \in DecoderType /\ WindowOK(frames[Depth].mark)
            /\ input \in Nat
  <2>1. frames \in Seq(FrameType) /\ Depth \in 1 .. Depth /\ frames[Depth] \in FrameType
    BY <1>3 DEF IInv, TypeOK, InUse, Depth
  <2> QED BY <2>1, IntAssumption DEF Top, FrameType, IInv, TypeOK, WindowsOK
<1>4. CASE Get
  BY <1>3, <1>4, GetKept, SetTopStep DEF Get
<1>5. ASSUME NEW size \in Amounts, Read(size) PROVE IInv'
  <2>1. size \in Nat
    BY DecoderAssumption, IntAssumption
  <2> QED BY <1>3, <1>5, <2>1, ReadKept, SetTopStep DEF Read
<1>6. ASSUME NEW offset \in Amounts, Seek(offset) PROVE IInv'
  <2>1. offset \in Int /\ offset >= 0
    BY DecoderAssumption, IntAssumption
  <2> QED BY <1>3, <1>6, <2>1, SeekKept, SetTopStep DEF Seek
<1>7. ASSUME NEW error \in Causes, Abort(error) PROVE IInv'
  <2>1. error \in Errors
    BY DecoderAssumption
  <2> QED BY <1>3, <1>7, <2>1, AbortKept, SetTopStep DEF Abort
<1>8. ASSUME NEW size \in Amounts, OpenSlice(size) PROVE IInv'
  <2>1. size \in Nat /\ InUse
    BY <1>8, DecoderAssumption, IntAssumption DEF OpenSlice, Push
  <2> QED BY <1>3, <1>8, <2>1, SliceOK, PushStep DEF OpenSlice
<1>9. CASE repeated_info_init_decode
  BY <1>9, MarkStep
<1>10. CASE ReadMark
  BY <1>3, <1>10, PushStep DEF ReadMark
<1>11. CASE GiveBack
  BY <1>11, GiveBackStep
<1>12. CASE Return
  <2>1. /\ frames' = <<>> /\ Depth = 1 /\ result' = Top.pos
        /\ input' = input /\ raised' = raised
    BY <1>12 DEF Return, decoder_get_result
  <2>2. InUse
    BY <1>12 DEF Return, InUse, Depth
  <2>3. Top \in DecoderType /\ WindowOK(Top)
    BY <1>3, <2>2
  <2>4. IF raised = 0 THEN ~ Aborted(Top) ELSE Top.pos = -raised
    BY <2>1, <2>2 DEF IInv, FirstErrorKept, InUse, Top
  <2>5. raised = 0 => Top.pos \in 0 .. input
    BY <2>3, <2>4 DEF WindowOK, Aborted, DecoderType, IInv, TypeOK
  <2>6. TypeOK' /\ WindowsOK' /\ FirstErrorKept'
    BY <2>1, <2>3 DEF IInv, TypeOK, WindowsOK, FirstErrorKept, Depth, DecoderType
  <2>7. ResultReportsFirstError'
    BY <2>1, <2>4, <2>5 DEF ResultReportsFirstError
  <2> QED BY <2>6, <2>7 DEF IInv
<1> QED BY <1>1, <1>2, <1>4, <1>5, <1>6, <1>7, <1>8, <1>9, <1>10, <1>11, <1>12 DEF Next

(* The decoders always have their type. *)
THEOREM DecoderTypeOK == Spec => []TypeOK
<1>1. IInv => TypeOK
  BY DEF IInv
<1> QED BY <1>1, InitInv, NextInv, PTL DEF Spec

(* No decoder, slice or mark ever looks outside the encoded message. *)
THEOREM DecoderWindowsOK == Spec => []WindowsOK
<1>1. IInv => WindowsOK
  BY DEF IInv
<1> QED BY <1>1, InitInv, NextInv, PTL DEF Spec

(* The first error met anywhere in the nest is the one that is kept ... *)
THEOREM DecoderFirstErrorKept == Spec => []FirstErrorKept
<1>1. IInv => FirstErrorKept
  BY DEF IInv
<1> QED BY <1>1, InitInv, NextInv, PTL DEF Spec

(* ... and the one that pbtools_message_decode returns. *)
THEOREM DecoderResult == Spec => []ResultReportsFirstError
<1>1. IInv => ResultReportsFirstError
  BY DEF IInv
<1> QED BY <1>1, InitInv, NextInv, PTL DEF Spec
-----------------------------------------------------------------------------
(* Slices stay in their parents.  An operation on a decoder may move it or
   abort it; a window that still has bytes in it is the window it was. *)
SameWindow(d, e) == e.size > 0 => e.base = d.base /\ e.size = d.size

Nested(parent, child) ==
  child.size > 0 => /\ ~ Aborted(parent)
                    /\ child.base = parent.base + parent.pos
                    /\ child.size <= decoder_left(parent)

LEMMA AbortWindow ==
  ASSUME NEW d \in DecoderType, WindowOK(d), NEW error \in Errors
  PROVE  SameWindow(d, decoder_abort(d, error))
<1>1. decoder_abort(d, error) = d \/ decoder_abort(d, error).size = -error
  BY DEF decoder_abort, DecoderType
<1>2. ~ (-error > 0)
  OBVIOUS
<1> QED BY <1>1, <1>2 DEF SameWindow

LEMMA MoveWindow ==
  ASSUME NEW d \in DecoderType, NEW amount \in Int
  PROVE  SameWindow(d, [d EXCEPT !.pos = @ + amount])
  BY DEF SameWindow, DecoderType

LEMMA GetWindow ==
  ASSUME NEW d \in DecoderType, WindowOK(d)
  PROVE  SameWindow(d, decoder_get(d))
  BY AbortWindow, MoveWindow DEF decoder_get

LEMMA ReadWindow ==
  ASSUME NEW d \in DecoderType, WindowOK(d), NEW size \in Nat
  PROVE  SameWindow(d, decoder_read(d, size))
  BY AbortWindow, MoveWindow DEF decoder_read

LEMMA SeekWindow ==
  ASSUME NEW d \in DecoderType, WindowOK(d), NEW offset \in Int,
         offset >= 0 \/ -offset \in Errors
  PROVE  SameWindow(d, decoder_seek(d, offset))
<1>1. SameWindow(d, d)
  BY DEF SameWindow
<1>2. SameWindow(d, decoder_abort(d, SEEK_OVERFLOW)) /\ SameWindow(d, decoder_abort(d, OUT_OF_DATA))
  BY AbortWindow
<1>3. offset < 0 => SameWindow(d, decoder_abort(d, -offset))
  BY AbortWindow
<1> QED BY <1>1, <1>2, <1>3, MoveWindow DEF decoder_seek

LEMMA GivenBackWindow ==
  ASSUME NEW owner \in DecoderType, WindowOK(owner), NEW top \in FrameType, WindowOK(top.dec)
  PROVE  SameWindow(owner, GivenBack(owner, top))
<1> DEFINE res == decoder_get_result(top.dec)
<1>1. res \in Int /\ (res >= 0 \/ -res \in Errors)
  BY DEF decoder_get_result, FrameType, DecoderType, WindowOK
<1>2. SameWindow(owner, decoder_seek(owner, res))
  BY <1>1, SeekWindow
<1>3. res < 0 => SameWindow(owner, decoder_abort(owner, -res))
  BY <1>1, AbortWindow
<1>4. SameWindow(owner, owner)
  BY DEF SameWindow
<1> QED BY <1>2, <1>3, <1>4 DEF GivenBack

(* A slice with bytes in it was taken from a parent that had them left. *)
LEMMA SliceNested ==
  ASSUME NEW p \in DecoderType, WindowOK(p), NEW size \in Nat
  PROVE  Nested(p, decoder_init_slice(p, size))
<1>1. CASE size <= decoder_left(p)
  <2>1. decoder_init_slice(p, size) = [base |-> p.base + p.pos, size |-> size, pos |-> 0]
    BY <1>1 DEF decoder_init_slice, Slice
  <2>2. size > 0 => ~ Aborted(p)
    BY <1>1 DEF decoder_left, WindowOK, Aborted, DecoderType
  <2> QED BY <1>1, <2>1, <2>2 DEF Nested
<1>2. CASE ~ (size <= decoder_left(p))
  <2>1. decoder_init_slice(p, size).size = -OUT_OF_DATA
    BY <1>2 DEF decoder_init_slice, Slice
  <2> QED BY <2>1 DEF Nested
<1> QED BY <1>1, <1>2

(* What SlicesNested says of one frame and the frame under it. *)
LEMMA NestedPairs ==
  SlicesNested <=> \A i \in 1 .. Depth - 1 :
                     frames[i + 1].kind = "slice" => Nested(frames[i].dec, frames[i + 1].dec)
  BY DEF SlicesNested, Nested

LEMMA NestedPairsNext ==
  SlicesNested' <=> \A i \in 1 .. Depth' - 1 :
                      frames'[i + 1].kind = "slice" => Nested(frames'[i].dec, frames'[i + 1].dec)
  BY DEF SlicesNested, Nested, Aborted

(* A child whose window is the one it had is still nested. *)
LEMMA NestedKept ==
  ASSUME NEW p, NEW d, NEW e, Nested(p, d), SameWindow(d, e)
  PROVE  Nested(p, e)
  BY DEF Nested, SameWindow

LEMMA SetTopNested ==
  ASSUME IInv, InUse, SlicesNested, NEW d, SameWindow(Top, d), SetTop(d)
  PROVE  SlicesNested'
<1>1. /\ frames \in Seq(FrameType) /\ Depth \in Nat \ {0} /\ Depth \in 1 .. Depth
      /\ frames[Depth] \in FrameType
  BY DEF IInv, TypeOK, InUse, Depth
<1>2. frames' = [frames EXCEPT ![Depth] = [frames[Depth] EXCEPT !.dec = d]]
  BY DEF SetTop
<1>3. /\ Depth' = Depth /\ frames'[Depth].dec = d /\ frames'[Depth].kind = frames[Depth].kind
      /\ \A i \in 1 .. Depth : i # Depth => frames'[i] = frames[i]
  BY <1>1, <1>2 DEF Depth, FrameType
<1>4. ASSUME NEW i \in 1 .. Depth - 1, frames'[i + 1].kind = "slice"
      PROVE  Nested(frames'[i].dec, frames'[i + 1].dec)
  <2>1. i \in 1 .. Depth /\ i + 1 \in 1 .. Depth /\ i # Depth /\ frames'[i] = frames[i]
    BY <1>1, <1>3
  <2>2. frames[i + 1].kind = "slice"
    BY <1>3, <1>4, <2>1
  <2>3. Nested(frames[i].dec, frames[i + 1].dec)
    BY <2>2, NestedPairs
  <2>4. CASE i + 1 = Depth
    BY <1>3, <2>1, <2>3, <2>4, NestedKept DEF Top
  <2>5. CASE i + 1 # Depth
    BY <1>3, <2>1, <2>3, <2>5
  <2> QED BY <2>4, <2>5
<1> QED BY <1>3, <1>4, NestedPairsNext

LEMMA PushNested ==
  ASSUME IInv, SlicesNested, NEW d, NEW kind, kind = "slice" => Nested(Top, d), Push(d, kind)
  PROVE  SlicesNested'
<1>1. /\ frames \in Seq(FrameType) /\ Depth \in Nat \ {0}
      /\ frames' = Append(frames, Frame(d, kind))
  BY DEF IInv, TypeOK, Push, InUse, Depth
<1>2. /\ Depth' = Depth + 1 /\ frames'[Depth + 1] = Frame(d, kind)
      /\ \A i \in 1 .. Depth : frames'[i] = frames[i]
  BY <1>1 DEF Depth
<1>3. Frame(d, kind).dec = d /\ Frame(d, kind).kind = kind
  BY DEF Frame
<1>4. ASSUME NEW i \in 1 .. Depth, frames'[i + 1].kind = "slice"
      PROVE  Nested(frames'[i].dec, frames'[i + 1].dec)
  <2>1. CASE i = Depth
    BY <1>2, <1>3, <1>4, <2>1 DEF Top
  <2>2. CASE i # Depth
    <3>1. i \in 1 .. Depth - 1 /\ i + 1 \in 1 .. Depth
      BY <1>1, <2>2
    <3> QED BY <1>2, <1>4, <3>1, NestedPairs
  <2> QED BY <2>1, <2>2
<1>5. 1 .. Depth' - 1 = 1 .. Depth
  BY <1>1, <1>2
<1> QED BY <1>4, <1>5, NestedPairsNext

LEMMA MarkNested ==
  ASSUME IInv, SlicesNested, repeated_info_init_decode
  PROVE  SlicesNested'
<1> DEFINE m == decoder_init_slice(Top, decoder_left(Top))
<1>1. /\ frames \in Seq(FrameType) /\ Depth \in 1 .. Depth /\ frames[Depth] \in FrameType
      /\ frames' = [frames EXCEPT ![Depth] = [frames[Depth] EXCEPT !.mark = m]]
  BY DEF IInv, TypeOK, InUse, Depth, repeated_info_init_decode
<1> HIDE DEF m
<1>2. /\ Depth' = Depth
      /\ \A i \in 1 .. Depth : /\ frames'[i].dec = frames[i].dec
                               /\ frames'[i].kind = frames[i].kind
  <2>1. \A i \in 1 .. Depth : i # Depth => frames'[i] = frames[i]
    BY <1>1 DEF Depth
  <2>2. frames'[Depth].dec = frames[Depth].dec /\ frames'[Depth].kind = frames[Depth].kind
    BY <1>1 DEF Depth, FrameType
  <2> QED BY <1>1, <2>1, <2>2 DEF Depth
<1>3. \A i \in 1 .. Depth - 1 : i \in 1 .. Depth /\ i + 1 \in 1 .. Depth
  BY <1>1
<1> QED BY <1>2, <1>3, NestedPairs, NestedPairsNext

(* The stack after a frame was given back: one frame less, and only the
   decoder of the owner is another one. *)
LEMMA GiveBackFrames ==
  ASSUME IInv, GiveBack, NEW n, n = Depth - 1
  PROVE  /\ n \in Nat \ {0} /\ Depth = n + 1 /\ Len(frames') = n
         /\ frames[n] \in FrameType /\ frames[Depth] \in FrameType
         /\ WindowOK(frames[n].dec) /\ WindowOK(frames[Depth].dec)
         /\ frames'[n].dec = GivenBack(frames[n].dec, frames[Depth])
         /\ frames'[n].kind = frames[n].kind
         /\ \A i \in 1 .. n - 1 : frames'[i] = frames[i]
<1> DEFINE rest == SubSeq(frames, 1, n)
           d == GivenBack(frames[n].dec, frames[Depth])
<1>1. /\ frames \in Seq(FrameType) /\ Depth \in Nat /\ Depth > 1 /\ n \in Nat \ {0}
      /\ n \in 1 .. Depth /\ Depth \in 1 .. Depth
      /\ frames[n] \in FrameType /\ frames[Depth] \in FrameType
  BY DEF IInv, TypeOK, GiveBack, Depth
<1>2. rest \in Seq(FrameType) /\ Len(rest) = n /\ \A i \in 1 .. n : rest[i] = frames[i]
  BY <1>1 DEF Depth
<1>3. frames' = [rest EXCEPT ![n] = [rest[n] EXCEPT !.dec = d]]
  <2>1. frames' = [rest EXCEPT ![n] =
                     [rest[n] EXCEPT !.dec = GivenBack(rest[n].dec, frames[Depth])]]
    BY DEF GiveBack
  <2>2. rest[n] = frames[n]
    BY <1>1, <1>2
  <2>3. GivenBack(rest[n].dec, frames[Depth]) = d
    BY <2>2
  <2> HIDE DEF rest, d
  <2> QED BY <2>1, <2>3
<1>4. WindowOK(frames[n].dec) /\ WindowOK(frames[Depth].dec)
  BY <1>1 DEF IInv, WindowsOK
<1> HIDE DEF rest, d
<1>5. n \in 1 .. n /\ DOMAIN rest = 1 .. n /\ rest[n] = frames[n]
  BY <1>1, <1>2
<1>6. frames'[n] = [rest[n] EXCEPT !.dec = d] /\ Len(frames') = n
  BY <1>2, <1>3, <1>5
<1>7. frames'[n].dec = d /\ frames'[n].kind = frames[n].kind
  BY <1>1, <1>5, <1>6 DEF FrameType
<1>8. \A i \in 1 .. n - 1 : frames'[i] = frames[i]
  BY <1>1, <1>2, <1>3
<1> QED BY <1>1, <1>4, <1>6, <1>7, <1>8 DEF d

LEMMA GiveBackNested ==
  ASSUME IInv, SlicesNested, GiveBack
  PROVE  SlicesNested'
<1>1. PICK n : n = Depth - 1
  OBVIOUS
<1>2. /\ n \in Nat \ {0} /\ Depth = n + 1 /\ Depth' = n
      /\ frames[n] \in FrameType /\ frames[Depth] \in FrameType
      /\ WindowOK(frames[n].dec) /\ WindowOK(frames[Depth].dec)
      /\ frames'[n].dec = GivenBack(frames[n].dec, frames[Depth])
      /\ frames'[n].kind = frames[n].kind
      /\ \A i \in 1 .. n - 1 : frames'[i] = frames[i]
  BY <1>1, GiveBackFrames DEF Depth
<1>3. SameWindow(frames[n].dec, frames'[n].dec)
  <2>1. frames[n].dec \in DecoderType
    BY <1>2 DEF FrameType
  <2> QED BY <1>2, <2>1, GivenBackWindow
<1>4. ASSUME NEW i \in 1 .. n - 1, frames'[i + 1].kind = "slice"
      PROVE  Nested(frames'[i].dec, frames'[i + 1].dec)
  <2>1. i \in 1 .. Depth - 1 /\ i + 1 \in 1 .. n /\ frames'[i] = frames[i]
    BY <1>2
  <2>2. CASE i + 1 = n
    <3>1. Nested(frames[i].dec, frames[n].dec)
      BY <1>2, <1>4, <2>1, <2>2, NestedPairs
    <3> QED BY <1>3, <2>1, <2>2, <3>1, NestedKept
  <2>3. CASE i + 1 # n
    <3>1. frames'[i + 1] = frames[i + 1]
      BY <1>2, <2>1, <2>3
    <3> QED BY <1>4, <2>1, <3>1, NestedPairs
  <2> QED BY <2>2, <2>3
<1> QED BY <1>2, <1>4, NestedPairsNext

LEMMA NextNested == IInv /\ SlicesNested /\ [Next]_vars => SlicesNested'
<1> SUFFICES ASSUME IInv, SlicesNested, [Next]_vars PROVE SlicesNested'
  OBVIOUS
<1>1. CASE UNCHANGED vars
  <2>1. frames' = frames /\ Depth' = Depth
    BY <1>1 DEF vars, Depth
  <2> QED BY <2>1, NestedPairs, NestedPairsNext
<1>2. ASSUME NEW size \in Inputs, pbtools_message_decode(size) PROVE SlicesNested'
  BY <1>2, NestedPairsNext DEF pbtools_message_decode, Depth
<1>3. ASSUME InUse PROVE Top \in DecoderType /\ WindowOK(Top)
  <2>1. frames \in Seq(FrameType) /\ Depth \in 1 .. Depth /\ frames[Depth] \in FrameType
    BY <1>3 DEF IInv, TypeOK, InUse, Depth
  <2> QED BY <2>1 DEF Top, FrameType, IInv, WindowsOK
<1>4. CASE Get
  BY <1>3, <1>4, GetWindow, SetTopNested DEF Get
<1>5. ASSUME NEW size \in Amounts, Read(size) PROVE SlicesNested'
  <2>1. size \in Nat
    BY DecoderAssumption, IntAssumption
  <2> QED BY <1>3, <1>5, <2>1, ReadWindow, SetTopNested DEF Read
<1>6. ASSUME NEW offset \in Amounts, Seek(offset) PROVE SlicesNested'
  <2>1. offset \in Int /\ offset >= 0
    BY DecoderAssumption, IntAssumption
  <2> QED BY <1>3, <1>6, <2>1, SeekWindow, SetTopNested DEF Seek
<1>7. ASSUME NEW error \in Causes, Abort(error) PROVE SlicesNested'
  <2>1. error \in Errors
    BY DecoderAssumption
  <2> QED BY <1>3, <1>7, <2>1, AbortWindow, SetTopNested DEF Abort
<1>8. ASSUME NEW size \in Amounts, OpenSlice(size) PROVE SlicesNested'
  <2>1. size \in Nat /\ InUse
    BY <1>8, DecoderAssumption, IntAssumption DEF OpenSlice, Push
  <2> QED BY <1>3, <1>8, <2>1, SliceNested, PushNested DEF OpenSlice
<1>9. CASE repeated_info_init_decode
  BY <1>9, MarkNested
<1>10. CASE ReadMark
  BY <1>10, PushNested DEF ReadMark
<1>11. CASE GiveBack
  BY <1>11, GiveBackNested
<1>12. CASE Return
  <2>1. frames' = <<>> /\ Depth' = 0
    BY <1>12 DEF Return, Depth
  <2> QED BY <2>1, NestedPairsNext
<1> QED BY <1>1, <1>2, <1>4, <1>5, <1>6, <1>7, <1>8, <1>9, <1>10, <1>11, <1>12 DEF Next

LEMMA InitNested == Init => SlicesNested
  BY DEF Init, SlicesNested, Depth

(* A slice with bytes in it starts where its parent stands and stays within what
   its parent has left, until it is given back. *)
THEOREM DecoderSlicesNested == Spec => []SlicesNested
<1>1. Init => IInv /\ SlicesNested
  BY InitInv, InitNested
<1>2. IInv /\ SlicesNested /\ [Next]_vars => (IInv /\ SlicesNested)'
  BY NextInv, NextNested
<1> QED BY <1>1, <1>2, PTL DEF Spec

(* What a frame that did not abort has read fits into its owner. *)
LEMMA GivenBackMoves ==
  ASSUME NEW owner \in DecoderType, WindowOK(owner), ~ Aborted(owner),
         NEW top \in FrameType, WindowOK(top.dec), ~ Aborted(top.dec),
         top.kind = "slice" => Nested(owner, top.dec), input \in 0 .. IntMax
  PROVE  GivenBack(owner, top)
           = [owner EXCEPT !.pos = @ + (IF top.kind = "slice" THEN top.dec.pos ELSE 0)]
<1>1. top.dec \in DecoderType /\ decoder_get_result(top.dec) = top.dec.pos /\ top.dec.pos >= 0
  BY DEF decoder_get_result, FrameType, DecoderType, Aborted
<1>2. CASE top.kind = "slice"
  <2>1. owner.pos + top.dec.pos <= owner.size
    <3>1. top.dec.pos <= top.dec.size /\ owner.pos <= owner.size
      BY <1>1 DEF WindowOK, Aborted, DecoderType
    <3>2. top.dec.size > 0 => top.dec.size <= owner.size - owner.pos
      BY <1>2 DEF Nested, decoder_left
    <3> QED BY <1>1, <3>1, <3>2 DEF DecoderType
  <2>2. owner.size <= IntMax
    BY IntAssumption DEF WindowOK, DecoderType
  <2>3. ~ (owner.pos + top.dec.pos > IntMax) /\ ~ (owner.pos + top.dec.pos > owner.size)
    BY <1>1, <2>1, <2>2, IntAssumption DEF DecoderType
  <2>4. decoder_seek(owner, top.dec.pos) = [owner EXCEPT !.pos = @ + top.dec.pos]
    BY <1>1, <2>3 DEF decoder_seek, Aborted, DecoderType
  <2> QED BY <1>1, <1>2, <2>4 DEF GivenBack
<1>3. CASE top.kind # "slice"
  <2>1. GivenBack(owner, top) = owner
    BY <1>1, <1>3 DEF GivenBack, DecoderType
  <2>2. owner = [owner EXCEPT !.pos = @ + 0]
    BY DEF DecoderType
  <2> QED BY <1>3, <2>1, <2>2
<1> QED BY <1>2, <1>3

(* Giving back a slice that did not abort moves its parent by what was read:
   the parent's own tests of decoder_seek never fire. *)
THEOREM DecoderGiveBack == Spec => GiveBackNeverOverruns
<1> DEFINE Moved ==
      GiveBack =>
        LET top == frames[Depth]  before == frames[Depth - 1].dec  after == frames'[Depth - 1].dec
        IN  ~ Aborted(before) /\ ~ Aborted(top.dec) =>
              after = [before EXCEPT !.pos = @ + (IF top.kind = "slice" THEN top.dec.pos ELSE 0)]
<1>1. IInv /\ SlicesNested /\ [Next]_vars => [Moved]_vars
  <2> SUFFICES ASSUME IInv, SlicesNested, GiveBack,
                      ~ Aborted(frames[Depth - 1].dec), ~ Aborted(frames[Depth].dec)
               PROVE  frames'[Depth - 1].dec
                        = [frames[Depth - 1].dec EXCEPT !.pos =
                             @ + (IF frames[Depth].kind = "slice" THEN frames[Depth].dec.pos ELSE 0)]
    OBVIOUS
  <2>1. PICK n : n = Depth - 1
    OBVIOUS
  <2>2. /\ n \in Nat \ {0} /\ Depth = n + 1
        /\ frames[n] \in FrameType /\ frames[Depth] \in FrameType
        /\ WindowOK(frames[n].dec) /\ WindowOK(frames[Depth].dec)
        /\ frames'[n].dec = GivenBack(frames[n].dec, frames[Depth])
    BY <2>1, GiveBackFrames
  <2>3. frames[Depth].kind = "slice" => Nested(frames[n].dec, frames[Depth].dec)
    BY <2>2, NestedPairs
  <2>4. frames[n].dec \in DecoderType /\ input \in 0 .. IntMax
    BY <2>2 DEF FrameType, IInv, TypeOK
  <2> QED BY <2>1, <2>2, <2>3, <2>4, GivenBackMoves
<1>2. Init => IInv /\ SlicesNested
  BY InitInv, InitNested
<1>3. IInv /\ SlicesNested /\ [Next]_vars => (IInv /\ SlicesNested)'
  BY NextInv, NextNested
<1>4. GiveBackNeverOverruns <=> [][Moved]_vars
  BY DEF GiveBackNeverOverruns
<1> HIDE DEF Moved
<1> QED BY <1>1, <1>2, <1>3, <1>4, PTL DEF Spec
=============================================================================
