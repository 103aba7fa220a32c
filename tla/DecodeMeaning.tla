--------------------------- MODULE DecodeMeaning ---------------------------
(***************************************************************************)
(* pbtools_message_decode against what an encoded message means.           *)
(***************************************************************************)
EXTENDS MessageDecode

R == INSTANCE MessageReference

Records == R!Records(input)

(* When the heap was large enough, decoding takes exactly the messages that are
   well formed, all of each, and leaves in the struct what they mean: no item
   is lost, doubled or left unread between the counting and the reading pass,
   no field takes the bytes of another, and nothing but the fields that occur
   differs from what the struct held before. *)
DecodesTheMeaning ==
  Idle /\ decodes > 0 /\ refused = {} =>
    IF R!Valid(root, Records)
    THEN result = Len(input) /\ message = R!Meaning(root, Records, before)
    ELSE result < 0
=============================================================================
