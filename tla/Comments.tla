------------------------------ MODULE Comments ------------------------------
(***************************************************************************)
(* ignore_comments, which replaces the comments of a .proto file by spaces *)
(* before it is parsed.  It goes through the markers that one regular      *)
(* expression finds, "/*", "*/", "//" and the end of a line, from left to  *)
(* right and without overlaps.  Offsets count from 0, as in the code.      *)
(***************************************************************************)
EXTENDS Integers, SequencesExt, FiniteSetsExt

CONSTANTS Characters,
          Texts

ASSUME TextsAssumption == Texts \subseteq Seq(Characters)

NL == "newline"
Space == "space"

VARIABLES text,
          scan,         \* the regular expression has matched up to here
          in_single_line_comment, in_multi_line_comment,
          start_offset, non_comment_offset,
          chunks,       \* joined
          status        \* "scanning", "ended" or "raised"

comments == <<text, scan, in_single_line_comment, in_multi_line_comment,
              start_offset, non_comment_offset, chunks, status>>

(* text[first:end], which ends where the text does. *)
Piece(first, end) == SubSeq(text, first + 1, Min({end, Len(text)}))
Spaces(n) == [i \in 1 .. n |-> Space]

Begin == <<"/", "*">>
End == <<"*", "/">>
Line == <<"/", "/">>

Marker(offset) ==
  IF Piece(offset, offset + 2) \in {Begin, End, Line} THEN Piece(offset, offset + 2)
  ELSE Piece(offset, offset + 1)
Markers == {i \in scan .. Len(text) - 1 : Marker(i) \in {Begin, End, Line, <<NL>>}}

CommentsInit ==
  /\ text \in Texts
  /\ scan = 0 /\ in_single_line_comment = FALSE /\ in_multi_line_comment = FALSE
  /\ start_offset = 0 /\ non_comment_offset = 0 /\ chunks = <<>> /\ status = "scanning"
-----------------------------------------------------------------------------
InCode == ~ in_single_line_comment /\ ~ in_multi_line_comment

Pass == UNCHANGED <<in_single_line_comment, in_multi_line_comment, start_offset,
                    non_comment_offset, chunks, status>>

EndLine(offset, kind) ==
  /\ in_single_line_comment /\ kind = <<NL>>
  /\ in_single_line_comment' = FALSE
  /\ chunks' = chunks \o Spaces(offset - start_offset)
  /\ non_comment_offset' = offset
  /\ UNCHANGED <<in_multi_line_comment, start_offset, status>>

InLine(offset, kind) == in_single_line_comment /\ kind # <<NL>> /\ Pass

NestedBegin(offset, kind) ==
  /\ in_multi_line_comment /\ kind = Begin
  /\ status' = "raised"
  /\ UNCHANGED <<in_single_line_comment, in_multi_line_comment, start_offset,
                 non_comment_offset, chunks>>

(* Mutant: the code begins with the end of the comment. *)
EndBlock_at_marker(offset, kind) ==
  /\ in_multi_line_comment /\ kind = End
  /\ in_multi_line_comment' = FALSE
  /\ chunks' = chunks \o Spaces(offset - start_offset)
  /\ non_comment_offset' = offset
  /\ UNCHANGED <<in_single_line_comment, start_offset, status>>

EndBlock(offset, kind) ==
  /\ in_multi_line_comment /\ kind = End
  /\ in_multi_line_comment' = FALSE
  /\ chunks' = chunks \o Spaces(offset + 2 - start_offset)
  /\ non_comment_offset' = offset + 2
  /\ UNCHANGED <<in_single_line_comment, start_offset, status>>

InBlock(offset, kind) == in_multi_line_comment /\ kind \notin {Begin, End} /\ Pass

StartComment(offset, kind) ==
  /\ InCode /\ kind \in {Line, Begin}
  /\ in_single_line_comment' = (kind = Line)
  /\ in_multi_line_comment' = (kind = Begin)
  /\ start_offset' = offset
  /\ chunks' = chunks \o Piece(non_comment_offset, offset)
  /\ UNCHANGED <<non_comment_offset, status>>

OtherMarker(offset, kind) == InCode /\ kind \in {End, <<NL>>} /\ Pass

NextMarker ==
  /\ status = "scanning" /\ Markers # {}
  /\ \E offset \in {Min(Markers)} :
       /\ \E kind \in {Marker(offset)} :
            /\ scan' = offset + Len(kind)
            /\ \/ EndLine(offset, kind) \/ InLine(offset, kind)
               \/ NestedBegin(offset, kind) \/ EndBlock(offset, kind) \/ InBlock(offset, kind)
               \/ StartComment(offset, kind) \/ OtherMarker(offset, kind)
  /\ UNCHANGED text

EndOfText ==
  /\ status = "scanning" /\ Markers = {}
  /\ status' = IF in_multi_line_comment THEN "raised" ELSE "ended"
  /\ chunks' = chunks \o (IF in_multi_line_comment THEN <<>>
                          ELSE IF in_single_line_comment THEN Spaces(Len(text) - start_offset)
                          ELSE Piece(non_comment_offset, Len(text)))
  /\ UNCHANGED <<text, scan, in_single_line_comment, in_multi_line_comment, start_offset,
                 non_comment_offset>>

ignore_comments == NextMarker \/ EndOfText
-----------------------------------------------------------------------------
(* A text read character by character: in[i] is the state in which character i
   is read.  "opening", "closing", "passed" and "slashes" are the second
   characters of markers: of one that opens or closes a block, of "*/" in code and
   of "//" in a block.  "/*" in a block is the end of reading.  As the code, this
   reader does not know of strings. *)
Two(i) == Piece(i - 1, i + 1)

After(state, i) ==
  CASE state = "code" /\ Two(i) = Line    -> "line"
    [] state = "code" /\ Two(i) = Begin   -> "opening"
    [] state = "code" /\ Two(i) = End     -> "passed"
    [] state = "line" /\ text[i] = NL     -> "code"
    [] state = "opening"                  -> "block"
    [] state = "block" /\ Two(i) = End    -> "closing"
    [] state = "block" /\ Two(i) = Begin  -> "nested"
    [] state = "block" /\ Two(i) = Line   -> "slashes"
    [] state = "slashes"                  -> "block"
    [] state \in {"closing", "passed"}    -> "code"
    [] OTHER                              -> state

States ==
  LET before[i \in 1 .. Len(text) + 1] == IF i = 1 THEN "code" ELSE After(before[i - 1], i - 1)
  IN  before

IsComment(states, i) ==
  \/ states[i] = "line" /\ text[i] # NL
  \/ states[i] \in {"opening", "block", "slashes", "nested", "closing"}
  \/ states[i] = "code" /\ Two(i) \in {Line, Begin}

(* In every text each character that this reader finds in a comment becomes a
   space, and no other: offsets in the result are those of the file, which the
   parser's errors are told with.  A text raises for a comment that is not closed
   or has a "/*" in it, at its begin, and for nothing else. *)
CommentsBlanked ==
  status # "scanning" =>
    \E states \in {States} :
      \/ /\ status = "ended" /\ states[Len(text) + 1] \in {"code", "line"}
         /\ chunks = [i \in DOMAIN text |-> IF IsComment(states, i) THEN Space ELSE text[i]]
      \/ /\ status = "raised" /\ states[Len(text) + 1] \notin {"code", "line"}
         /\ \A i \in start_offset + 1 .. Len(text) : IsComment(states, i)
         /\ start_offset = 0 \/ ~ IsComment(states, start_offset) \/ states[start_offset] = "closing"
=============================================================================
