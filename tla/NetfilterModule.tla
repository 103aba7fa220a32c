-------------------------- MODULE NetfilterModule --------------------------
(***************************************************************************)
(* The netfilter module between a TCP client and the server it writes      *)
(* frames to.  hook_func sees every segment of the connection and gives    *)
(* what a pushed one begins with to the user's process_message, whose      *)
(* verdict is the segment's.  TCP is external: it may send any stretch of  *)
(* the stream in a segment, and again until it has arrived.                *)
(***************************************************************************)
EXTENDS Framing, SequencesExt

CONSTANTS ClientMessages,   \* what the client may write, one frame each
          Paged,            \* those whose segments are not linear
          Rejected,         \* what process_message answers with NF_DROP
          NfBufferSize,
          Memory,           \* the copies of segments there is memory for
          MaxFrames,        \* bound: the frames the client writes
          MaxBytes          \* bound: their bytes, when TCP cuts them at will

(* The client says how long a message is in a uint32_t. *)
ASSUME NetfilterAssumption ==
  /\ NfBufferSize \in 0 .. IntMax /\ Memory \in Nat
  /\ ClientMessages \subseteq Seq(Bytes)
  /\ \A message \in ClientMessages : Len(message) <= 2 * IntMax + 1

VARIABLES loaded,       \* the module is loaded
          hooked,       \* its hook is registered
          copies,       \* linear copies made and not freed
          framed,       \* TCP sends every frame in one pushed segment of its own
          sent,         \* the messages written
          arrived,      \* the bytes of the stream the server's TCP has
          unfiltered    \* those of frames to be filtered that came in a segment which the
                        \* hook did not judge by them

netfilter == <<loaded, hooked, copies, framed, sent, arrived, unfiltered>>

(* Byte i of frame k of the stream is at <<k, i>>. *)
FrameAt(k) == {k} \X (1 .. Header + Len(sent[k]))
Stream == UNION {FrameAt(k) : k \in DOMAIN sent}
Precedes(p, q) == p[1] < q[1] \/ (p[1] = q[1] /\ p[2] <= q[2])

(* at: the bytes of the stream it carries.  One that only closes the connection
   carries none. *)
Segment(at, data, psh, nonlinear) ==
  [at |-> at, data |-> data, psh |-> psh, nonlinear |-> nonlinear]

FrameSegment(k) == Segment(FrameAt(k), Frame(sent[k]), TRUE, sent[k] \in Paged)

(* The stretches of the stream, as sequences of places. *)
Stretches ==
  LET places == FlattenSeq([k \in DOMAIN sent |-> [i \in 1 .. Header + Len(sent[k]) |-> <<k, i>>]])
  IN  {SubSeq(places, i, j) : i, j \in 1 .. Len(places)}
Read(stretch) == [i \in DOMAIN stretch |-> Frame(sent[stretch[i][1]])[stretch[i][2]]]

Segments ==
  IF framed THEN {FrameSegment(k) : k \in DOMAIN sent}
  ELSE {Segment(Range(stretch), Read(stretch), psh, nonlinear) :
          stretch \in Stretches, psh \in BOOLEAN, nonlinear \in BOOLEAN}
-----------------------------------------------------------------------------
Nothing == <<>>

(* What process_message is given, if anything.  The size in the header is not
   compared with the length of the segment: what the segment lacks is whatever
   memory has behind it. *)
handle_tcp_payload(data, beyond) ==
  LET byte(i) == IF i \in DOMAIN data THEN data[i] ELSE beyond
      size == extract_message_size([i \in 1 .. Header |-> byte(i)], NfBufferSize)
  IN  IF data # <<>> /\ size > 0 THEN [i \in 1 .. size |-> byte(Header + i)] ELSE Nothing

(* The user's code; without a message the segment is accepted. *)
Accepts(message) == message = Nothing \/ message \notin Rejected

Filtered(message) == message \in Rejected /\ Len(message) \in 1 .. NfBufferSize - 1

(* The bytes of a segment on which its verdict rests: those of the frame it
   begins with, if it has all of it. *)
Judged(s) == {p \in s.at : FrameAt(p[1]) \subseteq s.at /\ \A q \in s.at : p[1] <= q[1]}

Unjudged(s) ==
  {p \in s.at : Filtered(sent[p[1]])} \ (IF hooked /\ s.psh THEN Judged(s) ELSE {})

Arrive(s) ==
  /\ arrived' = arrived \cup s.at
  /\ unfiltered' = unfiltered \cup Unjudged(s)

Drop == UNCHANGED <<arrived, unfiltered>>

(* Mutant: a frame that is too large for the buffer is dropped. *)
Judge_sizes(s) ==
  \E beyond \in Beyond :
    LET message == handle_tcp_payload(s.data, beyond)
    IN  IF message # Nothing /\ Accepts(message) THEN Arrive(s) ELSE Drop

Judge(s) ==
  \E beyond \in Beyond :
    IF Accepts(handle_tcp_payload(s.data, beyond)) THEN Arrive(s) ELSE Drop

NotSelected(s) == (~ hooked \/ ~ s.psh) /\ Arrive(s) /\ UNCHANGED copies

Linear(s) == hooked /\ s.psh /\ ~ s.nonlinear /\ Judge(s) /\ UNCHANGED copies

(* Mutant: what cannot be copied is let through. *)
CopyRefused_accepts(s) == hooked /\ s.psh /\ s.nonlinear /\ Arrive(s) /\ UNCHANGED copies

(* skb_copy fails, also while there is memory. *)
CopyRefused(s) == hooked /\ s.psh /\ s.nonlinear /\ Drop /\ UNCHANGED copies

(* The copy that cannot be linearised is freed. *)
LinearizeFails(s) ==
  hooked /\ s.psh /\ s.nonlinear /\ copies < Memory /\ Drop /\ UNCHANGED copies

(* The copy that was processed is not freed. *)
CopiedOut(s) ==
  hooked /\ s.psh /\ s.nonlinear /\ copies < Memory /\ Judge(s) /\ copies' = copies + 1

Processed(s) == NotSelected(s) \/ Linear(s) \/ CopiedOut(s)

hook_func(s) ==
  /\ Processed(s) \/ CopyRefused(s) \/ LinearizeFails(s)
  /\ UNCHANGED <<loaded, hooked, framed, sent>>
-----------------------------------------------------------------------------
NfInit ==
  /\ framed \in BOOLEAN /\ loaded = FALSE /\ hooked = FALSE /\ copies = 0
  /\ sent = <<>> /\ arrived = {} /\ unfiltered = {}

(* Whether the hook could be registered is not looked at. *)
netfilter_init ==
  /\ ~ loaded /\ loaded' = TRUE /\ hooked' \in BOOLEAN
  /\ UNCHANGED <<copies, framed, sent, arrived, unfiltered>>

netfilter_exit ==
  /\ loaded /\ loaded' = FALSE /\ hooked' = FALSE
  /\ UNCHANGED <<copies, framed, sent, arrived, unfiltered>>

Write ==
  /\ \E message \in ClientMessages :
       /\ Len(sent) < MaxFrames
       /\ framed \/ Cardinality(Stream) + Header + Len(message) <= MaxBytes
       /\ sent' = Append(sent, message)
  /\ UNCHANGED <<loaded, hooked, copies, framed, arrived, unfiltered>>

NfNext ==
  netfilter_init \/ netfilter_exit \/ Write \/ \E s \in Segments : hook_func(s)

(* The bytes TCP may hand to the server: all before them have arrived. *)
Delivered == {p \in arrived : \A q \in Stream : Precedes(q, p) => q \in arrived}
Missing == {k \in DOMAIN sent : ~ FrameAt(k) \subseteq arrived}

(* The frame TCP has been waiting for the longest, processed. *)
Retransmit ==
  /\ framed
  /\ \E k \in Missing :
       /\ \A j \in Missing : k <= j
       /\ Processed(FrameSegment(k)) /\ UNCHANGED <<loaded, hooked, framed, sent>>

(* TCP goes on sending what has not arrived, and skb_copy and skb_linearize do
   not fail for ever while there is memory. *)
NfFairness == SF_netfilter(Retransmit)

NfSpec == NfInit /\ [][NfNext]_netfilter /\ NfFairness
-----------------------------------------------------------------------------
(* The filter holds, however TCP cuts the stream and however often it sends it,
   whether copying fails and while instances of the module come and go, also ones
   whose hook was never registered: of a message that process_message rejects the
   server reads nothing, and nothing behind it, except past the hook: in segments
   that were not pushed or came while there was no hook, or that did not begin
   with the frame or did not have all of it. *)
FilterHolds ==
  \A p \in Delivered : \A k \in 1 .. p[1] :
    Filtered(sent[k]) => {q \in FrameAt(k) : Precedes(q, p)} \subseteq unfiltered

(* When every frame has a segment of its own that is all there is: while a hook is
   registered no rejected frame comes in. *)
HookedFilters ==
  [][framed /\ hooked => \A k \in DOMAIN sent :
       Filtered(sent[k]) => arrived' \cap FrameAt(k) \subseteq arrived]_netfilter

(* However TCP cuts the stream, a pushed segment that begins with a frame and has
   the whole of it gives process_message its message, up to the size of the
   buffer; beyond it, nothing. *)
WholeFramesUnderstood ==
  \A s \in Segments, k \in DOMAIN sent, beyond \in Beyond :
    FrameAt(k) \subseteq s.at /\ (\A p \in s.at : k <= p[1]) =>
      handle_tcp_payload(s.data, beyond) =
        IF Len(sent[k]) < NfBufferSize THEN sent[k] ELSE Nothing

Blocked(k) == Filtered(sent[k]) \/ (sent[k] \in Paged /\ copies = Memory)

(* A frame that nobody rejects arrives, also one that the module cannot read for
   its size; unless an earlier one was rejected, or the memory for copies, none
   of which is ever given back, has run out. *)
ArrivesUnlessBlocked ==
  \A k \in 1 .. MaxFrames :
    framed /\ k \in DOMAIN sent ~>
      (framed /\ k \in DOMAIN sent /\ (FrameAt(k) \subseteq Delivered \/ \E j \in 1 .. k : Blocked(j)))
=============================================================================
