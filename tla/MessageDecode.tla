--------------------------- MODULE MessageDecode ---------------------------
(***************************************************************************)
(* pbtools_message_decode with the generated decode_inner of every message *)
(* type of a schema.  decode_inner scans its window tag by tag; a field    *)
(* that is not repeated is read at once, a sub-message by a nested         *)
(* decode_inner.  A repeated field is only counted during the scan; when   *)
(* the window is used up its finalizer allocates the items and reads them  *)
(* in a second pass, from a decoder kept where the first was seen.  Frames *)
(* are the C calls in progress, the last one on top.                       *)
(***************************************************************************)
EXTENDS DecoderOps, HeapOps, Messages

CONSTANTS Inputs,       \* root type -> the encoded messages
          Roots,        \* the types of message decoded
          HeapSizes,    \* root type -> room for what decoding allocates
          SizeOf,       \* sizeof an item of each type
          MaxDecodes    \* bound: decodes into one message

(* A schema numbers its fields and names their types; messages are bytes, and
   their length is an int; a message type has a size that is one too. *)
ASSUME MessageAssumption ==
  /\ MessageTypes \cap LeafTypes = {} /\ Roots \subseteq MessageTypes /\ MaxDecodes \in Nat
  /\ \A t \in MessageTypes :
       /\ IsFiniteSet(FieldsOf(t)) /\ FieldsOf(t) \subseteq Nat \ {0}
       /\ \A n \in FieldsOf(t) : TypeOf(t, n) \in MessageTypes \cup LeafTypes
       /\ \A n \in FieldsOf(t) : TypeOf(t, n) \in MessageTypes \/ LabelOf(t, n) = "repeated" =>
            SizeOf[TypeOf(t, n)] \in 1 .. IntMax - 8
  /\ \A t \in Roots : HeapSizes[t] \subseteq 0 .. IntMax
  /\ \A t \in Roots : \A in \in Inputs[t] : in \in Seq(Byte) /\ Len(in) <= IntMax

VARIABLES input,        \* the bytes being decoded
          heap,
          root,         \* the type of the message decoded into
          message,      \* the message before the run, and after it
          before,       \* the message when the run started
          frames,       \* see Frame
          result,
          refused,      \* how heap requests were refused in this run
          decodes       \* the runs so far

vars == <<input, heap, root, message, before, frames, result, refused, decodes>>

WordAlign == 8

(* The state of a repeated field: how many items the scan counted, and the
   decoder and wire type to read them from. *)
Info(d) == [length |-> 0, wire_type |-> VARINT, dec |-> d]

(* One call of decode_inner: todo are the finalizers to run, reading tells that
   the first has allocated its items, and index how many it has read. *)
Frame(t, d, m) ==
  [type |-> t, dec |-> d, msg |-> m, field |-> 0, scanning |-> TRUE,
   infos |-> [n \in RepeatedFields(t) |-> Info(d)],
   todo |-> <<>>, reading |-> FALSE, index |-> 0]

Depth == Len(frames)
Top == frames[Depth]
Idle == frames = <<>>

Init ==
  /\ root \in Roots
  /\ \E size \in HeapSizes[root] : heap = [buf |-> 64, size |-> size, pos |-> 0]
  /\ message = EmptyMessage(root) /\ before = message
  /\ input = <<>> /\ frames = <<>> /\ result = 0 /\ refused = {} /\ decodes = 0

(* A message that a failed run left half decoded is not decoded into again. *)
MayDecode == Idle /\ result >= 0 /\ decodes < MaxDecodes

pbtools_message_decode(in) ==
  /\ input' = in /\ before' = message /\ refused' = {} /\ decodes' = decodes + 1
  /\ frames' = <<Frame(root, decoder_init(Len(in)), message)>>
  /\ UNCHANGED <<heap, root, message, result>>

(* A step of the call on top; how, when not "", says the heap refused it. *)
Step(top, h, how) ==
  /\ frames' = [frames EXCEPT ![Depth] = top]
  /\ heap' = h
  /\ refused' = IF how = "" THEN refused ELSE refused \cup {how}
  /\ UNCHANGED <<input, root, message, before, result, decodes>>

(* A call of decode_inner for a sub-message kept in field n of top. *)
Call(top, h, n, child) ==
  /\ frames' = Append([frames EXCEPT ![Depth] = top], [child EXCEPT !.field = n])
  /\ heap' = h
  /\ UNCHANGED <<input, root, message, before, result, refused, decodes>>
-----------------------------------------------------------------------------
(* What a failed allocation leaves: a NULL pointer to a payload or to items,
   or a stale pointer to a oneof sub-message.  An item that nothing was read
   into is no value of any type. *)
Dangling(type) == IF type \in PayloadTypes THEN <<-1>>
                  ELSE IF type \in MessageTypes THEN <<>> ELSE -Word

WireTypeOf(type) ==
  CASE type \in VarintTypes                -> VARINT
    [] type \in Fixed32Types               -> WIRE_32_BIT
    [] type \in FixedTypes \ Fixed32Types  -> WIRE_64_BIT
    [] OTHER                               -> LENGTH_DELIMITED

(* decoder_read copies size bytes, or zeros when fewer are left; in is the
   input, as in DecoderOps. *)
Bytes(in, d, size) == [i \in 1 .. size |-> IF decoder_left(d) >= size
                                           THEN in[d.base + d.pos + i] ELSE 0]

decoder_read_fixed(in, d, width) ==
  [dec |-> decoder_read(d, width), value |-> FromDigits(Bytes(in, d, width), 2 * Base, width)]

(* pbtools_decoder_read_string, _bytes: a string takes a byte more for its NUL. *)
decoder_read_payload(in, type, d, h, wire_type) ==
  LET r == decoder_read_length_delimited(in, d, wire_type)
      a == heap_alloc(h, r.value + (IF type = "string" THEN 1 ELSE 0), 1)
  IN  IF a.addr = NULL
      THEN [dec |-> decoder_abort(r.dec, OUT_OF_MEMORY), heap |-> a.heap,
            value |-> Dangling(type), refused |-> "reported"]
      ELSE [dec |-> decoder_read(r.dec, r.value), heap |-> a.heap,
            value |-> Bytes(in, r.dec, r.value), refused |-> ""]

ReadNumber(in, type, d, wire_type) ==
  IF wire_type # WireTypeOf(type)
  THEN [dec |-> decoder_abort(d, BAD_WIRE_TYPE), value |-> 0]
  ELSE IF type \in VarintTypes THEN decoder_read_varint(in, d)
  ELSE decoder_read_fixed(in, d, Width(type))

Value(type, n, item) ==
  IF type \notin VarintTypes THEN FromFixed(type, n)
  ELSE IF item THEN ItemFromVarint(type, n) ELSE FromVarint(type, n)

(* One value of a leaf type: pbtools_decoder_read_<type>, or read_repeated_<type>
   when it is an item of a repeated field. *)
ReadLeaf(in, type, d, h, wire_type, item) ==
  IF type \in PayloadTypes THEN decoder_read_payload(in, type, d, h, wire_type)
  ELSE LET r == ReadNumber(in, type, d, wire_type)
       IN  [dec |-> r.dec, heap |-> h, value |-> Value(type, r.value, item), refused |-> ""]

(* The loop while (pbtools_decoder_available(&decoder)): every turn reads a byte
   or aborts, so that the bytes left bound the turns.  after[i] is the decoder
   after i of them. *)
ReadAll(in, type, d) ==
  LET read[e \in Decoders] == IF type \in VarintTypes THEN decoder_read_varint(in, e)
                                                     ELSE decoder_read_fixed(in, e, Width(type))
      after[i \in 0 .. decoder_left(d)] == IF i = 0 THEN d ELSE read[after[i - 1]].dec
      turns == Min({i \in DOMAIN after : ~ pbtools_decoder_available(after[i])})
  IN  [dec    |-> after[turns],
       values |-> [i \in 1 .. turns |-> Value(type, read[after[i - 1]].value, TRUE)]]

(* A packed field: its slice is given back to d by decoder_seek. *)
ReadPacked(in, type, d) ==
  LET all[e \in Decoders] == ReadAll(in, type, e)
      r == decoder_read_length_delimited(in, d, LENGTH_DELIMITED)
      p == all[decoder_init_slice(r.dec, int(r.value))]
  IN  [dec |-> decoder_seek(r.dec, decoder_get_result(p.dec)), values |-> p.values]
-----------------------------------------------------------------------------
(* The scan. *)
Scanning == ~ Idle /\ Top.scanning /\ pbtools_decoder_available(Top.dec)

SkipUnknown(tag) ==
  /\ tag.field_number \notin FieldsOf(Top.type)
  /\ Step([Top EXCEPT !.dec = pbtools_decoder_skip_field(input, tag.dec, tag.wire_type)],
          heap, "")

IsRepeated(n) == n \in RepeatedFields(Top.type)
IsLeaf(n) == n \in FieldsOf(Top.type) /\ ~ IsRepeated(n) /\ TypeOf(Top.type, n) \in LeafTypes
IsSubMessage(n) ==
  n \in FieldsOf(Top.type) /\ ~ IsRepeated(n) /\ TypeOf(Top.type, n) \in MessageTypes

DecodeLeaf(tag) ==
  /\ IsLeaf(tag.field_number)
  /\ LET n == tag.field_number
         r == ReadLeaf(input, TypeOf(Top.type, n), tag.dec, heap, tag.wire_type, FALSE)
     IN  Step([Top EXCEPT !.dec = r.dec, !.msg = Assign(Top.type, @, n, <<r.value>>)],
              r.heap, r.refused)

(* Mutant: the length of a sub-message is compared with the whole parent. *)
SubFrame_whole_parent(type, r, m) ==
  Frame(type, decoder_init_slice_whole_parent(r.dec, int(r.value)), m)

(* A slice that size says, inside d, decoded by a call for a message m. *)
SubFrame(type, r, m) == Frame(type, decoder_init_slice(r.dec, int(r.value)), m)

(* The message is allocated before its length is read. *)
pbtools_decoder_sub_message_decode(tag) ==
  /\ IsSubMessage(tag.field_number)
  /\ LET n == tag.field_number
         type == TypeOf(Top.type, n)
         a == heap_alloc(heap, SizeOf[type], WordAlign)
         r == decoder_read_length_delimited(input, tag.dec, tag.wire_type)
     IN  IF a.addr = NULL
         THEN Step([Top EXCEPT !.dec = decoder_abort(tag.dec, OUT_OF_MEMORY),
                               !.msg = IF InOneof(Top.type, n)
                                       THEN Assign(Top.type, @, n, <<Dangling(type)>>) ELSE @],
                   a.heap, "reported")
         ELSE Call([Top EXCEPT !.dec = r.dec], a.heap, n, SubFrame(type, r, EmptyMessage(type)))

(* Mutant: the decoder for the second pass is kept every time. *)
repeated_info_init_decode_again(info, d, wire_type) ==
  [info EXCEPT !.dec = decoder_init_slice(d, decoder_left(d)), !.wire_type = wire_type]

repeated_info_init_decode(info, d, wire_type) ==
  IF info.length = 0
  THEN [info EXCEPT !.dec = decoder_init_slice(d, decoder_left(d)), !.wire_type = wire_type]
  ELSE info

(* How many items a tag brings, by the wire type: one, or a packed payload. *)
CountItems(in, type, d, wire_type) ==
  LET r == decoder_read_length_delimited(in, d, wire_type)
      size == int(r.value)
      p == ReadPacked(in, type, d)
  IN  CASE type \in PayloadTypes \cup MessageTypes ->
             [dec |-> decoder_seek(r.dec, size), count |-> 1]
        [] type \notin PayloadTypes \cup MessageTypes /\ wire_type = WireTypeOf(type) ->
             [dec |-> IF type \in VarintTypes THEN decoder_read_varint(in, d).dec
                                              ELSE decoder_seek(d, Width(type)), count |-> 1]
        [] type \in VarintTypes /\ wire_type = LENGTH_DELIMITED ->
             [dec |-> p.dec, count |-> Len(p.values)]
        [] type \in FixedTypes /\ wire_type = LENGTH_DELIMITED ->
             [dec |-> decoder_seek(r.dec, size), count |-> size \div Width(type)]
        [] OTHER -> [dec |-> decoder_abort(d, BAD_WIRE_TYPE), count |-> 0]

repeated_info_decode(tag) ==
  /\ IsRepeated(tag.field_number)
  /\ LET n == tag.field_number
         info == repeated_info_init_decode(Top.infos[n], tag.dec, tag.wire_type)
         c == CountItems(input, TypeOf(Top.type, n), tag.dec, tag.wire_type)
     IN  Step([Top EXCEPT !.dec = c.dec, !.infos[n] = [info EXCEPT !.length = @ + c.count]],
              heap, "")

EndScan ==
  /\ ~ Idle /\ Top.scanning /\ ~ pbtools_decoder_available(Top.dec)
  /\ Step([Top EXCEPT !.scanning = FALSE, !.todo = InOrder(RepeatedFields(Top.type))], heap, "")
-----------------------------------------------------------------------------
(* The finalizers, one repeated field after the other. *)
Finalizing == ~ Idle /\ ~ Top.scanning /\ Top.todo # <<>>
Field == Head(Top.todo)
ItemType == TypeOf(Top.type, Field)
ItemInfo == Top.infos[Field]

Finished(top) == [top EXCEPT !.todo = Tail(@), !.reading = FALSE, !.index = 0]

NothingCounted == Finalizing /\ ItemInfo.length = 0 /\ Step(Finished(Top), heap, "")

Allocation == heap_alloc(heap, SizeOf[ItemType] * ItemInfo.length, WordAlign)

(* The items as they are allocated: messages are initialised, others are not. *)
FreshItems == [i \in 1 .. ItemInfo.length |->
                 IF ItemType \in MessageTypes THEN EmptyMessage(ItemType) ELSE Dangling(ItemType)]
(* A NULL in place of the items, with the length as it was. *)
LostItems == [i \in DOMAIN Top.msg[Field] |-> Dangling(ItemType)]

StartItems == Finalizing /\ ~ Top.reading /\ ItemInfo.length > 0

(* Mutant: no kind of items aborts the decoder. *)
ItemsRefused_silently ==
  /\ StartItems /\ Allocation.addr = NULL
  /\ Step([Finished(Top) EXCEPT !.msg[Field] = LostItems], Allocation.heap,
          IF ItemType \in MessageTypes THEN "silently" ELSE "reported")

(* decoder_decode_repeated aborts; pbtools_decode_repeated_inner just returns. *)
ItemsRefused ==
  /\ StartItems /\ Allocation.addr = NULL
  /\ LET top == [Finished(Top) EXCEPT !.msg[Field] = LostItems]
     IN  IF ItemType \in MessageTypes THEN Step(top, Allocation.heap, "silently")
         ELSE Step([top EXCEPT !.dec = decoder_abort(@, OUT_OF_MEMORY)], Allocation.heap,
                   "reported")

(* read_repeated: one item, or the items of a packed payload. *)
ReadGroup(in, type, d, h, wire_type) ==
  LET packed == type \notin PayloadTypes /\ wire_type = LENGTH_DELIMITED
      wrong == type \notin PayloadTypes /\ wire_type # WireTypeOf(type)
      group == ReadPacked(in, type, d)
      one == ReadLeaf(in, type, d, h, wire_type, TRUE)
  IN  IF packed
      THEN [dec |-> group.dec, heap |-> h, values |-> group.values, refused |-> ""]
      ELSE [dec |-> one.dec, heap |-> one.heap,
            values |-> IF wrong THEN <<>> ELSE <<one.value>>, refused |-> one.refused]

(* They are stored from index on, in the items allocated in top or, for a packed
   fixed-width payload that ends inside a value, one behind them. *)
StoreGroup(top, d, h, wire_type) ==
  \E r \in {ReadGroup(input, ItemType, d, h, wire_type)} :
    LET stored == top.index + 1 .. top.index + Len(r.values)
        store(i) == IF i \in stored THEN r.values[i - top.index] ELSE top.msg[Field][i]
    IN  Step([top EXCEPT !.infos[Field].dec = r.dec, !.reading = TRUE,
                         !.index = @ + Len(r.values),
                         !.msg[Field] = [i \in DOMAIN @ \cup stored |-> store(i)]],
             r.heap, r.refused)

(* decode_repeated_inner_item: the call for the next item. *)
ReadItem(top, d, h) ==
  LET r == decoder_read_length_delimited(input, d, LENGTH_DELIMITED)
  IN  Call([top EXCEPT !.infos[Field].dec = r.dec, !.reading = TRUE], h, Field,
           SubFrame(ItemType, r, top.msg[Field][top.index + 1]))

FirstItems ==
  /\ StartItems /\ Allocation.addr # NULL
  /\ LET top == [Top EXCEPT !.msg[Field] = FreshItems]
     IN  IF ItemType \in MessageTypes THEN ReadItem(top, ItemInfo.dec, Allocation.heap)
         ELSE StoreGroup(top, ItemInfo.dec, Allocation.heap, ItemInfo.wire_type)

(* Mutants: the loop goes on to the end of the window; the loop does not stop
   at an error. *)
are_more_items_in_window(info, pos) == pbtools_decoder_available(info.dec)

are_more_items_counted(info, pos) == pos < info.length

are_more_items_to_decode(info, pos) == pbtools_decoder_available(info.dec) /\ pos < info.length

MoreItems == Finalizing /\ Top.reading /\ are_more_items_to_decode(ItemInfo, Top.index)

NextItems(tag) ==
  /\ tag.field_number = Field
  /\ IF ItemType \in MessageTypes THEN ReadItem(Top, tag.dec, heap)
     ELSE StoreGroup(Top, tag.dec, heap, tag.wire_type)

SkipOther(tag) ==
  /\ tag.field_number # Field
  /\ Step([Top EXCEPT !.infos[Field].dec =
             pbtools_decoder_skip_field(input, tag.dec, tag.wire_type)], heap, "")

EndItems ==
  /\ Finalizing /\ Top.reading /\ ~ are_more_items_to_decode(ItemInfo, Top.index)
  /\ LET res == decoder_get_result(ItemInfo.dec)
     IN  Step([Finished(Top) EXCEPT !.dec = IF res < 0 THEN decoder_abort(@, -res) ELSE @],
              heap, "")
-----------------------------------------------------------------------------
(* The end of decode_inner. *)
Returning == ~ Idle /\ ~ Top.scanning /\ Top.todo = <<>>
Caller == frames[Depth - 1]
GiveBack(d) == decoder_seek(d, decoder_get_result(Top.dec))

ReturnTo(caller) ==
  /\ frames' = [SubSeq(frames, 1, Depth - 1) EXCEPT ![Depth - 1] = caller]
  /\ UNCHANGED <<input, heap, root, message, before, result, refused, decodes>>

ReturnSubMessage ==
  /\ Returning /\ Depth > 1 /\ Caller.scanning
  /\ ReturnTo([Caller EXCEPT !.dec = GiveBack(@),
                             !.msg = Assign(Caller.type, @, Top.field, <<Top.msg>>)])

ReturnItem ==
  /\ Returning /\ Depth > 1 /\ ~ Caller.scanning
  /\ ReturnTo([Caller EXCEPT !.infos[Top.field].dec = GiveBack(@),
                             !.msg[Top.field][Caller.index + 1] = Top.msg,
                             !.index = @ + 1])

ReturnResult ==
  /\ Returning /\ Depth = 1
  /\ frames' = <<>> /\ message' = Top.msg /\ result' = decoder_get_result(Top.dec)
  /\ UNCHANGED <<input, heap, root, before, refused, decodes>>

Run ==
  \/ /\ Scanning
     /\ \E tag \in {pbtools_decoder_read_tag(input, Top.dec)} :
          \/ SkipUnknown(tag) \/ DecodeLeaf(tag)
          \/ pbtools_decoder_sub_message_decode(tag) \/ repeated_info_decode(tag)
  \/ EndScan
  \/ NothingCounted \/ ItemsRefused \/ FirstItems \/ EndItems
  \/ /\ MoreItems
     /\ \E tag \in {pbtools_decoder_read_tag(input, ItemInfo.dec)} :
          NextItems(tag) \/ SkipOther(tag)
  \/ ReturnSubMessage \/ ReturnItem \/ ReturnResult

Next ==
  \/ MayDecode /\ \E in \in Inputs[root] : pbtools_message_decode(in)
  \/ Run

(* The code runs until it returns: nothing it waits for. *)
Spec == Init /\ [][Next]_vars /\ WF_vars(Run)
-----------------------------------------------------------------------------
(* Between steps the decoders of every call in progress, and those kept for its
   repeated fields, are within the input. *)
TypeOK ==
  /\ result \in Int /\ decodes \in 0 .. MaxDecodes
  /\ refused \subseteq {"reported", "silently"}
  /\ \A f \in Range(frames) :
       /\ DOMAIN f.msg = FieldsOf(f.type)
       /\ \A d \in {f.dec} \cup {f.infos[n].dec : n \in RepeatedFields(f.type)} :
            d.size > 0 => d.base \in 0 .. Len(input) /\ d.base + d.size <= Len(input)

(* A request for the items counted, with its padding, is no int.  A claimed length
   near INT_MAX is counted before it is rejected, whatever was sent. *)
RequestWraps ==
  /\ StartItems
  /\ SizeOf[ItemType] * ItemInfo.length + PadOf(heap.buf + heap.pos, WordAlign) > IntMax

(* decoder_heap_alloc for messages, items and payloads in whatever order they come:
   the workspace is used from its begin to its end, and nothing that is allocated
   moves the position back or behind the end, but a request whose size wraps. *)
HeapOnlyGrows ==
  [][heap.pos \in 0 .. heap.size => heap'.pos \in heap.pos .. heap.size \/ RequestWraps]_vars

(* "Out of memory" is what a request that the workspace has no room for ends in:
   the position stays in the workspace. *)
HeapKept == heap.pos \in 0 .. heap.size

(* The reading pass never stores more items than the counting pass made room
   for, whatever the wire types, the order of the tags and the errors met in
   between.  The one exception is a packed fixed-width payload that ends inside
   a value: the count rounds down, the reading pass stores one value more, behind
   the items, and aborts. *)
CountsRespected ==
  \A f \in Range(frames) : f.reading =>
    LET n == Head(f.todo)  info == f.infos[n]
    IN  \/ f.index <= info.length
        \/ /\ TypeOf(f.type, n) \in FixedTypes
           /\ f.index = info.length + 1 /\ info.dec.pos = -OUT_OF_DATA

(* A refused request fails the run it was made in, through any nesting, whether
   it is for a payload, for a sub-message or for the items of numbers and
   payloads; and a run only fails for memory when a request was refused. *)
MemoryErrors ==
  Idle => /\ "reported" \in refused => result < 0
          /\ result = -OUT_OF_MEMORY => "reported" \in refused

(* Every run returns: neither the scan nor the second pass, which goes on from
   wherever an earlier error left its decoder, can loop. *)
EveryRunReturns == []<>Idle

(* pbtools_lkm.h lists PBTOOLS_OUT_OF_MEMORY among the errors, and
   decoder_heap_alloc reports it: a decode that succeeds was given all the
   memory it asked for. *)
SuccessMeansMemory == Idle /\ result >= 0 => refused = {}
=============================================================================
