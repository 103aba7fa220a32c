# Verification of pbtools_lkm

pbtools_lkm is a Python program that reads a `.proto` file and writes a Linux kernel
module in C: a protobuf library (`pbtools.c`, `pbtools.h`), a pair of files for the
messages of the `.proto` file, and a `main.c` that receives framed messages through
a UDP socket or a netfilter hook. What has to be right is the *generated* C: it parses
bytes from the network in the kernel, with one workspace of memory brought by the caller
and no way to free a part of it. This directory models that C as the generator writes it,
and the part of the generator that decides more than text: the removal of comments, the
resolution of types and the order of the declarations. TLC checks the models, and TLAPS
proves theorems about every part of them. The repository has no tests of its own.

Below `c:N` is line N of `src/pbtools_lkm/lkm_common/generate_pbtools_c.py` (the library is
one string of that file), `t:N` of `src/pbtools_lkm/lkm_common/__init__.py` (the templates
and bodies of the message files), `p:N` of `src/pbtools_lkm/parser.py`, `n:N` of
`src/pbtools_lkm/lkm_netfilter/generate_main.py` and `u:N` of
`src/pbtools_lkm/lkm_udp_sock/generate_main.py`.

## The system

| Part | State | Operations | Talks to | What makes it correct |
|---|---|---|---|---|
| Workspace allocator (c:22-69, c:1952-2041) | heap header in the first bytes of the workspace: buffer, size, position | `message_new`, sub-message and repeated allocation, payloads of strings and bytes | called by the decoder and by user code | blocks disjoint, inside, aligned; refusals leave what exists intact |
| Decoder (c:722-873, c:1883-1945) | window: buffer, size, position, or a negative error code in both | get, read, varint, tag, seek, slice, abort, kept second-pass decoder | allocator; stack of nested decoders | never reads outside the message; reports the first error |
| Encoder (c:71-150, c:465-487, c:2132-2160) | buffer filled from its end, position, or a negative code | write, varint, tag, tagged varint, groups (packed items, sub-messages) | stack of nested groups | right lengths; all of the encoding or an error |
| Message decoding (t:227-253, t:362-546, t:1025-1068, t:1131-1165; c:1037-1506, c:2066-2187) | struct, one counter and kept decoder for each repeated field | scan of the window, finalizers with a second pass, nested messages, oneofs | decoder and allocator | the struct holds what the bytes mean; memory errors are reported |
| Message encoding (t:255-360, t:978-1023; c:228-720, c:2043-2064) | struct | one write of each field, last field first | encoder | decoding the result gives the struct back |
| Scalar conversions (c:152-200, parts of c:342-463, c:875-1003) | none | zigzag, bool, enum, signed and float | readers and writers | round trip at the widths' ends |
| Netfilter main (n:44-190) | loaded or not, hooked or not; the linear copies of packets | hook, copy, linearise, read a frame, process | kernel, TCP, user code | copies released, rejected messages kept from the server, others let through |
| UDP main (u:44-150) | socket, receive buffer | init: create, bind, receive, process, release | kernel, clients, user code | socket released on all paths; what is processed is what was received |
| Parser (p) | text; messages, enums and imports of a file | remove comments, parse, resolve types and kinds, sort by usage | `textparser` library, generator | positions kept; every field has the kind of its type; a type is declared before its users |
| Generator (t) | text | fills templates | parser, files | what the generated C does (above) |
| File writers, command line, examples | none | write fixed text, parse arguments | | |

Nothing in the generated library runs concurrently: calls are sequential. Around it are
other actors: TCP, which cuts and repeats a stream; clients, whose datagrams come, wait
and get lost; the kernel, whose calls fail; and whoever loads and unloads the modules. Hard
here are: *long sequences* of legal calls that nest and fail anywhere (an error must travel
from the innermost decoder to the result, with every intermediate call going on as if
nothing had happened); *two passes* over repeated fields that must agree on malformed,
packed and unpacked input; *partial failure* of the allocator and of the kernel;
*boundaries* of windows, buffers and integer widths; *what an earlier load or message left
behind*; *termination* of loops that go on after errors. `PROJECT.json` lists each at its
line, with the properties that cover it, or the reason why none does.

## Modules

| Module | Models | How it corresponds to the code |
|---|---|---|
| `CInt` | `(int)` of a wider unsigned value | wraps at `2 * (IntMax + 1)` |
| `HeapOps` | `heap_new`, `heap_alloc` | functions of the header; an address is the buffer's address plus a position |
| `Arena` | abstract specification of a workspace | what callers may rely on; no headers or positions |
| `Heap` | one workspace and all its callers | one action per allocating call; `blocks` records what was handed out |
| `Digits` | shifts and masks | numbers as digits, the lowest first; `base` is the power of two that the code shifts by |
| `Wire` | codes, wire types, widths | the numbers of `pbtools.h` |
| `Scalars` | what every scalar type does to a value between struct and wire | arithmetic of casts: `% 2^w`, sign and complement; members and items apart, as in the code |
| `DecoderOps` | every function on `struct pbtools_decoder_t` | functions from decoder to decoder; `base` is `buf_p` as an offset in the message |
| `Decoder` | *any* program over `DecoderOps` | `frames` is the stack of decoders of the C calls in progress; only the top is used; `mark` is the decoder in a `repeated_info` |
| `EncoderOps` | every function on `struct pbtools_encoder_t` | the buffer is a function of offsets |
| `Encoder` | *any* program over `EncoderOps` | `groups` holds the positions the C functions keep in locals; `asked` is a history variable: the encoding the calls stand for |
| `Messages` | schema, struct contents, initial values, assignment with oneofs | a field is a sequence: absent, one value, or items |
| `MessageDecode` | the generated `decode_inner` of every type, nested | one action per tag of the scan, per finalizer step, per return; `Frame` has the locals of one `decode_inner` |
| `MessageReference` | what a byte sequence means | recursive, by records; no decoders, slices or passes |
| `DecodeMeaning` | the property that ties the last two | |
| `MessageEncode` | the generated `encode_inner` of every type | functions of the encoder, in the order of the C calls; the recursion along the nesting is a function of the levels (`Nesting`) |
| `Codec` | a sender and then a receiver | `MessageEncode` feeding `MessageDecode`, with a reference encoding (`Encoding`: the records of the fields, one after the other) and what of a struct is sent (`Sent`) |
| `Framing` | the frame of README.md and `extract_message_size` of both templates | the size is read as an unsigned and kept in an `int` |
| `NetfilterModule` | `main.c` of the netfilter template beside a TCP client and the server it writes to | one disjunct per way through `hook_func`; `arrived` is what the server's TCP has; TCP is external |
| `UdpModule` | `main.c` of the UDP template, loaded again and again | one action per kernel call of init and per `goto`; sockets, queue and clients are external |
| `KernelModules` | what one run of the generator writes: one of the two | |
| `Comments` | `ignore_comments` | one action per marker of the regular expression, with the variables of the function |
| `SortMessages` | `sort_messages_by_usage`, one list | one action per inserted message |
| `Declarations` | what `Proto` makes of a parsed file | one action per step of `Proto.__init__`: types, kinds, then the lists, innermost messages first |
| `Frontend` | `parse_file` | comments, then any file, then `Declarations` |
| `OperatorProofs` | lemmas and theorems | of sequences, recursion and digits; of the scalar conversions; of the decoder's and the encoder's functions |
| `HeapProofs`, `DecoderProofs`, `EncoderProofs`, `MessageProofs`, `CodecProofs`, `KernelProofs`, `FrontendProofs` | theorems | one for each component |
| `MCHeap`, `MCEncoder`, `MCMessageDecode`, `MCCodec`, `MCKernelModules`, `MCFrontend` | instances for TLC | |

`Decoder` and `Encoder` do not look at a schema: they allow every sequence of calls that any
generated `decode_inner` or `encode_inner` could make, so what is shown of them holds for
all `.proto` files. `MessageDecode` and `MessageEncode` have the control that the generator
adds, over the same operators. `NetfilterModule` and `UdpModule` end where the user's code
begins: `process_message` is any verdict about a message.

What is abstracted: payload contents are sequences of byte values; the struct is a function
from field numbers to sequences; a float or double is its bits. Fields of a schema are taken
in the order of their numbers: the order of finalizers and of encoding is that of the source
file, which any order of numbers can stand for. `items_p` of a field that has not been
allocated is `Unset` in `Heap` (`init` sets the length only), and items that are not messages
are unspecified until read. A segment of TCP is the stretch of the stream it carries; memory
behind a segment or a buffer is any of `Beyond`, and what a datagram that does not fit its
buffer overwrites is any part of the buffer, or the machine stops. Characters that mean nothing to comments,
quotation marks among them, are one character; a parsed file keeps the names, nesting and imports that resolution looks at,
and fields of scalar types, which have nothing to resolve, are left out.

Definitions marked `Mutant` are the changed forms of a neighbour, one for each property of
each passing run; they are used by nothing else and show that a plausible slip in the code
would be seen.

## Runs

| Run | Question | Bounds, and why they are enough |
|---|---|---|
| `Heap` | Do blocks stay disjoint, inside, aligned, without waste, and do repeated fields stay backed through refusals? Does the allocator implement `Arena`? | Workspaces of 0, 15, 16, 39, 64, 72 bytes (below, at and above the header; exact fits) at an aligned and an odd address; 5 allocations of every kind in any order |
| `Decoder` | Are windows inside the message, slices inside parents, the first error kept and returned? | Inputs of 0, 1, 4 bytes; amounts 0, 1, 2 and one near `IntMax`, so that seeks overflow; 3 nested decoders; 2 foreign errors |
| `Encoder` | Does the buffer hold what was asked for, and is the result all of it or an error? | Buffers 0, 4, 12; chunks of 0, 1 and 3 bytes; zero, and a value of two groups; groups 2 deep, long enough that lengths take one and two groups (`Base` is 4) |
| `Messages` | Does every message decode to what it means; do the two passes agree; are memory errors reported? | all sequences of up to 4 of 9 bytes (tags of all fields of a recursive type, lengths, a continuation); up to 3 of 13 well-formed and malformed fields of that type, up to 3 of 15 fields of a type with fixed-width, string, bytes, optional and oneof fields, in every order, each with 4 sizes of heap; pairs of fields of converted scalar types with numbers at the ends of the types |
| `MessageTwice` | Does a second decode into the same struct change only what occurs, and does every decode return? | pairs of inputs of one field each, 2 sizes of heap |
| `MessageRefused` | *violation*: does a decode that succeeds have all its memory? | one field, 2 small heaps |
| `HeapWrapped` | *violation*: does the position stay in the workspace? | 3 inputs, two with a claimed length just below `IntMax` |
| `Codec` | Is what was encoded decoded again, in every size of buffer? | message types with every kind of field and the scalar types at the ends of their ranges, fields two at a time and all at once, buffers of 0, 1, 8, 16 and 200 bytes (none at all, too small for every message, for some, for none); 2 levels of messages |
| `KernelModules` | Does the filter hold, and does it let the rest through? Are sockets released, is only what was received processed, and does every load end? | a header of 2 bytes of 4 values, `IntMax` 7: sizes of 0, small, just below, at and above the buffer (5), and negative ones; 3 frames, or 6 bytes cut at will; memory for 2 copies; hooks registered or not; 10 datagrams (whole frames, sizes that claim more or less than was sent, sizes that reach behind the buffer, and one larger than the buffer of 5 and than the 8 that are asked for), a queue of 2, 2 failed binds, any number of loads |
| `Frontend` | Are comments blanked in place, which kinds do fields get, and are messages declared before those that hold them? | all texts of up to 7 of 4 characters, enough for a comment in a comment of the other kind with something behind it; 4 messages that hold one another in all 4096 ways; about 8000 files with messages and enums of the same names in several scopes, imports, and packages of none, one and two names |
| `DeclarationOrder` | *violation*: is the order right whenever a right one exists? | 3 messages that hold one another in all ways |
| `KindsWrong` | *violation*: in a file that is accepted, does every field have a declared type, and its kind? | files of one field: declared, nested and undeclared names, alone and behind packages of one and two names; imports |

TLC uses narrow widths (`Base` 64 instead of 128, so that a tag still fits one byte and a
varint has at most 3 groups; 32-bit and 64-bit fields of 2 and 3 bytes; `IntMax` 1023). The
operators are written over these constants, and every boundary of the code is a boundary
at those values too: varints too long, lengths of `IntMax` and above, tags cut to the width
of 32 bits, sums that overflow. `CHECK_DEADLOCK FALSE` stands in the configurations
of messages, of `Codec` and of the parser only: when the bound on the decodes is
reached, or a run has failed, or a file has been declared or refused, the program has
stopped. Loading and unloading never stop, and the kernel modules are checked for deadlock.

Fairness is that of sequential code, of TCP, or of an init that goes on:

- `WF_vars(Run)` for `EveryRunReturns`: sequential code takes its next step, since it waits
  for nothing. There is no fairness on the start of a decode.
- `SF_netfilter(Retransmit)` for `ArrivesUnlessBlocked`: TCP sends the oldest frame that has
  not arrived again and again, and of these attempts not all meet an `skb_copy` or
  `skb_linearize` that fails (n:137, n:144) while there is memory. It must be strong, since a
  failed copy, or memory that has run out, disables the step for a while. Nothing is assumed
  of clients or of loading and unloading.
- `WF_udp(Proceed)` for `EveryLoadEnds`: `insmod` runs init to its end, and in `kernel_recvmsg`
  (u:122) it goes on when a datagram is there. `Proceed` is disabled while none is, and the
  failure of a receive (`ReceiveFails`) is no part of it: nothing ends a wait without a
  datagram, which may last for ever, as in the code. Nothing is assumed of clients.

## Properties

*Allocator.* `BlocksDisjoint`: no two blocks share a byte, none lies on the header or outside; `NoWaste` bounds
padding; `FieldsBacked` names the three states in which a repeated field can be after any mix
of grants and refusals: its items are a whole block of its length; it was never given any and has
length 0; or the last request was refused, its items are NULL (c:2024), and the length is still 0
or that of a block granted before. `MessagesAligned`: the message, every sub-message and all items
are aligned. `ImplementsArena` is the refinement.

*Decoder.* `WindowsOK`: aborted, or a window inside the message. `SlicesNested`: a slice
starts where its parent stands and stays within what it has left, until it is given back.
`FirstErrorKept` and `ResultReportsFirstError`: the first error, wherever it happened, stands
in the outermost aborted decoder and is what the caller gets. `GiveBackNeverOverruns`: the
tests in the parent's seek never fire for a slice that did not abort.

*Encoder.* `OutputIsAsked`: until it aborts, the end of the buffer is exactly `asked`, in
which headers have the length of their contents, while the code computes them from
positions. `EncodeResult`: the result is the whole encoding, or an error.

*Messages.* `DecodesTheMeaning` compares the whole decoder, with counting pass, second pass,
slices, oneofs and conversions, to the reference. A single `bool` is cut to 32 bits before it
is tested (c:997) and a repeated one is not (c:1359); the reference says so, and the run has
2^32 among its numbers. `CountsRespected` bounds the second pass by the counts,
with one exception stated in it: a packed fixed-width payload that ends inside a value is
counted rounded down (c:1088, c:1114), the second pass stores one value more, behind the block
that was allocated, and aborts.
`MemoryErrors`: refused memory fails the run it happens in. `HeapOnlyGrows`, an action property:
a step that starts with the position in the workspace leaves it there and does not move it back,
through messages, items and payloads in any order. The one exception is `RequestWraps`, a request
for counted items whose size with padding is no int; that it happens, with a claimed length that
is rejected after it was counted (c:1272), is `HeapWrapped`, in which `HeapKept` fails.

*Sender and receiver.* `WholeOrNothing`: `encode` gives exactly the reference encoding and its
length, although it writes backwards and computes the lengths in headers from positions, or an
error, which depends on the size of the buffer alone: no shorter message is ever taken for the
whole. In a buffer of no bytes an empty message gets -1, since the first position already is
what an error is. `RoundTrip`: `decode` reads from it the length that `encode` returned and the
struct as it was sent; a string comes back up to its first NUL, since the encoder asks `strlen`
(c:321).

*Netfilter.* `FilterHolds`, for every way TCP cuts, joins and repeats the stream, through failed
copies, reloads, and loads whose hook was never registered (n:174): of a message that
`process_message` rejects, and of all behind it, the server reads only what came past the hook
(`unfiltered`): in segments that were not pushed, that came while there was no hook, or that
did not begin with that frame and have all of it. `HookedFilters`: so for a client whose frames
have segments of their own, nothing of a rejected frame comes in while the hook is registered.
Both halves are needed: init does not look whether the hook was registered, and of two frames in
a segment the hook reads the first.
`WholeFramesUnderstood` says what is left when TCP cuts the
stream at will: a segment that begins with a frame and has all of it is understood, whatever
follows it. `ArrivesUnlessBlocked`: a frame that nobody rejects arrives in the end, also one
of a size that the module refuses to look at, unless an earlier one was rejected or the
memory for copies has run out, which happens because a copy that was processed is never freed (n:153). It is stated for frames in
segments of their own: one cut over two segments may meet any verdict.

*UDP.* `SocketsHeld`: only the loads whose bind failed leave a socket behind (u:106 goes to
`out`, past `sock_release`). `GivenIsReceived`: unless a part of the datagram was stored outside
the buffer (`spilled`), as many bytes are processed as it claims, if that is less than the buffer
has; those that lie in the buffer are the datagram's, with zeros behind it, never an earlier
load's. Up to three of them lie behind the buffer (u:59), and nothing is said of these, nor of
the contents of the buffer when a datagram did not fit (u:122): there only the length is bounded.
`EveryLoadEnds`: a waiting datagram ends the load, whatever it says, unless it was too large for
the buffer and has stopped the machine.

*Parser.* `CommentsBlanked`: in every text each character of a comment becomes a space and no
other character changes, against a reader that reads one character at a time; offsets in errors
are then those of the file. A text is refused for a comment that is not closed or has a `/*` in
it. Like the code, this reader knows no strings: what a marker in a string literal blanks is
a comment to both.
`KindsAnswered` says which kind every field of every accepted file gets. It is that of the very
type whose name the generated code will use (of one of them, where a file declares a name twice),
and `message` where nothing has the name, with two exceptions, for which the property says what
the code answers: a nested type whose name an import has gets the import's kind (`Shadowed`,
p:706-711), and a type behind a package of several identifiers that of the type at the rest of the
package, or `message` (`DottedQualified`, p:714). A file is refused only for a name that nothing
has or that reaches into a message. The two exceptions, and the kind of a name that nothing has,
are wrong answers; `KindsAreRight`, which has no room for them, fails in `KindsWrong`.
`DeclaredFirst`: the order is right for every use that the order of the file guarantees, in
graphs with cycles too. `TypesDeclaredFirst`: so it is for the structs of the header: of two
messages of the file the one that is held by value comes first, in every nesting.

## Findings

Each is the counterexample of a run:

1. `MessageRefused`. `pbtools_decode_repeated_inner` returns without aborting when the items
   of a repeated sub-message field get no memory (c:2104): the field is dropped, `items_p` is
   NULL and decode returns success. Every other allocation goes through `decoder_heap_alloc`,
   which aborts with `PBTOOLS_OUT_OF_MEMORY` (c:751-753).
2. `HeapWrapped`. A claimed length is counted before the seek rejects it (c:1088-1089), and the
   finalizer allocates the items of a scan that has failed (c:1272). 2^29 items of 4 bytes are a
   negative `int` (c:47): granted, with the position moved below the workspace, where README.md:100
   has structs allocated "inside the arena" and the code has `PBTOOLS_OUT_OF_MEMORY` (c:751-753).
3. `DeclarationOrder`. "Insert first in the reversed list if there are no types using this
   type" (p:748-749) holds of the users placed so far only. In a file of `A`, `B`, `C` in which
   `A` holds `C` and `C` holds `B`, the structs come out as `C`, `A`, `B`, and `C` has a repeated
   `B` by value: the header does not compile, although an order exists that would.
4. `KindsWrong`. `is_field_enum` refuses a type that "is not defined" (p:721), but a file passes
   with a field of a wrong kind in three ways. A field of a nested message gets the kind of an
   imported enum of the same name, since imports are asked first (p:706-711). `namespace_base` is
   one string for the whole package (p:620-624, p:766-768) and cuts one identifier of a namespace
   that has them apart (p:714): the enum `pkg.sub.E` is looked for in a message `sub`, and its
   field gets the kind `message`. And a name of the package that `lookup_type` does not find is no
   enum (p:715-719), so that it passes for a message: a struct that is declared nowhere.

The models show more that is not as it is meant, in the places where the properties above say
what the code does rather than what it should; no run of its own states these:

- An encoding of exactly the size of the buffer is refused as full, since byte 0 of the buffer
  is never used (c:82, c:102): `EncodeResult`, in which an error means `Len(asked) + 1 > buffer`.
- The linear copy of a segment is not freed when it has been processed (n:153), where README.md:50
  says that "The modules do not use dynamic memory allocation": `copies`, and `Blocked` in
  `ArrivesUnlessBlocked`.
- Netfilter init ignores what `nf_register_net_hook` returns (n:174) and reports success: a loaded
  module without a hook. `FilterHolds` and `HookedFilters` speak of `hooked`, not of `loaded`.
- Of two frames in one pushed segment the hook reads the first (n:93-98), so that a rejected one
  behind it gets to the server: `unfiltered` in `FilterHolds`.
- `kernel_recvmsg` is asked for 1024 bytes with one kvec of 128 (u:119-122): a larger datagram is
  stored beyond it. `StoreTooMuch`, and `spilled` in `GivenIsReceived` and `EveryLoadEnds`.
- A message of 125 to 127 bytes is taken to fit the buffer, of which the header has 4 (u:59), and
  `process_message` is given up to three bytes from behind it: `GivenIsReceived`.
- The socket of a failed bind is not released (u:106): `failedBinds` in `SocketsHeld`.
- A comment marker in a string literal begins a comment (p:69), so that `"http://..."` is blanked
  from its `//` on: `CommentsBlanked`.
- `pkg.A.N`, a type in the message `A`, is refused as not defined though it is declared, since
  all but its last name is taken for a package (p:672-676): `IntoMessage` in `KindsAnswered`.

## Proofs

| Module | Theorems | Argument |
|---|---|---|
| `HeapProofs` | `HeapTypeOK`, `HeapBlocksDisjoint`, `HeapImplementsArena`, `HeapNoWaste`, `HeapFieldsBacked`, `HeapMessagesAligned` | Disjointness is not inductive: it says nothing of the position. `IInv` adds that the position is above the header and that blocks, in order, lie between header and position. `heap_alloc` then gives a block between the old and the new position, less than a word after the old one (a lemma about the operator, with its padding), and each caller appends it. `CallersInv` adds what the callers keep: each block starts less than a word after the one before it, and the pointer of every repeated field is a block of its length, NULL or not set. The refinement shows each action to be a `Reset`, a `Grant`, a `Refuse` or a stutter of `Arena`. |
| `DecoderProofs` | `DecoderTypeOK`, `DecoderWindowsOK`, `DecoderFirstErrorKept`, `DecoderResult`, `DecoderSlicesNested`, `DecoderGiveBack` | The conjunction of the first four is inductive. One lemma per operator (`decoder_abort`, `_get`, `_read`, `_seek`, `_init_slice`) says that it keeps a good window and how errors may appear; one lemma for each way an action changes the stack (replace the top, push, mark, give back). `SlicesNested` is inductive on top of it, because a window that still has bytes in it is the window it was (`SameWindow`). From it and `WindowOK` follows that what a slice has read fits into its parent and into an `int`, which is `DecoderGiveBack`, an action property. |
| `EncoderProofs` | `EncoderTypeOK`, `EncoderPositionOK`, `EncoderOutputIsAsked`, `EncoderEncodeResult` | `Good`: the buffer's end holds what was asked for, or the encoder is dead *and what was asked for does not fit*; the second half is needed for `EncodeResult`, since asking only grows. `GroupsOK`: each saved position is the mirror of the length of `asked` at that time, from which `Moved = GroupLength`, the equality of the two lengths, follows. |
| `MessageProofs` | `MessageTypeOK`, `MessageCountsRespected`, `MessageMemoryErrors`, `MessageHeapOnlyGrows` | `MessageInv` says of every `decode_inner` in progress where its decoder and the kept decoders of its repeated fields are (windows of the input, or errors), that a caller waits at the field its callee decodes (`LinkOK`, `WaitOK`), and, for `CountsRespected`, that *both passes go the same way*: from a kept decoder the second pass comes, tag by tag (`NextTag`), to the decoders the scan came to, with the same items (`Reaches`), as long as neither has failed. A decoder that has failed is as good as any other that failed (`Canon`), so that the two passes need not fail alike. Lemmas about each reader say that it ends where the field is skipped to or fails (`LeafReads`, `PackedReads`, `GroupReads`), and that from alike decoders it ends in alike decoders (`AlikeCount`). For `MemoryErrors`, a refusal has a failed decoder above it or the error is on its way to the result. `HeapOnlyGrows` is a step property of `heap_alloc`: a request that is an int with its padding ends below the end or is refused, and payloads are no longer than the input. |
| `OperatorProofs` | `MemberRoundTrip`, `ItemRoundTrip`, `VarintRoundTrip`, `TagRoundTrip`, `LengthRoundTrip` | Induction over the numbers is the well-foundedness of `<` applied to a set (`NatSetInduction`); with it recursion (`Recursion`), what `FlattenSeq` gives (the places of the parts in the whole, `FlattenPlaces`, or the whole again from parts of one element, `FlattenOnes`), and that digits and numbers give each other back. A cast does not see whole multiples of its values (`CastShift`), so that a value comes back through a wider type; `zigzag` is `2v` or `-2v - 1`, whose halves and complements give `v` back up to such a multiple. A varint that a fold over at most ten bytes reads ends behind its last byte, and read where `VarintBytes` stands in a message it is the number and stops right behind it: so tags and lengths do. The module also has what each decoder and encoder function keeps, for the modules below. |
| `CodecProofs` | `EncodeWholeOrNothing`, `FixedRoundTrip`, `DecodeGivesBack` | See below. |
| `KernelProofs` | `HeaderRoundTrip`, `KernelTypeOK`, `KernelWholeFramesUnderstood`, `KernelFilterHolds`, `KernelHookedFilters`, `KernelSocketsHeld`, `KernelGivenIsReceived` | The header is a place-value system with one number for each of its values (`HeaderRoundTrip`). For segments cut at will: the places of the stream are in the order of its frames, so that a stretch that begins with a frame and has all of it starts with the bytes of that frame (`StretchBegins`), and its header gives the length of the message back (`FrameUnderstood`). `UdpInv` adds that the buffer is clear until the datagram is in it, and then has the datagram and zeros, if it fits. `NfInv` adds that of a frame to be filtered whatever has arrived came past the hook: a segment that begins with the frame and has all of it gets the verdict on its message, which is not to let it in, and all other bytes of such frames are recorded (`FilteredPast`). A delivered byte has everything before it, so what is delivered behind a filtered frame makes all of that frame one that came past. `HookedFilters` is the step from it, where a segment is a frame. |
| `FrontendProofs` | `FrontendDeclaredFirst`, `FrontendCommentsBlanked`, `FrontendKindsAnswered`, `FrontendTypesDeclaredFirst`, `FrontendTypeOK` | *The sort.* `SortInv`: the list is a permutation of the messages placed so far, and the order is right for them. A message goes behind the last of its users; what it uses itself is guaranteed only if it stands behind it in the file, and is not placed yet, or if the message had no users and goes to the front. *Comments.* The reference reads one character after another, the code jumps from marker to marker. `ScanOK` says what the code knows between two markers: in code, that the chunks are the blanked text up to where the last comment ended (`CodeOK`); in a comment, that they go up to where it begins, and the reference reads a comment from there (`CommentOK`). Between two markers the reader stays in what it is in, by induction along the text. *Kinds.* `KindsInv`: from each stage on, `resolved` and `type_kind` are what the two functions give for this file. That suffices, since what is left is a property of the functions: where a name is qualified, in a scope, imported or nowhere, the type that `is_field_enum` meets has the full name the field was given; in the two exceptions it is the one the property names. Namespaces are lists of names and full names are flattened lists, so that this rests on what flattening does (`FlattenOnes`) and on telling a sequence from its last element. *Order.* `OrderInv`: every list that is done has the messages of its group once, used ones before their users where the file guarantees it (`SortedGroup`); `uses` is that of the group being sorted. Two messages part in one group, at the length of their longest common prefix; a message held by value makes the one it is in at that level used by the other (`HeldIsFirst`), which puts them in order there, and so the structs. |

*Encoding* (`CodecProofs`). `Writes(e, f, c)`: the encoder `f` has `c` in front of what `e` held,
or has aborted, because there was no room. Writers compose, so that a whole `encode_inner` is
followed in the order of its calls: a value, its tag, a payload with its length (the length is
the number of bytes since the position kept), packed items, fields last to first. Sub-messages
are by levels: `WholeIs` says that the encoding of a struct does not change with the levels once
there are as many as it has, so that `Encoding` solves the recursion, and `encode_inner` of each
level writes it.

*Decoding what was encoded.* An encoding is its records one behind the other: `Layout` gives
each record its place, `Parts` the records of one field, `First` where a kept decoder stands.
Three facts about one call of `decode_inner`, for a struct `x` in a window that is exactly
`Encoding[x]`: the scan goes from record to record, and after each the struct holds what was
sent of the fields behind it, and each repeated field has counted the items it passed
(`ScanBack`); a finalizer goes from the first record of its field to the last, over the records
of others, and has stored the items it passed (`ItemsBack`, `Partly`); and a field whose finalizer
is done, or that is not repeated, holds what was sent, so that in the end the struct is
`Sent[x]` (`FrameBack` is the three together). A call for a sub-message is none of these while its callee
runs; what is true of the caller is that it will be right *once the callee gives back the
sub-message* (`Resume`). `Stacked` says this of the whole stack, with the struct that each call
is for, and `RoundOK`, the inductive invariant, that it is so for the root as long as the
workspace refused nothing. The last call returning right makes `RoundTrip`.

The theorems hold for every value of the constants under: `IntAssumption` (`IntMax` positive),
`WireAssumption` (at least two values in a group, positive widths that are ints), `ScalarAssumption` (64-bit
values are a multiple of the 32-bit ones, and the groups of a varint have room for them), `HeapAssumption` (the
header's size is an int), `RequestAssumption` (requests with room for their padding are ints;
no workspace at address 0), `DecoderAssumption` and `EncoderAssumption` (lengths and amounts
are non-negative ints, payloads are bytes, values are natural numbers), `FramingAssumption`
(a header has as many values as a `uint32_t`), `NetfilterAssumption` and
`UdpAssumption` (messages and datagrams are sequences of bytes, of any length; memory behind a
segment or buffer has bytes; the header fits in the buffer, and more is asked for than the buffer
has). `MaxDepth`,
`MaxBlocks`, `MaxAsked`, `MaxFrames`, `MaxQueue` and `MaxFailedBinds` are arbitrary, so the
bounds of the runs are not bounds of the theorems. `TextsAssumption` says that a text is a
sequence of characters, and `FilesAssumption` what the grammar and `load_messages` give
(`IsFile`): paths and names are sequences of identifiers, a type is a message or an enum, and a
message is among the children of the one it is in. Nothing is assumed of the names, so that they
may clash, nor of how messages hold one another. `NetfilterAssumption` also says that the length of a message is a `uint32_t`, as
the frame has it. `MessageAssumption` is about the schema and what is decoded: fields have
positive numbers and the types of the schema or scalar ones, the size of an item is a positive
int with room for padding, workspaces and inputs have sizes that are ints. `SourceAssumption` is about
what is encoded: structs that hold values of the types of their fields and of a oneof one member,
nested to any depth, but not in a circle (`Within[Nesting] = Structs`), and buffers whose size is
an int. `CodecAssumption`: tags are `uint32_t`, as the field numbers of a `.proto` file are below
2^29. `RequestAssumption` leaves out requests near 2^31 in `Heap`, where the cast in c:47 would
wrap; the allocator itself (`HeapOps`) has the casts, and the theorems about messages are proved
with requests of every size: what a wrapped one does to the position is excepted in
`HeapOnlyGrows`, where it is stated, and no other theorem needs that exception.

Only model-checked:

- liveness (`EveryRunReturns`, `ArrivesUnlessBlocked`, `EveryLoadEnds`): temporal proofs under
  fairness are outside the prover's reach;
- `DecodesTheMeaning`: its reference, `MessageReference`, is written with recursive operators,
  along the bytes and along the nesting of messages, and no theorem can be stated in a module
  that reaches them. A proof needs the reference by levels, as `Encoding` is, and the way of a
  decode through malformed bytes; it has not been done. What is
  proved is its case of well-formed input that an encoder made (`DecodeGivesBack`), and of all
  other input that windows, counts and errors are kept (`MessageTypeOK`, `MessageCountsRespected`,
  `MessageMemoryErrors`).

## Not modelled

- The grammar, which is the `textparser` library's, and the parts of `parser.py` that only
  copy its tree (options, services and maps are refused or skipped): `Files` is any parsed file.
- Names, layout and the files of the C text, `Makefile`, `.gitignore`, the command line: text
  without state.
- The examples: earlier output of the generator and clients of it.
- The C stack, which the recursion of `decode_inner` uses (c:2184): `PROJECT.json` lists it as a
  hazard without a property.
- What is overwritten when a block or a datagram is stored where it does not belong (c:47,
  c:1156, u:122): that it is, is modelled; memory that is neither buffer nor message has no state.
- What user code does in `process_message`, beyond its verdict.
