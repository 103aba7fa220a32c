-------------------------------- MODULE Heap --------------------------------
(***************************************************************************)
(* The life of one workspace: pbtools_message_new places the heap header   *)
(* and the message in the caller's memory, and every later allocation (a   *)
(* sub-message, a repeated field, a string or bytes payload met by the     *)
(* decoder) comes from the same heap until the caller starts again.        *)
(***************************************************************************)
EXTENDS HeapOps, Sequences

CONSTANTS Workspaces,   \* the [buf, size] callers bring
          MessageSize,  \* sizeof the message and of its sub-messages
          Fields,       \* repeated fields of the message
          ItemSize,     \* sizeof one item of each
          Lengths,      \* the lengths callers ask for
          PayloadSizes, \* the string and bytes payloads (terminator included)
          MaxBlocks     \* bound: allocations in one life of a workspace

VARIABLES heap,         \* the header: [buf, size, pos]
          message,      \* what pbtools_message_new returned
          repeated,     \* the repeated fields: [items, length]
          sub_messages, \* what the pointers to sub-messages were set to
          blocks,       \* every block handed out, in order
          ret           \* the last request and the address it got

vars == <<heap, message, repeated, sub_messages, blocks, ret>>

WordAlign == 8          \* __alignof__ of uint64_t and of a pointer

RepeatedSize(f, n) == n * ItemSize[f]

Sizes == {MessageSize} \cup PayloadSizes
           \cup {RepeatedSize(f, n) : f \in Fields, n \in Lengths}

(* Requests stay within int with room for padding, and no workspace starts
   at address 0. *)
ASSUME RequestAssumption ==
  /\ \A s \in Sizes : s \in 0 .. (IntMax - WordAlign)
  /\ Workspaces \subseteq [buf : Nat \ {0}, size : 0 .. IntMax]
  /\ Lengths \subseteq Nat
  /\ MaxBlocks \in Nat

(* message_init leaves items_p as the memory was; Unset stands for that. *)
Unset == -1
EmptyFields == [f \in Fields |-> [items |-> Unset, length |-> 0]]

Init ==
  /\ heap = [buf |-> 0, size |-> 0, pos |-> HeapHeader]
  /\ message = NULL
  /\ repeated = EmptyFields
  /\ sub_messages = {}
  /\ blocks = <<>>
  /\ ret = [size |-> 0, addr |-> NULL]

(* Every allocation goes through here: the caller sees ret'.addr. *)
Allocate(h, old, size, alignment) ==
  LET r == heap_alloc(h, size, alignment)
  IN  /\ heap' = r.heap
      /\ ret' = [size |-> size, addr |-> r.addr]
      /\ blocks' = IF r.addr = NULL THEN old ELSE Append(old, ret')

MessageNewRefused(w) ==
  /\ w.size < HeapHeader
  /\ message' = NULL /\ blocks' = <<>>
  /\ ret' = [size |-> 0, addr |-> NULL]
  /\ UNCHANGED <<heap, repeated, sub_messages>>

pbtools_message_new(w) ==
  /\ w.size >= HeapHeader
  /\ Allocate(heap_new(w.buf, w.size), <<>>, MessageSize, WordAlign)
  /\ message' = ret'.addr
  /\ repeated' = EmptyFields
  /\ sub_messages' = {}

MayAllocate == message # NULL /\ Len(blocks) < MaxBlocks

(* Mutant: the alignment of a byte where that of the struct is meant. *)
sub_message_alloc_of_bytes ==
  /\ MayAllocate
  /\ Allocate(heap, blocks, MessageSize, 1)
  /\ sub_messages' = sub_messages \cup ({ret'.addr} \ {NULL})
  /\ UNCHANGED <<message, repeated>>

(* pbtools_sub_message_alloc and pbtools_decoder_sub_message_decode: the
   pointer is set only when there is memory. *)
pbtools_sub_message_alloc ==
  /\ MayAllocate
  /\ Allocate(heap, blocks, MessageSize, WordAlign)
  /\ sub_messages' = sub_messages \cup ({ret'.addr} \ {NULL})
  /\ UNCHANGED <<message, repeated>>

(* Mutants of the next action: the error code of a refused request is stored as
   the length; a refused request keeps the old items but takes the new length. *)
alloc_repeated_error_as_length(f, n) ==
  /\ MayAllocate
  /\ Allocate(heap, blocks, RepeatedSize(f, n), WordAlign)
  /\ repeated' = [repeated EXCEPT ![f].items = ret'.addr,
                                  ![f].length = IF ret'.addr = NULL THEN -1 ELSE n]
  /\ UNCHANGED <<message, sub_messages>>

alloc_repeated_length_first(f, n) ==
  /\ MayAllocate
  /\ Allocate(heap, blocks, RepeatedSize(f, n), WordAlign)
  /\ repeated' = [repeated EXCEPT ![f].items = IF ret'.addr = NULL THEN @ ELSE ret'.addr,
                                  ![f].length = n]
  /\ UNCHANGED <<message, sub_messages>>

(* pbtools_alloc_repeated, calloc_repeated and pbtools_alloc_repeated_string:
   items_p is overwritten by a NULL, the length is not. *)
pbtools_alloc_repeated(f, n) ==
  /\ MayAllocate
  /\ Allocate(heap, blocks, RepeatedSize(f, n), WordAlign)
  /\ repeated' = [repeated EXCEPT ![f].items = ret'.addr,
                                  ![f].length = IF ret'.addr = NULL THEN @ ELSE n]
  /\ UNCHANGED <<message, sub_messages>>

decoder_read_payload(size) ==
  /\ MayAllocate
  /\ Allocate(heap, blocks, size, 1)
  /\ UNCHANGED <<message, repeated, sub_messages>>

Next ==
  \/ \E w \in Workspaces : MessageNewRefused(w)
  \/ \E w \in Workspaces : pbtools_message_new(w)
  \/ pbtools_sub_message_alloc
  \/ \E f \in Fields, n \in Lengths : pbtools_alloc_repeated(f, n)
  \/ \E size \in PayloadSizes : decoder_read_payload(size)

Spec == Init /\ [][Next]_vars
-----------------------------------------------------------------------------
Limit == heap.buf + heap.size

End(b) == b.addr + b.size

HeapType == [buf : Nat, size : Nat, pos : Nat]
BlockType == [addr : Nat, size : Nat]

(* Type correctness of the allocator and of what callers keep. *)
TypeOK ==
  /\ heap \in HeapType
  /\ message \in Nat
  /\ repeated \in [Fields -> [items : Nat \cup {Unset}, length : Nat]]
  /\ sub_messages \subseteq Nat
  /\ blocks \in Seq(BlockType)
  /\ ret \in BlockType

(* However allocations of all kinds interleave, a block starts above the heap
   header and above every earlier block, and ends inside the workspace: two
   fields of a message never share a byte, and none overwrites the header that
   heap_alloc itself keeps in the workspace. *)
BlocksDisjoint ==
  /\ \A i \in 1 .. Len(blocks) :
        heap.buf + HeapHeader <= blocks[i].addr /\ End(blocks[i]) <= Limit
  /\ \A i, j \in 1 .. Len(blocks) : i < j => End(blocks[i]) <= blocks[j].addr

(* An allocation costs its size and at most seven bytes of padding, also when
   the workspace itself is not aligned: the position never runs ahead of the
   last block. *)
NoWaste ==
  LET start(i) == IF i = 1 THEN heap.buf + HeapHeader ELSE End(blocks[i - 1])
  IN  /\ \A i \in 1 .. Len(blocks) : blocks[i].addr < start(i) + WordAlign
      /\ message # NULL => heap.buf + heap.pos = End(blocks[Len(blocks)])

HasBlock(size) == \E i \in 1 .. Len(blocks) : blocks[i].size = size

(* After any mix of successful and refused requests a repeated field is in one
   of three states. It has items: they are, whole, one block of its own, of the
   length it has. It was never given any: its length is 0. Or its last request
   was refused: its items are NULL, but its length stays that of a block it was
   given before, not 0 and not the length it was refused. *)
FieldsBacked ==
  message # NULL => \A f \in Fields :
    LET items == repeated[f].items  size == RepeatedSize(f, repeated[f].length)
    IN  /\ items \notin {NULL, Unset} =>
             \E i \in 1 .. Len(blocks) : blocks[i] = [addr |-> items, size |-> size]
        /\ items = Unset => repeated[f].length = 0
        /\ repeated[f].length # 0 => HasBlock(size)

(* The memory a message, any of its sub-messages or a repeated field is read
   through as a struct is aligned for it, also in a workspace that is not. *)
MessagesAligned ==
  /\ message % WordAlign = 0
  /\ \A address \in sub_messages : address % WordAlign = 0
  /\ \A f \in Fields : repeated[f].items # Unset => repeated[f].items % WordAlign = 0

(* The workspace keeps the promise of the abstract arena. *)
A == INSTANCE Arena WITH
       Padding <- WordAlign, lo <- heap.buf + HeapHeader, hi <- Limit,
       granted <- {blocks[i] : i \in 1 .. Len(blocks)}
ImplementsArena == A!Spec
=============================================================================
