------------------------------ MODULE HeapOps ------------------------------
(***************************************************************************)
(* The workspace allocator of the generated C library                      *)
(* (src/pbtools_lkm/lkm_common/generate_pbtools_c.py, heap_new and         *)
(* heap_alloc): a bump allocator whose own header lives in the first bytes *)
(* of the workspace the caller supplies.                                   *)
(***************************************************************************)
EXTENDS CInt

CONSTANT HeapHeader     \* sizeof(struct pbtools_heap_t)

ASSUME HeapAssumption == HeapHeader \in 0 .. IntMax

(* Mutant: the header's own bytes are not counted as used. *)
heap_new_no_header(buf, size) == [buf |-> buf, size |-> int(size), pos |-> 0]

(* Called only when size >= HeapHeader; heap_new returns NULL otherwise. *)
heap_new(buf, size) == [buf |-> buf, size |-> int(size), pos |-> HeapHeader]

(* size bytes are taken after pad bytes of padding; nothing is taken.  A sum or
   difference of ints wraps, as the kernel is compiled. *)
Taken(h, size, pad) == [heap |-> [h EXCEPT !.pos = int(@ + int(size + pad))],
                        addr |-> h.buf + h.pos + pad]
Refused(h) == [heap |-> h, addr |-> NULL]

(* The bytes to the next multiple of alignment. *)
PadOf(addr, alignment) ==
  LET rest == addr % alignment IN IF rest = 0 THEN 0 ELSE alignment - rest

(* Mutants of heap_alloc: the room is not tested again once the padding is
   known; an aligned address is padded too; the position is aligned instead of
   the address. *)
heap_alloc_untested_pad(h, size, alignment) ==
  IF int(size) <= h.size - h.pos
  THEN Taken(h, size, PadOf(h.buf + h.pos, alignment)) ELSE Refused(h)

heap_alloc_always_pad(h, size, alignment) ==
  LET pad == alignment - ((h.buf + h.pos) % alignment)
  IN  IF int(size + pad) <= h.size - h.pos THEN Taken(h, size, pad) ELSE Refused(h)

heap_alloc_align_pos(h, size, alignment) ==
  LET pad == PadOf(h.pos, alignment)
  IN  IF int(size + pad) <= h.size - h.pos THEN Taken(h, size, pad) ELSE Refused(h)

(* The size is tested before and after padding; an aligned address needs none. *)
heap_alloc(h, size, alignment) ==
  LET pad  == PadOf(h.buf + h.pos, alignment)
      left == int(h.size - h.pos)
  IN  IF int(size) <= left /\ int(size + pad) <= left
      THEN Taken(h, size, pad) ELSE Refused(h)
=============================================================================
