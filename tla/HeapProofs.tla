----------------------------- MODULE HeapProofs -----------------------------
(***************************************************************************)
(* For every set of workspaces, fields and request sizes that stays within *)
(* int: the heap's types, the separation of its blocks, and that it keeps  *)
(* the promise of Arena.                                                   *)
(***************************************************************************)
EXTENDS Heap, SequenceTheorems, TLAPS

USE DEF NULL

(* A request or a size that fits an int is not changed by the cast. *)
LEMMA IntFits == \A n \in 0 .. IntMax : int(n) = n
  BY IntAssumption DEF int

(* What one allocation does to a heap with room for its header: it hands out
   [addr, addr + size) just above pos and moves pos to its end, or changes
   nothing because less than the request and its padding is left. *)
LEMMA HeapAlloc ==
  ASSUME NEW h \in HeapType, NEW size \in 0 .. (IntMax - WordAlign),
         NEW alignment \in {1, WordAlign},
         h.buf # 0, h.pos <= h.size, h.size <= IntMax
  PROVE  LET r == heap_alloc(h, size, alignment)
         IN  \/ /\ r.addr \in Nat \ {0}
                /\ h.buf + h.pos <= r.addr
                /\ r.heap \in HeapType
                /\ r.heap.buf = h.buf /\ r.heap.size = h.size
                /\ h.pos <= r.heap.pos /\ r.heap.pos <= h.size
                /\ r.addr + size = h.buf + r.heap.pos
                /\ r.addr % alignment = 0
                /\ r.addr < h.buf + h.pos + WordAlign
             \/ /\ r.addr = NULL /\ r.heap = h
                /\ h.size < h.pos + size + WordAlign
<1> DEFINE pad  == PadOf(h.buf + h.pos, alignment)
           left == h.size - h.pos
<1>1. h.buf \in Nat /\ h.pos \in Nat /\ h.size \in Nat
  BY DEF HeapType
<1>2. pad \in 0 .. 7 /\ (h.buf + h.pos + pad) % alignment = 0
  <2>1. CASE alignment = 1
    BY <1>1, <2>1 DEF PadOf
  <2>2. CASE alignment = 8
    BY <1>1, <2>2 DEF PadOf
  <2> QED BY <2>1, <2>2 DEF WordAlign
<1> HIDE DEF pad
<1>3. int(size) = size /\ int(size + pad) = size + pad
  <2>1. size \in 0 .. IntMax /\ size + pad \in 0 .. IntMax
    BY <1>2, IntAssumption, HeapAssumption DEF WordAlign
  <2> QED BY <2>1, IntFits
<1>4. heap_alloc(h, size, alignment) =
        IF size <= left /\ size + pad <= left
        THEN [heap |-> [h EXCEPT !.pos = @ + (size + pad)], addr |-> h.buf + h.pos + pad]
        ELSE [heap |-> h, addr |-> NULL]
  <2>1. heap_alloc(h, size, alignment) =
          IF size <= left /\ size + pad <= left
          THEN [heap |-> [h EXCEPT !.pos = int(@ + (size + pad))], addr |-> h.buf + h.pos + pad]
          ELSE [heap |-> h, addr |-> NULL]
    <3> HIDE DEF left
    <3>1. left \in 0 .. IntMax
      BY <1>1, IntAssumption DEF left
    <3>2. int(left) = left
      BY <3>1, IntFits
    <3> QED
      BY <1>3, <3>2 DEF heap_alloc, Taken, Refused, pad, left
  <2>2. ASSUME size + pad <= left PROVE int(h.pos + (size + pad)) = h.pos + (size + pad)
    <3>1. h.pos + (size + pad) \in 0 .. IntMax
      BY <1>1, <1>2, <2>2, IntAssumption DEF WordAlign
    <3> QED
      BY <3>1, IntFits
  <2> QED
    BY <2>1, <2>2
<1>5. CASE size + pad <= left
  <2>1. heap_alloc(h, size, alignment) =
          [heap |-> [h EXCEPT !.pos = @ + (size + pad)], addr |-> h.buf + h.pos + pad]
    BY <1>1, <1>2, <1>4, <1>5, IntAssumption, HeapAssumption DEF WordAlign
  <2>2. [h EXCEPT !.pos = @ + (size + pad)] \in HeapType
    BY <1>1, <1>2, IntAssumption, HeapAssumption DEF HeapType, WordAlign
  <2> QED BY <1>1, <1>2, <1>5, <2>1, <2>2, IntAssumption, HeapAssumption DEF HeapType, WordAlign
<1>6. CASE ~ (size + pad <= left)
  <2>1. heap_alloc(h, size, alignment) = [heap |-> h, addr |-> NULL]
    BY <1>4, <1>6
  <2> QED BY <1>1, <1>2, <1>6, <2>1, IntAssumption, HeapAssumption DEF WordAlign
<1> QED BY <1>5, <1>6

-----------------------------------------------------------------------------
(* The blocks of bs lie above the header and below the position, in order. *)
Placed(h, bs) ==
  /\ \A i \in 1 .. Len(bs) :
        h.buf + HeapHeader <= bs[i].addr /\ End(bs[i]) <= h.buf + h.pos
  /\ \A i, j \in 1 .. Len(bs) : i < j => End(bs[i]) <= bs[j].addr

(* The inductive invariant: while there is a message, the position is inside
   the workspace and exactly at the end of the last block. *)
IInv ==
  /\ TypeOK
  /\ heap.pos >= HeapHeader
  /\ Placed(heap, blocks)
  /\ message = NULL <=> blocks = <<>>
  /\ message # NULL => /\ heap.buf # 0
                       /\ heap.pos <= heap.size /\ heap.size <= IntMax
                       /\ heap.buf + heap.pos = End(blocks[Len(blocks)])

(* A block taken at the position keeps all in place. *)
LEMMA PlacedAppend ==
  ASSUME NEW h \in HeapType, NEW g \in HeapType, NEW old \in Seq(BlockType),
         NEW b \in BlockType, Placed(h, old), HeapHeader <= h.pos,
         g.buf = h.buf, h.pos <= g.pos, h.buf + h.pos <= b.addr, End(b) = h.buf + g.pos
  PROVE  Placed(g, Append(old, b))
<1> DEFINE n == Len(old)
           new == Append(old, b)
           low == h.buf + HeapHeader
           top == h.buf + h.pos
           end == h.buf + g.pos
<1>1. n \in Nat /\ Len(new) = n + 1 /\ new[n + 1] = b
      /\ \A i \in 1 .. n : new[i] = old[i]
  OBVIOUS
<1>2. low \in Int /\ top \in Int /\ end \in Int /\ low <= top /\ top <= end
  BY IntAssumption, HeapAssumption DEF HeapType
<1>3. \A i \in 1 .. n : old[i] \in BlockType
  OBVIOUS
<1>4. \A i \in 1 .. n : low <= old[i].addr /\ End(old[i]) <= top
                       /\ End(old[i]) \in Int /\ old[i].addr \in Int
  BY <1>3 DEF Placed, End, BlockType
<1>5. \A i, j \in 1 .. n : i < j => End(old[i]) <= old[j].addr
  BY DEF Placed
<1>6. b.addr \in Int /\ top <= b.addr /\ End(b) = end
  BY DEF BlockType
<1> HIDE DEF n, new, low, top, end
<1>7. \A i \in 1 .. n + 1 : low <= new[i].addr /\ End(new[i]) <= end
  <2> SUFFICES ASSUME NEW i \in 1 .. n + 1 PROVE low <= new[i].addr /\ End(new[i]) <= end
    OBVIOUS
  <2>1. CASE i = n + 1
    BY <1>1, <1>2, <1>6, <2>1
  <2>2. CASE i # n + 1
    <3>1. i \in 1 .. n /\ new[i] = old[i]
      BY <1>1, <2>2
    <3>2. low <= old[i].addr /\ End(old[i]) <= top /\ End(old[i]) \in Int
      BY <1>4, <3>1
    <3>3. End(old[i]) <= end
      BY <1>2, <3>2
    <3> QED BY <3>1, <3>2, <3>3
  <2> QED BY <2>1, <2>2
<1>8. \A i, j \in 1 .. n + 1 : i < j => End(new[i]) <= new[j].addr
  <2> SUFFICES ASSUME NEW i \in 1 .. n + 1, NEW j \in 1 .. n + 1, i < j
               PROVE  End(new[i]) <= new[j].addr
    OBVIOUS
  <2>1. i \in 1 .. n /\ new[i] = old[i]
    BY <1>1
  <2>2. CASE j = n + 1
    <3>1. End(old[i]) <= top /\ End(old[i]) \in Int
      BY <1>4, <2>1
    <3>2. End(old[i]) <= b.addr
      BY <1>2, <1>6, <3>1
    <3> QED BY <1>1, <2>1, <2>2, <3>2
  <2>3. CASE j # n + 1
    <3>1. j \in 1 .. n /\ new[j] = old[j]
      BY <1>1, <2>3
    <3> QED BY <1>5, <2>1, <3>1
  <2> QED BY <2>2, <2>3
<1>9. /\ \A i \in 1 .. Len(new) : low <= new[i].addr /\ End(new[i]) <= end
      /\ \A i, j \in 1 .. Len(new) : i < j => End(new[i]) <= new[j].addr
  BY <1>1, <1>7, <1>8
<1>10. low = g.buf + HeapHeader /\ end = g.buf + g.pos
  BY DEF low, end
<1> QED BY <1>9, <1>10 DEF Placed, new

(* An allocation by any caller, on a heap that may just have been set up. *)
LEMMA AllocateStep ==
  ASSUME NEW h \in HeapType, NEW old \in Seq(BlockType),
         NEW size \in 0 .. (IntMax - WordAlign), NEW alignment \in {1, WordAlign},
         h.buf # 0, HeapHeader <= h.pos, h.pos <= h.size, h.size <= IntMax,
         Placed(h, old), Allocate(h, old, size, alignment)
  PROVE  /\ heap' \in HeapType /\ ret' \in BlockType /\ blocks' \in Seq(BlockType)
         /\ Placed(heap', blocks')
         /\ heap'.buf = h.buf /\ heap'.size = h.size
         /\ HeapHeader <= heap'.pos /\ heap'.pos <= heap'.size
         /\ ret'.size = size
         /\ \/ /\ ret'.addr # NULL /\ blocks' = Append(old, ret')
               /\ ret'.addr % alignment = 0
               /\ h.buf + h.pos <= ret'.addr
               /\ ret'.addr < h.buf + h.pos + WordAlign
               /\ heap'.buf + heap'.pos = End(ret')
            \/ /\ ret'.addr = NULL /\ blocks' = old /\ heap' = h
               /\ h.size < h.pos + size + WordAlign
<1> DEFINE r == heap_alloc(h, size, alignment)
<1>1. heap' = r.heap /\ ret' = [size |-> size, addr |-> r.addr]
      /\ blocks' = IF r.addr = NULL THEN old ELSE Append(old, ret')
  BY DEF Allocate
<1>2. \/ /\ r.addr \in Nat \ {0}
         /\ h.buf + h.pos <= r.addr
         /\ r.heap \in HeapType
         /\ r.heap.buf = h.buf /\ r.heap.size = h.size
         /\ h.pos <= r.heap.pos /\ r.heap.pos <= h.size
         /\ r.addr + size = h.buf + r.heap.pos
         /\ r.addr % alignment = 0
         /\ r.addr < h.buf + h.pos + WordAlign
      \/ /\ r.addr = NULL /\ r.heap = h
         /\ h.size < h.pos + size + WordAlign
  BY HeapAlloc, ZenonT(60)
<1> HIDE DEF r
<1>3. CASE r.addr = NULL
  BY <1>1, <1>2, <1>3 DEF BlockType
<1>4. CASE r.addr # NULL
  <2>1. ret' \in BlockType /\ blocks' = Append(old, ret') /\ End(ret') = h.buf + heap'.pos
    BY <1>1, <1>2, <1>4 DEF BlockType, End
  <2>2. blocks' \in Seq(BlockType) /\ Len(blocks') = Len(old) + 1
        /\ \A i \in 1 .. Len(old) : blocks'[i] = old[i]
        /\ blocks'[Len(old) + 1] = ret'
    BY <2>1
  <2>3. \A i \in 1 .. Len(old) : old[i] \in BlockType
    OBVIOUS
  <2>4. HeapHeader \in Nat /\ h.pos \in Nat /\ h.buf \in Nat /\ heap'.pos \in Nat
    BY <1>1, <1>2, <1>4, IntAssumption, HeapAssumption DEF HeapType
  <2>5. Placed(heap', blocks')
    <3>1. /\ heap' \in HeapType /\ heap'.buf = h.buf /\ h.pos <= heap'.pos
          /\ h.buf + h.pos <= ret'.addr /\ End(ret') = h.buf + heap'.pos
      BY <1>1, <1>2, <1>4, <2>1
    <3> QED BY <2>1, <3>1, PlacedAppend
  <2>6. /\ heap' \in HeapType /\ heap'.buf = h.buf /\ heap'.size = h.size
        /\ h.pos <= heap'.pos /\ heap'.pos <= h.size
        /\ ret'.size = size /\ ret'.addr # NULL
        /\ ret'.addr % alignment = 0 /\ h.buf + h.pos <= ret'.addr
        /\ ret'.addr < h.buf + h.pos + WordAlign
    BY <1>1, <1>2, <1>4
  <2>7. HeapHeader <= heap'.pos /\ heap'.pos <= heap'.size
    BY <2>4, <2>6
  <2> QED BY <2>1, <2>2, <2>5, <2>6, <2>7
<1> QED BY <1>3, <1>4

-----------------------------------------------------------------------------
LEMMA SizesFit ==
  /\ MessageSize \in 0 .. (IntMax - WordAlign)
  /\ \A f \in Fields, n \in Lengths : RepeatedSize(f, n) \in 0 .. (IntMax - WordAlign)
  /\ \A s \in PayloadSizes : s \in 0 .. (IntMax - WordAlign)
<1>1. MessageSize \in Sizes /\ PayloadSizes \subseteq Sizes
  BY DEF Sizes
<1>2. \A f \in Fields, n \in Lengths : RepeatedSize(f, n) \in Sizes
  BY DEF Sizes
<1> QED BY <1>1, <1>2, RequestAssumption

LEMMA InitInv == Init => IInv
  BY IntAssumption, HeapAssumption DEF Init, IInv, TypeOK, Placed, HeapType, BlockType, EmptyFields

(* Allocating for the message in use keeps the invariant, whatever is done with
   the repeated fields and the pointers to sub-messages, as long as they keep
   their type. *)
LEMMA InUseStep ==
  ASSUME IInv, MayAllocate, UNCHANGED message,
         NEW size \in 0 .. (IntMax - WordAlign), NEW alignment \in {1, WordAlign},
         Allocate(heap, blocks, size, alignment),
         repeated' \in [Fields -> [items : Nat \cup {Unset}, length : Nat]],
         sub_messages' \in SUBSET (sub_messages \cup {ret'.addr})
  PROVE  IInv'
<1>1. /\ heap \in HeapType /\ blocks \in Seq(BlockType) /\ heap.buf # 0
      /\ HeapHeader <= heap.pos /\ heap.pos <= heap.size /\ heap.size <= IntMax
      /\ Placed(heap, blocks) /\ blocks # <<>> /\ message # NULL
      /\ heap.buf + heap.pos = End(blocks[Len(blocks)])
  BY DEF IInv, TypeOK, MayAllocate
<1>2. /\ heap' \in HeapType /\ ret' \in BlockType /\ blocks' \in Seq(BlockType)
      /\ Placed(heap', blocks')
      /\ heap'.buf = heap.buf /\ heap'.size = heap.size
      /\ HeapHeader <= heap'.pos /\ heap'.pos <= heap'.size
      /\ \/ /\ ret'.addr # NULL /\ blocks' = Append(blocks, ret')
            /\ heap'.buf + heap'.pos = End(ret')
         \/ ret'.addr = NULL /\ blocks' = blocks /\ heap' = heap
  BY <1>1, AllocateStep
<1>3. blocks' # <<>> /\ heap'.buf + heap'.pos = End(blocks'[Len(blocks')])
  <2>1. CASE blocks' = Append(blocks, ret') /\ heap'.buf + heap'.pos = End(ret')
    BY <1>1, <2>1
  <2>2. CASE blocks' = blocks /\ heap' = heap
    BY <1>1, <2>2
  <2> QED BY <1>2, <2>1, <2>2
<1>4. TypeOK'
  <2>1. sub_messages' \subseteq Nat
    BY <1>2 DEF TypeOK, IInv, BlockType
  <2> QED BY <1>2, <2>1 DEF TypeOK, IInv
<1>5. heap'.pos >= HeapHeader /\ heap'.buf # 0 /\ heap'.size <= IntMax
  BY <1>1, <1>2, IntAssumption, HeapAssumption DEF HeapType
<1> QED BY <1>1, <1>2, <1>3, <1>4, <1>5 DEF IInv

LEMMA NextInv == IInv /\ [Next]_vars => IInv'
<1> SUFFICES ASSUME IInv, [Next]_vars PROVE IInv'
  OBVIOUS
<1>1. CASE UNCHANGED vars
  BY <1>1 DEF IInv, TypeOK, Placed, vars
<1>2. ASSUME NEW w \in Workspaces, MessageNewRefused(w) PROVE IInv'
  BY <1>2, IntAssumption, HeapAssumption DEF MessageNewRefused, IInv, TypeOK, Placed, BlockType, HeapType
<1>3. ASSUME NEW w \in Workspaces, pbtools_message_new(w) PROVE IInv'
  <2> DEFINE h == heap_new(w.buf, w.size)
  <2>1. w.buf \in Nat \ {0} /\ w.size \in 0 .. IntMax /\ w.size >= HeapHeader
    BY <1>3, RequestAssumption DEF pbtools_message_new
  <2>2. h = [buf |-> w.buf, size |-> w.size, pos |-> HeapHeader]
    BY <2>1, IntFits DEF heap_new
  <2>3. /\ h \in HeapType /\ h.buf # 0 /\ HeapHeader <= h.pos
        /\ h.pos <= h.size /\ h.size <= IntMax
    BY <2>1, <2>2, IntAssumption, HeapAssumption DEF HeapType
  <2>4. <<>> \in Seq(BlockType) /\ Placed(h, <<>>)
    BY DEF Placed
  <2>5. Allocate(h, <<>>, MessageSize, WordAlign) /\ message' = ret'.addr
        /\ repeated' = EmptyFields /\ sub_messages' = {}
    BY <1>3 DEF pbtools_message_new
  <2> HIDE DEF h
  <2>6. /\ heap' \in HeapType /\ ret' \in BlockType /\ blocks' \in Seq(BlockType)
        /\ Placed(heap', blocks')
        /\ heap'.buf = h.buf /\ heap'.size = h.size
        /\ HeapHeader <= heap'.pos /\ heap'.pos <= heap'.size
        /\ \/ /\ ret'.addr # NULL /\ blocks' = Append(<<>>, ret')
              /\ heap'.buf + heap'.pos = End(ret')
           \/ ret'.addr = NULL /\ blocks' = <<>> /\ heap' = h
    BY <2>3, <2>4, <2>5, SizesFit, AllocateStep
  <2>7. message' = NULL <=> blocks' = <<>>
    <3>1. CASE ret'.addr = NULL
      BY <2>5, <2>6, <3>1
    <3>2. CASE ret'.addr # NULL
      <4>1. blocks' = <<ret'>>
        BY <2>6, <3>2
      <4>2. blocks' # <<>>
        BY <4>1
      <4>3. message' # NULL
        BY <2>5, <3>2
      <4> QED BY <4>2, <4>3
    <3> QED BY <3>1, <3>2
  <2>8. message' # NULL => heap'.buf + heap'.pos = End(blocks'[Len(blocks')])
    <3>1. CASE ret'.addr = NULL
      BY <2>5, <3>1
    <3>2. CASE ret'.addr # NULL
      <4>1. blocks' = <<ret'>> /\ heap'.buf + heap'.pos = End(ret')
        BY <2>6, <3>2
      <4>2. blocks'[Len(blocks')] = ret'
        BY <4>1
      <4> QED BY <4>1, <4>2
    <3> QED BY <3>1, <3>2
  <2>9. TypeOK'
    BY <2>5, <2>6 DEF TypeOK, EmptyFields, BlockType
  <2> QED BY <2>3, <2>6, <2>7, <2>8, <2>9, IntAssumption, HeapAssumption DEF IInv, HeapType
<1>4. ASSUME pbtools_sub_message_alloc PROVE IInv'
  <2>1. repeated' \in [Fields -> [items : Nat \cup {Unset}, length : Nat]]
    BY <1>4 DEF pbtools_sub_message_alloc, IInv, TypeOK
  <2> QED BY <1>4, <2>1, SizesFit, InUseStep DEF pbtools_sub_message_alloc
<1>5. ASSUME NEW f \in Fields, NEW n \in Lengths, pbtools_alloc_repeated(f, n) PROVE IInv'
  <2>1. Allocate(heap, blocks, RepeatedSize(f, n), WordAlign) /\ MayAllocate
        /\ UNCHANGED <<message, sub_messages>>
    BY <1>5 DEF pbtools_alloc_repeated
  <2>2. ret'.addr \in Nat
    BY <2>1, SizesFit, AllocateStep DEF IInv, TypeOK, MayAllocate, BlockType
  <2>3. repeated' \in [Fields -> [items : Nat \cup {Unset}, length : Nat]]
    BY <1>5, <2>2, RequestAssumption DEF pbtools_alloc_repeated, IInv, TypeOK
  <2> QED BY <2>1, <2>3, SizesFit, InUseStep
<1>6. ASSUME NEW size \in PayloadSizes, decoder_read_payload(size) PROVE IInv'
  <2>1. repeated' \in [Fields -> [items : Nat \cup {Unset}, length : Nat]]
    BY <1>6 DEF decoder_read_payload, IInv, TypeOK
  <2> QED BY <1>6, <2>1, SizesFit, InUseStep DEF decoder_read_payload
<1> QED BY <1>1, <1>2, <1>3, <1>4, <1>5, <1>6 DEF Next

(* The allocator's state always has its type. *)
THEOREM HeapTypeOK == Spec => []TypeOK
<1>1. IInv => TypeOK
  BY DEF IInv
<1> QED BY <1>1, InitInv, NextInv, PTL DEF Spec

(* No two blocks share a byte, none touches the header, all are inside. *)
THEOREM HeapBlocksDisjoint == Spec => []BlocksDisjoint
<1>1. IInv => BlocksDisjoint
  <2> SUFFICES ASSUME IInv, blocks # <<>> PROVE BlocksDisjoint
    BY DEF BlocksDisjoint, IInv, TypeOK
  <2>1. heap.buf \in Nat /\ heap.pos \in Nat /\ heap.size \in Nat /\ heap.pos <= heap.size
    BY DEF IInv, TypeOK, HeapType
  <2>2. \A i \in 1 .. Len(blocks) : End(blocks[i]) \in Nat
    <3>1. \A i \in 1 .. Len(blocks) : blocks[i] \in BlockType
      BY DEF IInv, TypeOK
    <3> QED BY <3>1 DEF BlockType, End
  <2> QED BY <2>1, <2>2 DEF BlocksDisjoint, IInv, Placed, Limit
<1> QED BY <1>1, InitInv, NextInv, PTL DEF Spec
-----------------------------------------------------------------------------
Granted == {blocks[i] : i \in 1 .. Len(blocks)}

(* One allocation for the message in use is a Grant or a Refuse. *)
LEMMA InUseArena ==
  ASSUME IInv, MayAllocate,
         NEW size \in 0 .. (IntMax - WordAlign), NEW alignment \in {1, WordAlign},
         size \in Sizes, Allocate(heap, blocks, size, alignment)
  PROVE  A!Grant \/ A!Refuse
<1>1. /\ heap \in HeapType /\ blocks \in Seq(BlockType) /\ heap.buf # 0
      /\ HeapHeader <= heap.pos /\ heap.pos <= heap.size /\ heap.size <= IntMax
      /\ Placed(heap, blocks) /\ blocks # <<>>
      /\ heap.buf + heap.pos = End(blocks[Len(blocks)])
  BY DEF IInv, TypeOK, MayAllocate
<1>2. /\ heap' \in HeapType /\ ret' \in BlockType
      /\ heap'.buf = heap.buf /\ heap'.size = heap.size
      /\ heap'.pos <= heap'.size
      /\ ret'.size = size
      /\ \/ /\ ret'.addr # NULL /\ blocks' = Append(blocks, ret')
            /\ heap.buf + heap.pos <= ret'.addr
            /\ heap'.buf + heap'.pos = End(ret')
         \/ /\ ret'.addr = NULL /\ blocks' = blocks /\ heap' = heap
            /\ heap.size < heap.pos + size + WordAlign
  BY <1>1, AllocateStep
<1>3. /\ heap.buf \in Nat /\ heap.pos \in Nat /\ heap.size \in Nat /\ HeapHeader \in Nat
      /\ ret'.addr \in Nat /\ ret'.size \in Nat /\ heap'.pos \in Nat
  BY <1>1, <1>2, IntAssumption, HeapAssumption DEF HeapType, BlockType
<1>4. \A b \in Granted : b \in BlockType /\ End(b) <= heap.buf + heap.pos
  BY <1>1 DEF Granted, Placed
<1>5. heap'.buf + HeapHeader = heap.buf + HeapHeader /\ Limit' = Limit
  BY <1>2 DEF Limit
<1>6. CASE ret'.addr # NULL
  <2>1. blocks' = Append(blocks, ret') /\ heap.buf + heap.pos <= ret'.addr
        /\ heap'.buf + heap'.pos = End(ret')
    BY <1>2, <1>6
  <2>2. Granted' = Granted \cup {ret'}
    <3>1. /\ Len(blocks') = Len(blocks) + 1 /\ Len(blocks) \in Nat
          /\ \A i \in 1 .. Len(blocks) : blocks'[i] = blocks[i]
          /\ blocks'[Len(blocks) + 1] = ret'
      BY <1>1, <2>1
    <3>2. 1 .. (Len(blocks) + 1) = (1 .. Len(blocks)) \cup {Len(blocks) + 1}
      BY <3>1
    <3> QED BY <3>1, <3>2 DEF Granted
  <2>3. A!Fits(ret')
    <3>0. HeapHeader <= heap.pos /\ heap.buf + heap.pos <= ret'.addr
      BY <1>1, <2>1
    <3>1. heap.buf + HeapHeader <= ret'.addr /\ HeapHeader <= heap.pos
      BY <1>3, <3>0
    <3>2. ret'.addr + ret'.size = heap.buf + heap'.pos
      BY <1>2, <2>1 DEF End
    <3>3. heap'.pos <= heap.size
      BY <1>2
    <3>4. heap.buf + heap'.pos <= heap.buf + heap.size
      BY <1>3, <3>3
    <3> QED BY <3>1, <3>2, <3>4 DEF A!Fits, Limit
  <2>4. \A b \in Granted : ~ A!Overlap(ret', b)
    BY <1>3, <1>4, <2>1 DEF A!Overlap, End, BlockType
  <2> QED BY <1>2, <1>5, <1>6, <2>2, <2>3, <2>4 DEF A!Grant, Granted
<1>7. CASE ret'.addr = NULL
  <2>1. blocks' = blocks /\ heap.size < heap.pos + size + WordAlign
    BY <1>2, <1>7
  <2> DEFINE last == blocks[Len(blocks)]
  <2>2. last \in Granted /\ last.addr + last.size = heap.buf + heap.pos
    BY <1>1 DEF Granted, End
  <2>3. Limit < last.addr + last.size + ret'.size + WordAlign
    <3>1. ret'.size = size
      BY <1>2
    <3> HIDE DEF last
    <3>2. heap.buf + heap.size < (heap.buf + heap.pos) + ret'.size + WordAlign
      BY <1>3, <2>1, <3>1 DEF WordAlign
    <3> QED BY <2>2, <3>2 DEF Limit
  <2>4. \A b \in Granted : b.addr + b.size <= last.addr + last.size
    BY <1>4, <2>2 DEF End
  <2>5. Granted' = Granted
    BY <2>1 DEF Granted
  <2> HIDE DEF last
  <2>6. \E top \in {heap.buf + HeapHeader} \cup {b.addr + b.size : b \in Granted} :
            /\ \A b \in Granted : b.addr + b.size <= top
            /\ Limit < top + ret'.size + WordAlign
    BY <2>2, <2>3, <2>4
  <2> QED BY <1>2, <1>5, <1>7, <2>5, <2>6 DEF A!Refuse, Granted
<1> QED BY <1>6, <1>7

LEMMA NextArena == IInv /\ IInv' /\ [Next]_vars => [A!Next]_(A!arenaVars)
<1> SUFFICES ASSUME IInv, IInv', [Next]_vars PROVE [A!Next]_(A!arenaVars)
  OBVIOUS
<1>0. /\ (heap.buf + HeapHeader)' \in Nat /\ Limit' \in Nat
      /\ heap.buf \in Nat /\ HeapHeader \in Nat
  <2>1. heap'.buf \in Nat /\ heap'.size \in Nat /\ heap.buf \in Nat
    BY DEF IInv, TypeOK, HeapType
  <2> QED BY <2>1, IntAssumption, HeapAssumption DEF Limit
<1>1. CASE UNCHANGED vars
  BY <1>1 DEF vars, A!arenaVars, Limit
<1>2. ASSUME NEW w \in Workspaces, MessageNewRefused(w) PROVE A!Reset
  <2>1. blocks' = <<>> /\ ret'.addr = 0
    BY <1>2 DEF MessageNewRefused
  <2>2. Granted' = {}
    BY <2>1 DEF Granted
  <2> QED BY <1>0, <2>1, <2>2 DEF A!Reset, Granted
<1>3. ASSUME NEW w \in Workspaces, pbtools_message_new(w) PROVE A!Reset
  <2>1. message' = ret'.addr
        /\ (ret'.addr = NULL => blocks' = <<>>)
        /\ (ret'.addr # NULL => blocks' = <<ret'>>)
    BY <1>3 DEF pbtools_message_new, Allocate
  <2>2. CASE ret'.addr = NULL
    <3>1. Granted' = {}
      BY <2>1, <2>2 DEF Granted
    <3> QED BY <1>0, <2>2, <3>1 DEF A!Reset, Granted
  <2>3. CASE ret'.addr # NULL
    <3>1. Granted' = {ret'}
      BY <2>1, <2>3 DEF Granted
    <3>2. blocks' = <<ret'>> /\ heap'.buf + HeapHeader <= blocks'[1].addr
          /\ End(blocks'[1]) <= Limit'
      <4>1. heap'.pos <= heap'.size /\ heap'.buf \in Nat
            /\ heap'.pos \in Nat /\ heap'.size \in Nat
        BY <2>1, <2>3 DEF IInv, TypeOK, HeapType
      <4>2. blocks' = <<ret'>> /\ Len(blocks') = 1 /\ 1 \in 1 .. Len(blocks')
        BY <2>1, <2>3
      <4>3. heap'.buf + HeapHeader <= blocks'[1].addr
            /\ End(blocks'[1]) <= heap'.buf + heap'.pos
        BY <4>2 DEF IInv, Placed
      <4>4. End(blocks'[1]) \in Nat
        BY <4>2 DEF IInv, TypeOK, BlockType, End
      <4> QED BY <4>1, <4>2, <4>3, <4>4 DEF Limit
    <3> QED BY <1>0, <3>1, <3>2 DEF A!Reset, Granted, End
  <2> QED BY <2>2, <2>3
<1>4. ASSUME pbtools_sub_message_alloc PROVE A!Grant \/ A!Refuse
  <2>1. MessageSize \in Sizes
    BY DEF Sizes
  <2> QED BY <1>4, <2>1, SizesFit, InUseArena DEF pbtools_sub_message_alloc
<1>5. ASSUME NEW f \in Fields, NEW n \in Lengths, pbtools_alloc_repeated(f, n)
      PROVE A!Grant \/ A!Refuse
  <2>1. RepeatedSize(f, n) \in Sizes
    BY DEF Sizes
  <2> QED BY <1>5, <2>1, SizesFit, InUseArena DEF pbtools_alloc_repeated
<1>6. ASSUME NEW size \in PayloadSizes, decoder_read_payload(size)
      PROVE A!Grant \/ A!Refuse
  <2>1. size \in Sizes
    BY DEF Sizes
  <2> QED BY <1>6, <2>1, SizesFit, InUseArena DEF decoder_read_payload
<1> QED BY <1>1, <1>2, <1>3, <1>4, <1>5, <1>6 DEF Next, A!Next

(* Whatever callers do, the bump allocator with its header inside the workspace
   behaves as the abstract arena. *)
THEOREM HeapImplementsArena == Spec => ImplementsArena
<1>1. Init => A!Init
  <2> SUFFICES ASSUME Init PROVE A!Init
    OBVIOUS
  <2>1. Granted = {} /\ heap.buf + HeapHeader \in Nat /\ Limit \in Nat /\ ret.addr = 0
    BY IntAssumption, HeapAssumption DEF Init, Granted, Limit
  <2> QED BY <2>1 DEF A!Init, Granted
<1> QED BY <1>1, InitInv, NextInv, NextArena, PTL DEF Spec, A!Spec, ImplementsArena
-----------------------------------------------------------------------------
(* The blocks of bs with at most seven bytes before each, from base on. *)
Tight(base, bs) ==
  \A i \in 1 .. Len(bs) :
    bs[i].addr < (IF i = 1 THEN base ELSE End(bs[i - 1])) + WordAlign

(* What callers can rely on beside IInv. *)
CallersInv ==
  /\ Tight(heap.buf + HeapHeader, blocks)
  /\ FieldsBacked
  /\ MessagesAligned

LEMMA TightAppend ==
  ASSUME NEW base \in Nat, NEW old \in Seq(BlockType), NEW b \in BlockType, Tight(base, old),
         b.addr < (IF old = <<>> THEN base ELSE End(old[Len(old)])) + WordAlign
  PROVE  Tight(base, Append(old, b))
<1> DEFINE n == Len(old)
           new == Append(old, b)
<1>1. n \in Nat /\ Len(new) = n + 1 /\ new[n + 1] = b
      /\ (\A i \in 1 .. n : new[i] = old[i]) /\ (old = <<>> <=> n = 0)
  OBVIOUS
<1>2. b.addr < (IF n = 0 THEN base ELSE End(old[n])) + WordAlign
  BY <1>1
<1>3. \A i \in 1 .. n : old[i].addr < (IF i = 1 THEN base ELSE End(old[i - 1])) + WordAlign
  BY DEF Tight
<1> HIDE DEF n, new
<1>4. \A i \in 1 .. n + 1 : new[i].addr < (IF i = 1 THEN base ELSE End(new[i - 1])) + WordAlign
  <2> SUFFICES ASSUME NEW i \in 1 .. n + 1
               PROVE  new[i].addr < (IF i = 1 THEN base ELSE End(new[i - 1])) + WordAlign
    OBVIOUS
  <2>1. i # 1 => new[i - 1] = old[i - 1]
    BY <1>1
  <2>2. CASE i = n + 1
    <3>1. n = 0 <=> i = 1
      BY <1>1, <2>2
    <3>2. n # 0 => new[i - 1] = old[n]
      BY <1>1, <2>1, <2>2
    <3> QED BY <1>1, <1>2, <2>2, <3>1, <3>2
  <2>3. CASE i # n + 1
    <3>1. i \in 1 .. n /\ new[i] = old[i]
      BY <1>1, <2>3
    <3> QED BY <1>3, <2>1, <3>1
  <2> QED BY <2>2, <2>3
<1> QED BY <1>1, <1>4 DEF Tight, new

(* The blocks there were are still there, and the new one is the last. *)
LEMMA InUseCallers ==
  ASSUME IInv, CallersInv, MayAllocate,
         NEW size \in 0 .. (IntMax - WordAlign), NEW alignment \in {1, WordAlign},
         Allocate(heap, blocks, size, alignment)
  PROVE  /\ Tight(heap'.buf + HeapHeader, blocks')
         /\ \A i \in 1 .. Len(blocks) : i \in 1 .. Len(blocks') /\ blocks'[i] = blocks[i]
         /\ ret'.addr # NULL =>
              /\ ret'.addr % alignment = 0
              /\ Len(blocks') \in 1 .. Len(blocks')
              /\ blocks'[Len(blocks')] = [addr |-> ret'.addr, size |-> size]
<1>1. /\ heap \in HeapType /\ blocks \in Seq(BlockType) /\ heap.buf # 0
      /\ HeapHeader <= heap.pos /\ heap.pos <= heap.size /\ heap.size <= IntMax
      /\ Placed(heap, blocks) /\ blocks # <<>>
      /\ heap.buf + heap.pos = End(blocks[Len(blocks)])
  BY DEF IInv, TypeOK, MayAllocate
<1>2. /\ ret' \in BlockType /\ heap'.buf = heap.buf /\ ret'.size = size
      /\ \/ /\ ret'.addr # NULL /\ blocks' = Append(blocks, ret')
            /\ ret'.addr % alignment = 0
            /\ ret'.addr < heap.buf + heap.pos + WordAlign
         \/ ret'.addr = NULL /\ blocks' = blocks
  BY <1>1, AllocateStep
<1>3. heap.buf + HeapHeader \in Nat
  BY <1>1, HeapAssumption, IntAssumption DEF HeapType
<1>4. CASE ret'.addr = NULL
  BY <1>1, <1>2, <1>4 DEF CallersInv
<1>5. CASE ret'.addr # NULL
  <2>1. Tight(heap.buf + HeapHeader, Append(blocks, ret'))
    <3>1. Tight(heap.buf + HeapHeader, blocks)
      BY DEF CallersInv
    <3>2. ret'.addr < (IF blocks = <<>> THEN heap.buf + HeapHeader ELSE End(blocks[Len(blocks)])) + WordAlign
      BY <1>1, <1>2, <1>5
    <3> QED BY <1>1, <1>2, <1>3, <3>1, <3>2, TightAppend
  <2>2. ret' = [addr |-> ret'.addr, size |-> size]
    BY <1>2 DEF BlockType
  <2>3. /\ Len(blocks') = Len(blocks) + 1 /\ Len(blocks) \in Nat
        /\ \A i \in 1 .. Len(blocks) : blocks'[i] = blocks[i]
        /\ blocks'[Len(blocks) + 1] = ret'
    BY <1>1, <1>2, <1>5
  <2>4. Tight(heap'.buf + HeapHeader, blocks')
    BY <1>2, <1>5, <2>1
  <2>5. \A i \in 1 .. Len(blocks) : i \in 1 .. Len(blocks') /\ blocks'[i] = blocks[i]
    BY <2>3
  <2>6. Len(blocks') \in 1 .. Len(blocks') /\ blocks'[Len(blocks')] = ret'
    BY <2>3
  <2> QED BY <1>2, <1>5, <2>2, <2>4, <2>5, <2>6
<1> QED BY <1>4, <1>5

(* What FieldsBacked says of one field, with the blocks bs. *)
Backed(f, field, bs) ==
  /\ field.items \notin {NULL, Unset} =>
       \E i \in 1 .. Len(bs) :
         bs[i] = [addr |-> field.items, size |-> RepeatedSize(f, field.length)]
  /\ field.items = Unset => field.length = 0
  /\ field.length # 0 =>
       \E i \in 1 .. Len(bs) : bs[i].size = RepeatedSize(f, field.length)

LEMMA BackedFields ==
  FieldsBacked <=> (message # NULL => \A f \in Fields : Backed(f, repeated[f], blocks))
BY DEF FieldsBacked, Backed, HasBlock

LEMMA BackedLonger ==
  ASSUME NEW f, NEW field, NEW bs, NEW new, Backed(f, field, bs),
         \A i \in 1 .. Len(bs) : i \in 1 .. Len(new) /\ new[i] = bs[i]
  PROVE  Backed(f, field, new)
<1>1. ASSUME NEW size, \E i \in 1 .. Len(bs) : bs[i].size = size
      PROVE  \E i \in 1 .. Len(new) : new[i].size = size
  BY <1>1
<1>2. ASSUME NEW b, \E i \in 1 .. Len(bs) : bs[i] = b PROVE \E i \in 1 .. Len(new) : new[i] = b
  BY <1>2
<1> QED BY <1>1, <1>2 DEF Backed

(* A step that leaves the repeated fields and the message alone. *)
LEMMA SameFields ==
  ASSUME IInv, CallersInv, MayAllocate, UNCHANGED <<message, repeated>>,
         NEW size \in 0 .. (IntMax - WordAlign), NEW alignment \in {1, WordAlign},
         Allocate(heap, blocks, size, alignment),
         \A address \in sub_messages' : address \in sub_messages \/ address % WordAlign = 0
  PROVE  CallersInv'
<1>1. Tight(heap'.buf + HeapHeader, blocks')
      /\ \A i \in 1 .. Len(blocks) : i \in 1 .. Len(blocks') /\ blocks'[i] = blocks[i]
  BY InUseCallers
<1>2. \A f \in Fields : Backed(f, repeated[f], blocks)
  BY BackedFields DEF CallersInv, MayAllocate
<1>3. \A f \in Fields : Backed(f, repeated[f], blocks')
  BY <1>1, <1>2, BackedLonger
<1>4. FieldsBacked'
  BY <1>3 DEF FieldsBacked, Backed, HasBlock
<1>5. MessagesAligned'
  BY DEF CallersInv, MessagesAligned
<1> QED BY <1>1, <1>4, <1>5 DEF CallersInv

LEMMA AlignedNull == NULL % WordAlign = 0
BY DEF WordAlign

LEMMA CallersStart == Init => CallersInv
BY AlignedNull DEF Init, CallersInv, Tight, FieldsBacked, MessagesAligned, EmptyFields

LEMMA CallersNext == IInv /\ CallersInv /\ [Next]_vars => CallersInv'
<1> SUFFICES ASSUME IInv, CallersInv, [Next]_vars PROVE CallersInv'
  OBVIOUS
<1>1. CASE UNCHANGED vars
  BY <1>1 DEF CallersInv, Tight, FieldsBacked, HasBlock, MessagesAligned, vars
<1>2. ASSUME NEW w \in Workspaces, MessageNewRefused(w) PROVE CallersInv'
  BY <1>2, AlignedNull DEF MessageNewRefused, CallersInv, Tight, FieldsBacked, MessagesAligned
<1>3. ASSUME NEW w \in Workspaces, pbtools_message_new(w) PROVE CallersInv'
  <2> DEFINE h == heap_new(w.buf, w.size)
  <2>1. w.buf \in Nat \ {0} /\ w.size \in 0 .. IntMax /\ w.size >= HeapHeader
    BY <1>3, RequestAssumption DEF pbtools_message_new
  <2>2. h = [buf |-> w.buf, size |-> w.size, pos |-> HeapHeader]
    BY <2>1, IntFits DEF heap_new
  <2>3. /\ h \in HeapType /\ h.buf # 0 /\ HeapHeader = h.pos
        /\ h.pos <= h.size /\ h.size <= IntMax /\ HeapHeader \in Nat
    BY <2>1, <2>2, IntAssumption, HeapAssumption DEF HeapType
  <2>4. <<>> \in Seq(BlockType) /\ Placed(h, <<>>) /\ HeapHeader <= h.pos
    BY <2>3 DEF Placed
  <2>5. Allocate(h, <<>>, MessageSize, WordAlign) /\ message' = ret'.addr
        /\ repeated' = EmptyFields /\ sub_messages' = {}
    BY <1>3 DEF pbtools_message_new
  <2> HIDE DEF h
  <2>6. /\ ret' \in BlockType /\ heap'.buf = h.buf
        /\ \/ /\ ret'.addr # NULL /\ blocks' = Append(<<>>, ret')
              /\ ret'.addr % WordAlign = 0
              /\ ret'.addr < h.buf + h.pos + WordAlign
           \/ ret'.addr = NULL /\ blocks' = <<>>
    BY <2>3, <2>4, <2>5, SizesFit, AllocateStep
  <2>7. Tight(heap'.buf + HeapHeader, blocks')
    <3>1. CASE ret'.addr = NULL
      BY <2>6, <3>1 DEF Tight
    <3>2. CASE ret'.addr # NULL
      <4>1. blocks' = <<ret'>> /\ ret'.addr < heap'.buf + HeapHeader + WordAlign
        BY <2>3, <2>6, <3>2
      <4> QED BY <4>1 DEF Tight
    <3> QED BY <3>1, <3>2
  <2>8. FieldsBacked'
    BY <2>5 DEF FieldsBacked, EmptyFields
  <2>9. MessagesAligned'
    BY <2>5, <2>6, AlignedNull DEF MessagesAligned, EmptyFields
  <2> QED BY <2>7, <2>8, <2>9 DEF CallersInv
<1>4. ASSUME pbtools_sub_message_alloc PROVE CallersInv'
  <2>1. Allocate(heap, blocks, MessageSize, WordAlign) /\ MayAllocate
        /\ sub_messages' = sub_messages \cup ({ret'.addr} \ {NULL})
        /\ UNCHANGED <<message, repeated>>
    BY <1>4 DEF pbtools_sub_message_alloc
  <2>2. ret'.addr # NULL => ret'.addr % WordAlign = 0
    BY <2>1, SizesFit, InUseCallers
  <2> QED BY <2>1, <2>2, SizesFit, SameFields
<1>5. ASSUME NEW f \in Fields, NEW n \in Lengths, pbtools_alloc_repeated(f, n) PROVE CallersInv'
  <2>1. /\ Allocate(heap, blocks, RepeatedSize(f, n), WordAlign) /\ MayAllocate
        /\ UNCHANGED <<message, sub_messages>>
        /\ repeated' = [repeated EXCEPT ![f].items = ret'.addr,
                                        ![f].length = IF ret'.addr = NULL THEN @ ELSE n]
    BY <1>5 DEF pbtools_alloc_repeated
  <2>2. /\ Tight(heap'.buf + HeapHeader, blocks')
        /\ \A i \in 1 .. Len(blocks) : i \in 1 .. Len(blocks') /\ blocks'[i] = blocks[i]
        /\ ret'.addr # NULL =>
             /\ ret'.addr % WordAlign = 0
             /\ Len(blocks') \in 1 .. Len(blocks')
             /\ blocks'[Len(blocks')] = [addr |-> ret'.addr, size |-> RepeatedSize(f, n)]
    BY <2>1, SizesFit, InUseCallers
  <2>3. /\ \A g \in Fields \ {f} : repeated'[g] = repeated[g]
        /\ repeated'[f].items = ret'.addr
        /\ repeated'[f].length = IF ret'.addr = NULL THEN repeated[f].length ELSE n
    BY <2>1 DEF IInv, TypeOK
  <2>4. FieldsBacked'
    <3>1. \A g \in Fields : Backed(g, repeated[g], blocks)
      BY <2>1, BackedFields DEF CallersInv, MayAllocate
    <3>2. ASSUME NEW g \in Fields PROVE Backed(g, repeated'[g], blocks')
      <4>1. CASE g # f
        BY <2>2, <2>3, <3>1, <4>1, BackedLonger
      <4>2. CASE g = f /\ ret'.addr = NULL
        <5>1. Backed(g, repeated[g], blocks')
          BY <2>2, <3>1, BackedLonger
        <5> QED BY <2>3, <4>2, <5>1 DEF Backed, Unset
      <4>3. CASE g = f /\ ret'.addr # NULL
        <5>1. ret'.addr \in Nat
          BY NextInv DEF IInv, TypeOK, BlockType
        <5>2. repeated'[f].items # Unset
          BY <2>3, <5>1 DEF Unset
        <5>3. blocks'[Len(blocks')].size = RepeatedSize(f, n)
          BY <2>2, <4>3
        <5> QED BY <2>2, <2>3, <4>3, <5>2, <5>3 DEF Backed
      <4> QED BY <4>1, <4>2, <4>3
    <3> QED BY <3>2 DEF FieldsBacked, Backed, HasBlock
  <2>5. MessagesAligned'
    <3>1. message' % WordAlign = 0
      BY <2>1 DEF CallersInv, MessagesAligned
    <3>2. \A g \in Fields : repeated'[g].items # Unset => repeated'[g].items % WordAlign = 0
      BY <2>2, <2>3, AlignedNull DEF CallersInv, MessagesAligned
    <3>3. \A address \in sub_messages' : address % WordAlign = 0
      BY <2>1 DEF CallersInv, MessagesAligned
    <3> QED BY <3>1, <3>2, <3>3 DEF MessagesAligned
  <2> QED BY <2>2, <2>4, <2>5 DEF CallersInv
<1>6. ASSUME NEW size \in PayloadSizes, decoder_read_payload(size) PROVE CallersInv'
  BY <1>6, SizesFit, SameFields DEF decoder_read_payload
<1> QED BY <1>1, <1>2, <1>3, <1>4, <1>5, <1>6 DEF Next

LEMMA CallersInvariant == Spec => [](IInv /\ CallersInv)
<1>1. Init => IInv /\ CallersInv
  BY InitInv, CallersStart
<1>2. (IInv /\ CallersInv) /\ [Next]_vars => (IInv /\ CallersInv)'
  BY NextInv, CallersNext
<1> QED BY <1>1, <1>2, PTL DEF Spec

(* An allocation costs its size and at most seven bytes, in every workspace. *)
THEOREM HeapNoWaste == Spec => []NoWaste
<1>1. IInv /\ CallersInv => NoWaste
  <2> SUFFICES ASSUME IInv, CallersInv PROVE NoWaste
    OBVIOUS
  <2>1. message # NULL => heap.buf + heap.pos = End(blocks[Len(blocks)])
    BY DEF IInv
  <2> QED BY <2>1 DEF CallersInv, Tight, NoWaste
<1> QED BY <1>1, CallersInvariant, PTL

(* Through any mix of refused and successful requests a repeated field has items
   and length of one block granted for it, or was never given any, or, after a
   refusal, has no items and the length of a block it was given before. *)
THEOREM HeapFieldsBacked == Spec => []FieldsBacked
<1>1. IInv /\ CallersInv => FieldsBacked
  BY DEF CallersInv
<1> QED BY <1>1, CallersInvariant, PTL

(* The message, all sub-messages and all items are aligned, wherever the
   workspace starts. *)
THEOREM HeapMessagesAligned == Spec => []MessagesAligned
<1>1. IInv /\ CallersInv => MessagesAligned
  BY DEF CallersInv
<1> QED BY <1>1, CallersInvariant, PTL
=============================================================================
