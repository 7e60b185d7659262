-------------------------------- MODULE XvMem -------------------------------
(***************************************************************************)
(* The allocator of a memory bank (TileManager/src/tmUtils.c): a free list *)
(* in address order, an allocated list, and a bounded array of block       *)
(* headers of which a bit vector tells the unused ones.  Blocks are        *)
(* numbers, the links of a list are the order of a sequence, and the       *)
(* sentinels its ends.  Only a block's fields that are read are kept.      *)
(***************************************************************************)
EXTENDS Integers, Sequences, SequencesExt, FiniteSetsExt

CONSTANTS
  NumBlocks,      \* XVMEM_HEAP3_DEFAULT_NUM_BLOCKS
  OwnHeader,      \* the headers are not in the pool: xvmem_init has a header
  HeaderSize,     \* bytes they take of the pool otherwise
  PoolStart, PoolSize,
  MinAlloc,       \* XVMEM_HEAP3_MIN_ALLOC_SIZE
  Width,          \* bits of a counter
  Sizes, Aligns   \* what callers ask for

ASSUME PoolAssumption ==
  /\ NumBlocks \in Nat /\ NumBlocks > 1
  /\ {HeaderSize, PoolStart, PoolSize, MinAlloc, Width} \subseteq Nat
  /\ OwnHeader \in BOOLEAN
  /\ HeaderSize > 0 /\ MinAlloc > 0
  \* xvInitMemAllocator refuses an empty pool; xvmem_init wants room for a
  \* block beyond the headers that are in the pool.
  /\ PoolSize > 0 /\ (OwnHeader \/ PoolSize >= HeaderSize + MinAlloc)
  \* xvAllocateBuffer asks for bytes; xvmem_alloc wants a power of two.
  /\ Sizes \subseteq Nat \ {0}
  /\ Aligns \subseteq Nat \ {0} /\ \A align \in Aligns : \E p \in 0 .. align : 2^p = align

VARIABLES
  blocks,         \* _blocks: size, buffer and aligned buffer of each
  freeList,       \* blocks from _free_list_head to _free_list_tail
  allocList,      \* blocks from _alloc_list_head on
  freeHeaders,    \* _block_free_bitvec: the bits that are set
  freeBytes, allocatedBytes, unusedBytes,
  held            \* history: the buffers callers have, as they asked for them

counters == <<freeBytes, allocatedBytes, unusedBytes>>
memVars == <<blocks, freeList, allocList, freeHeaders, counters, held>>

Headers == 0 .. NumBlocks - 1
Wrap(n) == n % 2^Width

Block(at, size) == [buffer |-> at, size |-> size, aligned |-> at]
End(b) == blocks[b].buffer + blocks[b].size

\* Mutation: the bit is cleared.
ClearBit(bits, positions) == bits \ positions

\* xvmem_toggle_bitvec: the bits are negated, whatever they are.
Toggle(bits, positions) == SymDiff(bits, positions)

\* leading_zero_count of the bit vector from its start.
FirstFreeHeader == IF freeHeaders = {} THEN NumBlocks
                   ELSE CHOOSE b \in freeHeaders : \A c \in freeHeaders : b <= c

\* xvmem_find_msbit of a power of two.
Log2(n) == CHOOSE p \in 0 .. n : 2^p = n

\* xvmem_compute_new_size: the padding that aligns the block, and the size.
NewSize(b, size, align) ==
  LET p == Log2(align)
      aligned == ((b.buffer + align - 1) \div 2^p) * 2^p
  IN  size + aligned - b.buffer

-----------------------------------------------------------------------------
MemInit ==
  /\ blocks = [b \in Headers |->
       CASE b = 0 -> Block(PoolStart, IF OwnHeader THEN PoolSize ELSE HeaderSize)
         [] b = 1 /\ ~OwnHeader -> Block(PoolStart + HeaderSize, PoolSize - HeaderSize)
         [] OTHER -> Block(0, 0)]
  /\ freeList = IF OwnHeader THEN <<0>> ELSE <<1>>
  /\ allocList = IF OwnHeader THEN <<>> ELSE <<0>>
  /\ freeHeaders = IF OwnHeader THEN Headers \ {0} ELSE Headers \ {0, 1}
  /\ freeBytes = IF OwnHeader THEN PoolSize ELSE PoolSize - HeaderSize
  /\ unusedBytes = Wrap(IF OwnHeader THEN 0 ELSE HeaderSize)
  /\ allocatedBytes = IF OwnHeader THEN 0 ELSE HeaderSize
  /\ held = {}

\* Mutation: the padding is not looked for.
FirstFitUnaligned(size, align) ==
  SelectInSeq(freeList, LAMBDA b : blocks[b].size >= size)

\* Where the first block that is large enough is in the free list.  The tail
\* of the list is large enough for anything: 0 stands for it.
FirstFit(size, align) ==
  SelectInSeq(freeList, LAMBDA b : blocks[b].size >= NewSize(blocks[b], size, align))

\* Mutation: what is asked for.
TakenAsked(b, n) == n

\* What is taken of a block: all of it when little would be left.
Taken(b, n) == IF blocks[b].size - n > MinAlloc THEN n ELSE blocks[b].size

\* The whole block, the kth of the free list, is taken.
TakeBlock(k, b, pad) ==
  /\ blocks' = [blocks EXCEPT ![b].aligned = blocks[b].buffer + pad]
  /\ freeList' = RemoveAt(freeList, k)
  /\ UNCHANGED freeHeaders

\* What is left of the block beyond n bytes takes a header of its own, and the
\* block's place in the free list.
SplitBlock(k, b, pad, n, rest) ==
  /\ blocks' = [blocks EXCEPT ![b].aligned = blocks[b].buffer + pad, ![b].size = n,
                              ![rest] = Block(blocks[b].buffer + n, blocks[b].size - n)]
  /\ freeList' = ReplaceAt(freeList, k, rest)
  /\ freeHeaders' = Toggle(freeHeaders, {rest})

\* xvmem_alloc.  Whether the padding is found to be unused is known before
\* whether a header is left for the rest of the block.
Alloc(size, align) ==
  LET k == FirstFit(size, align)
      b == freeList[k]
      n == NewSize(blocks[b], size, align)
      pad == n - size
      taken == Taken(b, n)
      splits == blocks[b].size - n > MinAlloc
  IN  /\ k > 0
      /\ unusedBytes' = Wrap(unusedBytes + pad)
      /\ \/ /\ splits /\ freeHeaders = {}
            /\ UNCHANGED <<blocks, freeList, allocList, freeHeaders, freeBytes, allocatedBytes, held>>
         \/ /\ \/ splits /\ freeHeaders # {} /\ SplitBlock(k, b, pad, n, FirstFreeHeader)
               \/ ~splits /\ TakeBlock(k, b, pad)
            /\ allocList' = <<b>> \o allocList
            /\ freeBytes' = freeBytes - taken
            /\ allocatedBytes' = allocatedBytes + taken
            /\ held' = held \union {[at |-> blocks[b].buffer + pad, size |-> size]}

\* xvmem_alloc finds no block: nothing is changed.
AllocFails(size, align) == FirstFit(size, align) = 0 /\ UNCHANGED memVars

-----------------------------------------------------------------------------
\* Where block b belongs: the first free block that is not before it.
PlaceOf(b) ==
  LET k == SelectInSeq(freeList, LAMBDA c : blocks[c].buffer >= blocks[b].buffer)
  IN  IF k = 0 THEN Len(freeList) + 1 ELSE k

\* Mutation: blocks are not merged with the next.
NeverMerges(b, k) == FALSE

\* Block b touches the one before its place, and the one at it.
MergesPrev(b, k) == k > 1 /\ End(freeList[k - 1]) = blocks[b].buffer
MergesNext(b, k) == k <= Len(freeList) /\ End(b) = blocks[freeList[k]].buffer

\* Mutation: what the blocks after it hold is not added.
Unspanned(first, last) == blocks[first]

\* Block first, extended to the end of block last.
Spanning(first, last) == Block(blocks[first].buffer, End(last) - blocks[first].buffer)

\* xvmem_add_block_to_free_list: block b is merged with the free blocks next to
\* it that it touches.  The headers that are no longer needed are given back;
\* what they hold is not read again and is left out.
AddToFreeList(b) ==
  LET k == PlaceOf(b)
      first == IF MergesPrev(b, k) THEN freeList[k - 1] ELSE b
      last == IF MergesNext(b, k) THEN freeList[k] ELSE b
      gone == {b, last} \ {first}
  IN  /\ blocks' = [c \in Headers |->
           CASE c = first -> Spanning(first, last)
             [] c \in gone -> Block(0, 0)
             [] OTHER -> blocks[c]]
      /\ freeHeaders' = Toggle(freeHeaders, gone)
      /\ freeList' = SubSeq(freeList, 1, IF first # b THEN k - 2 ELSE k - 1) \o <<first>>
                       \o SubSeq(freeList, IF last # b THEN k + 1 ELSE k, Len(freeList))

\* xvmem_free finds the allocated block that starts at p, aligned.
AllocatedAt(p) == SelectInSeq(allocList, LAMBDA b : blocks[b].aligned = p)

Free(p) ==
  LET b == allocList[AllocatedAt(p)]
  IN  /\ AllocatedAt(p) > 0
      /\ allocList' = RemoveAt(allocList, AllocatedAt(p))
      /\ freeBytes' = freeBytes + blocks[b].size
      /\ allocatedBytes' = allocatedBytes - blocks[b].size
      /\ unusedBytes' = Wrap(unusedBytes - (blocks[b].buffer - blocks[b].aligned))
      /\ AddToFreeList(b)
      /\ held' = {h \in held : h.at # p}

\* A pointer that is not known is ignored: it has been freed before.
FreeUnknown(p) == AllocatedAt(p) = 0 /\ UNCHANGED memVars

\* What a caller may be given: not the headers.
Bytes == (IF OwnHeader THEN PoolStart ELSE PoolStart + HeaderSize) .. PoolStart + PoolSize - 1

MemNext ==
  \/ \E size \in Sizes, align \in Aligns : Alloc(size, align) \/ AllocFails(size, align)
  \/ \E p \in Bytes : Free(p) \/ FreeUnknown(p)

MemSpec == MemInit /\ [][MemNext]_memVars

-----------------------------------------------------------------------------
(* Properties. *)

Pool == INSTANCE BytePool

\* The allocator keeps BytePool's promise: two callers never hold the same
\* byte, no caller is given the headers or what is beyond the pool, and what
\* is asked for aligned is aligned, however the blocks are split and merged.
ImplementsPool == Pool!Spec

Listed == ToSet(freeList) \union ToSet(allocList)

\* The bit vector tells the headers in neither list, and no header is in two
\* places: bits are flipped, never set, so one flip too many would hand a
\* header in use to another block (xvmem_toggle_bitvec).
HeadersTracked ==
  /\ freeHeaders = Headers \ Listed
  /\ Cardinality(Listed) = Len(freeList) + Len(allocList)

\* The blocks of the two lists tile the pool: no byte is lost to a split or a
\* merge, and none is in two blocks.
BlocksTilePool ==
  LET all == (PoolStart .. PoolStart + PoolSize - 1)
      bytes(b) == blocks[b].buffer .. End(b) - 1
  IN  /\ UNION {bytes(b) : b \in Listed} = all
      /\ \A b, c \in Listed : b # c => bytes(b) \intersect bytes(c) = {}

\* The free list is in address order and no two free blocks touch: what has
\* been freed can be allocated again as one piece.
FreeListCoalesced ==
  \A k \in 1 .. Len(freeList) - 1 : End(freeList[k]) < blocks[freeList[k + 1]].buffer

\* The counters of free and allocated bytes agree with the lists.
BytesAccounted ==
  /\ freeBytes = MapThenSumSet(LAMBDA b : blocks[b].size, ToSet(freeList))
  /\ allocatedBytes = MapThenSumSet(LAMBDA b : blocks[b].size, ToSet(allocList))

\* _unused_bytes, "unused bytes in the heap" (tmUtils.h): the headers and the
\* padding of the blocks that are allocated.
UnusedAccounted ==
  unusedBytes = Wrap(MapThenSumSet(LAMBDA b : IF b = 0 /\ ~OwnHeader THEN blocks[b].size
                                   ELSE blocks[b].aligned - blocks[b].buffer, ToSet(allocList)))
=============================================================================
