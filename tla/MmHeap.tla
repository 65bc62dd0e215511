-------------------------------- MODULE MmHeap --------------------------------
(***************************************************************************)
(* The heap of the malloc package (ASSN/ASSN6/mm.c over memlib.c) and what *)
(* each function of the package does to it: an implicit list of blocks     *)
(* with boundary tags, searched next-fit and then best-fit.                *)
(*                                                                         *)
(* A heap h is [hdr, ftr, brk, current_block].  Addresses and block sizes  *)
(* are counted in units of ALIGNMENT (8 bytes).  Block pointers are        *)
(* multiples of 8, so a block b has its header in the upper half of unit   *)
(* b - 1 and its footer in the lower half of its last unit: hdr[b] is the  *)
(* word at HDRP(b), ftr[u] the word at the start of u.  Words keep their   *)
(* contents until they are written again, by the package or by the client  *)
(* that fills its payload.                                                 *)
(***************************************************************************)
EXTENDS Integers, FiniteSets, FiniteSetsExt

CONSTANTS
    MAX_HEAP,   \* largest heap, in units
    CHUNKSIZE,  \* smallest extension of the heap, in units
    PADDING     \* room a reallocated block is given to grow, in units

ASSUME UnitsAssumption == MAX_HEAP \in Nat /\ CHUNKSIZE \in Nat \ {0} /\ PADDING \in Nat
ASSUME InitFits == MAX_HEAP >= 2

ALIGNMENT == 8
DSIZE == 8
NULL == 0
heap_listp == 1
Units == 1..MAX_HEAP
Header == [size : 0..MAX_HEAP, alloc : BOOLEAN, tag : BOOLEAN]
Footer == [size : 0..MAX_HEAP, alloc : BOOLEAN]
NoHeader == [size |-> 0, alloc |-> FALSE, tag |-> FALSE]
NoFooter == [size |-> 0, alloc |-> FALSE]
Heap == [hdr : [Units -> Header], ftr : [Units -> Footer], brk : Units, current_block : Units]

NEXT_BLKP(h, bp) == bp + h.hdr[bp].size
PREV_BLKP(h, bp) == bp - h.ftr[bp - 1].size
IS_BLOCK_ALLOCATED(h, bp) == h.hdr[bp].alloc /\ h.hdr[bp].size > 0

\* PUT(HDRP(bp), ...) and PUT(FTRP(bp), ...): header first, it places the footer.
PutBlock(h, bp, size, alloc, tag) ==
    [h EXCEPT !.hdr = [@ EXCEPT ![bp] = [size |-> size, alloc |-> alloc, tag |-> tag]],
              !.ftr = [@ EXCEPT ![bp + size - 1] = [size |-> size, alloc |-> alloc]]]

PutWithTag(h, bp, size, alloc) == PutBlock(h, bp, size, alloc, h.hdr[bp].tag)

SetTag(h, bp, tag) == [h EXCEPT !.hdr[bp].tag = tag]

\* The blocks a loop over NEXT_BLKP visits from bp until a header of size 0, or until it
\* leaves the heap, which no sound heap lets it do.
BlocksFrom(h, bp) ==
    LET visit[b \in Units] ==
            IF h.hdr[b].size = 0 THEN {}
            ELSE {b} \cup IF NEXT_BLKP(h, b) \in Units THEN visit[NEXT_BLKP(h, b)] ELSE {}
    IN  visit[bp]

Blocks(h) == BlocksFrom(h, heap_listp)

-----------------------------------------------------------------------------
(* mem_reset_brk and mm_init: prologue and epilogue, current_block at the first *)

EmptyHeap(h) ==
    [h EXCEPT !.hdr = [@ EXCEPT ![heap_listp] = [size |-> 1, alloc |-> TRUE, tag |-> FALSE],
                                ![heap_listp + 1] = [size |-> 0, alloc |-> TRUE, tag |-> FALSE]],
              !.ftr = [@ EXCEPT ![heap_listp] = [size |-> 1, alloc |-> TRUE]],
              !.brk = heap_listp + 1,
              !.current_block = heap_listp]

\* Variant of the test that moves current_block: never.
KeepCurrentBlock(h, bp) == h
UpdateCurrentBlock(h, bp) ==
    IF h.current_block > bp /\ h.current_block < NEXT_BLKP(h, bp)
    THEN [h EXCEPT !.current_block = bp]
    ELSE h

\* The block before counts as allocated when it is tagged.
PrevAlloc(h, bp) ==
    LET prev == PREV_BLKP(h, bp) IN
    h.ftr[NEXT_BLKP(h, prev) - 1].alloc \/ h.hdr[prev].tag

\* The blocks from first to last become one free block.
Merge(h, first, last) ==
    IF first = last
    THEN [heap |-> h, bp |-> first]
    ELSE [heap |-> UpdateCurrentBlock(
                       PutWithTag(h, first, NEXT_BLKP(h, last) - first, FALSE), first),
          bp |-> first]

\* Variant of coalesce: bp is left as it is.
NoCoalesce(h, bp) == [heap |-> h, bp |-> bp]
coalesce(h, bp) ==
    Merge(h, IF PrevAlloc(h, bp) THEN bp ELSE PREV_BLKP(h, bp),
             IF h.hdr[NEXT_BLKP(h, bp)].alloc THEN bp ELSE NEXT_BLKP(h, bp))

\* mem_sbrk refuses to go beyond MAX_HEAP.
OutOfMemory(h, size) == h.brk + size > MAX_HEAP

\* The new block takes the epilogue's place.
extend_heap(h, size) ==
    LET bp == h.brk
        grown == PutBlock([h EXCEPT !.brk = bp + size], bp, size, FALSE, FALSE)
        epilogue == [size |-> 0, alloc |-> TRUE, tag |-> FALSE]
    IN  IF OutOfMemory(h, size)
        THEN [heap |-> h, bp |-> NULL]
        ELSE coalesce([grown EXCEPT !.hdr[bp + size] = epilogue], bp)

Fits(h, bp, asize) == asize <= h.hdr[bp].size /\ ~h.hdr[bp].alloc /\ ~h.hdr[bp].tag

\* Variant of the second search: it is left out.
NoBestFit(h, asize) == NULL
\* From the start up to current_block: the smallest block, the first of them.
BestFit(h, asize) ==
    LET fit == {b \in Blocks(h) : b < h.current_block /\ Fits(h, b, asize)}
        smallest == {b \in fit : \A c \in fit : h.hdr[b].size <= h.hdr[c].size}
    IN  IF fit = {} THEN NULL ELSE Min(smallest)

\* Variant: the search resets current_block.
ResetSearch(h) == NULL
\* The second search stops at the first block that is not before current_block.
SearchEnd(h) == Min({b \in Blocks(h) \cup {h.brk} : b >= h.current_block})

\* find_fit leaves current_block where its last loop stopped.
find_fit(h, asize) ==
    LET next == {b \in BlocksFrom(h, h.current_block) : Fits(h, b, asize)}
    IN  IF next # {}
        THEN [heap |-> [h EXCEPT !.current_block = Min(next)], bp |-> Min(next)]
        ELSE [heap |-> [h EXCEPT !.current_block = SearchEnd(h)], bp |-> BestFit(h, asize)]

\* Variant of the smallest remainder that is split off: none at all.
SplitAlways == 0
SmallestBlock == 2

\* Variant: the header of the remainder takes over a tag from whatever was there.
TagInMemory(h, bp) == h.hdr[bp].tag
RemainderTag(h, bp) == FALSE

place(h, bp, asize) ==
    LET rest == h.hdr[bp].size - asize IN
    IF rest >= SmallestBlock
    THEN PutBlock(PutWithTag(h, bp, asize, TRUE), bp + asize, rest, FALSE,
                  RemainderTag(h, bp + asize))
    ELSE PutWithTag(h, bp, h.hdr[bp].size, TRUE)

\* Variant: the boundary tags are forgotten.
PayloadOnly(size) == IF size <= DSIZE THEN 2 ELSE (size + DSIZE - 1) \div DSIZE
AdjustedSize(size) == IF size <= DSIZE THEN 2 ELSE (size + DSIZE + DSIZE - 1) \div DSIZE

ExtendUnlessFound(found, asize) ==
    IF found.bp # NULL THEN found
    ELSE extend_heap(found.heap, IF asize > CHUNKSIZE THEN asize ELSE CHUNKSIZE)

PlaceUnlessNull(at, asize) ==
    IF at.bp = NULL THEN at ELSE [heap |-> place(at.heap, at.bp, asize), bp |-> at.bp]

mm_malloc(h, size) ==
    LET asize == AdjustedSize(size)
    IN  PlaceUnlessNull(ExtendUnlessFound(find_fit(h, asize), asize), asize)

mm_free(h, bp) ==
    LET untagged == SetTag(h, NEXT_BLKP(h, bp), FALSE)
    IN  coalesce(PutWithTag(untagged, bp, h.hdr[bp].size, FALSE), bp).heap

-----------------------------------------------------------------------------
(* mm_realloc *)

BodySize(size) == AdjustedSize(size) + PADDING

\* Variant: the walk does not stop at an allocated block.
RecycleAll(h, bp, wanted) ==
    LET start == NEXT_BLKP(h, bp)
        run == {b \in BlocksFrom(h, start) : b - start <= wanted}
    IN  IF run = {} THEN 0 ELSE NEXT_BLKP(h, Max(run)) - start
\* The sum of the free blocks after bp, up to the one that makes it exceed wanted.
extend_heap_recycle(h, bp, wanted) ==
    LET start == NEXT_BLKP(h, bp)
        after == BlocksFrom(h, start)
        run == {b \in after : b - start <= wanted /\ \A c \in after : c <= b => ~h.hdr[c].alloc}
    IN  IF run = {} THEN 0 ELSE NEXT_BLKP(h, Max(run)) - start

Resized(h, bp, size) == [heap |-> PutBlock(h, bp, size, TRUE, FALSE), bp |-> bp]

ResizedUnlessNull(grown, bp, size) ==
    IF grown.bp = NULL THEN grown ELSE Resized(grown.heap, bp, size)

\* Into the free blocks that follow, and into new heap if they are too small.
GrowNext(h, bp, missing) ==
    LET room == h.hdr[bp].size + extend_heap_recycle(h, bp, missing)
        lacking == h.hdr[bp].size + missing - room
        extendsize == IF lacking > CHUNKSIZE THEN lacking ELSE CHUNKSIZE
    IN  IF lacking <= 0
        THEN Resized(h, bp, room)
        ELSE ResizedUnlessNull(extend_heap(h, extendsize), bp, room + extendsize)

MoveTo(h, body) == mm_malloc(h, ALIGNMENT * body - DSIZE)

\* mm_malloc, memmove and mm_free
FreeUnlessNull(new, bp) ==
    IF new.bp = NULL THEN new ELSE [new EXCEPT !.heap = mm_free(@, bp)]

TakesNext(h, bp, body) == h.hdr[bp].size < body /\ ~IS_BLOCK_ALLOCATED(h, NEXT_BLKP(h, bp))

TakesPrev(h, bp, body) ==
    LET prev == PREV_BLKP(h, bp) IN
    /\ h.hdr[bp].size < body
    /\ ~TakesNext(h, bp, body)
    /\ ~IS_BLOCK_ALLOCATED(h, prev)
    /\ h.hdr[prev].size + h.hdr[bp].size >= body

Moves(h, bp, body) == h.hdr[bp].size < body /\ ~TakesNext(h, bp, body) /\ ~TakesPrev(h, bp, body)

\* The free block after a block with little room left is kept for its growth.
TagNext(h, bp, body) ==
    IF h.hdr[bp].size - body < 2 * PADDING THEN SetTag(h, NEXT_BLKP(h, bp), TRUE) ELSE h

TagUnlessNull(at, body) ==
    IF at.bp = NULL THEN at ELSE [at EXCEPT !.heap = TagNext(@, at.bp, body)]

GrownBlock(h, bp, body) ==
    LET prev == PREV_BLKP(h, bp) IN
    CASE TakesNext(h, bp, body) -> GrowNext(h, bp, body - h.hdr[bp].size)
      [] TakesPrev(h, bp, body) -> Resized(h, prev, h.hdr[prev].size + h.hdr[bp].size)
      [] Moves(h, bp, body) -> FreeUnlessNull(MoveTo(h, body), bp)
      [] OTHER -> [heap |-> h, bp |-> bp]

mm_realloc(h, bp, size) == TagUnlessNull(GrownBlock(h, bp, BodySize(size)), BodySize(size))

-----------------------------------------------------------------------------
\* The client fills its payload: no word in it is a header or a footer any more.
Fill(h, bp, size) ==
    [h EXCEPT !.hdr = [b \in Units |->
                          IF bp < b /\ ALIGNMENT * b - 4 < ALIGNMENT * bp + size
                          THEN NoHeader ELSE h.hdr[b]],
              !.ftr = [u \in Units |->
                          IF bp <= u /\ ALIGNMENT * u < ALIGNMENT * bp + size
                          THEN NoFooter ELSE h.ftr[u]]]

Zeroed == [hdr |-> [b \in Units |-> NoHeader], ftr |-> [u \in Units |-> NoFooter],
           brk |-> heap_listp, current_block |-> heap_listp]

-----------------------------------------------------------------------------
(* A sound heap.  A payload is [ptr (in units), size (in bytes)]. *)

\* From the prologue, block after block, one reaches the epilogue at the end of
\* the heap, and every footer repeats its header.
TiledHeap(h) ==
    /\ h.hdr[h.brk].size = 0 /\ h.hdr[h.brk].alloc
    /\ \A b \in Blocks(h) :
        /\ NEXT_BLKP(h, b) \in Blocks(h) \cup {h.brk}
        /\ h.ftr[NEXT_BLKP(h, b) - 1] = [size |-> h.hdr[b].size, alloc |-> h.hdr[b].alloc]

\* The allocated blocks are exactly the payloads in l, each with room for what was
\* asked for: nothing is lost and nothing is handed out twice.
HoldsPayloads(h, l) ==
    /\ {r.ptr : r \in l} = {b \in Blocks(h) \ {heap_listp} : h.hdr[b].alloc}
    /\ \A r \in l : r.size + DSIZE <= ALIGNMENT * h.hdr[r.ptr].size

\* The search of the next malloc starts at a block of the list.
SearchStarts(h) == h.current_block \in Blocks(h) \cup {h.brk}

SoundHeap(h, l) == TiledHeap(h) /\ HoldsPayloads(h, l) /\ SearchStarts(h)
=============================================================================
