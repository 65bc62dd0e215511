--------------------------------- MODULE Mm ----------------------------------
(***************************************************************************)
(* The malloc package (ASSN/ASSN6/mm.c over memlib.c) with clients that    *)
(* call mm_malloc, mm_free and mm_realloc in any order and fill what they  *)
(* get.  The heap and what the calls do to it are in MmHeap.               *)
(***************************************************************************)
EXTENDS MmHeap

CONSTANT
    Sizes       \* sizes that clients ask for, in bytes

ASSUME SizesAssumption == Sizes \subseteq Nat \ {0}

VARIABLES
    heap,       \* [hdr, ftr, brk, current_block]
    live,       \* payloads clients hold: [ptr (in units), size (in bytes)]
    crashed     \* memmove to NULL in mm_realloc

vars == <<heap, live, crashed>>

-----------------------------------------------------------------------------
Init ==
    /\ heap = EmptyHeap(Zeroed)
    /\ live = {}
    /\ crashed = FALSE

\* The client fills what it gets and holds it with the payloads it keeps.
HandOut(new, size, kept) ==
    /\ heap' = IF new.bp = NULL THEN new.heap ELSE Fill(new.heap, new.bp, size)
    /\ live' = IF new.bp = NULL THEN live ELSE kept \cup {[ptr |-> new.bp, size |-> size]}

Malloc(size) ==
    /\ HandOut(mm_malloc(heap, size), size, live)
    /\ UNCHANGED crashed

Free(r) ==
    /\ heap' = mm_free(heap, r.ptr)
    /\ live' = live \ {r}
    /\ UNCHANGED crashed

\* A realloc that returns NULL leaves the payload with the client, unless it has
\* copied the payload to the NULL that mm_malloc returned.
Realloc(r, size) ==
    LET body == BodySize(size) IN
    /\ HandOut(mm_realloc(heap, r.ptr, size), size, live \ {r})
    /\ crashed' = (Moves(heap, r.ptr, body) /\ MoveTo(heap, body).bp = NULL)

MallocNext == (\E size \in Sizes : Malloc(size)) \/ (\E r \in live : Free(r))

\* Clients that never call mm_realloc.
MallocSpec == Init /\ [][MallocNext]_vars

-----------------------------------------------------------------------------
(* Properties *)

TypeOK ==
    /\ heap \in Heap
    /\ live \subseteq [ptr : Units, size : Sizes]
    /\ crashed \in BOOLEAN

\* From the prologue, block after block, one reaches the epilogue at the end of
\* the heap, and every footer repeats its header.
Tiled == TiledHeap(heap)

\* No two free blocks are neighbours (mm_check: contiguous free blocks).
Coalesced ==
    \A b \in Blocks(heap) :
        ~heap.hdr[b].alloc => IS_BLOCK_ALLOCATED(heap, NEXT_BLKP(heap, b)) \/ NEXT_BLKP(heap, b) = heap.brk

\* The allocated blocks are exactly those that clients hold, each with room for
\* what was asked for: nothing is lost and nothing is handed out twice.
AllocatedIsLive == HoldsPayloads(heap, live)

\* The search of the next malloc starts at a block of the list.
CurrentBlockIsBlock == SearchStarts(heap)

\* The two searches of find_fit leave no block out: the heap grows only when no
\* free block is large enough.
FindFitFindsAny ==
    \A size \in Sizes : find_fit(heap, AdjustedSize(size)).bp = NULL =>
        ~\E b \in Blocks(heap) : Fits(heap, b, AdjustedSize(size))

\* The package implements the abstract allocator.
Payloads == {[ptr |-> ALIGNMENT * r.ptr, size |-> r.size] : r \in live}
A == INSTANCE Allocator WITH live <- Payloads, HeapBytes <- ALIGNMENT * MAX_HEAP
AllocatorSpec == A!Spec

Sound == SoundHeap(heap, live)

Next ==
    /\ Sound /\ ~crashed
    /\ \/ MallocNext
       \/ \E r \in live, size \in Sizes : Realloc(r, size)

\* Any client, up to the first call that crashes or leaves the list unsound: what
\* the package does after that depends on the contents of payloads.
Spec == Init /\ [][Next]_vars

\* Where the block of r and the free blocks that mm_realloc adds to it end.
RunEnd(r, size) ==
    NEXT_BLKP(heap, r.ptr) + extend_heap_recycle(heap, r.ptr, BodySize(size) - heap.hdr[r.ptr].size)

\* The free blocks after r's block are too small and end at an allocated block:
\* the heap is then extended elsewhere.
TooLittleBetween(r, size) ==
    /\ TakesNext(heap, r.ptr, BodySize(size))
    /\ RunEnd(r, size) < r.ptr + BodySize(size)
    /\ RunEnd(r, size) < heap.brk

\* current_block is one of the blocks that r's block is merged with.
SwallowsCurrentBlock(r, size) ==
    \/ /\ TakesNext(heap, r.ptr, BodySize(size))
       /\ heap.current_block \in (r.ptr + 1) .. (RunEnd(r, size) - 1)
    \/ /\ TakesPrev(heap, r.ptr, BodySize(size))
       /\ heap.current_block = r.ptr

\* These are the only two ways in which mm_realloc destroys a sound heap.
ReallocKeepsSound ==
    [][\A r \in live, size \in Sizes :
        (Realloc(r, size) /\ ~crashed' /\ ~TooLittleBetween(r, size)
            /\ ~SwallowsCurrentBlock(r, size)) => Sound']_vars

\* "The payload must not overlap any other payloads" (mdriver.c, line 407).
PayloadsDisjoint == \A r, s \in Payloads : r # s => A!Disjoint(r, s)
=============================================================================
