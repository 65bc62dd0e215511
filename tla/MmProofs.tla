------------------------------ MODULE MmProofs -------------------------------
(***************************************************************************)
(* Clients of the malloc package, for heaps and requests of any size: in   *)
(* every order of mm_malloc and mm_free the heap stays sound; mm_realloc   *)
(* destroys it in two ways, and in no other.                               *)
(***************************************************************************)
EXTENDS Mm, MmHeapProofs

-----------------------------------------------------------------------------
(* The invariant: the heap is sound, and its allocated blocks are the payloads. *)

Asked(l) == l \subseteq [ptr : Units, size : Sizes]

MmInv ==
    /\ SoundAs(heap, Blocks(heap), live) /\ Asked(live)
    /\ Neat(heap, Blocks(heap))
    /\ crashed \in BOOLEAN

\* What a call gives a client is what mm_malloc, mm_free and mm_realloc give.
LEMMA MallocKeeps ==
    ASSUME NEW B, SoundAs(heap, B, live), Asked(live), NEW size \in Sizes, Malloc(size)
    PROVE  \E D : SoundAs(heap', D, live') /\ Asked(live') /\ (Neat(heap, B) => Neat(heap', D))
<1> DEFINE new == mm_malloc(heap, size)
<1>1. size \in Nat \ {0}
  BY SizesAssumption
<1>2. heap' = HeapAfter(new, size) /\ live' = LiveAfter(new, size, live, live)
  BY DEF Malloc, HandOut, HeapAfter, LiveAfter
<1>3. \E D : SoundAs(heap', D, live') /\ (Neat(heap, B) => Neat(heap', D))
  BY <1>1, <1>2, MallocGives
<1> HIDE DEF new
<1>4. Asked(live')
  <2>1. CASE new.bp = NULL
    BY <1>2, <2>1 DEF LiveAfter
  <2>2. CASE new.bp # NULL
    <3>1. live' = live \cup {[ptr |-> new.bp, size |-> size]}
      BY <1>2, <2>2 DEF LiveAfter
    <3>2. live' \subseteq Payload
      BY <1>3 DEF SoundAs, LiveOK
    <3>3. [ptr |-> new.bp, size |-> size] \in Payload
      BY <3>1, <3>2
    <3>4. new.bp \in Units
      BY <3>3 DEF Payload
    <3> QED BY <3>1, <3>4 DEF Asked
  <2> QED BY <2>1, <2>2
<1> QED BY <1>3, <1>4

LEMMA FreeKeeps ==
    ASSUME NEW B, SoundAs(heap, B, live), Asked(live), NEW r \in live, Free(r)
    PROVE  \E D : SoundAs(heap', D, live') /\ Asked(live') /\ (Neat(heap, B) => Neat(heap', D))
<1>1. heap' = mm_free(heap, r.ptr) /\ live' = live \ {r}
  BY DEF Free
<1>2. Asked(live')
  BY <1>1 DEF Asked
<1> QED BY <1>1, <1>2, FreeGives

LEMMA InitIsSound == Init => MmInv
<1> SUFFICES ASSUME Init PROVE MmInv
  OBVIOUS
<1>1. heap = EmptyHeap(Zeroed) /\ live = {} /\ crashed = FALSE
  BY DEF Init
<1>2. SoundAs(heap, {heap_listp}, live) /\ Neat(heap, {heap_listp})
  BY <1>1, ZeroedIsHeap, EmptyHeapIsSound
<1>3. Blocks(heap) = {heap_listp}
  BY <1>2, BlocksOfSound
<1> QED BY <1>1, <1>2, <1>3 DEF MmInv, Asked

LEMMA StepIsSound == MmInv /\ [MallocNext]_vars => MmInv'
<1> SUFFICES ASSUME MmInv, [MallocNext]_vars PROVE MmInv'
  OBVIOUS
<1> DEFINE B == Blocks(heap)
<1>1. SoundAs(heap, B, live) /\ Asked(live) /\ Neat(heap, B) /\ crashed \in BOOLEAN
  BY DEF MmInv
<1> HIDE DEF B
<1>2. ASSUME NEW D, SoundAs(heap', D, live'), Asked(live'), Neat(heap', D), crashed' = crashed PROVE MmInv'
  <2>1. Blocks(heap') = D
    BY <1>2, BlocksOfSound
  <2> QED BY <1>1, <1>2, <2>1 DEF MmInv
<1>3. ASSUME NEW size \in Sizes, Malloc(size) PROVE MmInv'
  <2>1. \E D : SoundAs(heap', D, live') /\ Asked(live') /\ (Neat(heap, B) => Neat(heap', D))
    BY <1>1, <1>3, MallocKeeps
  <2>2. crashed' = crashed
    BY <1>3 DEF Malloc
  <2> QED BY <1>1, <1>2, <2>1, <2>2
<1>4. ASSUME NEW r \in live, Free(r) PROVE MmInv'
  <2>1. \E D : SoundAs(heap', D, live') /\ Asked(live') /\ (Neat(heap, B) => Neat(heap', D))
    BY <1>1, <1>4, FreeKeeps
  <2>2. crashed' = crashed
    BY <1>4 DEF Free
  <2> QED BY <1>1, <1>2, <2>1, <2>2
<1>5. CASE UNCHANGED vars
  <2>1. heap' = heap /\ live' = live /\ crashed' = crashed
    BY <1>5 DEF vars
  <2> QED BY <1>1, <1>2, <2>1
<1> QED BY <1>3, <1>4, <1>5 DEF MallocNext

LEMMA AlwaysSound == MallocSpec => []MmInv
BY InitIsSound, StepIsSound, PTL DEF MallocSpec

-----------------------------------------------------------------------------
(* What clients of mm_malloc and mm_free can rely on. *)

\* Every word of the heap stays a boundary tag of the right form, and break and
\* current_block stay within the heap (mm.c, memlib.c).
THEOREM MallocTypeOK == MallocSpec => []TypeOK
<1>1. MmInv => TypeOK
  BY DEF MmInv, SoundAs, HeapOK, Tiling, Asked, TypeOK
<1> QED BY <1>1, AlwaysSound, PTL

\* The blocks always tile the heap from the prologue to the epilogue, each with a footer
\* that repeats its header: every walk of mm.c over NEXT_BLKP and PREV_BLKP ends where it should.
THEOREM MallocTiled == MallocSpec => []Tiled
<1>1. MmInv => Tiled
  BY DEF MmInv, SoundAs, HeapOK, Tiling, Tiled, TiledHeap
<1> QED BY <1>1, AlwaysSound, PTL

\* After every call, coalesce has left no two free blocks side by side.
THEOREM MallocCoalesced == MallocSpec => []Coalesced
<1>1. ASSUME MmInv PROVE Coalesced
  <2> DEFINE B == Blocks(heap)
  <2>1. Tiling(heap, B) /\ IsCoalesced(heap, B)
    BY <1>1 DEF MmInv, SoundAs, HeapOK, Neat
  <2> HIDE DEF B
  <2>2. \A b \in B : NEXT_BLKP(heap, b) \in B \cup {heap.brk}
    BY <2>1, TilingTypes
  <2>3. \A b \in B : heap.hdr[b].size > 0
    BY <2>1 DEF Tiling
  <2> QED BY <2>1, <2>2, <2>3 DEF Coalesced, IS_BLOCK_ALLOCATED, IsCoalesced, B
<1> QED BY <1>1, AlwaysSound, PTL

\* Whatever the order of mm_malloc and mm_free, the allocated blocks are the payloads that
\* clients hold, each with room for its request: none is lost, none handed out twice.
THEOREM MallocAllocatedIsLive == MallocSpec => []AllocatedIsLive
<1>1. MmInv => AllocatedIsLive
  BY DEF MmInv, SoundAs, LiveOK, Allocated, AllocatedIsLive, HoldsPayloads
<1> QED BY <1>1, AlwaysSound, PTL

\* current_block never points into the middle of a block, also after coalesce has merged the
\* one it pointed to.
THEOREM MallocCurrentBlock == MallocSpec => []CurrentBlockIsBlock
<1>1. MmInv => CurrentBlockIsBlock
  BY DEF MmInv, SoundAs, HeapOK, SearchOK, CurrentBlockIsBlock, SearchStarts
<1> QED BY <1>1, AlwaysSound, PTL

\* find_fit returns NULL only when no free block is large enough, wherever current_block is.
THEOREM MallocFindsAny == MallocSpec => []FindFitFindsAny
<1>1. ASSUME MmInv PROVE FindFitFindsAny
  <2> SUFFICES ASSUME NEW size \in Sizes, find_fit(heap, AdjustedSize(size)).bp = NULL,
                      NEW b \in Blocks(heap)
               PROVE  ~Fits(heap, b, AdjustedSize(size))
    BY DEF FindFitFindsAny
  <2>1. FitFound(find_fit(heap, AdjustedSize(size)), heap, Blocks(heap), AdjustedSize(size))
    BY <1>1, FindFitFits DEF MmInv, SoundAs
  <2> QED BY <2>1 DEF FitFound
<1> QED BY <1>1, AlwaysSound, PTL

-----------------------------------------------------------------------------
(* mm_malloc and mm_free implement the allocator of the specification. *)

\* A payload that is handed out is one that the allocator may hand out.
LEMMA HandOutIsAllocate ==
    ASSUME MmInv', NEW bp, NEW size, live' = live \cup {[ptr |-> bp, size |-> size]},
           [ptr |-> bp, size |-> size] \notin live
    PROVE  A!Malloc
<1> DEFINE r == [ptr |-> bp, size |-> size]
           R == [ptr |-> ALIGNMENT * bp, size |-> size]
<1>1. /\ HeapOK(heap', Blocks(heap')) /\ LiveOK(heap', Blocks(heap'), live')
      /\ \A q \in live' : q.size \in Sizes
  BY DEF MmInv, SoundAs, Asked
<1>2. \A q \in live' :
        /\ q.ptr \in Units /\ q.size \in Sizes
        /\ 8 * q.ptr + q.size <= 8 * MAX_HEAP
        /\ \A s \in live' : q # s => 8 * q.ptr + q.size <= 8 * s.ptr \/ 8 * s.ptr + s.size <= 8 * q.ptr
  BY <1>1, PayloadsApart
<1>3. r \in live' /\ r.ptr = bp /\ r.size = size
  OBVIOUS
<1>4. /\ bp \in Units /\ size \in Sizes /\ 8 * bp + size <= 8 * MAX_HEAP
      /\ \A s \in live : 8 * bp + size <= 8 * s.ptr \/ 8 * s.ptr + s.size <= 8 * bp
  BY <1>2, <1>3
<1>5. R \in A!Payload
  <2>1. bp \in Nat /\ 1 <= bp /\ bp <= MAX_HEAP /\ MAX_HEAP \in Nat
    BY <1>4, UnitsAreNaturals
  <2>2. 8 * bp \in 1 .. 8 * MAX_HEAP /\ (8 * bp) % 8 = 0
    BY <2>1
  <2>3. ALIGNMENT * bp \in {a \in 1 .. ALIGNMENT * MAX_HEAP : a % ALIGNMENT = 0}
    BY <2>2 DEF ALIGNMENT
  <2> QED BY <1>4, <2>3 DEF A!Payload
<1>6. R.ptr + R.size <= ALIGNMENT * MAX_HEAP
  BY <1>4 DEF ALIGNMENT
<1>7. \A S \in Payloads : A!Disjoint(R, S)
  BY <1>4 DEF Payloads, A!Disjoint, ALIGNMENT
<1>8. Payloads' = Payloads \cup {R}
  <2>1. Payloads' = {[ptr |-> ALIGNMENT * q.ptr, size |-> q.size] : q \in live'}
    BY DEF Payloads
  <2> QED BY <1>3, <2>1 DEF Payloads
<1> HIDE DEF R
<1> QED BY <1>5, <1>6, <1>7, <1>8 DEF A!Malloc, A!Allocate

LEMMA MallocImplements ==
    ASSUME MmInv, MmInv', NEW size \in Sizes, Malloc(size)
    PROVE  A!Malloc \/ UNCHANGED Payloads
<1> DEFINE new == mm_malloc(heap, size)
<1>1. live' = IF new.bp = NULL THEN live ELSE live \cup {[ptr |-> new.bp, size |-> size]}
  BY DEF Malloc, HandOut
<1> HIDE DEF new
<1>2. CASE live' = live
  BY <1>2 DEF Payloads
<1>3. CASE live' # live
  <2>1. live' = live \cup {[ptr |-> new.bp, size |-> size]} /\ [ptr |-> new.bp, size |-> size] \notin live
    BY <1>1, <1>3
  <2> QED BY <2>1, HandOutIsAllocate
<1> QED BY <1>2, <1>3

LEMMA FreeImplements ==
    ASSUME MmInv, NEW r \in live, Free(r)
    PROVE  A!Free
<1> DEFINE R == [ptr |-> ALIGNMENT * r.ptr, size |-> r.size]
<1>1. live' = live \ {r}
  BY DEF Free
<1>2. LiveOK(heap, Blocks(heap), live)
  BY DEF MmInv, SoundAs
<1>3. R \in Payloads
  BY DEF Payloads
<1>4. \A q \in live : q # r => ALIGNMENT * q.ptr # R.ptr
  <2> TAKE q \in live
  <2>1. q.ptr \in Nat /\ r.ptr \in Nat
    BY <1>2, UnitsAreNaturals DEF LiveOK, Payload
  <2>2. q # r => q.ptr # r.ptr
    BY <1>2 DEF LiveOK, Unique
  <2>3. R.ptr = ALIGNMENT * r.ptr
    OBVIOUS
  <2> HIDE DEF R
  <2> QED BY <2>1, <2>2, <2>3 DEF ALIGNMENT
<1>5. Payloads' = {[ptr |-> ALIGNMENT * q.ptr, size |-> q.size] : q \in live'}
  BY DEF Payloads
<1>6. Payloads' = Payloads \ {R}
  <2>1. \A q \in live : [ptr |-> ALIGNMENT * q.ptr, size |-> q.size] = R => q = r
    <3> TAKE q \in live
    <3>1. [ptr |-> ALIGNMENT * q.ptr, size |-> q.size].ptr = ALIGNMENT * q.ptr
      OBVIOUS
    <3> HIDE DEF R
    <3> QED BY <1>4, <3>1
  <2>2. R = [ptr |-> ALIGNMENT * r.ptr, size |-> r.size]
    OBVIOUS
  <2> HIDE DEF R
  <2> QED BY <1>1, <1>5, <2>1, <2>2 DEF Payloads
<1> HIDE DEF R
<1> QED BY <1>3, <1>6 DEF A!Free

\* Every mm_malloc and mm_free is a step that the allocator allows: payloads are aligned,
\* within the heap and without a byte in common, for heaps and requests of any size.
THEOREM MallocImplementsAllocator == MallocSpec => AllocatorSpec
<1>1. Init => A!Init
  BY DEF Init, A!Init, Payloads
<1>2. MmInv /\ MmInv' /\ [MallocNext]_vars => [A!Next]_Payloads
  <2> SUFFICES ASSUME MmInv, MmInv', [MallocNext]_vars PROVE [A!Next]_Payloads
    OBVIOUS
  <2>1. ASSUME NEW size \in Sizes, Malloc(size) PROVE [A!Next]_Payloads
    BY <2>1, MallocImplements DEF A!Next
  <2>2. ASSUME NEW r \in live, Free(r) PROVE [A!Next]_Payloads
    BY <2>2, FreeImplements DEF A!Next
  <2>3. CASE UNCHANGED vars
    BY <2>3 DEF vars, Payloads
  <2> QED BY <2>1, <2>2, <2>3 DEF MallocNext
<1> QED BY <1>1, <1>2, AlwaysSound, PTL DEF MallocSpec, AllocatorSpec, A!Spec

-----------------------------------------------------------------------------
(* The invariant with mm_realloc: what holds of sound heaps and of others. *)

\* What holds of the heap and the payloads after every call, sound or not.
ReallocInv ==
    /\ Framed(heap)
    /\ Asked(live) /\ Unique(live)
    /\ crashed \in BOOLEAN

LEMMA SoundStateIsTiling ==
    ASSUME ReallocInv, Sound
    PROVE  SoundAs(heap, Blocks(heap), live)
<1>1. live \subseteq Payload
  BY SizesAssumption DEF ReallocInv, Asked, Payload
<1> QED BY <1>1, SoundIsTiling DEF ReallocInv, Sound

LEMMA InitIsFramed == Init => ReallocInv
<1> SUFFICES ASSUME Init PROVE ReallocInv
  OBVIOUS
<1>1. SoundAs(heap, Blocks(heap), live) /\ Asked(live) /\ crashed \in BOOLEAN
  BY InitIsSound DEF MmInv
<1> QED BY <1>1, SoundIsFramed DEF SoundAs, LiveOK, ReallocInv

LEMMA ReallocKeeps ==
    ASSUME NEW B, SoundAs(heap, B, live), Asked(live), NEW r \in live, NEW size \in Sizes,
           Realloc(r, size)
    PROVE  /\ ReallocInv'
           /\ ~Spoils(heap, r.ptr, BodySize(size)) => \E D : SoundAs(heap', D, live')
<1> DEFINE new == mm_realloc(heap, r.ptr, size)
<1>1. size \in Nat \ {0}
  BY SizesAssumption
<1>2. heap' = HeapAfter(new, size) /\ live' = LiveAfter(new, size, live, live \ {r})
  BY DEF Realloc, HandOut, HeapAfter, LiveAfter
<1>3. crashed' \in BOOLEAN
  BY DEF Realloc
<1>4. /\ Framed(heap') /\ live' \subseteq Payload /\ Unique(live')
      /\ ~Spoils(heap, r.ptr, BodySize(size)) => \E D : SoundAs(heap', D, live')
  BY <1>1, <1>2, ReallocGives
<1> HIDE DEF new
<1>5. Asked(live')
  <2>1. CASE new.bp = NULL
    BY <1>2, <2>1 DEF LiveAfter
  <2>2. CASE new.bp # NULL
    <3>1. live' = (live \ {r}) \cup {[ptr |-> new.bp, size |-> size]}
      BY <1>2, <2>2 DEF LiveAfter
    <3>2. [ptr |-> new.bp, size |-> size] \in Payload
      BY <1>4, <3>1
    <3>3. new.bp \in Units
      BY <3>2 DEF Payload
    <3> QED BY <3>1, <3>3 DEF Asked
  <2> QED BY <2>1, <2>2
<1> QED BY <1>3, <1>4, <1>5 DEF ReallocInv

\* A step leaves the list of blocks sound, unless it is one of the two of Spoils.
LEMMA ReallocStep ==
    ASSUME ReallocInv, Next
    PROVE  /\ ReallocInv'
           /\ MallocNext => \E D : SoundAs(heap', D, live')
           /\ \A r \in live, size \in Sizes :
                Realloc(r, size) /\ ~Spoils(heap, r.ptr, BodySize(size)) => \E D : SoundAs(heap', D, live')
<1> DEFINE B == Blocks(heap)
           ok == \E D : SoundAs(heap', D, live')
<1>1. SoundAs(heap, B, live) /\ Asked(live) /\ crashed \in BOOLEAN
  BY SoundStateIsTiling DEF Next, ReallocInv
<1> HIDE DEF B
<1>2. ASSUME ok, Asked(live'), crashed' \in BOOLEAN PROVE ReallocInv'
  BY <1>2, SoundIsFramed DEF SoundAs, LiveOK, ReallocInv
<1>3. ASSUME NEW size \in Sizes, Malloc(size) PROVE ok /\ ReallocInv'
  <2>1. ok /\ Asked(live')
    BY <1>1, <1>3, MallocKeeps
  <2>2. crashed' \in BOOLEAN
    BY <1>1, <1>3 DEF Malloc
  <2> QED BY <1>2, <2>1, <2>2
<1>4. ASSUME NEW r \in live, Free(r) PROVE ok /\ ReallocInv'
  <2>1. ok /\ Asked(live')
    BY <1>1, <1>4, FreeKeeps
  <2>2. crashed' \in BOOLEAN
    BY <1>1, <1>4 DEF Free
  <2> QED BY <1>2, <2>1, <2>2
<1>5. ASSUME NEW r \in live, NEW size \in Sizes, Realloc(r, size)
      PROVE  ReallocInv' /\ (~Spoils(heap, r.ptr, BodySize(size)) => ok)
  BY <1>1, <1>5, ReallocKeeps
<1> QED BY <1>3, <1>4, <1>5 DEF Next, MallocNext

LEMMA AlwaysFramed == Spec => []ReallocInv
<1>1. ReallocInv /\ [Next]_vars => ReallocInv'
  <2> SUFFICES ASSUME ReallocInv, [Next]_vars PROVE ReallocInv'
    OBVIOUS
  <2>1. CASE Next
    BY <2>1, ReallocStep
  <2>2. CASE UNCHANGED vars
    BY <2>2 DEF vars, ReallocInv
  <2> QED BY <2>1, <2>2
<1> QED BY <1>1, InitIsFramed, PTL DEF Spec

-----------------------------------------------------------------------------
(* What clients that call mm_realloc can rely on. *)

\* With mm_realloc too, every word of the heap stays a boundary tag of the right form, and
\* break and current_block stay within the heap, even by the call that destroys the list.
THEOREM ReallocTypeOK == Spec => []TypeOK
<1>1. ReallocInv => TypeOK
  BY DEF ReallocInv, Asked, Framed, TypeOK
<1> QED BY <1>1, AlwaysFramed, PTL

\* mm_realloc destroys a sound heap in two ways only: too few free blocks between the block
\* and an allocated one (mm.c extends the heap elsewhere), and a current_block that it swallows.
THEOREM ReallocSpoilsInTwoWays == Spec => ReallocKeepsSound
<1> DEFINE Good == \A r \in live, size \in Sizes :
                     (Realloc(r, size) /\ ~crashed' /\ ~TooLittleBetween(r, size)
                        /\ ~SwallowsCurrentBlock(r, size)) => Sound'
<1>1. ReallocInv /\ [Next]_vars => [Good]_vars
  <2> SUFFICES ASSUME ReallocInv, Next PROVE Good
    BY DEF vars
  <2> SUFFICES ASSUME NEW r \in live, NEW size \in Sizes, Realloc(r, size),
                      ~TooLittleBetween(r, size), ~SwallowsCurrentBlock(r, size)
               PROVE  Sound'
    OBVIOUS
  <2>1. EndOfRun(heap, r.ptr, BodySize(size)) = RunEnd(r, size)
    BY DEF EndOfRun, RunEnd
  <2>2. ~Spoils(heap, r.ptr, BodySize(size))
    BY <2>1 DEF Spoils, TooLittleBetween, SwallowsCurrentBlock
  <2>3. \E D : SoundAs(heap', D, live')
    BY <2>2, ReallocStep
  <2> QED BY <2>3, SoundAsIsSound DEF Sound
<1>2. Spec => [][Good]_vars
  BY <1>1, AlwaysFramed, PTL DEF Spec
<1> QED BY <1>2 DEF ReallocKeepsSound

\* mm_malloc and mm_free never destroy a sound heap, also one with the tags that mm_realloc
\* sets and with the free neighbours that coalesce leaves apart because of them.
THEOREM MallocAndFreeKeepSound == Spec => [][MallocNext => Sound']_vars
<1>1. ReallocInv /\ [Next]_vars => [MallocNext => Sound']_vars
  BY ReallocStep, SoundAsIsSound DEF Sound
<1> QED BY <1>1, AlwaysFramed, PTL DEF Spec

\* Payloads overlap in no sound state: until a call of mm_realloc destroys the list, no client
\* can write over the payload of another, or over a boundary tag.
THEOREM SoundPayloadsDisjoint == Spec => [](Sound => PayloadsDisjoint)
<1>1. ASSUME ReallocInv, Sound PROVE PayloadsDisjoint
  <2>1. HeapOK(heap, Blocks(heap)) /\ LiveOK(heap, Blocks(heap), live)
    BY <1>1, SoundStateIsTiling DEF SoundAs
  <2>2. \A r, s \in live : r # s => \/ 8 * r.ptr + r.size <= 8 * s.ptr
                                    \/ 8 * s.ptr + s.size <= 8 * r.ptr
    BY <2>1, PayloadsApart
  <2> SUFFICES ASSUME NEW p \in Payloads, NEW q \in Payloads, p # q PROVE A!Disjoint(p, q)
    BY DEF PayloadsDisjoint
  <2>3. PICK r \in live : p = [ptr |-> ALIGNMENT * r.ptr, size |-> r.size]
    BY DEF Payloads
  <2>4. PICK s \in live : q = [ptr |-> ALIGNMENT * s.ptr, size |-> s.size]
    BY DEF Payloads
  <2>5. r # s
    BY <2>3, <2>4
  <2> QED BY <2>2, <2>3, <2>4, <2>5 DEF A!Disjoint, ALIGNMENT
<1> QED BY <1>1, AlwaysFramed, PTL
=============================================================================
