---------------------------- MODULE MmHeapProofs -----------------------------
(***************************************************************************)
(* What the functions of the malloc package do to a heap, of any size: the *)
(* lemmas that the proofs about its clients and about the driver rest on.  *)
(***************************************************************************)
EXTENDS MmHeap, SearchProofs, TLAPS

-----------------------------------------------------------------------------
(* The walk over the blocks. *)

\* One step of a walk over NEXT_BLKP.
LEMMA BlocksUnfold ==
    ASSUME NEW h, NEW b \in Units
    PROVE  BlocksFrom(h, b) =
             IF h.hdr[b].size = 0 THEN {}
             ELSE {b} \cup IF NEXT_BLKP(h, b) \in Units THEN BlocksFrom(h, NEXT_BLKP(h, b)) ELSE {}
<1> DEFINE size(x) == h.hdr[x].size
           next(x) == NEXT_BLKP(h, x)
           Closed(S) == \A x \in S : next(x) \in Units /\ size(next(x)) # 0 => next(x) \in S
           Reach(x) == IF size(x) = 0 THEN {}
                       ELSE {y \in Units : \A S \in SUBSET Units : x \in S /\ Closed(S) => y \in S}
           Steps(f) == [x \in Units |-> IF h.hdr[x].size = 0 THEN {}
                                        ELSE {x} \cup IF NEXT_BLKP(h, x) \in Units
                                                      THEN f[NEXT_BLKP(h, x)] ELSE {}]
           reach == [x \in Units |-> Reach(x)]
           visit == CHOOSE f : f = Steps(f)
<1>1. ASSUME NEW x \in Units, size(x) # 0
      PROVE  Reach(x) = {x} \cup IF next(x) \in Units THEN Reach(next(x)) ELSE {}
  <2> DEFINE Rest == IF next(x) \in Units THEN Reach(next(x)) ELSE {}
  <2>1. x \in Reach(x)
    BY <1>1
  <2>2. Rest \subseteq Reach(x)
    <3> SUFFICES ASSUME next(x) \in Units, size(next(x)) # 0, NEW y \in Reach(next(x)),
                        NEW S \in SUBSET Units, x \in S, Closed(S)
                 PROVE  y \in S
      BY <1>1
    <3>1. next(x) \in S
      OBVIOUS
    <3> QED BY <3>1
  <2>3. {x} \cup Rest \in SUBSET Units
    OBVIOUS
  <2>4. Closed({x} \cup Rest)
    <3> SUFFICES ASSUME NEW y \in {x} \cup Rest, next(y) \in Units, size(next(y)) # 0
                 PROVE  next(y) \in Rest
      OBVIOUS
    <3>1. CASE y = x
      BY <3>1
    <3>2. CASE y \in Rest
      BY <3>2
    <3> QED BY <3>1, <3>2
  <2>5. Reach(x) \subseteq {x} \cup Rest
    BY <1>1, <2>3, <2>4
  <2> QED BY <2>1, <2>2, <2>5
<1>2. reach = Steps(reach)
  <2>1. ASSUME NEW x \in Units PROVE reach[x] = Steps(reach)[x]
    <3>1. reach[x] = Reach(x)
      OBVIOUS
    <3>2. next(x) \in Units => reach[next(x)] = Reach(next(x))
      OBVIOUS
    <3> HIDE DEF Reach, reach
    <3>3. CASE size(x) = 0
      BY <3>1, <3>3 DEF Reach
    <3>4. CASE size(x) # 0
      BY <1>1, <3>1, <3>2, <3>4
    <3> QED BY <3>3, <3>4
  <2> HIDE DEF Reach
  <2> QED BY <2>1
<1> HIDE DEF reach, Reach
<1>3. visit = Steps(visit)
  BY <1>2
<1>4. \A x \in Units : BlocksFrom(h, x) = visit[x]
  BY DEF BlocksFrom
<1> HIDE DEF visit
<1>5. visit[b] = IF h.hdr[b].size = 0 THEN {}
                 ELSE {b} \cup IF next(b) \in Units THEN visit[next(b)] ELSE {}
  BY <1>3
<1> QED BY <1>4, <1>5

\* The blocks of h are those in B: they lie next to each other from the prologue to the
\* epilogue, and their footers repeat their headers.
Tiling(h, B) ==
    /\ h \in Heap
    /\ B \subseteq Units /\ heap_listp \in B /\ h.hdr[heap_listp].alloc
    /\ h.hdr[h.brk].size = 0 /\ h.hdr[h.brk].alloc
    /\ \A b \in B :
        /\ b < h.brk /\ h.hdr[b].size > 0
        /\ NEXT_BLKP(h, b) \in B \cup {h.brk}
        /\ h.ftr[NEXT_BLKP(h, b) - 1] = [size |-> h.hdr[b].size, alloc |-> h.hdr[b].alloc]
    /\ \A b, c \in B : b < c => NEXT_BLKP(h, b) <= c

LEMMA UnitsAreNaturals ==
    MAX_HEAP \in Nat /\ \A u \in Units : u \in Nat /\ 1 <= u /\ u <= MAX_HEAP
BY UnitsAssumption DEF Units

LEMMA TilingTypes ==
    ASSUME NEW h, NEW B, Tiling(h, B)
    PROVE  /\ h.brk \in Units /\ h.current_block \in Units
           /\ h.hdr \in [Units -> Header] /\ h.ftr \in [Units -> Footer]
           /\ B \subseteq Units /\ heap_listp \in B /\ h.brk \notin B /\ h.hdr[h.brk].size = 0
           /\ \A b \in B : /\ h.hdr[b].size \in Nat /\ h.hdr[b].size > 0 /\ b < h.brk
                           /\ NEXT_BLKP(h, b) \in B \cup {h.brk} /\ NEXT_BLKP(h, b) \in Units
                           /\ NEXT_BLKP(h, b) = b + h.hdr[b].size
                           /\ b < NEXT_BLKP(h, b) /\ NEXT_BLKP(h, b) <= h.brk
           /\ \A b, c \in B : b < c => NEXT_BLKP(h, b) <= c
<1>1. /\ h.brk \in Units /\ h.current_block \in Units
      /\ h.hdr \in [Units -> Header] /\ h.ftr \in [Units -> Footer]
  BY DEF Tiling, Heap
<1>2. /\ B \subseteq Units /\ heap_listp \in B
      /\ \A b \in B : b < h.brk /\ h.hdr[b].size > 0 /\ NEXT_BLKP(h, b) \in B \cup {h.brk}
      /\ \A b, c \in B : b < c => NEXT_BLKP(h, b) <= c
  BY DEF Tiling
<1>8. h.hdr[h.brk].size = 0
  BY DEF Tiling
<1>3. \A b \in B : h.hdr[b].size \in Nat
  BY <1>1, <1>2, UnitsAssumption DEF Header
<1>4. \A b \in B : NEXT_BLKP(h, b) \in Units /\ NEXT_BLKP(h, b) <= h.brk
  BY <1>1, <1>2, UnitsAreNaturals
<1>5. \A b \in B : NEXT_BLKP(h, b) = b + h.hdr[b].size
  BY DEF NEXT_BLKP
<1>6. \A b \in B : b < NEXT_BLKP(h, b)
  BY <1>1, <1>2, <1>3, <1>5, UnitsAreNaturals
<1>7. h.brk \notin B
  BY <1>1, <1>2, UnitsAreNaturals
<1> QED BY <1>1, <1>2, <1>3, <1>4, <1>5, <1>6, <1>7, <1>8

\* A walk from a block, or from the epilogue, visits the blocks from there on.
LEMMA WalkVisits ==
    ASSUME NEW h, NEW B, Tiling(h, B), NEW b \in B \cup {h.brk}
    PROVE  BlocksFrom(h, b) = {c \in B : b <= c}
<1> DEFINE Right(x) == BlocksFrom(h, x) = {c \in B : x <= c}
           Wrong == {MAX_HEAP - x : x \in {y \in B \cup {h.brk} : ~Right(y)}}
<1>0. MAX_HEAP \in Nat /\ \A x \in B \cup {h.brk} : x \in Units /\ x \in Nat /\ 1 <= x /\ x <= MAX_HEAP
  BY TilingTypes, UnitsAreNaturals
<1>1. SUFFICES ASSUME Wrong # {} PROVE FALSE
  OBVIOUS
<1>2. Wrong \subseteq Nat
  <2> SUFFICES ASSUME NEW x \in B \cup {h.brk} PROVE MAX_HEAP - x \in Nat
    OBVIOUS
  <2> QED BY <1>0
<1>3. PICK w \in Wrong : \A v \in Wrong : w <= v
  BY <1>1, <1>2, LeastExists
<1>4. PICK x \in B \cup {h.brk} : ~Right(x) /\ w = MAX_HEAP - x
  BY <1>3
<1>5. \A y \in B \cup {h.brk} : x < y => Right(y)
  <2> SUFFICES ASSUME NEW y \in B \cup {h.brk}, x < y, ~Right(y) PROVE FALSE
    OBVIOUS
  <2>1. MAX_HEAP - y \in Wrong
    OBVIOUS
  <2>2. MAX_HEAP - x <= MAX_HEAP - y
    BY <1>3, <1>4, <2>1
  <2>3. x \in Nat /\ y \in Nat /\ MAX_HEAP \in Nat
    BY <1>0, <1>4
  <2> QED BY <2>2, <2>3
<1>6. CASE x = h.brk
  <2>1. BlocksFrom(h, x) = {}
    BY <1>0, <1>6, BlocksUnfold, TilingTypes
  <2>2. {c \in B : x <= c} = {}
    <3> SUFFICES ASSUME NEW c \in B PROVE ~(h.brk <= c)
      BY <1>6
    <3>1. c < h.brk /\ c \in Nat /\ h.brk \in Nat
      BY <1>0, TilingTypes
    <3> QED BY <3>1
  <2> QED BY <1>4, <2>1, <2>2
<1>7. CASE x \in B
  <2> DEFINE n == NEXT_BLKP(h, x)
  <2>1. n \in B \cup {h.brk} /\ x < n /\ n \in Units /\ h.hdr[x].size # 0
    BY <1>7, TilingTypes
  <2>2. BlocksFrom(h, x) = {x} \cup BlocksFrom(h, n)
    BY <1>0, <1>7, <2>1, BlocksUnfold
  <2>3. BlocksFrom(h, n) = {c \in B : n <= c}
    BY <1>5, <2>1
  <2>4. \A c \in B : x < c <=> n <= c
    <3> TAKE c \in B
    <3>1. x < c => n <= c
      BY <1>7, TilingTypes
    <3>2. x \in Nat /\ c \in Nat /\ n \in Nat
      BY <1>0, <1>7, <2>1
    <3> QED BY <2>1, <3>1, <3>2
  <2>5. {c \in B : x <= c} = {x} \cup {c \in B : n <= c}
    BY <1>0, <1>7, <2>4
  <2> QED BY <1>4, <2>2, <2>3, <2>5
<1> QED BY <1>6, <1>7

LEMMA BlocksOfTiling ==
    ASSUME NEW h, NEW B, Tiling(h, B)
    PROVE  Blocks(h) = B
<1>1. B \subseteq Units /\ heap_listp \in B
  BY DEF Tiling
<1>2. \A b \in B : heap_listp <= b
  BY <1>1, UnitsAreNaturals DEF heap_listp
<1>3. BlocksFrom(h, heap_listp) = {c \in B : heap_listp <= c}
  BY <1>1, WalkVisits
<1> QED BY <1>2, <1>3 DEF Blocks

\* Every block but the first, and the epilogue, has a block before it, and its footer
\* leads there.
LEMMA BlockBefore ==
    ASSUME NEW h, NEW B, Tiling(h, B), NEW b \in B \cup {h.brk}, b # heap_listp
    PROVE  /\ PREV_BLKP(h, b) \in B
           /\ NEXT_BLKP(h, PREV_BLKP(h, b)) = b
           /\ \A c \in B : NEXT_BLKP(h, c) = b => c = PREV_BLKP(h, b)
<1> DEFINE Below == {c \in B : c < b}
           Dist == {MAX_HEAP - c : c \in Below}
<1>0. MAX_HEAP \in Nat /\ \A x \in B \cup {h.brk} : x \in Units /\ x \in Nat /\ 1 <= x /\ x <= MAX_HEAP
  BY TilingTypes, UnitsAreNaturals
<1>1. heap_listp \in Below
  <2>1. heap_listp \in B
    BY TilingTypes
  <2> QED BY <1>0, <2>1 DEF heap_listp
<1>2. Dist \subseteq Nat /\ Dist # {}
  <2> SUFFICES ASSUME NEW x \in Below PROVE MAX_HEAP - x \in Nat
    BY <1>1
  <2> QED BY <1>0
<1>3. PICK d \in Dist : \A e \in Dist : d <= e
  BY <1>2, LeastExists
<1>4. PICK p \in Below : d = MAX_HEAP - p
  BY <1>3
<1>5. \A c \in Below : c <= p
  <2> TAKE c \in Below
  <2>1. MAX_HEAP - c \in Dist
    OBVIOUS
  <2>2. MAX_HEAP - p <= MAX_HEAP - c
    BY <1>3, <1>4, <2>1
  <2>3. c \in Nat /\ p \in Nat /\ MAX_HEAP \in Nat
    BY <1>0, <1>4
  <2> QED BY <2>2, <2>3
<1>6. NEXT_BLKP(h, p) <= b
  BY <1>4, TilingTypes
<1>7. NEXT_BLKP(h, p) = b
  <2>1. NEXT_BLKP(h, p) \in B \cup {h.brk} /\ p < NEXT_BLKP(h, p) /\ NEXT_BLKP(h, p) \in Units
    BY <1>4, TilingTypes
  <2>2. b <= h.brk /\ b \in Nat /\ h.brk \in Nat /\ NEXT_BLKP(h, p) \in Nat /\ p \in Nat
    BY <1>0, <1>4, <2>1, TilingTypes
  <2>3. CASE NEXT_BLKP(h, p) \in B
    <3>1. ~(NEXT_BLKP(h, p) < b)
      BY <1>5, <2>1, <2>2, <2>3
    <3> QED BY <1>6, <2>2, <3>1
  <2>4. CASE NEXT_BLKP(h, p) = h.brk
    BY <1>6, <2>2, <2>4
  <2> QED BY <2>1, <2>3, <2>4
<1>8. ASSUME NEW c \in B, NEXT_BLKP(h, c) = b PROVE c = PREV_BLKP(h, b)
  <2>1. h.ftr[b - 1] = [size |-> h.hdr[c].size, alloc |-> h.hdr[c].alloc]
    BY <1>8 DEF Tiling
  <2>2. h.hdr[c].size \in Nat /\ c \in Nat /\ b = c + h.hdr[c].size
    BY <1>0, <1>8, TilingTypes DEF NEXT_BLKP
  <2> QED BY <2>1, <2>2 DEF PREV_BLKP
<1>9. p = PREV_BLKP(h, b)
  BY <1>4, <1>7, <1>8
<1> QED BY <1>4, <1>7, <1>8, <1>9

-----------------------------------------------------------------------------
(* What the writes of the package do to a tiling. *)

\* n is h but for one block, which is written.
Written(n, h, bp, size, alloc, tag) ==
    /\ n \in Heap /\ n.brk = h.brk /\ n.current_block = h.current_block
    /\ n.hdr[bp] = [size |-> size, alloc |-> alloc, tag |-> tag]
    /\ \A x \in Units \ {bp} : n.hdr[x] = h.hdr[x]
    /\ n.ftr[bp + size - 1] = [size |-> size, alloc |-> alloc]
    /\ \A x \in Units \ {bp + size - 1} : n.ftr[x] = h.ftr[x]

LEMMA PutBlockWrites ==
    ASSUME NEW h \in Heap, NEW bp \in Units, NEW size \in 0 .. MAX_HEAP, bp + size - 1 \in Units,
           NEW alloc \in BOOLEAN, NEW tag \in BOOLEAN
    PROVE  Written(PutBlock(h, bp, size, alloc, tag), h, bp, size, alloc, tag)
<1> DEFINE header == [size |-> size, alloc |-> alloc, tag |-> tag]
           footer == [size |-> size, alloc |-> alloc]
           last == bp + size - 1
           hdr == [h.hdr EXCEPT ![bp] = header]
           ftr == [h.ftr EXCEPT ![last] = footer]
           n == PutBlock(h, bp, size, alloc, tag)
<1>1. header \in Header /\ footer \in Footer
  BY DEF Header, Footer
<1>2. h.hdr \in [Units -> Header] /\ h.ftr \in [Units -> Footer] /\ h.brk \in Units
      /\ h.current_block \in Units
  BY DEF Heap
<1>0. n = [h EXCEPT !.hdr = [@ EXCEPT ![bp] = header], !.ftr = [@ EXCEPT ![last] = footer]]
  BY DEF PutBlock
<1> HIDE DEF header, footer, last, n
<1>3. hdr \in [Units -> Header] /\ ftr \in [Units -> Footer]
  BY <1>1, <1>2
<1>4. /\ hdr[bp] = header /\ ftr[last] = footer
      /\ \A x \in Units \ {bp} : hdr[x] = h.hdr[x]
      /\ \A x \in Units \ {last} : ftr[x] = h.ftr[x]
  BY <1>2 DEF last
<1>5. n = [h EXCEPT !.hdr = hdr, !.ftr = ftr]
  BY <1>0
<1> HIDE DEF hdr, ftr
<1>6. n \in Heap /\ n.hdr = hdr /\ n.ftr = ftr /\ n.brk = h.brk /\ n.current_block = h.current_block
  BY <1>2, <1>3, <1>5 DEF Heap
<1>7. Written(n, h, bp, size, alloc, tag)
  BY <1>4, <1>6 DEF header, footer, last, Written
<1> QED BY <1>7 DEF n

\* The blocks that are left when those from first up to end become one.
Joined(B, first, end) == {c \in B : c <= first \/ end <= c}

JoinedInto(n, C, h, first, end, alloc, tag) ==
    /\ Tiling(n, C) /\ first \in C /\ NEXT_BLKP(n, first) = end
    /\ n.brk = h.brk /\ n.current_block = h.current_block
    /\ n.hdr[first] = [size |-> end - first, alloc |-> alloc, tag |-> tag]
    /\ \A x \in Units \ {first} : n.hdr[x] = h.hdr[x]

\* A block, or several neighbours at once, is written as one block.
LEMMA JoinTiles ==
    ASSUME NEW h, NEW B, Tiling(h, B), NEW first \in B, NEW last \in B, first <= last,
           NEW alloc \in BOOLEAN, first = heap_listp => alloc = TRUE, NEW tag \in BOOLEAN,
           NEW end, end = NEXT_BLKP(h, last)
    PROVE  JoinedInto(PutBlock(h, first, end - first, alloc, tag), Joined(B, first, end),
                      h, first, end, alloc, tag)
<1> DEFINE n == PutBlock(h, first, end - first, alloc, tag)
           C == Joined(B, first, end)
<1>0. /\ MAX_HEAP \in Nat /\ h \in Heap
      /\ \A x \in B \cup {h.brk} : x \in Units /\ x \in Nat /\ 1 <= x /\ x <= MAX_HEAP
  BY TilingTypes, UnitsAreNaturals DEF Tiling
<1>1. /\ end \in B \cup {h.brk} /\ last < end /\ end <= h.brk
  BY TilingTypes
<1>2. end \in Nat /\ first \in Nat /\ last \in Nat /\ first < end /\ end <= MAX_HEAP
      /\ 1 <= first
  BY <1>0, <1>1
<1>3. end - first \in 0 .. MAX_HEAP /\ end - 1 \in Units /\ first + (end - first) - 1 = end - 1
  BY <1>0, <1>2 DEF Units
<1>4. /\ n \in Heap /\ n.brk = h.brk /\ n.current_block = h.current_block
      /\ n.hdr[first] = [size |-> end - first, alloc |-> alloc, tag |-> tag]
      /\ \A x \in Units \ {first} : n.hdr[x] = h.hdr[x]
      /\ n.ftr[end - 1] = [size |-> end - first, alloc |-> alloc]
      /\ \A x \in Units \ {end - 1} : n.ftr[x] = h.ftr[x]
  <2>1. first \in Units /\ first + (end - first) - 1 = end - 1
    BY <1>0, <1>3
  <2>2. Written(n, h, first, end - first, alloc, tag)
    BY <1>0, <1>3, <2>1, PutBlockWrites
  <2> QED BY <2>1, <2>2 DEF Written
<1> HIDE DEF n
<1>5. C \subseteq B /\ first \in C /\ \A c \in C : c # first => c < first \/ end <= c
  BY <1>0, <1>2 DEF Joined
<1>6. end \in C \cup {h.brk}
  BY <1>1, <1>2 DEF Joined
<1>7. n.hdr[first].size = end - first /\ n.hdr[first].alloc = alloc
  BY <1>4
<1>8. NEXT_BLKP(n, first) = end
  BY <1>2, <1>7 DEF NEXT_BLKP
<1>9. ASSUME NEW c \in C, c # first
      PROVE  /\ n.hdr[c] = h.hdr[c] /\ NEXT_BLKP(n, c) = NEXT_BLKP(h, c)
             /\ (c < first /\ NEXT_BLKP(h, c) <= first) \/ (end <= c /\ end < NEXT_BLKP(h, c))
             /\ NEXT_BLKP(h, c) \in C \cup {h.brk}
             /\ n.ftr[NEXT_BLKP(h, c) - 1] = h.ftr[NEXT_BLKP(h, c) - 1]
  <2>1. n.hdr[c] = h.hdr[c] /\ NEXT_BLKP(n, c) = NEXT_BLKP(h, c)
    BY <1>0, <1>4, <1>5, <1>9 DEF NEXT_BLKP
  <2>2. /\ NEXT_BLKP(h, c) \in B \cup {h.brk} /\ c < NEXT_BLKP(h, c)
        /\ (c < first => NEXT_BLKP(h, c) <= first)
    BY <1>5, TilingTypes
  <2>3. c \in Nat /\ NEXT_BLKP(h, c) \in Nat
    BY <1>0, <1>5, <2>2
  <2>4. (c < first /\ NEXT_BLKP(h, c) <= first) \/ (end <= c /\ end < NEXT_BLKP(h, c))
    BY <1>2, <1>5, <1>9, <2>2, <2>3
  <2>5. NEXT_BLKP(h, c) \in C \cup {h.brk}
    BY <1>2, <2>2, <2>3, <2>4 DEF Joined
  <2>6. NEXT_BLKP(h, c) - 1 \in Units /\ NEXT_BLKP(h, c) # end
    <3>1. NEXT_BLKP(h, c) <= MAX_HEAP /\ 1 <= c
      BY <1>0, <1>5, <2>2
    <3> QED BY <1>0, <1>2, <2>2, <2>3, <2>4, <3>1 DEF Units
  <2>7. NEXT_BLKP(h, c) - 1 # end - 1
    BY <1>2, <2>3, <2>6
  <2> QED BY <1>4, <2>1, <2>4, <2>5, <2>6, <2>7
<1>10. Tiling(n, C)
  <2>1. heap_listp \in C /\ n.hdr[heap_listp].alloc
    <3>1. heap_listp \in B /\ heap_listp <= first /\ h.hdr[heap_listp].alloc
      BY <1>2, TilingTypes DEF heap_listp, Tiling
    <3>2. heap_listp \in C
      BY <3>1 DEF Joined
    <3> QED BY <1>7, <1>9, <3>1, <3>2
  <2>2. n.hdr[n.brk].size = 0 /\ n.hdr[n.brk].alloc
    <3>1. h.brk \in Units /\ h.brk # first
      BY TilingTypes
    <3> QED BY <1>4, <3>1 DEF Tiling
  <2>3. ASSUME NEW c \in C
        PROVE  /\ c < n.brk /\ n.hdr[c].size > 0
               /\ NEXT_BLKP(n, c) \in C \cup {n.brk}
               /\ n.ftr[NEXT_BLKP(n, c) - 1] = [size |-> n.hdr[c].size, alloc |-> n.hdr[c].alloc]
    <3>1. c < n.brk
      BY <1>4, <1>5, TilingTypes
    <3>2. CASE c = first
      BY <1>2, <1>4, <1>6, <1>7, <1>8, <3>1, <3>2
    <3>3. CASE c # first
      <4>1. /\ h.hdr[c].size > 0
            /\ h.ftr[NEXT_BLKP(h, c) - 1] = [size |-> h.hdr[c].size, alloc |-> h.hdr[c].alloc]
        BY <1>5 DEF Tiling
      <4> QED BY <1>4, <1>9, <3>1, <3>3, <4>1
    <3> QED BY <3>2, <3>3
  <2>4. ASSUME NEW x \in C, NEW y \in C, x < y PROVE NEXT_BLKP(n, x) <= y
    <3>1. CASE x = first
      BY <1>0, <1>2, <1>5, <1>8, <2>4, <3>1
    <3>2. CASE x # first
      BY <1>5, <1>9, <2>4, <3>2, TilingTypes
    <3> QED BY <3>1, <3>2
  <2>5. C \subseteq Units
    BY <1>0, <1>5
  <2> QED BY <1>4, <2>1, <2>2, <2>3, <2>4, <2>5 DEF Tiling
<1>11. JoinedInto(n, C, h, first, end, alloc, tag)
  BY <1>4, <1>5, <1>8, <1>10 DEF JoinedInto
<1> QED BY <1>11 DEF n

Moved(n, h, c) ==
    n \in Heap /\ n.hdr = h.hdr /\ n.ftr = h.ftr /\ n.brk = h.brk /\ n.current_block = c

LEMMA MoveCurrent ==
    ASSUME NEW h \in Heap, NEW c \in Units
    PROVE  Moved([h EXCEPT !.current_block = c], h, c)
BY DEF Heap, Moved

LEMMA MovedTiles ==
    ASSUME NEW h, NEW B, Tiling(h, B), NEW c, NEW n, Moved(n, h, c)
    PROVE  Tiling(n, B)
BY DEF Tiling, Moved, NEXT_BLKP

-----------------------------------------------------------------------------
(* coalesce and extend_heap. *)

Allocated(h, B) == {b \in B : h.hdr[b].alloc}
IsCoalesced(h, B) == \A b \in B : ~h.hdr[b].alloc => h.hdr[NEXT_BLKP(h, b)].alloc
\* Only bp may have free neighbours.
CoalescedBut(h, B, bp) ==
    \A b \in B : ~h.hdr[b].alloc /\ ~h.hdr[NEXT_BLKP(h, b)].alloc => b = bp \/ NEXT_BLKP(h, b) = bp
SearchOK(h, B) == h.current_block \in B

HeapOK(h, B) == Tiling(h, B) /\ SearchOK(h, B)

\* What mm_realloc, which tags blocks, does not keep.
Untagged(h, B) == \A b \in B \cup {h.brk} : ~h.hdr[b].tag
Neat(h, B) == IsCoalesced(h, B) /\ Untagged(h, B)

SameAllocated(n, C, h, B) ==
    /\ Allocated(n, C) = Allocated(h, B)
    /\ \A b \in Allocated(h, B) : n.hdr[b].size = h.hdr[b].size

\* bp is a free block of n, of at least the size asked for.
FreeBlock(n, C, bp, size) ==
    bp \in C /\ bp # heap_listp /\ ~n.hdr[bp].alloc /\ size <= n.hdr[bp].size

LEMMA TagIsBoolean ==
    ASSUME NEW h, NEW B, Tiling(h, B), NEW b \in B \cup {h.brk}
    PROVE  h.hdr[b].tag \in BOOLEAN /\ h.hdr[b].alloc \in BOOLEAN
<1>1. h.hdr[b] \in Header
  BY TilingTypes
<1> QED BY <1>1 DEF Header

\* What the boundary tags tell coalesce.
LEMMA CoalesceSees ==
    ASSUME NEW h, NEW B, Tiling(h, B), NEW bp \in B, bp # heap_listp
    PROVE  /\ PrevAlloc(h, bp) <=> h.hdr[PREV_BLKP(h, bp)].alloc \/ h.hdr[PREV_BLKP(h, bp)].tag
           /\ h.hdr[NEXT_BLKP(h, bp)].alloc \/ NEXT_BLKP(h, bp) \in B
<1> DEFINE prev == PREV_BLKP(h, bp)
<1>1. prev \in B /\ NEXT_BLKP(h, prev) = bp
  BY BlockBefore
<1> HIDE DEF prev
<1>2. h.ftr[bp - 1].alloc = h.hdr[prev].alloc
  <2>1. h.ftr[bp - 1] = [size |-> h.hdr[prev].size, alloc |-> h.hdr[prev].alloc]
    BY <1>1 DEF Tiling
  <2> QED BY <1>1, <2>1 DEF Tiling
<1>3. PrevAlloc(h, bp) <=> h.hdr[prev].alloc \/ h.hdr[prev].tag
  BY <1>1, <1>2 DEF PrevAlloc, prev
<1>4. h.hdr[h.brk].alloc
  BY DEF Tiling
<1>5. NEXT_BLKP(h, bp) \in B \cup {h.brk}
  BY TilingTypes
<1> QED BY <1>3, <1>4, <1>5 DEF prev

\* n is h but for the free block at first, which has taken in the blocks up to end.
MergedAt(n, C, h, B, first, end) ==
    /\ Tiling(n, C) /\ first \in C /\ first # heap_listp /\ NEXT_BLKP(n, first) = end
    /\ C \subseteq B /\ n.brk = h.brk
    /\ \A x \in B : x \in C <=> x <= first \/ end <= x
    /\ ~n.hdr[first].alloc /\ n.hdr[first].size = end - first
    /\ n.hdr[first].tag = h.hdr[first].tag
    /\ \A x \in Units \ {first} : n.hdr[x] = h.hdr[x]
    /\ n.current_block = IF h.current_block > first /\ h.current_block < end
                         THEN first ELSE h.current_block

LEMMA MergeTiles ==
    ASSUME NEW h, NEW B, Tiling(h, B), SearchOK(h, B), NEW first \in B, NEW last \in B,
           first < last, ~h.hdr[first].alloc,
           NEW n, n = Merge(h, first, last).heap,
           NEW end, end = NEXT_BLKP(h, last), NEW C, C = Joined(B, first, end)
    PROVE  MergedAt(n, C, h, B, first, end)
<1> DEFINE tag == h.hdr[first].tag
           m == PutBlock(h, first, end - first, FALSE, tag)
<1>1. \A c \in B \cup {h.brk} : c \in Nat /\ c \in Units
  BY TilingTypes, UnitsAreNaturals
<1>2. tag \in BOOLEAN
  BY TagIsBoolean
<1>3. first # heap_listp
  BY DEF Tiling
<1>4. n = UpdateCurrentBlock(m, first)
  <2>1. first # last
    BY <1>1
  <2> QED BY <2>1 DEF Merge, PutWithTag
<1>5. JoinedInto(m, C, h, first, end, FALSE, tag)
  <2> HIDE DEF tag
  <2>1. first <= last
    BY <1>1
  <2> QED BY <1>1, <1>2, <1>3, <2>1, JoinTiles
<1> HIDE DEF m, tag
<1>6. /\ Tiling(m, C) /\ first \in C /\ NEXT_BLKP(m, first) = end
      /\ m.brk = h.brk /\ m.current_block = h.current_block
      /\ m.hdr[first] = [size |-> end - first, alloc |-> FALSE, tag |-> tag]
      /\ \A x \in Units \ {first} : m.hdr[x] = h.hdr[x]
  BY <1>5 DEF JoinedInto
<1>7. Moved(n, m, IF h.current_block > first /\ h.current_block < end
                  THEN first ELSE h.current_block)
  <2>1. m \in Heap /\ first \in Units
    BY <1>1, <1>6 DEF Tiling
  <2>2. CASE h.current_block > first /\ h.current_block < end
    BY <1>4, <1>6, <2>1, <2>2, MoveCurrent DEF UpdateCurrentBlock
  <2>3. CASE ~(h.current_block > first /\ h.current_block < end)
    BY <1>4, <1>6, <2>1, <2>3 DEF UpdateCurrentBlock, Moved
  <2> QED BY <2>2, <2>3
<1>8. Tiling(n, C) /\ n.brk = h.brk /\ n.hdr = m.hdr
  BY <1>6, <1>7, MovedTiles DEF Moved
<1>9. NEXT_BLKP(n, first) = end
  BY <1>6, <1>8 DEF NEXT_BLKP
<1>10. n.hdr[first].alloc = FALSE /\ n.hdr[first].size = end - first /\ n.hdr[first].tag = tag
  BY <1>6, <1>8
<1>11. \A x \in Units \ {first} : n.hdr[x] = h.hdr[x]
  BY <1>6, <1>8
<1>12. C \subseteq B /\ \A x \in B : x \in C <=> x <= first \/ end <= x
  BY DEF Joined
<1>13. n.current_block = IF h.current_block > first /\ h.current_block < end
                        THEN first ELSE h.current_block
  BY <1>7 DEF Moved
<1> QED BY <1>3, <1>6, <1>8, <1>9, <1>10, <1>11, <1>12, <1>13 DEF MergedAt, tag

\* first and last are the blocks that coalesce joins bp with.
MergeEnds(h, B, bp, first, last) ==
    /\ ~h.hdr[bp].alloc /\ first \in B /\ last \in B
    /\ \E prev \in B :
          /\ NEXT_BLKP(h, prev) = bp
          /\ \/ first = bp /\ (h.hdr[prev].alloc \/ h.hdr[prev].tag)
             \/ first = prev /\ ~h.hdr[prev].alloc
    /\ \/ last = bp /\ h.hdr[NEXT_BLKP(h, bp)].alloc
       \/ last = NEXT_BLKP(h, bp) /\ ~h.hdr[last].alloc

MergeIsRight(n, C, h, B, bp, first) ==
    /\ HeapOK(n, C) /\ FreeBlock(n, C, first, h.hdr[bp].size)
    /\ SameAllocated(n, C, h, B) /\ n.brk = h.brk /\ n.current_block <= h.current_block
    /\ CoalescedBut(h, B, bp) /\ Untagged(h, B) => Neat(n, C)

LEMMA MergedKeeps ==
    ASSUME NEW h, NEW B, Tiling(h, B), SearchOK(h, B), NEW bp \in B, NEW first, NEW last,
           MergeEnds(h, B, bp, first, last), NEW end, end = NEXT_BLKP(h, last),
           NEW n, NEW C, MergedAt(n, C, h, B, first, end)
    PROVE  MergeIsRight(n, C, h, B, bp, first)
<1>p. PICK prev \in B :
        /\ NEXT_BLKP(h, prev) = bp
        /\ \/ first = bp /\ (h.hdr[prev].alloc \/ h.hdr[prev].tag)
           \/ first = prev /\ ~h.hdr[prev].alloc
  BY DEF MergeEnds
<1>q. \/ last = bp /\ h.hdr[NEXT_BLKP(h, bp)].alloc
      \/ last = NEXT_BLKP(h, bp) /\ ~h.hdr[last].alloc
  BY DEF MergeEnds
<1>r. ~h.hdr[bp].alloc /\ first \in B /\ last \in B
  BY DEF MergeEnds
<1>1. \A c \in B \cup {h.brk} : c \in Nat /\ c \in Units
  BY TilingTypes, UnitsAreNaturals
<1>2. /\ \A b \in B : b < NEXT_BLKP(h, b) /\ NEXT_BLKP(h, b) \in B \cup {h.brk}
      /\ \A b \in B : NEXT_BLKP(h, b) <= h.brk /\ NEXT_BLKP(h, b) = b + h.hdr[b].size
      /\ \A b \in B : h.hdr[b].size \in Nat
      /\ \A b, c \in B : b < c => NEXT_BLKP(h, b) <= c
  BY TilingTypes
<1>3. \A c \in B : NEXT_BLKP(h, c) = bp => c = prev
  <2> SUFFICES ASSUME NEW c \in B, NEXT_BLKP(h, c) = bp PROVE c = prev
    OBVIOUS
  <2>1. c < bp /\ prev < bp /\ c \in Nat /\ prev \in Nat /\ bp \in Nat
    BY <1>1, <1>2, <1>p
  <2>2. (c < prev => bp <= prev) /\ (prev < c => bp <= c)
    BY <1>2, <1>p
  <2> QED BY <2>1, <2>2
<1>4. first <= bp /\ bp <= last /\ first <= last /\ last < end /\ first < end /\ bp < end
  <2>1. /\ prev < bp /\ bp < NEXT_BLKP(h, bp) /\ last < end
        /\ prev \in Nat /\ bp \in Nat /\ last \in Nat /\ first \in Nat /\ end \in Nat
    BY <1>1, <1>2, <1>p, <1>r
  <2> QED BY <2>1, <1>p, <1>q
<1>5. end \in B \cup {h.brk} /\ first \in B /\ last \in B
  BY <1>2, <1>r
<1>6. ~h.hdr[first].alloc /\ ~h.hdr[last].alloc
  BY <1>p, <1>q, <1>r
<1>7. /\ Tiling(n, C) /\ first \in C /\ first # heap_listp /\ NEXT_BLKP(n, first) = end
      /\ C \subseteq B /\ n.brk = h.brk
  BY DEF MergedAt
<1>8. \A x \in B : x \in C <=> x <= first \/ end <= x
  BY DEF MergedAt
<1>9. /\ ~n.hdr[first].alloc /\ n.hdr[first].size = end - first
      /\ n.hdr[first].tag = h.hdr[first].tag
  BY DEF MergedAt
<1>10. \A x \in Units \ {first} : n.hdr[x] = h.hdr[x]
  BY DEF MergedAt
<1>11. \A x \in C : x # first => n.hdr[x] = h.hdr[x] /\ NEXT_BLKP(n, x) = NEXT_BLKP(h, x)
  <2> SUFFICES ASSUME NEW x \in C, x # first
               PROVE  n.hdr[x] = h.hdr[x] /\ NEXT_BLKP(n, x) = NEXT_BLKP(h, x)
    OBVIOUS
  <2>1. x \in Units \ {first}
    BY <1>1, <1>7
  <2>2. n.hdr[x] = h.hdr[x]
    BY <1>10, <2>1
  <2> QED BY <2>2 DEF NEXT_BLKP
<1>12. ASSUME NEW x \in B, x \notin C PROVE ~h.hdr[x].alloc
  <2>1. first < x /\ x < end /\ x \in Nat
    BY <1>1, <1>5, <1>8, <1>12
  <2>2. x = bp \/ x = last
    <3>1. bp <= x
      <4>1. CASE first = bp
        BY <1>1, <2>1, <4>1
      <4>2. CASE first = prev
        BY <1>2, <1>p, <2>1, <4>2
      <4> QED BY <1>p, <4>1, <4>2
    <3>2. bp < x => NEXT_BLKP(h, bp) <= x
      BY <1>2
    <3>3. last < x => end <= x
      BY <1>2, <1>5
    <3>4. CASE last = bp
      BY <1>1, <1>5, <2>1, <3>1, <3>3, <3>4
    <3>5. CASE last = NEXT_BLKP(h, bp)
      BY <1>1, <1>5, <2>1, <3>1, <3>2, <3>3, <3>5
    <3> QED BY <1>q, <3>4, <3>5
  <2> QED BY <1>6, <1>r, <2>2
<1>13. SameAllocated(n, C, h, B)
  <2>1. \A x \in C : n.hdr[x].alloc => x # first
    BY <1>9
  <2>2. Allocated(n, C) = Allocated(h, B)
    BY <1>6, <1>7, <1>11, <1>12, <2>1 DEF Allocated
  <2>3. \A x \in Allocated(h, B) : x \in C /\ x # first
    BY <1>6, <1>12 DEF Allocated
  <2> QED BY <1>11, <2>2, <2>3 DEF SameAllocated
<1>14. h.current_block \in B /\ h.current_block \in Nat /\ first \in Nat /\ end \in Nat
  BY <1>1, <1>5 DEF SearchOK
<1>15. n.current_block = IF h.current_block > first /\ h.current_block < end
                        THEN first ELSE h.current_block
  BY DEF MergedAt
<1>16. SearchOK(n, C) /\ n.current_block <= h.current_block
  <2>1. CASE h.current_block > first /\ h.current_block < end
    BY <1>7, <1>14, <1>15, <2>1 DEF SearchOK
  <2>2. CASE ~(h.current_block > first /\ h.current_block < end)
    <3>1. h.current_block <= first \/ end <= h.current_block
      BY <1>14, <2>2
    <3>2. h.current_block \in C
      BY <1>8, <1>14, <3>1
    <3> QED BY <1>14, <1>15, <2>2, <3>2 DEF SearchOK
  <2> QED BY <2>1, <2>2
<1>17. ASSUME CoalescedBut(h, B, bp) PROVE n.hdr[end].alloc
  <2>1. end \in Units \ {first}
    BY <1>1, <1>4, <1>5
  <2>2. h.hdr[end].alloc
    <3>1. CASE h.hdr[NEXT_BLKP(h, bp)].alloc
      BY <1>6, <1>q, <3>1
    <3>2. CASE ~h.hdr[NEXT_BLKP(h, bp)].alloc
      <4>1. last = NEXT_BLKP(h, bp) /\ bp < last
        BY <1>2, <1>q, <3>2
      <4>2. last # bp /\ end # bp
        <5>1. bp \in Nat /\ last \in Nat /\ end \in Nat
          BY <1>1, <1>5
        <5> QED BY <1>4, <4>1, <5>1
      <4>3. ~h.hdr[last].alloc /\ last \in B /\ NEXT_BLKP(h, last) = end
        BY <1>5, <1>6
      <4>4. h.hdr[NEXT_BLKP(h, last)].alloc
        BY <1>17, <4>2, <4>3 DEF CoalescedBut
      <4> QED BY <4>3, <4>4
    <3> QED BY <3>1, <3>2
  <2> QED BY <1>10, <2>1, <2>2
<1>18. ASSUME CoalescedBut(h, B, bp), Untagged(h, B) PROVE IsCoalesced(n, C)
  <2>0. ~h.hdr[prev].tag
    BY <1>18 DEF Untagged
  <2> SUFFICES ASSUME NEW x \in C, ~n.hdr[x].alloc PROVE n.hdr[NEXT_BLKP(n, x)].alloc
    BY DEF IsCoalesced
  <2>1. CASE x = first
    BY <1>7, <1>17, <1>18, <2>1
  <2>2. CASE x # first
    <3>1. x \in B /\ ~h.hdr[x].alloc /\ NEXT_BLKP(n, x) = NEXT_BLKP(h, x)
      BY <1>7, <1>11, <2>2
    <3>2. NEXT_BLKP(h, x) \in B \cup {h.brk} /\ NEXT_BLKP(h, x) \in Units
      BY <1>1, <1>2, <3>1
    <3>3. x # bp
      <4>1. x <= first \/ end <= x
        BY <1>8, <3>1
      <4> QED BY <1>1, <1>4, <1>5, <2>2, <3>1, <4>1
    <3>4. NEXT_BLKP(h, x) = bp => x = prev
      BY <1>3, <3>1
    <3>5. NEXT_BLKP(h, x) # first
      <4>1. CASE first = bp
        <5>1. h.hdr[prev].alloc
          BY <1>1, <1>2, <1>p, <2>0, <4>1
        <5> QED BY <3>1, <3>4, <4>1, <5>1
      <4>2. CASE first = prev /\ ~h.hdr[prev].alloc
        <5>1. prev # bp /\ bp \in Nat /\ prev \in Nat /\ prev < bp
          BY <1>1, <1>2, <1>p
        <5> QED BY <1>18, <3>1, <3>3, <4>2, <5>1 DEF CoalescedBut
      <4> QED BY <1>p, <4>1, <4>2
    <3>6. NEXT_BLKP(h, x) # bp
      <4> SUFFICES ASSUME x = prev PROVE FALSE
        BY <3>4
      <4>1. first = bp /\ h.hdr[prev].alloc
        BY <1>p, <2>0, <2>2
      <4> QED BY <3>1, <4>1
    <3>7. h.hdr[NEXT_BLKP(h, x)].alloc
      BY <1>18, <3>1, <3>3, <3>6 DEF CoalescedBut
    <3>8. n.hdr[NEXT_BLKP(h, x)] = h.hdr[NEXT_BLKP(h, x)]
      BY <1>10, <3>2, <3>5
    <3> QED BY <3>1, <3>7, <3>8
  <2> QED BY <2>1, <2>2
<1>19. FreeBlock(n, C, first, h.hdr[bp].size)
  <2>1. NEXT_BLKP(h, bp) <= end
    BY <1>1, <1>2, <1>4, <1>5
  <2>2. NEXT_BLKP(h, bp) = bp + h.hdr[bp].size /\ h.hdr[bp].size \in Nat
    BY <1>2
  <2>3. bp \in Nat /\ first \in Nat /\ end \in Nat
    BY <1>1, <1>5
  <2>4. \A f, a, e, z \in Nat : f <= a /\ a + z <= e => z <= e - f
    OBVIOUS
  <2>5. h.hdr[bp].size <= end - first
    BY <1>4, <2>1, <2>2, <2>3, <2>4
  <2> QED BY <1>7, <1>9, <2>5 DEF FreeBlock
<1>20. ASSUME Untagged(h, B) PROVE Untagged(n, C)
  <2>1. \A x \in C : x # first => ~n.hdr[x].tag
    BY <1>7, <1>11, <1>20 DEF Untagged
  <2>2. h.brk \in Units \ {first} /\ ~h.hdr[h.brk].tag
    <3>1. h.brk \notin B
      BY TilingTypes
    <3>2. ~h.hdr[h.brk].tag
      BY <1>20 DEF Untagged
    <3> QED BY <1>1, <1>5, <3>1, <3>2
  <2>3. ~n.hdr[n.brk].tag
    BY <1>7, <1>10, <2>2
  <2>4. ~n.hdr[first].tag
    <3>1. ~h.hdr[first].tag
      BY <1>5, <1>20 DEF Untagged
    <3> QED BY <1>9, <3>1
  <2> QED BY <2>1, <2>3, <2>4 DEF Untagged
<1> QED BY <1>7, <1>13, <1>16, <1>18, <1>19, <1>20 DEF MergeIsRight, HeapOK, Neat

\* What coalesce does when there is a free neighbour.
LEMMA MergeKeeps ==
    ASSUME NEW h, NEW B, Tiling(h, B), NEW bp \in B, bp # heap_listp, ~h.hdr[bp].alloc,
           SearchOK(h, B), NEW first, NEW last, first # last,
           first = IF PrevAlloc(h, bp) THEN bp ELSE PREV_BLKP(h, bp),
           last = IF h.hdr[NEXT_BLKP(h, bp)].alloc THEN bp ELSE NEXT_BLKP(h, bp),
           NEW n, n = Merge(h, first, last).heap,
           NEW C, C = Joined(B, first, NEXT_BLKP(h, last))
    PROVE  MergeIsRight(n, C, h, B, bp, first)
<1> DEFINE prev == PREV_BLKP(h, bp)
           end == NEXT_BLKP(h, last)
<1>1. prev \in B /\ NEXT_BLKP(h, prev) = bp
  BY BlockBefore
<1> HIDE DEF prev
<1>2. first = IF h.hdr[prev].alloc \/ h.hdr[prev].tag THEN bp ELSE prev
  BY CoalesceSees DEF prev
<1>3. first \in B /\ last \in B
  BY <1>1, <1>2, CoalesceSees
<1>4. first < last
  <2>1. prev < bp /\ bp < NEXT_BLKP(h, bp)
    BY <1>1, TilingTypes
  <2>2. prev \in Nat /\ bp \in Nat /\ last \in Nat
    BY <1>1, <1>3, TilingTypes, UnitsAreNaturals
  <2> QED BY <1>2, <2>1, <2>2
<1>5. \/ first = bp /\ (h.hdr[prev].alloc \/ h.hdr[prev].tag)
      \/ first = prev /\ ~h.hdr[prev].alloc
  BY <1>2
<1>6. \/ last = bp /\ h.hdr[NEXT_BLKP(h, bp)].alloc
      \/ last = NEXT_BLKP(h, bp) /\ ~h.hdr[last].alloc
  OBVIOUS
<1>7. ~h.hdr[first].alloc
  BY <1>5
<1>8. MergedAt(n, C, h, B, first, end)
  BY <1>3, <1>4, <1>7, MergeTiles
<1>9. MergeEnds(h, B, bp, first, last)
  BY <1>1, <1>3, <1>5, <1>6 DEF MergeEnds
<1> QED BY <1>8, <1>9, MergedKeeps

\* new is what coalesce, or extend_heap, returns: its block is free and large enough, and
\* the allocated blocks are those of h.
NewFree(new, C, h, B, size) ==
    /\ HeapOK(new.heap, C) /\ FreeBlock(new.heap, C, new.bp, size)
    /\ SameAllocated(new.heap, C, h, B)

\* coalesce, with all that may have happened to the block before it.
CoalescedAt(new, C, h, B, bp) ==
    /\ NewFree(new, C, h, B, h.hdr[bp].size)
    /\ new.heap.brk = h.brk /\ new.heap.current_block <= h.current_block
    /\ CoalescedBut(h, B, bp) /\ Untagged(h, B) => Neat(new.heap, C)

LEMMA CoalesceKeeps ==
    ASSUME NEW h, NEW B, Tiling(h, B), NEW bp \in B, bp # heap_listp, ~h.hdr[bp].alloc,
           SearchOK(h, B)
    PROVE  \E C : CoalescedAt(coalesce(h, bp), C, h, B, bp)
<1> DEFINE first == IF PrevAlloc(h, bp) THEN bp ELSE PREV_BLKP(h, bp)
           last == IF h.hdr[NEXT_BLKP(h, bp)].alloc THEN bp ELSE NEXT_BLKP(h, bp)
           new == coalesce(h, bp)
<1>1. new = Merge(h, first, last)
  BY DEF coalesce
<1>2. CASE first = last
  <2>1. bp \in Nat /\ h.hdr[bp].size \in Nat /\ bp < NEXT_BLKP(h, bp) /\ NEXT_BLKP(h, bp) \in Nat
    BY TilingTypes, UnitsAreNaturals
  <2>2. /\ PREV_BLKP(h, bp) \in B /\ PREV_BLKP(h, bp) < bp /\ PREV_BLKP(h, bp) \in Nat
        /\ \A c \in B : NEXT_BLKP(h, c) = bp => c = PREV_BLKP(h, bp)
    BY BlockBefore, TilingTypes, UnitsAreNaturals
  <2>3. /\ first = bp /\ h.hdr[NEXT_BLKP(h, bp)].alloc
        /\ h.hdr[PREV_BLKP(h, bp)].alloc \/ h.hdr[PREV_BLKP(h, bp)].tag
    BY <1>2, <2>1, <2>2, CoalesceSees
  <2>4. new.heap = h /\ new.bp = bp
    BY <1>1, <1>2, <2>3 DEF Merge
  <2>5. CoalescedBut(h, B, bp) /\ Untagged(h, B) => Neat(h, B)
    BY <2>2, <2>3 DEF IsCoalesced, CoalescedBut, Untagged, Neat
  <2>6. HeapOK(h, B) /\ FreeBlock(h, B, bp, h.hdr[bp].size) /\ SameAllocated(h, B, h, B)
    BY <2>1 DEF HeapOK, FreeBlock, SameAllocated
  <2>7. h.current_block <= h.current_block
    BY TilingTypes, UnitsAreNaturals
  <2> QED BY <2>4, <2>5, <2>6, <2>7 DEF NewFree, CoalescedAt
<1>3. CASE first # last
  <2> DEFINE n == Merge(h, first, last).heap
             C == Joined(B, first, NEXT_BLKP(h, last))
  <2>1. MergeIsRight(n, C, h, B, bp, first)
    <3> HIDE DEF n, C
    <3>1. n = Merge(h, first, last).heap /\ C = Joined(B, first, NEXT_BLKP(h, last))
      BY DEF n, C
    <3>2. /\ first = IF PrevAlloc(h, bp) THEN bp ELSE PREV_BLKP(h, bp)
          /\ last = IF h.hdr[NEXT_BLKP(h, bp)].alloc THEN bp ELSE NEXT_BLKP(h, bp)
      OBVIOUS
    <3> HIDE DEF first, last
    <3> QED BY <1>3, <3>1, <3>2, MergeKeeps
  <2>2. new.heap = n /\ new.bp = first
    BY <1>1, <1>3 DEF Merge
  <2> HIDE DEF n, C, new, first
  <2>3. CoalescedAt(new, C, h, B, bp)
    BY <2>1, <2>2 DEF MergeIsRight, NewFree, CoalescedAt
  <2> QED BY <2>3 DEF new
<1> QED BY <1>2, <1>3

\* The heap as extend_heap leaves it to coalesce.
Grown(h, size) ==
    [PutBlock([h EXCEPT !.brk = h.brk + size], h.brk, size, FALSE, FALSE)
        EXCEPT !.hdr[h.brk + size] = [size |-> 0, alloc |-> TRUE, tag |-> FALSE]]

GrownBy(n, h, size) ==
    /\ n \in Heap /\ n.brk = h.brk + size /\ n.current_block = h.current_block
    /\ n.hdr[h.brk] = [size |-> size, alloc |-> FALSE, tag |-> FALSE]
    /\ n.hdr[h.brk + size] = [size |-> 0, alloc |-> TRUE, tag |-> FALSE]
    /\ \A x \in Units : x # h.brk /\ x # h.brk + size => n.hdr[x] = h.hdr[x]
    /\ n.ftr[h.brk + size - 1] = [size |-> size, alloc |-> FALSE]
    /\ \A x \in Units : x # h.brk + size - 1 => n.ftr[x] = h.ftr[x]

LEMMA GrownWrites ==
    ASSUME NEW h \in Heap, NEW size \in Nat \ {0}, h.brk + size <= MAX_HEAP
    PROVE  GrownBy(Grown(h, size), h, size)
<1> DEFINE g == [h EXCEPT !.brk = h.brk + size]
           m == PutBlock(g, h.brk, size, FALSE, FALSE)
           epilogue == [size |-> 0, alloc |-> TRUE, tag |-> FALSE]
           n == [m EXCEPT !.hdr[h.brk + size] = epilogue]
<1>1. h.brk \in Units /\ h.brk \in Nat /\ 1 <= h.brk /\ MAX_HEAP \in Nat
  BY UnitsAreNaturals DEF Heap
<1>2. h.brk + size \in Units /\ h.brk + size - 1 \in Units /\ size \in 0 .. MAX_HEAP
      /\ h.brk + size # h.brk
  BY <1>1 DEF Units
<1>3. g \in Heap /\ g.brk = h.brk + size /\ g.hdr = h.hdr /\ g.ftr = h.ftr
      /\ g.current_block = h.current_block
  BY <1>2 DEF Heap
<1> HIDE DEF g
<1>4. Written(m, g, h.brk, size, FALSE, FALSE)
  BY <1>1, <1>2, <1>3, PutBlockWrites
<1> HIDE DEF m
<1>5. epilogue \in Header
  BY <1>1 DEF Header
<1> HIDE DEF epilogue
<1>6. /\ n \in Heap /\ n.brk = m.brk /\ n.current_block = m.current_block /\ n.ftr = m.ftr
      /\ n.hdr[h.brk + size] = epilogue
      /\ \A x \in Units : x # h.brk + size => n.hdr[x] = m.hdr[x]
  BY <1>2, <1>4, <1>5 DEF Heap, Written
<1> HIDE DEF n
<1>7. GrownBy(n, h, size)
  BY <1>1, <1>2, <1>3, <1>4, <1>6 DEF GrownBy, Written, epilogue
<1> QED BY <1>7 DEF n, m, g, epilogue, Grown

LEMMA GrownTiles ==
    ASSUME NEW h, NEW B, HeapOK(h, B), NEW size \in Nat \ {0}, h.brk + size <= MAX_HEAP,
           NEW n, n = Grown(h, size), NEW C, C = B \cup {h.brk}
    PROVE  /\ Tiling(n, C) /\ SearchOK(n, C) /\ SameAllocated(n, C, h, B)
           /\ n.brk = h.brk + size /\ n.current_block = h.current_block
           /\ ~n.hdr[h.brk].alloc /\ n.hdr[h.brk].size = size /\ h.brk # heap_listp
           /\ Neat(h, B) => CoalescedBut(n, C, h.brk) /\ Untagged(n, C)
<1>1. Tiling(h, B) /\ SearchOK(h, B) /\ h \in Heap
  BY DEF HeapOK, Tiling
<1>2. /\ h.brk \in Units /\ h.brk \notin B /\ B \subseteq Units /\ h.brk \in Nat /\ 1 <= h.brk
      /\ MAX_HEAP \in Nat
  BY <1>1, TilingTypes, UnitsAreNaturals
<1>3. GrownBy(n, h, size)
  BY <1>1, GrownWrites
<1> DEFINE top == h.brk + size
<1>4. top \in Units /\ top \in Nat /\ h.brk < top /\ top - 1 \in Units
  BY <1>2 DEF Units
<1>5. /\ n.hdr[h.brk].size = size /\ ~n.hdr[h.brk].alloc /\ ~n.hdr[h.brk].tag
      /\ n.hdr[h.brk].alloc = FALSE /\ n.brk = top /\ n.current_block = h.current_block
  BY <1>3 DEF GrownBy
<1>14. n.hdr[top].size = 0 /\ n.hdr[top].alloc /\ ~n.hdr[top].tag
  BY <1>3 DEF GrownBy
<1>6. NEXT_BLKP(n, h.brk) = top
  BY <1>5 DEF NEXT_BLKP
<1>7. ASSUME NEW b \in B
      PROVE  /\ b \in Nat /\ b < h.brk /\ n.hdr[b] = h.hdr[b]
             /\ NEXT_BLKP(n, b) = NEXT_BLKP(h, b)
             /\ NEXT_BLKP(h, b) \in Nat /\ NEXT_BLKP(h, b) <= h.brk /\ NEXT_BLKP(h, b) \in Units
             /\ NEXT_BLKP(h, b) \in B \cup {h.brk} /\ b < NEXT_BLKP(h, b)
             /\ n.ftr[NEXT_BLKP(h, b) - 1] = h.ftr[NEXT_BLKP(h, b) - 1]
  <2>1. /\ b \in Nat /\ b \in Units /\ b < h.brk /\ 1 <= b
        /\ NEXT_BLKP(h, b) \in Nat /\ NEXT_BLKP(h, b) <= h.brk /\ NEXT_BLKP(h, b) \in Units
        /\ NEXT_BLKP(h, b) \in B \cup {h.brk} /\ b < NEXT_BLKP(h, b)
    BY <1>1, <1>2, TilingTypes, UnitsAreNaturals
  <2>2. b # h.brk /\ b # top
    BY <1>2, <1>4, <2>1
  <2>3. n.hdr[b] = h.hdr[b]
    BY <1>3, <2>1, <2>2 DEF GrownBy
  <2>4. NEXT_BLKP(h, b) - 1 \in Units /\ NEXT_BLKP(h, b) - 1 # top - 1
    BY <1>2, <1>4, <2>1 DEF Units
  <2>5. n.ftr[NEXT_BLKP(h, b) - 1] = h.ftr[NEXT_BLKP(h, b) - 1]
    <3>1. \A x \in Units : x # top - 1 => n.ftr[x] = h.ftr[x]
      BY <1>2, <1>3, <1>4 DEF GrownBy
    <3> QED BY <2>4, <3>1
  <2> QED BY <2>1, <2>3, <2>5 DEF NEXT_BLKP
<1>13. n.ftr[top - 1] = [size |-> size, alloc |-> FALSE]
  BY <1>2, <1>3, <1>4 DEF GrownBy
<1> HIDE DEF top
<1>8. Tiling(n, C)
  <2>1. n \in Heap /\ C \subseteq Units
    BY <1>2, <1>3 DEF GrownBy
  <2>2. heap_listp \in C /\ n.hdr[heap_listp].alloc
    <3>1. heap_listp \in B /\ h.hdr[heap_listp].alloc
      BY <1>1 DEF Tiling
    <3> QED BY <1>7, <3>1
  <2>3. n.hdr[n.brk].size = 0 /\ n.hdr[n.brk].alloc
    BY <1>5, <1>14
  <2>4. ASSUME NEW b \in C
        PROVE  /\ b < n.brk /\ n.hdr[b].size > 0
               /\ NEXT_BLKP(n, b) \in C \cup {n.brk}
               /\ n.ftr[NEXT_BLKP(n, b) - 1] = [size |-> n.hdr[b].size, alloc |-> n.hdr[b].alloc]
    <3>1. CASE b = h.brk
      <4>1. n.ftr[NEXT_BLKP(n, b) - 1] = [size |-> n.hdr[b].size, alloc |-> n.hdr[b].alloc]
        BY <1>5, <1>6, <1>13, <3>1
      <4>2. n.hdr[b].size > 0
        BY <1>5, <3>1
      <4> QED BY <1>4, <1>5, <1>6, <3>1, <4>1, <4>2
    <3>2. CASE b \in B
      <4>1. /\ h.hdr[b].size > 0
            /\ h.ftr[NEXT_BLKP(h, b) - 1] = [size |-> h.hdr[b].size, alloc |-> h.hdr[b].alloc]
        BY <1>1, <3>2 DEF Tiling
      <4>2. b < n.brk
        BY <1>2, <1>4, <1>5, <1>7, <3>2
      <4> QED BY <1>7, <3>2, <4>1, <4>2
    <3> QED BY <3>1, <3>2
  <2>5. ASSUME NEW b \in C, NEW c \in C, b < c PROVE NEXT_BLKP(n, b) <= c
    <3>1. CASE b \in B /\ c \in B
      BY <1>1, <1>7, <2>5, <3>1, TilingTypes
    <3>2. CASE b \in B /\ c = h.brk
      BY <1>7, <3>2
    <3>3. CASE b = h.brk
      BY <1>2, <1>7, <2>5, <3>3
    <3> QED BY <3>1, <3>2, <3>3
  <2> QED BY <2>1, <2>2, <2>3, <2>4, <2>5 DEF Tiling
<1>9. SearchOK(n, C)
  BY <1>1, <1>5 DEF SearchOK
<1>10. Neat(h, B) => CoalescedBut(n, C, h.brk) /\ Untagged(n, C)
  <2>1. Neat(h, B) => CoalescedBut(n, C, h.brk)
    BY <1>7 DEF CoalescedBut, IsCoalesced, Neat
  <2>2. Neat(h, B) => Untagged(n, C)
    BY <1>5, <1>7, <1>14 DEF Untagged, Neat
  <2> QED BY <2>1, <2>2
<1>11. SameAllocated(n, C, h, B)
  BY <1>5, <1>7 DEF SameAllocated, Allocated
<1>12. h.brk # heap_listp
  BY <1>1, <1>2, TilingTypes
<1> QED BY <1>5, <1>8, <1>9, <1>10, <1>11, <1>12 DEF top

ExtendedBy(new, C, h, B, size) ==
    /\ NewFree(new, C, h, B, size)
    /\ new.heap.brk = h.brk + size /\ new.heap.current_block <= h.current_block
    /\ Neat(h, B) => Neat(new.heap, C)

LEMMA ExtendHeapKeeps ==
    ASSUME NEW h, NEW B, HeapOK(h, B), NEW size \in Nat \ {0}
    PROVE  \/ extend_heap(h, size) = [heap |-> h, bp |-> NULL]
           \/ \E C : ExtendedBy(extend_heap(h, size), C, h, B, size)
<1>1. CASE OutOfMemory(h, size)
  BY <1>1 DEF extend_heap
<1>2. CASE ~OutOfMemory(h, size)
  <2> DEFINE n == Grown(h, size)
             C == B \cup {h.brk}
             new == coalesce(n, h.brk)
  <2>1. h.brk + size <= MAX_HEAP
    <3>1. h.brk \in Nat /\ MAX_HEAP \in Nat
      BY TilingTypes, UnitsAreNaturals DEF HeapOK
    <3> QED BY <1>2, <3>1 DEF OutOfMemory
  <2>2. extend_heap(h, size) = new
    BY <1>2 DEF extend_heap, Grown
  <2>3. /\ Tiling(n, C) /\ SearchOK(n, C) /\ SameAllocated(n, C, h, B) /\ h.brk \in C
        /\ n.brk = h.brk + size /\ n.current_block = h.current_block
        /\ ~n.hdr[h.brk].alloc /\ n.hdr[h.brk].size = size /\ h.brk # heap_listp
        /\ Neat(h, B) => CoalescedBut(n, C, h.brk) /\ Untagged(n, C)
    BY <2>1, GrownTiles
  <2> HIDE DEF n, C
  <2>4. PICK D : CoalescedAt(new, D, n, C, h.brk)
    BY <2>3, CoalesceKeeps
  <2> HIDE DEF new
  <2>5. ExtendedBy(new, D, h, B, size)
    BY <2>3, <2>4 DEF CoalescedAt, ExtendedBy, NewFree, SameAllocated
  <2> QED BY <2>2, <2>5
<1> QED BY <1>1, <1>2

-----------------------------------------------------------------------------
(* find_fit. *)

LEMMA MinIsLeast ==
    ASSUME NEW S, S \subseteq Nat, S # {}
    PROVE  Min(S) \in S /\ \A j \in S : Min(S) <= j
<1>1. \E i \in S : \A j \in S : i <= j
  BY LeastExists
<1> QED BY <1>1 DEF Min

LEMMA BestFitFits ==
    ASSUME NEW h, NEW B, HeapOK(h, B), NEW asize
    PROVE  \/ BestFit(h, asize) \in B /\ Fits(h, BestFit(h, asize), asize)
           \/ /\ BestFit(h, asize) = NULL
              /\ \A b \in B : b < h.current_block => ~Fits(h, b, asize)
<1> DEFINE fit == {b \in B : b < h.current_block /\ Fits(h, b, asize)}
           smallest == {b \in fit : \A c \in fit : h.hdr[b].size <= h.hdr[c].size}
<1>1. BestFit(h, asize) = IF fit = {} THEN NULL ELSE Min(smallest)
  BY BlocksOfTiling DEF BestFit, HeapOK
<1>2. CASE fit = {}
  BY <1>1, <1>2
<1>3. CASE fit # {}
  <2> DEFINE sizes == {h.hdr[b].size : b \in fit}
  <2>1. sizes \subseteq Nat /\ sizes # {}
    BY <1>3, TilingTypes DEF HeapOK
  <2>2. PICK z \in sizes : \A y \in sizes : z <= y
    BY <2>1, LeastExists
  <2>3. smallest # {}
    BY <2>2
  <2>4. smallest \subseteq Nat
    BY TilingTypes, UnitsAreNaturals DEF HeapOK
  <2>5. Min(smallest) \in smallest
    BY <2>3, <2>4, MinIsLeast
  <2> QED BY <1>1, <1>3, <2>5
<1> QED BY <1>2, <1>3

\* find_fit leaves the blocks alone, keeps its place in the list, and returns a block that
\* fits, or NULL when there is none.
FitFound(found, h, B, asize) ==
    /\ HeapOK(found.heap, B) /\ found.heap.hdr = h.hdr /\ found.heap.brk = h.brk
    /\ found.bp # NULL => FreeBlock(found.heap, B, found.bp, asize)
    /\ found.bp = NULL => \A b \in B : ~Fits(h, b, asize)

LEMMA FindFitFits ==
    ASSUME NEW h, NEW B, HeapOK(h, B), NEW asize
    PROVE  FitFound(find_fit(h, asize), h, B, asize)
<1> DEFINE next == {b \in BlocksFrom(h, h.current_block) : Fits(h, b, asize)}
           found == find_fit(h, asize)
<1>1. Tiling(h, B) /\ h.current_block \in B /\ h \in Heap
  BY DEF HeapOK, SearchOK, Tiling
<1>2. \A b \in B \cup {h.brk} : b \in Nat /\ b \in Units /\ 1 <= b
  BY <1>1, TilingTypes, UnitsAreNaturals
<1>3. next = {b \in B : h.current_block <= b /\ Fits(h, b, asize)}
  BY <1>1, WalkVisits
<1>4. ASSUME NEW c \in B
      PROVE  /\ HeapOK([h EXCEPT !.current_block = c], B)
             /\ [h EXCEPT !.current_block = c].hdr = h.hdr /\ [h EXCEPT !.current_block = c].brk = h.brk
  <2> DEFINE n == [h EXCEPT !.current_block = c]
  <2>1. Moved(n, h, c)
    BY <1>1, <1>2, MoveCurrent
  <2> HIDE DEF n
  <2>2. Tiling(n, B) /\ n.hdr = h.hdr /\ n.current_block = c /\ n.brk = h.brk
    BY <1>1, <2>1, MovedTiles DEF Moved
  <2>3. HeapOK(n, B) /\ n.hdr = h.hdr /\ n.brk = h.brk
    BY <2>2 DEF HeapOK, SearchOK
  <2> QED BY <2>3 DEF n
<1>5. \A b \in B : Fits(h, b, asize) => FreeBlock(h, B, b, asize)
  BY <1>1 DEF Fits, FreeBlock, Tiling
<1>6. CASE next # {}
  <2>1. Min(next) \in next
    BY <1>2, <1>3, <1>6, MinIsLeast
  <2> DEFINE bp == Min(next)
  <2>2. bp \in B /\ Fits(h, bp, asize) /\ bp # NULL
    BY <1>2, <1>3, <2>1 DEF NULL
  <2>3. found = [heap |-> [h EXCEPT !.current_block = bp], bp |-> bp]
    BY <1>6 DEF find_fit
  <2> HIDE DEF bp, found, next
  <2>4. HeapOK(found.heap, B) /\ found.heap.hdr = h.hdr /\ found.heap.brk = h.brk /\ found.bp = bp
    BY <1>4, <2>2, <2>3
  <2>5. FreeBlock(found.heap, B, bp, asize)
    BY <1>5, <2>2, <2>4 DEF FreeBlock
  <2>6. FitFound(found, h, B, asize)
    BY <2>2, <2>4, <2>5 DEF FitFound
  <2> QED BY <2>6 DEF found
<1>7. CASE next = {}
  <2> DEFINE ahead == {b \in B \cup {h.brk} : b >= h.current_block}
             bp == BestFit(h, asize)
             end == SearchEnd(h)
  <2>1. end = h.current_block
    <3>1. ahead \subseteq Nat /\ h.current_block \in ahead
      BY <1>1, <1>2
    <3>2. end = Min(ahead)
      BY <1>1, BlocksOfTiling DEF SearchEnd
    <3>3. end \in ahead /\ end <= h.current_block
      BY <3>1, <3>2, MinIsLeast
    <3> QED BY <1>1, <1>2, <3>3
  <2>2. found = [heap |-> [h EXCEPT !.current_block = end], bp |-> bp]
    BY <1>7 DEF find_fit
  <2>3. \/ bp \in B /\ Fits(h, bp, asize)
        \/ bp = NULL /\ \A b \in B : b < h.current_block => ~Fits(h, b, asize)
    BY BestFitFits
  <2>4. \A b \in B : h.current_block <= b => ~Fits(h, b, asize)
    BY <1>3, <1>7
  <2>5. NULL \notin B
    BY <1>2 DEF NULL
  <2> HIDE DEF bp, found, next, end
  <2>6. HeapOK(found.heap, B) /\ found.heap.hdr = h.hdr /\ found.heap.brk = h.brk /\ found.bp = bp
    BY <1>1, <1>4, <2>1, <2>2
  <2>7. bp # NULL => FreeBlock(found.heap, B, bp, asize)
    BY <1>5, <2>3, <2>6 DEF FreeBlock
  <2>8. bp = NULL => \A b \in B : ~Fits(h, b, asize)
    BY <1>1, <1>2, <2>3, <2>4, <2>5
  <2>9. FitFound(found, h, B, asize)
    BY <2>6, <2>7, <2>8 DEF FitFound
  <2> QED BY <2>9 DEF found
<1> QED BY <1>6, <1>7

-----------------------------------------------------------------------------
(* place. *)

\* n is h but for the block at bp, which is allocated and followed by a free one.
SplitAt(n, h, bp, mid, end, tag) ==
    /\ n \in Heap /\ n.brk = h.brk /\ n.current_block = h.current_block
    /\ n.hdr[bp] = [size |-> mid - bp, alloc |-> TRUE, tag |-> tag]
    /\ n.hdr[mid] = [size |-> end - mid, alloc |-> FALSE, tag |-> FALSE]
    /\ \A x \in Units : x # bp /\ x # mid => n.hdr[x] = h.hdr[x]
    /\ n.ftr[mid - 1] = [size |-> mid - bp, alloc |-> TRUE]
    /\ n.ftr[end - 1] = [size |-> end - mid, alloc |-> FALSE]
    /\ \A x \in Units : x # mid - 1 /\ x # end - 1 => n.ftr[x] = h.ftr[x]

LEMMA SplitWrites ==
    ASSUME NEW h \in Heap, NEW bp \in Units, NEW asize \in Nat \ {0}, NEW rest \in Nat \ {0},
           bp + asize + rest <= MAX_HEAP, NEW tag \in BOOLEAN,
           NEW n, n = PutBlock(PutBlock(h, bp, asize, TRUE, tag), bp + asize, rest, FALSE, FALSE)
    PROVE  SplitAt(n, h, bp, bp + asize, bp + asize + rest, tag)
<1> DEFINE m == PutBlock(h, bp, asize, TRUE, tag)
           mid == bp + asize
           end == bp + asize + rest
<1>0. bp \in Nat /\ 1 <= bp /\ MAX_HEAP \in Nat
  BY UnitsAreNaturals
<1>1. /\ mid \in Units /\ mid - 1 \in Units /\ end - 1 \in Units /\ mid \in Nat /\ end \in Nat
      /\ asize \in 0 .. MAX_HEAP /\ rest \in 0 .. MAX_HEAP
      /\ bp < mid /\ mid < end /\ mid - bp = asize /\ end - mid = rest /\ mid - 1 < end - 1
      /\ mid + rest - 1 = end - 1
  BY <1>0 DEF Units
<1>9. bp + asize - 1 = mid - 1
  BY <1>0
<1>2. Written(m, h, bp, asize, TRUE, tag)
  BY <1>1, <1>9, PutBlockWrites
<1>3. n = PutBlock(m, mid, rest, FALSE, FALSE)
  OBVIOUS
<1> HIDE DEF m
<1>4. m \in Heap
  BY <1>2 DEF Written
<1>5. mid + rest - 1 \in Units
  BY <1>1
<1> HIDE DEF mid, end
<1>6. Written(n, m, mid, rest, FALSE, FALSE)
  BY <1>1, <1>3, <1>4, <1>5, PutBlockWrites
<1>8. SplitAt(n, h, bp, mid, end, tag)
  <2>1. bp # mid /\ mid - 1 # end - 1
    BY <1>0, <1>1
  <2>2. /\ n.ftr[end - 1] = [size |-> end - mid, alloc |-> FALSE]
        /\ n.hdr[mid] = [size |-> end - mid, alloc |-> FALSE, tag |-> FALSE]
    BY <1>1, <1>6 DEF Written
  <2>3. /\ \A x \in Units : x # mid => n.hdr[x] = m.hdr[x]
        /\ \A x \in Units : x # end - 1 => n.ftr[x] = m.ftr[x]
    BY <1>1, <1>6 DEF Written
  <2>4. /\ m.ftr[mid - 1] = [size |-> mid - bp, alloc |-> TRUE]
        /\ m.hdr[bp] = [size |-> mid - bp, alloc |-> TRUE, tag |-> tag]
        /\ \A x \in Units : x # bp => m.hdr[x] = h.hdr[x]
        /\ \A x \in Units : x # mid - 1 => m.ftr[x] = h.ftr[x]
    BY <1>1, <1>2, <1>9 DEF Written
  <2>5. n \in Heap /\ n.brk = h.brk /\ n.current_block = h.current_block
    BY <1>2, <1>6 DEF Written
  <2>6. n.hdr[bp] = m.hdr[bp] /\ n.ftr[mid - 1] = m.ftr[mid - 1]
    BY <1>1, <2>1, <2>3
  <2>7. \A x \in Units : x # bp /\ x # mid => n.hdr[x] = h.hdr[x]
    BY <2>3, <2>4
  <2>8. \A x \in Units : x # mid - 1 /\ x # end - 1 => n.ftr[x] = h.ftr[x]
    BY <2>3, <2>4
  <2> QED BY <2>2, <2>4, <2>5, <2>6, <2>7, <2>8 DEF SplitAt
<1> QED BY <1>8 DEF mid, end

LEMMA SplitTiles ==
    ASSUME NEW h, NEW B, Tiling(h, B), NEW bp \in B, bp # heap_listp,
           NEW mid \in Nat, bp < mid, NEW end, end = NEXT_BLKP(h, bp), mid < end,
           NEW tag, NEW n, SplitAt(n, h, bp, mid, end, tag), NEW D, D = B \cup {mid}
    PROVE  /\ Tiling(n, D) /\ mid \notin B
           /\ NEXT_BLKP(n, bp) = mid /\ NEXT_BLKP(n, mid) = end
           /\ \A b \in B : b # bp => n.hdr[b] = h.hdr[b] /\ NEXT_BLKP(n, b) = NEXT_BLKP(h, b)
<1>0. /\ MAX_HEAP \in Nat
      /\ \A x \in B \cup {h.brk} : x \in Units /\ x \in Nat /\ 1 <= x /\ x <= MAX_HEAP
  BY TilingTypes, UnitsAreNaturals
<1>1. bp \in Nat /\ end \in B \cup {h.brk} /\ end \in Nat /\ end <= h.brk /\ end <= MAX_HEAP
      /\ 1 <= bp /\ bp \in Units
  BY <1>0, TilingTypes
<1>2. mid \in Units /\ mid - 1 \in Units /\ end - 1 \in Units /\ mid < h.brk /\ mid # h.brk
  <2>1. h.brk \in Nat
    BY <1>0
  <2> QED BY <1>0, <1>1, <2>1 DEF Units
<1>3. \A c \in B : c <= bp \/ end <= c
  <2> TAKE c \in B
  <2>1. bp < c => end <= c
    BY TilingTypes
  <2> QED BY <1>0, <1>1, <2>1
<1>4. mid \notin B
  BY <1>1, <1>3
<1>5. /\ n.hdr[bp].size = mid - bp /\ n.hdr[bp].alloc = TRUE
      /\ n.hdr[mid].size = end - mid /\ n.hdr[mid].alloc = FALSE
      /\ n.brk = h.brk /\ n \in Heap
  BY DEF SplitAt
<1>6. NEXT_BLKP(n, bp) = mid /\ NEXT_BLKP(n, mid) = end
  BY <1>1, <1>5 DEF NEXT_BLKP
<1>7. ASSUME NEW b \in B, b # bp
      PROVE  /\ n.hdr[b] = h.hdr[b] /\ NEXT_BLKP(n, b) = NEXT_BLKP(h, b)
             /\ n.ftr[NEXT_BLKP(h, b) - 1] = h.ftr[NEXT_BLKP(h, b) - 1]
             /\ (b < bp /\ NEXT_BLKP(h, b) <= bp) \/ (end <= b /\ end < NEXT_BLKP(h, b))
  <2>1. n.hdr[b] = h.hdr[b]
    BY <1>0, <1>4, <1>7 DEF SplitAt
  <2>2. /\ NEXT_BLKP(h, b) \in Units /\ NEXT_BLKP(h, b) \in Nat /\ b < NEXT_BLKP(h, b)
        /\ (b < bp => NEXT_BLKP(h, b) <= bp) /\ b \in Nat /\ 1 <= b
        /\ NEXT_BLKP(h, b) <= MAX_HEAP
    BY <1>0, TilingTypes, UnitsAreNaturals
  <2>3. (b < bp /\ NEXT_BLKP(h, b) <= bp) \/ (end <= b /\ end < NEXT_BLKP(h, b))
    BY <1>1, <1>3, <1>7, <2>2
  <2>4. /\ NEXT_BLKP(h, b) - 1 \in Units /\ NEXT_BLKP(h, b) - 1 # mid - 1
        /\ NEXT_BLKP(h, b) - 1 # end - 1
    BY <1>0, <1>1, <2>2, <2>3 DEF Units
  <2>5. n.ftr[NEXT_BLKP(h, b) - 1] = h.ftr[NEXT_BLKP(h, b) - 1]
    <3>1. \A x \in Units : x # mid - 1 /\ x # end - 1 => n.ftr[x] = h.ftr[x]
      BY DEF SplitAt
    <3> QED BY <2>4, <3>1
  <2> QED BY <2>1, <2>3, <2>5 DEF NEXT_BLKP
<1>8. Tiling(n, D)
  <2>1. D \subseteq Units
    BY <1>0, <1>2
  <2>2. heap_listp \in D /\ n.hdr[heap_listp].alloc
    <3>1. heap_listp \in B /\ h.hdr[heap_listp].alloc
      BY DEF Tiling
    <3> QED BY <1>7, <3>1
  <2>3. n.hdr[n.brk].size = 0 /\ n.hdr[n.brk].alloc
    <3>1. h.brk \in Units /\ h.brk # bp /\ h.brk # mid
      BY <1>2, TilingTypes
    <3>2. n.hdr[h.brk] = h.hdr[h.brk] /\ n.brk = h.brk
      BY <3>1 DEF SplitAt
    <3> QED BY <3>2 DEF Tiling
  <2>4. ASSUME NEW b \in D
        PROVE  /\ b < n.brk /\ n.hdr[b].size > 0
               /\ NEXT_BLKP(n, b) \in D \cup {n.brk}
               /\ n.ftr[NEXT_BLKP(n, b) - 1] = [size |-> n.hdr[b].size, alloc |-> n.hdr[b].alloc]
    <3>1. CASE b = bp
      <4>1. n.ftr[mid - 1] = [size |-> mid - bp, alloc |-> TRUE]
        BY DEF SplitAt
      <4>2. bp < h.brk /\ mid - bp > 0
        BY <1>1, TilingTypes
      <4> QED BY <1>5, <1>6, <3>1, <4>1, <4>2
    <3>2. CASE b = mid
      <4>1. n.ftr[end - 1] = [size |-> end - mid, alloc |-> FALSE]
        BY DEF SplitAt
      <4>2. end - mid > 0
        BY <1>1
      <4> QED BY <1>1, <1>2, <1>5, <1>6, <3>2, <4>1, <4>2
    <3>3. CASE b \in B /\ b # bp
      <4>1. /\ h.hdr[b].size > 0 /\ b < h.brk
            /\ NEXT_BLKP(h, b) \in B \cup {h.brk}
            /\ h.ftr[NEXT_BLKP(h, b) - 1] = [size |-> h.hdr[b].size, alloc |-> h.hdr[b].alloc]
        BY <3>3 DEF Tiling
      <4> QED BY <1>5, <1>7, <3>3, <4>1
    <3> QED BY <3>1, <3>2, <3>3
  <2>5. ASSUME NEW b \in D, NEW c \in D, b < c PROVE NEXT_BLKP(n, b) <= c
    <3>1. CASE b = bp
      BY <1>0, <1>1, <1>3, <1>6, <2>5, <3>1
    <3>2. CASE b = mid
      BY <1>0, <1>1, <1>3, <1>6, <2>5, <3>2
    <3>3. CASE b \in B /\ b # bp /\ c \in B
      BY <1>7, <2>5, <3>3, TilingTypes
    <3>4. CASE b \in B /\ b # bp /\ c = mid
      <4>1. b \in Nat /\ NEXT_BLKP(h, b) \in Nat /\ NEXT_BLKP(n, b) = NEXT_BLKP(h, b)
        BY <1>0, <1>7, <3>4, TilingTypes, UnitsAreNaturals
      <4>2. NEXT_BLKP(h, b) <= bp
        BY <1>1, <1>7, <2>5, <3>4, <4>1
      <4> QED BY <1>1, <3>4, <4>1, <4>2
    <3> QED BY <3>1, <3>2, <3>3, <3>4
  <2> QED BY <1>5, <2>1, <2>2, <2>3, <2>4, <2>5 DEF Tiling
<1> QED BY <1>4, <1>6, <1>7, <1>8

\* The free block at bp is now the only new allocated one, with at least the size asked for.
PlacedAt(n, D, h, B, bp, asize) ==
    /\ HeapOK(n, D) /\ bp # heap_listp /\ bp \notin Allocated(h, B)
    /\ Allocated(n, D) = Allocated(h, B) \cup {bp}
    /\ \A b \in Allocated(h, B) : n.hdr[b].size = h.hdr[b].size
    /\ asize <= n.hdr[bp].size
    /\ Neat(h, B) => Neat(n, D)

LEMMA PlaceKeeps ==
    ASSUME NEW h, NEW B, HeapOK(h, B), NEW asize \in Nat \ {0}, NEW bp,
           FreeBlock(h, B, bp, asize)
    PROVE  \E D : PlacedAt(place(h, bp, asize), D, h, B, bp, asize)
<1> DEFINE n == place(h, bp, asize)
           size == h.hdr[bp].size
           rest == size - asize
           end == NEXT_BLKP(h, bp)
           mid == bp + asize
           tag == h.hdr[bp].tag
<1>1. /\ Tiling(h, B) /\ SearchOK(h, B) /\ bp \in B /\ bp # heap_listp
      /\ ~h.hdr[bp].alloc /\ asize <= size /\ h \in Heap
  BY DEF HeapOK, FreeBlock, Tiling
<1>2. /\ bp \in Nat /\ size \in Nat /\ end = bp + size /\ end \in B \cup {h.brk} /\ bp \in Units
      /\ end \in Units /\ end \in Nat /\ bp < end /\ MAX_HEAP \in Nat /\ end <= MAX_HEAP
  BY <1>1, TilingTypes, UnitsAreNaturals
<1>3. Neat(h, B) => h.hdr[end].alloc /\ ~tag
  BY <1>1 DEF Neat, IsCoalesced, Untagged
<1>4. \A b \in B : NEXT_BLKP(h, b) \in Units
  BY <1>1, TilingTypes
<1>5. \A s, a : PutWithTag(h, bp, s, a) = PutBlock(h, bp, s, a, tag)
  BY DEF PutWithTag
<1>9. tag \in BOOLEAN
  BY <1>1, TagIsBoolean
<1> HIDE DEF size, end, tag
<1>6. CASE rest >= SmallestBlock
  <2> DEFINE D == B \cup {mid}
  <2>1. /\ rest \in Nat \ {0} /\ bp + asize + rest = end /\ mid \in Nat /\ bp < mid /\ mid < end
    BY <1>1, <1>2, <1>6 DEF SmallestBlock
  <2>2. n = PutBlock(PutBlock(h, bp, asize, TRUE, tag), bp + asize, rest, FALSE, FALSE)
    BY <1>5, <1>6 DEF place, RemainderTag, size
  <2> HIDE DEF n, rest
  <2>3. SplitAt(n, h, bp, mid, end, tag)
    BY <1>1, <1>2, <1>9, <2>1, <2>2, SplitWrites
  <2> HIDE DEF mid
  <2>4. end = NEXT_BLKP(h, bp)
    BY DEF end
  <2>5. /\ Tiling(n, D) /\ mid \notin B /\ NEXT_BLKP(n, bp) = mid /\ NEXT_BLKP(n, mid) = end
        /\ \A b \in B : b # bp => n.hdr[b] = h.hdr[b] /\ NEXT_BLKP(n, b) = NEXT_BLKP(h, b)
    BY <1>1, <2>1, <2>3, <2>4, SplitTiles
  <2>6. /\ n.hdr[bp].size = mid - bp /\ n.hdr[bp].alloc = TRUE /\ n.hdr[mid].alloc = FALSE
        /\ n.hdr[bp].tag = tag /\ ~n.hdr[mid].tag /\ n.brk = h.brk /\ n.current_block = h.current_block
        /\ \A x \in Units : x # bp /\ x # mid => n.hdr[x] = h.hdr[x]
    BY <2>3 DEF SplitAt
  <2>7. SearchOK(n, D)
    BY <1>1, <2>6 DEF SearchOK
  <2>8. ASSUME Neat(h, B) PROVE IsCoalesced(n, D)
    <3> SUFFICES ASSUME NEW b \in D, ~n.hdr[b].alloc PROVE n.hdr[NEXT_BLKP(n, b)].alloc
      BY DEF IsCoalesced
    <3>1. CASE b = mid
      <4>1. end # bp /\ end # mid
        BY <1>2, <2>1
      <4> QED BY <1>2, <1>3, <2>5, <2>6, <2>8, <3>1, <4>1
    <3>2. CASE b # mid
      <4>1. b \in B /\ b # bp /\ ~h.hdr[b].alloc /\ NEXT_BLKP(n, b) = NEXT_BLKP(h, b)
        BY <2>5, <2>6, <3>2
      <4>2. h.hdr[NEXT_BLKP(h, b)].alloc /\ NEXT_BLKP(h, b) \in Units
        BY <1>1, <1>4, <2>8, <4>1 DEF Neat, IsCoalesced
      <4>3. NEXT_BLKP(h, b) # mid
        <5>1. NEXT_BLKP(h, b) \in B \cup {h.brk}
          BY <1>1, <4>1, TilingTypes
        <5>2. mid # h.brk
          BY <2>5, <2>6, TilingTypes
        <5> QED BY <2>5, <5>1, <5>2
      <4> QED BY <2>6, <4>1, <4>2, <4>3
    <3> QED BY <3>1, <3>2
  <2>9. Allocated(n, D) = Allocated(h, B) \cup {bp} /\ bp \notin Allocated(h, B)
    BY <1>1, <2>5, <2>6 DEF Allocated
  <2>10. \A b \in Allocated(h, B) : n.hdr[b].size = h.hdr[b].size
    BY <1>1, <2>5 DEF Allocated
  <2>11. asize <= n.hdr[bp].size
    BY <1>2, <2>6 DEF mid
  <2>12. ASSUME Neat(h, B) PROVE Untagged(n, D)
    <3>1. h.brk \in Units /\ h.brk # bp /\ h.brk # mid
      <4>1. mid \in D /\ n.brk \notin D
        BY <2>5, TilingTypes
      <4> QED BY <1>1, <2>6, <4>1, TilingTypes
    <3>2. n.hdr[n.brk] = h.hdr[h.brk]
      BY <2>6, <3>1
    <3> QED BY <1>3, <2>5, <2>6, <2>12, <3>2 DEF Neat, Untagged
  <2>13. PlacedAt(n, D, h, B, bp, asize)
    BY <1>1, <2>5, <2>7, <2>8, <2>9, <2>10, <2>11, <2>12 DEF PlacedAt, HeapOK, Neat
  <2> QED BY <2>13 DEF n
<1>7. CASE ~(rest >= SmallestBlock)
  <2>1. size = end - bp
    BY <1>2
  <2>2. n = PutBlock(h, bp, end - bp, TRUE, tag)
    BY <1>5, <1>7, <2>1 DEF place, size
  <2> HIDE DEF n, rest, mid
  <2>3. Joined(B, bp, end) = B
    <3> SUFFICES ASSUME NEW c \in B PROVE c <= bp \/ end <= c
      BY DEF Joined
    <3>1. bp < c => end <= c
      BY <1>1, TilingTypes DEF end
    <3>2. c \in Nat
      BY <1>1, TilingTypes, UnitsAreNaturals
    <3> QED BY <1>2, <3>1, <3>2
  <2>4. JoinedInto(n, B, h, bp, end, TRUE, tag)
    <3>1. bp <= bp /\ end = NEXT_BLKP(h, bp)
      BY <1>2 DEF end
    <3> QED BY <1>1, <1>9, <2>2, <2>3, <3>1, JoinTiles
  <2>5. /\ Tiling(n, B) /\ n.brk = h.brk /\ n.current_block = h.current_block
        /\ n.hdr[bp].size = end - bp /\ n.hdr[bp].alloc = TRUE /\ n.hdr[bp].tag = tag
        /\ \A x \in Units : x # bp => n.hdr[x] = h.hdr[x]
    BY <2>4 DEF JoinedInto
  <2>6. \A b \in B : b # bp => n.hdr[b] = h.hdr[b] /\ NEXT_BLKP(n, b) = NEXT_BLKP(h, b)
    <3>1. B \subseteq Units
      BY <1>1, TilingTypes
    <3> QED BY <2>5, <3>1 DEF NEXT_BLKP
  <2>7. ASSUME Neat(h, B) PROVE Neat(n, B)
    <3>1. IsCoalesced(n, B)
      BY <1>1, <1>4, <2>5, <2>6, <2>7 DEF IsCoalesced, Neat
    <3>2. n.hdr[n.brk] = h.hdr[h.brk]
      BY <1>1, <2>5, TilingTypes
    <3>3. Untagged(n, B)
      BY <1>3, <2>5, <2>6, <2>7, <3>2 DEF Untagged, Neat
    <3> QED BY <3>1, <3>3 DEF Neat
  <2>8. Allocated(n, B) = Allocated(h, B) \cup {bp} /\ bp \notin Allocated(h, B)
    BY <1>1, <2>5, <2>6 DEF Allocated
  <2>9. \A b \in Allocated(h, B) : n.hdr[b].size = h.hdr[b].size
    BY <1>1, <2>6 DEF Allocated
  <2>10. SearchOK(n, B)
    BY <1>1, <2>5 DEF SearchOK
  <2>11. PlacedAt(n, B, h, B, bp, asize)
    BY <1>1, <2>1, <2>5, <2>7, <2>8, <2>9, <2>10 DEF PlacedAt, HeapOK
  <2> QED BY <2>11 DEF n
<1>8. rest \in Int /\ SmallestBlock \in Int
  BY <1>2 DEF SmallestBlock
<1> QED BY <1>6, <1>7

-----------------------------------------------------------------------------
(* mm_malloc and mm_free. *)

\* Rounding leaves room for the boundary tags.
LEMMA AdjustedSizeIsEnough ==
    ASSUME NEW size \in Nat \ {0}
    PROVE  /\ AdjustedSize(size) \in Nat \ {0}
           /\ size + DSIZE <= ALIGNMENT * AdjustedSize(size)
<1>1. CASE size <= DSIZE
  BY <1>1 DEF AdjustedSize, DSIZE, ALIGNMENT
<1>2. CASE ~(size <= DSIZE)
  <2> DEFINE q == (size + 15) \div 8
  <2>1. AdjustedSize(size) = q
    <3>1. size + 8 + 8 - 1 = size + 15
      OBVIOUS
    <3> QED BY <1>2, <3>1 DEF AdjustedSize, DSIZE
  <2>2. q \in Nat /\ size + 8 <= 8 * q /\ q # 0
    BY <1>2 DEF DSIZE
  <2> QED BY <2>1, <2>2 DEF DSIZE, ALIGNMENT
<1> QED BY <1>1, <1>2

LEMMA ExtendUnlessFoundKeeps ==
    ASSUME NEW h, NEW B, HeapOK(h, B), NEW asize \in Nat \ {0}, NEW found,
           found = find_fit(h, asize)
    PROVE  \/ /\ ExtendUnlessFound(found, asize).bp = NULL
              /\ ExtendUnlessFound(found, asize).heap = found.heap
           \/ \E C : /\ NewFree(ExtendUnlessFound(found, asize), C, h, B, asize)
                     /\ Neat(h, B) => Neat(ExtendUnlessFound(found, asize).heap, C)
<1> DEFINE at == ExtendUnlessFound(found, asize)
           more == IF asize > CHUNKSIZE THEN asize ELSE CHUNKSIZE
<1>1. /\ HeapOK(found.heap, B) /\ found.heap.hdr = h.hdr /\ found.heap.brk = h.brk
      /\ found.bp # NULL => FreeBlock(found.heap, B, found.bp, asize)
  BY FindFitFits DEF FitFound
<1>2. SameAllocated(found.heap, B, h, B) /\ (Neat(h, B) => Neat(found.heap, B))
  BY <1>1 DEF SameAllocated, Allocated, Neat, IsCoalesced, Untagged, NEXT_BLKP
<1>3. CASE found.bp # NULL
  <2>1. at = found
    BY <1>3 DEF ExtendUnlessFound
  <2>2. NewFree(found, B, h, B, asize)
    BY <1>1, <1>2, <1>3 DEF NewFree
  <2> QED BY <1>2, <2>1, <2>2
<1>4. CASE found.bp = NULL
  <2>1. more \in Nat \ {0} /\ asize <= more
    BY UnitsAssumption
  <2>2. at = extend_heap(found.heap, more)
    BY <1>4 DEF ExtendUnlessFound
  <2> HIDE DEF more, at
  <2>3. CASE extend_heap(found.heap, more) = [heap |-> found.heap, bp |-> NULL]
    BY <2>2, <2>3 DEF at
  <2>4. CASE \E C : ExtendedBy(extend_heap(found.heap, more), C, found.heap, B, more)
    <3>1. PICK C : ExtendedBy(at, C, found.heap, B, more)
      BY <2>2, <2>4
    <3>2. /\ HeapOK(at.heap, C) /\ FreeBlock(at.heap, C, at.bp, more)
          /\ SameAllocated(at.heap, C, found.heap, B)
          /\ Neat(found.heap, B) => Neat(at.heap, C)
      BY <3>1 DEF NewFree, ExtendedBy
    <3>3. at.heap.hdr[at.bp].size \in Nat
      BY <3>2, TilingTypes DEF HeapOK, FreeBlock
    <3>4. more <= at.heap.hdr[at.bp].size
      BY <3>2 DEF FreeBlock
    <3>5. asize <= at.heap.hdr[at.bp].size
      BY <2>1, <3>3, <3>4
    <3>6. FreeBlock(at.heap, C, at.bp, asize)
      BY <3>2, <3>5 DEF FreeBlock
    <3>7. SameAllocated(at.heap, C, h, B)
      BY <1>2, <3>2 DEF SameAllocated
    <3>8. NewFree(at, C, h, B, asize)
      BY <3>2, <3>6, <3>7 DEF NewFree
    <3> QED BY <1>2, <3>2, <3>8 DEF at
  <2> QED BY <1>1, <2>1, <2>3, <2>4, ExtendHeapKeeps
<1> QED BY <1>3, <1>4

\* A request is refused, or gets a block of its own with room for it.
LEMMA MmMallocKeeps ==
    ASSUME NEW h, NEW B, HeapOK(h, B), NEW asize \in Nat \ {0}, NEW size, asize = AdjustedSize(size),
           NEW new, new = mm_malloc(h, size)
    PROVE  \/ /\ new.bp = NULL /\ HeapOK(new.heap, B)
              /\ new.heap.hdr = h.hdr /\ new.heap.brk = h.brk
           \/ \E D : PlacedAt(new.heap, D, h, B, new.bp, asize)
<1> DEFINE found == find_fit(h, asize)
           at == ExtendUnlessFound(found, asize)
<1>1. new = PlaceUnlessNull(at, asize)
  BY DEF mm_malloc
<1>2. HeapOK(found.heap, B) /\ found.heap.hdr = h.hdr /\ found.heap.brk = h.brk
  BY FindFitFits DEF FitFound
<1>3. \/ at.bp = NULL /\ at.heap = found.heap
      \/ \E C : NewFree(at, C, h, B, asize) /\ (Neat(h, B) => Neat(at.heap, C))
  BY ExtendUnlessFoundKeeps
<1> HIDE DEF found
<1>4. CASE at.bp = NULL /\ at.heap = found.heap
  <2>1. new = at
    BY <1>1, <1>4 DEF PlaceUnlessNull
  <2> QED BY <1>2, <1>4, <2>1
<1>5. CASE \E C : NewFree(at, C, h, B, asize) /\ (Neat(h, B) => Neat(at.heap, C))
  <2> HIDE DEF at
  <2>1. PICK C : NewFree(at, C, h, B, asize) /\ (Neat(h, B) => Neat(at.heap, C))
    BY <1>5
  <2>2. /\ HeapOK(at.heap, C) /\ FreeBlock(at.heap, C, at.bp, asize)
        /\ SameAllocated(at.heap, C, h, B)
    BY <2>1 DEF NewFree
  <2>3. at.bp # NULL
    <3>1. at.bp \in C /\ C \subseteq Units
      BY <2>2, TilingTypes DEF HeapOK, FreeBlock
    <3> QED BY <3>1, UnitsAreNaturals DEF NULL
  <2>4. PICK D : PlacedAt(place(at.heap, at.bp, asize), D, at.heap, C, at.bp, asize)
    BY <2>2, PlaceKeeps
  <2>5. new = [heap |-> place(at.heap, at.bp, asize), bp |-> at.bp]
    BY <1>1, <2>3 DEF PlaceUnlessNull
  <2>7. new.heap = place(at.heap, at.bp, asize) /\ new.bp = at.bp
    BY <2>5
  <2>8. PlacedAt(new.heap, D, h, B, new.bp, asize)
    BY <2>1, <2>2, <2>4, <2>7 DEF PlacedAt, SameAllocated
  <2> QED BY <2>8
<1> QED BY <1>3, <1>4, <1>5

\* n is h but for its tags.
Retagged(n, h) ==
    /\ n \in Heap /\ n.ftr = h.ftr /\ n.brk = h.brk /\ n.current_block = h.current_block
    /\ \A x \in Units : n.hdr[x].size = h.hdr[x].size /\ n.hdr[x].alloc = h.hdr[x].alloc

LEMMA SetTagRetags ==
    ASSUME NEW h \in Heap, NEW b \in Units, NEW tag \in BOOLEAN
    PROVE  /\ Retagged(SetTag(h, b, tag), h)
           /\ SetTag(h, b, tag).hdr[b].tag = tag
           /\ \A x \in Units : x # b => SetTag(h, b, tag).hdr[x] = h.hdr[x]
<1> DEFINE word == [h.hdr[b] EXCEPT !.tag = tag]
           hdr == [h.hdr EXCEPT ![b] = word]
           n == SetTag(h, b, tag)
<1>1. h.hdr \in [Units -> Header]
  BY DEF Heap
<1>2. /\ word \in Header /\ word.tag = tag
      /\ word.size = h.hdr[b].size /\ word.alloc = h.hdr[b].alloc
  BY <1>1 DEF Header
<1>3. n = [h EXCEPT !.hdr = hdr]
  BY <1>1 DEF SetTag, Heap
<1> HIDE DEF word, n
<1>4. hdr \in [Units -> Header] /\ hdr[b] = word /\ \A x \in Units : x # b => hdr[x] = h.hdr[x]
  BY <1>1, <1>2
<1> HIDE DEF hdr
<1>5. /\ n \in Heap /\ n.hdr = hdr /\ n.ftr = h.ftr /\ n.brk = h.brk
      /\ n.current_block = h.current_block
  BY <1>3, <1>4 DEF Heap
<1>6. Retagged(n, h) /\ n.hdr[b].tag = tag /\ \A x \in Units : x # b => n.hdr[x] = h.hdr[x]
  BY <1>2, <1>4, <1>5 DEF Retagged
<1> QED BY <1>6 DEF n

LEMMA RetaggedIsOK ==
    ASSUME NEW h, NEW B, HeapOK(h, B), NEW n, Retagged(n, h)
    PROVE  /\ HeapOK(n, B) /\ SameAllocated(n, B, h, B)
           /\ \A b \in B : NEXT_BLKP(n, b) = NEXT_BLKP(h, b)
<1>1. Tiling(h, B) /\ SearchOK(h, B) /\ B \subseteq Units /\ h.brk \in Units
  BY TilingTypes DEF HeapOK
<1>2. /\ \A b \in B \cup {h.brk} : n.hdr[b].size = h.hdr[b].size /\ n.hdr[b].alloc = h.hdr[b].alloc
      /\ n \in Heap /\ n.ftr = h.ftr /\ n.brk = h.brk /\ n.current_block = h.current_block
  BY <1>1 DEF Retagged
<1>3. \A b \in B : NEXT_BLKP(n, b) = NEXT_BLKP(h, b)
  BY <1>2 DEF NEXT_BLKP
<1>4. Tiling(n, B)
  BY <1>1, <1>2, <1>3 DEF Tiling
<1>5. SearchOK(n, B) /\ SameAllocated(n, B, h, B)
  BY <1>1, <1>2 DEF SearchOK, SameAllocated, Allocated
<1> QED BY <1>3, <1>4, <1>5 DEF HeapOK

\* The block that is freed, and no other, is no longer allocated.
FreedAt(n, C, h, B, bp) ==
    /\ HeapOK(n, C) /\ Allocated(n, C) = Allocated(h, B) \ {bp}
    /\ \A b \in Allocated(h, B) \ {bp} : n.hdr[b].size = h.hdr[b].size
    /\ Neat(h, B) => Neat(n, C)

LEMMA MmFreeKeeps ==
    ASSUME NEW h, NEW B, HeapOK(h, B), NEW bp \in Allocated(h, B), bp # heap_listp
    PROVE  \E C : FreedAt(mm_free(h, bp), C, h, B, bp)
<1> DEFINE end == NEXT_BLKP(h, bp)
           g == SetTag(h, end, FALSE)
           tag == g.hdr[bp].tag
           m == PutBlock(g, bp, end - bp, FALSE, tag)
           new == coalesce(m, bp)
<1>1. Tiling(h, B) /\ SearchOK(h, B) /\ bp \in B /\ h \in Heap
  BY DEF HeapOK, Allocated, Tiling
<1>2. /\ bp \in Nat /\ h.hdr[bp].size \in Nat /\ end = bp + h.hdr[bp].size /\ end \in B \cup {h.brk}
      /\ end \in Nat /\ end \in Units /\ bp < end /\ bp \in Units
  BY <1>1, TilingTypes, UnitsAreNaturals
<1>3. mm_free(h, bp) = new.heap
  <2>1. h.hdr[bp].size = end - bp
    BY <1>2
  <2> HIDE DEF end
  <2> QED BY <2>1 DEF mm_free, PutWithTag, end
<1>4. /\ HeapOK(g, B) /\ SameAllocated(g, B, h, B) /\ g.brk = h.brk
      /\ \A b \in B : NEXT_BLKP(g, b) = NEXT_BLKP(h, b)
      /\ \A b \in B : g.hdr[b].alloc = h.hdr[b].alloc /\ g.hdr[b].size = h.hdr[b].size
      /\ Neat(h, B) => Neat(g, B)
  <2> HIDE DEF end
  <2>0. h \in Heap /\ end \in Units /\ FALSE \in BOOLEAN
    BY <1>1, <1>2
  <2>1. /\ Retagged(g, h) /\ g.hdr[end].tag = FALSE
        /\ \A x \in Units : x # end => g.hdr[x] = h.hdr[x]
    BY <2>0, SetTagRetags
  <2> HIDE DEF g
  <2>2. /\ HeapOK(g, B) /\ SameAllocated(g, B, h, B)
        /\ \A b \in B : NEXT_BLKP(g, b) = NEXT_BLKP(h, b)
    BY <2>1, RetaggedIsOK
  <2>3. \A b \in B \cup {h.brk} : b \in Units
    BY <1>1, TilingTypes
  <2>4. g.brk = h.brk /\ \A b \in B \cup {h.brk} : g.hdr[b].alloc = h.hdr[b].alloc /\ g.hdr[b].size = h.hdr[b].size
    BY <2>1, <2>3 DEF Retagged
  <2>5. \A b \in B : NEXT_BLKP(h, b) \in B \cup {h.brk}
    BY <1>1, TilingTypes
  <2>6. Neat(h, B) => IsCoalesced(g, B)
    BY <2>2, <2>4, <2>5 DEF Neat, IsCoalesced
  <2>7. Neat(h, B) => Untagged(g, B)
    BY <2>1, <2>3, <2>4 DEF Neat, Untagged
  <2> QED BY <2>2, <2>4, <2>6, <2>7 DEF Neat
<1> HIDE DEF g
<1>13. Tiling(g, B) /\ SearchOK(g, B)
  BY <1>4 DEF HeapOK
<1>14. tag \in BOOLEAN /\ (Neat(g, B) => ~tag)
  BY <1>1, <1>13, TagIsBoolean DEF Neat, Untagged
<1> HIDE DEF tag
<1>5. JoinedInto(m, B, g, bp, end, FALSE, tag)
  <2>1. Joined(B, bp, end) = B
    <3> SUFFICES ASSUME NEW c \in B PROVE c <= bp \/ end <= c
      BY DEF Joined
    <3>1. bp < c => end <= c
      BY <1>1, TilingTypes
    <3>2. c \in Nat
      BY <1>1, TilingTypes, UnitsAreNaturals
    <3> QED BY <1>2, <3>1, <3>2
  <2>2. bp <= bp /\ end = NEXT_BLKP(g, bp)
    BY <1>1, <1>2, <1>4
  <2> HIDE DEF end
  <2> QED BY <1>1, <1>13, <1>14, <2>1, <2>2, JoinTiles
<1> HIDE DEF m
<1>6. /\ Tiling(m, B) /\ m.brk = g.brk /\ m.current_block = g.current_block
      /\ m.hdr[bp].alloc = FALSE /\ m.hdr[bp].tag = tag
      /\ \A x \in Units : x # bp => m.hdr[x] = g.hdr[x]
  BY <1>5 DEF JoinedInto
<1>7. \A b \in B : b # bp => m.hdr[b] = g.hdr[b] /\ NEXT_BLKP(m, b) = NEXT_BLKP(g, b)
  <2>1. B \subseteq Units
    BY <1>1, TilingTypes
  <2> QED BY <1>6, <2>1 DEF NEXT_BLKP
<1>8. ASSUME Neat(h, B) PROVE CoalescedBut(m, B, bp) /\ Untagged(m, B)
  <2>0. Neat(g, B) /\ ~tag
    BY <1>4, <1>8, <1>14
  <2>1. CoalescedBut(m, B, bp)
    <3> SUFFICES ASSUME NEW b \in B, ~m.hdr[b].alloc, b # bp, NEXT_BLKP(m, b) # bp
                 PROVE  m.hdr[NEXT_BLKP(m, b)].alloc
      BY DEF CoalescedBut
    <3>1. g.hdr[NEXT_BLKP(g, b)].alloc /\ NEXT_BLKP(g, b) \in Units
      BY <1>7, <1>13, <2>0, TilingTypes DEF IsCoalesced, Neat
    <3> QED BY <1>6, <1>7, <3>1
  <2>2. m.hdr[m.brk] = g.hdr[g.brk]
    BY <1>1, <1>6, <1>13, TilingTypes
  <2>3. Untagged(m, B)
    BY <1>6, <1>7, <2>0, <2>2 DEF Untagged, Neat
  <2> QED BY <2>1, <2>3
<1>9. SearchOK(m, B)
  BY <1>6, <1>13 DEF SearchOK
<1> HIDE DEF new
<1>10. PICK C : CoalescedAt(new, C, m, B, bp)
  BY <1>1, <1>6, <1>9, CoalesceKeeps DEF new
<1>11. /\ HeapOK(new.heap, C) /\ SameAllocated(new.heap, C, m, B)
       /\ CoalescedBut(m, B, bp) /\ Untagged(m, B) => Neat(new.heap, C)
  BY <1>10 DEF NewFree, CoalescedAt
<1>12. Allocated(m, B) = Allocated(h, B) \ {bp}
  BY <1>4, <1>6, <1>7 DEF Allocated
<1>15. \A b \in Allocated(h, B) \ {bp} : new.heap.hdr[b].size = h.hdr[b].size
  <2> TAKE b \in Allocated(h, B) \ {bp}
  <2>1. b \in B /\ b # bp /\ new.heap.hdr[b].size = m.hdr[b].size
    BY <1>11, <1>12 DEF SameAllocated, Allocated
  <2> QED BY <1>4, <1>7, <2>1
<1>16. FreedAt(new.heap, C, h, B, bp)
  BY <1>8, <1>11, <1>12, <1>15 DEF FreedAt, SameAllocated
<1> QED BY <1>3, <1>16

\* n is h with other contents in a payload: the blocks are the same.
Filled(n, h, B) ==
    /\ Tiling(n, B) /\ n.brk = h.brk /\ n.current_block = h.current_block
    /\ \A b \in B \cup {h.brk} : n.hdr[b] = h.hdr[b]

\* A client that stays within its payload harms no block.
LEMMA FillKeeps ==
    ASSUME NEW h, NEW B, Tiling(h, B), NEW bp \in B, NEW size \in Nat,
           size + DSIZE <= ALIGNMENT * h.hdr[bp].size
    PROVE  Filled(Fill(h, bp, size), h, B)
<1> DEFINE end == NEXT_BLKP(h, bp)
           hdr == [b \in Units |-> IF bp < b /\ ALIGNMENT * b - 4 < ALIGNMENT * bp + size
                                   THEN NoHeader ELSE h.hdr[b]]
           ftr == [u \in Units |-> IF bp <= u /\ ALIGNMENT * u < ALIGNMENT * bp + size
                                   THEN NoFooter ELSE h.ftr[u]]
           n == Fill(h, bp, size)
<1>1. Tiling(h, B) /\ h \in Heap
  BY DEF Tiling
<1>2. /\ bp \in Nat /\ 1 <= bp /\ h.hdr[bp].size \in Nat /\ end = bp + h.hdr[bp].size
      /\ end \in B \cup {h.brk} /\ end \in Nat /\ bp < end /\ end <= h.brk
  BY <1>1, TilingTypes, UnitsAreNaturals
<1>3. size + 8 + 8 * bp <= 8 * end
  BY <1>2 DEF DSIZE, ALIGNMENT
<1> HIDE DEF end
<1>4. \A b \in B \cup {h.brk} : b \in Nat /\ b \in Units /\ (b <= bp \/ end <= b)
  <2> TAKE b \in B \cup {h.brk}
  <2>1. b \in Nat /\ b \in Units
    BY <1>1, TilingTypes, UnitsAreNaturals
  <2>2. b \in B /\ bp < b => end <= b
    BY <1>1, TilingTypes DEF end
  <2> QED BY <1>2, <2>1, <2>2
<1>5. \A b \in B \cup {h.brk} : hdr[b] = h.hdr[b]
  <2> TAKE b \in B \cup {h.brk}
  <2>1. b \in Nat /\ b \in Units /\ (b <= bp \/ end <= b)
    BY <1>4
  <2>2. ~(bp < b /\ ALIGNMENT * b - 4 < ALIGNMENT * bp + size)
    BY <1>2, <1>3, <2>1 DEF ALIGNMENT
  <2> QED BY <2>1, <2>2
<1>6. \A b \in B : ftr[NEXT_BLKP(h, b) - 1] = h.ftr[NEXT_BLKP(h, b) - 1]
  <2> TAKE b \in B
  <2> DEFINE x == NEXT_BLKP(h, b)
  <2>1. /\ x \in Nat /\ x \in B \cup {h.brk} /\ b < x /\ b \in Nat /\ 1 <= b /\ x <= MAX_HEAP
        /\ MAX_HEAP \in Nat
    BY <1>1, <1>4, TilingTypes, UnitsAreNaturals
  <2>2. x <= bp \/ end <= x
    BY <1>4, <2>1
  <2> HIDE DEF x
  <2>3. x - 1 \in Units
    BY <2>1 DEF Units
  <2>4. ~(bp <= x - 1 /\ ALIGNMENT * (x - 1) < ALIGNMENT * bp + size)
    BY <1>2, <1>3, <2>1, <2>2 DEF ALIGNMENT
  <2>5. ftr[x - 1] = h.ftr[x - 1]
    BY <2>3, <2>4
  <2> QED BY <2>5 DEF x
<1>7. hdr \in [Units -> Header] /\ ftr \in [Units -> Footer]
  <2>1. NoHeader \in Header /\ NoFooter \in Footer
    BY UnitsAssumption DEF Header, Footer, NoHeader, NoFooter
  <2>2. h.hdr \in [Units -> Header] /\ h.ftr \in [Units -> Footer]
    BY <1>1 DEF Heap
  <2> QED BY <2>1, <2>2
<1>8. n = [h EXCEPT !.hdr = hdr, !.ftr = ftr]
  BY DEF Fill
<1> HIDE DEF hdr, ftr, n
<1>9. n \in Heap /\ n.hdr = hdr /\ n.ftr = ftr /\ n.brk = h.brk /\ n.current_block = h.current_block
  BY <1>1, <1>7, <1>8 DEF Heap
<1>10. /\ \A b \in B \cup {h.brk} : n.hdr[b] = h.hdr[b]
       /\ \A b \in B : NEXT_BLKP(n, b) = NEXT_BLKP(h, b)
       /\ \A b \in B : n.ftr[NEXT_BLKP(h, b) - 1] = h.ftr[NEXT_BLKP(h, b) - 1]
  BY <1>5, <1>6, <1>9 DEF NEXT_BLKP
<1>11. Tiling(n, B)
  BY <1>1, <1>9, <1>10 DEF Tiling
<1>12. Filled(n, h, B)
  BY <1>9, <1>10, <1>11 DEF Filled
<1> QED BY <1>12 DEF n

LEMMA FillIsOK ==
    ASSUME NEW h, NEW B, HeapOK(h, B), NEW n, Filled(n, h, B)
    PROVE  HeapOK(n, B) /\ (Neat(h, B) => Neat(n, B))
<1>1. \A b \in B : NEXT_BLKP(h, b) \in B \cup {h.brk} /\ NEXT_BLKP(n, b) = NEXT_BLKP(h, b)
  BY TilingTypes DEF Filled, HeapOK, NEXT_BLKP
<1> QED BY <1>1 DEF Filled, HeapOK, SearchOK, Neat, IsCoalesced, Untagged

-----------------------------------------------------------------------------
(* Sound heaps: the allocated blocks are the payloads that clients hold. *)

Payload == [ptr : Units, size : Nat \ {0}]
Unique(l) == \A r, s \in l : r.ptr = s.ptr => r = s

LiveOK(h, B, l) ==
    /\ l \subseteq Payload
    /\ {r.ptr : r \in l} = Allocated(h, B) \ {heap_listp}
    /\ \A r \in l : r.size + DSIZE <= ALIGNMENT * h.hdr[r.ptr].size
    /\ Unique(l)

SoundAs(h, B, l) == HeapOK(h, B) /\ LiveOK(h, B, l)

\* Memory at the start.
LEMMA ZeroedIsHeap == Zeroed \in Heap
<1>1. 1 \in Units /\ 0 \in 0 .. MAX_HEAP
  BY InitFits, UnitsAssumption DEF Units
<1>2. NoHeader \in Header /\ NoFooter \in Footer
  BY <1>1 DEF Header, Footer, NoHeader, NoFooter
<1> QED BY <1>1, <1>2 DEF Zeroed, Heap, heap_listp

\* mm_init, whatever was in memory before.
LEMMA EmptyHeapIsSound ==
    ASSUME NEW h \in Heap
    PROVE  SoundAs(EmptyHeap(h), {heap_listp}, {}) /\ Neat(EmptyHeap(h), {heap_listp})
<1> DEFINE prologue == [size |-> 1, alloc |-> TRUE, tag |-> FALSE]
           footer == [size |-> 1, alloc |-> TRUE]
           epilogue == [size |-> 0, alloc |-> TRUE, tag |-> FALSE]
           hdr == [h.hdr EXCEPT ![heap_listp] = prologue, ![heap_listp + 1] = epilogue]
           ftr == [h.ftr EXCEPT ![heap_listp] = footer]
           n == EmptyHeap(h)
<1>1. 1 \in Units /\ 2 \in Units /\ MAX_HEAP \in Nat /\ 1 \in 0 .. MAX_HEAP /\ 0 \in 0 .. MAX_HEAP
  BY InitFits, UnitsAssumption DEF Units
<1>2. /\ prologue \in Header /\ footer \in Footer /\ epilogue \in Header
      /\ NoHeader \in Header /\ NoFooter \in Footer
  BY <1>1 DEF Header, Footer, NoHeader, NoFooter
<1>3. heap_listp = 1 /\ heap_listp + 1 = 2
  BY DEF heap_listp
<1>11. prologue.size = 1 /\ prologue.alloc = TRUE /\ ~prologue.tag /\ footer = [size |-> 1, alloc |-> TRUE]
  OBVIOUS
<1>12. epilogue = [size |-> 0, alloc |-> TRUE, tag |-> FALSE]
  OBVIOUS
<1>4. n = [h EXCEPT !.hdr = hdr, !.ftr = ftr, !.brk = heap_listp + 1, !.current_block = heap_listp]
  BY DEF EmptyHeap
<1> HIDE DEF prologue, footer, epilogue
<1>13. h.hdr \in [Units -> Header] /\ h.ftr \in [Units -> Footer]
  BY DEF Heap
<1>5. /\ hdr \in [Units -> Header] /\ ftr \in [Units -> Footer]
      /\ hdr[1] = prologue /\ hdr[2] = epilogue /\ ftr[1] = footer
  BY <1>1, <1>2, <1>3, <1>13
<1> HIDE DEF hdr, ftr, n
<1>14. n = [hdr |-> hdr, ftr |-> ftr, brk |-> heap_listp + 1, current_block |-> heap_listp]
  BY <1>4 DEF Heap
<1>6. n.hdr = hdr /\ n.ftr = ftr /\ n.brk = 2 /\ n.current_block = 1 /\ n \in Heap
  BY <1>1, <1>3, <1>14, <1>5 DEF Heap
<1>7. NEXT_BLKP(n, 1) = 2 /\ NEXT_BLKP(n, 1) - 1 = 1
  BY <1>5, <1>6, <1>11 DEF NEXT_BLKP
<1>8. Tiling(n, {1})
  <2>1. n.ftr[NEXT_BLKP(n, 1) - 1] = [size |-> n.hdr[1].size, alloc |-> n.hdr[1].alloc]
    BY <1>5, <1>6, <1>7, <1>11
  <2> QED BY <1>1, <1>3, <1>5, <1>6, <1>7, <1>11, <1>12, <2>1 DEF Tiling
<1>9. /\ IsCoalesced(n, {1}) /\ Untagged(n, {1}) /\ SearchOK(n, {1})
      /\ Allocated(n, {1}) = {1}
  BY <1>5, <1>6, <1>11, <1>12 DEF IsCoalesced, Untagged, SearchOK, Allocated
<1>10. SoundAs(n, {1}, {}) /\ Neat(n, {1})
  BY <1>3, <1>8, <1>9 DEF HeapOK, LiveOK, Unique, SoundAs, Neat
<1> QED BY <1>3, <1>10 DEF n

\* The payloads that clients hold besides the one at bp.
Kept(k, n, D, bp) ==
    /\ k \subseteq Payload
    /\ {s.ptr : s \in k} = Allocated(n, D) \ {heap_listp, bp}
    /\ \A s \in k : s.size + DSIZE <= ALIGNMENT * n.hdr[s.ptr].size
    /\ Unique(k)

\* A payload that is handed out and filled joins those that clients keep.
LEMMA HandedOutTo ==
    ASSUME NEW n, NEW D, HeapOK(n, D), NEW bp \in Allocated(n, D), bp # heap_listp,
           NEW size \in Nat \ {0}, AdjustedSize(size) <= n.hdr[bp].size,
           NEW k, Kept(k, n, D, bp), NEW m, m = Fill(n, bp, size)
    PROVE  /\ SoundAs(m, D, k \cup {[ptr |-> bp, size |-> size]})
           /\ Neat(n, D) => Neat(m, D)
<1> DEFINE r == [ptr |-> bp, size |-> size]
<1>1. bp \in D /\ D \subseteq Units /\ n.hdr[bp].size \in Nat
  <2>1. bp \in D
    BY DEF Allocated
  <2> QED BY <2>1, TilingTypes DEF HeapOK
<1>2. size + DSIZE <= ALIGNMENT * n.hdr[bp].size /\ size \in Nat
  <2>1. size \in Nat \ {0}
    OBVIOUS
  <2>2. AdjustedSize(size) \in Nat /\ size + DSIZE <= ALIGNMENT * AdjustedSize(size)
    BY <2>1, AdjustedSizeIsEnough
  <2> QED BY <1>1, <2>1, <2>2 DEF ALIGNMENT, DSIZE
<1>3. HeapOK(m, D) /\ (\A b \in D : m.hdr[b] = n.hdr[b]) /\ (Neat(n, D) => Neat(m, D))
  <2>1. Filled(m, n, D)
    BY <1>1, <1>2, FillKeeps DEF HeapOK
  <2> QED BY <2>1, FillIsOK DEF Filled
<1>4. Allocated(m, D) = Allocated(n, D)
  BY <1>3 DEF Allocated
<1>5. \A s \in k : s.ptr \in D /\ s.ptr # bp
  BY DEF Kept, Allocated
<1>6. r.ptr = bp /\ r.size = size /\ r \in Payload
  BY <1>1 DEF Payload
<1> HIDE DEF r
<1>7. LiveOK(m, D, k \cup {r})
  <2>1. k \cup {r} \subseteq Payload
    BY <1>6 DEF Kept
  <2>2. {s.ptr : s \in k \cup {r}} = Allocated(m, D) \ {heap_listp}
    <3>1. {s.ptr : s \in k \cup {r}} = {s.ptr : s \in k} \cup {bp}
      BY <1>6
    <3> QED BY <1>4, <3>1 DEF Kept
  <2>3. \A s \in k \cup {r} : s.size + DSIZE <= ALIGNMENT * m.hdr[s.ptr].size
    BY <1>1, <1>2, <1>3, <1>5, <1>6 DEF Kept
  <2>4. Unique(k \cup {r})
    BY <1>5, <1>6 DEF Kept, Unique
  <2> QED BY <2>1, <2>2, <2>3, <2>4 DEF LiveOK
<1> QED BY <1>3, <1>7 DEF SoundAs, r

\* So does one that mm_malloc has placed.
LEMMA HandedOut ==
    ASSUME NEW h, NEW B, NEW l, SoundAs(h, B, l), NEW size \in Nat \ {0},
           NEW n, NEW D, NEW bp, PlacedAt(n, D, h, B, bp, AdjustedSize(size)),
           NEW m, m = Fill(n, bp, size)
    PROVE  /\ SoundAs(m, D, l \cup {[ptr |-> bp, size |-> size]})
           /\ Neat(h, B) => Neat(m, D)
<1>1. /\ HeapOK(n, D) /\ bp # heap_listp /\ bp \notin Allocated(h, B)
      /\ Allocated(n, D) = Allocated(h, B) \cup {bp}
      /\ \A b \in Allocated(h, B) : n.hdr[b].size = h.hdr[b].size
      /\ AdjustedSize(size) <= n.hdr[bp].size /\ (Neat(h, B) => Neat(n, D))
  BY DEF PlacedAt
<1>2. Kept(l, n, D, bp)
  <2>1. LiveOK(h, B, l)
    BY DEF SoundAs
  <2>2. Allocated(h, B) \ {heap_listp} = Allocated(n, D) \ {heap_listp, bp}
    BY <1>1
  <2>3. \A s \in l : s.ptr \in Allocated(h, B)
    BY <2>1 DEF LiveOK
  <2> QED BY <1>1, <2>1, <2>2, <2>3 DEF LiveOK, Kept
<1> QED BY <1>1, <1>2, HandedOutTo

\* The heap and the payloads after the client has filled what it got, if anything.
HeapAfter(new, size) == IF new.bp = NULL THEN new.heap ELSE Fill(new.heap, new.bp, size)
LiveAfter(new, size, l, kept) ==
    IF new.bp = NULL THEN l ELSE kept \cup {[ptr |-> new.bp, size |-> size]}

\* mm_malloc for a client that fills what it gets.
LEMMA MallocGives ==
    ASSUME NEW h, NEW B, NEW l, SoundAs(h, B, l), NEW size \in Nat \ {0},
           NEW new, new = mm_malloc(h, size), NEW n, n = HeapAfter(new, size),
           NEW k, k = LiveAfter(new, size, l, l)
    PROVE  \E D : SoundAs(n, D, k) /\ (Neat(h, B) => Neat(n, D))
<1>1. HeapOK(h, B) /\ LiveOK(h, B, l)
  BY DEF SoundAs
<1>2. \/ new.bp = NULL /\ HeapOK(new.heap, B) /\ new.heap.hdr = h.hdr /\ new.heap.brk = h.brk
      \/ \E D : PlacedAt(new.heap, D, h, B, new.bp, AdjustedSize(size))
  <2>1. AdjustedSize(size) \in Nat \ {0}
    BY AdjustedSizeIsEnough
  <2> QED BY <1>1, <2>1, MmMallocKeeps
<1>3. /\ n = IF new.bp = NULL THEN new.heap ELSE Fill(new.heap, new.bp, size)
      /\ k = IF new.bp = NULL THEN l ELSE l \cup {[ptr |-> new.bp, size |-> size]}
  BY DEF HeapAfter, LiveAfter
<1>4. CASE new.bp = NULL /\ HeapOK(new.heap, B) /\ new.heap.hdr = h.hdr /\ new.heap.brk = h.brk
  <2>1. HeapOK(n, B) /\ n.hdr = h.hdr /\ n.brk = h.brk /\ k = l
    BY <1>3, <1>4
  <2>2. LiveOK(n, B, k)
    BY <1>1, <2>1 DEF LiveOK, Allocated
  <2>3. Neat(h, B) => Neat(n, B)
    BY <2>1 DEF Neat, IsCoalesced, Untagged, NEXT_BLKP
  <2> QED BY <2>1, <2>2, <2>3 DEF SoundAs
<1>5. CASE \E D : PlacedAt(new.heap, D, h, B, new.bp, AdjustedSize(size))
  <2>1. PICK D : PlacedAt(new.heap, D, h, B, new.bp, AdjustedSize(size))
    BY <1>5
  <2>2. new.bp # NULL
    <3>1. new.bp \in D /\ HeapOK(new.heap, D)
      BY <2>1 DEF PlacedAt, Allocated
    <3>2. D \subseteq Units
      BY <3>1, TilingTypes DEF HeapOK
    <3> QED BY <3>1, <3>2, UnitsAreNaturals DEF NULL
  <2>3. n = Fill(new.heap, new.bp, size) /\ k = l \cup {[ptr |-> new.bp, size |-> size]}
    BY <1>3, <2>2
  <2>4. SoundAs(n, D, k) /\ (Neat(h, B) => Neat(n, D))
    BY <2>1, <2>3, HandedOut
  <2> QED BY <2>4
<1> QED BY <1>2, <1>4, <1>5

\* The payload of a block that is freed leaves the others.
LEMMA TakenBack ==
    ASSUME NEW h, NEW B, NEW l, LiveOK(h, B, l), NEW r \in l, NEW n, NEW C,
           FreedAt(n, C, h, B, r.ptr)
    PROVE  LiveOK(n, C, l \ {r})
<1>1. \A s \in l \ {r} : s \in l /\ s.ptr # r.ptr /\ s.ptr \in Allocated(h, B)
  BY DEF LiveOK, Unique
<1>2. {s.ptr : s \in l \ {r}} = Allocated(n, C) \ {heap_listp}
  <2>1. {s.ptr : s \in l \ {r}} = {s.ptr : s \in l} \ {r.ptr}
    BY <1>1
  <2> QED BY <2>1 DEF LiveOK, FreedAt
<1>3. \A s \in l \ {r} : s.size + DSIZE <= ALIGNMENT * n.hdr[s.ptr].size
  <2> TAKE s \in l \ {r}
  <2>1. n.hdr[s.ptr].size = h.hdr[s.ptr].size
    BY <1>1 DEF FreedAt
  <2> QED BY <2>1 DEF LiveOK
<1> QED BY <1>2, <1>3 DEF LiveOK, Unique

LEMMA FreeGives ==
    ASSUME NEW h, NEW B, NEW l, SoundAs(h, B, l), NEW r \in l, NEW n, n = mm_free(h, r.ptr)
    PROVE  \E D : SoundAs(n, D, l \ {r}) /\ (Neat(h, B) => Neat(n, D))
<1>1. HeapOK(h, B) /\ LiveOK(h, B, l)
  BY DEF SoundAs
<1>2. r.ptr \in Allocated(h, B) /\ r.ptr # heap_listp
  BY <1>1 DEF LiveOK
<1>3. PICK C : FreedAt(n, C, h, B, r.ptr)
  BY <1>1, <1>2, MmFreeKeeps
<1>4. LiveOK(n, C, l \ {r})
  BY <1>1, <1>3, TakenBack
<1> QED BY <1>3, <1>4 DEF FreedAt, SoundAs

LEMMA BlocksOfSound ==
    ASSUME NEW h, NEW B, NEW l, SoundAs(h, B, l)
    PROVE  Blocks(h) = B
BY BlocksOfTiling DEF SoundAs, HeapOK

\* Payloads lie within the heap, and two of them have no byte in common.
LEMMA PayloadsApart ==
    ASSUME NEW h, NEW B, HeapOK(h, B), NEW l, LiveOK(h, B, l)
    PROVE  \A r \in l :
             /\ r.ptr \in Units /\ r.size \in Nat \ {0}
             /\ 8 * r.ptr + r.size <= 8 * MAX_HEAP
             /\ \A s \in l : r # s => 8 * r.ptr + r.size <= 8 * s.ptr \/ 8 * s.ptr + s.size <= 8 * r.ptr
<1>1. ASSUME NEW r \in l
      PROVE  /\ r.ptr \in B /\ r.ptr \in Units /\ r.ptr \in Nat /\ r.size \in Nat \ {0} /\ r.size \in Nat
             /\ NEXT_BLKP(h, r.ptr) \in Nat
             /\ 8 * r.ptr + r.size + 8 <= 8 * NEXT_BLKP(h, r.ptr)
             /\ NEXT_BLKP(h, r.ptr) <= MAX_HEAP
  <2>1. r.ptr \in B /\ r.size \in Nat \ {0}
    BY DEF LiveOK, Allocated, Payload
  <2>2. r.size \in Nat
    BY <2>1
  <2>3. /\ r.ptr \in Units /\ r.ptr \in Nat /\ h.hdr[r.ptr].size \in Nat
        /\ NEXT_BLKP(h, r.ptr) = r.ptr + h.hdr[r.ptr].size /\ NEXT_BLKP(h, r.ptr) \in Units
    BY <2>1, TilingTypes, UnitsAreNaturals DEF HeapOK
  <2>4. r.size + 8 <= 8 * h.hdr[r.ptr].size
    BY DEF LiveOK, DSIZE, ALIGNMENT
  <2>5. NEXT_BLKP(h, r.ptr) \in Nat /\ NEXT_BLKP(h, r.ptr) <= MAX_HEAP
    BY <2>3, UnitsAreNaturals
  <2>6. \A p, z, q \in Nat : q + 8 <= 8 * z => 8 * p + q + 8 <= 8 * (p + z)
    OBVIOUS
  <2> QED BY <2>1, <2>2, <2>3, <2>4, <2>5, <2>6
<1>2. \A p, q, e, m \in Nat : 8 * p + q + 8 <= 8 * e /\ e <= m => 8 * p + q <= 8 * m
  OBVIOUS
<1>3. MAX_HEAP \in Nat
  BY UnitsAreNaturals
<1> SUFFICES ASSUME NEW r \in l
             PROVE  /\ r.ptr \in Units /\ r.size \in Nat \ {0}
                    /\ 8 * r.ptr + r.size <= 8 * MAX_HEAP
                    /\ \A s \in l : r # s => \/ 8 * r.ptr + r.size <= 8 * s.ptr
                                             \/ 8 * s.ptr + s.size <= 8 * r.ptr
  OBVIOUS
<1>4. 8 * r.ptr + r.size <= 8 * MAX_HEAP
  BY <1>1, <1>2, <1>3
<1>5. ASSUME NEW s \in l, r # s
      PROVE  8 * r.ptr + r.size <= 8 * s.ptr \/ 8 * s.ptr + s.size <= 8 * r.ptr
  <2>1. r.ptr # s.ptr
    BY <1>5 DEF LiveOK, Unique
  <2>2. r.ptr < s.ptr \/ s.ptr < r.ptr
    BY <1>1, <2>1
  <2>3. \A b, c \in B : b < c => NEXT_BLKP(h, b) <= c
    BY TilingTypes DEF HeapOK
  <2>4. NEXT_BLKP(h, r.ptr) <= s.ptr \/ NEXT_BLKP(h, s.ptr) <= r.ptr
    BY <1>1, <2>2, <2>3
  <2> QED BY <1>1, <1>2, <2>4
<1> QED BY <1>1, <1>4, <1>5

-----------------------------------------------------------------------------
(* mm_realloc. *)

LEMMA MaxIsGreatest ==
    ASSUME NEW S, S \subseteq Units, S # {}
    PROVE  Max(S) \in S /\ \A j \in S : j <= Max(S)
<1> DEFINE Dist == {MAX_HEAP - c : c \in S}
<1>0. MAX_HEAP \in Nat /\ \A x \in S : x \in Nat /\ x <= MAX_HEAP
  BY UnitsAreNaturals
<1>1. Dist \subseteq Nat /\ Dist # {}
  <2>1. \A x \in S : MAX_HEAP - x \in Nat
    BY <1>0
  <2> QED BY <2>1
<1>2. PICK d \in Dist : \A e \in Dist : d <= e
  BY <1>1, LeastExists
<1>3. PICK p \in S : d = MAX_HEAP - p
  BY <1>2
<1>4. \A c \in S : p >= c
  <2> TAKE c \in S
  <2>1. MAX_HEAP - p <= MAX_HEAP - c
    BY <1>2, <1>3
  <2> QED BY <1>0, <2>1
<1>5. Max(S) \in S /\ \A j \in S : Max(S) >= j
  BY <1>4 DEF Max
<1> QED BY <1>0, <1>5

\* The blocks after bp that mm_realloc adds to it are free, and end where a block ends.
Run(h, B, bp, last, end) ==
    /\ last \in B /\ bp <= last /\ end = NEXT_BLKP(h, last)
    /\ \A c \in B : bp < c /\ c < end => ~h.hdr[c].alloc

LEMMA RecycleRun ==
    ASSUME NEW h, NEW B, Tiling(h, B), NEW bp \in B, NEW wanted,
           NEW end, end = NEXT_BLKP(h, bp) + extend_heap_recycle(h, bp, wanted)
    PROVE  /\ \E last : Run(h, B, bp, last, end)
           /\ extend_heap_recycle(h, bp, wanted) = end - NEXT_BLKP(h, bp)
<1> DEFINE start == NEXT_BLKP(h, bp)
           after == BlocksFrom(h, start)
           run == {b \in after : b - start <= wanted /\ \A c \in after : c <= b => ~h.hdr[c].alloc}
           last == Max(run)
<1>0. \A c \in B \cup {h.brk} : c \in Nat /\ c \in Units
  BY TilingTypes, UnitsAreNaturals
<1>1. start \in B \cup {h.brk} /\ start \in Nat /\ bp < start /\ bp \in Nat
  BY <1>0, TilingTypes
<1>2. after = {c \in B : start <= c}
  BY <1>1, WalkVisits
<1>3. \A b, c \in B : b < c => NEXT_BLKP(h, b) <= c
  BY TilingTypes
<1>4. \A c \in B : bp < c => c \in after
  BY <1>2, <1>3
<1>5. end = start + IF run = {} THEN 0 ELSE NEXT_BLKP(h, last) - start
  BY DEF extend_heap_recycle
<1>6. CASE run = {}
  <2>1. end = start
    BY <1>1, <1>5, <1>6
  <2>2. \A c \in B : bp < c => ~(c < end)
    BY <1>0, <1>1, <1>3, <2>1
  <2>3. bp <= bp
    BY <1>1
  <2>4. Run(h, B, bp, bp, end)
    BY <2>1, <2>2, <2>3 DEF Run
  <2>5. extend_heap_recycle(h, bp, wanted) = 0
    BY <1>6 DEF extend_heap_recycle
  <2>6. end - NEXT_BLKP(h, bp) = 0
    BY <1>1, <2>1
  <2> QED BY <2>4, <2>5, <2>6
<1>7. CASE run # {}
  <2>1. run \subseteq Units
    BY <1>0, <1>2
  <2> HIDE DEF run
  <2>2. last \in run
    BY <1>7, <2>1, MaxIsGreatest
  <2>3. last \in B /\ start <= last /\ \A c \in after : c <= last => ~h.hdr[c].alloc
    BY <1>2, <2>2 DEF run
  <2> HIDE DEF last, after
  <2>4. NEXT_BLKP(h, last) \in Nat /\ last \in Nat /\ last < NEXT_BLKP(h, last)
    BY <1>0, <2>3, TilingTypes
  <2>5. end = NEXT_BLKP(h, last)
    BY <1>1, <1>5, <1>7, <2>4
  <2>6. ASSUME NEW c \in B, bp < c, c < end PROVE ~h.hdr[c].alloc
    <3>1. ~(last < c)
      BY <1>0, <1>3, <2>3, <2>4, <2>5, <2>6
    <3>2. c <= last
      BY <1>0, <2>4, <2>6, <3>1
    <3>3. c \in after
      BY <1>4, <2>6
    <3> QED BY <2>3, <3>2, <3>3
  <2>7. Run(h, B, bp, last, end)
    BY <1>1, <2>3, <2>4, <2>5, <2>6 DEF Run
  <2>8. extend_heap_recycle(h, bp, wanted) = NEXT_BLKP(h, last) - start
    BY <1>7 DEF extend_heap_recycle, last, after, run
  <2> QED BY <2>5, <2>7, <2>8
<1> QED BY <1>6, <1>7

\* What every step of mm_realloc keeps, also one that destroys the list of blocks.
Framed(h) ==
    /\ h \in Heap /\ h.hdr[heap_listp].size > 0 /\ h.hdr[heap_listp].alloc
    /\ h.current_block < h.brk

LEMMA TilingIsFramed ==
    ASSUME NEW h, NEW B, Tiling(h, B), h.current_block < h.brk
    PROVE  Framed(h)
BY DEF Tiling, Framed

LEMMA SoundIsFramed ==
    ASSUME NEW h, NEW B, HeapOK(h, B)
    PROVE  Framed(h)
BY TilingIsFramed, TilingTypes DEF HeapOK, SearchOK

\* The block at bp becomes the one at new, with room for body units, and is allocated; the
\* other allocated blocks stay as they are.
RegrownAt(n, D, h, B, bp, new, body) ==
    /\ HeapOK(n, D) /\ new # heap_listp /\ new \notin Allocated(h, B) \ {bp}
    /\ Allocated(n, D) = (Allocated(h, B) \ {bp}) \cup {new}
    /\ \A b \in Allocated(h, B) \ {bp} : n.hdr[b].size = h.hdr[b].size
    /\ body <= n.hdr[new].size

\* bp is allocated, and the other blocks from first up to end are free.
Span(h, B, bp, first, end) ==
    /\ bp \in Allocated(h, B) /\ first \in B /\ first # heap_listp /\ first <= bp /\ bp < end
    /\ \A c \in B : first <= c /\ c < end /\ c # bp => ~h.hdr[c].alloc
    /\ \E last \in B : first <= last /\ end = NEXT_BLKP(h, last)

ResizedAt(n, h, B, bp, first, end, body) ==
    /\ Framed(n) /\ first \in Units /\ NEXT_BLKP(n, first) \in Units
    /\ first \notin Allocated(h, B) \ {bp}
    /\ h.current_block \in B /\ ~(first < h.current_block /\ h.current_block < end)
       => \E D : RegrownAt(n, D, h, B, bp, first, body)

\* They become one allocated block.
LEMMA ResizedKeeps ==
    ASSUME NEW h, NEW B, Tiling(h, B), h.current_block < h.brk,
           NEW bp, NEW first, NEW end, Span(h, B, bp, first, end),
           NEW body, body <= end - first
    PROVE  ResizedAt(PutBlock(h, first, end - first, TRUE, FALSE), h, B, bp, first, end, body)
<1> DEFINE D == Joined(B, first, end)
           n == PutBlock(h, first, end - first, TRUE, FALSE)
<1>0. \A c \in B \cup {h.brk} : c \in Nat /\ c \in Units
  BY TilingTypes, UnitsAreNaturals
<1>1. PICK last \in B : first <= last /\ end = NEXT_BLKP(h, last)
  BY DEF Span
<1>2. /\ first \in B /\ first # heap_listp /\ first <= bp /\ bp < end /\ bp \in Allocated(h, B) /\ bp \in B
      /\ \A c \in B : first <= c /\ c < end /\ c # bp => ~h.hdr[c].alloc
  BY DEF Span, Allocated
<1>3. end \in B \cup {h.brk} /\ end \in Units /\ end \in Nat
  BY <1>0, <1>1, TilingTypes
<1>4. JoinedInto(n, D, h, first, end, TRUE, FALSE)
  BY <1>1, <1>2, JoinTiles
<1> HIDE DEF D, n
<1>9. /\ Tiling(n, D) /\ first \in D /\ NEXT_BLKP(n, first) = end
      /\ n.brk = h.brk /\ n.current_block = h.current_block
      /\ n.hdr[first] = [size |-> end - first, alloc |-> TRUE, tag |-> FALSE]
      /\ \A x \in Units \ {first} : n.hdr[x] = h.hdr[x]
  BY <1>4 DEF JoinedInto
<1>5. /\ Tiling(n, D) /\ first \in D /\ NEXT_BLKP(n, first) = end
      /\ n.brk = h.brk /\ n.current_block = h.current_block
      /\ n.hdr[first].size = end - first /\ n.hdr[first].alloc = TRUE
      /\ \A x \in Units : x # first => n.hdr[x] = h.hdr[x]
  BY <1>9
<1>10. bp \in Nat /\ first \in Nat /\ end \in Nat /\ \A c \in B : c \in Nat /\ c \in Units
  BY <1>0, <1>2, <1>3
<1>6. Framed(n)
  BY <1>5, TilingIsFramed
<1>7. first \notin Allocated(h, B) \ {bp}
  <2>1. first <= first /\ first < end
    BY <1>0, <1>2, <1>3
  <2> QED BY <1>2, <2>1 DEF Allocated
<1>8. ASSUME h.current_block \in B, ~(first < h.current_block /\ h.current_block < end)
      PROVE  RegrownAt(n, D, h, B, bp, first, body)
  <2>2. \A c \in B : c \in D <=> c <= first \/ end <= c
    BY DEF D, Joined
  <2>1. SearchOK(n, D)
    <3>1. h.current_block <= first \/ end <= h.current_block
      BY <1>8, <1>10
    <3> QED BY <1>5, <1>8, <2>2, <3>1 DEF SearchOK
  <2>3. D \subseteq B
    BY DEF D, Joined
  <2>4. ASSUME NEW c \in D, c # first PROVE c \in B /\ c # bp /\ n.hdr[c] = h.hdr[c]
    BY <1>2, <1>5, <1>10, <2>2, <2>3, <2>4
  <2>5. ASSUME NEW c \in Allocated(h, B) \ {bp} PROVE c \in D /\ c # first /\ n.hdr[c] = h.hdr[c]
    <3>1. c \in B /\ h.hdr[c].alloc /\ c # bp
      BY <2>5 DEF Allocated
    <3>2. ~(first <= c /\ c < end)
      BY <1>2, <3>1
    <3> QED BY <1>2, <1>5, <1>10, <2>2, <3>1, <3>2
  <2>6. Allocated(n, D) = (Allocated(h, B) \ {bp}) \cup {first}
    BY <1>5, <2>4, <2>5 DEF Allocated
  <2>7. \A b \in Allocated(h, B) \ {bp} : n.hdr[b].size = h.hdr[b].size
    BY <2>5
  <2>8. body <= n.hdr[first].size
    BY <1>5
  <2> QED BY <1>2, <1>5, <1>7, <2>1, <2>6, <2>7, <2>8 DEF RegrownAt, HeapOK
<1>11. ResizedAt(n, h, B, bp, first, end, body)
  BY <1>0, <1>2, <1>3, <1>5, <1>6, <1>7, <1>8 DEF ResizedAt
<1> QED BY <1>11 DEF n

\* GrowNext, up to the end of the free blocks that follow: current_block must not be one of
\* them, and there must be enough of them, unless the heap can be extended behind them.
GrownNextAt(new, h, B, bp, end, body) ==
    /\ new.bp = bp /\ Framed(new.heap) /\ NEXT_BLKP(new.heap, bp) \in Units
    /\ ~(end < bp + body /\ end < h.brk) /\ ~(bp < h.current_block /\ h.current_block < end)
       => \E D : RegrownAt(new.heap, D, h, B, bp, bp, body)

\* Where the free blocks end the heap: they grow with it, and bp takes them all.
LEMMA GrowAtBreak ==
    ASSUME NEW h, NEW B, HeapOK(h, B), NEW bp \in Allocated(h, B), bp # heap_listp,
           NEW last, Run(h, B, bp, last, h.brk), NEW body \in Nat, NEW size \in Nat \ {0},
           bp + body <= h.brk + size,
           NEW at, NEW C, ExtendedBy(at, C, h, B, size)
    PROVE  GrownNextAt(Resized(at.heap, bp, h.brk - bp + size), h, B, bp, h.brk, body)
<1> DEFINE top == at.heap.brk
           n == PutBlock(at.heap, bp, top - bp, TRUE, FALSE)
<1>1. /\ HeapOK(at.heap, C) /\ SameAllocated(at.heap, C, h, B) /\ top = h.brk + size
      /\ at.heap.current_block <= h.current_block
  BY DEF ExtendedBy, NewFree
<1>2. Tiling(h, B) /\ h.current_block \in B /\ Tiling(at.heap, C) /\ at.heap.current_block \in C
  BY <1>1 DEF HeapOK, SearchOK
<1>3. /\ \A c \in B \cup {h.brk} : c \in Nat /\ c \in Units
      /\ \A c \in B : c < h.brk
  BY <1>2, TilingTypes, UnitsAreNaturals
<1>4. /\ \A c \in C \cup {top} : c \in Nat /\ c \in Units
      /\ \A c \in C : c < top
  BY <1>2, TilingTypes, UnitsAreNaturals
<1>5. bp \in B /\ bp \in C /\ bp \in Allocated(at.heap, C)
  BY <1>1 DEF SameAllocated, Allocated
<1>6. bp \in Nat /\ top \in Nat /\ h.brk \in Nat /\ bp < top
  BY <1>3, <1>4, <1>5
<1> HIDE DEF top
<1>7. h.brk - bp + size = top - bp
  BY <1>1, <1>6
<1>8. Span(at.heap, C, bp, bp, top)
  <2>1. \A c \in C : bp < c => ~at.heap.hdr[c].alloc
    <3> SUFFICES ASSUME NEW c \in C, bp < c, at.heap.hdr[c].alloc PROVE FALSE
      OBVIOUS
    <3>1. c \in Allocated(h, B)
      BY <1>1 DEF SameAllocated, Allocated
    <3>2. c \in B /\ h.hdr[c].alloc /\ c < h.brk
      BY <1>3, <3>1 DEF Allocated
    <3> QED BY <3>2 DEF Run
  <2>2. ASSUME NEW c \in C, bp <= c, c # bp PROVE ~at.heap.hdr[c].alloc
    BY <1>4, <1>6, <2>1, <2>2
  <2>3. PICK p \in C : NEXT_BLKP(at.heap, p) = top
    <3>1. heap_listp # top /\ top \in C \cup {at.heap.brk}
      BY <1>2, TilingTypes DEF top
    <3> QED BY <1>2, <3>1, BlockBefore
  <2>4. ~(p < bp)
    <3>1. p < bp => NEXT_BLKP(at.heap, p) <= bp
      BY <1>2, <1>5, TilingTypes
    <3> QED BY <1>6, <2>3, <3>1
  <2>5. bp <= p /\ bp <= bp
    BY <1>4, <1>6, <2>4
  <2> QED BY <1>5, <1>6, <2>2, <2>3, <2>5 DEF Span
<1>9. body <= top - bp
  BY <1>1, <1>6
<1>10. at.heap.current_block < at.heap.brk
  BY <1>2, <1>4 DEF top
<1>11. ResizedAt(n, at.heap, C, bp, bp, top, body)
  BY <1>2, <1>8, <1>9, <1>10, ResizedKeeps
<1> HIDE DEF n
<1>12. Framed(n) /\ NEXT_BLKP(n, bp) \in Units
  BY <1>11 DEF ResizedAt
<1>13. ASSUME ~(bp < h.current_block /\ h.current_block < h.brk)
       PROVE  \E D : RegrownAt(n, D, h, B, bp, bp, body)
  <2>1. h.current_block <= bp
    BY <1>2, <1>3, <1>6, <1>13
  <2>2. ~(bp < at.heap.current_block)
    BY <1>1, <1>2, <1>3, <1>4, <1>6, <2>1
  <2>3. PICK D : RegrownAt(n, D, at.heap, C, bp, bp, body)
    BY <1>2, <1>11, <2>2 DEF ResizedAt
  <2>4. RegrownAt(n, D, h, B, bp, bp, body)
    BY <1>1, <2>3 DEF RegrownAt, SameAllocated
  <2> QED BY <2>4
<1>14. GrownNextAt([heap |-> n, bp |-> bp], h, B, bp, h.brk, body)
  BY <1>12, <1>13 DEF GrownNextAt
<1>15. Resized(at.heap, bp, h.brk - bp + size) = [heap |-> n, bp |-> bp]
  BY <1>7 DEF Resized, n
<1> QED BY <1>14, <1>15

\* Elsewhere: the block is written over blocks that it has not taken.
LEMMA GrowElsewhere ==
    ASSUME NEW h, NEW B, HeapOK(h, B), NEW bp \in Allocated(h, B), bp # heap_listp,
           NEW end \in B, bp < end, NEW body \in Nat, NEW size \in Nat \ {0},
           end < bp + body,
           NEW at, NEW C, ExtendedBy(at, C, h, B, size)
    PROVE  GrownNextAt(Resized(at.heap, bp, end - bp + size), h, B, bp, end, body)
<1> DEFINE more == end - bp + size
           n == PutBlock(at.heap, bp, more, TRUE, FALSE)
<1>1. /\ HeapOK(at.heap, C) /\ at.heap.brk = h.brk + size /\ Framed(at.heap)
  BY SoundIsFramed DEF ExtendedBy, NewFree
<1>2. /\ \A c \in B : c \in Nat /\ c \in Units /\ c < h.brk /\ 1 <= c
      /\ at.heap.brk \in Nat /\ at.heap.brk <= MAX_HEAP /\ h.brk \in Nat /\ MAX_HEAP \in Nat
  BY <1>1, TilingTypes, UnitsAreNaturals DEF HeapOK
<1>3. bp \in B
  BY DEF Allocated
<1>4. /\ more \in 0 .. MAX_HEAP /\ bp + more \in Units /\ bp + more - 1 \in Units /\ bp \in Units
  BY <1>1, <1>2, <1>3 DEF Units
<1>5. Written(n, at.heap, bp, more, TRUE, FALSE)
  BY <1>1, <1>4, PutBlockWrites DEF Framed
<1> HIDE DEF n
<1> HIDE DEF more
<1>8. n.hdr[bp] = [size |-> more, alloc |-> TRUE, tag |-> FALSE]
  BY <1>5 DEF Written
<1>6. NEXT_BLKP(n, bp) \in Units
  BY <1>4, <1>8 DEF NEXT_BLKP
<1>7. Framed(n)
  <2>1. heap_listp \in Units
    BY <1>1, TilingTypes DEF HeapOK
  <2> QED BY <1>1, <1>5, <2>1 DEF Framed, Written
<1>9. GrownNextAt([heap |-> n, bp |-> bp], h, B, bp, end, body)
  BY <1>2, <1>6, <1>7 DEF GrownNextAt
<1>10. Resized(at.heap, bp, more) = [heap |-> n, bp |-> bp]
  BY DEF Resized, n
<1> QED BY <1>9, <1>10 DEF more

LEMMA GrowNextKeeps ==
    ASSUME NEW h, NEW B, HeapOK(h, B), NEW bp \in Allocated(h, B), bp # heap_listp,
           NEW missing \in Nat \ {0}, NEW body, body = h.hdr[bp].size + missing,
           NEW end, end = NEXT_BLKP(h, bp) + extend_heap_recycle(h, bp, missing)
    PROVE  \/ GrowNext(h, bp, missing) = [heap |-> h, bp |-> NULL]
           \/ GrownNextAt(GrowNext(h, bp, missing), h, B, bp, end, body)
<1> DEFINE recycled == extend_heap_recycle(h, bp, missing)
           room == h.hdr[bp].size + recycled
           lacking == h.hdr[bp].size + missing - room
           extendsize == IF lacking > CHUNKSIZE THEN lacking ELSE CHUNKSIZE
           new == GrowNext(h, bp, missing)
           at == extend_heap(h, extendsize)
<1>1. Tiling(h, B) /\ h.current_block \in B /\ bp \in B /\ h.hdr[bp].alloc
  BY DEF HeapOK, SearchOK, Allocated
<1>2. /\ \A c \in B \cup {h.brk} : c \in Nat /\ c \in Units
      /\ \A c \in B : c < h.brk
  BY <1>1, TilingTypes, UnitsAreNaturals
<1>3. h.hdr[bp].size \in Nat /\ NEXT_BLKP(h, bp) = bp + h.hdr[bp].size /\ NEXT_BLKP(h, bp) \in Nat
  BY <1>1, TilingTypes, UnitsAreNaturals
<1>4. PICK last : Run(h, B, bp, last, end)
  BY <1>1, RecycleRun
<1>5. end \in B \cup {h.brk} /\ end \in Nat /\ last \in Nat /\ last < end /\ bp <= last /\ last \in B
  BY <1>1, <1>2, <1>4, TilingTypes DEF Run
<1>6. bp \in Nat /\ bp < end /\ h.brk \in Nat
  <2>1. bp \in Nat /\ h.brk \in Nat
    BY <1>1, <1>2
  <2> QED BY <1>5, <2>1
<1>7. recycled = end - NEXT_BLKP(h, bp)
  BY <1>1, RecycleRun
<1> HIDE DEF recycled
<1>8. room = end - bp /\ lacking = bp + body - end
  BY <1>3, <1>5, <1>6, <1>7
<1>9. lacking \in Int /\ body \in Nat
  BY <1>3, <1>5, <1>6, <1>8
<1>10. new = IF lacking <= 0 THEN Resized(h, bp, room)
             ELSE ResizedUnlessNull(at, bp, room + extendsize)
  BY DEF GrowNext, recycled
<1> HIDE DEF room, lacking, new
<1>11. CASE lacking <= 0
  <2> DEFINE n == PutBlock(h, bp, end - bp, TRUE, FALSE)
  <2>1. new = [heap |-> n, bp |-> bp]
    BY <1>8, <1>10, <1>11 DEF Resized
  <2>2. Span(h, B, bp, bp, end)
    <3>1. \A c \in B : bp <= c /\ c # bp => bp < c
      BY <1>2, <1>6
    <3>2. bp <= bp
      BY <1>6
    <3> QED BY <1>1, <1>4, <1>5, <1>6, <3>1, <3>2 DEF Span, Run
  <2>3. body <= end - bp
    BY <1>5, <1>6, <1>8, <1>9, <1>11
  <2>4. h.current_block < h.brk
    BY <1>1, <1>2
  <2>5. ResizedAt(n, h, B, bp, bp, end, body)
    BY <1>1, <2>2, <2>3, <2>4, ResizedKeeps
  <2> HIDE DEF n
  <2>6. GrownNextAt(new, h, B, bp, end, body)
    BY <1>1, <2>1, <2>5 DEF ResizedAt, GrownNextAt
  <2> QED BY <2>6 DEF new
<1>12. CASE ~(lacking <= 0)
  <2>1. extendsize \in Nat \ {0} /\ lacking <= extendsize /\ lacking > 0
    BY <1>9, <1>12, UnitsAssumption
  <2>2. new = ResizedUnlessNull(at, bp, room + extendsize)
    BY <1>10, <1>12
  <2> HIDE DEF extendsize, at
  <2>3. \/ at = [heap |-> h, bp |-> NULL]
        \/ \E C : ExtendedBy(at, C, h, B, extendsize)
    BY <2>1, ExtendHeapKeeps DEF at
  <2>4. CASE at = [heap |-> h, bp |-> NULL]
    BY <2>2, <2>4 DEF ResizedUnlessNull, new
  <2>5. CASE \E C : ExtendedBy(at, C, h, B, extendsize)
    <3>1. PICK C : ExtendedBy(at, C, h, B, extendsize)
      BY <2>5
    <3>2. at.bp # NULL
      <4>1. at.bp \in C /\ HeapOK(at.heap, C)
        BY <3>1 DEF ExtendedBy, NewFree, FreeBlock
      <4>2. C \subseteq Units
        BY <4>1, TilingTypes DEF HeapOK
      <4> QED BY <4>1, <4>2, UnitsAreNaturals DEF NULL
    <3>3. new = Resized(at.heap, bp, end - bp + extendsize)
      BY <1>8, <2>2, <3>2 DEF ResizedUnlessNull
    <3>4. end < bp + body
      BY <1>5, <1>6, <1>8, <1>9, <2>1
    <3>5. CASE end = h.brk
      <4>1. bp + body <= h.brk + extendsize
        BY <1>5, <1>6, <1>8, <1>9, <2>1, <3>5
      <4>2. GrownNextAt(new, h, B, bp, end, body)
        BY <1>4, <1>9, <2>1, <3>1, <3>3, <3>5, <4>1, GrowAtBreak
      <4> QED BY <4>2 DEF new
    <3>6. CASE end \in B
      <4>1. GrownNextAt(new, h, B, bp, end, body)
        BY <1>6, <1>9, <2>1, <3>1, <3>3, <3>4, <3>6, GrowElsewhere
      <4> QED BY <4>1 DEF new
    <3> QED BY <1>5, <3>5, <3>6
  <2> QED BY <2>3, <2>4, <2>5
<1> QED BY <1>11, <1>12

LEMMA TakesPrevKeeps ==
    ASSUME NEW h, NEW B, HeapOK(h, B), NEW bp \in Allocated(h, B), bp # heap_listp,
           NEW body, NEW prev, prev = PREV_BLKP(h, bp), ~IS_BLOCK_ALLOCATED(h, prev),
           h.hdr[prev].size + h.hdr[bp].size >= body, body \in Nat
    PROVE  \E n : /\ Resized(h, prev, h.hdr[prev].size + h.hdr[bp].size) = [heap |-> n, bp |-> prev]
                  /\ ResizedAt(n, h, B, bp, prev, NEXT_BLKP(h, bp), body)
<1> DEFINE end == NEXT_BLKP(h, bp)
           n == PutBlock(h, prev, end - prev, TRUE, FALSE)
<1>1. Tiling(h, B) /\ h.current_block \in B /\ bp \in B /\ h.hdr[bp].alloc
  BY DEF HeapOK, SearchOK, Allocated
<1>2. prev \in B /\ NEXT_BLKP(h, prev) = bp
  BY <1>1, BlockBefore
<1>3. /\ \A c \in B : c \in Nat
      /\ \A c \in B : c < h.brk
  BY <1>1, TilingTypes, UnitsAreNaturals
<1>4. /\ h.hdr[bp].size \in Nat /\ end = bp + h.hdr[bp].size /\ bp < end
      /\ h.hdr[prev].size \in Nat /\ h.hdr[prev].size > 0 /\ bp = prev + h.hdr[prev].size
  BY <1>1, <1>2, TilingTypes
<1>5. bp \in Nat /\ prev \in Nat /\ end \in Nat /\ prev < bp
  <2>1. bp \in Nat /\ prev \in Nat
    BY <1>1, <1>2, <1>3
  <2>2. \A a, b, d \in Nat : d > 0 /\ b = a + d => a < b
    OBVIOUS
  <2>3. prev < bp
    BY <1>4, <2>1, <2>2
  <2>4. end \in Units
    BY <1>1, TilingTypes
  <2>5. end \in Nat
    BY <2>4, UnitsAreNaturals
  <2> QED BY <2>1, <2>3, <2>5
<1>6. h.hdr[prev].size + h.hdr[bp].size = end - prev
  <2> DEFINE p == h.hdr[prev].size
             s == h.hdr[bp].size
  <2>1. p \in Nat /\ s \in Nat /\ end = bp + s /\ bp = prev + p
    BY <1>4
  <2> HIDE DEF p, s, end
  <2>2. p + s = end - prev
    BY <1>5, <2>1
  <2> QED BY <2>2 DEF p, s
<1>7. ~h.hdr[prev].alloc /\ prev # heap_listp
  <2>1. ~h.hdr[prev].alloc
    BY <1>4 DEF IS_BLOCK_ALLOCATED
  <2> QED BY <1>1, <2>1 DEF Tiling
<1>8. Span(h, B, bp, prev, end)
  <2>1. ASSUME NEW c \in B, prev <= c, c < end, c # bp PROVE ~h.hdr[c].alloc
    <3>1. c \in Nat
      BY <1>3
    <3>2. prev < c => bp <= c
      BY <1>1, <1>2, TilingTypes
    <3>3. bp < c => end <= c
      BY <1>1, TilingTypes
    <3>4. ~(prev < c)
      <4> HIDE DEF end
      <4>1. prev < c => c = bp \/ bp < c
        BY <1>5, <3>1, <3>2
      <4>2. ~(bp < c)
        BY <1>5, <2>1, <3>1, <3>3
      <4> QED BY <2>1, <4>1, <4>2
    <3>5. c = prev
      BY <1>5, <2>1, <3>1, <3>4
    <3> QED BY <1>7, <3>5
  <2>2. prev <= bp
    BY <1>5
  <2> QED BY <1>1, <1>2, <1>4, <1>7, <2>1, <2>2 DEF Span
<1>9. body <= end - prev
  BY <1>4, <1>5, <1>6
<1>10. h.current_block < h.brk
  BY <1>1, <1>3
<1>11. ResizedAt(n, h, B, bp, prev, end, body)
  BY <1>1, <1>8, <1>9, <1>10, ResizedKeeps
<1>12. Resized(h, prev, h.hdr[prev].size + h.hdr[bp].size) = [heap |-> n, bp |-> prev]
  BY <1>6 DEF Resized
<1> HIDE DEF n
<1> QED BY <1>11, <1>12

\* mm_malloc is asked for the size whose blocks have body units.
LEMMA BodyIsAdjusted ==
    ASSUME NEW body \in Nat, body >= 2
    PROVE  AdjustedSize(ALIGNMENT * body - DSIZE) = body
<1>1. CASE body = 2
  BY <1>1 DEF AdjustedSize, ALIGNMENT, DSIZE
<1>2. CASE body # 2
  <2>1. ~(8 * body - 8 <= 8) /\ (8 * body - 8 + 8 + 8 - 1) \div 8 = body
    BY <1>2
  <2> QED BY <2>1 DEF AdjustedSize, ALIGNMENT, DSIZE
<1> QED BY <1>1, <1>2

\* A block that has room for body units takes the place of the one that is freed.
LEMMA MovesKeeps ==
    ASSUME NEW h, NEW B, HeapOK(h, B), NEW bp \in Allocated(h, B), bp # heap_listp,
           NEW body \in Nat, body >= 2, NEW new, new = FreeUnlessNull(MoveTo(h, body), bp)
    PROVE  \/ /\ MoveTo(h, body).bp = NULL /\ new.bp = NULL /\ HeapOK(new.heap, B)
              /\ new.heap.hdr = h.hdr /\ new.heap.brk = h.brk
           \/ \E D : RegrownAt(new.heap, D, h, B, bp, new.bp, body)
<1> DEFINE at == MoveTo(h, body)
<1>1. \/ at.bp = NULL /\ HeapOK(at.heap, B) /\ at.heap.hdr = h.hdr /\ at.heap.brk = h.brk
      \/ \E C : PlacedAt(at.heap, C, h, B, at.bp, body)
  <2>1. body \in Nat \ {0} /\ body = AdjustedSize(ALIGNMENT * body - DSIZE)
    BY BodyIsAdjusted
  <2>2. at = mm_malloc(h, ALIGNMENT * body - DSIZE)
    BY DEF MoveTo
  <2> HIDE DEF at
  <2> QED BY <2>1, <2>2, MmMallocKeeps
<1>2. new = FreeUnlessNull(at, bp)
  OBVIOUS
<1>3. CASE at.bp = NULL /\ HeapOK(at.heap, B) /\ at.heap.hdr = h.hdr /\ at.heap.brk = h.brk
  <2>1. new = at
    BY <1>2, <1>3 DEF FreeUnlessNull
  <2> QED BY <1>3, <2>1
<1>4. CASE \E C : PlacedAt(at.heap, C, h, B, at.bp, body)
  <2> HIDE DEF at
  <2>1. PICK C : PlacedAt(at.heap, C, h, B, at.bp, body)
    BY <1>4
  <2>2. /\ HeapOK(at.heap, C) /\ at.bp # heap_listp /\ at.bp \notin Allocated(h, B)
        /\ Allocated(at.heap, C) = Allocated(h, B) \cup {at.bp}
        /\ \A b \in Allocated(h, B) : at.heap.hdr[b].size = h.hdr[b].size
        /\ body <= at.heap.hdr[at.bp].size
    BY <2>1 DEF PlacedAt
  <2>3. at.bp # NULL
    <3>1. at.bp \in C /\ C \subseteq Units
      BY <2>2, TilingTypes DEF HeapOK, Allocated
    <3> QED BY <3>1, UnitsAreNaturals DEF NULL
  <2>4. new = [at EXCEPT !.heap = mm_free(at.heap, bp)]
    BY <1>2, <2>3 DEF FreeUnlessNull
  <2>5. PICK D : FreedAt(mm_free(at.heap, bp), D, at.heap, C, bp)
    BY <2>2, MmFreeKeeps
  <2>6. new.heap = mm_free(at.heap, bp) /\ new.bp = at.bp
    <3>1. PICK found, asize : at = PlaceUnlessNull(found, asize)
      BY DEF at, MoveTo, mm_malloc
    <3>2. at = [heap |-> place(found.heap, found.bp, asize), bp |-> found.bp]
      BY <2>3, <3>1 DEF PlaceUnlessNull
    <3>3. "heap" \in DOMAIN at /\ "bp" \in DOMAIN at
      BY <3>2
    <3> QED BY <2>4, <3>3
  <2>7. /\ HeapOK(new.heap, D) /\ Allocated(new.heap, D) = Allocated(at.heap, C) \ {bp}
        /\ \A b \in Allocated(at.heap, C) \ {bp} : new.heap.hdr[b].size = at.heap.hdr[b].size
    BY <2>5, <2>6 DEF FreedAt
  <2>8. at.bp # bp
    BY <2>2
  <2>9. RegrownAt(new.heap, D, h, B, bp, new.bp, body)
    BY <2>2, <2>6, <2>7, <2>8 DEF RegrownAt
  <2> QED BY <2>9
<1> QED BY <1>1, <1>3, <1>4

\* The two ways in which mm_realloc destroys a list of blocks, as TooLittleBetween and
\* SwallowsCurrentBlock have them.
EndOfRun(h, bp, body) == NEXT_BLKP(h, bp) + extend_heap_recycle(h, bp, body - h.hdr[bp].size)
Spoils(h, bp, body) ==
    \/ /\ TakesNext(h, bp, body)
       /\ EndOfRun(h, bp, body) < bp + body /\ EndOfRun(h, bp, body) < h.brk
    \/ /\ TakesNext(h, bp, body)
       /\ h.current_block \in (bp + 1) .. (EndOfRun(h, bp, body) - 1)
    \/ TakesPrev(h, bp, body) /\ h.current_block = bp

\* new is the block that mm_realloc has for body units, in place of bp, or NULL.
Refused(new, h, B) ==
    new.bp = NULL /\ HeapOK(new.heap, B) /\ new.heap.hdr = h.hdr /\ new.heap.brk = h.brk
GrownAt(new, h, B, bp, body) ==
    /\ Framed(new.heap) /\ new.bp \in Units /\ NEXT_BLKP(new.heap, new.bp) \in Units
    /\ new.bp \notin Allocated(h, B) \ {bp}
    /\ ~Spoils(h, bp, body) => \E D : RegrownAt(new.heap, D, h, B, bp, new.bp, body)

LEMMA RegrownIsGrown ==
    ASSUME NEW new, NEW D, NEW h, NEW B, NEW bp, NEW body,
           RegrownAt(new.heap, D, h, B, bp, new.bp, body)
    PROVE  GrownAt(new, h, B, bp, body)
<1>1. HeapOK(new.heap, D) /\ new.bp \in D /\ new.bp \notin Allocated(h, B) \ {bp}
  BY DEF RegrownAt, Allocated
<1>2. new.bp \in Units /\ NEXT_BLKP(new.heap, new.bp) \in Units
  BY <1>1, TilingTypes DEF HeapOK
<1>3. Framed(new.heap)
  BY <1>1, SoundIsFramed
<1> QED BY <1>1, <1>2, <1>3 DEF GrownAt

LEMMA GrownBlockKeeps ==
    ASSUME NEW h, NEW B, HeapOK(h, B), NEW bp \in Allocated(h, B), bp # heap_listp,
           NEW body \in Nat, body >= 2, NEW new, new = GrownBlock(h, bp, body)
    PROVE  /\ Refused(new, h, B) \/ GrownAt(new, h, B, bp, body)
           /\ Moves(h, bp, body) /\ MoveTo(h, body).bp # NULL => new.bp # NULL
<1> DEFINE missing == body - h.hdr[bp].size
           prev == PREV_BLKP(h, bp)
           end == EndOfRun(h, bp, body)
<1>1. Tiling(h, B) /\ h.current_block \in B /\ bp \in B
  BY DEF HeapOK, SearchOK, Allocated
<1>2. /\ h.hdr[bp].size \in Nat /\ bp \in Nat /\ bp \in Units /\ NEXT_BLKP(h, bp) \in Units
      /\ h.current_block \in Nat
  BY <1>1, TilingTypes, UnitsAreNaturals
<1>0. NULL \notin Units
  BY UnitsAreNaturals DEF NULL
<1>3. ASSUME GrownAt(new, h, B, bp, body) PROVE new.bp # NULL
  BY <1>0, <1>3 DEF GrownAt
<1>4. CASE TakesNext(h, bp, body)
  <2>1. new = GrowNext(h, bp, missing) /\ ~Moves(h, bp, body)
    BY <1>4 DEF GrownBlock, TakesPrev, Moves
  <2>2. missing \in Nat \ {0} /\ body = h.hdr[bp].size + missing
    BY <1>2, <1>4 DEF TakesNext
  <2>3. end = NEXT_BLKP(h, bp) + extend_heap_recycle(h, bp, missing)
    BY DEF EndOfRun
  <2> HIDE DEF missing, end
  <2>4. new = [heap |-> h, bp |-> NULL] \/ GrownNextAt(new, h, B, bp, end, body)
    BY <2>1, <2>2, <2>3, GrowNextKeeps
  <2>5. CASE new = [heap |-> h, bp |-> NULL]
    BY <2>1, <2>5 DEF Refused
  <2>6. CASE GrownNextAt(new, h, B, bp, end, body)
    <3>1. PICK last : Run(h, B, bp, last, end)
      BY <1>1, <2>3, RecycleRun
    <3>2. end \in Nat
      BY <1>1, <3>1, TilingTypes, UnitsAreNaturals DEF Run
    <3>3. ~Spoils(h, bp, body) => /\ ~(end < bp + body /\ end < h.brk)
                                  /\ h.current_block \notin (bp + 1) .. (end - 1)
      BY <1>4 DEF Spoils, end
    <3>4. ~Spoils(h, bp, body) => /\ ~(end < bp + body /\ end < h.brk)
                                  /\ ~(bp < h.current_block /\ h.current_block < end)
      BY <1>2, <3>2, <3>3
    <3>5. GrownAt(new, h, B, bp, body)
      BY <1>2, <2>6, <3>4 DEF GrownNextAt, GrownAt
    <3> QED BY <2>1, <3>5
  <2> QED BY <2>4, <2>5, <2>6
<1>5. CASE TakesPrev(h, bp, body)
  <2>1. /\ new = Resized(h, prev, h.hdr[prev].size + h.hdr[bp].size) /\ ~Moves(h, bp, body)
        /\ ~IS_BLOCK_ALLOCATED(h, prev) /\ h.hdr[prev].size + h.hdr[bp].size >= body
    BY <1>5 DEF GrownBlock, TakesPrev, Moves
  <2>2. prev \in B /\ NEXT_BLKP(h, prev) = bp
    BY <1>1, BlockBefore
  <2>3. prev = PREV_BLKP(h, bp)
    OBVIOUS
  <2> HIDE DEF prev
  <2>4. PICK n : new = [heap |-> n, bp |-> prev] /\ ResizedAt(n, h, B, bp, prev, NEXT_BLKP(h, bp), body)
    BY <2>1, <2>3, TakesPrevKeeps
  <2>5. ~Spoils(h, bp, body) => ~(prev < h.current_block /\ h.current_block < NEXT_BLKP(h, bp))
    <3> SUFFICES ASSUME h.current_block # bp, prev < h.current_block, h.current_block < NEXT_BLKP(h, bp)
                 PROVE  FALSE
      BY <1>5 DEF Spoils
    <3>1. bp <= h.current_block
      BY <1>1, <2>2, TilingTypes
    <3>2. bp < h.current_block
      BY <1>2, <3>1
    <3>3. NEXT_BLKP(h, bp) <= h.current_block /\ NEXT_BLKP(h, bp) \in Nat
      BY <1>1, <3>2, TilingTypes, UnitsAreNaturals
    <3> QED BY <1>2, <3>3
  <2>6. new.heap = n /\ new.bp = prev
    BY <2>4
  <2>7. GrownAt(new, h, B, bp, body)
    BY <1>1, <2>4, <2>5, <2>6 DEF ResizedAt, GrownAt
  <2> QED BY <2>1, <2>7
<1>6. CASE Moves(h, bp, body)
  <2>1. new = FreeUnlessNull(MoveTo(h, body), bp)
    BY <1>6 DEF GrownBlock, Moves
  <2>2. \/ /\ MoveTo(h, body).bp = NULL /\ new.bp = NULL /\ HeapOK(new.heap, B)
           /\ new.heap.hdr = h.hdr /\ new.heap.brk = h.brk
        \/ \E D : RegrownAt(new.heap, D, h, B, bp, new.bp, body)
    BY <2>1, MovesKeeps
  <2>3. \/ MoveTo(h, body).bp = NULL /\ Refused(new, h, B)
        \/ GrownAt(new, h, B, bp, body)
    BY <2>2, RegrownIsGrown DEF Refused
  <2> QED BY <1>3, <2>3
<1>7. CASE ~(TakesNext(h, bp, body) \/ TakesPrev(h, bp, body) \/ Moves(h, bp, body))
  <2>1. new = [heap |-> h, bp |-> bp] /\ body <= h.hdr[bp].size
    BY <1>2, <1>7 DEF GrownBlock, Moves
  <2>2. new.heap = h /\ new.bp = bp
    BY <2>1
  <2>3. RegrownAt(h, B, h, B, bp, bp, body)
    BY <2>1 DEF RegrownAt
  <2>4. GrownAt(new, h, B, bp, body)
    BY <2>2, <2>3, RegrownIsGrown
  <2> QED BY <1>7, <2>4
<1> QED BY <1>4, <1>5, <1>6, <1>7

\* The block that mm_realloc found for a payload gets it in the place of the old one.
LEMMA HandedOver ==
    ASSUME NEW h, NEW B, NEW l, SoundAs(h, B, l), NEW r \in l, NEW size \in Nat \ {0},
           NEW n, NEW D, NEW bp, NEW body, RegrownAt(n, D, h, B, r.ptr, bp, body),
           AdjustedSize(size) <= body, body \in Nat, NEW m, m = Fill(n, bp, size)
    PROVE  SoundAs(m, D, (l \ {r}) \cup {[ptr |-> bp, size |-> size]})
<1>1. /\ HeapOK(n, D) /\ bp # heap_listp /\ bp \notin Allocated(h, B) \ {r.ptr}
      /\ Allocated(n, D) = (Allocated(h, B) \ {r.ptr}) \cup {bp}
      /\ \A b \in Allocated(h, B) \ {r.ptr} : n.hdr[b].size = h.hdr[b].size
      /\ body <= n.hdr[bp].size
  BY DEF RegrownAt
<1>2. LiveOK(h, B, l)
  BY DEF SoundAs
<1>3. Kept(l \ {r}, n, D, bp)
  <2>1. \A s \in l \ {r} : s \in l /\ s.ptr \in Allocated(h, B) \ {r.ptr}
    BY <1>2 DEF LiveOK, Unique
  <2>2. {s.ptr : s \in l \ {r}} = {s.ptr : s \in l} \ {r.ptr}
    BY <2>1
  <2>3. {s.ptr : s \in l \ {r}} = Allocated(n, D) \ {heap_listp, bp}
    BY <1>1, <1>2, <2>2 DEF LiveOK
  <2> QED BY <1>1, <1>2, <2>1, <2>3 DEF LiveOK, Kept, Unique
<1>4. AdjustedSize(size) <= n.hdr[bp].size
  <2>1. n.hdr[bp].size \in Nat
    <3>1. bp \in D
      BY <1>1 DEF Allocated
    <3> QED BY <1>1, <3>1, TilingTypes DEF HeapOK
  <2>2. AdjustedSize(size) \in Nat
    BY AdjustedSizeIsEnough
  <2> QED BY <1>1, <2>1, <2>2
<1>5. bp \in Allocated(n, D)
  BY <1>1
<1> QED BY <1>1, <1>3, <1>4, <1>5, HandedOutTo

LEMMA FillFrames ==
    ASSUME NEW h, Framed(h), NEW bp \in Units, NEW size
    PROVE  Framed(Fill(h, bp, size))
<1> DEFINE n == Fill(h, bp, size)
           hdr == [b \in Units |-> IF bp < b /\ ALIGNMENT * b - 4 < ALIGNMENT * bp + size
                                   THEN NoHeader ELSE h.hdr[b]]
           ftr == [u \in Units |-> IF bp <= u /\ ALIGNMENT * u < ALIGNMENT * bp + size
                                   THEN NoFooter ELSE h.ftr[u]]
<1>1. h \in Heap /\ h.hdr \in [Units -> Header] /\ h.ftr \in [Units -> Footer]
  BY DEF Framed, Heap
<1>2. hdr \in [Units -> Header] /\ ftr \in [Units -> Footer]
  <2>1. NoHeader \in Header /\ NoFooter \in Footer
    BY UnitsAssumption DEF Header, Footer, NoHeader, NoFooter
  <2> QED BY <1>1, <2>1
<1>3. hdr[heap_listp] = h.hdr[heap_listp]
  <2>1. heap_listp \in Units /\ ~(bp < heap_listp)
    BY InitFits, UnitsAssumption, UnitsAreNaturals DEF heap_listp, Units
  <2> QED BY <2>1
<1>4. n = [h EXCEPT !.hdr = hdr, !.ftr = ftr]
  BY DEF Fill
<1> HIDE DEF hdr, ftr, n
<1>5. n \in Heap /\ n.hdr = hdr /\ n.brk = h.brk /\ n.current_block = h.current_block
  BY <1>1, <1>2, <1>4 DEF Heap
<1>6. Framed(n)
  BY <1>3, <1>5 DEF Framed
<1> QED BY <1>6 DEF n

\* A tag changes nothing but what coalesce makes of the block.
LEMMA TagNextKeeps ==
    ASSUME NEW h, NEW B, NEW bp, NEW body, NEW at, GrownAt(at, h, B, bp, body),
           NEW n, n = TagNext(at.heap, at.bp, body)
    PROVE  /\ Framed(n)
           /\ \A D : RegrownAt(at.heap, D, h, B, bp, at.bp, body) => RegrownAt(n, D, h, B, bp, at.bp, body)
<1>1. Framed(at.heap) /\ NEXT_BLKP(at.heap, at.bp) \in Units /\ at.heap \in Heap
  BY DEF GrownAt, Framed
<1>2. Retagged(n, at.heap)
  <2>1. CASE n = at.heap
    BY <1>1, <2>1 DEF Retagged
  <2>2. CASE \E tag \in BOOLEAN : n = SetTag(at.heap, NEXT_BLKP(at.heap, at.bp), tag)
    BY <1>1, <2>2, SetTagRetags
  <2> QED BY <2>1, <2>2 DEF TagNext
<1>3. Framed(n)
  <2>1. heap_listp \in Units
    BY InitFits, UnitsAssumption DEF heap_listp, Units
  <2> QED BY <1>1, <1>2, <2>1 DEF Framed, Retagged
<1>4. ASSUME NEW D, RegrownAt(at.heap, D, h, B, bp, at.bp, body)
      PROVE  RegrownAt(n, D, h, B, bp, at.bp, body)
  <2>1. HeapOK(n, D) /\ SameAllocated(n, D, at.heap, D)
    BY <1>2, <1>4, RetaggedIsOK DEF RegrownAt
  <2>2. \A b \in Allocated(at.heap, D) : n.hdr[b].size = at.heap.hdr[b].size
    BY <2>1 DEF SameAllocated
  <2> QED BY <1>4, <2>1, <2>2 DEF RegrownAt, SameAllocated
<1> QED BY <1>3, <1>4

LEMMA GrownIsRecord ==
    ASSUME NEW h, NEW bp, NEW body, NEW new, new = GrownBlock(h, bp, body), new.bp # NULL
    PROVE  new = [heap |-> new.heap, bp |-> new.bp]
<1>1. ASSUME NEW missing, new = GrowNext(h, bp, missing) PROVE new = [heap |-> new.heap, bp |-> new.bp]
  <2>1. \/ \E g, size : new = Resized(g, bp, size)
        \/ \E grown, size : new = ResizedUnlessNull(grown, bp, size)
    BY <1>1 DEF GrowNext
  <2>2. \E g, size : new = Resized(g, bp, size)
    BY <2>1 DEF ResizedUnlessNull
  <2>3. PICK n : new = [heap |-> n, bp |-> bp]
    BY <2>2 DEF Resized
  <2> QED BY <2>3
<1>2. ASSUME new = FreeUnlessNull(MoveTo(h, body), bp) PROVE new = [heap |-> new.heap, bp |-> new.bp]
  <2> DEFINE at == MoveTo(h, body)
  <2>1. PICK found, asize : at = PlaceUnlessNull(found, asize)
    BY DEF MoveTo, mm_malloc
  <2>2. at.bp # NULL /\ new = [at EXCEPT !.heap = mm_free(at.heap, bp)]
    BY <1>2 DEF FreeUnlessNull
  <2> HIDE DEF at
  <2>3. at = [heap |-> place(found.heap, found.bp, asize), bp |-> found.bp]
    BY <2>1, <2>2 DEF PlaceUnlessNull
  <2> QED BY <2>2, <2>3
<1>3. CASE TakesNext(h, bp, body)
  BY <1>1, <1>3 DEF GrownBlock, TakesPrev, Moves
<1>4. CASE TakesPrev(h, bp, body)
  BY <1>4 DEF GrownBlock, TakesPrev, Moves, Resized
<1>5. CASE Moves(h, bp, body)
  BY <1>2, <1>5 DEF GrownBlock, Moves
<1>6. CASE ~(TakesNext(h, bp, body) \/ TakesPrev(h, bp, body) \/ Moves(h, bp, body))
  BY <1>6 DEF GrownBlock
<1> QED BY <1>3, <1>4, <1>5, <1>6

LEMMA BodyIsEnough ==
    ASSUME NEW size \in Nat \ {0}
    PROVE  BodySize(size) \in Nat /\ BodySize(size) >= 2 /\ AdjustedSize(size) <= BodySize(size)
<1>1. size \in Nat \ {0}
  OBVIOUS
<1>2. AdjustedSize(size) \in Nat \ {0} /\ size + 8 <= 8 * AdjustedSize(size)
  BY <1>1, AdjustedSizeIsEnough DEF DSIZE, ALIGNMENT
<1>3. AdjustedSize(size) >= 2
  BY <1>1, <1>2
<1> QED BY <1>2, <1>3, UnitsAssumption DEF BodySize

\* mm_realloc has a block for size bytes in place of bp, or refuses.
ReallocatedAt(new, h, B, bp, size) ==
    /\ Framed(new.heap) /\ new.bp \in Units /\ new.bp \notin Allocated(h, B) \ {bp}
    /\ ~Spoils(h, bp, BodySize(size))
       => \E D : RegrownAt(new.heap, D, h, B, bp, new.bp, BodySize(size))

LEMMA MmReallocKeeps ==
    ASSUME NEW h, NEW B, HeapOK(h, B), NEW bp \in Allocated(h, B), bp # heap_listp,
           NEW size \in Nat \ {0}, NEW new, new = mm_realloc(h, bp, size)
    PROVE  /\ Refused(new, h, B) \/ ReallocatedAt(new, h, B, bp, size)
           /\ new.bp = GrownBlock(h, bp, BodySize(size)).bp
<1> DEFINE body == BodySize(size)
           at == GrownBlock(h, bp, body)
<1>1. body \in Nat /\ body >= 2
  BY BodyIsEnough
<1>2. new = TagUnlessNull(at, body)
  BY DEF mm_realloc
<1> HIDE DEF body
<1>3. Refused(at, h, B) \/ GrownAt(at, h, B, bp, body)
  BY <1>1, GrownBlockKeeps
<1>4. NULL \notin Units
  BY UnitsAreNaturals DEF NULL
<1>5. CASE Refused(at, h, B)
  <2>1. new = at
    BY <1>2, <1>5 DEF Refused, TagUnlessNull
  <2> HIDE DEF at
  <2> QED BY <1>5, <2>1 DEF at, body
<1>6. CASE GrownAt(at, h, B, bp, body)
  <2>1. at.bp \in Units /\ at.bp \notin Allocated(h, B) \ {bp} /\ at.bp # NULL
    BY <1>4, <1>6 DEF GrownAt
  <2>2. at = GrownBlock(h, bp, body)
    OBVIOUS
  <2>3. new = [at EXCEPT !.heap = TagNext(at.heap, at.bp, body)]
    BY <1>2, <2>1 DEF TagUnlessNull
  <2>4. ~Spoils(h, bp, body) => \E D : RegrownAt(at.heap, D, h, B, bp, at.bp, body)
    BY <1>6 DEF GrownAt
  <2> HIDE DEF at
  <2>5. new.heap = TagNext(at.heap, at.bp, body) /\ new.bp = at.bp
    <3>1. at = [heap |-> at.heap, bp |-> at.bp]
      BY <2>1, <2>2, GrownIsRecord
    <3> QED BY <2>3, <3>1
  <2>6. /\ Framed(new.heap)
        /\ \A D : RegrownAt(at.heap, D, h, B, bp, at.bp, body)
                  => RegrownAt(new.heap, D, h, B, bp, at.bp, body)
    BY <1>6, <2>5, TagNextKeeps
  <2>7. ReallocatedAt(new, h, B, bp, size)
    BY <2>1, <2>4, <2>5, <2>6 DEF ReallocatedAt, body
  <2> QED BY <2>2, <2>5, <2>7 DEF body
<1> QED BY <1>3, <1>5, <1>6

\* mm_realloc for a client that fills what it gets: whatever it does to the list of blocks,
\* the heap is well formed; and it does nothing to it but in the two ways of Spoils.
LEMMA ReallocGives ==
    ASSUME NEW h, NEW B, NEW l, SoundAs(h, B, l), NEW r \in l, NEW size \in Nat \ {0},
           NEW new, new = mm_realloc(h, r.ptr, size), NEW n, n = HeapAfter(new, size),
           NEW k, k = LiveAfter(new, size, l, l \ {r})
    PROVE  /\ Framed(n) /\ k \subseteq Payload /\ Unique(k)
           /\ ~Spoils(h, r.ptr, BodySize(size)) => \E D : SoundAs(n, D, k)
<1> DEFINE body == BodySize(size)
           payload == [ptr |-> new.bp, size |-> size]
<1>1. HeapOK(h, B) /\ LiveOK(h, B, l)
  BY DEF SoundAs
<1>2. r.ptr \in Allocated(h, B) /\ r.ptr # heap_listp
  BY <1>1 DEF LiveOK
<1>3. body \in Nat /\ body >= 2 /\ AdjustedSize(size) <= body
  BY BodyIsEnough
<1>4. /\ new.bp = NULL => n = new.heap /\ k = l
      /\ new.bp # NULL => n = Fill(new.heap, new.bp, size) /\ k = (l \ {r}) \cup {payload}
  BY DEF HeapAfter, LiveAfter
<1>5. payload.ptr = new.bp /\ (new.bp \in Units => payload \in Payload)
  BY DEF Payload
<1> HIDE DEF body, payload
<1>6. Refused(new, h, B) \/ ReallocatedAt(new, h, B, r.ptr, size)
  BY <1>1, <1>2, MmReallocKeeps
<1>7. NULL \notin Units
  BY UnitsAreNaturals DEF NULL
<1>8. CASE Refused(new, h, B)
  <2>1. HeapOK(n, B) /\ n.hdr = h.hdr /\ k = l
    BY <1>4, <1>8 DEF Refused
  <2>2. LiveOK(n, B, k)
    BY <1>1, <2>1 DEF LiveOK, Allocated
  <2>3. Framed(n)
    BY <2>1, SoundIsFramed
  <2> QED BY <2>1, <2>2, <2>3 DEF LiveOK, SoundAs
<1>9. CASE ReallocatedAt(new, h, B, r.ptr, size)
  <2>1. new.bp \in Units /\ new.bp \notin Allocated(h, B) \ {r.ptr} /\ new.bp # NULL
    BY <1>7, <1>9 DEF ReallocatedAt
  <2>2. n = Fill(new.heap, new.bp, size) /\ k = (l \ {r}) \cup {payload}
    BY <1>4, <2>1
  <2>3. Framed(n)
    BY <1>9, <2>1, <2>2, FillFrames DEF ReallocatedAt
  <2>4. k \subseteq Payload
    BY <1>1, <1>5, <2>1, <2>2 DEF LiveOK
  <2>5. Unique(k)
    <3>1. \A s \in l \ {r} : s.ptr \in Allocated(h, B) \ {r.ptr}
      BY <1>1 DEF LiveOK, Unique
    <3>2. \A s \in l \ {r} : s.ptr # payload.ptr
      BY <1>5, <2>1, <3>1
    <3> QED BY <1>1, <2>2, <3>2 DEF LiveOK, Unique
  <2>6. ASSUME ~Spoils(h, r.ptr, body) PROVE \E D : SoundAs(n, D, k)
    <3>1. PICK D : RegrownAt(new.heap, D, h, B, r.ptr, new.bp, body)
      BY <1>9, <2>6 DEF ReallocatedAt, body
    <3>2. SoundAs(n, D, k)
      BY <1>3, <2>2, <3>1, HandedOver DEF payload
    <3> QED BY <3>2
  <2> QED BY <2>3, <2>4, <2>5, <2>6 DEF body
<1> QED BY <1>6, <1>8, <1>9

-----------------------------------------------------------------------------
(* Heaps of which only the words are known. *)

\* A walk visits blocks in the order of their addresses, each after the end of the one before.
InOrder(h, x) ==
    /\ \A y \in BlocksFrom(h, x) : y \in Units /\ x <= y /\ h.hdr[y].size # 0
    /\ \A y, z \in BlocksFrom(h, x) : y < z => NEXT_BLKP(h, y) <= z

LEMMA WalkIsInOrder ==
    ASSUME NEW h \in Heap
    PROVE  \A x \in Units : InOrder(h, x)
<1> DEFINE Wrong == {MAX_HEAP - x : x \in {y \in Units : ~InOrder(h, y)}}
<1>0. MAX_HEAP \in Nat /\ \A x \in Units : x \in Nat /\ x <= MAX_HEAP
  BY UnitsAreNaturals
<1>1. SUFFICES ASSUME Wrong # {} PROVE FALSE
  OBVIOUS
<1>2. Wrong \subseteq Nat
  <2>1. \A x \in Units : MAX_HEAP - x \in Nat
    BY <1>0
  <2> QED BY <2>1
<1>3. PICK w \in Wrong : \A v \in Wrong : w <= v
  BY <1>1, <1>2, LeastExists
<1>4. PICK x \in Units : ~InOrder(h, x) /\ w = MAX_HEAP - x
  BY <1>3
<1>5. \A y \in Units : x < y => InOrder(h, y)
  <2> SUFFICES ASSUME NEW y \in Units, x < y, ~InOrder(h, y) PROVE FALSE
    OBVIOUS
  <2>1. MAX_HEAP - y \in Wrong
    OBVIOUS
  <2>2. MAX_HEAP - x <= MAX_HEAP - y
    BY <1>3, <1>4, <2>1
  <2> QED BY <1>0, <2>2
<1> HIDE DEF Wrong
<1> DEFINE next == NEXT_BLKP(h, x)
           rest == IF next \in Units THEN BlocksFrom(h, next) ELSE {}
<1>6. BlocksFrom(h, x) = IF h.hdr[x].size = 0 THEN {} ELSE {x} \cup rest
  BY BlocksUnfold
<1>7. h.hdr[x].size \in Nat /\ next = x + h.hdr[x].size /\ x \in Nat
  <2>1. h.hdr[x] \in Header
    BY DEF Heap
  <2> QED BY <1>0, <2>1 DEF Header, NEXT_BLKP
<1>8. CASE h.hdr[x].size = 0
  BY <1>4, <1>6, <1>8 DEF InOrder
<1>9. CASE h.hdr[x].size # 0
  <2>1. x < next
    BY <1>7, <1>9
  <2> HIDE DEF next
  <2>2. \A y \in rest : next \in Units /\ y \in BlocksFrom(h, next)
    OBVIOUS
  <2> HIDE DEF rest
  <2>3. \A y \in rest : /\ InOrder(h, next) /\ y \in BlocksFrom(h, next) /\ next \in Nat
                        /\ y \in Units /\ y \in Nat /\ next <= y /\ h.hdr[y].size # 0
    BY <1>0, <1>5, <2>1, <2>2 DEF InOrder
  <2>4. BlocksFrom(h, x) = {x} \cup rest
    BY <1>6, <1>9
  <2>5. \A y \in rest : x < y /\ x <= y
    BY <1>7, <2>1, <2>3
  <2>6. \A y \in BlocksFrom(h, x) : y \in Units /\ x <= y /\ h.hdr[y].size # 0
    BY <1>7, <1>9, <2>3, <2>4, <2>5
  <2>7. ASSUME NEW y \in BlocksFrom(h, x), NEW z \in BlocksFrom(h, x), y < z
        PROVE  NEXT_BLKP(h, y) <= z
    <3>1. CASE y = x /\ z = x
      BY <1>7, <2>7, <3>1
    <3>2. CASE y = x /\ z \in rest
      BY <2>3, <3>2 DEF next
    <3>3. CASE y \in rest /\ z = x
      BY <1>7, <2>3, <2>5, <2>7, <3>3
    <3>4. CASE y \in rest /\ z \in rest
      BY <2>3, <2>7, <3>4 DEF InOrder
    <3> QED BY <2>4, <3>1, <3>2, <3>3, <3>4
  <2> QED BY <1>4, <2>6, <2>7 DEF InOrder
<1> QED BY <1>8, <1>9

LEMMA SoundIsTiling ==
    ASSUME NEW h, NEW l, Framed(h), l \subseteq Payload, Unique(l), SoundHeap(h, l)
    PROVE  SoundAs(h, Blocks(h), l)
<1> DEFINE B == Blocks(h)
<1>1. /\ h \in Heap /\ h.hdr[heap_listp].size > 0 /\ h.hdr[heap_listp].alloc
      /\ h.current_block < h.brk /\ h.brk \in Units /\ h.current_block \in Units
  BY DEF Framed, Heap
<1>0. heap_listp \in Units /\ MAX_HEAP \in Nat /\ \A x \in Units : x \in Nat /\ x <= MAX_HEAP
  BY InitFits, UnitsAssumption, UnitsAreNaturals DEF heap_listp, Units
<1>2. B = BlocksFrom(h, heap_listp)
  BY DEF Blocks
<1>3. /\ \A y \in B : y \in Units /\ h.hdr[y].size # 0
      /\ \A y, z \in B : y < z => NEXT_BLKP(h, y) <= z
  BY <1>0, <1>1, <1>2, WalkIsInOrder DEF InOrder
<1>4. heap_listp \in B
  <2>1. h.hdr[heap_listp].size # 0
    BY <1>1
  <2> QED BY <1>0, <1>2, <2>1, BlocksUnfold
<1>5. /\ h.hdr[h.brk].size = 0 /\ h.hdr[h.brk].alloc
      /\ \A b \in B :
            /\ NEXT_BLKP(h, b) \in B \cup {h.brk}
            /\ h.ftr[NEXT_BLKP(h, b) - 1] = [size |-> h.hdr[b].size, alloc |-> h.hdr[b].alloc]
  BY DEF SoundHeap, TiledHeap
<1>6. /\ {r.ptr : r \in l} = {b \in B \ {heap_listp} : h.hdr[b].alloc}
      /\ \A r \in l : r.size + DSIZE <= ALIGNMENT * h.hdr[r.ptr].size
      /\ h.current_block \in B \cup {h.brk}
  BY DEF SoundHeap, HoldsPayloads, SearchStarts
<1> HIDE DEF B
<1>7. \A b \in B : h.hdr[b].size \in Nat /\ h.hdr[b].size > 0 /\ b < NEXT_BLKP(h, b)
  <2> TAKE b \in B
  <2>1. h.hdr[b] \in Header
    BY <1>1, <1>3 DEF Heap
  <2>2. h.hdr[b].size \in Nat /\ h.hdr[b].size > 0
    BY <1>0, <1>3, <2>1 DEF Header
  <2>3. b \in Nat
    BY <1>0, <1>3
  <2> QED BY <2>2, <2>3 DEF NEXT_BLKP
<1>8. \A b \in B : b < h.brk
  <2>1. B \subseteq Units /\ B # {}
    BY <1>3, <1>4
  <2>2. PICK last \in B : \A b \in B : b <= last
    BY <2>1, MaxIsGreatest
  <2>3. NEXT_BLKP(h, last) = h.brk
    <3>1. last \in Nat /\ h.brk \in Nat /\ \A b \in B : b \in Nat
      BY <1>0, <1>1, <1>3
    <3>2. NEXT_BLKP(h, last) \notin B
      <4> SUFFICES ASSUME NEXT_BLKP(h, last) \in B PROVE FALSE
        OBVIOUS
      <4> DEFINE n == NEXT_BLKP(h, last)
      <4>1. n \in Nat /\ n <= last /\ last < n
        BY <1>7, <2>2, <3>1
      <4> HIDE DEF n
      <4> QED BY <3>1, <4>1
    <3> QED BY <1>5, <3>2
  <2>4. last < h.brk
    BY <1>7, <2>3
  <2>5. \A b \in B : b \in Nat /\ last \in Nat /\ h.brk \in Nat
    BY <1>0, <1>1, <1>3
  <2> QED BY <2>2, <2>4, <2>5
<1>9. Tiling(h, B)
  <2>1. B \subseteq Units
    BY <1>3
  <2> QED BY <1>1, <1>3, <1>4, <1>5, <1>7, <1>8, <2>1 DEF Tiling
<1>10. SearchOK(h, B)
  <2>1. h.current_block # h.brk
    BY <1>0, <1>1
  <2> QED BY <1>6, <2>1 DEF SearchOK
<1>11. LiveOK(h, B, l)
  BY <1>6 DEF LiveOK, Allocated
<1> QED BY <1>9, <1>10, <1>11 DEF SoundAs, HeapOK, B

LEMMA SoundAsIsSound ==
    ASSUME NEW h, NEW B, NEW l, SoundAs(h, B, l)
    PROVE  SoundHeap(h, l)
<1>1. Blocks(h) = B /\ Tiling(h, B) /\ h.current_block \in B /\ LiveOK(h, B, l)
  BY BlocksOfSound DEF SoundAs, HeapOK, SearchOK
<1>2. TiledHeap(h)
  BY <1>1 DEF Tiling, TiledHeap
<1>3. HoldsPayloads(h, l)
  BY <1>1 DEF LiveOK, Allocated, HoldsPayloads
<1>4. SearchStarts(h)
  BY <1>1 DEF SearchStarts
<1> QED BY <1>2, <1>3, <1>4 DEF SoundHeap

-----------------------------------------------------------------------------
(* The package is deterministic in what it knows of the heap: on two heaps *)
(* with the same blocks, whatever else is in memory, a call does the same. *)

\* The same blocks with the same headers; footers repeat the headers in either.
Twin(h, g, B) ==
    /\ Tiling(h, B) /\ Tiling(g, B)
    /\ g.brk = h.brk /\ g.current_block = h.current_block
    /\ \A x \in B \cup {h.brk} : g.hdr[x] = h.hdr[x]

\* Two calls return the same block and leave twins behind.
SameResult(new, gew) ==
    gew.bp = new.bp /\ \E C : Twin(new.heap, gew.heap, C) /\ new.bp \in C \cup {NULL}

LEMMA TwinSteps ==
    ASSUME NEW h, NEW g, NEW B, Twin(h, g, B)
    PROVE  /\ \A b \in B : NEXT_BLKP(g, b) = NEXT_BLKP(h, b) /\ NEXT_BLKP(h, b) \in B \cup {h.brk}
           /\ \A b \in B \cup {h.brk} : BlocksFrom(g, b) = BlocksFrom(h, b)
           /\ \A b \in (B \cup {h.brk}) \ {heap_listp} : PREV_BLKP(g, b) = PREV_BLKP(h, b)
<1>1. Tiling(h, B) /\ Tiling(g, B) /\ g.brk = h.brk /\ \A b \in B : g.hdr[b] = h.hdr[b]
  BY DEF Twin
<1>2. \A b \in B : NEXT_BLKP(g, b) = NEXT_BLKP(h, b) /\ NEXT_BLKP(h, b) \in B \cup {h.brk}
  <2>1. \A b \in B : NEXT_BLKP(h, b) \in B \cup {h.brk}
    BY <1>1, TilingTypes
  <2> QED BY <1>1, <2>1 DEF NEXT_BLKP
<1>3. \A b \in B \cup {h.brk} : BlocksFrom(g, b) = BlocksFrom(h, b)
  <2> TAKE b \in B \cup {h.brk}
  <2>1. BlocksFrom(h, b) = {c \in B : b <= c}
    BY <1>1, WalkVisits
  <2>2. BlocksFrom(g, b) = {c \in B : b <= c}
    BY <1>1, WalkVisits
  <2> QED BY <2>1, <2>2
<1>4. ASSUME NEW b \in (B \cup {h.brk}) \ {heap_listp} PROVE PREV_BLKP(g, b) = PREV_BLKP(h, b)
  <2>1. PREV_BLKP(h, b) \in B /\ NEXT_BLKP(h, PREV_BLKP(h, b)) = b
    BY <1>1, BlockBefore
  <2>2. \A c \in B : NEXT_BLKP(g, c) = b => c = PREV_BLKP(g, b)
    BY <1>1, BlockBefore
  <2> QED BY <1>2, <2>1, <2>2
<1> QED BY <1>2, <1>3, <1>4

LEMMA TwinJoin ==
    ASSUME NEW h, NEW g, NEW B, Twin(h, g, B), NEW first \in B, NEW last \in B, first <= last,
           NEW alloc \in BOOLEAN, first = heap_listp => alloc = TRUE, NEW tag \in BOOLEAN,
           NEW end, end = NEXT_BLKP(h, last),
           NEW n, n = PutBlock(h, first, end - first, alloc, tag),
           NEW m, m = PutBlock(g, first, end - first, alloc, tag)
    PROVE  Twin(n, m, Joined(B, first, end))
<1>1. Tiling(h, B) /\ Tiling(g, B) /\ g.brk = h.brk /\ g.current_block = h.current_block
      /\ \A x \in B \cup {h.brk} : g.hdr[x] = h.hdr[x]
  BY DEF Twin
<1>2. end = NEXT_BLKP(g, last)
  BY TwinSteps
<1> DEFINE C == Joined(B, first, end)
<1>3. JoinedInto(n, C, h, first, end, alloc, tag)
  BY <1>1, JoinTiles
<1>4. JoinedInto(m, C, g, first, end, alloc, tag)
  BY <1>1, <1>2, JoinTiles
<1>5. C \subseteq B
  BY DEF Joined
<1>6. \A x \in B \cup {h.brk} : x \in Units
  BY <1>1, TilingTypes
<1> HIDE DEF C
<1>7. Tiling(n, C) /\ Tiling(m, C) /\ m.brk = n.brk /\ m.current_block = n.current_block /\ n.brk = h.brk
  BY <1>1, <1>3, <1>4 DEF JoinedInto
<1>8. ASSUME NEW x \in C \cup {h.brk} PROVE m.hdr[x] = n.hdr[x]
  <2>1. x \in B \cup {h.brk} /\ x \in Units
    BY <1>5, <1>6
  <2>2. CASE x = first
    BY <1>3, <1>4, <2>2 DEF JoinedInto
  <2>3. CASE x # first
    <3>1. n.hdr[x] = h.hdr[x]
      BY <1>3, <2>1, <2>3 DEF JoinedInto
    <3>2. m.hdr[x] = g.hdr[x]
      BY <1>4, <2>1, <2>3 DEF JoinedInto
    <3> QED BY <1>1, <2>1, <3>1, <3>2
  <2> QED BY <2>2, <2>3
<1> QED BY <1>7, <1>8 DEF Twin, C

LEMMA TwinMoved ==
    ASSUME NEW h, NEW g, NEW B, Twin(h, g, B), NEW c, NEW n, NEW m, Moved(n, h, c), Moved(m, g, c)
    PROVE  Twin(n, m, B)
<1>1. Tiling(n, B) /\ Tiling(m, B)
  BY MovedTiles DEF Twin
<1> QED BY <1>1 DEF Twin, Moved

LEMMA TwinUpdate ==
    ASSUME NEW h, NEW g, NEW B, Twin(h, g, B), NEW bp \in B
    PROVE  Twin(UpdateCurrentBlock(h, bp), UpdateCurrentBlock(g, bp), B)
<1>1. g.current_block = h.current_block /\ NEXT_BLKP(g, bp) = NEXT_BLKP(h, bp)
  BY TwinSteps DEF Twin
<1>2. CASE h.current_block > bp /\ h.current_block < NEXT_BLKP(h, bp)
  <2> DEFINE n == [h EXCEPT !.current_block = bp]
             m == [g EXCEPT !.current_block = bp]
  <2>1. h \in Heap /\ g \in Heap /\ bp \in Units
    BY DEF Twin, Tiling
  <2>2. Moved(n, h, bp) /\ Moved(m, g, bp)
    BY <2>1, MoveCurrent
  <2>3. UpdateCurrentBlock(h, bp) = n /\ UpdateCurrentBlock(g, bp) = m
    BY <1>1, <1>2 DEF UpdateCurrentBlock
  <2> HIDE DEF n, m
  <2> QED BY <2>2, <2>3, TwinMoved
<1>3. CASE ~(h.current_block > bp /\ h.current_block < NEXT_BLKP(h, bp))
  BY <1>1, <1>3 DEF UpdateCurrentBlock
<1> QED BY <1>2, <1>3

LEMMA TwinCoalesce ==
    ASSUME NEW h, NEW g, NEW B, Twin(h, g, B), NEW bp \in B, bp # heap_listp
    PROVE  SameResult(coalesce(h, bp), coalesce(g, bp))
<1> DEFINE prev == PREV_BLKP(h, bp)
           next == NEXT_BLKP(h, bp)
           first == IF h.hdr[prev].alloc \/ h.hdr[prev].tag THEN bp ELSE prev
           last == IF h.hdr[next].alloc THEN bp ELSE next
           end == NEXT_BLKP(h, last)
           n == PutBlock(h, first, end - first, FALSE, h.hdr[first].tag)
           m == PutBlock(g, first, end - first, FALSE, h.hdr[first].tag)
           C == Joined(B, first, end)
<1>1. Tiling(h, B) /\ Tiling(g, B) /\ g.brk = h.brk /\ \A x \in B \cup {h.brk} : g.hdr[x] = h.hdr[x]
  BY DEF Twin
<1>2. prev \in B /\ NEXT_BLKP(h, prev) = bp /\ prev < bp
  BY <1>1, BlockBefore, TilingTypes
<1>3. prev = PREV_BLKP(g, bp) /\ next = NEXT_BLKP(g, bp) /\ next \in B \cup {h.brk}
  BY TwinSteps
<1>4. g.hdr[prev] = h.hdr[prev] /\ g.hdr[next] = h.hdr[next]
  BY <1>1, <1>2, <1>3
<1>5. bp < next /\ (h.hdr[next].alloc \/ next \in B)
  BY <1>1, CoalesceSees, TilingTypes
<1>6. coalesce(h, bp) = Merge(h, first, last)
  <2>1. PrevAlloc(h, bp) <=> h.hdr[prev].alloc \/ h.hdr[prev].tag
    BY <1>1, CoalesceSees
  <2> HIDE DEF prev, next
  <2> QED BY <2>1 DEF coalesce, prev, next
<1>7. coalesce(g, bp) = Merge(g, first, last)
  <2>1. PrevAlloc(g, bp) <=> g.hdr[prev].alloc \/ g.hdr[prev].tag
    BY <1>1, <1>3, CoalesceSees
  <2>2. PrevAlloc(g, bp) <=> h.hdr[prev].alloc \/ h.hdr[prev].tag
    BY <1>4, <2>1
  <2> HIDE DEF prev, next
  <2> QED BY <1>3, <1>4, <2>2 DEF coalesce
<1>8. first \in B /\ last \in B /\ first <= last /\ first # heap_listp
  <2>1. bp \in Nat /\ prev \in Nat /\ next \in Nat
    BY <1>1, <1>2, <1>3, TilingTypes, UnitsAreNaturals
  <2>2. h.hdr[heap_listp].alloc
    BY <1>1 DEF Tiling
  <2> HIDE DEF prev, next
  <2> QED BY <1>2, <1>5, <2>1, <2>2
<1> HIDE DEF prev, next, first, last
<1>9. end = NEXT_BLKP(g, last) /\ g.hdr[first].tag = h.hdr[first].tag /\ h.hdr[first].tag \in BOOLEAN
  BY <1>1, <1>8, TwinSteps, TagIsBoolean
<1>10. CASE first = last
  <2>1. coalesce(h, bp) = [heap |-> h, bp |-> first] /\ coalesce(g, bp) = [heap |-> g, bp |-> first]
    BY <1>6, <1>7, <1>10 DEF Merge
  <2> QED BY <1>8, <2>1 DEF SameResult
<1>11. CASE first # last
  <2>1. /\ coalesce(h, bp) = [heap |-> UpdateCurrentBlock(n, first), bp |-> first]
        /\ coalesce(g, bp) = [heap |-> UpdateCurrentBlock(m, first), bp |-> first]
    BY <1>6, <1>7, <1>9, <1>11 DEF Merge, PutWithTag
  <2> DEFINE tag == h.hdr[first].tag
  <2> HIDE DEF end, tag
  <2>2. Twin(n, m, C)
    <3>1. tag \in BOOLEAN /\ FALSE \in BOOLEAN /\ end = NEXT_BLKP(h, last)
      BY <1>9 DEF tag, end
    <3>2. n = PutBlock(h, first, end - first, FALSE, tag) /\ m = PutBlock(g, first, end - first, FALSE, tag)
      BY DEF tag
    <3> HIDE DEF n, m
    <3> QED BY <1>8, <3>1, <3>2, TwinJoin
  <2> HIDE DEF n, m
  <2>3. first \in C
    <3>1. first \in Nat
      BY <1>1, <1>8, TilingTypes, UnitsAreNaturals
    <3> QED BY <1>8, <3>1 DEF Joined
  <2>4. Twin(UpdateCurrentBlock(n, first), UpdateCurrentBlock(m, first), C)
    BY <2>2, <2>3, TwinUpdate
  <2> QED BY <2>1, <2>3, <2>4 DEF SameResult
<1> QED BY <1>10, <1>11

LEMMA TwinIsOK ==
    ASSUME NEW h, NEW g, NEW B, Twin(h, g, B), SearchOK(h, B)
    PROVE  HeapOK(h, B) /\ HeapOK(g, B)
BY DEF Twin, SearchOK, HeapOK

LEMMA TwinGrown ==
    ASSUME NEW h, NEW g, NEW B, Twin(h, g, B), SearchOK(h, B),
           NEW size \in Nat \ {0}, h.brk + size <= MAX_HEAP,
           NEW n, n = Grown(h, size), NEW m, m = Grown(g, size)
    PROVE  Twin(n, m, B \cup {h.brk})
<1> DEFINE C == B \cup {h.brk}
<1>1. HeapOK(h, B) /\ HeapOK(g, B) /\ g.brk = h.brk /\ g.current_block = h.current_block
      /\ \A x \in B \cup {h.brk} : g.hdr[x] = h.hdr[x]
  BY TwinIsOK DEF Twin
<1>2. Tiling(n, C) /\ Tiling(m, C)
  BY <1>1, GrownTiles
<1>3. h \in Heap /\ g \in Heap
  BY DEF Twin, Tiling
<1>4. GrownBy(n, h, size) /\ GrownBy(m, g, size)
  BY <1>1, <1>3, GrownWrites
<1>5. m.brk = n.brk /\ m.current_block = n.current_block /\ n.brk = h.brk + size
  BY <1>1, <1>4 DEF GrownBy
<1>6. ASSUME NEW x \in C \cup {n.brk} PROVE m.hdr[x] = n.hdr[x]
  <2>1. CASE x = h.brk \/ x = n.brk
    BY <1>1, <1>4, <2>1 DEF GrownBy
  <2>2. CASE x # h.brk /\ x # n.brk
    <3>1. x \in B /\ x \in Units
      BY <1>1, <1>5, <2>2, TilingTypes DEF HeapOK
    <3>2. n.hdr[x] = h.hdr[x] /\ m.hdr[x] = g.hdr[x]
      BY <1>1, <1>4, <1>5, <2>2, <3>1 DEF GrownBy
    <3> QED BY <1>1, <3>1, <3>2
  <2> QED BY <2>1, <2>2
<1> HIDE DEF C
<1>7. Twin(n, m, C)
  BY <1>2, <1>5, <1>6 DEF Twin
<1> QED BY <1>7 DEF C

LEMMA TwinExtend ==
    ASSUME NEW h, NEW g, NEW B, Twin(h, g, B), SearchOK(h, B), NEW size \in Nat \ {0}
    PROVE  SameResult(extend_heap(h, size), extend_heap(g, size))
<1>1. g.brk = h.brk /\ h.brk \in Nat /\ MAX_HEAP \in Nat
  BY TilingTypes, UnitsAreNaturals DEF Twin
<1>2. CASE OutOfMemory(h, size)
  <2>1. extend_heap(h, size) = [heap |-> h, bp |-> NULL] /\ extend_heap(g, size) = [heap |-> g, bp |-> NULL]
    BY <1>1, <1>2 DEF extend_heap, OutOfMemory
  <2> QED BY <2>1 DEF SameResult
<1>3. CASE ~OutOfMemory(h, size)
  <2> DEFINE n == Grown(h, size)
             m == Grown(g, size)
  <2>1. h.brk + size <= MAX_HEAP
    BY <1>1, <1>3 DEF OutOfMemory
  <2>2. extend_heap(h, size) = coalesce(n, h.brk) /\ extend_heap(g, size) = coalesce(m, h.brk)
    BY <1>1, <1>3 DEF extend_heap, OutOfMemory, Grown
  <2>3. Twin(n, m, B \cup {h.brk})
    <3> HIDE DEF n, m
    <3> QED BY <2>1, TwinGrown DEF n, m
  <2>4. h.brk # heap_listp
    BY TilingTypes DEF Twin
  <2> HIDE DEF n, m
  <2> QED BY <2>2, <2>3, <2>4, TwinCoalesce
<1> QED BY <1>2, <1>3

LEMMA TwinFindFit ==
    ASSUME NEW h, NEW g, NEW B, Twin(h, g, B), SearchOK(h, B), NEW asize
    PROVE  /\ find_fit(g, asize).bp = find_fit(h, asize).bp
           /\ Twin(find_fit(h, asize).heap, find_fit(g, asize).heap, B)
<1>1. /\ Tiling(h, B) /\ Tiling(g, B) /\ g.brk = h.brk /\ g.current_block = h.current_block
      /\ \A x \in B \cup {h.brk} : g.hdr[x] = h.hdr[x]
  BY DEF Twin
<1>2. h.current_block \in B /\ heap_listp \in B
  BY DEF SearchOK, Twin, Tiling
<1>3. Blocks(h) = B /\ Blocks(g) = B
  BY <1>1, BlocksOfTiling
<1>4. \A b \in B : Fits(g, b, asize) = Fits(h, b, asize)
  BY <1>1 DEF Fits
<1>5. BlocksFrom(g, g.current_block) = BlocksFrom(h, h.current_block)
      /\ BlocksFrom(h, h.current_block) \subseteq B
  BY <1>1, <1>2, TwinSteps, WalkVisits
<1> DEFINE next == {b \in BlocksFrom(h, h.current_block) : Fits(h, b, asize)}
<1>6. next = {b \in BlocksFrom(g, g.current_block) : Fits(g, b, asize)}
  BY <1>4, <1>5
<1>7. BestFit(g, asize) = BestFit(h, asize)
  <2> DEFINE fit == {b \in B : b < h.current_block /\ Fits(h, b, asize)}
             smallest == {b \in fit : \A c \in fit : h.hdr[b].size <= h.hdr[c].size}
  <2>1. fit = {b \in B : b < g.current_block /\ Fits(g, b, asize)}
    BY <1>1, <1>4
  <2>2. smallest = {b \in fit : \A c \in fit : g.hdr[b].size <= g.hdr[c].size}
    <3>1. \A b \in fit : g.hdr[b] = h.hdr[b]
      BY <1>1
    <3> HIDE DEF fit
    <3> QED BY <3>1
  <2>3. BestFit(h, asize) = IF fit = {} THEN NULL ELSE Min(smallest)
    BY <1>3 DEF BestFit
  <2>4. BestFit(g, asize) = IF fit = {} THEN NULL ELSE Min(smallest)
    <3> HIDE DEF fit, smallest
    <3> QED BY <1>3, <2>1, <2>2 DEF BestFit
  <2> QED BY <2>3, <2>4
<1>8. SearchEnd(g) = SearchEnd(h)
  BY <1>1, <1>3 DEF SearchEnd
<1> DEFINE c == IF next # {} THEN Min(next) ELSE SearchEnd(h)
           n == [h EXCEPT !.current_block = c]
           m == [g EXCEPT !.current_block = c]
<1> HIDE DEF next
<1>9. /\ find_fit(h, asize).heap = n /\ find_fit(g, asize).heap = m
      /\ find_fit(g, asize).bp = find_fit(h, asize).bp
  BY <1>6, <1>7, <1>8 DEF find_fit, next
<1>10. h \in Heap /\ g \in Heap
  BY <1>1 DEF Tiling
<1>11. c \in Units
  <2>1. HeapOK(n, B)
    BY <1>9, FindFitFits, TwinIsOK DEF FitFound
  <2>2. n.current_block \in Units
    BY <2>1, TilingTypes DEF HeapOK
  <2>3. n.current_block = c
    BY <1>10 DEF Heap
  <2> QED BY <2>2, <2>3
<1> HIDE DEF c
<1>12. Moved(n, h, c) /\ Moved(m, g, c)
  BY <1>10, <1>11, MoveCurrent
<1> HIDE DEF n, m
<1>13. Twin(n, m, B)
  BY <1>12, TwinMoved
<1> QED BY <1>9, <1>13

LEMMA TwinPlace ==
    ASSUME NEW h, NEW g, NEW B, Twin(h, g, B), NEW bp \in B, bp # heap_listp,
           NEW asize \in Nat \ {0}, asize <= h.hdr[bp].size
    PROVE  \E C : Twin(place(h, bp, asize), place(g, bp, asize), C) /\ bp \in C
<1> DEFINE size == h.hdr[bp].size
           rest == size - asize
           end == NEXT_BLKP(h, bp)
           mid == bp + asize
           tag == h.hdr[bp].tag
<1>1. /\ Tiling(h, B) /\ Tiling(g, B) /\ g.brk = h.brk /\ g.current_block = h.current_block
      /\ \A x \in B \cup {h.brk} : g.hdr[x] = h.hdr[x]
  BY DEF Twin
<1>2. /\ bp \in Nat /\ size \in Nat /\ end = bp + size /\ bp \in Units
      /\ end \in Units /\ end \in Nat /\ bp < end /\ MAX_HEAP \in Nat /\ end <= MAX_HEAP
  BY <1>1, TilingTypes, UnitsAreNaturals
<1>3. tag \in BOOLEAN /\ g.hdr[bp].tag = tag /\ g.hdr[bp].size = size
  BY <1>1, TagIsBoolean
<1>4. end = NEXT_BLKP(g, bp)
  BY TwinSteps
<1>5. h \in Heap /\ g \in Heap
  BY <1>1 DEF Tiling
<1>6. CASE rest >= SmallestBlock
  <2> DEFINE n == PutBlock(PutBlock(h, bp, asize, TRUE, tag), mid, rest, FALSE, FALSE)
             m == PutBlock(PutBlock(g, bp, asize, TRUE, tag), mid, rest, FALSE, FALSE)
             D == B \cup {mid}
  <2>1. place(h, bp, asize) = n /\ place(g, bp, asize) = m
    BY <1>3, <1>6 DEF place, PutWithTag, RemainderTag
  <2>2. rest \in Nat \ {0} /\ mid + rest = end /\ mid \in Nat /\ bp < mid /\ mid < end
    BY <1>2, <1>6 DEF SmallestBlock
  <2> HIDE DEF rest, tag, n, m
  <2>3. SplitAt(n, h, bp, mid, end, tag)
    BY <1>2, <1>3, <1>5, <2>2, SplitWrites DEF n
  <2>4. SplitAt(m, g, bp, mid, end, tag)
    BY <1>2, <1>3, <1>5, <2>2, SplitWrites DEF m
  <2> HIDE DEF mid
  <2>5. Tiling(n, D)
    <3> HIDE DEF D
    <3> QED BY <1>1, <2>2, <2>3, SplitTiles DEF D
  <2>6. Tiling(m, D)
    <3> HIDE DEF D, end
    <3> QED BY <1>1, <1>4, <2>2, <2>4, SplitTiles DEF D
  <2>7. m.brk = n.brk /\ m.current_block = n.current_block /\ n.brk = h.brk
    BY <1>1, <2>3, <2>4 DEF SplitAt
  <2>8. ASSUME NEW x \in D \cup {n.brk} PROVE m.hdr[x] = n.hdr[x]
    <3>1. CASE x = bp \/ x = mid
      BY <2>3, <2>4, <3>1 DEF SplitAt
    <3>2. CASE x # bp /\ x # mid
      <4>1. x \in B \cup {h.brk} /\ x \in Units
        BY <1>1, <2>7, <3>2, TilingTypes
      <4>2. n.hdr[x] = h.hdr[x] /\ m.hdr[x] = g.hdr[x]
        BY <2>3, <2>4, <3>2, <4>1 DEF SplitAt
      <4> QED BY <1>1, <4>1, <4>2
    <3> QED BY <3>1, <3>2
  <2>10. bp \in D
    OBVIOUS
  <2> HIDE DEF D
  <2>9. Twin(n, m, D)
    BY <2>5, <2>6, <2>7, <2>8 DEF Twin
  <2> QED BY <2>1, <2>9, <2>10
<1>7. CASE ~(rest >= SmallestBlock)
  <2> DEFINE n == PutBlock(h, bp, end - bp, TRUE, tag)
             m == PutBlock(g, bp, end - bp, TRUE, tag)
  <2>0. size = end - bp /\ bp <= bp
    BY <1>2
  <2>1. place(h, bp, asize) = n /\ place(g, bp, asize) = m
    <3> HIDE DEF end, tag
    <3> QED BY <1>3, <1>7, <2>0 DEF place, PutWithTag, tag
  <2> HIDE DEF end, tag
  <2>2. end = NEXT_BLKP(h, bp) /\ TRUE \in BOOLEAN
    BY DEF end
  <2>3. n = PutBlock(h, bp, end - bp, TRUE, tag) /\ m = PutBlock(g, bp, end - bp, TRUE, tag)
    OBVIOUS
  <2> HIDE DEF n, m
  <2>4. Twin(n, m, Joined(B, bp, end))
    BY <1>3, <2>0, <2>2, <2>3, TwinJoin
  <2>5. bp \in Joined(B, bp, end)
    BY <2>0 DEF Joined
  <2> QED BY <2>1, <2>4, <2>5
<1> QED BY <1>6, <1>7

LEMMA TwinMalloc ==
    ASSUME NEW h, NEW g, NEW B, Twin(h, g, B), SearchOK(h, B), NEW size \in Nat \ {0}
    PROVE  SameResult(mm_malloc(h, size), mm_malloc(g, size))
<1> DEFINE asize == AdjustedSize(size)
           found == find_fit(h, asize)
           gound == find_fit(g, asize)
           more == IF asize > CHUNKSIZE THEN asize ELSE CHUNKSIZE
           at == ExtendUnlessFound(found, asize)
           gat == ExtendUnlessFound(gound, asize)
<1>1. asize \in Nat \ {0}
  BY AdjustedSizeIsEnough
<1>2. mm_malloc(h, size) = PlaceUnlessNull(at, asize) /\ mm_malloc(g, size) = PlaceUnlessNull(gat, asize)
  BY DEF mm_malloc
<1>3. more \in Nat \ {0}
  BY <1>1, UnitsAssumption
<1>4. HeapOK(h, B)
  BY TwinIsOK
<1> HIDE DEF asize
<1>5. gound.bp = found.bp /\ Twin(found.heap, gound.heap, B)
  BY TwinFindFit
<1>6. SearchOK(found.heap, B)
  BY <1>4, FindFitFits DEF FitFound, HeapOK
<1>7. \/ at.bp = NULL
      \/ \E C : NewFree(at, C, h, B, asize)
  BY <1>1, <1>4, ExtendUnlessFoundKeeps
<1>9. found.bp # NULL => FreeBlock(found.heap, B, found.bp, asize)
  BY <1>4, FindFitFits DEF FitFound
<1> HIDE DEF found, gound, more
<1>8. SameResult(at, gat)
  <2>1. CASE found.bp # NULL
    BY <1>5, <1>9, <2>1 DEF ExtendUnlessFound, SameResult, FreeBlock
  <2>2. CASE found.bp = NULL
    <3>1. at = extend_heap(found.heap, more) /\ gat = extend_heap(gound.heap, more)
      BY <1>5, <2>2 DEF ExtendUnlessFound, more
    <3> QED BY <1>3, <1>5, <1>6, <3>1, TwinExtend
  <2> QED BY <2>1, <2>2
<1> HIDE DEF at, gat
<1>12. PICK C : Twin(at.heap, gat.heap, C) /\ at.bp \in C \cup {NULL} /\ gat.bp = at.bp
  BY <1>8 DEF SameResult
<1>10. CASE at.bp = NULL
  BY <1>2, <1>8, <1>12, <1>10 DEF PlaceUnlessNull
<1>11. CASE at.bp # NULL
  <2> DEFINE n == place(at.heap, at.bp, asize)
             m == place(gat.heap, at.bp, asize)
  <2>1. mm_malloc(h, size) = [heap |-> n, bp |-> at.bp] /\ mm_malloc(g, size) = [heap |-> m, bp |-> at.bp]
    BY <1>2, <1>12, <1>11 DEF PlaceUnlessNull
  <2>2. PICK D : Tiling(at.heap, D) /\ FreeBlock(at.heap, D, at.bp, asize)
    BY <1>7, <1>11 DEF NewFree, HeapOK
  <2>3. D = C
    BY <1>12, <2>2, BlocksOfTiling DEF Twin
  <2>4. at.bp \in C /\ at.bp # heap_listp /\ asize <= at.heap.hdr[at.bp].size
    BY <2>2, <2>3 DEF FreeBlock
  <2>5. \E E : Twin(n, m, E) /\ at.bp \in E
    BY <1>1, <1>12, <2>4, TwinPlace
  <2> HIDE DEF n, m
  <2> QED BY <2>1, <2>5 DEF SameResult
<1> QED BY <1>10, <1>11

LEMMA RetaggedTiles ==
    ASSUME NEW h, NEW B, Tiling(h, B), NEW n, Retagged(n, h)
    PROVE  Tiling(n, B)
<1>1. /\ \A b \in B \cup {h.brk} : n.hdr[b].size = h.hdr[b].size /\ n.hdr[b].alloc = h.hdr[b].alloc
      /\ n \in Heap /\ n.ftr = h.ftr /\ n.brk = h.brk
  BY TilingTypes DEF Retagged
<1>2. \A b \in B : NEXT_BLKP(n, b) = NEXT_BLKP(h, b)
  BY <1>1 DEF NEXT_BLKP
<1> QED BY <1>1, <1>2 DEF Tiling

LEMMA TwinSetTag ==
    ASSUME NEW h, NEW g, NEW B, Twin(h, g, B), NEW b \in B \cup {h.brk}, NEW tag \in BOOLEAN,
           NEW n, n = SetTag(h, b, tag), NEW m, m = SetTag(g, b, tag)
    PROVE  Twin(n, m, B)
<1>1. /\ Tiling(h, B) /\ Tiling(g, B) /\ g.brk = h.brk /\ g.current_block = h.current_block
      /\ \A x \in B \cup {h.brk} : g.hdr[x] = h.hdr[x]
  BY DEF Twin
<1>2. h \in Heap /\ g \in Heap /\ \A x \in B \cup {h.brk} : x \in Units
  BY <1>1, TilingTypes DEF Tiling
<1>3. /\ Retagged(n, h) /\ n.hdr[b].tag = tag /\ \A x \in Units : x # b => n.hdr[x] = h.hdr[x]
  BY <1>2, SetTagRetags
<1>4. /\ Retagged(m, g) /\ m.hdr[b].tag = tag /\ \A x \in Units : x # b => m.hdr[x] = g.hdr[x]
  BY <1>2, SetTagRetags
<1>5. Tiling(n, B) /\ Tiling(m, B)
  BY <1>1, <1>3, <1>4, RetaggedTiles
<1>6. m.brk = n.brk /\ m.current_block = n.current_block /\ n.brk = h.brk
  BY <1>1, <1>3, <1>4 DEF Retagged
<1>7. ASSUME NEW x \in B \cup {h.brk} PROVE m.hdr[x] = n.hdr[x]
  <2>1. CASE x # b
    BY <1>1, <1>2, <1>3, <1>4, <2>1
  <2>2. CASE x = b
    <3>1. n.hdr[b].size = m.hdr[b].size /\ n.hdr[b].alloc = m.hdr[b].alloc /\ n.hdr[b].tag = m.hdr[b].tag
      BY <1>1, <1>2, <1>3, <1>4 DEF Retagged
    <3>2. n.hdr[b] \in Header /\ m.hdr[b] \in Header
      BY <1>2, <1>3, <1>4 DEF Retagged, Heap
    <3> QED BY <2>2, <3>1, <3>2 DEF Header
  <2> QED BY <2>1, <2>2
<1> QED BY <1>5, <1>6, <1>7 DEF Twin

LEMMA TwinFree ==
    ASSUME NEW h, NEW g, NEW B, Twin(h, g, B), NEW bp \in B, bp # heap_listp
    PROVE  \E C : Twin(mm_free(h, bp), mm_free(g, bp), C)
<1> DEFINE end == NEXT_BLKP(h, bp)
           hu == SetTag(h, end, FALSE)
           gu == SetTag(g, end, FALSE)
           tag == hu.hdr[bp].tag
           n == PutBlock(hu, bp, end - bp, FALSE, tag)
           m == PutBlock(gu, bp, end - bp, FALSE, tag)
<1>1. Tiling(h, B) /\ bp \in Nat /\ h.hdr[bp].size \in Nat /\ end = bp + h.hdr[bp].size /\ end \in B \cup {h.brk}
  BY TilingTypes, UnitsAreNaturals DEF Twin
<1>2. end = NEXT_BLKP(g, bp) /\ g.hdr[bp] = h.hdr[bp]
  BY TwinSteps DEF Twin
<1>3. h.hdr[bp].size = end - bp /\ g.hdr[bp].size = end - bp
  BY <1>1, <1>2
<1> HIDE DEF end
<1>4. Twin(hu, gu, B)
  <2> HIDE DEF hu, gu
  <2> QED BY <1>1, TwinSetTag DEF hu, gu
<1>5. end = NEXT_BLKP(hu, bp)
  <2>0. h \in Heap
    BY <1>1 DEF Tiling
  <2>1. end \in Units
    BY <1>1, TilingTypes
  <2>2. Retagged(hu, h) /\ bp \in Units
    BY <1>1, <2>0, <2>1, SetTagRetags, TilingTypes
  <2> HIDE DEF hu
  <2> QED BY <2>2 DEF Retagged, NEXT_BLKP, end
<1> HIDE DEF hu, gu
<1>6. tag \in BOOLEAN /\ gu.hdr[bp].tag = tag
  BY <1>4, TagIsBoolean DEF Twin
<1>7. mm_free(h, bp) = coalesce(n, bp).heap
  <2>1. hu = SetTag(h, NEXT_BLKP(h, bp), FALSE)
    BY DEF hu, end
  <2>2. mm_free(h, bp) = coalesce(PutWithTag(hu, bp, end - bp, FALSE), bp).heap
    BY <1>3, <2>1 DEF mm_free
  <2> QED BY <2>2 DEF PutWithTag
<1>8. mm_free(g, bp) = coalesce(m, bp).heap
  BY <1>2, <1>3, <1>6 DEF mm_free, PutWithTag, gu
<1> HIDE DEF tag
<1>9. Twin(n, m, Joined(B, bp, end)) /\ bp \in Joined(B, bp, end)
  <2>1. bp <= bp /\ FALSE \in BOOLEAN
    BY <1>1
  <2>2. n = PutBlock(hu, bp, end - bp, FALSE, tag) /\ m = PutBlock(gu, bp, end - bp, FALSE, tag)
    OBVIOUS
  <2> HIDE DEF n, m
  <2>3. Twin(n, m, Joined(B, bp, end))
    BY <1>4, <1>5, <1>6, <2>1, <2>2, TwinJoin
  <2> QED BY <2>1, <2>3 DEF Joined
<1> HIDE DEF n, m
<1>10. SameResult(coalesce(n, bp), coalesce(m, bp))
  BY <1>9, TwinCoalesce
<1> QED BY <1>7, <1>8, <1>10 DEF SameResult

LEMMA TwinRecycle ==
    ASSUME NEW h, NEW g, NEW B, Twin(h, g, B), NEW bp \in B, NEW wanted
    PROVE  extend_heap_recycle(g, bp, wanted) = extend_heap_recycle(h, bp, wanted)
<1> DEFINE start == NEXT_BLKP(h, bp)
           after == BlocksFrom(h, start)
           run == {b \in after : b - start <= wanted /\ \A c \in after : c <= b => ~h.hdr[c].alloc}
<1>1. start = NEXT_BLKP(g, bp) /\ start \in B \cup {h.brk}
  BY TwinSteps
<1>2. after = BlocksFrom(g, start) /\ after \subseteq B
  BY <1>1, TwinSteps, WalkVisits DEF Twin
<1>3. \A c \in after : g.hdr[c] = h.hdr[c]
  BY <1>2 DEF Twin
<1> HIDE DEF start, after
<1>4. run = {b \in after : b - start <= wanted /\ \A c \in after : c <= b => ~g.hdr[c].alloc}
  BY <1>3
<1>5. run # {} => NEXT_BLKP(g, Max(run)) = NEXT_BLKP(h, Max(run))
  <2>1. run \subseteq Units /\ run \subseteq B
    BY <1>2, TilingTypes DEF Twin
  <2> HIDE DEF run
  <2>2. run # {} => Max(run) \in B
    BY <2>1, MaxIsGreatest
  <2> QED BY <2>2, TwinSteps
<1>6. extend_heap_recycle(h, bp, wanted) = IF run = {} THEN 0 ELSE NEXT_BLKP(h, Max(run)) - start
  BY DEF extend_heap_recycle, start, after
<1>7. extend_heap_recycle(g, bp, wanted) = IF run = {} THEN 0 ELSE NEXT_BLKP(g, Max(run)) - start
  <2> HIDE DEF run
  <2> QED BY <1>1, <1>2, <1>4 DEF extend_heap_recycle
<1> HIDE DEF run
<1> QED BY <1>5, <1>6, <1>7

\* The run of free blocks ended at a block in use, although more was wanted.
LEMMA RecycleStops ==
    ASSUME NEW h, NEW B, Tiling(h, B), NEW bp \in B, NEW wanted \in Nat,
           NEW end, end = NEXT_BLKP(h, bp) + extend_heap_recycle(h, bp, wanted),
           end # h.brk, end <= NEXT_BLKP(h, bp) + wanted
    PROVE  end \in B /\ h.hdr[end].alloc
<1> DEFINE start == NEXT_BLKP(h, bp)
           after == BlocksFrom(h, start)
           run == {b \in after : b - start <= wanted /\ \A c \in after : c <= b => ~h.hdr[c].alloc}
           last == Max(run)
<1>0. \A c \in B \cup {h.brk} : c \in Nat /\ c \in Units
  BY TilingTypes, UnitsAreNaturals
<1>1. start \in B \cup {h.brk} /\ start \in Nat
  BY <1>0, TilingTypes
<1>2. after = {c \in B : start <= c}
  BY <1>1, WalkVisits
<1>3. \A b, c \in B : b < c => NEXT_BLKP(h, b) <= c
  BY TilingTypes
<1>4. end = start + IF run = {} THEN 0 ELSE NEXT_BLKP(h, last) - start
  BY DEF extend_heap_recycle
<1>5. PICK tail : Run(h, B, bp, tail, end)
  BY RecycleRun
<1>6. end \in B /\ end \in Nat
  <2>1. end \in B \cup {h.brk}
    BY <1>5, TilingTypes DEF Run
  <2> QED BY <1>0, <2>1
<1>7. start <= end
  <2>1. bp <= tail /\ tail \in B /\ end = NEXT_BLKP(h, tail)
    BY <1>5 DEF Run
  <2>2. bp \in Nat /\ tail \in Nat /\ tail < end
    BY <1>0, <2>1, TilingTypes
  <2>3. CASE bp = tail
    BY <1>1, <2>1, <2>3
  <2>4. CASE bp < tail
    <3>1. start <= tail
      BY <1>3, <2>1, <2>4
    <3> QED BY <1>1, <1>6, <2>2, <3>1
  <2> QED BY <2>1, <2>2, <2>3, <2>4
<1>8. end \in after
  BY <1>2, <1>6, <1>7
<1>9. end - start <= wanted
  BY <1>1, <1>6
<1>10. CASE run = {}
  <2>1. end = start
    BY <1>1, <1>4, <1>10
  <2>2. end \notin run
    BY <1>10
  <2>3. PICK c \in after : c <= end /\ h.hdr[c].alloc
    BY <1>8, <1>9, <2>2
  <2>4. c = end
    BY <1>0, <1>2, <1>6, <2>1, <2>3
  <2> QED BY <1>6, <2>3, <2>4
<1>11. CASE run # {}
  <2>1. run \subseteq Units
    BY <1>0, <1>2
  <2> HIDE DEF run
  <2>2. last \in run /\ \A j \in run : j <= last
    BY <1>11, <2>1, MaxIsGreatest
  <2>3. last \in B /\ \A c \in after : c <= last => ~h.hdr[c].alloc
    BY <1>2, <2>2 DEF run
  <2> HIDE DEF last, after
  <2>4. NEXT_BLKP(h, last) \in Nat /\ last \in Nat /\ last < NEXT_BLKP(h, last)
    BY <1>0, <2>3, TilingTypes
  <2>5. end = NEXT_BLKP(h, last)
    BY <1>1, <1>4, <1>11, <2>4
  <2>6. end \notin run
    BY <1>6, <2>2, <2>4, <2>5
  <2>7. PICK c \in after : c <= end /\ h.hdr[c].alloc
    BY <1>8, <1>9, <2>6 DEF run
  <2>8. c \in B /\ c \in Nat
    BY <1>0, <1>2, <2>7 DEF after
  <2>9. ~(c <= last)
    BY <2>3, <2>7
  <2>10. end <= c
    BY <1>3, <2>3, <2>4, <2>5, <2>8, <2>9
  <2> QED BY <1>6, <2>7, <2>8, <2>10
<1> QED BY <1>10, <1>11

\* The block at bp took end - bp units and as many again as the heap grew by, but these were
\* at the other end of the heap.
Overgrown(new, h, bp, end, body) ==
    \E x \in Nat : /\ new.heap.brk = h.brk + x /\ bp + body <= end + x /\ 0 < x
                   /\ new.heap.hdr[bp].size = end - bp + x

\* What mm_realloc gives on twins.
Regrown(new, gew, h, bp, end, body) ==
    IF end < bp + body /\ end < h.brk
    THEN \/ SameResult(new, gew) /\ new.bp = NULL
         \/ /\ gew.bp = bp /\ new.bp = bp /\ gew.heap.brk = new.heap.brk
            /\ Overgrown(new, h, bp, end, body)
    ELSE SameResult(new, gew) /\ (new.bp # NULL => body <= new.heap.hdr[new.bp].size)

LEMMA ResizedTwins ==
    ASSUME NEW h, NEW g, NEW B, Twin(h, g, B), NEW first \in B, NEW last \in B, first <= last,
           NEW end, end = NEXT_BLKP(h, last), NEW size, size = end - first
    PROVE  /\ SameResult(Resized(h, first, size), Resized(g, first, size))
           /\ Resized(h, first, size).bp = first
           /\ Resized(h, first, size).heap.hdr[first].size = size
<1> DEFINE n == PutBlock(h, first, end - first, TRUE, FALSE)
           m == PutBlock(g, first, end - first, TRUE, FALSE)
<1>1. Resized(h, first, size) = [heap |-> n, bp |-> first] /\ Resized(g, first, size) = [heap |-> m, bp |-> first]
  BY DEF Resized
<1>2. n = PutBlock(h, first, end - first, TRUE, FALSE) /\ m = PutBlock(g, first, end - first, TRUE, FALSE)
  OBVIOUS
<1>3. first \in Nat /\ TRUE \in BOOLEAN /\ FALSE \in BOOLEAN /\ Tiling(h, B)
  BY TilingTypes, UnitsAreNaturals DEF Twin
<1> HIDE DEF n, m
<1>4. Twin(n, m, Joined(B, first, end))
  BY <1>2, <1>3, TwinJoin
<1>5. first \in Joined(B, first, end)
  BY <1>3 DEF Joined
<1>6. n.hdr[first].size = size
  <2>1. JoinedInto(n, Joined(B, first, end), h, first, end, TRUE, FALSE)
    BY <1>2, <1>3, JoinTiles
  <2> QED BY <2>1 DEF JoinedInto
<1> QED BY <1>1, <1>4, <1>5, <1>6 DEF SameResult

LEMMA TwinFill ==
    ASSUME NEW h, NEW g, NEW B, Twin(h, g, B), NEW bp \in B, NEW size \in Nat,
           size + DSIZE <= ALIGNMENT * h.hdr[bp].size
    PROVE  Twin(Fill(h, bp, size), g, B)
<1> DEFINE n == Fill(h, bp, size)
<1>1. Tiling(h, B)
  BY DEF Twin
<1>2. Filled(n, h, B)
  BY <1>1, FillKeeps
<1> HIDE DEF n
<1>3. Twin(n, g, B)
  BY <1>2 DEF Filled, Twin
<1> QED BY <1>3 DEF n

LEMMA TwinGrowNext ==
    ASSUME NEW h, NEW g, NEW B, Twin(h, g, B), SearchOK(h, B), NEW bp \in Allocated(h, B),
           bp # heap_listp, NEW missing \in Nat \ {0}, NEW body, body = h.hdr[bp].size + missing,
           NEW end, end = NEXT_BLKP(h, bp) + extend_heap_recycle(h, bp, missing)
    PROVE  Regrown(GrowNext(h, bp, missing), GrowNext(g, bp, missing), h, bp, end, body)
<1> DEFINE recycled == extend_heap_recycle(h, bp, missing)
           room == h.hdr[bp].size + recycled
           lacking == h.hdr[bp].size + missing - room
           extendsize == IF lacking > CHUNKSIZE THEN lacking ELSE CHUNKSIZE
           new == GrowNext(h, bp, missing)
           gew == GrowNext(g, bp, missing)
           at == extend_heap(h, extendsize)
           gat == extend_heap(g, extendsize)
<1>1. Tiling(h, B) /\ bp \in B /\ HeapOK(h, B) /\ g.hdr[bp] = h.hdr[bp] /\ g.brk = h.brk
  BY TwinIsOK DEF HeapOK, SearchOK, Allocated, Twin
<1>2. /\ \A c \in B \cup {h.brk} : c \in Nat /\ c \in Units
      /\ \A c \in B : c < h.brk
  BY <1>1, TilingTypes, UnitsAreNaturals
<1>3. h.hdr[bp].size \in Nat /\ NEXT_BLKP(h, bp) = bp + h.hdr[bp].size /\ NEXT_BLKP(h, bp) \in Nat
  BY <1>1, TilingTypes, UnitsAreNaturals
<1>4. PICK last : Run(h, B, bp, last, end)
  BY <1>1, RecycleRun
<1>5. end \in B \cup {h.brk} /\ end \in Nat /\ last \in Nat /\ last < end /\ bp <= last /\ last \in B
      /\ end <= h.brk
  BY <1>1, <1>2, <1>4, TilingTypes DEF Run
<1>6. bp \in Nat /\ bp < end /\ h.brk \in Nat
  <2>1. bp \in Nat /\ h.brk \in Nat
    BY <1>1, <1>2
  <2> QED BY <1>5, <2>1
<1>7. recycled = end - NEXT_BLKP(h, bp) /\ extend_heap_recycle(g, bp, missing) = recycled
  BY <1>1, RecycleRun, TwinRecycle
<1> HIDE DEF recycled
<1>8. room = end - bp /\ lacking = bp + body - end
  BY <1>3, <1>5, <1>6, <1>7
<1>9. lacking \in Int /\ body \in Nat
  BY <1>3, <1>5, <1>6, <1>8
<1>10. new = IF lacking <= 0 THEN Resized(h, bp, room)
             ELSE ResizedUnlessNull(at, bp, room + extendsize)
  BY DEF GrowNext, recycled
<1>11. gew = IF lacking <= 0 THEN Resized(g, bp, room)
             ELSE ResizedUnlessNull(gat, bp, room + extendsize)
  <2> HIDE DEF room
  <2>1. room = g.hdr[bp].size + extend_heap_recycle(g, bp, missing)
    BY <1>1, <1>7 DEF room
  <2> QED BY <1>1, <2>1 DEF GrowNext
<1> HIDE DEF room, lacking, new, gew
<1>12. CASE lacking <= 0
  <2>1. new = Resized(h, bp, room) /\ gew = Resized(g, bp, room)
    BY <1>10, <1>11, <1>12
  <2>2. ~(end < bp + body)
    BY <1>5, <1>6, <1>8, <1>9, <1>12
  <2>3. SameResult(new, gew) /\ new.bp = bp /\ new.heap.hdr[bp].size = room
    BY <1>1, <1>4, <1>8, <2>1, ResizedTwins DEF Run
  <2>4. body <= room
    BY <1>5, <1>6, <1>8, <1>9, <1>12
  <2>5. Regrown(new, gew, h, bp, end, body)
    BY <2>2, <2>3, <2>4 DEF Regrown
  <2> QED BY <2>5 DEF new, gew
<1>13. CASE ~(lacking <= 0)
  <2>1. extendsize \in Nat \ {0} /\ lacking <= extendsize /\ lacking > 0
    BY <1>9, <1>13, UnitsAssumption
  <2>2. new = ResizedUnlessNull(at, bp, room + extendsize) /\ gew = ResizedUnlessNull(gat, bp, room + extendsize)
    BY <1>10, <1>11, <1>13
  <2> HIDE DEF extendsize, at, gat
  <2>3. SameResult(at, gat)
    BY <2>1, TwinExtend DEF at, gat
  <2>4. PICK C : Twin(at.heap, gat.heap, C) /\ gat.bp = at.bp
    BY <2>3 DEF SameResult
  <2>5. end < bp + body
    BY <1>5, <1>6, <1>8, <1>9, <2>1
  <2>6. CASE at.bp = NULL
    <3>1. new = at /\ gew = gat
      BY <2>2, <2>4, <2>6 DEF ResizedUnlessNull
    <3>2. Regrown(new, gew, h, bp, end, body)
      BY <2>3, <2>6, <3>1 DEF Regrown
    <3> QED BY <3>2 DEF new, gew
  <2>7. CASE at.bp # NULL
    <3>1. new = Resized(at.heap, bp, room + extendsize) /\ gew = Resized(gat.heap, bp, room + extendsize)
      BY <2>2, <2>4, <2>7 DEF ResizedUnlessNull
    <3>2. PICK D : ExtendedBy(at, D, h, B, extendsize)
      <4>1. at = [heap |-> h, bp |-> NULL] \/ \E D : ExtendedBy(at, D, h, B, extendsize)
        BY <1>1, <2>1, ExtendHeapKeeps DEF at
      <4> QED BY <2>7, <4>1
    <3>3. D = C
      BY <2>4, <3>2, BlocksOfTiling DEF Twin, ExtendedBy, NewFree, HeapOK
    <3>4. at.heap.brk = h.brk + extendsize /\ bp \in C /\ Tiling(at.heap, C)
      BY <3>2, <3>3 DEF ExtendedBy, NewFree, SameAllocated, Allocated, HeapOK
    <3>5. CASE end = h.brk
      <4>1. PICK tail \in C : NEXT_BLKP(at.heap, tail) = at.heap.brk
        <5>1. at.heap.brk # heap_listp
          BY <3>4, TilingTypes
        <5> QED BY <3>4, <5>1, BlockBefore
      <4>2. bp <= tail
        <5>1. \A c \in C : c \in Nat /\ c < at.heap.brk
          BY <3>4, TilingTypes, UnitsAreNaturals
        <5>2. tail < bp => at.heap.brk <= bp
          BY <3>4, <4>1, TilingTypes
        <5>3. at.heap.brk \in Nat
          BY <3>4, TilingTypes, UnitsAreNaturals
        <5> QED BY <3>4, <4>1, <5>1, <5>2, <5>3
      <4>3. room + extendsize = at.heap.brk - bp
        BY <1>5, <1>6, <1>8, <2>1, <3>4, <3>5
      <4>4. SameResult(new, gew) /\ new.bp = bp /\ new.heap.hdr[bp].size = room + extendsize
        BY <2>4, <3>1, <3>4, <4>1, <4>2, <4>3, ResizedTwins
      <4>5. body <= room + extendsize
        BY <1>5, <1>6, <1>8, <1>9, <2>1
      <4>6. Regrown(new, gew, h, bp, end, body)
        BY <1>6, <3>5, <4>4, <4>5 DEF Regrown
      <4> QED BY <4>6 DEF new, gew
    <3>6. CASE end # h.brk
      <4>1. end < h.brk
        BY <1>5, <1>6, <3>6
      <4> DEFINE n == PutBlock(at.heap, bp, room + extendsize, TRUE, FALSE)
                 m == PutBlock(gat.heap, bp, room + extendsize, TRUE, FALSE)
      <4>2. new = [heap |-> n, bp |-> bp] /\ gew = [heap |-> m, bp |-> bp]
        BY <3>1 DEF Resized
      <4>3. at.heap \in Heap /\ gat.heap \in Heap /\ gat.heap.brk = at.heap.brk /\ bp \in Units
        BY <2>4, <1>1, <1>2 DEF Twin, Tiling
      <4>4. n.brk = at.heap.brk /\ m.brk = gat.heap.brk /\ n.hdr[bp].size = room + extendsize
        BY <4>3 DEF PutBlock, Heap
      <4> HIDE DEF n, m
      <4>5. n.brk = h.brk + extendsize /\ bp + body <= end + extendsize /\ 0 < extendsize
            /\ n.hdr[bp].size = end - bp + extendsize /\ extendsize \in Nat
        BY <1>5, <1>6, <1>8, <1>9, <2>1, <3>4, <4>4
      <4>6. Overgrown(new, h, bp, end, body)
        BY <4>2, <4>5 DEF Overgrown
      <4>7. Regrown(new, gew, h, bp, end, body)
        BY <2>5, <4>1, <4>2, <4>3, <4>4, <4>6 DEF Regrown
      <4> QED BY <4>7 DEF new, gew
    <3> QED BY <3>5, <3>6
  <2> QED BY <2>6, <2>7
<1> QED BY <1>12, <1>13

\* The run of free blocks after bp is too short and does not end at the break.
TooLittle(h, bp, body) ==
    TakesNext(h, bp, body) /\ EndOfRun(h, bp, body) < bp + body /\ EndOfRun(h, bp, body) < h.brk

TwinGrownBlock(new, gew, h, bp, body) ==
    IF TooLittle(h, bp, body)
    THEN \/ SameResult(new, gew) /\ new.bp = NULL
         \/ /\ gew.bp = bp /\ new.bp = bp /\ gew.heap.brk = new.heap.brk
            /\ Overgrown(new, h, bp, EndOfRun(h, bp, body), body)
    ELSE SameResult(new, gew) /\ (new.bp # NULL => body <= new.heap.hdr[new.bp].size)

LEMMA TwinTakes ==
    ASSUME NEW h, NEW g, NEW B, Twin(h, g, B), NEW bp \in B, bp # heap_listp, NEW body
    PROVE  /\ (TakesNext(g, bp, body) <=> TakesNext(h, bp, body))
           /\ (TakesPrev(g, bp, body) <=> TakesPrev(h, bp, body))
           /\ (Moves(g, bp, body) <=> Moves(h, bp, body))
<1> DEFINE prev == PREV_BLKP(h, bp)
           next == NEXT_BLKP(h, bp)
<1>1. prev = PREV_BLKP(g, bp) /\ next = NEXT_BLKP(g, bp) /\ next \in B \cup {h.brk} /\ prev \in B
  BY TwinSteps, BlockBefore DEF Twin
<1>2. g.hdr[prev] = h.hdr[prev] /\ g.hdr[next] = h.hdr[next] /\ g.hdr[bp] = h.hdr[bp]
  BY <1>1 DEF Twin
<1> HIDE DEF prev, next
<1>3. /\ (IS_BLOCK_ALLOCATED(g, prev) <=> IS_BLOCK_ALLOCATED(h, prev))
      /\ (IS_BLOCK_ALLOCATED(g, next) <=> IS_BLOCK_ALLOCATED(h, next))
  BY <1>2 DEF IS_BLOCK_ALLOCATED
<1>4. (TakesNext(g, bp, body) <=> TakesNext(h, bp, body))
  BY <1>1, <1>2, <1>3 DEF TakesNext, next
<1>5. (TakesPrev(g, bp, body) <=> TakesPrev(h, bp, body))
  BY <1>1, <1>2, <1>3, <1>4 DEF TakesPrev, prev
<1> QED BY <1>2, <1>4, <1>5 DEF Moves

LEMMA TwinGrows ==
    ASSUME NEW h, NEW g, NEW B, Twin(h, g, B), SearchOK(h, B), NEW bp \in Allocated(h, B),
           bp # heap_listp, NEW body \in Nat, body >= 2
    PROVE  TwinGrownBlock(GrownBlock(h, bp, body), GrownBlock(g, bp, body), h, bp, body)
<1> DEFINE missing == body - h.hdr[bp].size
           prev == PREV_BLKP(h, bp)
           end == EndOfRun(h, bp, body)
           new == GrownBlock(h, bp, body)
           gew == GrownBlock(g, bp, body)
<1>1. Tiling(h, B) /\ bp \in B /\ HeapOK(h, B) /\ g.hdr[bp] = h.hdr[bp] /\ g.brk = h.brk
  BY TwinIsOK DEF HeapOK, SearchOK, Allocated, Twin
<1>2. h.hdr[bp].size \in Nat /\ bp \in Nat
  BY <1>1, TilingTypes, UnitsAreNaturals
<1>3. /\ (TakesNext(g, bp, body) <=> TakesNext(h, bp, body))
      /\ (TakesPrev(g, bp, body) <=> TakesPrev(h, bp, body))
      /\ (Moves(g, bp, body) <=> Moves(h, bp, body))
  BY <1>1, TwinTakes
<1>4. CASE TakesNext(h, bp, body)
  <2>1. new = GrowNext(h, bp, missing) /\ gew = GrowNext(g, bp, missing)
    <3>1. ~TakesPrev(h, bp, body) /\ ~Moves(h, bp, body)
      BY <1>4 DEF TakesPrev, Moves
    <3>2. new = GrowNext(h, bp, missing)
      BY <1>4, <3>1 DEF GrownBlock
    <3>3. gew = GrowNext(g, bp, body - g.hdr[bp].size)
      BY <1>3, <1>4, <3>1 DEF GrownBlock
    <3> QED BY <1>1, <3>2, <3>3
  <2>2. missing \in Nat \ {0} /\ body = h.hdr[bp].size + missing
    BY <1>2, <1>4 DEF TakesNext
  <2>3. end = NEXT_BLKP(h, bp) + extend_heap_recycle(h, bp, missing)
    BY DEF EndOfRun
  <2> HIDE DEF missing, end, new, gew
  <2>4. Regrown(new, gew, h, bp, end, body)
    BY <2>1, <2>2, <2>3, TwinGrowNext
  <2>5. TwinGrownBlock(new, gew, h, bp, body)
    BY <1>4, <2>4 DEF TwinGrownBlock, Regrown, TooLittle, end
  <2> QED BY <2>5 DEF new, gew
<1>5. ASSUME ~TakesNext(h, bp, body), SameResult(new, gew), new.bp # NULL => body <= new.heap.hdr[new.bp].size
      PROVE  TwinGrownBlock(new, gew, h, bp, body)
  BY <1>5 DEF TwinGrownBlock, TooLittle
<1>6. CASE TakesPrev(h, bp, body)
  <2>0. ~TakesNext(h, bp, body) /\ h.hdr[prev].size + h.hdr[bp].size >= body
    BY <1>6 DEF TakesPrev
  <2>1. prev \in B /\ NEXT_BLKP(h, prev) = bp /\ prev = PREV_BLKP(g, bp)
    BY <1>1, BlockBefore, TwinSteps
  <2>2. g.hdr[prev] = h.hdr[prev]
    BY <2>1 DEF Twin
  <2> DEFINE size == h.hdr[prev].size + h.hdr[bp].size
  <2>3. new = Resized(h, prev, size) /\ gew = Resized(g, prev, size)
    <3>1. new = Resized(h, prev, size)
      BY <1>6, <2>0 DEF GrownBlock, Moves
    <3>2. gew = Resized(g, PREV_BLKP(g, bp), g.hdr[PREV_BLKP(g, bp)].size + g.hdr[bp].size)
      BY <1>3, <1>6, <2>0 DEF GrownBlock, Moves
    <3> HIDE DEF prev
    <3> QED BY <1>1, <2>1, <2>2, <3>1, <3>2
  <2>4. size = NEXT_BLKP(h, bp) - prev /\ prev <= bp /\ size \in Nat
    <3>1. h.hdr[prev].size \in Nat /\ prev \in Nat /\ bp = prev + h.hdr[prev].size /\ NEXT_BLKP(h, bp) = bp + h.hdr[bp].size
      BY <1>1, <2>1, TilingTypes, UnitsAreNaturals
    <3> HIDE DEF prev
    <3> QED BY <1>2, <3>1
  <2> HIDE DEF size, prev, new, gew
  <2>5. SameResult(new, gew) /\ new.bp = prev /\ new.heap.hdr[prev].size = size
    BY <1>1, <2>1, <2>3, <2>4, ResizedTwins
  <2>6. body <= size
    BY <2>0, <2>4 DEF size
  <2> QED BY <1>5, <2>0, <2>5, <2>6 DEF new, gew
<1>7. CASE Moves(h, bp, body)
  <2> DEFINE at == MoveTo(h, body)
             gat == MoveTo(g, body)
  <2>1. ~TakesNext(h, bp, body) /\ ~TakesPrev(h, bp, body)
    BY <1>7 DEF Moves
  <2>2. new = FreeUnlessNull(at, bp) /\ gew = FreeUnlessNull(gat, bp)
    BY <1>3, <1>7, <2>1 DEF GrownBlock
  <2>3. \/ new.bp = NULL
        \/ \E D : RegrownAt(new.heap, D, h, B, bp, new.bp, body)
    BY <1>1, <2>2, MovesKeeps
  <2>4. SameResult(at, gat)
    <3>1. 8 * body - 8 \in Nat \ {0}
      OBVIOUS
    <3>2. ALIGNMENT * body - DSIZE \in Nat \ {0}
      BY <3>1 DEF ALIGNMENT, DSIZE
    <3> QED BY <3>2, TwinMalloc DEF MoveTo
  <2>7. \/ at.bp = NULL
        \/ \E D : PlacedAt(at.heap, D, h, B, at.bp, body)
    <3>1. body \in Nat \ {0} /\ body = AdjustedSize(ALIGNMENT * body - DSIZE)
      BY BodyIsAdjusted
    <3>2. at = mm_malloc(h, ALIGNMENT * body - DSIZE)
      BY DEF MoveTo
    <3> HIDE DEF at
    <3> QED BY <1>1, <3>1, <3>2, MmMallocKeeps
  <2>8. at.bp # NULL => at = [heap |-> at.heap, bp |-> at.bp]
    <3>1. PICK found, asize : at = PlaceUnlessNull(found, asize)
      BY DEF MoveTo, mm_malloc
    <3> HIDE DEF at
    <3> QED BY <3>1 DEF PlaceUnlessNull
  <2>9. gat.bp # NULL => gat = [heap |-> gat.heap, bp |-> gat.bp]
    <3>1. PICK found, asize : gat = PlaceUnlessNull(found, asize)
      BY DEF MoveTo, mm_malloc
    <3> HIDE DEF gat
    <3> QED BY <3>1 DEF PlaceUnlessNull
  <2> HIDE DEF at, gat, new, gew
  <2>10. PICK C : Twin(at.heap, gat.heap, C) /\ gat.bp = at.bp
    BY <2>4 DEF SameResult
  <2>11. CASE at.bp = NULL
    <3>1. new = at /\ gew = gat
      BY <2>2, <2>10, <2>11 DEF FreeUnlessNull
    <3> QED BY <1>5, <2>1, <2>4, <2>11, <3>1 DEF new, gew
  <2>12. CASE at.bp # NULL
    <3> DEFINE n == mm_free(at.heap, bp)
               m == mm_free(gat.heap, bp)
    <3>1. new.heap = n /\ new.bp = at.bp /\ gew.heap = m /\ gew.bp = at.bp
      <4>1. new = [at EXCEPT !.heap = n] /\ gew = [gat EXCEPT !.heap = m]
        BY <2>2, <2>10, <2>12 DEF FreeUnlessNull
      <4> HIDE DEF n, m
      <4> QED BY <2>8, <2>9, <2>10, <2>12, <4>1
    <3>2. PICK D : PlacedAt(at.heap, D, h, B, at.bp, body)
      BY <2>7, <2>12
    <3>3. D = C
      BY <2>10, <3>2, BlocksOfTiling DEF Twin, PlacedAt, HeapOK
    <3>4. bp \in C
      BY <3>2, <3>3 DEF PlacedAt, Allocated
    <3>5. PICK E : Twin(n, m, E)
      BY <2>10, <3>4, TwinFree
    <3> HIDE DEF n, m
    <3>6. new.bp # NULL
      BY <2>12, <3>1
    <3>7. PICK F : RegrownAt(new.heap, F, h, B, bp, new.bp, body)
      BY <2>3, <3>6
    <3>8. F = E
      BY <3>1, <3>5, <3>7, BlocksOfTiling DEF Twin, RegrownAt, HeapOK
    <3>9. new.bp \in E /\ body <= new.heap.hdr[new.bp].size
      BY <3>7, <3>8 DEF RegrownAt, Allocated
    <3>10. SameResult(new, gew)
      BY <3>1, <3>5, <3>9 DEF SameResult
    <3> QED BY <1>5, <2>1, <3>9, <3>10 DEF new, gew
  <2> QED BY <2>11, <2>12
<1>8. CASE ~(TakesNext(h, bp, body) \/ TakesPrev(h, bp, body) \/ Moves(h, bp, body))
  <2>1. new = [heap |-> h, bp |-> bp] /\ gew = [heap |-> g, bp |-> bp] /\ body <= h.hdr[bp].size
    BY <1>2, <1>3, <1>8 DEF GrownBlock, Moves
  <2> HIDE DEF new, gew
  <2>2. SameResult(new, gew) /\ (new.bp # NULL => body <= new.heap.hdr[new.bp].size)
    BY <1>1, <2>1 DEF SameResult
  <2> QED BY <1>5, <1>8, <2>2 DEF new, gew
<1> QED BY <1>4, <1>6, <1>7, <1>8

LEMMA TagNextRetags ==
    ASSUME NEW h \in Heap, NEW bp, NEXT_BLKP(h, bp) \in Units, NEW body
    PROVE  Retagged(TagNext(h, bp, body), h)
<1> DEFINE n == TagNext(h, bp, body)
<1>1. CASE n = h
  BY <1>1 DEF Retagged
<1>2. CASE \E tag \in BOOLEAN : n = SetTag(h, NEXT_BLKP(h, bp), tag)
  BY <1>2, SetTagRetags
<1> QED BY <1>1, <1>2 DEF TagNext

LEMMA TwinTagNext ==
    ASSUME NEW h, NEW g, NEW B, Twin(h, g, B), NEW bp \in B, NEW body,
           NEW n, n = TagNext(h, bp, body), NEW m, m = TagNext(g, bp, body)
    PROVE  Twin(n, m, B) /\ n.hdr[bp].size = h.hdr[bp].size
<1> DEFINE next == NEXT_BLKP(h, bp)
<1>1. next = NEXT_BLKP(g, bp) /\ next \in B \cup {h.brk} /\ g.hdr[bp] = h.hdr[bp]
  BY TwinSteps DEF Twin
<1>2. h \in Heap /\ Tiling(h, B)
  BY DEF Twin, Tiling
<1>3. next \in Units /\ bp \in Units
  BY <1>1, <1>2, TilingTypes
<1>4. Retagged(n, h)
  BY <1>2, <1>3, TagNextRetags
<1>5. Twin(n, m, B)
  <2>1. CASE h.hdr[bp].size - body < 2 * PADDING
    <3>1. n = SetTag(h, next, TRUE) /\ m = SetTag(g, next, TRUE)
      BY <1>1, <2>1 DEF TagNext
    <3> HIDE DEF next
    <3> QED BY <1>1, <3>1, TwinSetTag
  <2>2. CASE ~(h.hdr[bp].size - body < 2 * PADDING)
    BY <1>1, <2>2 DEF TagNext
  <2> QED BY <2>1, <2>2
<1> QED BY <1>3, <1>4, <1>5 DEF Retagged

\* What mm_realloc does on twins is the same, and it leaves twins behind unless the block
\* took less than it needs from between two others.
LEMMA TwinRealloc ==
    ASSUME NEW h, NEW g, NEW B, Twin(h, g, B), SearchOK(h, B), NEW bp \in Allocated(h, B),
           bp # heap_listp, NEW size \in Nat \ {0}
    PROVE  TwinGrownBlock(mm_realloc(h, bp, size), mm_realloc(g, bp, size), h, bp, BodySize(size))
<1> DEFINE body == BodySize(size)
           at == GrownBlock(h, bp, body)
           gat == GrownBlock(g, bp, body)
           new == mm_realloc(h, bp, size)
           gew == mm_realloc(g, bp, size)
<1>1. body \in Nat /\ body >= 2
  BY BodyIsEnough
<1>2. new = TagUnlessNull(at, body) /\ gew = TagUnlessNull(gat, body)
  BY DEF mm_realloc
<1> HIDE DEF body, new, gew
<1>3. TwinGrownBlock(at, gat, h, bp, body)
  BY <1>1, TwinGrows
<1>4. at.bp # NULL => at = [heap |-> at.heap, bp |-> at.bp]
  BY GrownIsRecord
<1>5. gat.bp # NULL => gat = [heap |-> gat.heap, bp |-> gat.bp]
  BY GrownIsRecord
<1>6. Refused(at, h, B) \/ GrownAt(at, h, B, bp, body)
  BY <1>1, TwinIsOK, GrownBlockKeeps
<1>7. Refused(gat, g, B) \/ GrownAt(gat, g, B, bp, body)
  <2>1. HeapOK(g, B) /\ bp \in Allocated(g, B)
    BY TwinIsOK DEF Twin, Allocated
  <2> QED BY <1>1, <2>1, GrownBlockKeeps
<1>8. gat.bp = at.bp
  BY <1>3 DEF TwinGrownBlock, SameResult
<1> HIDE DEF at, gat
<1>9. CASE at.bp = NULL
  <2>1. new = at /\ gew = gat
    BY <1>2, <1>8, <1>9 DEF TagUnlessNull
  <2> QED BY <1>3, <2>1 DEF new, gew, body
<1>10. CASE at.bp # NULL
  <2> DEFINE n == TagNext(at.heap, at.bp, body)
             m == TagNext(gat.heap, at.bp, body)
  <2>1. new = [at EXCEPT !.heap = n] /\ gew = [gat EXCEPT !.heap = m]
    BY <1>2, <1>8, <1>10 DEF TagUnlessNull
  <2> HIDE DEF n, m
  <2>2. new.heap = n /\ new.bp = at.bp /\ gew.heap = m /\ gew.bp = at.bp
    BY <1>4, <1>5, <1>8, <1>10, <2>1
  <2>3. GrownAt(at, h, B, bp, body) /\ GrownAt(gat, g, B, bp, body)
    BY <1>6, <1>7, <1>8, <1>10 DEF Refused
  <2>4. Retagged(n, at.heap) /\ Retagged(m, gat.heap) /\ at.bp \in Units
    BY <1>8, <2>3, TagNextRetags DEF GrownAt, Framed, n, m
  <2>5. CASE TooLittle(h, bp, body)
    <3>1. /\ gat.bp = bp /\ at.bp = bp /\ gat.heap.brk = at.heap.brk
          /\ Overgrown(at, h, bp, EndOfRun(h, bp, body), body)
      BY <1>3, <1>10, <2>5 DEF TwinGrownBlock
    <3>2. /\ gew.bp = bp /\ new.bp = bp /\ gew.heap.brk = new.heap.brk
          /\ new.heap.hdr[bp].size = at.heap.hdr[bp].size /\ new.heap.brk = at.heap.brk
      BY <2>2, <2>4, <3>1 DEF Retagged
    <3>3. Overgrown(new, h, bp, EndOfRun(h, bp, body), body)
      BY <3>1, <3>2 DEF Overgrown
    <3>4. TwinGrownBlock(new, gew, h, bp, body)
      BY <2>5, <3>2, <3>3 DEF TwinGrownBlock
    <3> QED BY <3>4 DEF new, gew, body
  <2>6. CASE ~TooLittle(h, bp, body)
    <3>1. SameResult(at, gat) /\ body <= at.heap.hdr[at.bp].size
      BY <1>3, <1>10, <2>6 DEF TwinGrownBlock
    <3>2. PICK C : Twin(at.heap, gat.heap, C) /\ at.bp \in C
      BY <1>10, <3>1 DEF SameResult
    <3>3. Twin(n, m, C) /\ n.hdr[at.bp].size = at.heap.hdr[at.bp].size
      BY <3>2, TwinTagNext DEF n, m
    <3>4. TwinGrownBlock(new, gew, h, bp, body)
      BY <2>2, <2>6, <3>1, <3>2, <3>3 DEF TwinGrownBlock, SameResult
    <3> QED BY <3>4 DEF new, gew, body
  <2> QED BY <2>5, <2>6
<1> QED BY <1>9, <1>10

\* A heap whose block took units that lie elsewhere is not sound: a payload lies in it.
LEMMA OvergrownIsUnsound ==
    ASSUME NEW h, NEW B, NEW l, SoundAs(h, B, l), NEW r \in l, NEW size \in Nat \ {0},
           NEW body \in Nat, TooLittle(h, r.ptr, body), NEW new, new.heap \in Heap, new.bp = r.ptr,
           Overgrown(new, h, r.ptr, EndOfRun(h, r.ptr, body), body),
           NEW n, n = Fill(new.heap, new.bp, size),
           NEW D, SoundAs(n, D, (l \ {r}) \cup {[ptr |-> new.bp, size |-> size]})
    PROVE  FALSE
<1> DEFINE bp == r.ptr
           end == EndOfRun(h, bp, body)
           missing == body - h.hdr[bp].size
           s == [ptr |-> bp, size |-> size]
           k == (l \ {r}) \cup {s}
<1>1. Tiling(h, B) /\ bp \in B /\ bp # heap_listp /\ {q.ptr : q \in l} = Allocated(h, B) \ {heap_listp}
  BY DEF SoundAs, HeapOK, LiveOK, Allocated
<1>2. bp \in Nat /\ bp \in Units /\ h.hdr[bp].size \in Nat /\ NEXT_BLKP(h, bp) = bp + h.hdr[bp].size
      /\ bp < NEXT_BLKP(h, bp) /\ h.brk \in Nat
  BY <1>1, TilingTypes, UnitsAreNaturals
<1>3. missing \in Nat
  BY <1>2 DEF TooLittle, TakesNext
<1>4. end = NEXT_BLKP(h, bp) + extend_heap_recycle(h, bp, missing)
  BY DEF EndOfRun
<1>5. PICK last : Run(h, B, bp, last, end)
  BY <1>1, <1>4, RecycleRun
<1>6. end \in Nat /\ bp < end
  <2>1. last \in B /\ bp <= last /\ end = NEXT_BLKP(h, last)
    BY <1>5 DEF Run
  <2>2. last \in Nat /\ last < end /\ end \in Nat
    BY <1>1, <2>1, TilingTypes, UnitsAreNaturals
  <2> HIDE DEF end, bp
  <2> QED BY <1>2, <2>1, <2>2
<1>7. end # h.brk /\ end <= NEXT_BLKP(h, bp) + missing
  <2>1. end < bp + body /\ end < h.brk
    BY DEF TooLittle
  <2> HIDE DEF end, bp
  <2> QED BY <1>2, <1>6, <2>1
<1> HIDE DEF missing, end, bp, s, k
<1>8. end \in B /\ h.hdr[end].alloc
  BY <1>1, <1>3, <1>4, <1>7, RecycleStops
<1>9. end # heap_listp
  BY <1>2, <1>6, UnitsAreNaturals DEF heap_listp
<1>10. PICK q \in l : q.ptr = end
  BY <1>1, <1>8, <1>9 DEF Allocated
<1>11. q # r /\ q \in k /\ s \in k /\ s.ptr = bp
  BY <1>2, <1>6, <1>10 DEF bp, k, s
<1>12. SoundAs(n, D, k)
  BY DEF k, s, bp
<1>13. Tiling(n, D) /\ bp \in D /\ end \in D
  BY <1>10, <1>11, <1>12 DEF SoundAs, HeapOK, LiveOK, Allocated
<1>14. PICK x \in Nat : 0 < x /\ new.heap.hdr[bp].size = end - bp + x
  BY DEF Overgrown, end, bp
<1>15. n.hdr[bp] = new.heap.hdr[bp]
  BY <1>2 DEF Fill, Heap, bp
<1>16. NEXT_BLKP(n, bp) = end + x
  BY <1>2, <1>6, <1>14, <1>15 DEF NEXT_BLKP
<1>17. NEXT_BLKP(n, bp) <= end
  BY <1>6, <1>13, TilingTypes
<1> QED BY <1>6, <1>14, <1>16, <1>17

-----------------------------------------------------------------------------
(* The break: only extend_heap moves it. *)

SameBreak(n, h) == n.brk = h.brk /\ "brk" \in DOMAIN n

LEMMA WritesKeepBreak ==
    ASSUME NEW h, "brk" \in DOMAIN h, NEW b, NEW size, NEW alloc, NEW tag
    PROVE  /\ SameBreak(PutBlock(h, b, size, alloc, tag), h)
           /\ SameBreak(PutWithTag(h, b, size, alloc), h)
           /\ SameBreak(SetTag(h, b, tag), h)
           /\ SameBreak(UpdateCurrentBlock(h, b), h)
BY DEF SameBreak, PutBlock, PutWithTag, SetTag, UpdateCurrentBlock

LEMMA CoalesceKeepsBreak ==
    ASSUME NEW h, "brk" \in DOMAIN h, NEW bp
    PROVE  SameBreak(coalesce(h, bp).heap, h)
<1>1. ASSUME NEW first, NEW last PROVE SameBreak(Merge(h, first, last).heap, h)
  <2> DEFINE n == PutWithTag(h, first, NEXT_BLKP(h, last) - first, FALSE)
  <2>1. SameBreak(n, h)
    BY WritesKeepBreak
  <2> HIDE DEF n
  <2>2. SameBreak(UpdateCurrentBlock(n, first), n)
    BY <2>1, WritesKeepBreak DEF SameBreak
  <2>3. SameBreak(h, h)
    BY DEF SameBreak
  <2>4. Merge(h, first, last).heap = h \/ Merge(h, first, last).heap = UpdateCurrentBlock(n, first)
    BY DEF Merge, n
  <2> QED BY <2>1, <2>2, <2>3, <2>4 DEF SameBreak
<1> QED BY <1>1 DEF coalesce

LEMMA PlaceKeepsBreak ==
    ASSUME NEW h, "brk" \in DOMAIN h, NEW bp, NEW asize
    PROVE  SameBreak(place(h, bp, asize), h)
<1> DEFINE n == PutWithTag(h, bp, asize, TRUE)
<1>1. SameBreak(n, h) /\ SameBreak(PutWithTag(h, bp, h.hdr[bp].size, TRUE), h)
  BY WritesKeepBreak
<1> HIDE DEF n
<1>2. \A b, size, alloc, tag : SameBreak(PutBlock(n, b, size, alloc, tag), n)
  BY <1>1, WritesKeepBreak DEF SameBreak
<1>3. \/ place(h, bp, asize) = PutWithTag(h, bp, h.hdr[bp].size, TRUE)
      \/ place(h, bp, asize) = PutBlock(n, bp + asize, h.hdr[bp].size - asize, FALSE, RemainderTag(h, bp + asize))
  BY DEF place, n
<1> QED BY <1>1, <1>2, <1>3 DEF SameBreak

LEMMA FreeKeepsBreak ==
    ASSUME NEW h, "brk" \in DOMAIN h, NEW bp
    PROVE  SameBreak(mm_free(h, bp), h)
<1> DEFINE hu == SetTag(h, NEXT_BLKP(h, bp), FALSE)
           n == PutWithTag(hu, bp, h.hdr[bp].size, FALSE)
<1>1. SameBreak(hu, h)
  BY WritesKeepBreak
<1> HIDE DEF hu
<1>2. SameBreak(n, hu)
  <2>1. "brk" \in DOMAIN hu
    BY <1>1 DEF SameBreak
  <2>2. \A size, alloc : SameBreak(PutWithTag(hu, bp, size, alloc), hu)
    BY <2>1, WritesKeepBreak
  <2> QED BY <2>2
<1> HIDE DEF n
<1>3. SameBreak(coalesce(n, bp).heap, n)
  BY <1>2, CoalesceKeepsBreak DEF SameBreak
<1>4. mm_free(h, bp) = coalesce(n, bp).heap
  BY DEF mm_free, n, hu
<1> QED BY <1>1, <1>2, <1>3, <1>4 DEF SameBreak

\* Where the break is after the heap was extended by size, or was not for want of memory.
LEMMA ExtendMovesBreak ==
    ASSUME NEW h, "brk" \in DOMAIN h, "hdr" \in DOMAIN h, NEW size
    PROVE  /\ "brk" \in DOMAIN extend_heap(h, size).heap
           /\ extend_heap(h, size).heap.brk = h.brk + size \/ extend_heap(h, size) = [heap |-> h, bp |-> NULL]
<1>1. CASE OutOfMemory(h, size)
  BY <1>1 DEF extend_heap
<1>2. CASE ~OutOfMemory(h, size)
  <2> DEFINE g == [h EXCEPT !.brk = h.brk + size]
             m == PutBlock(g, h.brk, size, FALSE, FALSE)
             n == Grown(h, size)
  <2>1. "brk" \in DOMAIN g /\ g.brk = h.brk + size /\ "hdr" \in DOMAIN g
    OBVIOUS
  <2> HIDE DEF g
  <2>2. "brk" \in DOMAIN m /\ m.brk = g.brk /\ "hdr" \in DOMAIN m
    BY <2>1 DEF PutBlock
  <2>3. n = [m EXCEPT !.hdr = [@ EXCEPT ![h.brk + size] = [size |-> 0, alloc |-> TRUE, tag |-> FALSE]]]
    BY DEF Grown, m, g
  <2> HIDE DEF m, n
  <2>4. "brk" \in DOMAIN n /\ n.brk = m.brk
    BY <2>2, <2>3
  <2>5. SameBreak(coalesce(n, h.brk).heap, n)
    BY <2>4, CoalesceKeepsBreak
  <2>6. extend_heap(h, size) = coalesce(n, h.brk)
    BY <1>2 DEF extend_heap, Grown, n
  <2> QED BY <2>1, <2>2, <2>4, <2>5, <2>6 DEF SameBreak
<1> QED BY <1>1, <1>2

LEMMA MallocMovesBreak ==
    ASSUME NEW h \in Heap, NEW size \in Nat \ {0}
    PROVE  "brk" \in DOMAIN mm_malloc(h, size).heap /\ mm_malloc(h, size).heap.brk \in Nat
           /\ h.brk <= mm_malloc(h, size).heap.brk
<1> DEFINE asize == AdjustedSize(size)
           found == find_fit(h, asize)
           more == IF asize > CHUNKSIZE THEN asize ELSE CHUNKSIZE
           at == ExtendUnlessFound(found, asize)
<1>1. asize \in Nat \ {0} /\ h.brk \in Nat
  BY AdjustedSizeIsEnough, UnitsAreNaturals DEF Heap
<1> HIDE DEF asize
<1>2. mm_malloc(h, size) = PlaceUnlessNull(at, asize)
  BY DEF mm_malloc, asize
<1>3. more \in Nat
  BY <1>1, UnitsAssumption
<1>4. "brk" \in DOMAIN found.heap /\ found.heap.brk = h.brk /\ "hdr" \in DOMAIN found.heap
  BY DEF find_fit, Heap
<1> HIDE DEF more, found
<1>5. at = found \/ at = extend_heap(found.heap, more)
  BY DEF ExtendUnlessFound, more
<1>6. "brk" \in DOMAIN at.heap /\ (at.heap.brk = h.brk \/ at.heap.brk = h.brk + more)
  <2>1. CASE at = found
    BY <1>4, <2>1
  <2>2. CASE at = extend_heap(found.heap, more)
    <3>1. /\ "brk" \in DOMAIN at.heap
          /\ at.heap.brk = found.heap.brk + more \/ at = [heap |-> found.heap, bp |-> NULL]
      BY <1>4, <2>2, ExtendMovesBreak
    <3> QED BY <1>4, <3>1
  <2> QED BY <1>5, <2>1, <2>2
<1> HIDE DEF at
<1>7. SameBreak(place(at.heap, at.bp, asize), at.heap)
  BY <1>6, PlaceKeepsBreak
<1>8. mm_malloc(h, size) = at \/ mm_malloc(h, size) = [heap |-> place(at.heap, at.bp, asize), bp |-> at.bp]
  BY <1>2 DEF PlaceUnlessNull
<1>9. SameBreak(mm_malloc(h, size).heap, at.heap)
  BY <1>6, <1>7, <1>8 DEF SameBreak
<1> QED BY <1>1, <1>3, <1>6, <1>9 DEF SameBreak

\* What is free for a payload of body units at first: up to end, and what the heap grows by.
Room(new, h, first, end, body) ==
    \E x \in Nat : /\ new.heap.brk = h.brk + x /\ body <= end - first + x
                   /\ "brk" \in DOMAIN new.heap

LEMMA GrowNextRoom ==
    ASSUME NEW h, NEW B, HeapOK(h, B), NEW bp \in B,
           NEW missing \in Nat \ {0}, NEW body, body = h.hdr[bp].size + missing,
           NEW end, end = NEXT_BLKP(h, bp) + extend_heap_recycle(h, bp, missing),
           GrowNext(h, bp, missing).bp # NULL
    PROVE  Room(GrowNext(h, bp, missing), h, bp, end, body)
<1> DEFINE recycled == extend_heap_recycle(h, bp, missing)
           room == h.hdr[bp].size + recycled
           lacking == h.hdr[bp].size + missing - room
           extendsize == IF lacking > CHUNKSIZE THEN lacking ELSE CHUNKSIZE
           new == GrowNext(h, bp, missing)
           at == extend_heap(h, extendsize)
<1>1. Tiling(h, B) /\ "brk" \in DOMAIN h /\ "hdr" \in DOMAIN h /\ h \in Heap
  BY DEF HeapOK, Tiling, Heap
<1>2. h.brk \in Nat /\ bp \in Nat /\ h.hdr[bp].size \in Nat /\ NEXT_BLKP(h, bp) = bp + h.hdr[bp].size
      /\ NEXT_BLKP(h, bp) \in Nat
  BY <1>1, TilingTypes, UnitsAreNaturals
<1>3. PICK last : Run(h, B, bp, last, end)
  BY <1>1, RecycleRun
<1>4. end \in Nat
  BY <1>1, <1>3, TilingTypes, UnitsAreNaturals DEF Run
<1>5. recycled = end - NEXT_BLKP(h, bp)
  BY <1>1, RecycleRun
<1> HIDE DEF recycled
<1>6. room = end - bp /\ lacking = bp + body - end /\ body \in Nat
  BY <1>2, <1>4, <1>5
<1>7. new = IF lacking <= 0 THEN Resized(h, bp, room)
            ELSE ResizedUnlessNull(at, bp, room + extendsize)
  BY DEF GrowNext, recycled
<1> HIDE DEF room, lacking, new
<1>8. CASE lacking <= 0
  <2>1. new = [heap |-> PutBlock(h, bp, room, TRUE, FALSE), bp |-> bp]
    BY <1>7, <1>8 DEF Resized
  <2>2. SameBreak(PutBlock(h, bp, room, TRUE, FALSE), h)
    BY <1>1, WritesKeepBreak
  <2>3. new.heap.brk = h.brk /\ "brk" \in DOMAIN new.heap
    BY <2>1, <2>2 DEF SameBreak
  <2>4. new.heap.brk = h.brk + 0 /\ body <= end - bp + 0
    BY <1>2, <1>4, <1>6, <1>8, <2>3
  <2>5. Room(new, h, bp, end, body)
    BY <2>3, <2>4 DEF Room
  <2> QED BY <2>5 DEF new
<1>9. CASE ~(lacking <= 0)
  <2>1. extendsize \in Nat /\ lacking <= extendsize
    BY <1>2, <1>4, <1>6, <1>9, UnitsAssumption
  <2>2. new = ResizedUnlessNull(at, bp, room + extendsize)
    BY <1>7, <1>9
  <2> HIDE DEF extendsize, at
  <2>3. at.bp # NULL
    BY <2>2 DEF ResizedUnlessNull, new
  <2>4. at.heap.brk = h.brk + extendsize /\ "brk" \in DOMAIN at.heap
    <3>1. at # [heap |-> h, bp |-> NULL]
      BY <2>3
    <3> QED BY <1>1, <3>1, ExtendMovesBreak DEF at
  <2> DEFINE n == PutBlock(at.heap, bp, room + extendsize, TRUE, FALSE)
  <2>5. new = [heap |-> n, bp |-> bp]
    BY <2>2, <2>3 DEF ResizedUnlessNull, Resized
  <2>6. SameBreak(n, at.heap)
    BY <2>4, WritesKeepBreak
  <2> HIDE DEF n
  <2>7. new.heap.brk = h.brk + extendsize /\ "brk" \in DOMAIN new.heap
    BY <2>4, <2>5, <2>6 DEF SameBreak
  <2>8. body <= end - bp + extendsize
    BY <1>2, <1>4, <1>6, <2>1
  <2>9. Room(new, h, bp, end, body)
    BY <2>1, <2>7, <2>8 DEF Room
  <2> QED BY <2>9 DEF new
<1> QED BY <1>8, <1>9

\* first to end is the span that mm_realloc takes for the block at bp when it does not move it.
InPlace(h, B, bp, first, end) ==
    /\ first \in B /\ first <= bp /\ bp < end /\ end \in B \cup {h.brk}
    /\ \A c \in B : c # bp /\ h.hdr[c].alloc => NEXT_BLKP(h, c) <= first \/ end <= c

LEMMA GrownBlockRoom ==
    ASSUME NEW h, NEW B, HeapOK(h, B), NEW bp \in Allocated(h, B), bp # heap_listp,
           NEW body \in Nat, NEW new, new = GrownBlock(h, bp, body), new.bp # NULL
    PROVE  IF Moves(h, bp, body)
           THEN new.heap.brk \in Nat /\ h.brk <= new.heap.brk /\ "brk" \in DOMAIN new.heap
           ELSE \E first, end : InPlace(h, B, bp, first, end) /\ Room(new, h, first, end, body)
<1> DEFINE missing == body - h.hdr[bp].size
           prev == PREV_BLKP(h, bp)
           next == NEXT_BLKP(h, bp)
           end == EndOfRun(h, bp, body)
<1>1. Tiling(h, B) /\ bp \in B /\ h \in Heap /\ "brk" \in DOMAIN h
  BY DEF HeapOK, Tiling, Allocated, Heap
<1>2. h.hdr[bp].size \in Nat /\ bp \in Nat /\ next = bp + h.hdr[bp].size /\ bp < next /\ h.brk \in Nat
      /\ next \in Nat /\ next \in B \cup {h.brk}
  BY <1>1, TilingTypes, UnitsAreNaturals
<1>3. \A c \in B : c \in Nat /\ NEXT_BLKP(h, c) \in Nat /\ c < NEXT_BLKP(h, c)
  BY <1>1, TilingTypes, UnitsAreNaturals
<1>4. \A b, c \in B : b < c => NEXT_BLKP(h, b) <= c
  BY <1>1, TilingTypes
<1>5. CASE TakesNext(h, bp, body)
  <2>1. ~TakesPrev(h, bp, body) /\ ~Moves(h, bp, body)
    BY <1>5 DEF TakesPrev, Moves
  <2>2. new = GrowNext(h, bp, missing)
    BY <1>5, <2>1 DEF GrownBlock
  <2>3. missing \in Nat \ {0} /\ body = h.hdr[bp].size + missing
    BY <1>2, <1>5 DEF TakesNext
  <2>4. end = NEXT_BLKP(h, bp) + extend_heap_recycle(h, bp, missing)
    BY DEF EndOfRun
  <2> HIDE DEF missing, end, next
  <2>5. Room(new, h, bp, end, body)
    BY <1>1, <2>2, <2>3, <2>4, GrowNextRoom
  <2>6. PICK last : Run(h, B, bp, last, end)
    BY <1>1, <2>4, RecycleRun
  <2>7. last \in B /\ bp <= last /\ end = NEXT_BLKP(h, last) /\ end \in B \cup {h.brk} /\ end \in Nat /\ last < end
    BY <1>1, <2>6, TilingTypes, UnitsAreNaturals DEF Run
  <2>8. ASSUME NEW c \in B, c # bp, h.hdr[c].alloc PROVE NEXT_BLKP(h, c) <= bp \/ end <= c
    <3>1. c < bp => NEXT_BLKP(h, c) <= bp
      BY <1>1, <1>4
    <3>2. ~(bp < c /\ c < end)
      BY <2>6, <2>8 DEF Run
    <3>3. c \in Nat
      BY <1>3
    <3> QED BY <1>2, <2>7, <2>8, <3>1, <3>2, <3>3
  <2>9. bp < end /\ bp <= bp
    BY <1>2, <1>3, <2>7
  <2>10. InPlace(h, B, bp, bp, end)
    BY <1>1, <2>7, <2>8, <2>9 DEF InPlace
  <2> QED BY <2>1, <2>5, <2>10
<1>6. CASE TakesPrev(h, bp, body)
  <2>1. ~TakesNext(h, bp, body) /\ ~Moves(h, bp, body) /\ h.hdr[prev].size + h.hdr[bp].size >= body
        /\ ~IS_BLOCK_ALLOCATED(h, prev)
    BY <1>6 DEF TakesPrev, Moves
  <2>2. prev \in B /\ NEXT_BLKP(h, prev) = bp
    BY <1>1, BlockBefore
  <2> DEFINE size == h.hdr[prev].size + h.hdr[bp].size
  <2>3. new = Resized(h, prev, size)
    BY <1>6, <2>1 DEF GrownBlock
  <2>4. /\ prev \in Nat /\ h.hdr[prev].size \in Nat /\ bp = prev + h.hdr[prev].size /\ prev < bp
    BY <1>1, <2>2, TilingTypes, UnitsAreNaturals
  <2> HIDE DEF next, prev
  <2>5. size = next - prev /\ size \in Nat
    BY <1>2, <2>4
  <2>6. body <= next - prev + 0
    BY <1>2, <2>1, <2>4, <2>5
  <2> HIDE DEF size
  <2> DEFINE n == PutBlock(h, prev, size, TRUE, FALSE)
  <2>7. SameBreak(n, h)
    BY <1>1, WritesKeepBreak
  <2>13. new = [heap |-> n, bp |-> prev]
    BY <2>3 DEF Resized
  <2> HIDE DEF n
  <2>8. new.heap.brk = h.brk + 0 /\ "brk" \in DOMAIN new.heap
    BY <1>2, <2>7, <2>13 DEF SameBreak
  <2>9. Room(new, h, prev, next, body)
    BY <2>6, <2>8 DEF Room
  <2>10. ASSUME NEW c \in B, c # bp, h.hdr[c].alloc PROVE NEXT_BLKP(h, c) <= prev \/ next <= c
    <3>1. c < prev => NEXT_BLKP(h, c) <= prev
      BY <1>4, <2>2
    <3>2. prev < c => bp <= c
      BY <1>4, <2>2
    <3>3. bp < c => next <= c
      BY <1>1, <1>4 DEF next
    <3>4. c # prev
      <4>1. h.hdr[prev].size > 0
        BY <1>1, <2>2 DEF Tiling
      <4> QED BY <2>1, <2>10, <4>1 DEF IS_BLOCK_ALLOCATED
    <3>5. c \in Nat /\ NEXT_BLKP(h, c) \in Nat
      BY <1>3
    <3> QED BY <1>2, <2>4, <2>10, <3>1, <3>2, <3>3, <3>4, <3>5
  <2>11. prev <= bp
    BY <1>2, <2>4
  <2>12. InPlace(h, B, bp, prev, next)
    BY <1>2, <2>2, <2>10, <2>11 DEF InPlace
  <2> QED BY <2>1, <2>9, <2>12
<1>7. CASE Moves(h, bp, body)
  <2> DEFINE at == MoveTo(h, body)
  <2>1. new = FreeUnlessNull(at, bp)
    BY <1>7 DEF GrownBlock, Moves
  <2>2. "brk" \in DOMAIN at.heap /\ at.heap.brk \in Nat /\ h.brk <= at.heap.brk
    <3>1. body \in Nat /\ body > 0
      BY <1>2, <1>7 DEF Moves
    <3>2. body # 1
      <4>1. h.hdr[bp].size > 0
        BY <1>1 DEF Tiling
      <4> QED BY <1>2, <1>7, <4>1 DEF Moves
    <3>3. 8 * body - 8 \in Nat \ {0}
      BY <3>1, <3>2
    <3>4. ALIGNMENT * body - DSIZE \in Nat \ {0}
      BY <3>3 DEF ALIGNMENT, DSIZE
    <3> QED BY <1>1, <3>4, MallocMovesBreak DEF MoveTo
  <2>3. at.bp # NULL => at = [heap |-> at.heap, bp |-> at.bp]
    <3>1. PICK found, asize : at = PlaceUnlessNull(found, asize)
      BY DEF MoveTo, mm_malloc
    <3> HIDE DEF at
    <3> QED BY <3>1 DEF PlaceUnlessNull
  <2> HIDE DEF at
  <2>4. at.bp # NULL
    BY <2>1 DEF FreeUnlessNull
  <2>5. new = [at EXCEPT !.heap = mm_free(at.heap, bp)]
    BY <2>1, <2>4 DEF FreeUnlessNull
  <2>6. new.heap = mm_free(at.heap, bp)
    BY <2>3, <2>4, <2>5
  <2>7. SameBreak(new.heap, at.heap)
    BY <2>2, <2>6, FreeKeepsBreak
  <2> QED BY <1>7, <2>2, <2>7 DEF SameBreak
<1>8. CASE ~(TakesNext(h, bp, body) \/ TakesPrev(h, bp, body) \/ Moves(h, bp, body))
  <2>1. new = [heap |-> h, bp |-> bp] /\ body <= h.hdr[bp].size
    BY <1>2, <1>8 DEF GrownBlock, Moves
  <2>2. new.heap.brk = h.brk + 0 /\ body <= next - bp + 0
    BY <1>2, <2>1
  <2> HIDE DEF next
  <2>3. Room(new, h, bp, next, body)
    BY <1>1, <2>1, <2>2 DEF Room
  <2>4. ASSUME NEW c \in B, c # bp, h.hdr[c].alloc PROVE NEXT_BLKP(h, c) <= bp \/ next <= c
    <3>1. (c < bp => NEXT_BLKP(h, c) <= bp) /\ (bp < c => next <= c) /\ c \in Nat
      BY <1>1, <1>3, <1>4 DEF next
    <3> QED BY <1>2, <2>4, <3>1
  <2>5. InPlace(h, B, bp, bp, next)
    BY <1>1, <1>2, <2>4 DEF InPlace
  <2> QED BY <1>8, <2>3, <2>5
<1> QED BY <1>5, <1>6, <1>7, <1>8

\* A mm_realloc that cannot move the block returns NULL.
LEMMA MovesNowhere ==
    ASSUME NEW h, NEW bp, NEW size, Moves(h, bp, BodySize(size)),
           MoveTo(h, BodySize(size)).bp = NULL
    PROVE  mm_realloc(h, bp, size).bp = NULL
<1> DEFINE body == BodySize(size)
           at == MoveTo(h, body)
<1> HIDE DEF body
<1>1. at.bp = NULL
  BY DEF body
<1>2. Moves(h, bp, body)
  BY DEF body
<1>3. ~TakesNext(h, bp, body) /\ ~TakesPrev(h, bp, body)
  BY <1>2 DEF Moves
<1>4. GrownBlock(h, bp, body) = FreeUnlessNull(at, bp)
  BY <1>2, <1>3 DEF GrownBlock
<1>5. FreeUnlessNull(at, bp) = at
  BY <1>1 DEF FreeUnlessNull
<1>6. TagUnlessNull(at, body) = at
  BY <1>1 DEF TagUnlessNull
<1> HIDE DEF at
<1>7. mm_realloc(h, bp, size) = at
  BY <1>4, <1>5, <1>6 DEF mm_realloc, body
<1> QED BY <1>1, <1>7

\* The room that mm_realloc has found for a payload, unless it has moved it.
LEMMA ReallocRoom ==
    ASSUME NEW h, NEW B, HeapOK(h, B), NEW bp \in Allocated(h, B), bp # heap_listp,
           NEW size \in Nat \ {0}, NEW new, new = mm_realloc(h, bp, size), new.bp # NULL,
           NEW body, body = BodySize(size)
    PROVE  IF Moves(h, bp, body)
           THEN new.heap.brk \in Nat /\ h.brk <= new.heap.brk
           ELSE \E first, end : InPlace(h, B, bp, first, end) /\ Room(new, h, first, end, body)
<1> DEFINE at == GrownBlock(h, bp, body)
<1>1. body \in Nat /\ body >= 2
  BY BodyIsEnough
<1>2. new = TagUnlessNull(at, body)
  BY DEF mm_realloc
<1>3. new.bp = at.bp
  BY MmReallocKeeps
<1>4. at = [heap |-> at.heap, bp |-> at.bp]
  BY <1>3, GrownIsRecord
<1>5. IF Moves(h, bp, body)
      THEN at.heap.brk \in Nat /\ h.brk <= at.heap.brk /\ "brk" \in DOMAIN at.heap
      ELSE \E first, end : InPlace(h, B, bp, first, end) /\ Room(at, h, first, end, body)
  BY <1>1, <1>3, GrownBlockRoom
<1> HIDE DEF at
<1> DEFINE n == TagNext(at.heap, at.bp, body)
<1>6. new = [at EXCEPT !.heap = n]
  BY <1>2, <1>3 DEF TagUnlessNull
<1>7. "brk" \in DOMAIN at.heap => SameBreak(n, at.heap)
  <2>1. n = at.heap \/ \E b, tag : n = SetTag(at.heap, b, tag)
    BY DEF TagNext
  <2> HIDE DEF n
  <2> QED BY <2>1, WritesKeepBreak DEF SameBreak
<1> HIDE DEF n
<1>8. new.heap = n
  BY <1>4, <1>6
<1>9. CASE Moves(h, bp, body)
  BY <1>5, <1>7, <1>8, <1>9 DEF SameBreak
<1>10. CASE ~Moves(h, bp, body)
  <2>1. PICK first, end : InPlace(h, B, bp, first, end) /\ Room(at, h, first, end, body)
    BY <1>5, <1>10
  <2>2. Room(new, h, first, end, body)
    BY <1>7, <1>8, <2>1 DEF Room, SameBreak
  <2> QED BY <1>10, <2>1, <2>2
<1> QED BY <1>9, <1>10

\* What mm_realloc returns on a twin; when the payload can be filled without spoiling
\* the heap, it leaves a twin of that heap.
LEMMA TwinReallocSound ==
    ASSUME NEW h, NEW g, NEW B, Twin(h, g, B), NEW l, SoundAs(h, B, l), NEW r \in l,
           NEW size \in Nat \ {0}, NEW new, new = mm_realloc(h, r.ptr, size), new.bp # NULL,
           NEW gew, gew = mm_realloc(g, r.ptr, size),
           NEW n, n = Fill(new.heap, new.bp, size)
    PROVE  /\ gew.bp = new.bp /\ gew.heap.brk = new.heap.brk
           /\ \A D : SoundAs(n, D, (l \ {r}) \cup {[ptr |-> new.bp, size |-> size]})
                     => Twin(n, gew.heap, D)
<1> DEFINE body == BodySize(size)
           bp == r.ptr
<1>1. HeapOK(h, B) /\ SearchOK(h, B) /\ bp \in Allocated(h, B) /\ bp # heap_listp
  BY DEF SoundAs, HeapOK, LiveOK
<1>2. body \in Nat /\ body >= 2 /\ AdjustedSize(size) <= body
  BY BodyIsEnough
<1>3. TwinGrownBlock(new, gew, h, bp, body)
  BY <1>1, TwinRealloc
<1>4. new.heap \in Heap
  BY <1>1, MmReallocKeeps DEF Refused, ReallocatedAt, Framed
<1> HIDE DEF body
<1>5. CASE TooLittle(h, bp, body)
  <2>1. /\ gew.bp = bp /\ new.bp = bp /\ gew.heap.brk = new.heap.brk
        /\ Overgrown(new, h, bp, EndOfRun(h, bp, body), body)
    BY <1>3, <1>5 DEF TwinGrownBlock
  <2>2. ASSUME NEW D, SoundAs(n, D, (l \ {r}) \cup {[ptr |-> new.bp, size |-> size]})
        PROVE  FALSE
    BY <1>2, <1>4, <1>5, <2>1, <2>2, OvergrownIsUnsound
  <2> QED BY <2>1, <2>2
<1>6. CASE ~TooLittle(h, bp, body)
  <2>1. SameResult(new, gew) /\ body <= new.heap.hdr[new.bp].size
    BY <1>3, <1>6 DEF TwinGrownBlock
  <2>2. PICK C : Twin(new.heap, gew.heap, C) /\ new.bp \in C
    BY <2>1 DEF SameResult
  <2>3. size + DSIZE <= ALIGNMENT * new.heap.hdr[new.bp].size
    <3>1. /\ AdjustedSize(size) \in Nat \ {0}
          /\ size + DSIZE <= ALIGNMENT * AdjustedSize(size)
      BY AdjustedSizeIsEnough
    <3>2. new.heap.hdr[new.bp].size \in Nat
      BY <2>2, TilingTypes DEF Twin
    <3> QED BY <1>2, <2>1, <3>1, <3>2 DEF ALIGNMENT, DSIZE
  <2>4. Twin(n, gew.heap, C)
    BY <2>2, <2>3, TwinFill
  <2>5. ASSUME NEW D, SoundAs(n, D, (l \ {r}) \cup {[ptr |-> new.bp, size |-> size]})
        PROVE  D = C
    BY <2>4, <2>5, BlocksOfTiling DEF SoundAs, HeapOK, Twin
  <2>6. gew.bp = new.bp /\ gew.heap.brk = new.heap.brk
    BY <2>1, <2>2 DEF SameResult, Twin
  <2> QED BY <2>4, <2>5, <2>6
<1> QED BY <1>5, <1>6

-----------------------------------------------------------------------------
(* What the package leaves alone: the words inside the blocks in use.      *)

\* No word of the block from b up to e was written, but for its header and its footer.
Spares(n, h, b, e) ==
    /\ \A u \in Units : b <= u /\ u + 1 < e => n.ftr[u] = h.ftr[u]
    /\ \A u \in Units : b < u /\ u < e => n.hdr[u] = h.hdr[u]

\* x is not inside that block.
Outside(x, b, e) == x <= b \/ e <= x

\* Two changes in a row that spare a block spare it together.
LEMMA SparesNext ==
    ASSUME NEW h, NEW n, NEW m, NEW b, NEW e, Spares(n, h, b, e), Spares(m, n, b, e)
    PROVE  Spares(m, h, b, e)
BY DEF Spares

\* What leaves headers and footers alone spares every block.
LEMMA SameWordsSpare ==
    ASSUME NEW h, NEW n, n.hdr = h.hdr, n.ftr = h.ftr, NEW b, NEW e
    PROVE  Spares(n, h, b, e)
BY DEF Spares

\* Where one block of a tiled heap starts, no other one goes on.
LEMMA BordersAreOutside ==
    ASSUME NEW h, NEW B, Tiling(h, B), NEW b \in B, NEW e, e = NEXT_BLKP(h, b)
    PROVE  /\ b \in Nat /\ e \in Nat /\ b < e /\ e <= h.brk /\ h.brk \in Nat
           /\ \A x \in B \cup {h.brk} : x \in Nat /\ Outside(x, b, e)
<1>1. /\ b \in Nat /\ e \in Nat /\ b < e /\ e <= h.brk /\ h.brk \in Nat
      /\ \A x \in B : x \in Nat /\ (b < x => e <= x)
  BY TilingTypes, UnitsAreNaturals
<1> QED BY <1>1 DEF Outside

\* Writing a block spares those that its header and footer are not in.
LEMMA PutSpares ==
    ASSUME NEW h \in Heap, NEW first \in Units, NEW size \in 0 .. MAX_HEAP, first + size - 1 \in Units,
           NEW alloc \in BOOLEAN, NEW tag \in BOOLEAN, NEW b \in Nat, NEW e \in Nat,
           Outside(first, b, e), Outside(first + size, b, e)
    PROVE  Spares(PutBlock(h, first, size, alloc, tag), h, b, e)
<1> DEFINE n == PutBlock(h, first, size, alloc, tag)
<1>1. Written(n, h, first, size, alloc, tag)
  BY PutBlockWrites
<1> HIDE DEF n
<1>2. first \in Nat /\ size \in Nat /\ \A u \in Units : u \in Nat
  BY UnitsAreNaturals
<1>3. \A u \in Units : b <= u /\ u + 1 < e => u # first + size - 1
  BY <1>2 DEF Outside
<1>4. \A u \in Units : b < u /\ u < e => u # first
  BY <1>2 DEF Outside
<1>5. \A u \in Units \ {first + size - 1} : n.ftr[u] = h.ftr[u]
  BY <1>1 DEF Written
<1>6. \A u \in Units \ {first} : n.hdr[u] = h.hdr[u]
  BY <1>1 DEF Written
<1>7. Spares(n, h, b, e)
  BY <1>3, <1>4, <1>5, <1>6 DEF Spares
<1> QED BY <1>7 DEF n

\* A tag that is set or cleared.
LEMMA SetTagSpares ==
    ASSUME NEW h \in Heap, NEW x \in Units, NEW tag \in BOOLEAN, NEW b \in Nat, NEW e \in Nat,
           Outside(x, b, e)
    PROVE  Spares(SetTag(h, x, tag), h, b, e)
<1>1. /\ SetTag(h, x, tag).ftr = h.ftr
      /\ \A u \in Units : u # x => SetTag(h, x, tag).hdr[u] = h.hdr[u]
  BY SetTagRetags DEF Retagged
<1>2. \A u \in Units : b < u /\ u < e => u # x
  BY UnitsAreNaturals DEF Outside
<1> QED BY <1>1, <1>2 DEF Spares

\* The blocks between two borders become one.
LEMMA JoinSpares ==
    ASSUME NEW h, NEW B, Tiling(h, B), NEW first \in B, NEW end \in B \cup {h.brk}, first < end,
           NEW alloc \in BOOLEAN, NEW tag \in BOOLEAN, NEW b \in B
    PROVE  Spares(PutBlock(h, first, end - first, alloc, tag), h, b, NEXT_BLKP(h, b))
<1> DEFINE e == NEXT_BLKP(h, b)
           size == end - first
<1>1. /\ b \in Nat /\ e \in Nat /\ first \in Nat /\ end \in Nat
      /\ Outside(first, b, e) /\ Outside(end, b, e)
  BY BordersAreOutside
<1>2. h \in Heap /\ first \in Units /\ end \in Units /\ MAX_HEAP \in Nat /\ end <= MAX_HEAP /\ 1 <= first
  BY TilingTypes, UnitsAreNaturals DEF Tiling
<1> HIDE DEF e
<1>3. size \in 0 .. MAX_HEAP /\ first + size = end /\ first + size - 1 \in Units
  BY <1>1, <1>2 DEF Units
<1> HIDE DEF size
<1>4. Spares(PutBlock(h, first, size, alloc, tag), h, b, e)
  BY <1>1, <1>2, <1>3, PutSpares
<1> QED BY <1>4 DEF size, e

\* coalesce writes inside no block.
LEMMA CoalesceSpares ==
    ASSUME NEW h, NEW B, Tiling(h, B), NEW bp \in B, bp # heap_listp, NEW b \in B
    PROVE  Spares(coalesce(h, bp).heap, h, b, NEXT_BLKP(h, b))
<1> DEFINE prev == PREV_BLKP(h, bp)
           next == NEXT_BLKP(h, bp)
           first == IF PrevAlloc(h, bp) THEN bp ELSE prev
           last == IF h.hdr[next].alloc THEN bp ELSE next
           end == NEXT_BLKP(h, last)
           n == PutBlock(h, first, end - first, FALSE, h.hdr[first].tag)
<1>1. prev \in B /\ NEXT_BLKP(h, prev) = bp /\ prev < bp
  BY BlockBefore, TilingTypes
<1>2. bp < next /\ (h.hdr[next].alloc \/ next \in B)
  BY CoalesceSees, TilingTypes
<1>3. coalesce(h, bp) = Merge(h, first, last)
  BY DEF coalesce
<1>4. first \in B /\ last \in B /\ first <= last
  <2>1. bp \in Nat /\ prev \in Nat /\ (next \in B => next \in Nat)
    BY <1>1, TilingTypes, UnitsAreNaturals
  <2> HIDE DEF prev, next
  <2> QED BY <1>1, <1>2, <2>1
<1> HIDE DEF prev, next, first, last
<1>5. end \in B \cup {h.brk} /\ last < end /\ first \in Nat /\ last \in Nat /\ end \in Nat
      /\ h.hdr[first].tag \in BOOLEAN
  BY <1>4, TilingTypes, UnitsAreNaturals, TagIsBoolean
<1>6. CASE first = last
  <2>1. coalesce(h, bp).heap = h
    BY <1>3, <1>6 DEF Merge
  <2> QED BY <2>1, SameWordsSpare
<1>7. CASE first # last
  <2>1. coalesce(h, bp).heap = UpdateCurrentBlock(n, first)
    BY <1>3, <1>7 DEF Merge, PutWithTag
  <2>2. Spares(n, h, b, NEXT_BLKP(h, b))
    <3>1. first < end
      BY <1>4, <1>5
    <3> HIDE DEF end
    <3> QED BY <1>4, <1>5, <3>1, JoinSpares
  <2>3. h \in Heap
    BY DEF Tiling
  <2> HIDE DEF n
  <2>4. /\ UpdateCurrentBlock(n, first).hdr = n.hdr
        /\ UpdateCurrentBlock(n, first).ftr = n.ftr
    BY DEF UpdateCurrentBlock
  <2>5. Spares(UpdateCurrentBlock(n, first), n, b, NEXT_BLKP(h, b))
    BY <2>4, SameWordsSpare
  <2> QED BY <2>1, <2>2, <2>5, SparesNext
<1> QED BY <1>6, <1>7

\* extend_heap writes inside no block.
LEMMA ExtendSpares ==
    ASSUME NEW h, NEW B, HeapOK(h, B), NEW size \in Nat \ {0}, NEW b \in B
    PROVE  Spares(extend_heap(h, size).heap, h, b, NEXT_BLKP(h, b))
<1> DEFINE n == Grown(h, size)
           e == NEXT_BLKP(h, b)
<1>1. CASE OutOfMemory(h, size)
  <2>1. extend_heap(h, size).heap = h
    BY <1>1 DEF extend_heap
  <2> QED BY <2>1, SameWordsSpare
<1>2. CASE ~OutOfMemory(h, size)
  <2>1. Tiling(h, B) /\ h \in Heap
    BY DEF HeapOK, Tiling
  <2>2. b \in Nat /\ e \in Nat /\ e <= h.brk /\ h.brk \in Nat /\ MAX_HEAP \in Nat
    BY <2>1, BordersAreOutside, UnitsAssumption
  <2>3. h.brk + size <= MAX_HEAP
    BY <1>2, <2>2 DEF OutOfMemory
  <2>4. extend_heap(h, size) = coalesce(n, h.brk)
    BY <1>2 DEF extend_heap, Grown
  <2>5. GrownBy(n, h, size)
    BY <2>1, <2>3, GrownWrites
  <2>6. Tiling(n, B \cup {h.brk}) /\ h.brk # heap_listp
    <3> HIDE DEF n
    <3> QED BY <2>3, GrownTiles DEF n
  <2> HIDE DEF n
  <2>7. Spares(n, h, b, e)
    <3>1. \A u \in Units : u \in Nat
      BY UnitsAreNaturals
    <3>2. \A u \in Units : u < e => u # h.brk /\ u # h.brk + size
      BY <2>2, <3>1
    <3>3. \A u \in Units : u + 1 < e => u # h.brk + size - 1
      BY <2>2, <3>1
    <3>4. \A x \in Units : x # h.brk /\ x # h.brk + size => n.hdr[x] = h.hdr[x]
      BY <2>5 DEF GrownBy
    <3>5. \A x \in Units : x # h.brk + size - 1 => n.ftr[x] = h.ftr[x]
      BY <2>5 DEF GrownBy
    <3> HIDE DEF e
    <3> QED BY <3>2, <3>3, <3>4, <3>5 DEF Spares
  <2>8. NEXT_BLKP(n, b) = e
    <3>1. b \in Units /\ b # h.brk /\ b # h.brk + size
      BY <2>1, <2>2, TilingTypes
    <3> QED BY <2>5, <3>1 DEF GrownBy, NEXT_BLKP
  <2> HIDE DEF e
  <2>9. Spares(coalesce(n, h.brk).heap, n, b, e)
    BY <2>6, <2>8, CoalesceSpares
  <2>10. Spares(coalesce(n, h.brk).heap, h, b, e)
    BY <2>7, <2>9, SparesNext
  <2> QED BY <2>4, <2>10 DEF e
<1> QED BY <1>1, <1>2

\* find_fit writes nothing.
LEMMA FindFitSpares ==
    ASSUME NEW h, NEW asize, NEW b, NEW e
    PROVE  Spares(find_fit(h, asize).heap, h, b, e)
<1>1. PICK c : find_fit(h, asize).heap = [h EXCEPT !.current_block = c]
  BY DEF find_fit
<1>2. find_fit(h, asize).heap.hdr = h.hdr /\ find_fit(h, asize).heap.ftr = h.ftr
  BY <1>1
<1> QED BY <1>2, SameWordsSpare

\* Only the block itself is split.
LEMMA PlaceSpares ==
    ASSUME NEW h, NEW B, Tiling(h, B), NEW bp \in B,
           NEW asize \in Nat \ {0}, asize <= h.hdr[bp].size, NEW b \in B, b # bp
    PROVE  Spares(place(h, bp, asize), h, b, NEXT_BLKP(h, b))
<1> DEFINE size == h.hdr[bp].size
           rest == size - asize
           end == NEXT_BLKP(h, bp)
           mid == bp + asize
           tag == h.hdr[bp].tag
           e == NEXT_BLKP(h, b)
<1>1. /\ bp \in Nat /\ size \in Nat /\ end = bp + size /\ bp \in Units
      /\ end \in Units /\ end \in Nat /\ bp < end /\ MAX_HEAP \in Nat /\ end <= MAX_HEAP
  BY TilingTypes, UnitsAreNaturals
<1>2. tag \in BOOLEAN /\ h \in Heap
  BY TagIsBoolean DEF Tiling
<1>3. b \in Nat /\ e \in Nat /\ b < e /\ (e <= bp \/ end <= b)
  <2>1. b \in Nat /\ e \in Nat /\ b < e /\ (b < bp => e <= bp)
    BY BordersAreOutside DEF Outside
  <2>2. bp < b => end <= b
    BY TilingTypes
  <2> HIDE DEF e, end
  <2> QED BY <1>1, <2>1, <2>2
<1>4. CASE rest >= SmallestBlock
  <2> DEFINE n == PutBlock(PutBlock(h, bp, asize, TRUE, tag), mid, rest, FALSE, FALSE)
  <2>1. place(h, bp, asize) = n
    BY <1>4 DEF place, PutWithTag, RemainderTag
  <2>2. rest \in Nat \ {0} /\ mid + rest = end /\ mid \in Nat /\ bp < mid /\ mid < end
    BY <1>1, <1>4 DEF SmallestBlock
  <2> HIDE DEF rest, tag, n
  <2>3. SplitAt(n, h, bp, mid, end, tag)
    BY <1>1, <1>2, <2>2, SplitWrites DEF n
  <2> HIDE DEF mid, end, e
  <2>4. \A u \in Units : u \in Nat
    BY UnitsAreNaturals
  <2>5. \A u \in Units : b < u /\ u < e => u # bp /\ u # mid
    BY <1>1, <1>3, <2>2, <2>4
  <2>6. \A u \in Units : b <= u /\ u + 1 < e => u # mid - 1 /\ u # end - 1
    BY <1>1, <1>3, <2>2, <2>4
  <2>7. \A x \in Units : x # bp /\ x # mid => n.hdr[x] = h.hdr[x]
    BY <2>3 DEF SplitAt
  <2>8. \A x \in Units : x # mid - 1 /\ x # end - 1 => n.ftr[x] = h.ftr[x]
    BY <2>3 DEF SplitAt
  <2>9. Spares(n, h, b, e)
    BY <2>5, <2>6, <2>7, <2>8 DEF Spares
  <2> QED BY <2>1, <2>9 DEF e
<1>5. CASE ~(rest >= SmallestBlock)
  <2>1. place(h, bp, asize) = PutBlock(h, bp, end - bp, TRUE, tag)
    <3>1. place(h, bp, asize) = PutBlock(h, bp, size, TRUE, tag)
      BY <1>5 DEF place, PutWithTag
    <3>2. size = end - bp
      BY <1>1
    <3> HIDE DEF size, end
    <3> QED BY <3>1, <3>2
  <2>2. end \in B \cup {h.brk}
    BY TilingTypes
  <2> HIDE DEF end, tag
  <2> QED BY <1>1, <1>2, <2>1, <2>2, JoinSpares
<1> QED BY <1>4, <1>5

\* A block in use keeps its header and its end.
LEMMA SameAllocatedBlock ==
    ASSUME NEW n, NEW C, NEW h, NEW B, SameAllocated(n, C, h, B), NEW b \in Allocated(h, B)
    PROVE  b \in C /\ n.hdr[b].alloc /\ NEXT_BLKP(n, b) = NEXT_BLKP(h, b)
<1>1. b \in Allocated(n, C) /\ n.hdr[b].size = h.hdr[b].size
  BY DEF SameAllocated
<1> QED BY <1>1 DEF Allocated, NEXT_BLKP

\* mm_malloc writes inside no block that was in use.
LEMMA MallocSpares ==
    ASSUME NEW h, NEW B, HeapOK(h, B), NEW size \in Nat \ {0}, NEW b \in Allocated(h, B)
    PROVE  Spares(mm_malloc(h, size).heap, h, b, NEXT_BLKP(h, b))
<1> DEFINE asize == AdjustedSize(size)
           found == find_fit(h, asize)
           more == IF asize > CHUNKSIZE THEN asize ELSE CHUNKSIZE
           at == ExtendUnlessFound(found, asize)
           e == NEXT_BLKP(h, b)
<1>1. asize \in Nat \ {0}
  BY AdjustedSizeIsEnough
<1>2. mm_malloc(h, size) = PlaceUnlessNull(at, asize)
  BY DEF mm_malloc
<1>3. more \in Nat \ {0}
  BY <1>1, UnitsAssumption
<1> HIDE DEF asize
<1>4. HeapOK(found.heap, B) /\ found.heap.hdr = h.hdr /\ Spares(found.heap, h, b, e)
  BY FindFitFits, FindFitSpares DEF FitFound
<1>5. \/ at.bp = NULL
      \/ \E C : NewFree(at, C, h, B, asize)
  BY <1>1, ExtendUnlessFoundKeeps
<1>6. b \in B /\ NEXT_BLKP(found.heap, b) = e
  BY <1>4 DEF Allocated, NEXT_BLKP
<1> HIDE DEF found, more, e
<1>7. Spares(at.heap, h, b, e)
  <2>1. CASE found.bp # NULL
    BY <1>4, <2>1 DEF ExtendUnlessFound
  <2>2. CASE found.bp = NULL
    <3>1. at = extend_heap(found.heap, more)
      BY <2>2 DEF ExtendUnlessFound, more
    <3>2. Spares(at.heap, found.heap, b, e)
      BY <1>3, <1>4, <1>6, <3>1, ExtendSpares
    <3> QED BY <1>4, <3>2, SparesNext
  <2> QED BY <2>1, <2>2
<1> HIDE DEF at
<1>8. CASE at.bp = NULL
  BY <1>2, <1>7, <1>8 DEF PlaceUnlessNull, e
<1>9. CASE at.bp # NULL
  <2>1. mm_malloc(h, size).heap = place(at.heap, at.bp, asize)
    BY <1>2, <1>9 DEF PlaceUnlessNull
  <2>2. PICK C : NewFree(at, C, h, B, asize)
    BY <1>5, <1>9
  <2>3. /\ Tiling(at.heap, C) /\ SameAllocated(at.heap, C, h, B)
        /\ at.bp \in C /\ ~at.heap.hdr[at.bp].alloc /\ asize <= at.heap.hdr[at.bp].size
    BY <2>2 DEF NewFree, FreeBlock, HeapOK
  <2>4. b \in C /\ at.heap.hdr[b].alloc /\ NEXT_BLKP(at.heap, b) = e
    BY <2>3, SameAllocatedBlock DEF e
  <2>5. b # at.bp
    BY <2>3, <2>4
  <2>6. Spares(place(at.heap, at.bp, asize), at.heap, b, e)
    BY <1>1, <2>3, <2>4, <2>5, PlaceSpares
  <2> QED BY <1>7, <2>1, <2>6, SparesNext DEF e
<1> QED BY <1>8, <1>9

\* mm_free writes inside no block, not even the one it frees.
LEMMA FreeSpares ==
    ASSUME NEW h, NEW B, Tiling(h, B), NEW bp \in B, bp # heap_listp, NEW b \in B
    PROVE  Spares(mm_free(h, bp), h, b, NEXT_BLKP(h, b))
<1> DEFINE end == NEXT_BLKP(h, bp)
           hu == SetTag(h, end, FALSE)
           tag == hu.hdr[bp].tag
           n == PutBlock(hu, bp, end - bp, FALSE, tag)
           e == NEXT_BLKP(h, b)
<1>1. bp \in Nat /\ h.hdr[bp].size \in Nat /\ end = bp + h.hdr[bp].size /\ end \in B \cup {h.brk}
      /\ end \in Units /\ bp < end /\ end \in Nat /\ bp \in Units /\ b \in Units /\ h \in Heap
  BY TilingTypes, UnitsAreNaturals DEF Tiling
<1>2. b \in Nat /\ e \in Nat /\ Outside(end, b, e)
  BY <1>1, BordersAreOutside
<1>3. h.hdr[bp].size = end - bp
  BY <1>1
<1> HIDE DEF end
<1>4. Retagged(hu, h) /\ Spares(hu, h, b, e)
  <2> HIDE DEF e
  <2> QED BY <1>1, <1>2, SetTagRetags, SetTagSpares
<1>5. mm_free(h, bp) = coalesce(n, bp).heap
  <2>1. hu = SetTag(h, NEXT_BLKP(h, bp), FALSE)
    BY DEF hu, end
  <2>2. mm_free(h, bp) = coalesce(PutWithTag(hu, bp, end - bp, FALSE), bp).heap
    BY <1>3, <2>1 DEF mm_free
  <2> QED BY <2>2 DEF PutWithTag
<1> HIDE DEF hu
<1>6. /\ Tiling(hu, B) /\ end = NEXT_BLKP(hu, bp) /\ e = NEXT_BLKP(hu, b) /\ hu.brk = h.brk
  <2>1. Tiling(hu, B)
    BY <1>4, RetaggedTiles
  <2> QED BY <1>1, <1>4, <2>1 DEF Retagged, NEXT_BLKP, end
<1>7. tag \in BOOLEAN
  BY <1>6, TagIsBoolean
<1> HIDE DEF tag
<1>8. Spares(n, hu, b, e)
  BY <1>1, <1>6, <1>7, JoinSpares
<1>9. bp \in Joined(B, bp, end) /\ JoinedInto(n, Joined(B, bp, end), hu, bp, end, FALSE, tag)
  <2>1. bp <= bp
    BY <1>1
  <2> HIDE DEF n
  <2> QED BY <1>1, <1>6, <1>7, <2>1, JoinTiles DEF n, Joined
<1> HIDE DEF n
<1>10. b \in Joined(B, bp, end) /\ NEXT_BLKP(n, b) = e
  <2>1. b <= bp \/ end <= b
    BY <1>1, <1>6, TilingTypes, UnitsAreNaturals
  <2>2. b \in Joined(B, bp, end)
    BY <2>1 DEF Joined
  <2>3. CASE b = bp
    BY <1>6, <1>9, <2>3 DEF JoinedInto
  <2>4. CASE b # bp
    <3>1. n.hdr[b] = hu.hdr[b]
      BY <1>1, <1>9, <2>4 DEF JoinedInto
    <3> QED BY <1>6, <2>2, <3>1 DEF NEXT_BLKP
  <2> QED BY <2>2, <2>3, <2>4
<1> HIDE DEF e
<1>11. Spares(coalesce(n, bp).heap, n, b, e)
  BY <1>9, <1>10, CoalesceSpares DEF JoinedInto
<1>12. Spares(coalesce(n, bp).heap, h, b, e)
  BY <1>4, <1>8, <1>11, SparesNext
<1> QED BY <1>5, <1>12 DEF e

\* A step that resized the block at new.bp spared the block at b, and does not end in it.
SparesAt(new, h, b) ==
    /\ Spares(new.heap, h, b, NEXT_BLKP(h, b))
    /\ Outside(NEXT_BLKP(new.heap, new.bp), b, NEXT_BLKP(h, b))

\* A resized block keeps its words, and those of the blocks outside it.
LEMMA ResizedSpares ==
    ASSUME NEW h \in Heap, NEW first \in Nat, NEW size \in Nat, first \in Units, size > 0,
           first + size <= MAX_HEAP, NEW g, NEW b \in Nat, NEW e, e = NEXT_BLKP(g, b), e \in Nat,
           Outside(first, b, e), Outside(first + size, b, e), Spares(h, g, b, e),
           NEW new, new = Resized(h, first, size)
    PROVE  SparesAt(new, g, b) /\ new.bp = first
<1> DEFINE n == PutBlock(h, first, size, TRUE, FALSE)
<1>1. size \in 0 .. MAX_HEAP /\ first + size - 1 \in Units
  BY UnitsAssumption DEF Units
<1>2. Written(n, h, first, size, TRUE, FALSE) /\ Spares(n, h, b, e)
  BY <1>1, PutBlockWrites, PutSpares
<1>3. new.heap = n /\ new.bp = first
  BY DEF Resized
<1> HIDE DEF n
<1>4. NEXT_BLKP(n, first) = first + size
  BY <1>2 DEF Written, NEXT_BLKP
<1>5. Spares(n, g, b, e)
  BY <1>2, SparesNext
<1> QED BY <1>3, <1>4, <1>5 DEF SparesAt

\* A block that grows into the free ones after it spares the others, unless it overgrows.
LEMMA GrowNextSpares ==
    ASSUME NEW h, NEW B, HeapOK(h, B), NEW bp \in Allocated(h, B), bp # heap_listp,
           NEW missing \in Nat \ {0}, NEW body, body = h.hdr[bp].size + missing,
           NEW end, end = NEXT_BLKP(h, bp) + extend_heap_recycle(h, bp, missing),
           NEW new, new = GrowNext(h, bp, missing), new.bp # NULL,
           NEW b \in B, b = bp \/ ~(end < bp + body /\ end < h.brk)
    PROVE  SparesAt(new, h, b) /\ new.bp = bp
<1> DEFINE recycled == extend_heap_recycle(h, bp, missing)
           room == h.hdr[bp].size + recycled
           lacking == h.hdr[bp].size + missing - room
           extendsize == IF lacking > CHUNKSIZE THEN lacking ELSE CHUNKSIZE
           at == extend_heap(h, extendsize)
           e == NEXT_BLKP(h, b)
<1>1. Tiling(h, B) /\ bp \in B /\ h \in Heap
  BY DEF HeapOK, Allocated, Tiling
<1>2. /\ bp \in Nat /\ bp \in Units /\ h.hdr[bp].size \in Nat /\ NEXT_BLKP(h, bp) = bp + h.hdr[bp].size
      /\ NEXT_BLKP(h, bp) \in Nat
  BY <1>1, TilingTypes, UnitsAreNaturals
<1>3. PICK last : Run(h, B, bp, last, end)
  BY <1>1, RecycleRun
<1>4. end \in B \cup {h.brk} /\ end \in Nat /\ bp < end /\ end <= h.brk /\ h.brk \in Nat /\ h.brk <= MAX_HEAP
  <2>1. last \in B /\ bp <= last /\ end = NEXT_BLKP(h, last)
    BY <1>3 DEF Run
  <2>2. last \in Nat /\ last < end /\ end \in B \cup {h.brk} /\ end <= h.brk
    BY <1>1, <2>1, TilingTypes, UnitsAreNaturals
  <2>3. h.brk \in Nat /\ h.brk <= MAX_HEAP /\ end \in Nat
    BY <1>1, <2>2, TilingTypes, UnitsAreNaturals
  <2> QED BY <1>2, <2>1, <2>2, <2>3
<1>5. recycled = end - NEXT_BLKP(h, bp) /\ NEXT_BLKP(h, bp) <= end
  <2>1. bp < end /\ (end \in B => NEXT_BLKP(h, bp) <= end) /\ NEXT_BLKP(h, bp) <= h.brk
    BY <1>1, <1>4, TilingTypes
  <2>2. NEXT_BLKP(h, bp) <= end
    BY <1>2, <1>4, <2>1
  <2> QED BY <1>1, <2>2, RecycleRun
<1> HIDE DEF recycled
<1>6. room = end - bp /\ room \in Nat /\ room > 0 /\ lacking = bp + body - end /\ body \in Nat
  BY <1>2, <1>4, <1>5
<1>7. new = IF lacking <= 0 THEN Resized(h, bp, room)
            ELSE ResizedUnlessNull(at, bp, room + extendsize)
  BY DEF GrowNext, recycled
<1>8. /\ b \in Nat /\ e \in Nat /\ e <= h.brk /\ Outside(bp, b, e) /\ Outside(end, b, e)
      /\ b = bp => e <= end
  BY <1>1, <1>4, <1>5, BordersAreOutside
<1> HIDE DEF room, lacking, e
<1>9. CASE lacking <= 0
  <2>1. new = Resized(h, bp, room) /\ bp + room = end
    BY <1>2, <1>4, <1>6, <1>7, <1>9
  <2>2. Spares(h, h, b, e)
    BY SameWordsSpare
  <2>3. bp + room <= MAX_HEAP /\ Outside(bp + room, b, e)
    BY <1>4, <1>8, <2>1, UnitsAssumption
  <2> QED BY <1>1, <1>2, <1>6, <1>8, <2>1, <2>2, <2>3, ResizedSpares DEF e
<1>10. CASE ~(lacking <= 0)
  <2>1. extendsize \in Nat \ {0} /\ lacking > 0
    BY <1>2, <1>4, <1>6, <1>10, UnitsAssumption
  <2>2. Spares(at.heap, h, b, e)
    BY <2>1, ExtendSpares DEF e
  <2>3. at = [heap |-> h, bp |-> NULL] \/ \E C : ExtendedBy(at, C, h, B, extendsize)
    BY <2>1, ExtendHeapKeeps
  <2>4. new = ResizedUnlessNull(at, bp, room + extendsize)
    BY <1>7, <1>10
  <2> HIDE DEF at, extendsize
  <2>5. at.bp # NULL
    BY <2>4 DEF ResizedUnlessNull
  <2>6. new = Resized(at.heap, bp, room + extendsize)
    BY <2>4, <2>5 DEF ResizedUnlessNull
  <2>7. PICK C : ExtendedBy(at, C, h, B, extendsize)
    BY <2>3, <2>5
  <2>8. at.heap \in Heap /\ at.heap.brk = h.brk + extendsize /\ at.heap.brk \in Nat /\ at.heap.brk <= MAX_HEAP
    <3>1. at.heap.brk = h.brk + extendsize /\ Tiling(at.heap, C)
      BY <2>7 DEF ExtendedBy, NewFree, HeapOK
    <3>2. at.heap \in Heap
      BY <3>1 DEF Tiling
    <3>3. at.heap.brk \in Nat /\ at.heap.brk <= MAX_HEAP
      BY <3>1, TilingTypes, UnitsAreNaturals
    <3> QED BY <3>1, <3>2, <3>3
  <2>9. end < bp + body
    BY <1>2, <1>4, <1>6, <2>1
  <2>10. bp + (room + extendsize) = end + extendsize /\ room + extendsize \in Nat /\ room + extendsize > 0
         /\ bp + (room + extendsize) <= MAX_HEAP
    <3>1. bp \in Nat /\ room \in Nat /\ extendsize \in Nat /\ room > 0 /\ room = end - bp /\ end \in Nat
      BY <1>2, <1>4, <1>6, <2>1
    <3>2. h.brk + extendsize <= MAX_HEAP /\ end <= h.brk /\ h.brk \in Nat
      BY <1>4, <2>8
    <3> QED BY <3>1, <3>2, UnitsAssumption
  <2>11. e <= end + extendsize
    <3>1. b = bp \/ ~(end < h.brk)
      BY <2>9
    <3>2. e <= end
      BY <1>4, <1>8, <3>1
    <3> QED BY <1>4, <1>8, <2>1, <3>2
  <2>12. Outside(bp + (room + extendsize), b, e)
    BY <2>10, <2>11 DEF Outside
  <2> QED BY <1>2, <1>8, <2>2, <2>6, <2>8, <2>10, <2>12, ResizedSpares DEF e
<1> QED BY <1>9, <1>10

\* Another place: the payload is copied and the old block freed.
LEMMA MovesSpares ==
    ASSUME NEW h, NEW B, HeapOK(h, B), NEW bp \in Allocated(h, B), bp # heap_listp,
           NEW body \in Nat, body >= 2, NEW new, new = FreeUnlessNull(MoveTo(h, body), bp),
           new.bp # NULL, NEW b \in Allocated(h, B)
    PROVE  new.bp # bp /\ (b # bp => SparesAt(new, h, b))
<1> DEFINE at == MoveTo(h, body)
           size == ALIGNMENT * body - DSIZE
           e == NEXT_BLKP(h, b)
<1>1. /\ at = mm_malloc(h, size) /\ size \in Nat \ {0} /\ AdjustedSize(size) = body
  BY BodyIsAdjusted DEF MoveTo, ALIGNMENT, DSIZE
<1>2. Spares(at.heap, h, b, e)
  BY <1>1, MallocSpares
<1> HIDE DEF at, size
<1>3. at.bp # NULL /\ new.bp = at.bp /\ new.heap = mm_free(at.heap, bp)
  BY DEF FreeUnlessNull, at
<1>4. PICK D : PlacedAt(at.heap, D, h, B, at.bp, body)
  <2>1. body \in Nat \ {0}
    OBVIOUS
  <2> QED BY <1>1, <1>3, <2>1, MmMallocKeeps
<1>5. /\ HeapOK(at.heap, D) /\ Tiling(at.heap, D) /\ at.bp \notin Allocated(h, B)
      /\ Allocated(at.heap, D) = Allocated(h, B) \cup {at.bp}
      /\ \A c \in Allocated(h, B) : at.heap.hdr[c].size = h.hdr[c].size
  BY <1>4 DEF PlacedAt, HeapOK
<1>6. new.bp # bp
  BY <1>3, <1>5
<1>7. bp \in D /\ b \in D /\ NEXT_BLKP(at.heap, b) = e
  BY <1>5 DEF Allocated, NEXT_BLKP
<1> HIDE DEF e
<1>8. Spares(new.heap, h, b, e)
  <2>1. Spares(mm_free(at.heap, bp), at.heap, b, e)
    BY <1>5, <1>7, FreeSpares
  <2> QED BY <1>2, <1>3, <2>1, SparesNext
<1>9. ASSUME b # bp PROVE Outside(NEXT_BLKP(new.heap, new.bp), b, e)
  <2>1. bp \in Allocated(at.heap, D)
    BY <1>5
  <2>2. PICK C : FreedAt(mm_free(at.heap, bp), C, at.heap, D, bp)
    BY <1>5, <2>1, MmFreeKeeps
  <2>3. /\ Tiling(new.heap, C) /\ new.bp \in Allocated(new.heap, C) /\ b \in Allocated(new.heap, C)
        /\ new.heap.hdr[b].size = at.heap.hdr[b].size
    BY <1>3, <1>5, <1>6, <1>9, <2>2 DEF FreedAt, HeapOK
  <2>4. new.bp \in C /\ b \in C /\ NEXT_BLKP(new.heap, b) = e
    BY <1>7, <2>3 DEF Allocated, NEXT_BLKP
  <2>5. NEXT_BLKP(new.heap, new.bp) \in C \cup {new.heap.brk}
    BY <2>3, <2>4, TilingTypes
  <2> QED BY <2>3, <2>4, <2>5, BordersAreOutside
<1> QED BY <1>6, <1>8, <1>9 DEF SparesAt, e

\* The same of each way of mm_realloc.
LEMMA GrownBlockSpares ==
    ASSUME NEW h, NEW B, HeapOK(h, B), NEW bp \in Allocated(h, B), bp # heap_listp,
           NEW body \in Nat, body >= 2, NEW new, new = GrownBlock(h, bp, body), new.bp # NULL,
           NEW b \in Allocated(h, B), b = bp \/ ~TooLittle(h, bp, body)
    PROVE  IF b = bp /\ Moves(h, bp, body) THEN new.bp # bp ELSE SparesAt(new, h, b)
<1> DEFINE prev == PREV_BLKP(h, bp)
           e == NEXT_BLKP(h, b)
           end == NEXT_BLKP(h, bp)
<1>1. Tiling(h, B) /\ bp \in B /\ h \in Heap /\ b \in B
  BY DEF HeapOK, Allocated, Tiling
<1>2. /\ bp \in Nat /\ bp \in Units /\ h.hdr[bp].size \in Nat /\ h.hdr[bp].size > 0
      /\ end = bp + h.hdr[bp].size /\ end \in Nat /\ end <= MAX_HEAP /\ end \in B \cup {h.brk}
  BY <1>1, TilingTypes, UnitsAreNaturals
<1>3. /\ b \in Nat /\ e \in Nat /\ \A x \in B \cup {h.brk} : Outside(x, b, e)
  BY <1>1, BordersAreOutside
<1>4. Spares(h, h, b, e)
  BY SameWordsSpare
<1>5. CASE TakesNext(h, bp, body)
  <2> DEFINE missing == body - h.hdr[bp].size
             last == EndOfRun(h, bp, body)
  <2>1. ~TakesPrev(h, bp, body) /\ ~Moves(h, bp, body)
    BY <1>5 DEF TakesPrev, Moves
  <2>2. new = GrowNext(h, bp, missing)
    BY <1>5, <2>1 DEF GrownBlock
  <2>3. missing \in Nat \ {0} /\ body = h.hdr[bp].size + missing
    BY <1>2, <1>5 DEF TakesNext
  <2>4. last = NEXT_BLKP(h, bp) + extend_heap_recycle(h, bp, missing)
    BY DEF EndOfRun
  <2>5. b = bp \/ ~(last < bp + body /\ last < h.brk)
    BY <1>5 DEF TooLittle
  <2> HIDE DEF missing, last
  <2>6. SparesAt(new, h, b)
    BY <1>1, <2>2, <2>3, <2>4, <2>5, GrowNextSpares
  <2> QED BY <2>1, <2>6
<1>6. CASE TakesPrev(h, bp, body)
  <2>1. ~TakesNext(h, bp, body) /\ ~Moves(h, bp, body)
    BY <1>6 DEF TakesPrev, Moves
  <2>2. prev \in B /\ NEXT_BLKP(h, prev) = bp
    BY <1>1, BlockBefore
  <2> DEFINE size == h.hdr[prev].size + h.hdr[bp].size
  <2>3. new = Resized(h, prev, size)
    BY <1>6, <2>1 DEF GrownBlock
  <2> HIDE DEF prev
  <2>4. prev \in Nat /\ prev \in Units /\ h.hdr[prev].size \in Nat /\ bp = prev + h.hdr[prev].size
    BY <1>1, <2>2, TilingTypes, UnitsAreNaturals
  <2>5. size \in Nat /\ size > 0 /\ prev + size = end
    BY <1>2, <2>4
  <2> HIDE DEF size, e, end
  <2>6. SparesAt(new, h, b)
    BY <1>1, <1>2, <1>3, <1>4, <2>2, <2>3, <2>4, <2>5, ResizedSpares DEF e
  <2> QED BY <2>1, <2>6
<1>7. CASE Moves(h, bp, body)
  <2>1. ~TakesNext(h, bp, body) /\ ~TakesPrev(h, bp, body)
    BY <1>7 DEF Moves
  <2>2. new = FreeUnlessNull(MoveTo(h, body), bp)
    BY <1>7, <2>1 DEF GrownBlock
  <2>3. new.bp # bp /\ (b # bp => SparesAt(new, h, b))
    BY <2>2, MovesSpares
  <2> QED BY <1>7, <2>3
<1>8. CASE ~TakesNext(h, bp, body) /\ ~TakesPrev(h, bp, body) /\ ~Moves(h, bp, body)
  <2>1. new = [heap |-> h, bp |-> bp]
    BY <1>8 DEF GrownBlock
  <2>2. new.heap = h /\ new.bp = bp
    BY <2>1
  <2>3. SparesAt(new, h, b)
    BY <1>2, <1>3, <1>4, <2>2 DEF SparesAt
  <2> QED BY <1>8, <2>3
<1> QED BY <1>5, <1>6, <1>7, <1>8

\* mm_realloc writes into no other payload unless it overgrows, and never into the payload
\* that stays where it is.
LEMMA ReallocSpares ==
    ASSUME NEW h, NEW B, HeapOK(h, B), NEW bp \in Allocated(h, B), bp # heap_listp,
           NEW size \in Nat \ {0}, NEW new, new = mm_realloc(h, bp, size), new.bp # NULL,
           NEW b \in Allocated(h, B), b = bp \/ ~TooLittle(h, bp, BodySize(size))
    PROVE  IF b = bp /\ Moves(h, bp, BodySize(size)) THEN new.bp # bp
           ELSE Spares(new.heap, h, b, NEXT_BLKP(h, b))
<1> DEFINE body == BodySize(size)
           at == GrownBlock(h, bp, body)
           n == TagNext(at.heap, at.bp, body)
           x == NEXT_BLKP(at.heap, at.bp)
           e == NEXT_BLKP(h, b)
<1>1. body \in Nat /\ body >= 2
  BY BodyIsEnough
<1>2. new = TagUnlessNull(at, body)
  BY DEF mm_realloc
<1>3. at.bp # NULL
  BY <1>2 DEF TagUnlessNull
<1>4. at = [heap |-> at.heap, bp |-> at.bp]
  BY <1>3, GrownIsRecord
<1>5. GrownAt(at, h, B, bp, body)
  BY <1>1, <1>3, GrownBlockKeeps DEF Refused
<1>6. IF b = bp /\ Moves(h, bp, body) THEN at.bp # bp ELSE SparesAt(at, h, b)
  BY <1>1, <1>3, GrownBlockSpares
<1>7. at.heap \in Heap /\ x \in Units
  BY <1>5 DEF GrownAt, Framed
<1> HIDE DEF at, body
<1>8. new.bp = at.bp /\ new.heap = n
  <2>1. new = [at EXCEPT !.heap = n]
    BY <1>2, <1>3 DEF TagUnlessNull
  <2> HIDE DEF n
  <2> QED BY <1>4, <2>1
<1>9. ASSUME SparesAt(at, h, b) PROVE Spares(n, h, b, e)
  <2>1. b \in Nat /\ e \in Nat
    BY BordersAreOutside DEF HeapOK, Allocated
  <2>2. Spares(at.heap, h, b, e) /\ Outside(x, b, e)
    BY <1>9 DEF SparesAt
  <2>3. n = at.heap \/ n = SetTag(at.heap, x, TRUE)
    BY DEF TagNext
  <2> HIDE DEF n, x, e
  <2>4. Spares(SetTag(at.heap, x, TRUE), at.heap, b, e)
    BY <1>7, <2>1, <2>2, SetTagSpares
  <2> QED BY <2>2, <2>3, <2>4, SparesNext
<1> HIDE DEF n, e
<1> QED BY <1>6, <1>8, <1>9 DEF body, e

\* A heap is a twin of itself.
LEMMA TilingIsItsTwin ==
    ASSUME NEW h, NEW B, Tiling(h, B)
    PROVE  Twin(h, h, B)
BY DEF Twin

\* A block that mm_realloc gives ends before the break, even one that overgrew.
LEMMA ReallocEnds ==
    ASSUME NEW h, NEW B, HeapOK(h, B), NEW bp \in Allocated(h, B), bp # heap_listp,
           NEW size \in Nat \ {0}, NEW new, new = mm_realloc(h, bp, size), new.bp # NULL
    PROVE  new.bp \in Nat /\ new.heap.brk \in Nat /\ new.bp + BodySize(size) <= new.heap.brk
<1> DEFINE body == BodySize(size)
           end == EndOfRun(h, bp, body)
<1>1. Tiling(h, B) /\ SearchOK(h, B) /\ Twin(h, h, B)
  BY TilingIsItsTwin DEF HeapOK
<1>2. TwinGrownBlock(new, new, h, bp, body)
  BY <1>1, TwinRealloc
<1>3. body \in Nat
  BY BodyIsEnough
<1>4. h.brk \in Nat /\ bp \in Nat
  BY <1>1, BordersAreOutside DEF Allocated
<1> HIDE DEF body
<1>5. CASE TooLittle(h, bp, body)
  <2>1. new.bp = bp /\ Overgrown(new, h, bp, end, body)
    BY <1>2, <1>5 DEF TwinGrownBlock
  <2>2. PICK x \in Nat : new.heap.brk = h.brk + x /\ bp + body <= end + x
    BY <2>1 DEF Overgrown
  <2>3. end \in Nat /\ end < h.brk
    <3>1. end < h.brk
      BY <1>5 DEF TooLittle
    <3>2. PICK last : Run(h, B, bp, last, end)
      BY <1>1, RecycleRun DEF Allocated, EndOfRun
    <3>3. end \in Nat
      BY <1>1, <3>2, TilingTypes, UnitsAreNaturals DEF Run
    <3> QED BY <3>1, <3>3
  <2> HIDE DEF end
  <2>4. bp + body <= h.brk + x
    BY <1>3, <1>4, <2>2, <2>3
  <2>5. h.brk + x \in Nat
    BY <1>4
  <2> QED BY <1>4, <2>1, <2>2, <2>4, <2>5 DEF body
<1>6. CASE ~TooLittle(h, bp, body)
  <2>1. SameResult(new, new) /\ body <= new.heap.hdr[new.bp].size
    BY <1>2, <1>6 DEF TwinGrownBlock
  <2>2. PICK C : Tiling(new.heap, C) /\ new.bp \in C
    BY <2>1 DEF SameResult, Twin
  <2>3. /\ new.bp \in Nat /\ new.heap.brk \in Nat /\ new.heap.hdr[new.bp].size \in Nat
        /\ new.bp + new.heap.hdr[new.bp].size <= new.heap.brk
    BY <2>2, TilingTypes, UnitsAreNaturals
  <2>4. new.bp + body <= new.heap.brk
    BY <1>3, <2>1, <2>3
  <2> QED BY <2>3, <2>4 DEF body
<1> QED BY <1>5, <1>6

\* What leaves the heap sound did not overgrow.
LEMMA SoundDidNotOvergrow ==
    ASSUME NEW h, NEW B, NEW l, SoundAs(h, B, l), NEW r \in l, NEW size \in Nat \ {0},
           NEW new, new = mm_realloc(h, r.ptr, size), new.bp # NULL,
           NEW n, n = Fill(new.heap, new.bp, size),
           NEW D, SoundAs(n, D, (l \ {r}) \cup {[ptr |-> new.bp, size |-> size]})
    PROVE  ~TooLittle(h, r.ptr, BodySize(size))
<1> DEFINE body == BodySize(size)
           bp == r.ptr
<1>1. HeapOK(h, B) /\ SearchOK(h, B) /\ Twin(h, h, B) /\ bp \in Allocated(h, B) /\ bp # heap_listp
  BY TilingIsItsTwin DEF SoundAs, HeapOK, LiveOK
<1>2. body \in Nat
  BY BodyIsEnough
<1>3. TwinGrownBlock(new, new, h, bp, body)
  BY <1>1, TwinRealloc
<1>4. new.heap \in Heap
  BY <1>1, MmReallocKeeps DEF Refused, ReallocatedAt, Framed
<1> HIDE DEF body
<1>5. ASSUME TooLittle(h, bp, body) PROVE FALSE
  <2>1. new.bp = bp /\ Overgrown(new, h, bp, EndOfRun(h, bp, body), body)
    BY <1>3, <1>5 DEF TwinGrownBlock
  <2> QED BY <1>2, <1>4, <1>5, <2>1, OvergrownIsUnsound
<1> QED BY <1>5 DEF body
=============================================================================
