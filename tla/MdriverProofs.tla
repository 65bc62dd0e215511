--------------------------- MODULE MdriverProofs ----------------------------
(***************************************************************************)
(* The malloc driver, for heaps of any size and any legal traces: the list *)
(* of ranges is that of the payloads, the replays after the checked one    *)
(* repeat it whatever it left in memory, and the utilization is at most 1. *)
(***************************************************************************)
EXTENDS Mdriver, MmHeapProofs, SequenceTheorems, FiniteSetTheorems

-----------------------------------------------------------------------------
(* One request of a trace, on a heap that holds the payloads in l. *)

CallOn(h, o, bp) ==
    CASE o.type = "a" -> mm_malloc(h, o.size)
      [] o.type = "r" -> mm_realloc(h, bp, o.size)
      [] o.type = "f" -> [heap |-> mm_free(h, bp), bp |-> bp]

AfterCall(o, new) == IF o.type = "f" THEN new.heap ELSE Fill(new.heap, new.bp, o.size)

Asks(l, o, bp) ==
    /\ o \in Request
    /\ o.type # "f" => o.size > 0
    /\ o.type # "a" => \E r \in l : r.ptr = bp
KeptBy(l, o, bp) == IF o.type = "a" THEN l ELSE {r \in l : r.ptr # bp}
LiveBy(l, o, bp, new) ==
    KeptBy(l, o, bp) \cup IF o.type = "f" THEN {} ELSE {[ptr |-> new, size |-> o.size]}

\* What a request that is no free changes when it moves or grows a block: nothing
\* but in the two ways of Spoils.
SpoiltBy(h, o, bp) == o.type = "r" /\ Spoils(h, bp, BodySize(o.size))

RequestIsRight(new, h, l, o, bp) ==
    /\ new.heap \in Heap
    /\ new.bp # NULL =>
        /\ new.bp \in Units /\ Framed(AfterCall(o, new))
        /\ o.type = "f" => new.bp = bp
        /\ o.type # "f" => \A s \in KeptBy(l, o, bp) : s.ptr # new.bp
        /\ ~SpoiltBy(h, o, bp) => \E D : SoundAs(AfterCall(o, new), D, LiveBy(l, o, bp, new.bp))

LEMMA MallocIsRight ==
    ASSUME NEW h, NEW B, NEW l, SoundAs(h, B, l), NEW o, NEW bp, Asks(l, o, bp), o.type = "a",
           NEW new, new = CallOn(h, o, bp)
    PROVE  RequestIsRight(new, h, l, o, bp)
<1> DEFINE n == AfterCall(o, new)
           size == o.size
           k == LiveBy(l, o, bp, new.bp)
<1>1. size \in Nat \ {0}
  BY DEF Asks, Request
<1>2. new = mm_malloc(h, size) /\ n = Fill(new.heap, new.bp, size) /\ KeptBy(l, o, bp) = l
      /\ k = l \cup {[ptr |-> new.bp, size |-> size]}
  BY DEF CallOn, AfterCall, KeptBy, LiveBy
<1>3. HeapOK(h, B) /\ LiveOK(h, B, l)
  BY DEF SoundAs
<1> HIDE DEF n, size, k
<1>4. AdjustedSize(size) \in Nat \ {0}
  BY <1>1, AdjustedSizeIsEnough
<1>5. \/ new.bp = NULL /\ HeapOK(new.heap, B)
      \/ \E D : PlacedAt(new.heap, D, h, B, new.bp, AdjustedSize(size))
  BY <1>2, <1>3, <1>4, MmMallocKeeps
<1>6. new.heap \in Heap
  BY <1>5 DEF PlacedAt, HeapOK, Tiling
<1>7. ASSUME new.bp # NULL
      PROVE  /\ new.bp \in Units /\ Framed(n)
             /\ \A s \in l : s.ptr # new.bp
             /\ \E D : SoundAs(n, D, k)
  <2>1. PICK C : PlacedAt(new.heap, C, h, B, new.bp, AdjustedSize(size))
    BY <1>5, <1>7
  <2>2. new.bp \in Units
    <3>1. new.bp \in C /\ Tiling(new.heap, C)
      BY <2>1 DEF PlacedAt, HeapOK, Allocated
    <3> QED BY <3>1 DEF Tiling
  <2>3. \A s \in l : s.ptr # new.bp
    BY <1>3, <2>1 DEF PlacedAt, LiveOK
  <2>4. n = HeapAfter(new, size) /\ k = LiveAfter(new, size, l, l)
    BY <1>2, <1>7 DEF HeapAfter, LiveAfter
  <2>5. PICK D : SoundAs(n, D, k)
    BY <1>1, <1>2, <2>4, MallocGives
  <2>6. Framed(n)
    BY <2>5, SoundIsFramed DEF SoundAs
  <2> QED BY <2>2, <2>3, <2>5, <2>6
<1>8. o.type # "f"
  OBVIOUS
<1> QED BY <1>2, <1>6, <1>7, <1>8 DEF RequestIsRight, n, k

LEMMA ReallocIsRight ==
    ASSUME NEW h, NEW B, NEW l, SoundAs(h, B, l), NEW o, NEW bp, Asks(l, o, bp), o.type = "r",
           NEW new, new = CallOn(h, o, bp)
    PROVE  RequestIsRight(new, h, l, o, bp)
<1> DEFINE n == AfterCall(o, new)
           size == o.size
           k == LiveBy(l, o, bp, new.bp)
<1>1. size \in Nat \ {0}
  BY DEF Asks, Request
<1>2. new = mm_realloc(h, bp, size) /\ n = Fill(new.heap, new.bp, size)
      /\ KeptBy(l, o, bp) = {r \in l : r.ptr # bp}
      /\ k = {r \in l : r.ptr # bp} \cup {[ptr |-> new.bp, size |-> size]}
  BY DEF CallOn, AfterCall, KeptBy, LiveBy
<1>3. HeapOK(h, B) /\ LiveOK(h, B, l)
  BY DEF SoundAs
<1>4. PICK r \in l : r.ptr = bp
  BY DEF Asks
<1>5. {s \in l : s.ptr # bp} = l \ {r}
  BY <1>3, <1>4 DEF LiveOK, Unique
<1>6. bp \in Allocated(h, B) /\ bp # heap_listp
  BY <1>3, <1>4 DEF LiveOK
<1> HIDE DEF n, size, k
<1>7. Refused(new, h, B) \/ ReallocatedAt(new, h, B, bp, size)
  BY <1>1, <1>2, <1>3, <1>6, MmReallocKeeps
<1>8. new.heap \in Heap
  BY <1>7 DEF Refused, HeapOK, Tiling, ReallocatedAt, Framed
<1>9. ASSUME new.bp # NULL
      PROVE  /\ new.bp \in Units /\ Framed(n)
             /\ \A s \in l \ {r} : s.ptr # new.bp
             /\ ~Spoils(h, bp, BodySize(size)) => \E D : SoundAs(n, D, k)
  <2>1. ReallocatedAt(new, h, B, bp, size)
    BY <1>7, <1>9 DEF Refused
  <2>2. \A s \in l \ {r} : s.ptr \in Allocated(h, B) \ {bp}
    BY <1>3, <1>4 DEF LiveOK, Unique
  <2>3. n = HeapAfter(new, size) /\ k = LiveAfter(new, size, l, l \ {r})
    BY <1>2, <1>5, <1>9 DEF HeapAfter, LiveAfter
  <2>4. Framed(n) /\ (~Spoils(h, bp, BodySize(size)) => \E D : SoundAs(n, D, k))
    BY <1>1, <1>2, <1>4, <2>3, ReallocGives
  <2> QED BY <2>1, <2>2, <2>4 DEF ReallocatedAt
<1>10. o.type # "f" /\ KeptBy(l, o, bp) = l \ {r}
  BY <1>2, <1>5
<1> QED BY <1>8, <1>9, <1>10 DEF RequestIsRight, n, k, SpoiltBy, size

LEMMA FreeIsRight ==
    ASSUME NEW h, NEW B, NEW l, SoundAs(h, B, l), NEW o, NEW bp, Asks(l, o, bp), o.type = "f",
           NEW new, new = CallOn(h, o, bp)
    PROVE  RequestIsRight(new, h, l, o, bp)
<1> DEFINE n == AfterCall(o, new)
           k == LiveBy(l, o, bp, new.bp)
<1>1. n = mm_free(h, bp) /\ new.bp = bp /\ new.heap = n /\ k = {r \in l : r.ptr # bp}
  BY DEF CallOn, AfterCall, KeptBy, LiveBy
<1>3. HeapOK(h, B) /\ LiveOK(h, B, l)
  BY DEF SoundAs
<1>4. PICK r \in l : r.ptr = bp
  BY DEF Asks
<1>5. {s \in l : s.ptr # bp} = l \ {r}
  BY <1>3, <1>4 DEF LiveOK, Unique
<1> HIDE DEF n, k
<1>6. PICK D : SoundAs(n, D, k)
  BY <1>1, <1>4, <1>5, FreeGives
<1>7. Framed(n)
  BY <1>6, SoundIsFramed DEF SoundAs
<1>8. bp \in Units
  BY <1>3, <1>4 DEF LiveOK, Payload
<1> QED BY <1>1, <1>6, <1>7, <1>8 DEF RequestIsRight, Framed, n, k

\* What the client may rely on after any request.
LEMMA RequestGives ==
    ASSUME NEW h, NEW B, NEW l, SoundAs(h, B, l), NEW o, NEW bp, Asks(l, o, bp),
           NEW new, new = CallOn(h, o, bp)
    PROVE  RequestIsRight(new, h, l, o, bp)
<1>1. o.type = "a" \/ o.type = "r" \/ o.type = "f"
  BY DEF Asks, Request
<1> QED BY <1>1, MallocIsRight, ReallocIsRight, FreeIsRight

\* The same request on a twin: the same pointer, the same break, and a twin if the
\* payload can be filled.
LEMMA TwinRequest ==
    ASSUME NEW h, NEW B, NEW l, SoundAs(h, B, l), NEW o, NEW bp, Asks(l, o, bp),
           NEW new, new = CallOn(h, o, bp), new.bp # NULL,
           NEW g, Twin(h, g, B), NEW gew, gew = CallOn(g, o, bp),
           NEW n, n = AfterCall(o, new)
    PROVE  /\ gew.bp = new.bp /\ gew.heap.brk = n.brk
           /\ \A D : SoundAs(n, D, LiveBy(l, o, bp, new.bp)) => Twin(n, gew.heap, D)
           /\ ~(o.type = "r" /\ Moves(g, bp, BodySize(o.size)) /\ MoveTo(g, BodySize(o.size)).bp = NULL)
<1> DEFINE size == o.size
           k == LiveBy(l, o, bp, new.bp)
<1>1. o.type = "a" \/ o.type = "r" \/ o.type = "f"
  BY DEF Asks, Request
<1>2. HeapOK(h, B) /\ LiveOK(h, B, l) /\ SearchOK(h, B)
  BY DEF SoundAs, HeapOK
<1>3. o.type # "f" => size \in Nat \ {0}
  BY DEF Asks, Request
<1>4. Fill(new.heap, new.bp, size).brk = new.heap.brk
  <2>1. new.heap \in Heap
    BY RequestGives DEF RequestIsRight
  <2> QED BY <2>1 DEF Fill, Heap
<1> HIDE DEF size, k
<1>5. CASE o.type = "a"
  <2>1. new = mm_malloc(h, size) /\ gew = mm_malloc(g, size) /\ n = Fill(new.heap, new.bp, size)
        /\ k = l \cup {[ptr |-> new.bp, size |-> size]}
    BY <1>5 DEF CallOn, AfterCall, KeptBy, LiveBy, size, k
  <2>2. SameResult(new, gew)
    BY <1>2, <1>3, <1>5, <2>1, TwinMalloc
  <2>3. PICK C : Twin(new.heap, gew.heap, C) /\ new.bp \in C
    BY <2>2 DEF SameResult
  <2>4. size + DSIZE <= ALIGNMENT * new.heap.hdr[new.bp].size
    <3>1. AdjustedSize(size) \in Nat \ {0}
      BY <1>3, <1>5, AdjustedSizeIsEnough
    <3>2. PICK D : PlacedAt(new.heap, D, h, B, new.bp, AdjustedSize(size))
      BY <1>2, <2>1, <3>1, MmMallocKeeps
    <3>3. AdjustedSize(size) <= new.heap.hdr[new.bp].size
      BY <3>2 DEF PlacedAt
    <3>4. new.heap.hdr[new.bp].size \in Nat
      BY <2>3, TilingTypes DEF Twin
    <3>5. size + DSIZE <= ALIGNMENT * AdjustedSize(size) /\ size \in Nat
      BY <1>3, <1>5, AdjustedSizeIsEnough
    <3> QED BY <3>1, <3>3, <3>4, <3>5 DEF ALIGNMENT, DSIZE
  <2>5. Twin(n, gew.heap, C)
    BY <1>3, <1>5, <2>1, <2>3, <2>4, TwinFill
  <2>6. ASSUME NEW D, SoundAs(n, D, k)
        PROVE  D = C
    BY <2>5, <2>6, BlocksOfTiling DEF SoundAs, HeapOK, Twin
  <2>7. gew.bp = new.bp /\ gew.heap.brk = new.heap.brk
    BY <2>2, <2>3 DEF SameResult, Twin
  <2>8. n.brk = new.heap.brk
    BY <1>4, <2>1
  <2> QED BY <1>5, <2>5, <2>6, <2>7, <2>8 DEF k
<1>6. CASE o.type = "r"
  <2>1. new = mm_realloc(h, bp, size) /\ gew = mm_realloc(g, bp, size)
        /\ n = Fill(new.heap, new.bp, size)
        /\ k = {r \in l : r.ptr # bp} \cup {[ptr |-> new.bp, size |-> size]}
    BY <1>6 DEF CallOn, AfterCall, KeptBy, LiveBy, size, k
  <2>2. PICK r \in l : r.ptr = bp
    BY <1>6 DEF Asks
  <2>3. {s \in l : s.ptr # bp} = l \ {r}
    BY <1>2, <2>2 DEF LiveOK, Unique
  <2>4. /\ gew.bp = new.bp /\ gew.heap.brk = new.heap.brk
        /\ \A D : SoundAs(n, D, (l \ {r}) \cup {[ptr |-> new.bp, size |-> size]})
                  => Twin(n, gew.heap, D)
    BY <1>3, <1>6, <2>1, <2>2, TwinReallocSound
  <2>5. n.brk = new.heap.brk
    BY <1>4, <2>1
  <2>6. ~(Moves(g, bp, BodySize(size)) /\ MoveTo(g, BodySize(size)).bp = NULL)
    BY <2>1, <2>4, MovesNowhere
  <2> QED BY <2>1, <2>3, <2>4, <2>5, <2>6 DEF k, size
<1>7. CASE o.type = "f"
  <2>1. n = mm_free(h, bp) /\ gew.heap = mm_free(g, bp) /\ new.bp = bp /\ gew.bp = bp
    BY <1>7 DEF CallOn, AfterCall
  <2>2. bp \in B /\ bp # heap_listp
    BY <1>2, <1>7 DEF Asks, LiveOK, Allocated
  <2>3. PICK C : Twin(n, gew.heap, C)
    BY <2>1, <2>2, TwinFree
  <2>4. ASSUME NEW D, SoundAs(n, D, k)
        PROVE  D = C
    BY <2>3, <2>4, BlocksOfTiling DEF SoundAs, HeapOK, Twin
  <2>5. gew.heap.brk = n.brk
    BY <2>3 DEF Twin
  <2> QED BY <1>7, <2>1, <2>3, <2>4, <2>5 DEF k
<1> QED BY <1>1, <1>5, <1>6, <1>7

-----------------------------------------------------------------------------
(* How much the payloads can be: intervals that do not meet, byte by byte. *)

Inside(p, s, L) == \A id \in Nat : s[id] > 0 => 0 <= p[id] /\ p[id] + s[id] <= L
Disjoint(p, s) ==
    \A id, j \in Nat :
        id # j /\ s[id] > 0 /\ s[j] > 0 => p[id] + s[id] <= p[j] \/ p[j] + s[j] <= p[id]

\* The bytes of the payloads, by index; as many as the sum of their sizes.
Bytes(s) == {x \in Nat \X Nat : x[2] < s[x[1]]}

\* Payloads that lie apart within a length have no larger sum.
LEMMA BytesFit ==
    ASSUME NEW p \in [Nat -> Int], NEW s \in [Nat -> Nat], NEW L \in Nat,
           Inside(p, s, L), Disjoint(p, s)
    PROVE  IsFiniteSet(Bytes(s)) /\ Cardinality(Bytes(s)) <= L
<1> DEFINE T == 0 .. (L - 1)
           f == [x \in Bytes(s) |-> p[x[1]] + x[2]]
<1>1. \A x \in Bytes(s) : x[1] \in Nat /\ x[2] \in Nat /\ x[2] < s[x[1]] /\ x = <<x[1], x[2]>>
  BY DEF Bytes
<1>2. \A id \in Nat : p[id] \in Int /\ s[id] \in Nat
  OBVIOUS
<1>3. ASSUME NEW x \in Bytes(s) PROVE f[x] = p[x[1]] + x[2] /\ f[x] \in T
  <2> DEFINE a == x[1]
             m == x[2]
  <2>1. a \in Nat /\ m \in Nat /\ m < s[a] /\ p[a] \in Int /\ s[a] \in Nat
    BY <1>1, <1>2
  <2>2. f[x] = p[a] + m
    OBVIOUS
  <2> HIDE DEF a, m, f
  <2>3. 0 <= p[a] /\ p[a] + s[a] <= L
    BY <2>1 DEF Inside
  <2> QED BY <2>1, <2>2, <2>3 DEF a, m
<1>4. ASSUME NEW x \in Bytes(s), NEW y \in Bytes(s), f[x] = f[y] PROVE x = y
  <2> DEFINE a == x[1]
             m == x[2]
             b == y[1]
             n == y[2]
  <2>1. /\ a \in Nat /\ m \in Nat /\ m < s[a] /\ p[a] \in Int /\ s[a] \in Nat
        /\ b \in Nat /\ n \in Nat /\ n < s[b] /\ p[b] \in Int /\ s[b] \in Nat
        /\ x = <<a, m>> /\ y = <<b, n>>
    BY <1>1, <1>2
  <2>2. p[a] + m = p[b] + n
    BY <1>3, <1>4
  <2> HIDE DEF a, b, m, n, f
  <2>3. a = b
    <3> SUFFICES ASSUME a # b PROVE FALSE
      OBVIOUS
    <3>1. s[a] > 0 /\ s[b] > 0
      BY <2>1
    <3>2. p[a] + s[a] <= p[b] \/ p[b] + s[b] <= p[a]
      BY <2>1, <3>1 DEF Disjoint
    <3> QED BY <2>1, <2>2, <3>2
  <2>4. m = n
    BY <2>1, <2>2, <2>3
  <2> QED BY <2>1, <2>3, <2>4
<1>5. f \in [Bytes(s) -> T]
  <2>1. \A x \in Bytes(s) : p[x[1]] + x[2] \in T
    BY <1>3
  <2> QED BY <2>1
<1> HIDE DEF f
<1>6. f \in Injection(Bytes(s), T)
  <2>1. DOMAIN f = Bytes(s)
    BY <1>5
  <2>2. IsInjective(f)
    BY <1>4, <2>1 DEF IsInjective
  <2> QED BY <1>5, <2>2 DEF Injection
<1>7. IsFiniteSet(T) /\ Cardinality(T) = IF 0 > L - 1 THEN 0 ELSE L - 1 - 0 + 1
  <2>1. 0 \in Int /\ L - 1 \in Int
    OBVIOUS
  <2> QED BY <2>1, FS_Interval
<1> HIDE DEF T
<1>8. IsFiniteSet(Bytes(s)) /\ Cardinality(Bytes(s)) <= Cardinality(T)
  BY <1>6, <1>7, FS_Injection
<1>9. Cardinality(T) = L
  BY <1>7
<1> QED BY <1>8, <1>9

\* The bytes of one payload.
LEMMA ColumnIs ==
    ASSUME NEW k, NEW n \in Nat
    PROVE  IsFiniteSet({k} \X (0 .. (n - 1))) /\ Cardinality({k} \X (0 .. (n - 1))) = n
<1>1. IsFiniteSet({k}) /\ Cardinality({k}) = 1
  BY FS_Singleton
<1> DEFINE T == 0 .. (n - 1)
<1>2. IsFiniteSet(T) /\ Cardinality(T) = IF 0 > n - 1 THEN 0 ELSE n - 1 - 0 + 1
  <2>1. 0 \in Int /\ n - 1 \in Int
    OBVIOUS
  <2> QED BY <2>1, FS_Interval
<1>3. Cardinality(T) = n
  BY <1>2
<1> HIDE DEF T
<1>4. IsFiniteSet({k} \X T) /\ Cardinality({k} \X T) = 1 * n
  BY <1>1, <1>2, <1>3, FS_Product
<1> QED BY <1>4 DEF T

\* A payload changes its size.
LEMMA BytesChange ==
    ASSUME NEW s \in [Nat -> Nat], NEW r \in [Nat -> Nat], NEW k \in Nat,
           \A j \in Nat : j # k => r[j] = s[j], IsFiniteSet(Bytes(s))
    PROVE  /\ IsFiniteSet(Bytes(r)) /\ Cardinality(Bytes(s)) \in Nat /\ Cardinality(Bytes(r)) \in Nat
           /\ Cardinality(Bytes(r)) = Cardinality(Bytes(s)) - s[k] + r[k]
<1> DEFINE old == {k} \X (0 .. (s[k] - 1))
           new == {k} \X (0 .. (r[k] - 1))
           rest == Bytes(s) \ old
<1>1. s[k] \in Nat /\ r[k] \in Nat
  OBVIOUS
<1>2. /\ IsFiniteSet(old) /\ Cardinality(old) = s[k]
      /\ IsFiniteSet(new) /\ Cardinality(new) = r[k]
  BY <1>1, ColumnIs
<1>3. \A x \in Nat \X Nat : x[1] = k => (x \in old <=> x[2] < s[k]) /\ (x \in new <=> x[2] < r[k])
  <2> TAKE x \in Nat \X Nat
  <2>1. x[2] \in Nat /\ x = <<x[1], x[2]>>
    OBVIOUS
  <2>2. x[1] = k => (x \in old <=> x[2] \in 0 .. (s[k] - 1)) /\ (x \in new <=> x[2] \in 0 .. (r[k] - 1))
    BY <2>1
  <2> HIDE DEF old, new
  <2>3. (x[2] \in 0 .. (s[k] - 1) <=> x[2] < s[k]) /\ (x[2] \in 0 .. (r[k] - 1) <=> x[2] < r[k])
    BY <1>1, <2>1
  <2> QED BY <2>2, <2>3
<1>4. \A x : x \in old \/ x \in new => x \in Nat \X Nat /\ x[1] = k
  BY <1>1
<1>5. old \subseteq Bytes(s)
  BY <1>3, <1>4 DEF Bytes
<1>6. Bytes(r) = rest \cup new
  <2>1. ASSUME NEW x \in Bytes(r) PROVE x \in rest \cup new
    <3>1. x \in Nat \X Nat /\ x[1] \in Nat /\ x[2] < r[x[1]]
      BY DEF Bytes
    <3>2. CASE x[1] = k
      <4>1. x \in new
        BY <1>3, <3>1, <3>2
      <4> QED BY <4>1
    <3>3. CASE x[1] # k
      <4>1. x \in Bytes(s)
        BY <3>1, <3>3 DEF Bytes
      <4>2. x \notin old
        BY <1>4, <3>3
      <4> QED BY <4>1, <4>2
    <3> QED BY <3>2, <3>3
  <2>2. ASSUME NEW x \in new PROVE x \in Bytes(r)
    BY <1>3, <1>4, <2>2 DEF Bytes
  <2>3. ASSUME NEW x \in rest PROVE x \in Bytes(r)
    <3>1. x \in Nat \X Nat /\ x[1] \in Nat /\ x[2] < s[x[1]] /\ x \notin old
      BY DEF Bytes
    <3>2. x[1] # k
      BY <1>3, <3>1
    <3> QED BY <3>1, <3>2 DEF Bytes
  <2> HIDE DEF rest, new
  <2> QED BY <2>1, <2>2, <2>3
<1>7. rest \cap new = {}
  <2>1. \A x \in rest : x \notin new
    <3> TAKE x \in rest
    <3>1. x \in Nat \X Nat /\ x[2] < s[x[1]] /\ x \notin old
      BY DEF Bytes
    <3> QED BY <1>3, <1>4, <3>1
  <2> HIDE DEF rest, new
  <2> QED BY <2>1
<1> HIDE DEF old, new
<1>8. IsFiniteSet(rest) /\ Cardinality(rest) = Cardinality(Bytes(s)) - Cardinality(Bytes(s) \cap old)
  BY FS_Difference
<1>9. Bytes(s) \cap old = old
  BY <1>5
<1> HIDE DEF rest
<1>10. IsFiniteSet(rest \cup new)
       /\ Cardinality(rest \cup new) = Cardinality(rest) + Cardinality(new) - Cardinality(rest \cap new)
  BY <1>2, <1>8, FS_Union
<1>11. Cardinality(rest \cap new) = 0
  BY <1>7, FS_EmptySet
<1>12. Cardinality(Bytes(s)) \in Nat /\ Cardinality(Bytes(r)) \in Nat
  BY <1>6, <1>10, FS_CardinalityType
<1>13. Cardinality(rest) = Cardinality(Bytes(s)) - s[k]
  BY <1>2, <1>8, <1>9
<1>14. Cardinality(Bytes(r)) = Cardinality(rest) + r[k]
  <2>1. Cardinality(Bytes(r)) = Cardinality(rest) + r[k] - 0
    BY <1>2, <1>6, <1>10, <1>11
  <2>2. Cardinality(rest) \in Nat
    BY <1>8, FS_CardinalityType
  <2> QED BY <1>1, <2>1, <2>2
<1>15. IsFiniteSet(Bytes(r))
  BY <1>6, <1>10
<1> QED BY <1>12, <1>13, <1>14, <1>15

\* No payload, no byte.
LEMMA NoBytes ==
    ASSUME NEW s, \A id \in Nat : s[id] = 0
    PROVE  IsFiniteSet(Bytes(s)) /\ Cardinality(Bytes(s)) = 0
<1>1. Bytes(s) = {}
  BY DEF Bytes
<1> QED BY <1>1, FS_EmptySet

\* Two allocated blocks of a list, and the end of the heap.
LEMMA SoundFits ==
    ASSUME NEW h, NEW B, NEW l, SoundAs(h, B, l)
    PROVE  /\ h.brk \in Nat
           /\ \A r \in l :
                /\ r.ptr \in Nat /\ r.ptr \in Allocated(h, B) \ {heap_listp} /\ r.size \in Nat
                /\ NEXT_BLKP(h, r.ptr) \in Nat /\ NEXT_BLKP(h, r.ptr) <= h.brk
                /\ 8 * r.ptr + r.size <= 8 * NEXT_BLKP(h, r.ptr)
                /\ \A q \in l : r.ptr < q.ptr => NEXT_BLKP(h, r.ptr) <= q.ptr
<1>1. Tiling(h, B) /\ LiveOK(h, B, l)
  BY DEF SoundAs, HeapOK
<1>2. h.brk \in Nat
  BY <1>1, TilingTypes, UnitsAreNaturals
<1>3. ASSUME NEW r \in l
      PROVE  /\ r.ptr \in Nat /\ r.ptr \in Allocated(h, B) \ {heap_listp} /\ r.size \in Nat
             /\ NEXT_BLKP(h, r.ptr) \in Nat /\ NEXT_BLKP(h, r.ptr) <= h.brk
             /\ 8 * r.ptr + r.size <= 8 * NEXT_BLKP(h, r.ptr)
             /\ \A q \in l : r.ptr < q.ptr => NEXT_BLKP(h, r.ptr) <= q.ptr
  <2>1. r.ptr \in Allocated(h, B) \ {heap_listp} /\ r.size \in Nat
        /\ r.size + DSIZE <= ALIGNMENT * h.hdr[r.ptr].size
    BY <1>1 DEF LiveOK, Payload
  <2>2. r.ptr \in B
    BY <2>1 DEF Allocated
  <2>3. /\ h.hdr[r.ptr].size \in Nat /\ NEXT_BLKP(h, r.ptr) = r.ptr + h.hdr[r.ptr].size
        /\ r.ptr \in Nat /\ NEXT_BLKP(h, r.ptr) <= h.brk
    BY <1>1, <2>2, TilingTypes, UnitsAreNaturals
  <2>4. NEXT_BLKP(h, r.ptr) \in Nat /\ 8 * r.ptr + r.size <= 8 * NEXT_BLKP(h, r.ptr)
    BY <2>1, <2>3 DEF DSIZE, ALIGNMENT
  <2>5. \A q \in l : q.ptr \in B
    BY <1>1 DEF LiveOK, Allocated
  <2>6. \A q \in l : r.ptr < q.ptr => NEXT_BLKP(h, r.ptr) <= q.ptr
    BY <1>1, <2>2, <2>5, TilingTypes
  <2> QED BY <2>1, <2>3, <2>4, <2>6
<1> QED BY <1>2, <1>3

\* The same of payloads given by their address and size.
LEMMA PayloadFits ==
    ASSUME NEW h, NEW B, NEW l, SoundAs(h, B, l), NEW b, NEW z, [ptr |-> b, size |-> z] \in l
    PROVE  /\ b \in Allocated(h, B)
           /\ NEXT_BLKP(h, b) \in Nat /\ NEXT_BLKP(h, b) <= h.brk
           /\ 8 * b + z <= 8 * NEXT_BLKP(h, b)
           /\ \A c, y : [ptr |-> c, size |-> y] \in l /\ b < c => NEXT_BLKP(h, b) <= c
<1> DEFINE r == [ptr |-> b, size |-> z]
<1>1. r \in l /\ r.ptr = b /\ r.size = z
  OBVIOUS
<1> HIDE DEF r
<1>2. /\ b \in Allocated(h, B)
      /\ NEXT_BLKP(h, b) \in Nat /\ NEXT_BLKP(h, b) <= h.brk
      /\ 8 * b + z <= 8 * NEXT_BLKP(h, b)
      /\ \A q \in l : b < q.ptr => NEXT_BLKP(h, b) <= q.ptr
  BY <1>1, SoundFits
<1>3. ASSUME NEW c, NEW y, [ptr |-> c, size |-> y] \in l, b < c PROVE NEXT_BLKP(h, b) <= c
  <2> DEFINE q == [ptr |-> c, size |-> y]
  <2>1. q \in l /\ q.ptr = c
    BY <1>3
  <2> HIDE DEF q
  <2> QED BY <1>2, <1>3, <2>1
<1> QED BY <1>2, <1>3

\* The break never moves back.
LEMMA RequestKeepsBreak ==
    ASSUME NEW h, NEW B, NEW l, SoundAs(h, B, l), NEW o, NEW bp, Asks(l, o, bp),
           NEW new, new = CallOn(h, o, bp), new.bp # NULL, NEW n, n = AfterCall(o, new)
    PROVE  h.brk \in Nat /\ n.brk \in Nat /\ h.brk <= n.brk /\ n.brk = new.heap.brk
<1>1. HeapOK(h, B) /\ h \in Heap /\ h.brk \in Nat
  BY SoundFits DEF SoundAs, HeapOK, Tiling
<1>2. RequestIsRight(new, h, l, o, bp)
  BY RequestGives
<1>3. n.brk = new.heap.brk
  BY <1>2 DEF RequestIsRight, AfterCall, Fill, Heap
<1>4. n.brk \in Nat
  BY <1>2, <1>3, UnitsAreNaturals DEF RequestIsRight, Heap
<1>5. CASE o.type = "a"
  <2>1. o.size \in Nat \ {0} /\ new = mm_malloc(h, o.size)
    BY <1>5 DEF Asks, Request, CallOn
  <2> QED BY <1>1, <1>3, <1>4, <2>1, MallocMovesBreak
<1>6. CASE o.type = "r"
  <2>1. o.size \in Nat \ {0} /\ new = mm_realloc(h, bp, o.size)
    BY <1>6 DEF Asks, Request, CallOn
  <2>2. bp \in Allocated(h, B) /\ bp # heap_listp
    BY <1>6 DEF Asks, SoundAs, LiveOK
  <2>3. IF Moves(h, bp, BodySize(o.size))
        THEN new.heap.brk \in Nat /\ h.brk <= new.heap.brk
        ELSE \E first, end : InPlace(h, B, bp, first, end) /\ Room(new, h, first, end, BodySize(o.size))
    BY <1>1, <2>1, <2>2, ReallocRoom
  <2>4. h.brk <= new.heap.brk
    BY <1>1, <2>3 DEF Room
  <2> QED BY <1>1, <1>3, <1>4, <2>4
<1>7. CASE o.type = "f"
  <2>1. "brk" \in DOMAIN h /\ n = mm_free(h, bp)
    BY <1>1, <1>7 DEF Heap, AfterCall, CallOn
  <2>2. n.brk = h.brk
    BY <2>1, FreeKeepsBreak DEF SameBreak
  <2> QED BY <1>1, <1>3, <2>2
<1> QED BY <1>5, <1>6, <1>7 DEF Asks, Request

\* The payloads that are live after a request, by index.
Spread(p, s, k) ==
    /\ p \in [Nat -> Units] /\ s \in [Nat -> Nat]
    /\ \A id \in Nat : s[id] > 0 => [ptr |-> p[id], size |-> s[id]] \in k
    /\ \A id, j \in Nat : id # j /\ s[id] > 0 /\ s[j] > 0 => p[id] # p[j]

\* The payloads of a sound heap have at most its size.
LEMMA SoundHolds ==
    ASSUME NEW h, NEW B, NEW l, SoundAs(h, B, l), NEW p, NEW s, Spread(p, s, l)
    PROVE  IsFiniteSet(Bytes(s)) /\ Cardinality(Bytes(s)) <= 8 * h.brk
<1> DEFINE q == [id \in Nat |-> 8 * p[id]]
<1>1. q \in [Nat -> Int] /\ s \in [Nat -> Nat] /\ 8 * h.brk \in Nat
  BY SoundFits, UnitsAreNaturals DEF Spread
<1>2. \A id \in Nat : s[id] > 0 => [ptr |-> p[id], size |-> s[id]] \in l
  BY DEF Spread
<1>3. \A id \in Nat : p[id] \in Nat /\ s[id] \in Nat /\ q[id] = 8 * p[id]
  BY UnitsAreNaturals DEF Spread
<1>4. \A id \in Nat : s[id] > 0 =>
        /\ NEXT_BLKP(h, p[id]) \in Nat /\ NEXT_BLKP(h, p[id]) <= h.brk
        /\ 8 * p[id] + s[id] <= 8 * NEXT_BLKP(h, p[id])
        /\ \A j \in Nat : s[j] > 0 /\ p[id] < p[j] => NEXT_BLKP(h, p[id]) <= p[j]
  BY <1>2, PayloadFits
<1>5. h.brk \in Nat
  BY SoundFits
<1> HIDE DEF q
<1>6. Inside(q, s, 8 * h.brk)
  BY <1>3, <1>4, <1>5 DEF Inside
<1>7. Disjoint(q, s)
  <2> SUFFICES ASSUME NEW id \in Nat, NEW j \in Nat, id # j, s[id] > 0, s[j] > 0
               PROVE  q[id] + s[id] <= q[j] \/ q[j] + s[j] <= q[id]
    BY DEF Disjoint
  <2>1. p[id] < p[j] \/ p[j] < p[id]
    BY <1>3 DEF Spread
  <2> QED BY <1>3, <1>4, <2>1
<1> QED BY <1>1, <1>6, <1>7, BytesFit

\* The payloads fit into the heap even after the request that spoils it.
LEMMA RequestFits ==
    ASSUME NEW h, NEW B, NEW l, SoundAs(h, B, l), NEW o, NEW bp, Asks(l, o, bp),
           NEW new, new = CallOn(h, o, bp), new.bp # NULL, NEW n, n = AfterCall(o, new),
           NEW p, NEW s, Spread(p, s, LiveBy(l, o, bp, new.bp)),
           NEW id \in Nat, o.type # "f" => p[id] = new.bp /\ s[id] = o.size
    PROVE  IsFiniteSet(Bytes(s)) /\ Cardinality(Bytes(s)) <= 8 * n.brk
<1> DEFINE k == LiveBy(l, o, bp, new.bp)
           body == BodySize(o.size)
<1>1. RequestIsRight(new, h, l, o, bp)
  BY RequestGives
<1>2. CASE ~SpoiltBy(h, o, bp)
  BY <1>1, <1>2, SoundHolds DEF RequestIsRight
<1>3. CASE SpoiltBy(h, o, bp)
  <2>1. o.type = "r" /\ Spoils(h, bp, body) /\ o.size \in Nat \ {0} /\ new = mm_realloc(h, bp, o.size)
    BY <1>3 DEF SpoiltBy, Asks, Request, CallOn
  <2>2. ~Moves(h, bp, body)
    BY <2>1 DEF Spoils, Moves
  <2>3. bp \in Allocated(h, B) /\ bp # heap_listp /\ HeapOK(h, B) /\ Tiling(h, B)
    BY <2>1 DEF Asks, SoundAs, LiveOK, HeapOK
  <2>4. PICK first, end : InPlace(h, B, bp, first, end) /\ Room(new, h, first, end, body)
    BY <2>1, <2>2, <2>3, ReallocRoom
  <2>5. PICK x \in Nat : new.heap.brk = h.brk + x /\ body <= end - first + x
    BY <2>4 DEF Room
  <2>6. /\ first \in Nat /\ end \in Nat /\ first < end /\ end <= h.brk /\ h.brk \in Nat
        /\ \A c \in B : c # bp /\ h.hdr[c].alloc => NEXT_BLKP(h, c) <= first \/ end <= c
    <3>1. bp \in Nat /\ h.brk \in Nat /\ \A c \in B : c \in Nat /\ c < h.brk
      BY <2>3, TilingTypes, UnitsAreNaturals DEF Allocated
    <3> QED BY <2>4, <3>1 DEF InPlace
  <2>7. n.brk = h.brk + x
    BY <2>5, RequestKeepsBreak
  <2> DEFINE S == [j \in Nat |-> IF j = id THEN 8 * (end - first) ELSE s[j]]
             P == [j \in Nat |-> IF j = id THEN 8 * first ELSE 8 * p[j]]
  <2>8. \A j \in Nat : p[j] \in Nat /\ s[j] \in Nat
    BY UnitsAreNaturals DEF Spread
  <2>9. S \in [Nat -> Nat] /\ P \in [Nat -> Int]
    BY <2>6, <2>8
  <2>10. \A j \in Nat : j # id => S[j] = s[j] /\ P[j] = 8 * p[j]
    OBVIOUS
  <2>11. S[id] = 8 * (end - first) /\ P[id] = 8 * first
    OBVIOUS
  <2> HIDE DEF S, P, body
  <2>12. ASSUME NEW j \in Nat, j # id, s[j] > 0
         PROVE  /\ NEXT_BLKP(h, p[j]) \in Nat /\ NEXT_BLKP(h, p[j]) <= h.brk
                /\ 8 * p[j] + s[j] <= 8 * NEXT_BLKP(h, p[j])
                /\ NEXT_BLKP(h, p[j]) <= first \/ end <= p[j]
                /\ \A m \in Nat : m # id /\ s[m] > 0 /\ p[j] < p[m] => NEXT_BLKP(h, p[j]) <= p[m]
    <3>1. p[id] = new.bp /\ s[id] > 0
      BY <2>1
    <3>2. ASSUME NEW m \in Nat, m # id, s[m] > 0
          PROVE  [ptr |-> p[m], size |-> s[m]] \in l /\ p[m] # bp
      <4>1. p[m] # new.bp /\ [ptr |-> p[m], size |-> s[m]] \in k
        BY <3>1, <3>2 DEF Spread
      <4>2. [ptr |-> p[m], size |-> s[m]] # [ptr |-> new.bp, size |-> o.size]
        BY <4>1
      <4>3. [ptr |-> p[m], size |-> s[m]] \in KeptBy(l, o, bp)
        BY <2>1, <4>1, <4>2 DEF LiveBy
      <4> QED BY <2>1, <4>3 DEF KeptBy
    <3>3. /\ NEXT_BLKP(h, p[j]) \in Nat /\ NEXT_BLKP(h, p[j]) <= h.brk
          /\ 8 * p[j] + s[j] <= 8 * NEXT_BLKP(h, p[j])
          /\ \A m \in Nat : m # id /\ s[m] > 0 /\ p[j] < p[m] => NEXT_BLKP(h, p[j]) <= p[m]
      BY <2>12, <3>2, PayloadFits
    <3>4. p[j] \in Allocated(h, B) /\ p[j] # bp
      BY <2>12, <3>2, PayloadFits
    <3>5. NEXT_BLKP(h, p[j]) <= first \/ end <= p[j]
      BY <2>6, <3>4 DEF Allocated
    <3> QED BY <3>3, <3>5
  <2>13. Inside(P, S, 8 * h.brk)
    <3> SUFFICES ASSUME NEW j \in Nat, S[j] > 0
                 PROVE  0 <= P[j] /\ P[j] + S[j] <= 8 * h.brk
      BY DEF Inside
    <3>1. CASE j = id
      BY <2>6, <2>11, <3>1
    <3>2. CASE j # id
      BY <2>6, <2>8, <2>10, <2>12, <3>2
    <3> QED BY <3>1, <3>2
  <2>14. Disjoint(P, S)
    <3>1. ASSUME NEW j \in Nat, NEW m \in Nat, j # id, m # id, j # m, S[j] > 0, S[m] > 0
          PROVE  P[j] + S[j] <= P[m] \/ P[m] + S[m] <= P[j]
      <4>1. s[j] > 0 /\ s[m] > 0
        BY <2>10, <3>1
      <4>2. p[j] < p[m] \/ p[m] < p[j]
        BY <2>8, <3>1, <4>1 DEF Spread
      <4> QED BY <2>8, <2>10, <2>12, <3>1, <4>1, <4>2
    <3>2. ASSUME NEW j \in Nat, j # id, S[j] > 0
          PROVE  P[j] + S[j] <= P[id] \/ P[id] + S[id] <= P[j]
      <4>1. s[j] > 0
        BY <2>10, <3>2
      <4> QED BY <2>6, <2>8, <2>10, <2>11, <2>12, <3>2, <4>1
    <3> QED BY <3>1, <3>2 DEF Disjoint
  <2>15. IsFiniteSet(Bytes(S)) /\ Cardinality(Bytes(S)) <= 8 * h.brk
    <3>1. 8 * h.brk \in Nat
      BY <2>6
    <3> QED BY <2>9, <2>13, <2>14, <3>1, BytesFit
  <2>16. s[id] <= 8 * (end - first) + 8 * x
    <3>1. AdjustedSize(o.size) <= body /\ body \in Nat /\ AdjustedSize(o.size) \in Nat
          /\ o.size + 8 <= 8 * AdjustedSize(o.size)
      BY <2>1, BodyIsEnough, AdjustedSizeIsEnough DEF body, DSIZE, ALIGNMENT
    <3> QED BY <2>1, <2>5, <2>6, <3>1
  <2>17. s \in [Nat -> Nat] /\ \A j \in Nat : j # id => s[j] = S[j]
    BY <2>10 DEF Spread
  <2>18. /\ IsFiniteSet(Bytes(s)) /\ Cardinality(Bytes(S)) \in Nat /\ Cardinality(Bytes(s)) \in Nat
         /\ Cardinality(Bytes(s)) = Cardinality(Bytes(S)) - S[id] + s[id]
    BY <2>9, <2>15, <2>17, BytesChange
  <2>19. S[id] \in Nat /\ s[id] \in Nat /\ s[id] <= S[id] + 8 * x
    BY <2>8, <2>9, <2>11, <2>16
  <2> QED BY <2>6, <2>7, <2>15, <2>18, <2>19
<1> QED BY <1>2, <1>3

-----------------------------------------------------------------------------
(* The client: which payloads a trace leaves in use. *)

LEMMA MaxOfInterval ==
    ASSUME NEW n \in Nat, NEW S, S \subseteq 0 .. n, S # {}
    PROVE  Max(S) \in S /\ \A x \in S : x <= Max(S)
<1> DEFINE Dist == {n - x : x \in S}
<1>1. Dist \subseteq Nat /\ Dist # {}
  <2>1. \A x \in S : n - x \in Nat
    OBVIOUS
  <2> QED BY <2>1
<1>2. PICK d \in Dist : \A e \in Dist : d <= e
  BY <1>1, LeastExists
<1>3. PICK p \in S : d = n - p
  BY <1>2
<1>4. \A x \in S : p >= x
  <2> TAKE x \in S
  <2>1. n - p <= n - x
    BY <1>2, <1>3
  <2> QED BY <2>1
<1>5. Max(S) \in S /\ \A x \in S : Max(S) >= x
  BY <1>4 DEF Max
<1> QED BY <1>5

LEMMA LastOfIs ==
    ASSUME NEW t, NEW n \in Nat, NEW id
    PROVE  /\ LastOf(t, n, id) \in 0 .. n
           /\ LastOf(t, n, id) # 0 => t[LastOf(t, n, id)].index = id
           /\ \A k \in 1 .. n : t[k].index = id => k <= LastOf(t, n, id)
<1> DEFINE S == {0} \cup {k \in 1 .. n : t[k].index = id}
<1>1. S \subseteq 0 .. n /\ S # {} /\ LastOf(t, n, id) = Max(S)
  BY DEF LastOf
<1>2. Max(S) \in S /\ \A x \in S : x <= Max(S)
  BY <1>1, MaxOfInterval
<1> QED BY <1>1, <1>2

LEMMA LastOfNext ==
    ASSUME NEW t, NEW n \in Nat \ {0}, NEW id
    PROVE  /\ LastOf(t, n, id) = IF t[n].index = id THEN n ELSE LastOf(t, n - 1, id)
           /\ InUse(t, n, id) <=> IF t[n].index = id THEN t[n].type # "f" ELSE InUse(t, n - 1, id)
<1>1. n - 1 \in Nat /\ n \in 1 .. n
  OBVIOUS
<1>2. /\ LastOf(t, n, id) \in 0 .. n
      /\ LastOf(t, n, id) # 0 => t[LastOf(t, n, id)].index = id
      /\ \A k \in 1 .. n : t[k].index = id => k <= LastOf(t, n, id)
  BY LastOfIs
<1>3. /\ LastOf(t, n - 1, id) \in 0 .. (n - 1)
      /\ LastOf(t, n - 1, id) # 0 => t[LastOf(t, n - 1, id)].index = id
      /\ \A k \in 1 .. (n - 1) : t[k].index = id => k <= LastOf(t, n - 1, id)
  BY <1>1, LastOfIs
<1>4. LastOf(t, n, id) = IF t[n].index = id THEN n ELSE LastOf(t, n - 1, id)
  <2>1. CASE t[n].index = id
    BY <1>1, <1>2, <2>1
  <2>2. CASE t[n].index # id
    <3>1. LastOf(t, n, id) <= LastOf(t, n - 1, id)
      <4>1. LastOf(t, n, id) # 0 => LastOf(t, n, id) \in 1 .. (n - 1)
        BY <1>2, <2>2
      <4> QED BY <1>2, <1>3, <4>1
    <3>2. LastOf(t, n - 1, id) <= LastOf(t, n, id)
      <4>1. LastOf(t, n - 1, id) # 0 => LastOf(t, n - 1, id) \in 1 .. n
        BY <1>3
      <4> QED BY <1>2, <1>3, <4>1
    <3> QED BY <1>2, <1>3, <2>2, <3>1, <3>2
  <2> QED BY <2>1, <2>2
<1> QED BY <1>4 DEF InUse

LEMMA LastOfFirst ==
    ASSUME NEW t, NEW id
    PROVE  LastOf(t, 0, id) = 0 /\ ~InUse(t, 0, id)
<1>1. LastOf(t, 0, id) \in 0 .. 0
  BY LastOfIs
<1> QED BY <1>1 DEF InUse

\* The payload of an index, and those of all indices that are in use after n requests of
\* t, of which R are the results.
PayloadOf(R, t, n, id) == [ptr |-> R[LastOf(t, n, id)], size |-> t[LastOf(t, n, id)].size]
Held(R, t, n) == {PayloadOf(R, t, n, id) : id \in {id \in Nat : InUse(t, n, id)}}
Apart(R, t, n) ==
    \A id, jd \in Nat :
        id # jd /\ InUse(t, n, id) /\ InUse(t, n, jd) => R[LastOf(t, n, id)] # R[LastOf(t, n, jd)]

\* Of a legal trace every index in use was given a payload.
LEMMA HeldIsPayload ==
    ASSUME NEW t, LegalTrace(t), NEW n \in 0 .. Len(t), NEW R, \A k \in 1 .. n : R[k] \in Units
    PROVE  /\ \A id \in Nat : InUse(t, n, id) =>
                /\ LastOf(t, n, id) \in 1 .. n /\ R[LastOf(t, n, id)] \in Units
                /\ t[LastOf(t, n, id)] \in Request /\ t[LastOf(t, n, id)].size \in Nat \ {0}
           /\ Held(R, t, n) \subseteq Payload
           /\ Apart(R, t, n) => Unique(Held(R, t, n))
<1>1. ASSUME NEW id \in Nat, InUse(t, n, id)
      PROVE  /\ LastOf(t, n, id) \in 1 .. n /\ R[LastOf(t, n, id)] \in Units
             /\ t[LastOf(t, n, id)] \in Request /\ t[LastOf(t, n, id)].size \in Nat \ {0}
  <2> DEFINE k == LastOf(t, n, id)
  <2>1. k \in 1 .. n /\ t[k].type # "f"
    BY <1>1, LastOfIs DEF InUse
  <2> HIDE DEF k
  <2>2. t \in Seq(Request) /\ k \in DOMAIN t /\ k \in 1 .. Len(t)
    BY <2>1 DEF LegalTrace
  <2>3. t[k] \in Request
    BY <2>2
  <2>4. t[k].size > 0 /\ t[k].size \in Nat
    BY <2>1, <2>2, <2>3 DEF LegalTrace, Request
  <2> QED BY <2>1, <2>3, <2>4 DEF k
<1>2. Held(R, t, n) \subseteq Payload
  BY <1>1 DEF Held, PayloadOf, Payload
<1>3. ASSUME Apart(R, t, n) PROVE Unique(Held(R, t, n))
  <2> SUFFICES ASSUME NEW r \in Held(R, t, n), NEW s \in Held(R, t, n), r.ptr = s.ptr
               PROVE  r = s
    BY DEF Unique
  <2>1. PICK id \in Nat : InUse(t, n, id) /\ r = PayloadOf(R, t, n, id)
    BY DEF Held
  <2>2. PICK jd \in Nat : InUse(t, n, jd) /\ s = PayloadOf(R, t, n, jd)
    BY DEF Held
  <2>3. R[LastOf(t, n, id)] = R[LastOf(t, n, jd)]
    BY <2>1, <2>2 DEF PayloadOf
  <2>4. id = jd
    BY <1>3, <2>1, <2>2, <2>3 DEF Apart
  <2> QED BY <2>1, <2>2, <2>4
<1> QED BY <1>1, <1>2, <1>3

\* A request of a legal trace is one that the package may be asked.
LEMMA HeldNext ==
    ASSUME NEW t, LegalTrace(t), NEW k \in 1 .. Len(t), NEW R, Apart(R, t, k - 1),
           NEW o, o = t[k], NEW bp, bp = R[LastOf(t, k - 1, o.index)],
           NEW l, l = Held(R, t, k - 1)
    PROVE  /\ o \in Request
           /\ Asks(l, o, bp)
           /\ KeptBy(l, o, bp) = {PayloadOf(R, t, k, id) : id \in {id \in Nat : InUse(t, k, id) /\ id # o.index}}
           /\ Held(R, t, k) = LiveBy(l, o, bp, R[k])
           /\ (o.type # "f" => \A s \in KeptBy(l, o, bp) : s.ptr # R[k]) => Apart(R, t, k)
           /\ o.type # "a" => InUse(t, k - 1, o.index)
<1> DEFINE i0 == o.index
<1>1. k \in DOMAIN t /\ t \in Seq(Request) /\ k \in Nat \ {0} /\ k - 1 \in Nat
  BY DEF LegalTrace
<1>2. o \in Request /\ i0 \in Nat /\ o.type \in {"a", "r", "f"}
  <2>1. o \in Request
    BY <1>1
  <2> QED BY <2>1 DEF Request
<1>3. (o.type # "f" => o.size > 0) /\ (o.type = "a" <=> ~InUse(t, k - 1, i0))
  BY <1>1 DEF LegalTrace
<1>4. \A id : LastOf(t, k, id) = (IF i0 = id THEN k ELSE LastOf(t, k - 1, id))
              /\ (InUse(t, k, id) <=> IF i0 = id THEN o.type # "f" ELSE InUse(t, k - 1, id))
  BY <1>1, LastOfNext
<1> HIDE DEF i0
<1>5. \A id : id # i0 => /\ PayloadOf(R, t, k, id) = PayloadOf(R, t, k - 1, id)
                         /\ InUse(t, k, id) <=> InUse(t, k - 1, id)
  BY <1>4 DEF PayloadOf
<1>6. PayloadOf(R, t, k, i0) = [ptr |-> R[k], size |-> o.size]
  BY <1>4 DEF PayloadOf
<1> DEFINE kept == {PayloadOf(R, t, k, id) : id \in {id \in Nat : InUse(t, k, id) /\ id # i0}}
<1>7. kept = {PayloadOf(R, t, k - 1, id) : id \in {id \in Nat : InUse(t, k - 1, id) /\ id # i0}}
  BY <1>5
<1>8. KeptBy(l, o, bp) = kept
  <2>1. CASE o.type = "a"
    <3>1. \A id \in Nat : InUse(t, k - 1, id) => id # i0
      BY <1>3, <2>1
    <3>2. {id \in Nat : InUse(t, k - 1, id) /\ id # i0} = {id \in Nat : InUse(t, k - 1, id)}
      BY <3>1
    <3>3. kept = l
      BY <1>7, <3>2 DEF Held
    <3> QED BY <2>1, <3>3 DEF KeptBy
  <2>2. CASE o.type # "a"
    <3>1. InUse(t, k - 1, i0)
      BY <1>3, <2>2
    <3>2. bp = PayloadOf(R, t, k - 1, i0).ptr
      BY DEF PayloadOf, i0
    <3>3. \A id \in Nat : InUse(t, k - 1, id) => (PayloadOf(R, t, k - 1, id).ptr # bp <=> id # i0)
      BY <1>2, <3>1, <3>2 DEF Apart, PayloadOf
    <3>4. {r \in l : r.ptr # bp} = kept
      BY <1>7, <3>3 DEF Held
    <3> QED BY <2>2, <3>4 DEF KeptBy
  <2> QED BY <2>1, <2>2
<1>9. o.type # "a" => \E r \in l : r.ptr = bp
  <2>1. o.type # "a" => InUse(t, k - 1, i0)
    BY <1>3
  <2>2. bp = PayloadOf(R, t, k - 1, i0).ptr
    BY DEF PayloadOf, i0
  <2> QED BY <1>2, <2>1, <2>2 DEF Held
<1>10. Asks(l, o, bp)
  BY <1>2, <1>3, <1>9 DEF Asks
<1>11. Held(R, t, k) = LiveBy(l, o, bp, R[k])
  <2>1. Held(R, t, k) = kept \cup IF o.type = "f" THEN {} ELSE {PayloadOf(R, t, k, i0)}
    <3>1. InUse(t, k, i0) <=> o.type # "f"
      BY <1>4
    <3> QED BY <1>2, <3>1 DEF Held
  <2> HIDE DEF kept
  <2> QED BY <1>6, <1>8, <2>1 DEF LiveBy
<1>12. ASSUME o.type # "f" => \A s \in KeptBy(l, o, bp) : s.ptr # R[k]
       PROVE  Apart(R, t, k)
  <2>1. ASSUME NEW id \in Nat, id # i0, InUse(t, k, id), o.type # "f"
        PROVE  R[LastOf(t, k, id)] # R[k]
    <3>1. PayloadOf(R, t, k, id) \in kept
      BY <2>1
    <3>2. PayloadOf(R, t, k, id).ptr # R[k]
      BY <1>8, <1>12, <2>1, <3>1
    <3> QED BY <3>2 DEF PayloadOf
  <2> SUFFICES ASSUME NEW id \in Nat, NEW jd \in Nat,
                      id # jd, InUse(t, k, id), InUse(t, k, jd)
               PROVE  R[LastOf(t, k, id)] # R[LastOf(t, k, jd)]
    BY DEF Apart
  <2>2. CASE id = i0
    BY <1>4, <2>1, <2>2
  <2>3. CASE jd = i0
    BY <1>4, <2>1, <2>3
  <2>4. CASE id # i0 /\ jd # i0
    BY <1>4, <2>4 DEF Apart
  <2> QED BY <2>2, <2>3, <2>4
<1> QED BY <1>2, <1>3, <1>8, <1>10, <1>11, <1>12 DEF i0

\* The sizes of the payloads in use, and the sum of them.
SizeAt(t, n, id) == IF InUse(t, n, id) THEN t[LastOf(t, n, id)].size ELSE 0
Sizes(t, n) == [id \in Nat |-> SizeAt(t, n, id)]
Total(t, n) == Cardinality(Bytes(Sizes(t, n)))

LEMMA SizesAreNat ==
    ASSUME NEW t, LegalTrace(t), NEW n \in 0 .. Len(t)
    PROVE  Sizes(t, n) \in [Nat -> Nat] /\ \A id \in Nat : Sizes(t, n)[id] = SizeAt(t, n, id)
<1>1. ASSUME NEW id PROVE SizeAt(t, n, id) \in Nat
  <2>1. CASE ~InUse(t, n, id)
    BY <2>1 DEF SizeAt
  <2>2. CASE InUse(t, n, id)
    <3>1. LastOf(t, n, id) \in 0 .. n /\ LastOf(t, n, id) # 0
      BY <2>2, LastOfIs DEF InUse
    <3>2. t \in Seq(Request) /\ Len(t) \in Nat
      BY DEF LegalTrace
    <3>3. LastOf(t, n, id) \in 1 .. Len(t)
      BY <3>1, <3>2
    <3>4. t[LastOf(t, n, id)] \in Request
      BY <3>2, <3>3
    <3> QED BY <2>2, <3>4 DEF SizeAt, Request
  <2> QED BY <2>1, <2>2
<1> QED BY <1>1 DEF Sizes

\* A request changes the size of one payload.
LEMMA SizesNext ==
    ASSUME NEW t, LegalTrace(t), NEW k \in 1 .. Len(t), NEW o, o = t[k]
    PROVE  /\ o.index \in Nat /\ o.size \in Nat
           /\ \A id \in Nat : id # o.index => Sizes(t, k)[id] = Sizes(t, k - 1)[id]
           /\ Sizes(t, k)[o.index] = IF o.type = "f" THEN 0 ELSE o.size
<1>1. k \in DOMAIN t /\ t \in Seq(Request) /\ k \in Nat \ {0} /\ k - 1 \in Nat
  BY DEF LegalTrace
<1>2. o.index \in Nat /\ o.size \in Nat
  <2>1. o \in Request
    BY <1>1
  <2> QED BY <2>1 DEF Request
<1>3. \A id : SizeAt(t, k, id) = IF o.index = id THEN (IF o.type = "f" THEN 0 ELSE o.size)
                                 ELSE SizeAt(t, k - 1, id)
  <2> TAKE id
  <2>1. LastOf(t, k, id) = (IF o.index = id THEN k ELSE LastOf(t, k - 1, id))
        /\ (InUse(t, k, id) <=> IF o.index = id THEN o.type # "f" ELSE InUse(t, k - 1, id))
    BY <1>1, LastOfNext
  <2> QED BY <2>1 DEF SizeAt
<1> QED BY <1>2, <1>3 DEF Sizes

\* The client has asked for a finite number of bytes.
LEMMA SizeIsNat ==
    ASSUME NEW t, LegalTrace(t), NEW n \in 0 .. Len(t)
    PROVE  IsFiniteSet(Bytes(Sizes(t, n))) /\ Total(t, n) \in Nat
<1> DEFINE P == {k \in 0 .. Len(t) : IsFiniteSet(Bytes(Sizes(t, k)))}
<1>1. Len(t) \in Nat /\ n \in Nat
  BY DEF LegalTrace
<1>2. 0 \in P
  <2>1. \A id \in Nat : Sizes(t, 0)[id] = 0
    BY LastOfFirst DEF Sizes, SizeAt
  <2> QED BY <1>1, <2>1, NoBytes
<1>3. ASSUME NEW k \in 1 .. n, k - 1 \in P PROVE k \in P
  <2>1. k \in 1 .. Len(t) /\ k \in 0 .. Len(t) /\ k - 1 \in 0 .. Len(t)
    BY <1>1
  <2>2. IsFiniteSet(Bytes(Sizes(t, k - 1)))
    BY <1>3
  <2> DEFINE s == Sizes(t, k - 1)
             r == Sizes(t, k)
  <2>3. s \in [Nat -> Nat] /\ r \in [Nat -> Nat]
    BY <2>1, SizesAreNat
  <2>4. t[k].index \in Nat /\ \A id \in Nat : id # t[k].index => r[id] = s[id]
    BY <2>1, SizesNext
  <2>5. IsFiniteSet(Bytes(s))
    BY <2>2
  <2> HIDE DEF s, r
  <2>6. IsFiniteSet(Bytes(r))
    BY <2>3, <2>4, <2>5, BytesChange
  <2> QED BY <2>1, <2>6 DEF r
<1> HIDE DEF P
<1>4. 0 .. n \subseteq P
  BY <1>1, <1>2, <1>3, UpFromZero
<1>5. n \in P
  BY <1>1, <1>4
<1>6. IsFiniteSet(Bytes(Sizes(t, n)))
  BY <1>5 DEF P
<1> QED BY <1>6, FS_CardinalityType DEF Total

\* The sum follows the requests as SizeChange says.
LEMMA TotalNext ==
    ASSUME NEW t, LegalTrace(t), NEW k \in 1 .. Len(t), NEW o, o = t[k]
    PROVE  /\ Total(t, k - 1) \in Nat
           /\ Total(t, k) = Total(t, k - 1) - SizeAt(t, k - 1, o.index)
                              + IF o.type = "f" THEN 0 ELSE o.size
           /\ o.type = "a" => SizeAt(t, k - 1, o.index) = 0
<1> DEFINE s == Sizes(t, k - 1)
           r == Sizes(t, k)
<1>1. k \in DOMAIN t /\ k - 1 \in 0 .. Len(t) /\ k \in 0 .. Len(t)
  BY DEF LegalTrace
<1>2. /\ o.index \in Nat
      /\ \A id \in Nat : id # o.index => r[id] = s[id]
      /\ r[o.index] = IF o.type = "f" THEN 0 ELSE o.size
  BY SizesNext
<1>3. /\ s \in [Nat -> Nat] /\ r \in [Nat -> Nat]
      /\ s[o.index] = SizeAt(t, k - 1, o.index)
  BY <1>1, <1>2, SizesAreNat
<1>4. IsFiniteSet(Bytes(s)) /\ Total(t, k - 1) \in Nat
  BY <1>1, SizeIsNat
<1>5. Total(t, k) = Cardinality(Bytes(r)) /\ Total(t, k - 1) = Cardinality(Bytes(s))
  BY DEF Total
<1> HIDE DEF s, r
<1>6. Cardinality(Bytes(r)) = Cardinality(Bytes(s)) - s[o.index] + r[o.index]
  BY <1>2, <1>3, <1>4, BytesChange
<1>7. Total(t, k) = Total(t, k - 1) - SizeAt(t, k - 1, o.index) + IF o.type = "f" THEN 0 ELSE o.size
  BY <1>2, <1>3, <1>5, <1>6
<1>8. o.type = "a" => SizeAt(t, k - 1, o.index) = 0
  BY <1>1 DEF LegalTrace, SizeAt
<1> QED BY <1>4, <1>7, <1>8

-----------------------------------------------------------------------------
(* A checked replay: the heaps between its requests. *)

\* Request k of t takes the sound heap h to n and returns R[k]; R are the results so far.
Step(h, n, R, t, k) ==
    LET new == CallOn(h, t[k], R[LastOf(t, k - 1, t[k].index)])
    IN  /\ SoundAs(h, Blocks(h), Held(R, t, k - 1)) /\ Apart(R, t, k - 1)
        /\ new.bp = R[k] /\ new.bp # NULL
        /\ n = AfterCall(t[k], new)

\* H[1], ..., H[n + 1] are the heaps before and after the first n requests of t.
ChainOK(H, R, t, n) ==
    /\ \E g \in Heap : H[1] = EmptyHeap(g)
    /\ \A k \in 1 .. n : Step(H[k], H[k + 1], R, t, k)

\* What is known after a request, whether or not it has spoilt the heap.
LEMMA StepGives ==
    ASSUME NEW t, LegalTrace(t), NEW k \in 1 .. Len(t), NEW R, \A j \in 1 .. (k - 1) : R[j] \in Units,
           NEW h, NEW n, Step(h, n, R, t, k)
    PROVE  /\ R[k] \in Units /\ Framed(n) /\ Apart(R, t, k)
           /\ h.brk \in Nat /\ n.brk \in Nat /\ h.brk <= n.brk
           /\ Total(t, k) <= 8 * n.brk
<1> DEFINE o == t[k]
           bp == R[LastOf(t, k - 1, o.index)]
           new == CallOn(h, o, bp)
           l == Held(R, t, k - 1)
           B == Blocks(h)
<1>1. SoundAs(h, B, l) /\ Apart(R, t, k - 1) /\ new.bp = R[k] /\ new.bp # NULL /\ n = AfterCall(o, new)
  BY DEF Step
<1> HIDE DEF o, bp, new, l, B
<1>2. /\ o \in Request
      /\ Asks(l, o, bp)
      /\ Held(R, t, k) = LiveBy(l, o, bp, R[k])
      /\ (o.type # "f" => \A s \in KeptBy(l, o, bp) : s.ptr # R[k]) => Apart(R, t, k)
  BY <1>1, HeldNext DEF o, bp, l
<1>3. RequestIsRight(new, h, l, o, bp)
  BY <1>1, <1>2, RequestGives DEF new
<1>4. R[k] \in Units /\ Framed(n) /\ Apart(R, t, k)
  BY <1>1, <1>2, <1>3 DEF RequestIsRight
<1>5. h.brk \in Nat /\ n.brk \in Nat /\ h.brk <= n.brk
  BY <1>1, <1>2, RequestKeepsBreak DEF new
<1> DEFINE p == [id \in Nat |-> IF InUse(t, k, id) THEN R[LastOf(t, k, id)] ELSE heap_listp]
           s == Sizes(t, k)
<1>6. \A id \in Nat : InUse(t, k, id) =>
        /\ LastOf(t, k, id) \in 1 .. k /\ R[LastOf(t, k, id)] \in Units
        /\ t[LastOf(t, k, id)].size \in Nat \ {0}
  <2>1. \A j \in 1 .. k : R[j] \in Units
    BY <1>4
  <2> QED BY <2>1, HeldIsPayload
<1>7. Spread(p, s, Held(R, t, k))
  <2>1. heap_listp \in Units
    BY UnitsAssumption, InitFits DEF Units, heap_listp
  <2>2. p \in [Nat -> Units] /\ s \in [Nat -> Nat]
    BY <1>6, <2>1 DEF SizeAt, Sizes
  <2>3. \A id \in Nat : s[id] > 0 =>
           InUse(t, k, id) /\ p[id] = R[LastOf(t, k, id)] /\ s[id] = t[LastOf(t, k, id)].size
    BY DEF SizeAt, Sizes
  <2> HIDE DEF p, s
  <2>4. \A id \in Nat : s[id] > 0 => [ptr |-> p[id], size |-> s[id]] \in Held(R, t, k)
    BY <2>3 DEF Held, PayloadOf
  <2>5. \A id, jd \in Nat : id # jd /\ s[id] > 0 /\ s[jd] > 0 => p[id] # p[jd]
    BY <1>4, <2>3 DEF Apart
  <2> QED BY <2>2, <2>4, <2>5 DEF Spread
<1>8. Cardinality(Bytes(s)) = Total(t, k)
  BY DEF Total
<1>9. o.index \in Nat /\ (o.type # "f" => p[o.index] = new.bp /\ s[o.index] = o.size)
  <2>1. o.index \in Nat /\ k \in Nat \ {0}
    BY <1>2 DEF Request
  <2>2. LastOf(t, k, o.index) = k
    BY <2>1, LastOfNext DEF o
  <2>3. InUse(t, k, o.index) <=> o.type # "f"
    BY <2>1, LastOfNext DEF o
  <2>4. o.type # "f" => p[o.index] = R[k] /\ s[o.index] = t[k].size
    BY <2>1, <2>2, <2>3 DEF SizeAt, Sizes
  <2> HIDE DEF p, s
  <2> QED BY <1>1, <2>1, <2>4 DEF o
<1> HIDE DEF p, s
<1>10. Cardinality(Bytes(s)) <= 8 * n.brk
  <2>1. Spread(p, s, LiveBy(l, o, bp, new.bp))
    BY <1>1, <1>2, <1>7
  <2>2. new = CallOn(h, o, bp)
    BY DEF new
  <2> QED BY <1>1, <1>2, <1>9, <2>1, <2>2, RequestFits
<1> QED BY <1>4, <1>5, <1>8, <1>10

\* A twin of a sound heap is sound.
LEMMA TwinSound ==
    ASSUME NEW h, NEW g, NEW B, Twin(h, g, B), NEW l, SoundAs(h, B, l)
    PROVE  SoundAs(g, B, l)
<1>1. HeapOK(g, B)
  BY TwinIsOK DEF SoundAs, HeapOK
<1>2. LiveOK(g, B, l)
  <2>1. Allocated(g, B) = Allocated(h, B)
    BY DEF Twin, Allocated
  <2>2. \A r \in l : g.hdr[r.ptr] = h.hdr[r.ptr]
    BY DEF SoundAs, LiveOK, Allocated, Twin
  <2> QED BY <2>1, <2>2 DEF SoundAs, LiveOK
<1> QED BY <1>1, <1>2 DEF SoundAs

\* The same request of a replay that runs on a twin.
LEMMA StepTwin ==
    ASSUME NEW t, LegalTrace(t), NEW k \in 1 .. Len(t), NEW R,
           NEW h, NEW n, Step(h, n, R, t, k), NEW g, Twin(h, g, Blocks(h)),
           NEW o, o = t[k], NEW bp, bp = R[LastOf(t, k - 1, o.index)],
           NEW gew, gew = CallOn(g, o, bp)
    PROVE  /\ gew.bp = R[k] /\ gew.bp # NULL /\ gew.heap \in Heap /\ gew.heap.brk = n.brk
           /\ SoundAs(n, Blocks(n), Held(R, t, k)) => Twin(n, gew.heap, Blocks(n))
           /\ ~(o.type = "r" /\ Moves(g, bp, BodySize(o.size)) /\ MoveTo(g, BodySize(o.size)).bp = NULL)
<1> DEFINE new == CallOn(h, o, bp)
           l == Held(R, t, k - 1)
           B == Blocks(h)
<1>1. SoundAs(h, B, l) /\ Apart(R, t, k - 1) /\ new.bp = R[k] /\ new.bp # NULL /\ n = AfterCall(o, new)
  BY DEF Step
<1> HIDE DEF new, l, B
<1>2. /\ Asks(l, o, bp)
      /\ Held(R, t, k) = LiveBy(l, o, bp, R[k])
  BY <1>1, HeldNext DEF l
<1>3. Twin(h, g, B)
  BY DEF B
<1>4. /\ gew.bp = new.bp /\ gew.heap.brk = n.brk
      /\ \A D : SoundAs(n, D, LiveBy(l, o, bp, new.bp)) => Twin(n, gew.heap, D)
      /\ ~(o.type = "r" /\ Moves(g, bp, BodySize(o.size)) /\ MoveTo(g, BodySize(o.size)).bp = NULL)
  <2>1. new = CallOn(h, o, bp)
    BY DEF new
  <2> QED BY <1>1, <1>2, <1>3, <2>1, TwinRequest
<1>5. gew.heap \in Heap
  <2>1. SoundAs(g, B, l)
    BY <1>1, <1>3, TwinSound
  <2>2. RequestIsRight(gew, g, l, o, bp)
    BY <1>2, <2>1, RequestGives
  <2> QED BY <2>2 DEF RequestIsRight
<1> QED BY <1>1, <1>2, <1>4, <1>5

\* mem_reset_brk and mm_init make twins of all heaps.
LEMMA EmptyTwins ==
    ASSUME NEW h \in Heap, NEW g \in Heap
    PROVE  /\ Blocks(EmptyHeap(h)) = {heap_listp}
           /\ Twin(EmptyHeap(h), EmptyHeap(g), {heap_listp})
<1>1. SoundAs(EmptyHeap(h), {heap_listp}, {}) /\ SoundAs(EmptyHeap(g), {heap_listp}, {})
  BY EmptyHeapIsSound
<1>2. Tiling(EmptyHeap(h), {heap_listp}) /\ Tiling(EmptyHeap(g), {heap_listp})
  BY <1>1 DEF SoundAs, HeapOK
<1>3. heap_listp \in Units /\ heap_listp + 1 \in Units
  BY UnitsAssumption, InitFits DEF Units, heap_listp
<1>4. /\ EmptyHeap(h).brk = heap_listp + 1 /\ EmptyHeap(g).brk = heap_listp + 1
      /\ EmptyHeap(h).current_block = heap_listp /\ EmptyHeap(g).current_block = heap_listp
  BY DEF EmptyHeap, Heap
<1>5. EmptyHeap(g).hdr[heap_listp] = EmptyHeap(h).hdr[heap_listp]
  BY <1>3 DEF EmptyHeap, Heap, heap_listp
<1>6. EmptyHeap(g).hdr[heap_listp + 1] = EmptyHeap(h).hdr[heap_listp + 1]
  BY <1>3 DEF EmptyHeap, Heap, heap_listp
<1>7. Blocks(EmptyHeap(h)) = {heap_listp}
  BY <1>2, BlocksOfTiling
<1> QED BY <1>2, <1>4, <1>5, <1>6, <1>7 DEF Twin

\* A result that is added changes nothing before it.
LEMMA HeldSame ==
    ASSUME NEW t, NEW n \in Nat, NEW R, NEW S, \A j \in 1 .. n : S[j] = R[j]
    PROVE  Held(S, t, n) = Held(R, t, n) /\ (Apart(R, t, n) => Apart(S, t, n))
<1>1. \A id : InUse(t, n, id) => LastOf(t, n, id) \in 1 .. n
  BY LastOfIs DEF InUse
<1>2. \A id : InUse(t, n, id) => S[LastOf(t, n, id)] = R[LastOf(t, n, id)]
  BY <1>1
<1>3. Apart(R, t, n) => Apart(S, t, n)
  BY <1>2 DEF Apart
<1>4. \A id : InUse(t, n, id) => PayloadOf(S, t, n, id) = PayloadOf(R, t, n, id)
  BY <1>2 DEF PayloadOf
<1> QED BY <1>3, <1>4 DEF Held

\* mm_realloc and mm_free get a pointer that an earlier request returned.
LEMMA InUseWhenTaken ==
    ASSUME NEW t, LegalTrace(t), NEW k \in 1 .. Len(t), t[k].type # "a"
    PROVE  LastOf(t, k - 1, t[k].index) \in 1 .. (k - 1)
<1>1. k \in DOMAIN t /\ k - 1 \in Nat
  BY DEF LegalTrace
<1>2. InUse(t, k - 1, t[k].index)
  BY <1>1 DEF LegalTrace
<1> QED BY <1>1, <1>2, LastOfIs DEF InUse

LEMMA CallSame ==
    ASSUME NEW o, NEW bp, NEW cp, o.type # "a" => cp = bp, NEW h
    PROVE  CallOn(h, o, cp) = CallOn(h, o, bp)
<1>1. CASE o.type = "a"
  BY <1>1 DEF CallOn
<1>2. CASE cp = bp
  BY <1>2
<1> QED BY <1>1, <1>2

LEMMA StepSame ==
    ASSUME NEW t, LegalTrace(t), NEW k \in 1 .. Len(t), NEW R, NEW S, \A j \in 1 .. k : S[j] = R[j],
           NEW h, NEW n, Step(h, n, R, t, k)
    PROVE  Step(h, n, S, t, k)
<1> DEFINE last == LastOf(t, k - 1, t[k].index)
<1>1. k - 1 \in Nat /\ k \in 1 .. k /\ \A j \in 1 .. (k - 1) : S[j] = R[j]
  OBVIOUS
<1>2. Held(S, t, k - 1) = Held(R, t, k - 1) /\ (Apart(R, t, k - 1) => Apart(S, t, k - 1))
  BY <1>1, HeldSame
<1>3. t[k].type # "a" => S[last] = R[last]
  BY <1>1, InUseWhenTaken
<1>4. CallOn(h, t[k], S[last]) = CallOn(h, t[k], R[last])
  BY <1>3, CallSame
<1>5. S[k] = R[k]
  BY <1>1
<1> QED BY <1>2, <1>4, <1>5 DEF Step

\* One more request of the checked replay.
Follows(k, n) == n \in Nat /\ k = n + 1
Agree(S, R, n) == \A j \in 1 .. n : S[j] = R[j]
ChainTo(H, R, t, n, h) == ChainOK(H, R, t, n) /\ H[n + 1] = h

LEMMA StepTaken ==
    ASSUME NEW t, LegalTrace(t), NEW k, NEW n, Follows(k, n), n < Len(t),
           NEW R, NEW h, SoundAs(h, Blocks(h), Held(R, t, n)), Apart(R, t, n),
           NEW o, o = t[k], NEW bp, o.type # "a" => bp = R[LastOf(t, n, o.index)],
           NEW new, new = CallOn(h, o, bp), new.bp # NULL,
           NEW S, S[k] = new.bp, Agree(S, R, n), NEW m, m = AfterCall(o, new)
    PROVE  Step(h, m, S, t, k)
<1>1. n = k - 1 /\ n \in Nat /\ k \in 1 .. Len(t)
  <2>1. Len(t) \in Nat
    BY DEF LegalTrace
  <2> QED BY <2>1 DEF Follows
<1>2. Held(S, t, n) = Held(R, t, n) /\ Apart(S, t, n)
  BY <1>1, HeldSame DEF Agree
<1>3. o.type # "a" => S[LastOf(t, n, o.index)] = bp
  <2>1. o.type # "a" => LastOf(t, n, o.index) \in 1 .. n
    BY <1>1, InUseWhenTaken
  <2> QED BY <2>1 DEF Agree
<1>4. CallOn(h, o, S[LastOf(t, n, o.index)]) = new
  BY <1>3, CallSame
<1> QED BY <1>1, <1>2, <1>4 DEF Step

\* The heaps of the checked replay, with that after one more request.
LEMMA ChainGrows ==
    ASSUME NEW t, LegalTrace(t), NEW k, NEW n, Follows(k, n), n < Len(t),
           NEW R, NEW H, NEW h, ChainTo(H, R, t, n, h), NEW S, Agree(S, R, n),
           NEW m, Step(h, m, S, t, k)
    PROVE  \E G : ChainTo(G, S, t, k, m)
<1>1. k \in Nat /\ n = k - 1 /\ \A x \in 1 .. k : x = k \/ x \in 1 .. n
  BY DEF Follows
<1>2. h = H[k]
  BY <1>1 DEF Follows, ChainTo
<1>6. \A x \in 1 .. n : Step(H[x], H[x + 1], S, t, x)
  <2> TAKE x \in 1 .. n
  <2>1. x \in 1 .. Len(t) /\ \A j \in 1 .. x : S[j] = R[j]
    <3>1. Len(t) \in Nat
      BY DEF LegalTrace
    <3> QED BY <1>1, <3>1 DEF Agree
  <2>2. Step(H[x], H[x + 1], R, t, x)
    BY DEF ChainOK, ChainTo
  <2> QED BY <2>1, <2>2, StepSame
<1> DEFINE G == [x \in 1 .. (k + 1) |-> IF x = k + 1 THEN m ELSE H[x]]
<1>7. G[k + 1] = m /\ \A x \in 1 .. k : G[x] = H[x]
  BY <1>1
<1> HIDE DEF G
<1>8. G[1] = H[1] /\ \A x \in 1 .. n : G[x] = H[x] /\ G[x + 1] = H[x + 1]
  BY <1>1, <1>7 DEF Follows
<1>9. \A x \in 1 .. k : Step(G[x], G[x + 1], S, t, x)
  <2> TAKE x \in 1 .. k
  <2>1. CASE x = k
    <3>1. G[x] = h /\ G[x + 1] = m
      BY <1>2, <1>7, <2>1
    <3> QED BY <2>1, <3>1
  <2>2. CASE x # k
    <3>1. x \in 1 .. n
      BY <1>1, <2>2
    <3> QED BY <1>6, <1>8, <3>1
  <2> QED BY <2>1, <2>2
<1>10. ChainOK(G, S, t, k)
  BY <1>8, <1>9 DEF ChainOK, ChainTo
<1> QED BY <1>7, <1>10 DEF ChainTo

-----------------------------------------------------------------------------
(* trace->blocks and trace->block_sizes. *)

\* An array of numbers with an element for every index of t.
Table(b, t) ==
    /\ DOMAIN b \subseteq Nat /\ b \in [DOMAIN b -> Nat]
    /\ \A k \in DOMAIN t : t[k].index \in DOMAIN b

LEMMA TableExcept ==
    ASSUME NEW t, NEW b, Table(b, t), NEW id, NEW v \in Nat, NEW c, c = [b EXCEPT ![id] = v]
    PROVE  Table(c, t)
<1> DEFINE D == DOMAIN b
<1>1. b \in [D -> Nat] /\ D \subseteq Nat /\ \A k \in DOMAIN t : t[k].index \in D
  BY DEF Table
<1> HIDE DEF D
<1>2. c \in [D -> Nat] /\ DOMAIN c = D
  BY <1>1
<1> QED BY <1>1, <1>2 DEF Table

\* An index of a trace, and that in use after n requests of it.
LEMMA TableHas ==
    ASSUME NEW t, t \in Seq(Request), NEW b, Table(b, t)
    PROVE  /\ \A k \in 1 .. Len(t) : t[k].index \in DOMAIN b /\ b[t[k].index] \in Nat
           /\ \A n \in 0 .. Len(t) : \A id : InUse(t, n, id) => id \in DOMAIN b /\ id \in Nat
<1>1. \A k \in 1 .. Len(t) : t[k].index \in DOMAIN b /\ t[k].index \in Nat
  BY DEF Table
<1>2. \A id \in DOMAIN b : b[id] \in Nat
  BY DEF Table
<1>3. ASSUME NEW n \in 0 .. Len(t), NEW id, InUse(t, n, id)
      PROVE  id \in DOMAIN b /\ id \in Nat
  <2>1. n \in Nat /\ Len(t) \in Nat /\ n <= Len(t)
    OBVIOUS
  <2>2. LastOf(t, n, id) \in 1 .. n /\ t[LastOf(t, n, id)].index = id
    BY <1>3, <2>1, LastOfIs DEF InUse
  <2>3. LastOf(t, n, id) \in 1 .. Len(t)
    BY <2>1, <2>2
  <2> QED BY <1>1, <2>2, <2>3
<1> QED BY <1>1, <1>2, <1>3

\* After n requests of t with the results R: b has the last result for each index that was
\* used, and z the size of each payload.
Points(b, R, t, n) == \A id \in DOMAIN b : LastOf(t, n, id) # 0 => b[id] = R[LastOf(t, n, id)]
Measures(z, t, n) == \A id \in DOMAIN z : InUse(t, n, id) => z[id] = t[LastOf(t, n, id)].size

LEMMA PointsNext ==
    ASSUME NEW t, NEW n \in Nat, NEW b, Table(b, t), NEW R, NEW S,
           Points(b, R, t, n), \A k \in 1 .. n : S[k] = R[k], t[n + 1].index \in DOMAIN b
    PROVE  Points([b EXCEPT ![t[n + 1].index] = S[n + 1]], S, t, n + 1)
<1> DEFINE c == [b EXCEPT ![t[n + 1].index] = S[n + 1]]
<1>0. b \in [DOMAIN b -> Nat] /\ DOMAIN c = DOMAIN b
  BY DEF Table
<1> SUFFICES ASSUME NEW id \in DOMAIN b, LastOf(t, n + 1, id) # 0
             PROVE  c[id] = S[LastOf(t, n + 1, id)]
  BY <1>0 DEF Points
<1>1. LastOf(t, n + 1, id) = IF t[n + 1].index = id THEN n + 1 ELSE LastOf(t, n, id)
  <2>1. n + 1 \in Nat \ {0} /\ n + 1 - 1 = n
    OBVIOUS
  <2> QED BY <2>1, LastOfNext
<1>2. LastOf(t, n, id) \in 0 .. n
  BY LastOfIs
<1>3. CASE t[n + 1].index = id
  BY <1>0, <1>1, <1>3
<1>4. CASE t[n + 1].index # id
  <2>1. c[id] = R[LastOf(t, n, id)] /\ LastOf(t, n, id) \in 1 .. n
    BY <1>0, <1>1, <1>2, <1>4 DEF Points
  <2> QED BY <1>1, <1>4, <2>1
<1> QED BY <1>3, <1>4

LEMMA MeasuresNext ==
    ASSUME NEW t, NEW n \in Nat, NEW z, Table(z, t), Measures(z, t, n),
           NEW o, o = t[n + 1], o.index \in DOMAIN z,
           NEW y, y = [z EXCEPT ![o.index] = IF o.type = "f" THEN @ ELSE o.size]
    PROVE  Measures(y, t, n + 1)
<1>0. z \in [DOMAIN z -> Nat] /\ DOMAIN y = DOMAIN z
  BY DEF Table
<1> SUFFICES ASSUME NEW id \in DOMAIN z, InUse(t, n + 1, id)
             PROVE  y[id] = t[LastOf(t, n + 1, id)].size
  BY <1>0 DEF Measures
<1>1. /\ LastOf(t, n + 1, id) = IF o.index = id THEN n + 1 ELSE LastOf(t, n, id)
      /\ InUse(t, n + 1, id) <=> IF o.index = id THEN o.type # "f" ELSE InUse(t, n, id)
  <2>1. n + 1 \in Nat \ {0} /\ n + 1 - 1 = n
    OBVIOUS
  <2> QED BY <2>1, LastOfNext
<1>2. CASE o.index = id
  BY <1>0, <1>1, <1>2
<1>3. CASE o.index # id
  BY <1>0, <1>1, <1>3 DEF Measures
<1> QED BY <1>2, <1>3

-----------------------------------------------------------------------------
(* The replays. *)

\* eval_mm_valid after n requests of t.
Checked(h, b, z, R, t, n) ==
    /\ n \in 0 .. Len(t) /\ R \in Seq(Units) /\ Len(R) = n
    /\ Table(b, t) /\ Table(z, t) /\ Points(b, R, t, n) /\ Measures(z, t, n)
    /\ Framed(h) /\ Apart(R, t, n)
    /\ \E H : ChainTo(H, R, t, n, h)

\* eval_mm_util and eval_mm_speed after n requests of t, for which the checked replay got R:
\* the heap agrees with the one that the checked replay had.
Replayed(h, b, R, t, n) ==
    /\ n \in 0 .. Len(t) /\ R \in Seq(Units) /\ Len(R) = Len(t)
    /\ Table(b, t) /\ Points(b, R, t, n)
    /\ h \in Heap
    /\ \E H : /\ ChainOK(H, R, t, Len(t)) /\ h.brk = H[n + 1].brk
              /\ n < Len(t) => Twin(H[n + 1], h, Blocks(H[n + 1]))

\* What eval_mm_util has added up.
Utilized(h, z, s, t, n) ==
    /\ Table(z, t) /\ Measures(z, t, n)
    /\ s.total_size = Total(t, n)
    /\ s.max_total_size \in Nat /\ s.max_total_size <= 8 * h.brk

LEMMA NothingYet ==
    ASSUME NEW t, NEW b, NEW R, NEW z
    PROVE  Points(b, R, t, 0) /\ Measures(z, t, 0) /\ Apart(R, t, 0) /\ Held(R, t, 0) = {}
           /\ Total(t, 0) = 0
<1>1. \A id : LastOf(t, 0, id) = 0 /\ ~InUse(t, 0, id)
  BY LastOfFirst
<1>2. Held(R, t, 0) = {}
  BY <1>1 DEF Held
<1>3. Total(t, 0) = 0
  <2>1. \A id \in Nat : Sizes(t, 0)[id] = 0
    BY <1>1 DEF Sizes, SizeAt
  <2> QED BY <2>1, NoBytes DEF Total
<1> QED BY <1>1, <1>2, <1>3 DEF Points, Measures, Apart

\* eval_mm_valid before its first request.
LEMMA CheckedStart ==
    ASSUME NEW t, LegalTrace(t), NEW b, Table(b, t), NEW z, Table(z, t), NEW g \in Heap
    PROVE  Checked(EmptyHeap(g), b, z, <<>>, t, 0)
<1>1. Points(b, <<>>, t, 0) /\ Measures(z, t, 0) /\ Apart(<<>>, t, 0)
  BY NothingYet
<1>2. Framed(EmptyHeap(g))
  BY EmptyHeapIsSound, SoundIsFramed DEF SoundAs
<1> DEFINE H == [k \in 1 .. 1 |-> EmptyHeap(g)]
<1>3. H[1] = EmptyHeap(g)
  OBVIOUS
<1> HIDE DEF H
<1>4. ChainTo(H, <<>>, t, 0, EmptyHeap(g))
  BY <1>3 DEF ChainOK, ChainTo
<1>5. <<>> \in Seq(Units) /\ Len(<<>>) = 0 /\ 0 \in 0 .. Len(t)
  <2>1. Len(t) \in Nat
    BY DEF LegalTrace
  <2> QED BY <2>1
<1> QED BY <1>1, <1>2, <1>4, <1>5 DEF Checked

\* A request of the checked replay, on a heap that is sound.
LEMMA CheckedStep ==
    ASSUME NEW t, LegalTrace(t), NEW h, NEW b, NEW z, NEW R, NEW n, Checked(h, b, z, R, t, n),
           n < Len(t), NEW l, l = Held(R, t, n), SoundHeap(h, l),
           NEW o, o = t[n + 1], NEW bp, bp = b[o.index], NEW new, new = CallOn(h, o, bp)
    PROVE  /\ Asks(l, o, bp) /\ SoundAs(h, Blocks(h), l) /\ l \subseteq Payload /\ Unique(l)
           /\ RequestIsRight(new, h, l, o, bp)
           /\ new.bp # NULL =>
                /\ Checked(AfterCall(o, new), [b EXCEPT ![o.index] = new.bp],
                           [z EXCEPT ![o.index] = IF o.type = "f" THEN @ ELSE o.size],
                           Append(R, new.bp), t, n + 1)
                /\ Held(Append(R, new.bp), t, n + 1) = LiveBy(l, o, bp, new.bp)
<1> DEFINE S == Append(R, new.bp)
           m == AfterCall(o, new)
<1>1. n \in Nat /\ n \in 0 .. Len(t) /\ n + 1 \in 1 .. Len(t) /\ n + 1 - 1 = n
  <2>1. Len(t) \in Nat /\ n \in 0 .. Len(t)
    BY DEF LegalTrace, Checked
  <2> QED BY <2>1
<1>2. \A k \in 1 .. n : R[k] \in Units
  BY DEF Checked
<1>3. Apart(R, t, n) /\ Framed(h) /\ Table(b, t) /\ Table(z, t)
      /\ Points(b, R, t, n) /\ Measures(z, t, n)
  BY DEF Checked
<1>4. l \subseteq Payload /\ Unique(l)
  BY <1>1, <1>2, <1>3, HeldIsPayload
<1>5. SoundAs(h, Blocks(h), l)
  BY <1>3, <1>4, SoundIsTiling
<1> DEFINE cp == R[LastOf(t, n, o.index)]
<1>6. /\ o \in Request
      /\ Asks(l, o, cp)
  BY <1>1, <1>3, HeldNext
<1>7. o.type # "a" => bp = cp
  <2>1. o.type # "a" => LastOf(t, n, o.index) \in 1 .. n
    BY <1>1, InUseWhenTaken
  <2>2. o.index \in DOMAIN b
    BY <1>1, <1>3, TableHas DEF LegalTrace
  <2> QED BY <1>3, <2>1, <2>2 DEF Points
<1>8. Asks(l, o, bp)
  BY <1>6, <1>7 DEF Asks
<1>9. RequestIsRight(new, h, l, o, bp)
  BY <1>5, <1>8, RequestGives
<1>10. ASSUME new.bp # NULL
       PROVE  /\ Checked(m, [b EXCEPT ![o.index] = new.bp],
                         [z EXCEPT ![o.index] = IF o.type = "f" THEN @ ELSE o.size], S, t, n + 1)
              /\ Held(S, t, n + 1) = LiveBy(l, o, bp, new.bp)
  <2>1. new.bp \in Units /\ new.bp \in Nat /\ o.size \in Nat
    BY <1>6, <1>9, <1>10, UnitsAreNaturals DEF RequestIsRight, Request
  <2>0. o.index \in DOMAIN b /\ o.index \in DOMAIN z /\ z[o.index] \in Nat
    BY <1>1, <1>3, TableHas DEF LegalTrace
  <2>2. PICK H : ChainTo(H, R, t, n, h)
    BY DEF Checked
  <2>3. /\ S \in Seq(Units) /\ Len(S) = n + 1
        /\ S[n + 1] = new.bp /\ \A j \in 1 .. n : S[j] = R[j]
        /\ Step(h, m, S, t, n + 1)
        /\ \E G : ChainTo(G, S, t, n + 1, m)
    <3>1. R \in Seq(Units) /\ Len(R) = n
      BY DEF Checked
    <3>2. SoundAs(h, Blocks(h), Held(R, t, n)) /\ Apart(R, t, n)
      BY <1>3, <1>5
    <3>3. o.type # "a" => bp = R[LastOf(t, n, o.index)]
      BY <1>7
    <3> HIDE DEF cp
    <3>4. S \in Seq(Units) /\ Len(S) = n + 1 /\ S[n + 1] = new.bp /\ \A j \in 1 .. n : S[j] = R[j]
      BY <1>1, <2>1, <3>1
    <3>5. m = AfterCall(o, new)
      OBVIOUS
    <3> HIDE DEF S, m
    <3> DEFINE k == n + 1
    <3>6. Follows(k, n) /\ o = t[k] /\ S[k] = new.bp /\ Agree(S, R, n)
      BY <1>1, <3>4 DEF Follows, Agree
    <3> HIDE DEF k
    <3>7. Step(h, m, S, t, k)
      BY <1>10, <3>2, <3>3, <3>5, <3>6, StepTaken
    <3>8. \E G : ChainTo(G, S, t, k, m)
      BY <2>2, <3>6, <3>7, ChainGrows
    <3> QED BY <3>4, <3>7, <3>8 DEF k
  <2> HIDE DEF S, m
  <2>4. Framed(m) /\ Apart(S, t, n + 1)
    <3>1. \A j \in 1 .. (n + 1 - 1) : S[j] \in Units
      BY <1>1, <1>2, <2>3
    <3> QED BY <1>1, <2>3, <3>1, StepGives
  <2>5. Points([b EXCEPT ![o.index] = new.bp], S, t, n + 1)
    <3>1. Points([b EXCEPT ![t[n + 1].index] = S[n + 1]], S, t, n + 1)
      BY <1>1, <1>3, <2>0, <2>3, PointsNext
    <3> QED BY <2>3, <3>1
  <2>6. Measures([z EXCEPT ![o.index] = IF o.type = "f" THEN @ ELSE o.size], t, n + 1)
    BY <1>1, <1>3, <2>0, MeasuresNext
  <2>7. /\ Table([b EXCEPT ![o.index] = new.bp], t)
        /\ Table([z EXCEPT ![o.index] = IF o.type = "f" THEN @ ELSE o.size], t)
    <3>1. (IF o.type = "f" THEN z[o.index] ELSE o.size) \in Nat
      BY <2>0, <2>1
    <3> QED BY <1>3, <2>1, <3>1, TableExcept
  <2>8. Checked(m, [b EXCEPT ![o.index] = new.bp],
                [z EXCEPT ![o.index] = IF o.type = "f" THEN @ ELSE o.size], S, t, n + 1)
    <3>1. n + 1 \in 0 .. Len(t)
      BY <1>1
    <3> QED BY <2>3, <2>4, <2>5, <2>6, <2>7, <3>1 DEF Checked
  <2>9. Held(S, t, n + 1) = LiveBy(l, o, bp, new.bp)
    <3>1. Held(S, t, n) = l /\ Apart(S, t, n)
      BY <1>1, <1>3, <2>3, HeldSame
    <3> DEFINE dp == S[LastOf(t, n, o.index)]
    <3>2. o.type # "a" => dp = cp
      <4>1. o.type # "a" => LastOf(t, n, o.index) \in 1 .. n
        BY <1>1, InUseWhenTaken
      <4> QED BY <2>3, <4>1
    <3>3. Held(S, t, n + 1) = LiveBy(l, o, dp, S[n + 1])
      BY <1>1, <3>1, HeldNext
    <3> HIDE DEF dp, cp
    <3>4. KeptBy(l, o, dp) = KeptBy(l, o, bp)
      BY <1>7, <3>2 DEF KeptBy
    <3> QED BY <2>3, <3>3, <3>4 DEF LiveBy
  <2> QED BY <2>8, <2>9
<1> QED BY <1>4, <1>5, <1>8, <1>9, <1>10

\* A replay starts on an empty heap, whatever is in memory.
LEMMA ReplayStart ==
    ASSUME NEW t, LegalTrace(t), NEW b, Table(b, t), NEW R \in Seq(Units), Len(R) = Len(t),
           NEW H, ChainOK(H, R, t, Len(t)), NEW h \in Heap
    PROVE  Replayed(EmptyHeap(h), b, R, t, 0)
<1>1. PICK g \in Heap : H[1] = EmptyHeap(g)
  BY DEF ChainOK
<1>2. Blocks(EmptyHeap(g)) = {heap_listp} /\ Twin(EmptyHeap(g), EmptyHeap(h), {heap_listp})
  BY EmptyTwins
<1>3. Points(b, R, t, 0)
  BY NothingYet
<1>4. EmptyHeap(h) \in Heap
  BY EmptyHeapIsSound DEF SoundAs, HeapOK, Tiling
<1>5. Twin(H[0 + 1], EmptyHeap(h), Blocks(H[0 + 1])) /\ EmptyHeap(h).brk = H[0 + 1].brk
  <2> DEFINE first == H[0 + 1]
  <2>1. first = EmptyHeap(g)
    BY <1>1
  <2> HIDE DEF first
  <2>2. Twin(first, EmptyHeap(h), Blocks(first))
    BY <1>2, <2>1
  <2>3. EmptyHeap(h).brk = first.brk
    BY <2>2 DEF Twin
  <2> QED BY <2>2, <2>3 DEF first
<1>6. 0 \in 0 .. Len(t)
  <2>1. Len(t) \in Nat
    BY DEF LegalTrace
  <2> QED BY <2>1
<1> QED BY <1>3, <1>4, <1>5, <1>6 DEF Replayed

\* A request of a later replay: it gets what the checked replay got.
LEMMA ReplayStep ==
    ASSUME NEW t, LegalTrace(t), NEW h, NEW b, NEW R, NEW n, Replayed(h, b, R, t, n), n < Len(t),
           NEW o, o = t[n + 1], NEW bp, bp = b[o.index], NEW new, new = CallOn(h, o, bp)
    PROVE  /\ new.bp # NULL /\ new.bp \in Units
           /\ ~(o.type = "r" /\ Moves(h, bp, BodySize(o.size)) /\ MoveTo(h, BodySize(o.size)).bp = NULL)
           /\ Replayed(new.heap, [b EXCEPT ![o.index] = new.bp], R, t, n + 1)
           /\ h.brk \in Nat /\ new.heap.brk \in Nat /\ h.brk <= new.heap.brk
           /\ Total(t, n + 1) <= 8 * new.heap.brk
<1>1. n \in Nat /\ n \in 0 .. Len(t) /\ n + 1 \in 1 .. Len(t) /\ n + 1 - 1 = n /\ Len(t) \in Nat
  <2>1. Len(t) \in Nat /\ n \in 0 .. Len(t)
    BY DEF LegalTrace, Replayed
  <2> QED BY <2>1
<1>2. \A k \in 1 .. Len(t) : R[k] \in Units
  BY DEF Replayed
<1>3. PICK H : /\ ChainOK(H, R, t, Len(t)) /\ h.brk = H[n + 1].brk
               /\ Twin(H[n + 1], h, Blocks(H[n + 1]))
  BY DEF Replayed
<1> DEFINE before == H[n + 1]
           after == H[n + 1 + 1]
<1>4. Step(before, after, R, t, n + 1)
  BY <1>1, <1>3 DEF ChainOK
<1> HIDE DEF before, after
<1> DEFINE cp == R[LastOf(t, n, o.index)]
           gew == CallOn(h, o, cp)
<1>5. o \in Request /\ o.index \in DOMAIN b
  <2>1. t \in Seq(Request)
    BY DEF LegalTrace
  <2>2. o \in Request
    BY <1>1, <2>1
  <2>3. Table(b, t)
    BY DEF Replayed
  <2> QED BY <1>1, <2>1, <2>2, <2>3, TableHas
<1>6. o.type # "a" => bp = cp
  <2>1. o.type # "a" => LastOf(t, n, o.index) \in 1 .. n
    BY <1>1, InUseWhenTaken
  <2> QED BY <1>5, <2>1 DEF Points, Replayed
<1> HIDE DEF cp
<1>7. new = gew
  BY <1>6, CallSame
<1> HIDE DEF gew
<1>8. /\ gew.bp = R[n + 1] /\ gew.bp # NULL /\ gew.heap \in Heap /\ gew.heap.brk = after.brk
      /\ SoundAs(after, Blocks(after), Held(R, t, n + 1)) => Twin(after, gew.heap, Blocks(after))
      /\ ~(o.type = "r" /\ Moves(h, cp, BodySize(o.size)) /\ MoveTo(h, BodySize(o.size)).bp = NULL)
  <2>1. Twin(before, h, Blocks(before))
    BY <1>3 DEF before
  <2>2. gew = CallOn(h, o, cp) /\ cp = R[LastOf(t, n + 1 - 1, o.index)]
    BY <1>1 DEF gew, cp
  <2> QED BY <1>1, <1>4, <2>1, <2>2, StepTwin
<1>9. /\ before.brk \in Nat /\ after.brk \in Nat /\ before.brk <= after.brk
      /\ Total(t, n + 1) <= 8 * after.brk
  <2>1. \A j \in 1 .. (n + 1 - 1) : R[j] \in Units
    BY <1>1, <1>2
  <2> QED BY <1>1, <1>4, <2>1, StepGives
<1>10. n + 1 < Len(t) => Twin(H[n + 1 + 1], gew.heap, Blocks(H[n + 1 + 1]))
  <2>1. ASSUME n + 1 < Len(t)
        PROVE  SoundAs(after, Blocks(after), Held(R, t, n + 1))
    <3>1. n + 2 \in 1 .. Len(t) /\ n + 2 - 1 = n + 1 /\ n + 1 + 1 = n + 2
      BY <1>1, <2>1
    <3>2. Step(H[n + 2], H[n + 2 + 1], R, t, n + 2)
      BY <1>3, <3>1 DEF ChainOK
    <3>3. after = H[n + 2]
      BY <3>1 DEF after
    <3>4. Step(after, H[n + 2 + 1], R, t, n + 2)
      BY <3>2, <3>3
    <3> DEFINE next == n + 2
    <3>5. next - 1 = n + 1
      BY <1>1
    <3>6. Step(after, H[next + 1], R, t, next)
      BY <3>4
    <3> HIDE DEF next
    <3>7. SoundAs(after, Blocks(after), Held(R, t, next - 1))
      BY <3>6 DEF Step
    <3> QED BY <3>5, <3>7
  <2> QED BY <1>8, <2>1 DEF after
<1>11. Points([b EXCEPT ![o.index] = new.bp], R, t, n + 1)
  <2>1. Table(b, t) /\ Points(b, R, t, n)
    BY DEF Replayed
  <2>2. Points([b EXCEPT ![t[n + 1].index] = R[n + 1]], R, t, n + 1)
    BY <1>1, <1>5, <2>1, PointsNext
  <2> QED BY <1>7, <1>8, <2>2
<1>12. new.bp \in Units /\ Table([b EXCEPT ![o.index] = new.bp], t)
  <2>1. new.bp \in Units
    BY <1>1, <1>2, <1>7, <1>8
  <2>2. new.bp \in Nat /\ Table(b, t)
    BY <2>1, UnitsAreNaturals DEF Replayed
  <2> QED BY <2>1, <2>2, TableExcept
<1>13. Replayed(new.heap, [b EXCEPT ![o.index] = new.bp], R, t, n + 1)
  <2>1. n + 1 \in 0 .. Len(t) /\ R \in Seq(Units) /\ Len(R) = Len(t)
    BY <1>1 DEF Replayed
  <2>2. gew.heap.brk = H[n + 1 + 1].brk
    BY <1>8 DEF after
  <2> QED BY <1>3, <1>7, <1>8, <1>10, <1>11, <1>12, <2>1, <2>2 DEF Replayed
<1>14. ~(o.type = "r" /\ Moves(h, bp, BodySize(o.size)) /\ MoveTo(h, BodySize(o.size)).bp = NULL)
  BY <1>6, <1>8
<1> QED BY <1>3, <1>7, <1>8, <1>9, <1>12, <1>13, <1>14 DEF before

-----------------------------------------------------------------------------
(* The list of ranges. *)

Interval == [lo : Int, hi : Int]

\* Newer before older, and only a newer one may contain another.
InTurn(new, old) == new.hi < old.lo \/ old.hi < new.lo \/ (new.lo < old.lo /\ old.hi < new.hi)
RangesRight(g, l) ==
    /\ g \in Seq(Interval) /\ \A k \in DOMAIN g : g[k].lo <= g[k].hi
    /\ ToSet(g) = {RangeOf(p.ptr, p.size) : p \in l}
    /\ \A j, k \in DOMAIN g : j < k => InTurn(g[j], g[k])

LEMMA IntervalsAre ==
    ASSUME NEW g \in Seq(Interval), \A k \in DOMAIN g : g[k].lo <= g[k].hi
    PROVE  \A k \in 1 .. Len(g) : g[k].lo \in Int /\ g[k].hi \in Int /\ g[k].lo <= g[k].hi
<1> TAKE k \in 1 .. Len(g)
<1>1. g[k] \in Interval /\ k \in DOMAIN g
  OBVIOUS
<1>2. g[k].lo \in Int /\ g[k].hi \in Int
  BY <1>1 DEF Interval
<1> QED BY <1>1, <1>2

\* q is s without its element m.
Removed(q, s, m) ==
    Len(q) = Len(s) - 1 /\ \A k \in 1 .. Len(q) : q[k] = IF k < m THEN s[k] ELSE s[k + 1]

LEMMA RemoveAtRemoves ==
    ASSUME NEW S, NEW s \in Seq(S), NEW m \in 1 .. Len(s), NEW q, q = RemoveAt(s, m)
    PROVE  q \in Seq(S) /\ Removed(q, s, m)
<1> DEFINE a == SubSeq(s, 1, m - 1)
           b == SubSeq(s, m + 1, Len(s))
<1>1. m \in Nat /\ Len(s) \in Nat /\ 1 <= m /\ m <= Len(s)
  OBVIOUS
<1>2. /\ a \in Seq(S) /\ Len(a) = m - 1
      /\ \A k \in 1 .. (m - 1) : a[k] = s[k]
  <2>1. \A k \in 1 .. (m - 1) : s[k] \in S
    BY <1>1
  <2>2. /\ a \in Seq(S)
        /\ Len(a) = IF 1 <= m - 1 THEN m - 1 - 1 + 1 ELSE 0
        /\ \A k \in 1 .. (m - 1 - 1 + 1) : a[k] = s[1 + k - 1]
    BY <1>1, <2>1, SubSeqProperties
  <2> HIDE DEF a
  <2> QED BY <1>1, <2>2
<1>3. /\ b \in Seq(S) /\ Len(b) = Len(s) - m
      /\ \A k \in 1 .. (Len(s) - m) : b[k] = s[m + k]
  <2>1. \A k \in (m + 1) .. Len(s) : s[k] \in S
    BY <1>1
  <2>2. m + 1 \in Int /\ Len(s) \in Int
    BY <1>1
  <2>3. /\ b \in Seq(S)
        /\ Len(b) = IF m + 1 <= Len(s) THEN Len(s) - (m + 1) + 1 ELSE 0
        /\ \A k \in 1 .. (Len(s) - (m + 1) + 1) : b[k] = s[m + 1 + k - 1]
    BY <2>1, <2>2, SubSeqProperties
  <2> HIDE DEF b
  <2>4. Len(b) = Len(s) - m
    <3>1. CASE m + 1 <= Len(s)
      BY <1>1, <2>3, <3>1
    <3>2. CASE ~(m + 1 <= Len(s))
      <4>1. Len(b) = 0
        BY <2>3, <3>2
      <4> QED BY <1>1, <3>2, <4>1
    <3> QED BY <3>1, <3>2
  <2>5. \A k \in 1 .. (Len(s) - m) : b[k] = s[m + k]
    <3> TAKE k \in 1 .. (Len(s) - m)
    <3>1. k \in 1 .. (Len(s) - (m + 1) + 1) /\ m + 1 + k - 1 = m + k
      BY <1>1
    <3> QED BY <2>3, <3>1
  <2> QED BY <2>3, <2>4, <2>5
<1>4. q = a \o b
  BY DEF RemoveAt
<1> HIDE DEF a, b
<1>5. /\ q \in Seq(S)
      /\ Len(q) = Len(a) + Len(b)
      /\ \A k \in 1 .. Len(a) + Len(b) : q[k] = IF k <= Len(a) THEN a[k] ELSE b[k - Len(a)]
  <2>1. a \in Seq(S) /\ b \in Seq(S)
    BY <1>2, <1>3
  <2>2. /\ a \o b \in Seq(S) /\ Len(a \o b) = Len(a) + Len(b)
        /\ \A k \in 1 .. Len(a) + Len(b) : (a \o b)[k] = IF k <= Len(a) THEN a[k] ELSE b[k - Len(a)]
    BY <2>1, ConcatProperties
  <2> QED BY <1>4, <2>2
<1>6. Len(q) = Len(s) - 1
  BY <1>1, <1>2, <1>3, <1>5
<1>7. ASSUME NEW k \in 1 .. Len(q)
      PROVE  q[k] = IF k < m THEN s[k] ELSE s[k + 1]
  <2>1. k \in 1 .. Len(a) + Len(b) /\ k \in Nat /\ 1 <= k /\ k <= Len(s) - 1
    BY <1>1, <1>5, <1>6
  <2>2. CASE k < m
    <3>1. k <= Len(a) /\ k \in 1 .. (m - 1)
      BY <1>1, <1>2, <2>1, <2>2
    <3>2. q[k] = a[k] /\ a[k] = s[k]
      BY <1>2, <1>5, <2>1, <3>1
    <3> QED BY <2>2, <3>2
  <2>3. CASE ~(k < m)
    <3> DEFINE x == k - Len(a)
    <3>1. ~(k <= Len(a)) /\ x \in 1 .. (Len(s) - m) /\ m + x = k + 1
      BY <1>1, <1>2, <2>1, <2>3
    <3>2. q[k] = b[x]
      BY <1>5, <2>1, <3>1
    <3>3. b[x] = s[m + x]
      BY <1>3, <3>1
    <3> HIDE DEF x
    <3> QED BY <2>3, <3>1, <3>2, <3>3
  <2> QED BY <2>2, <2>3
<1> QED BY <1>5, <1>6, <1>7 DEF Removed

\* remove_range takes out the payload's range and no other.
LEMMA RangesRemoved ==
    ASSUME NEW g, NEW l, l \subseteq Payload, RangesRight(g, l), NEW r \in l,
           NEW q, q = remove_range(g, r.ptr)
    PROVE  RangesRight(q, {s \in l : s.ptr # r.ptr})
<1> DEFINE lo == 8 * r.ptr
           found == {k \in DOMAIN g : g[k].lo = lo}
           kept == {s \in l : s.ptr # r.ptr}
<1>1. g \in Seq(Interval) /\ Len(g) \in Nat /\ DOMAIN g = 1 .. Len(g)
  BY DEF RangesRight
<1>2. \A k \in 1 .. Len(g) : g[k].lo \in Int /\ g[k].hi \in Int /\ g[k].lo <= g[k].hi
  BY IntervalsAre DEF RangesRight
<1>3. \A p \in l : RangeOf(p.ptr, p.size).lo = 8 * p.ptr /\ p.ptr \in Nat
  BY UnitsAreNaturals DEF RangeOf, ALIGNMENT, Payload
<1>4. \A j, k \in 1 .. Len(g) : g[j].lo = g[k].lo => j = k
  <2> SUFFICES ASSUME NEW j \in 1 .. Len(g), NEW k \in 1 .. Len(g), j < k
               PROVE  g[j].lo # g[k].lo
    BY <1>1
  <2>1. InTurn(g[j], g[k])
    BY <1>1 DEF RangesRight
  <2>2. /\ g[j].lo \in Int /\ g[j].hi \in Int /\ g[j].lo <= g[j].hi
        /\ g[k].lo \in Int /\ g[k].hi \in Int /\ g[k].lo <= g[k].hi
    BY <1>2
  <2> QED BY <2>1, <2>2 DEF InTurn
<1>5. PICK m \in 1 .. Len(g) : g[m] = RangeOf(r.ptr, r.size)
  <2>1. RangeOf(r.ptr, r.size) \in ToSet(g)
    BY DEF RangesRight
  <2> QED BY <1>1, <2>1 DEF ToSet
<1>6. found = {m}
  <2>1. g[m].lo = lo
    BY <1>3, <1>5
  <2> QED BY <1>1, <1>4, <2>1
<1>7. Min(found) = m
  <2>1. found \subseteq Nat /\ found # {}
    BY <1>6
  <2>2. Min(found) \in found
    BY <2>1, MinIsLeast
  <2> QED BY <1>6, <2>2
<1>8. q = RemoveAt(g, m)
  BY <1>6, <1>7 DEF remove_range, ALIGNMENT
<1> HIDE DEF found, kept, lo
<1>9. /\ q \in Seq(Interval) /\ Len(q) = Len(g) - 1
      /\ \A k \in 1 .. Len(q) : q[k] = IF k < m THEN g[k] ELSE g[k + 1]
  <2>1. q \in Seq(Interval) /\ Removed(q, g, m)
    BY <1>1, <1>5, <1>8, RemoveAtRemoves
  <2> QED BY <2>1 DEF Removed
<1> DEFINE old(k) == IF k < m THEN k ELSE k + 1
<1>10. DOMAIN q = 1 .. Len(q) /\ Len(q) \in Nat
  BY <1>9
<1>11. \A k \in 1 .. Len(q) : old(k) \in 1 .. Len(g) /\ old(k) # m /\ q[k] = g[old(k)]
  BY <1>1, <1>9, <1>10
<1>12. \A j, k \in 1 .. Len(q) : j < k => old(j) < old(k)
  BY <1>1, <1>10
<1>13. \A x \in 1 .. Len(g) : x # m => \E k \in 1 .. Len(q) : q[k] = g[x]
  <2> SUFFICES ASSUME NEW x \in 1 .. Len(g), x # m
               PROVE  \E k \in 1 .. Len(q) : q[k] = g[x]
    OBVIOUS
  <2>1. CASE x < m
    <3>1. x \in 1 .. Len(q) /\ q[x] = g[x]
      BY <1>1, <1>9, <1>10, <2>1
    <3> QED BY <3>1
  <2>2. CASE x > m
    <3>1. x - 1 \in 1 .. Len(q) /\ ~(x - 1 < m) /\ x - 1 + 1 = x
      BY <1>1, <1>9, <1>10, <2>2
    <3>2. q[x - 1] = g[x]
      BY <1>9, <3>1
    <3> QED BY <3>1, <3>2
  <2> QED BY <2>1, <2>2
<1> HIDE DEF old
<1>14. \A k \in DOMAIN q : q[k].lo <= q[k].hi
  BY <1>2, <1>10, <1>11
<1>15. \A j, k \in DOMAIN q : j < k => InTurn(q[j], q[k])
  <2> SUFFICES ASSUME NEW j \in 1 .. Len(q), NEW k \in 1 .. Len(q), j < k
               PROVE  InTurn(q[j], q[k])
    BY <1>10
  <2>1. /\ old(j) \in 1 .. Len(g) /\ old(k) \in 1 .. Len(g) /\ old(j) < old(k)
        /\ q[j] = g[old(j)] /\ q[k] = g[old(k)]
    BY <1>11, <1>12
  <2>2. InTurn(g[old(j)], g[old(k)])
    BY <1>1, <2>1 DEF RangesRight
  <2> QED BY <2>1, <2>2
<1>16. ToSet(q) = {RangeOf(p.ptr, p.size) : p \in kept}
  <2>1. ASSUME NEW k \in 1 .. Len(q)
        PROVE  \E p \in kept : q[k] = RangeOf(p.ptr, p.size)
    <3>1. old(k) \in 1 .. Len(g) /\ old(k) # m /\ q[k] = g[old(k)]
      BY <1>11
    <3>2. g[old(k)] \in ToSet(g)
      BY <1>1, <3>1 DEF ToSet
    <3>3. PICK p \in l : g[old(k)] = RangeOf(p.ptr, p.size)
      BY <3>2 DEF RangesRight
    <3>4. p.ptr # r.ptr
      <4>1. g[old(k)].lo # g[m].lo
        BY <1>4, <3>1
      <4> QED BY <1>3, <1>5, <3>3, <4>1
    <3> QED BY <3>1, <3>3, <3>4 DEF kept
  <2>2. ASSUME NEW p \in kept
        PROVE  \E k \in 1 .. Len(q) : q[k] = RangeOf(p.ptr, p.size)
    <3>1. p \in l /\ p.ptr # r.ptr
      BY DEF kept
    <3>2. RangeOf(p.ptr, p.size) \in ToSet(g)
      BY <3>1 DEF RangesRight
    <3>3. PICK x \in 1 .. Len(g) : g[x] = RangeOf(p.ptr, p.size)
      BY <1>1, <3>2 DEF ToSet
    <3>4. x # m
      <4>1. RangeOf(p.ptr, p.size).lo # RangeOf(r.ptr, r.size).lo
        BY <1>3, <3>1
      <4> QED BY <1>5, <3>3, <4>1
    <3> QED BY <1>13, <3>3, <3>4
  <2>3. ToSet(q) = {q[k] : k \in 1 .. Len(q)}
    BY <1>10 DEF ToSet
  <2> QED BY <2>1, <2>2, <2>3
<1> QED BY <1>9, <1>14, <1>15, <1>16 DEF RangesRight, kept

\* add_range puts in front what no range before it meets.
LEMMA RangesAdded ==
    ASSUME NEW g, NEW l, RangesRight(g, l), NEW h, NEW bp \in Nat, NEW size \in Nat \ {0},
           NEW r, r = RangeOf(bp, size), Addable(h, g, r)
    PROVE  RangesRight(<<r>> \o g, l \cup {[ptr |-> bp, size |-> size]})
<1> DEFINE q == <<r>> \o g
           k == l \cup {[ptr |-> bp, size |-> size]}
<1>1. g \in Seq(Interval) /\ Len(g) \in Nat /\ DOMAIN g = 1 .. Len(g)
  BY DEF RangesRight
<1>2. r \in Interval /\ r.lo <= r.hi /\ r.lo \in Int /\ r.hi \in Int
  <2>1. r = [lo |-> 8 * bp, hi |-> 8 * bp + size - 1]
    BY DEF RangeOf, ALIGNMENT
  <2> QED BY <2>1 DEF Interval
<1>3. /\ q \in Seq(Interval) /\ Len(q) = 1 + Len(g)
      /\ \A x \in 1 .. (1 + Len(g)) : q[x] = IF x <= 1 THEN <<r>>[x] ELSE g[x - 1]
  <2>1. <<r>> \in Seq(Interval) /\ Len(<<r>>) = 1
    BY <1>2
  <2> DEFINE s == <<r>>
  <2> HIDE DEF s
  <2>2. s \in Seq(Interval) /\ Len(s) = 1
    BY <2>1 DEF s
  <2>3. /\ s \o g \in Seq(Interval) /\ Len(s \o g) = Len(s) + Len(g)
        /\ \A x \in 1 .. Len(s) + Len(g) : (s \o g)[x] = IF x <= Len(s) THEN s[x] ELSE g[x - Len(s)]
    BY <1>1, <2>2, ConcatProperties
  <2>4. /\ s \o g \in Seq(Interval) /\ Len(s \o g) = 1 + Len(g)
        /\ \A x \in 1 .. (1 + Len(g)) : (s \o g)[x] = IF x <= 1 THEN s[x] ELSE g[x - 1]
    BY <2>2, <2>3
  <2> QED BY <2>4 DEF s
<1> HIDE DEF q, k
<1>4. DOMAIN q = 1 .. (1 + Len(g)) /\ q[1] = r
  BY <1>1, <1>3
<1>5. \A x \in 1 .. (1 + Len(g)) : x # 1 => x - 1 \in 1 .. Len(g) /\ q[x] = g[x - 1]
  BY <1>1, <1>3
<1>6. \A x \in 1 .. Len(g) : x + 1 \in 1 .. (1 + Len(g)) /\ q[x + 1] = g[x]
  <2> TAKE x \in 1 .. Len(g)
  <2>1. x + 1 \in 1 .. (1 + Len(g)) /\ x + 1 # 1 /\ x + 1 - 1 = x
    BY <1>1
  <2> QED BY <1>5, <2>1
<1>7. \A x \in DOMAIN q : q[x].lo <= q[x].hi
  <2>1. \A x \in 1 .. Len(g) : g[x].lo <= g[x].hi
    BY <1>1 DEF RangesRight
  <2> QED BY <1>2, <1>4, <1>5, <2>1
<1>8. \A x \in 1 .. Len(g) : InTurn(r, g[x])
  <2> TAKE x \in 1 .. Len(g)
  <2>1. g[x].lo \in Int /\ g[x].hi \in Int /\ g[x].lo <= g[x].hi
    BY IntervalsAre DEF RangesRight
  <2>2. ~Hits(r.lo, r.hi, g[x])
    BY <1>1 DEF Addable, ToSet
  <2> QED BY <1>2, <2>1, <2>2 DEF Hits, InTurn
<1>9. \A x, y \in DOMAIN q : x < y => InTurn(q[x], q[y])
  <2> SUFFICES ASSUME NEW x \in 1 .. (1 + Len(g)), NEW y \in 1 .. (1 + Len(g)), x < y
               PROVE  InTurn(q[x], q[y])
    BY <1>4
  <2>1. y # 1
    BY <1>1
  <2>2. y - 1 \in 1 .. Len(g) /\ q[y] = g[y - 1]
    BY <1>5, <2>1
  <2>3. CASE x = 1
    BY <1>4, <1>8, <2>2, <2>3
  <2>4. CASE x # 1
    <3>1. x - 1 \in 1 .. Len(g) /\ q[x] = g[x - 1] /\ x - 1 < y - 1
      BY <1>1, <1>5, <2>4
    <3>2. InTurn(g[x - 1], g[y - 1])
      BY <1>1, <2>2, <3>1 DEF RangesRight
    <3> QED BY <2>2, <3>1, <3>2
  <2> QED BY <2>3, <2>4
<1>10. ToSet(q) = ToSet(g) \cup {r}
  <2>1. \A x \in DOMAIN q : q[x] \in ToSet(g) \cup {r}
    BY <1>1, <1>4, <1>5 DEF ToSet
  <2>2. r \in ToSet(q)
    <3>1. 1 \in DOMAIN q
      BY <1>1, <1>4
    <3> QED BY <1>4, <3>1 DEF ToSet
  <2>3. \A x \in DOMAIN g : g[x] \in ToSet(q)
    BY <1>1, <1>4, <1>6 DEF ToSet
  <2> QED BY <2>1, <2>2, <2>3 DEF ToSet
<1>11. ToSet(q) = {RangeOf(p.ptr, p.size) : p \in k}
  <2>1. ToSet(g) = {RangeOf(p.ptr, p.size) : p \in l}
    BY DEF RangesRight
  <2>2. {RangeOf(p.ptr, p.size) : p \in k} = {RangeOf(p.ptr, p.size) : p \in l} \cup {r}
    <3> DEFINE c == [ptr |-> bp, size |-> size]
    <3>1. c.ptr = bp /\ c.size = size
      OBVIOUS
    <3>2. k = l \cup {c} /\ RangeOf(c.ptr, c.size) = r
      BY <3>1 DEF k
    <3> HIDE DEF c
    <3> QED BY <3>2
  <2> QED BY <1>10, <2>1, <2>2
<1> QED BY <1>3, <1>7, <1>9, <1>11 DEF RangesRight, q, k

\* The list at the start of a trace.
LEMMA RangesCleared ==
    ASSUME NEW g
    PROVE  RangesRight(clear_ranges(g), {})
<1>1. clear_ranges(g) = <<>>
  BY DEF clear_ranges
<1> QED BY <1>1 DEF RangesRight, ToSet

-----------------------------------------------------------------------------
(* One request of each replay. *)

\* The largest of two numbers.
LEMMA MaxOfTwo ==
    ASSUME NEW a \in Nat, NEW b \in Nat
    PROVE  Max({a, b}) \in {a, b} /\ a <= Max({a, b}) /\ b <= Max({a, b})
<1> DEFINE S == {a, b}
<1>1. a + b \in Nat /\ S \subseteq 0 .. (a + b) /\ S # {}
  OBVIOUS
<1>2. a \in S /\ b \in S
  OBVIOUS
<1> HIDE DEF S
<1>3. Max(S) \in S /\ \A x \in S : x <= Max(S)
  BY <1>1, MaxOfInterval
<1> QED BY <1>2, <1>3 DEF S

\* In the checked replay the live payloads are those of the pointers returned.
LEMMA LiveIsHeld ==
    ASSUME NEW t, LegalTrace(t), NEW b, Table(b, t), NEW R, NEW n \in 0 .. Len(t), Points(b, R, t, n)
    PROVE  {[ptr |-> b[id], size |-> t[LastOf(t, n, id)].size] : id \in {id \in DOMAIN b : InUse(t, n, id)}}
             = Held(R, t, n)
<1>1. {id \in DOMAIN b : InUse(t, n, id)} = {id \in Nat : InUse(t, n, id)}
  BY TableHas DEF LegalTrace
<1>2. \A id \in DOMAIN b : InUse(t, n, id) => b[id] = R[LastOf(t, n, id)]
  BY DEF Points, InUse
<1>3. \A id \in {id \in DOMAIN b : InUse(t, n, id)} :
        [ptr |-> b[id], size |-> t[LastOf(t, n, id)].size] = PayloadOf(R, t, n, id)
  BY <1>2 DEF PayloadOf
<1> QED BY <1>1, <1>3 DEF Held

RangesLeft(g, o, bp) == IF o.type = "a" THEN g ELSE remove_range(g, bp)
RangesNow(g, o, bp, new) ==
    IF o.type = "f" THEN RangesLeft(g, o, bp)
    ELSE <<RangeOf(new.bp, o.size)>> \o RangesLeft(g, o, bp)

\* The list of ranges follows the payloads.
LEMMA RangesFollow ==
    ASSUME NEW l, l \subseteq Payload, NEW o, NEW bp, Asks(l, o, bp), NEW g, RangesRight(g, l),
           NEW new, new.bp \in Units,
           o.type # "f" => Addable(new.heap, RangesLeft(g, o, bp), RangeOf(new.bp, o.size))
    PROVE  RangesRight(RangesNow(g, o, bp, new), LiveBy(l, o, bp, new.bp))
<1> DEFINE k == RangesLeft(g, o, bp)
           m == KeptBy(l, o, bp)
<1>1. RangesRight(k, m)
  <2>1. CASE o.type = "a"
    BY <2>1 DEF RangesLeft, KeptBy
  <2>2. CASE o.type # "a"
    <3>1. PICK r \in l : r.ptr = bp
      BY <2>2 DEF Asks
    <3>2. RangesRight(remove_range(g, r.ptr), {s \in l : s.ptr # r.ptr})
      BY RangesRemoved
    <3> QED BY <2>2, <3>1, <3>2 DEF RangesLeft, KeptBy
  <2> QED BY <2>1, <2>2
<1>2. CASE o.type = "f"
  <2>1. LiveBy(l, o, bp, new.bp) = m /\ RangesNow(g, o, bp, new) = k
    BY <1>2 DEF LiveBy, RangesNow
  <2> QED BY <1>1, <2>1
<1>3. CASE o.type # "f"
  <2>1. o.size \in Nat \ {0} /\ new.bp \in Nat
    <3>1. o.size \in Nat /\ o.size > 0
      BY <1>3 DEF Asks, Request
    <3> QED BY <3>1, UnitsAreNaturals
  <2>2. LiveBy(l, o, bp, new.bp) = m \cup {[ptr |-> new.bp, size |-> o.size]}
    BY <1>3 DEF LiveBy
  <2>3. RangesNow(g, o, bp, new) = <<RangeOf(new.bp, o.size)>> \o k
    BY <1>3 DEF RangesNow
  <2>4. Addable(new.heap, k, RangeOf(new.bp, o.size))
    BY <1>3
  <2> HIDE DEF k, m
  <2>5. RangesRight(<<RangeOf(new.bp, o.size)>> \o k, m \cup {[ptr |-> new.bp, size |-> o.size]})
    BY <1>1, <2>1, <2>4, RangesAdded
  <2> QED BY <2>2, <2>3, <2>5
<1> QED BY <1>2, <1>3

Sized(z, o) == [z EXCEPT ![o.index] = IF o.type = "f" THEN @ ELSE o.size]

\* CheckedStep and ReplayStep, with the number k of the request.
LEMMA CheckedRequest ==
    ASSUME NEW t, LegalTrace(t), NEW h, NEW b, NEW z, NEW R, NEW n, Checked(h, b, z, R, t, n),
           NEW k, Follows(k, n), n < Len(t), NEW l, l = Held(R, t, n), SoundHeap(h, l),
           NEW o, o = t[k], NEW bp, bp = b[o.index], NEW new, new = CallOn(h, o, bp)
    PROVE  /\ Asks(l, o, bp) /\ SoundAs(h, Blocks(h), l) /\ l \subseteq Payload /\ Unique(l)
           /\ RequestIsRight(new, h, l, o, bp)
           /\ new.bp # NULL =>
                /\ Checked(AfterCall(o, new), [b EXCEPT ![o.index] = new.bp], Sized(z, o),
                           Append(R, new.bp), t, k)
                /\ Held(Append(R, new.bp), t, k) = LiveBy(l, o, bp, new.bp)
<1>1. k = n + 1
  BY DEF Follows
<1>2. o = t[n + 1]
  BY <1>1
<1> QED BY <1>1, <1>2, CheckedStep DEF Sized

\* A request of a later replay: the pointer is that of the checked one.
LEMMA ReplayRequest ==
    ASSUME NEW t, LegalTrace(t), NEW h, NEW b, NEW R, NEW n, Replayed(h, b, R, t, n),
           NEW k, Follows(k, n), n < Len(t),
           NEW o, o = t[k], NEW bp, bp = b[o.index], NEW new, new = CallOn(h, o, bp)
    PROVE  /\ new.bp # NULL /\ new.bp \in Units
           /\ ~(o.type = "r" /\ Moves(h, bp, BodySize(o.size)) /\ MoveTo(h, BodySize(o.size)).bp = NULL)
           /\ Replayed(new.heap, [b EXCEPT ![o.index] = new.bp], R, t, k)
           /\ h.brk \in Nat /\ new.heap.brk \in Nat /\ h.brk <= new.heap.brk
           /\ Total(t, k) <= 8 * new.heap.brk
<1>1. k = n + 1
  BY DEF Follows
<1>2. o = t[n + 1]
  BY <1>1
<1> QED BY <1>1, <1>2, ReplayStep

\* An accepted request of eval_mm_valid.
LEMMA AcceptedRequest ==
    ASSUME NEW t, LegalTrace(t), NEW h, NEW b, NEW z, NEW R, NEW n, Checked(h, b, z, R, t, n),
           NEW k, Follows(k, n), n < Len(t), SoundHeap(h, Held(R, t, n)),
           NEW g, RangesRight(g, Held(R, t, n)),
           NEW o, o = t[k], NEW bp, bp = b[o.index], NEW new, new = CallOn(h, o, bp), new.bp # NULL,
           o.type # "f" => Addable(new.heap, RangesLeft(g, o, bp), RangeOf(new.bp, o.size))
    PROVE  /\ AfterCall(o, new) \in Heap
           /\ Checked(AfterCall(o, new), [b EXCEPT ![o.index] = new.bp], Sized(z, o),
                      Append(R, new.bp), t, k)
           /\ RangesRight(RangesNow(g, o, bp, new), Held(Append(R, new.bp), t, k))
<1> DEFINE l == Held(R, t, n)
<1>1. RangesRight(g, l) /\ SoundHeap(h, l)
  OBVIOUS
<1> HIDE DEF l
<1>2. /\ Asks(l, o, bp) /\ l \subseteq Payload /\ RequestIsRight(new, h, l, o, bp)
      /\ Checked(AfterCall(o, new), [b EXCEPT ![o.index] = new.bp], Sized(z, o),
                 Append(R, new.bp), t, k)
      /\ Held(Append(R, new.bp), t, k) = LiveBy(l, o, bp, new.bp)
  BY <1>1, CheckedRequest DEF l
<1>3. new.bp \in Units /\ AfterCall(o, new) \in Heap
  BY <1>2 DEF RequestIsRight, Framed
<1>4. RangesRight(RangesNow(g, o, bp, new), LiveBy(l, o, bp, new.bp))
  BY <1>1, <1>2, <1>3, RangesFollow
<1> QED BY <1>2, <1>3, <1>4

Changed(z, o) ==
    CASE o.type = "a" -> o.size
      [] o.type = "r" -> o.size - z[o.index]
      [] o.type = "f" -> 0 - z[o.index]

\* A request of eval_mm_util: the sum is that of the payloads in use.
LEMMA UtilizedRequest ==
    ASSUME NEW t, LegalTrace(t), NEW h, NEW z, NEW s, NEW n \in Nat, Utilized(h, z, s, t, n),
           n < Len(t), NEW k, Follows(k, n), NEW o, o = t[k],
           NEW m, h.brk \in Nat, m.brk \in Nat, h.brk <= m.brk, Total(t, k) <= 8 * m.brk,
           NEW x, x = s.total_size + Changed(z, o)
    PROVE  Utilized(m, Sized(z, o), [total_size |-> x, max_total_size |-> Max({x, s.max_total_size})], t, k)
<1> DEFINE was == SizeAt(t, n, o.index)
           now == IF o.type = "f" THEN 0 ELSE o.size
           most == s.max_total_size
<1>1. k = n + 1 /\ k \in 1 .. Len(t) /\ k - 1 = n /\ Len(t) \in Nat
  BY DEF Follows, LegalTrace
<1>2. t \in Seq(Request) /\ o \in Request
  BY <1>1 DEF LegalTrace
<1>3. o.type \in {"a", "r", "f"} /\ o.size \in Nat /\ o.index \in DOMAIN z /\ z[o.index] \in Nat
  <2>1. Table(z, t)
    BY DEF Utilized
  <2>2. o.index \in DOMAIN z /\ z[o.index] \in Nat
    BY <1>1, <1>2, <2>1, TableHas
  <2> QED BY <1>2, <2>2 DEF Request
<1>4. /\ Total(t, k - 1) \in Nat
      /\ Total(t, k) = Total(t, k - 1) - SizeAt(t, k - 1, o.index) + IF o.type = "f" THEN 0 ELSE o.size
      /\ o.type = "a" => SizeAt(t, k - 1, o.index) = 0
  BY <1>1, TotalNext
<1>5. /\ Total(t, n) \in Nat /\ Total(t, k) = Total(t, n) - was + now
      /\ o.type = "a" => was = 0
  BY <1>1, <1>4
<1>6. o.type # "a" => was = z[o.index]
  <2>1. k \in DOMAIN t
    BY <1>1, <1>2
  <2>2. o.type # "a" => InUse(t, k - 1, o.index)
    BY <1>3, <2>1 DEF LegalTrace
  <2>3. o.type # "a" => InUse(t, n, o.index)
    BY <1>1, <2>2
  <2> QED BY <1>3, <2>3 DEF Utilized, Measures, SizeAt
<1>7. Total(t, k) \in Nat
  <2>1. k \in 0 .. Len(t)
    BY <1>1
  <2> QED BY <2>1, SizeIsNat
<1>8. s.total_size = Total(t, n) /\ most \in Nat /\ most <= 8 * h.brk
  BY DEF Utilized
<1>9. Table(z, t) /\ Measures(z, t, n)
  BY DEF Utilized
<1>10. was \in Nat
  <2>1. CASE o.type = "a"
    BY <1>5, <2>1
  <2>2. CASE o.type # "a"
    BY <1>3, <1>6, <1>9, <2>2
  <2> QED BY <2>1, <2>2
<1> HIDE DEF was, most
<1>11. x = Total(t, k)
  <2>1. CASE o.type = "a"
    <3>1. Changed(z, o) = o.size /\ was = 0 /\ now = o.size
      BY <1>5, <2>1 DEF Changed
    <3> HIDE DEF now
    <3> QED BY <1>3, <1>5, <1>8, <3>1
  <2>2. CASE o.type = "r"
    <3>1. Changed(z, o) = o.size - z[o.index] /\ was = z[o.index] /\ now = o.size
      BY <1>6, <2>2 DEF Changed
    <3> HIDE DEF now
    <3> QED BY <1>3, <1>5, <1>8, <1>10, <3>1
  <2>3. CASE o.type = "f"
    <3>1. Changed(z, o) = 0 - z[o.index] /\ was = z[o.index] /\ now = 0
      BY <1>6, <2>3 DEF Changed
    <3> HIDE DEF now
    <3> QED BY <1>3, <1>5, <1>8, <1>10, <3>1
  <2> QED BY <1>3, <2>1, <2>2, <2>3
<1>12. Max({x, most}) \in Nat /\ Max({x, most}) <= 8 * m.brk
  <2>1. x \in Nat /\ x <= 8 * m.brk /\ most <= 8 * m.brk
    BY <1>7, <1>8, <1>11
  <2>2. Max({x, most}) \in {x, most}
    BY <1>8, <2>1, MaxOfTwo
  <2> QED BY <1>8, <2>1, <2>2
<1>13. Measures(Sized(z, o), t, k)
  <2>1. o = t[n + 1]
    BY <1>1
  <2>2. Measures(Sized(z, o), t, n + 1)
    BY <1>3, <1>9, <2>1, MeasuresNext DEF Sized
  <2> QED BY <1>1, <2>2
<1>14. Table(Sized(z, o), t)
  <2>1. (IF o.type = "f" THEN z[o.index] ELSE o.size) \in Nat
    BY <1>3
  <2> QED BY <1>9, <2>1, TableExcept DEF Sized
<1> QED BY <1>11, <1>12, <1>13, <1>14 DEF Utilized, most

-----------------------------------------------------------------------------
(* The invariant of the driver. *)

Phases == {"start", "read", "abort", "valid", "util", "speed", "next", "results", "crashed", "app_error"}

\* What holds at request n + 1 of a trace.
Replaying(p, h, b, z, R, g, s, t, n) ==
    /\ p = "valid" => Checked(h, b, z, R, t, n) /\ RangesRight(g, Held(R, t, n))
    /\ p \in {"util", "speed"} => Replayed(h, b, R, t, n)
    /\ p = "util" => Utilized(h, z, s, t, n)
    /\ p \in {"app_error", "crashed"} => Len(R) < Len(t)

Figures == [valid : BOOLEAN, max_total_size : Nat, heapsize : Nat]
Reported(f) == f \in Seq(Figures) /\ \A k \in DOMAIN f : f[k].max_total_size <= f[k].heapsize
OnTrace(p, list, k) == p # "start" => list \in TraceLists /\ k \in 1 .. Len(list)

DriverInv ==
    /\ heap \in Heap /\ phase \in Phases /\ op \in Nat \ {0}
    /\ phase = "start" => i = 1
    /\ OnTrace(phase, tracefiles, i)
    /\ Replaying(phase, heap, blocks, block_sizes, returned, ranges, sizes, ops, op - 1)
    /\ Reported(stats)

LEMMA EmptyHeapIsHeap ==
    ASSUME NEW h \in Heap
    PROVE  EmptyHeap(h) \in Heap
BY EmptyHeapIsSound DEF SoundAs, HeapOK, Tiling

LEMMA ReportedAppend ==
    ASSUME NEW f \in Seq(Figures), \A k \in DOMAIN f : f[k].max_total_size <= f[k].heapsize,
           NEW x \in Figures, x.max_total_size <= x.heapsize
    PROVE  Reported(Append(f, x))
<1> DEFINE q == Append(f, x)
<1>1. /\ q \in Seq(Figures) /\ Len(f) \in Nat /\ DOMAIN q = 1 .. (Len(f) + 1)
      /\ q[Len(f) + 1] = x /\ \A k \in 1 .. Len(f) : q[k] = f[k] /\ k \in DOMAIN f
  OBVIOUS
<1> HIDE DEF q
<1>2. ASSUME NEW k \in 1 .. (Len(f) + 1)
      PROVE  q[k].max_total_size <= q[k].heapsize
  <2>1. CASE k = Len(f) + 1
    BY <1>1, <2>1
  <2>2. CASE k # Len(f) + 1
    <3>1. k \in 1 .. Len(f)
      BY <1>1, <2>2
    <3>2. q[k] = f[k] /\ k \in DOMAIN f
      BY <1>1, <3>1
    <3> QED BY <3>2
  <2> QED BY <2>1, <2>2
<1>3. Reported(q)
  BY <1>1, <1>2 DEF Reported
<1> QED BY <1>3 DEF q

\* The trace that is replayed is a legal one.
LEMMA OnLegalTrace ==
    ASSUME LegalTraces, DriverInv, phase # "start"
    PROVE  /\ tracefiles \in TraceLists /\ i \in 1 .. Len(tracefiles)
           /\ LegalTrace(ops) /\ Len(ops) \in Nat
<1>1. tracefiles \in TraceLists /\ i \in 1 .. Len(tracefiles)
  BY DEF DriverInv, OnTrace
<1>2. tracefiles \in Seq(Tracefile)
  BY <1>1 DEF LegalTraces
<1>3. i \in DOMAIN tracefiles
  BY <1>1, <1>2
<1>4. LegalTrace(ops)
  BY <1>1, <1>3 DEF LegalTraces, ops, trace
<1>5. ops \in Seq(Request)
  BY <1>4 DEF LegalTrace
<1> QED BY <1>1, <1>4, <1>5

\* The request that is due.
At(p, n) ==
    /\ phase = p /\ Follows(op, n) /\ n < Len(ops) /\ LegalTrace(ops)
    /\ Replaying(p, heap, blocks, block_sizes, returned, ranges, sizes, ops, n)

\* Where a request finds the driver.
LEMMA DueAt ==
    ASSUME LegalTraces, DriverInv, NEW p \in {"valid", "util", "speed"}, Due(p)
    PROVE  \E n \in Nat : n = op - 1 /\ At(p, n)
<1>1. phase = p /\ op \in Nat \ {0} /\ op <= Len(ops)
  BY DEF Due, DriverInv
<1>2. LegalTrace(ops) /\ Len(ops) \in Nat
  BY <1>1, OnLegalTrace
<1>3. PICK n \in Nat : n = op - 1
  BY <1>1
<1>4. Follows(op, n) /\ n < Len(ops)
  BY <1>1, <1>2, <1>3 DEF Follows
<1>5. Replaying(p, heap, blocks, block_sizes, returned, ranges, sizes, ops, n)
  BY <1>1, <1>3 DEF DriverInv
<1> QED BY <1>1, <1>2, <1>3, <1>4, <1>5 DEF At

\* A replay at its end.
LEMMA OverAt ==
    ASSUME LegalTraces, DriverInv, NEW p \in {"valid", "util", "speed"}, Over(p)
    PROVE  /\ phase = p /\ LegalTrace(ops) /\ Len(ops) \in Nat
           /\ op - 1 \in 0 .. Len(ops) => op - 1 = Len(ops)
           /\ Replaying(p, heap, blocks, block_sizes, returned, ranges, sizes, ops, op - 1)
<1>1. phase = p /\ op \in Nat \ {0} /\ op > Len(ops)
  BY DEF Over, DriverInv
<1>2. LegalTrace(ops) /\ Len(ops) \in Nat
  BY <1>1, OnLegalTrace
<1>3. op - 1 \in 0 .. Len(ops) => op - 1 = Len(ops)
  BY <1>1, <1>2
<1> QED BY <1>1, <1>2, <1>3 DEF DriverInv

\* Most steps stay on the trace: then it is enough to show where the replay is.
LEMMA SameTrace ==
    ASSUME DriverInv, phase # "start", UNCHANGED <<tracefiles, i>>,
           heap' \in Heap, phase' \in Phases \ {"start"}, op' \in Nat \ {0},
           NEW n, n = op' - 1,
           Replaying(phase', heap', blocks', block_sizes', returned', ranges', sizes', ops, n),
           Reported(stats')
    PROVE  DriverInv'
<1>1. ops' = ops
  BY DEF ops, trace
<1>2. OnTrace(phase', tracefiles', i')
  BY DEF DriverInv, OnTrace
<1>3. phase' # "start" /\ phase' \in Phases
  OBVIOUS
<1> QED BY <1>1, <1>2, <1>3 DEF DriverInv

LEMMA Restarted ==
    ASSUME op' = 1
    PROVE  op' \in Nat \ {0} /\ 0 = op' - 1
OBVIOUS

-----------------------------------------------------------------------------
(* The actions keep it. *)

LEMMA InitHolds ==
    ASSUME MdriverInit
    PROVE  DriverInv
<1>1. heap \in Heap
  BY ZeroedIsHeap DEF MdriverInit
<1>2. phase = "start" /\ op = 1 /\ i = 1 /\ stats = <<>>
  BY DEF MdriverInit
<1>3. Reported(stats)
  BY <1>2 DEF Reported
<1> QED BY <1>1, <1>2, <1>3 DEF DriverInv, Phases, OnTrace, Replaying

LEMMA StartKeeps ==
    ASSUME LegalTraces, DriverInv, StartDriver
    PROVE  DriverInv'
<1>1. /\ tracefiles' \in TraceLists /\ phase = "start" /\ phase' = "read"
      /\ heap' = heap /\ i' = i /\ op' = op /\ stats' = stats
  BY DEF StartDriver
<1>2. tracefiles' \in Seq(Tracefile) /\ tracefiles' # <<>>
  BY <1>1 DEF LegalTraces
<1>3. i' \in 1 .. Len(tracefiles')
  <2>1. i' = 1
    BY <1>1 DEF DriverInv
  <2>2. Len(tracefiles') \in Nat /\ Len(tracefiles') # 0
    BY <1>2
  <2> QED BY <2>1, <2>2
<1>4. OnTrace(phase', tracefiles', i')
  BY <1>1, <1>3 DEF OnTrace
<1>5. Replaying(phase', heap', blocks', block_sizes', returned', ranges', sizes', ops', op' - 1)
  BY <1>1 DEF Replaying
<1> QED BY <1>1, <1>4, <1>5 DEF DriverInv, Phases

\* The assertion of read_trace about num_ids holds of a trace whose indices are below it.
LEMMA ReadableHasTables ==
    ASSUME LegalTrace(trace.ops), Readable(trace)
    PROVE  Table(NoBlocks, trace.ops)
<1> DEFINE t == trace.ops
           S == {o.index : o \in {o \in ToSet(t) : o.type # "f"}}
           M == {0} \cup S
<1>1. t \in Seq(Request) /\ Len(t) \in Nat /\ DOMAIN t = 1 .. Len(t)
  BY DEF LegalTrace
<1>2. MaxIndex(trace) = Max(M) /\ trace.num_ids - 1 = Max(M)
  BY DEF MaxIndex, Readable
<1> HIDE DEF t
<1>3. \A k \in 1 .. Len(t) : t[k].type # "f" => t[k].index \in M
  BY <1>1 DEF ToSet
<1>4. \A x \in M : x = 0 \/ \E k \in 1 .. Len(t) : x = t[k].index
  BY <1>1 DEF ToSet
<1>5. ASSUME NEW k \in 1 .. Len(t) PROVE t[k].index \in Nat
  <2>1. t[k] \in Request
    BY <1>1
  <2> QED BY <2>1 DEF Request
<1> HIDE DEF M
<1>6. \E n \in Nat : \A k \in 1 .. Len(t) : t[k].index <= n
  <2> DEFINE P == {m \in 0 .. Len(t) : \E n \in Nat : \A k \in 1 .. m : t[k].index <= n}
  <2>1. 0 \in P
    BY <1>1
  <2>2. ASSUME NEW m \in 1 .. Len(t), m - 1 \in P PROVE m \in P
    <3>1. PICK n \in Nat : \A k \in 1 .. (m - 1) : t[k].index <= n
      BY <2>2
    <3> DEFINE x == t[m].index
    <3>2. x \in Nat
      BY <1>5
    <3>3. \A k \in 1 .. m : k = m \/ k \in 1 .. (m - 1)
      OBVIOUS
    <3>4. \A k \in 1 .. m : t[k].index <= n + x
      <4> TAKE k \in 1 .. m
      <4>1. t[k].index \in Nat
        BY <1>1, <1>5
      <4>2. k = m => t[k].index = x
        OBVIOUS
      <4> HIDE DEF x
      <4> QED BY <3>1, <3>2, <3>3, <4>1, <4>2
    <3>5. n + x \in Nat /\ m \in 0 .. Len(t)
      BY <1>1, <3>2
    <3> HIDE DEF x
    <3> QED BY <3>4, <3>5
  <2> HIDE DEF P
  <2>3. 0 .. Len(t) \subseteq P
    BY <1>1, <2>1, <2>2, UpFromZero
  <2>4. Len(t) \in P
    BY <1>1, <2>3
  <2> QED BY <2>4 DEF P
<1>7. PICK n \in Nat : \A k \in 1 .. Len(t) : t[k].index <= n
  BY <1>6
<1>8. M \subseteq 0 .. n /\ 0 \in M
  <2>1. \A x \in M : x \in 0 .. n
    BY <1>4, <1>5, <1>7
  <2>2. 0 \in M
    BY DEF M
  <2> QED BY <2>1, <2>2
<1>9. Max(M) \in M /\ \A x \in M : x <= Max(M)
  BY <1>8, MaxOfInterval
<1>10. ASSUME NEW k \in 1 .. Len(t) PROVE t[k].index \in M
  <2>1. CASE t[k].type # "f"
    BY <1>3, <2>1
  <2>2. CASE t[k].type = "f"
    <3> DEFINE j == LastOf(t, k - 1, t[k].index)
    <3>1. InUse(t, k - 1, t[k].index)
      BY <1>1, <2>2 DEF LegalTrace, t
    <3>2. k - 1 \in Nat
      OBVIOUS
    <3>3. j \in 1 .. (k - 1) /\ t[j].index = t[k].index /\ t[j].type # "f"
      BY <3>1, <3>2, LastOfIs DEF InUse
    <3> HIDE DEF j
    <3>4. j \in 1 .. Len(t)
      BY <1>1, <3>3
    <3> QED BY <1>3, <3>3, <3>4
  <2> QED BY <2>1, <2>2
<1>11. ASSUME NEW k \in 1 .. Len(t) PROVE t[k].index \in 0 .. Max(M)
  <2>1. t[k].index \in Nat
    BY <1>5
  <2>2. Max(M) \in 0 .. n
    BY <1>8, <1>9
  <2>3. t[k].index \in M
    BY <1>10
  <2>4. t[k].index <= Max(M)
    BY <1>9, <2>3
  <2> QED BY <2>1, <2>2, <2>4
<1> DEFINE D == 0 .. (trace.num_ids - 1)
<1>12. D = 0 .. Max(M) /\ D \subseteq Nat
  BY <1>2
<1>13. NoBlocks = [id \in D |-> 0]
  BY DEF NoBlocks
<1> HIDE DEF D
<1>14. DOMAIN NoBlocks = D /\ NoBlocks \in [D -> Nat]
  BY <1>13
<1>15. \A k \in DOMAIN t : t[k].index \in DOMAIN NoBlocks
  BY <1>1, <1>11, <1>12, <1>14
<1> QED BY <1>12, <1>14, <1>15 DEF Table, t

LEMMA ReadTraceKeeps ==
    ASSUME LegalTraces, DriverInv, ReadTrace
    PROVE  DriverInv'
<1>1. /\ phase = "read" /\ phase' \in {"valid", "abort"}
      /\ heap' = EmptyHeap(heap) /\ op' = 1
      /\ blocks' = NoBlocks /\ block_sizes' = NoBlocks
      /\ ranges' = clear_ranges(ranges) /\ returned' = <<>>
      /\ UNCHANGED <<tracefiles, i>> /\ stats' = stats
  BY DEF ReadTrace, Reset
<1>2. LegalTrace(ops)
  BY <1>1, OnLegalTrace
<1>3. heap \in Heap /\ Reported(stats')
  BY <1>1 DEF DriverInv
<1>4. heap' \in Heap
  BY <1>1, <1>3, EmptyHeapIsHeap
<1>5. ASSUME phase' = "valid" PROVE Table(blocks', ops) /\ Table(block_sizes', ops)
  <2>1. Readable(trace)
    BY <1>5 DEF ReadTrace
  <2> QED BY <1>1, <1>2, <2>1, ReadableHasTables DEF ops
<1>6. phase' = "valid" => Checked(heap', blocks', block_sizes', returned', ops, 0)
  BY <1>1, <1>2, <1>3, <1>5, CheckedStart
<1>7. RangesRight(ranges', Held(returned', ops, 0))
  <2>1. Held(returned', ops, 0) = {}
    BY NothingYet
  <2> QED BY <1>1, <2>1, RangesCleared
<1>8. Replaying(phase', heap', blocks', block_sizes', returned', ranges', sizes', ops, 0)
  BY <1>1, <1>6, <1>7 DEF Replaying
<1>9. phase # "start" /\ phase' \in Phases \ {"start"}
  BY <1>1 DEF Phases
<1> QED BY <1>1, <1>3, <1>4, <1>8, <1>9, Restarted, SameTrace

\* mm_realloc copies to NULL only in a checked replay, which is then incomplete.
LEMMA CrashKeeps ==
    ASSUME LegalTraces, DriverInv, Crash
    PROVE  DriverInv'
<1>1. PICK p \in {"valid", "util", "speed"} : Due(p)
  BY DEF Crash
<1>2. /\ phase' = "crashed" /\ Crashes(request)
      /\ heap' = heap /\ op' = op /\ returned' = returned /\ stats' = stats
      /\ UNCHANGED <<tracefiles, i>>
  BY DEF Crash
<1>3. PICK n \in Nat : n = op - 1 /\ At(p, n)
  BY <1>1, DueAt
<1>4. p = "valid"
  <2>1. SUFFICES ASSUME p \in {"util", "speed"}
                 PROVE  FALSE
    OBVIOUS
  <2> DEFINE o == request
             bp == blocks[o.index]
  <2>2. o = ops[op] /\ Replayed(heap, blocks, returned, ops, n)
    BY <1>3, <2>1 DEF request, At, Replaying
  <2>3. /\ o.type = "r" /\ Moves(heap, bp, BodySize(o.size))
        /\ MoveTo(heap, BodySize(o.size)).bp = NULL
    BY <1>2 DEF Crashes
  <2> HIDE DEF o, bp
  <2>4. bp = blocks[o.index] /\ LegalTrace(ops) /\ Follows(op, n) /\ n < Len(ops)
    BY <1>3 DEF bp, At
  <2> QED BY <2>2, <2>3, <2>4, ReplayRequest
<1>5. Len(returned) < Len(ops)
  BY <1>3, <1>4 DEF At, Replaying, Checked
<1>6. Replaying(phase', heap', blocks', block_sizes', returned', ranges', sizes', ops, n)
  BY <1>2, <1>5 DEF Replaying
<1>7. phase # "start" /\ phase' \in Phases \ {"start"} /\ n = op' - 1
  BY <1>2, <1>3 DEF Phases, At
<1>8. heap' \in Heap /\ op' \in Nat \ {0} /\ Reported(stats')
  BY <1>2 DEF DriverInv
<1> QED BY <1>2, <1>6, <1>7, <1>8, SameTrace

\* Call in the words of the lemmas.
LEMMA CallIsCallOn ==
    ASSUME NEW o, o.type \in {"a", "r", "f"}
    PROVE  Call(o) = CallOn(heap, o, blocks[o.index])
BY DEF Call, CallOn

LEMMA RequestTyped ==
    ASSUME NEW p, NEW n, At(p, n)
    PROVE  /\ request = ops[op] /\ request \in Request /\ request.type \in {"a", "r", "f"}
           /\ Call(request) = CallOn(heap, request, blocks[request.index])
<1>1. n \in Nat /\ op = n + 1 /\ n < Len(ops) /\ ops \in Seq(Request)
  BY DEF At, Follows, LegalTrace
<1>2. ops[op] \in Request
  BY <1>1
<1>3. request \in Request
  BY <1>2 DEF request
<1>4. request.type \in {"a", "r", "f"}
  BY <1>3 DEF Request
<1> QED BY <1>3, <1>4, CallIsCallOn DEF request

LEMMA LiveInValid ==
    ASSUME NEW n, n = op - 1, At("valid", n)
    PROVE  LivePayloads = Held(returned, ops, n)
<1>1. /\ phase = "valid" /\ LegalTrace(ops) /\ Table(blocks, ops)
      /\ n \in 0 .. Len(ops) /\ Points(blocks, returned, ops, n)
  BY DEF At, Replaying, Checked
<1>2. LivePayloads = {[ptr |-> blocks[id], size |-> ops[LastOf(ops, n, id)].size] :
                        id \in {id \in DOMAIN blocks : InUse(ops, n, id)}}
  BY <1>1 DEF LivePayloads, LastUse
<1> QED BY <1>1, <1>2, LiveIsHeld

LEMMA NextOp ==
    ASSUME NEW n \in Nat, n = op - 1, op \in Nat \ {0}, op' = op + 1
    PROVE  op = op' - 1 /\ op' \in Nat \ {0}
OBVIOUS

LEMMA ValidRequestKeeps ==
    ASSUME LegalTraces, DriverInv, ValidRequest
    PROVE  DriverInv'
<1> DEFINE o == request
           bp == blocks[o.index]
           new == Call(o)
<1>1. PICK n \in Nat : n = op - 1 /\ At("valid", n)
  BY DueAt DEF ValidRequest
<1>2. /\ new.bp # NULL
      /\ o.type # "f" => Addable(new.heap, RangesLeft(ranges, o, bp), RangeOf(new.bp, o.size))
      /\ SoundHeap(heap, LivePayloads)
      /\ heap' = AfterCall(o, new) /\ ranges' = RangesNow(ranges, o, bp, new)
      /\ returned' = Append(returned, new.bp)
      /\ blocks' = [blocks EXCEPT ![o.index] = new.bp] /\ block_sizes' = Sized(block_sizes, o)
      /\ op' = op + 1
      /\ UNCHANGED <<tracefiles, i>> /\ phase' = "valid" /\ stats' = stats
  BY DEF ValidRequest, Acceptable, RangesBefore, RangesLeft, RangesNow, Due, AfterCall, Remember, Sized
<1>3. o = ops[op] /\ new = CallOn(heap, o, bp) /\ bp = blocks[o.index]
  BY <1>1, RequestTyped
<1>4. /\ LegalTrace(ops) /\ Checked(heap, blocks, block_sizes, returned, ops, n)
      /\ Follows(op, n) /\ n < Len(ops) /\ RangesRight(ranges, Held(returned, ops, n))
  BY <1>1 DEF At, Replaying
<1>5. SoundHeap(heap, Held(returned, ops, n))
  BY <1>1, <1>2, LiveInValid
<1> HIDE DEF o, bp, new
<1>6. /\ heap' \in Heap /\ Checked(heap', blocks', block_sizes', returned', ops, op)
      /\ RangesRight(ranges', Held(returned', ops, op))
  <2>1. /\ AfterCall(o, new) \in Heap
        /\ Checked(AfterCall(o, new), [blocks EXCEPT ![o.index] = new.bp], Sized(block_sizes, o),
                   Append(returned, new.bp), ops, op)
        /\ RangesRight(RangesNow(ranges, o, bp, new), Held(Append(returned, new.bp), ops, op))
    <3>1. /\ new.bp # NULL
          /\ o.type # "f" => Addable(new.heap, RangesLeft(ranges, o, bp), RangeOf(new.bp, o.size))
      BY <1>2
    <3> QED BY <1>3, <1>4, <1>5, <3>1, AcceptedRequest
  <2> QED BY <1>2, <2>1
<1>7. Replaying(phase', heap', blocks', block_sizes', returned', ranges', sizes', ops, op)
  BY <1>2, <1>6 DEF Replaying
<1>8. op = op' - 1 /\ op' \in Nat \ {0}
  BY <1>1, <1>2, NextOp DEF DriverInv
<1>9. phase # "start" /\ phase' \in Phases \ {"start"} /\ Reported(stats')
  BY <1>1, <1>2 DEF Phases, At, DriverInv
<1> QED BY <1>2, <1>6, <1>7, <1>8, <1>9, SameTrace

LEMMA InvalidRequestKeeps ==
    ASSUME LegalTraces, DriverInv, InvalidRequest
    PROVE  DriverInv'
<1> DEFINE o == request
           bp == blocks[o.index]
           new == Call(o)
           l == Held(returned, ops, op - 1)
           f == [valid |-> FALSE, max_total_size |-> 0, heapsize |-> 0]
<1>1. PICK n \in Nat : n = op - 1 /\ At("valid", n)
  BY DueAt DEF InvalidRequest
<1>2. /\ SoundHeap(heap, LivePayloads) /\ heap' = new.heap
      /\ op' = op /\ UNCHANGED <<tracefiles, i>> /\ phase' = "next" /\ stats' = Append(stats, f)
  BY DEF InvalidRequest, Due
<1>3. o = ops[op] /\ new = CallOn(heap, o, bp) /\ bp = blocks[o.index]
  BY <1>1, RequestTyped
<1>4. /\ LegalTrace(ops) /\ Checked(heap, blocks, block_sizes, returned, ops, n)
      /\ Follows(op, n) /\ n < Len(ops)
  BY <1>1 DEF At, Replaying
<1>5. SoundHeap(heap, l) /\ l = Held(returned, ops, n)
  BY <1>1, <1>2, LiveInValid
<1>6. Reported(stats')
  <2>1. f \in Figures /\ f.max_total_size <= f.heapsize
    BY DEF Figures
  <2> HIDE DEF f
  <2>2. stats \in Seq(Figures) /\ \A k \in DOMAIN stats : stats[k].max_total_size <= stats[k].heapsize
    BY DEF DriverInv, Reported
  <2> QED BY <1>2, <2>1, <2>2, ReportedAppend
<1> HIDE DEF o, bp, new, l, f
<1>7. RequestIsRight(new, heap, l, o, bp)
  BY <1>3, <1>4, <1>5, CheckedRequest
<1>8. heap' \in Heap
  BY <1>2, <1>7 DEF RequestIsRight
<1>9. phase # "start" /\ phase' \in Phases \ {"start"} /\ op' \in Nat \ {0} /\ n = op' - 1
  BY <1>1, <1>2 DEF Phases, At, DriverInv
<1>10. Replaying(phase', heap', blocks', block_sizes', returned', ranges', sizes', ops, n)
  BY <1>2 DEF Replaying
<1> QED BY <1>2, <1>6, <1>8, <1>9, <1>10, SameTrace

\* The chain of the checked replay is what the replays after it follow.
LEMMA ValidKeeps ==
    ASSUME LegalTraces, DriverInv, Valid
    PROVE  DriverInv'
<1>1. /\ Over("valid") /\ phase' = "util" /\ heap' = EmptyHeap(heap) /\ op' = 1 /\ sizes' = NoSizes
      /\ UNCHANGED <<tracefiles, i>> /\ blocks' = blocks /\ block_sizes' = block_sizes
      /\ returned' = returned /\ stats' = stats
  BY DEF Valid, Reset
<1>2. /\ phase = "valid" /\ LegalTrace(ops)
      /\ op - 1 \in 0 .. Len(ops) => op - 1 = Len(ops)
      /\ Replaying("valid", heap, blocks, block_sizes, returned, ranges, sizes, ops, op - 1)
  BY <1>1, OverAt
<1>3. Checked(heap, blocks, block_sizes, returned, ops, op - 1)
  BY <1>2 DEF Replaying
<1>4. op - 1 = Len(ops)
  BY <1>2, <1>3 DEF Checked
<1>5. /\ returned \in Seq(Units) /\ Len(returned) = Len(ops) /\ Table(blocks, ops)
      /\ Table(block_sizes, ops)
  BY <1>3, <1>4 DEF Checked
<1>6. PICK H : ChainOK(H, returned, ops, Len(ops))
  BY <1>3, <1>4 DEF Checked, ChainTo
<1>7. heap \in Heap /\ heap' \in Heap /\ Reported(stats')
  BY <1>1, EmptyHeapIsHeap DEF DriverInv
<1>8. Replayed(heap', blocks', returned', ops, 0)
  BY <1>1, <1>2, <1>5, <1>6, <1>7, ReplayStart
<1>9. Utilized(heap', block_sizes', sizes', ops, 0)
  <2>1. heap'.brk \in Nat
    BY <1>7, UnitsAreNaturals DEF Heap
  <2>2. sizes'.total_size = 0 /\ sizes'.max_total_size = 0
    BY <1>1 DEF NoSizes
  <2>3. Measures(block_sizes', ops, 0) /\ Total(ops, 0) = 0
    BY NothingYet
  <2> QED BY <1>1, <1>5, <2>1, <2>2, <2>3 DEF Utilized
<1>10. Replaying(phase', heap', blocks', block_sizes', returned', ranges', sizes', ops, 0)
  BY <1>1, <1>8, <1>9 DEF Replaying
<1>11. phase # "start" /\ phase' \in Phases \ {"start"}
  BY <1>1, <1>2 DEF Phases
<1> QED BY <1>1, <1>7, <1>10, <1>11, Restarted, SameTrace

LEMMA UtilRequestKeeps ==
    ASSUME LegalTraces, DriverInv, UtilRequest
    PROVE  DriverInv'
<1> DEFINE o == request
           bp == blocks[o.index]
           new == Call(o)
           x == sizes.total_size + SizeChange(o)
<1>1. PICK n \in Nat : n = op - 1 /\ At("util", n)
  BY DueAt DEF UtilRequest
<1>2. /\ phase' = IF new.bp = NULL THEN "app_error" ELSE phase
      /\ heap' = new.heap
      /\ blocks' = [blocks EXCEPT ![o.index] = new.bp] /\ block_sizes' = Sized(block_sizes, o)
      /\ op' = op + 1
      /\ sizes' = [total_size |-> x, max_total_size |-> Max({x, sizes.max_total_size})]
      /\ UNCHANGED <<tracefiles, i>> /\ returned' = returned /\ stats' = stats
  BY DEF UtilRequest, AppError, Remember, Sized
<1>3. o = ops[op] /\ new = CallOn(heap, o, bp) /\ bp = blocks[o.index]
  BY <1>1, RequestTyped
<1>4. /\ phase = "util" /\ LegalTrace(ops) /\ Replayed(heap, blocks, returned, ops, n)
      /\ Follows(op, n) /\ n < Len(ops) /\ Utilized(heap, block_sizes, sizes, ops, n)
  BY <1>1 DEF At, Replaying
<1>5. x = sizes.total_size + Changed(block_sizes, o)
  BY DEF SizeChange, Changed
<1> HIDE DEF o, bp, new, x
<1>6. /\ new.bp # NULL /\ Replayed(new.heap, [blocks EXCEPT ![o.index] = new.bp], returned, ops, op)
      /\ heap.brk \in Nat /\ new.heap.brk \in Nat /\ heap.brk <= new.heap.brk
      /\ Total(ops, op) <= 8 * new.heap.brk
  BY <1>3, <1>4, ReplayRequest
<1>7. Utilized(heap', block_sizes', sizes', ops, op)
  <2>1. /\ heap.brk \in Nat /\ heap'.brk \in Nat /\ heap.brk <= heap'.brk
        /\ Total(ops, op) <= 8 * heap'.brk
    BY <1>2, <1>6
  <2> QED BY <1>1, <1>2, <1>3, <1>4, <1>5, <2>1, UtilizedRequest
<1>8. Replayed(heap', blocks', returned', ops, op)
  BY <1>2, <1>6
<1>9. phase' = "util"
  BY <1>2, <1>4, <1>6
<1>10. heap' \in Heap
  BY <1>8 DEF Replayed
<1>11. Replaying(phase', heap', blocks', block_sizes', returned', ranges', sizes', ops, op)
  BY <1>7, <1>8, <1>9 DEF Replaying
<1>12. op = op' - 1 /\ op' \in Nat \ {0}
  BY <1>1, <1>2, NextOp DEF DriverInv
<1>13. phase # "start" /\ phase' \in Phases \ {"start"} /\ Reported(stats')
  BY <1>2, <1>4, <1>9 DEF Phases, DriverInv
<1> QED BY <1>2, <1>10, <1>11, <1>12, <1>13, SameTrace

LEMMA UtilKeeps ==
    ASSUME LegalTraces, DriverInv, Util
    PROVE  DriverInv'
<1> DEFINE f == [valid |-> TRUE, max_total_size |-> sizes.max_total_size, heapsize |-> ALIGNMENT * heap.brk]
<1>1. /\ Over("util") /\ phase' = "speed" /\ heap' = EmptyHeap(heap) /\ op' = 1
      /\ UNCHANGED <<tracefiles, i>> /\ blocks' = blocks
      /\ returned' = returned /\ stats' = Append(stats, f)
  BY DEF Util, Reset
<1>2. /\ phase = "util" /\ LegalTrace(ops)
      /\ Replaying("util", heap, blocks, block_sizes, returned, ranges, sizes, ops, op - 1)
  BY <1>1, OverAt
<1>3. /\ Replayed(heap, blocks, returned, ops, op - 1)
      /\ Utilized(heap, block_sizes, sizes, ops, op - 1)
  BY <1>2 DEF Replaying
<1>4. heap \in Heap /\ heap' \in Heap
  BY <1>1, EmptyHeapIsHeap DEF DriverInv
<1>5. Reported(stats')
  <2>1. sizes.max_total_size \in Nat /\ sizes.max_total_size <= 8 * heap.brk
    BY <1>3 DEF Utilized
  <2>2. heap.brk \in Nat
    BY <1>4, UnitsAreNaturals DEF Heap
  <2>3. /\ f.valid = TRUE /\ f.max_total_size = sizes.max_total_size
        /\ f.heapsize = 8 * heap.brk /\ 8 * heap.brk \in Nat
    BY <2>2 DEF ALIGNMENT
  <2>4. f \in Figures /\ f.max_total_size <= f.heapsize
    BY <2>1, <2>3 DEF Figures
  <2> HIDE DEF f
  <2>5. stats \in Seq(Figures) /\ \A k \in DOMAIN stats : stats[k].max_total_size <= stats[k].heapsize
    BY DEF DriverInv, Reported
  <2> QED BY <1>1, <2>4, <2>5, ReportedAppend
<1>6. /\ returned \in Seq(Units) /\ Len(returned) = Len(ops) /\ Table(blocks, ops)
      /\ \E H : ChainOK(H, returned, ops, Len(ops))
  BY <1>3 DEF Replayed
<1>7. Replayed(heap', blocks', returned', ops, 0)
  BY <1>1, <1>2, <1>4, <1>6, ReplayStart
<1>8. Replaying(phase', heap', blocks', block_sizes', returned', ranges', sizes', ops, 0)
  BY <1>1, <1>7 DEF Replaying
<1>9. phase # "start" /\ phase' \in Phases \ {"start"}
  BY <1>1, <1>2 DEF Phases
<1> QED BY <1>1, <1>4, <1>5, <1>8, <1>9, Restarted, SameTrace

LEMMA SpeedRequestKeeps ==
    ASSUME LegalTraces, DriverInv, SpeedRequest
    PROVE  DriverInv'
<1> DEFINE o == request
           bp == blocks[o.index]
           new == Call(o)
<1>1. PICK n \in Nat : n = op - 1 /\ At("speed", n)
  BY DueAt DEF SpeedRequest
<1>2. /\ phase' = IF new.bp = NULL THEN "app_error" ELSE phase
      /\ heap' = new.heap /\ blocks' = [blocks EXCEPT ![o.index] = new.bp]
      /\ op' = op + 1
      /\ UNCHANGED <<tracefiles, i>> /\ returned' = returned /\ stats' = stats
  BY DEF SpeedRequest, AppError
<1>3. o = ops[op] /\ new = CallOn(heap, o, bp) /\ bp = blocks[o.index]
  BY <1>1, RequestTyped
<1>4. /\ phase = "speed" /\ LegalTrace(ops) /\ Replayed(heap, blocks, returned, ops, n)
      /\ Follows(op, n) /\ n < Len(ops)
  BY <1>1 DEF At, Replaying
<1> HIDE DEF o, bp, new
<1>5. new.bp # NULL /\ Replayed(new.heap, [blocks EXCEPT ![o.index] = new.bp], returned, ops, op)
  BY <1>3, <1>4, ReplayRequest
<1>6. Replayed(heap', blocks', returned', ops, op) /\ phase' = "speed"
  BY <1>2, <1>4, <1>5
<1>7. heap' \in Heap
  BY <1>6 DEF Replayed
<1>8. Replaying(phase', heap', blocks', block_sizes', returned', ranges', sizes', ops, op)
  BY <1>6 DEF Replaying
<1>9. op = op' - 1 /\ op' \in Nat \ {0}
  BY <1>1, <1>2, NextOp DEF DriverInv
<1>10. phase # "start" /\ phase' \in Phases \ {"start"} /\ Reported(stats')
  BY <1>2, <1>4, <1>6 DEF Phases, DriverInv
<1> QED BY <1>2, <1>7, <1>8, <1>9, <1>10, SameTrace

LEMMA SpeedKeeps ==
    ASSUME LegalTraces, DriverInv, Speed
    PROVE  DriverInv'
<1>1. /\ Over("speed") /\ phase' \in {"next", "speed"} /\ heap' = EmptyHeap(heap) /\ op' = 1
      /\ UNCHANGED <<tracefiles, i>> /\ blocks' = blocks
      /\ returned' = returned /\ stats' = stats
  BY DEF Speed, Reset
<1>2. /\ phase = "speed" /\ LegalTrace(ops)
      /\ Replaying("speed", heap, blocks, block_sizes, returned, ranges, sizes, ops, op - 1)
  BY <1>1, OverAt
<1>3. Replayed(heap, blocks, returned, ops, op - 1)
  BY <1>2 DEF Replaying
<1>4. heap \in Heap /\ heap' \in Heap /\ Reported(stats')
  BY <1>1, EmptyHeapIsHeap DEF DriverInv
<1>5. /\ returned \in Seq(Units) /\ Len(returned) = Len(ops) /\ Table(blocks, ops)
      /\ \E H : ChainOK(H, returned, ops, Len(ops))
  BY <1>3 DEF Replayed
<1>6. Replayed(heap', blocks', returned', ops, 0)
  BY <1>1, <1>2, <1>4, <1>5, ReplayStart
<1>7. Replaying(phase', heap', blocks', block_sizes', returned', ranges', sizes', ops, 0)
  BY <1>1, <1>6 DEF Replaying
<1>8. phase # "start" /\ phase' \in Phases \ {"start"}
  BY <1>1, <1>2 DEF Phases
<1> QED BY <1>1, <1>4, <1>7, <1>8, Restarted, SameTrace

LEMMA NextTraceKeeps ==
    ASSUME LegalTraces, DriverInv, NextTrace
    PROVE  DriverInv'
<1>1. /\ phase = "next" /\ phase' \in {"results", "read"} /\ heap' = heap /\ op' = op
      /\ i' = (IF i = Len(tracefiles) THEN i ELSE i + 1)
      /\ tracefiles' = tracefiles /\ stats' = stats
  BY DEF NextTrace
<1>2. tracefiles \in TraceLists /\ i \in 1 .. Len(tracefiles)
  BY <1>1, OnLegalTrace
<1>3. Len(tracefiles) \in Nat
  <2>1. tracefiles \in Seq(Tracefile)
    BY <1>2 DEF LegalTraces
  <2> QED BY <2>1
<1>4. i' \in 1 .. Len(tracefiles)
  BY <1>1, <1>2, <1>3
<1>5. OnTrace(phase', tracefiles', i')
  BY <1>1, <1>2, <1>4 DEF OnTrace
<1>6. Replaying(phase', heap', blocks', block_sizes', returned', ranges', sizes', ops', op' - 1)
  BY <1>1 DEF Replaying
<1>7. phase' \in Phases /\ phase' # "start"
  BY <1>1 DEF Phases
<1> QED BY <1>1, <1>5, <1>6, <1>7 DEF DriverInv

\* With legal traces the invariant holds in every reachable state.
THEOREM DriverInvariant ==
    ASSUME LegalTraces
    PROVE  MdriverSpec => []DriverInv
<1>1. MdriverInit => DriverInv
  BY InitHolds
<1>2. DriverInv /\ [MdriverNext]_mdriver_vars => DriverInv'
  <2> SUFFICES ASSUME DriverInv, [MdriverNext]_mdriver_vars
               PROVE  DriverInv'
    OBVIOUS
  <2>1. CASE UNCHANGED mdriver_vars
    BY <2>1 DEF mdriver_vars, DriverInv, ops, trace
  <2>2. CASE MdriverNext
    BY <2>2, StartKeeps, ReadTraceKeeps, CrashKeeps, ValidRequestKeeps, InvalidRequestKeeps,
       ValidKeeps, UtilRequestKeeps, UtilKeeps, SpeedRequestKeeps, SpeedKeeps, NextTraceKeeps
       DEF MdriverNext
  <2> QED BY <2>1, <2>2
<1> QED BY <1>1, <1>2, PTL DEF MdriverSpec

-----------------------------------------------------------------------------
(* What the driver may rely on. *)

\* The list of add_range and remove_range is that of the payloads in use, the last one added
\* first, and of two that overlap the newer one contains the older.
THEOREM RangesAreLiveAlways ==
    ASSUME LegalTraces
    PROVE  MdriverSpec => []RangesAreLive
<1>1. DriverInv => RangesAreLive
  <2> SUFFICES ASSUME DriverInv, phase = "valid"
               PROVE  RangesAreLive
    BY DEF RangesAreLive
  <2>1. /\ RangesRight(ranges, Held(returned, ops, op - 1))
        /\ Table(blocks, ops) /\ Points(blocks, returned, ops, op - 1) /\ op - 1 \in 0 .. Len(ops)
    BY DEF DriverInv, Replaying, Checked
  <2>0. LegalTrace(ops)
    BY OnLegalTrace
  <2>2. LivePayloads = {[ptr |-> blocks[id], size |-> ops[LastOf(ops, op - 1, id)].size] :
                          id \in {id \in DOMAIN blocks : InUse(ops, op - 1, id)}}
    BY DEF LivePayloads, LastUse
  <2>3. LivePayloads = Held(returned, ops, op - 1)
    BY <2>0, <2>1, <2>2, LiveIsHeld
  <2> QED BY <2>1, <2>3 DEF RangesAreLive, RangesRight, InTurn
<1> QED BY <1>1, DriverInvariant, PTL

\* eval_mm_util and eval_mm_speed get the pointers that eval_mm_valid got, on memory that it
\* left full of old headers, and so neither crash nor end in app_error.
THEOREM ReplayAgreesAlways ==
    ASSUME LegalTraces
    PROVE  MdriverSpec => []ReplayAgrees
<1>1. DriverInv => ReplayAgrees
  <2> SUFFICES ASSUME DriverInv
               PROVE  ReplayAgrees
    OBVIOUS
  <2>1. phase \in {"app_error", "crashed"} => Len(returned) < Len(ops)
    BY DEF DriverInv, Replaying
  <2>2. ASSUME phase \in {"util", "speed"}, NEW k \in 1 .. (op - 1), LastUse(ops[k].index) = k
        PROVE  blocks[ops[k].index] = returned[k]
    <3> DEFINE n == op - 1
    <3>1. n \in 0 .. Len(ops) /\ Points(blocks, returned, ops, n) /\ Table(blocks, ops)
      BY <2>2 DEF DriverInv, Replaying, Replayed
    <3>2. LegalTrace(ops) /\ Len(ops) \in Nat
      BY <2>2, OnLegalTrace
    <3>3. LastOf(ops, n, ops[k].index) = k
      BY <2>2 DEF LastUse
    <3>4. k \in 1 .. n
      BY <2>2
    <3> HIDE DEF n
    <3>5. k \in 1 .. Len(ops) /\ k # 0
      BY <3>1, <3>2, <3>4
    <3>6. ops \in Seq(Request)
      BY <3>2 DEF LegalTrace
    <3>8. ops[k].index \in DOMAIN blocks
      BY <3>1, <3>5, <3>6, TableHas
    <3> QED BY <3>1, <3>3, <3>5, <3>8 DEF Points
  <2> QED BY <2>1, <2>2 DEF ReplayAgrees
<1> QED BY <1>1, DriverInvariant, PTL

\* The sum of the payloads that eval_mm_util keeps never exceeds the heap: the utilization of
\* a trace is at most 1.
THEOREM UtilizationBoundedAlways ==
    ASSUME LegalTraces
    PROVE  MdriverSpec => []UtilizationBounded
<1>1. DriverInv => UtilizationBounded
  BY DEF DriverInv, Reported, UtilizationBounded
<1> QED BY <1>1, DriverInvariant, PTL

-----------------------------------------------------------------------------
(* The words of the payloads, and what malloc_error means. *)

\* Every payload in l still holds what the client wrote.
Clean(h, l) == \A r \in l : Untouched(h, r.ptr, r.size)

\* A payload of size bytes at b in the block that ends at e.
Within(b, size, e) ==
    b \in Units /\ e \in Units /\ b \in Nat /\ e \in Nat /\ size \in Nat \ {0} /\ size + 8 <= 8 * (e - b)

\* The words of a payload lie in its block, before the footer.
LEMMA WordsWithin ==
    ASSUME NEW b, NEW size, NEW e, Within(b, size, e),
           NEW u \in b .. (b + (size - 1) \div ALIGNMENT)
    PROVE  u \in Units /\ b <= u /\ u + 1 < e /\ 8 * u < 8 * b + size
<1>1. b \in Nat /\ e \in Nat /\ size \in Nat \ {0} /\ size + 8 <= 8 * (e - b)
  BY DEF Within
<1> DEFINE q == (size - 1) \div 8
<1>2. q \in Nat /\ 8 * q <= size - 1
  BY <1>1
<1>3. u \in Nat /\ b <= u /\ u <= b + q
  BY <1>1, <1>2 DEF ALIGNMENT
<1> HIDE DEF q
<1>4. 8 * u <= 8 * b + (size - 1)
  BY <1>1, <1>2, <1>3
<1>5. u + 1 < e
  BY <1>1, <1>3, <1>4
<1>6. u \in Units
  <2>1. b \in 1 .. MAX_HEAP /\ e \in 1 .. MAX_HEAP /\ MAX_HEAP \in Nat
    BY UnitsAreNaturals DEF Within, Units
  <2> QED BY <1>3, <1>5, <2>1 DEF Units
<1> QED BY <1>1, <1>3, <1>4, <1>5, <1>6

\* A payload stays as the client filled it while its block is spared.
LEMMA UntouchedSpared ==
    ASSUME NEW h, NEW n, NEW b, NEW size, NEW e, Within(b, size, e),
           Untouched(h, b, size), Spares(n, h, b, e)
    PROVE  Untouched(n, b, size)
<1> SUFFICES ASSUME NEW u \in b .. (b + (size - 1) \div ALIGNMENT)
             PROVE  /\ n.ftr[u] = NoFooter
                    /\ u > b /\ ALIGNMENT * u - 4 < ALIGNMENT * b + size => n.hdr[u] = NoHeader
  BY DEF Untouched
<1>1. u \in Units /\ b <= u /\ u + 1 < e
  BY WordsWithin
<1>2. /\ h.ftr[u] = NoFooter
      /\ u > b /\ ALIGNMENT * u - 4 < ALIGNMENT * b + size => h.hdr[u] = NoHeader
  BY DEF Untouched
<1>3. n.ftr[u] = h.ftr[u]
  BY <1>1 DEF Spares
<1>4. u > b => n.hdr[u] = h.hdr[u]
  <2>1. u \in Nat /\ b \in Nat /\ e \in Nat
    BY <1>1, UnitsAreNaturals DEF Within
  <2>2. u > b => b < u /\ u < e
    BY <1>1, <2>1
  <2> QED BY <1>1, <2>2 DEF Spares
<1> QED BY <1>2, <1>3, <1>4

\* So does every first part of it.
LEMMA UntouchedLess ==
    ASSUME NEW h, NEW b \in Nat, NEW size \in Nat \ {0}, NEW s \in Nat \ {0}, s <= size,
           Untouched(h, b, size)
    PROVE  Untouched(h, b, s)
<1> SUFFICES ASSUME NEW u \in b .. (b + (s - 1) \div ALIGNMENT)
             PROVE  /\ h.ftr[u] = NoFooter
                    /\ u > b /\ ALIGNMENT * u - 4 < ALIGNMENT * b + s => h.hdr[u] = NoHeader
  BY DEF Untouched
<1> DEFINE q == (size - 1) \div 8
           p == (s - 1) \div 8
<1>1. q \in Nat /\ p \in Nat /\ p <= q
  OBVIOUS
<1>2. u \in Nat /\ b <= u /\ u <= b + p
  BY <1>1 DEF ALIGNMENT
<1>3. u \in b .. (b + q)
  <2> HIDE DEF p, q
  <2> QED BY <1>1, <1>2
<1>4. u \in b .. (b + (size - 1) \div ALIGNMENT)
  BY <1>3 DEF ALIGNMENT
<1>5. ALIGNMENT * u - 4 < ALIGNMENT * b + s => ALIGNMENT * u - 4 < ALIGNMENT * b + size
  BY <1>2 DEF ALIGNMENT
<1> QED BY <1>4, <1>5 DEF Untouched

\* Filling a payload leaves no word of the package in it.
LEMMA FillUntouches ==
    ASSUME NEW h \in Heap, NEW bp, NEW size, NEW e, Within(bp, size, e)
    PROVE  Untouched(Fill(h, bp, size), bp, size)
<1> DEFINE n == Fill(h, bp, size)
<1> SUFFICES ASSUME NEW u \in bp .. (bp + (size - 1) \div ALIGNMENT)
             PROVE  /\ n.ftr[u] = NoFooter
                    /\ u > bp /\ ALIGNMENT * u - 4 < ALIGNMENT * bp + size => n.hdr[u] = NoHeader
  BY DEF Untouched
<1>1. u \in Units /\ bp <= u /\ 8 * u < 8 * bp + size
  BY WordsWithin
<1>2. u \in Nat /\ bp \in Nat
  BY <1>1, UnitsAreNaturals DEF Within
<1>3. u > bp <=> bp < u
  BY <1>2
<1> QED BY <1>1, <1>3 DEF Fill, ALIGNMENT

\* Filling a payload puts no word of the package into another one.
LEMMA FillStaysUntouched ==
    ASSUME NEW h \in Heap, NEW bp, NEW size, NEW b, NEW s, NEW e, Within(b, s, e),
           Untouched(h, b, s)
    PROVE  Untouched(Fill(h, bp, size), b, s)
<1> DEFINE n == Fill(h, bp, size)
<1> SUFFICES ASSUME NEW u \in b .. (b + (s - 1) \div ALIGNMENT)
             PROVE  /\ n.ftr[u] = NoFooter
                    /\ u > b /\ ALIGNMENT * u - 4 < ALIGNMENT * b + s => n.hdr[u] = NoHeader
  BY DEF Untouched
<1>1. u \in Units
  BY WordsWithin
<1>2. /\ h.ftr[u] = NoFooter
      /\ u > b /\ ALIGNMENT * u - 4 < ALIGNMENT * b + s => h.hdr[u] = NoHeader
  BY DEF Untouched
<1>3. n.ftr[u] \in {h.ftr[u], NoFooter} /\ n.hdr[u] \in {h.hdr[u], NoHeader}
  BY <1>1 DEF Fill
<1> QED BY <1>2, <1>3

\* In a sound heap a payload fits into its block.
LEMMA PayloadsAreWithin ==
    ASSUME NEW h, NEW B, NEW l, SoundAs(h, B, l), NEW r \in l, NEW e, e = NEXT_BLKP(h, r.ptr)
    PROVE  /\ r.ptr \in B /\ r.ptr \in Allocated(h, B) /\ r.ptr # heap_listp
           /\ Within(r.ptr, r.size, e)
<1>1. Tiling(h, B) /\ LiveOK(h, B, l)
  BY DEF SoundAs, HeapOK
<1>2. r.ptr \in Allocated(h, B) \ {heap_listp} /\ r.size \in Nat \ {0}
      /\ r.size + DSIZE <= ALIGNMENT * h.hdr[r.ptr].size
  BY <1>1 DEF LiveOK, Payload
<1>3. r.ptr \in B
  BY <1>2 DEF Allocated
<1>4. /\ h.hdr[r.ptr].size \in Nat /\ e = r.ptr + h.hdr[r.ptr].size
      /\ r.ptr \in Nat /\ r.ptr \in Units /\ e \in Units /\ e \in Nat
  BY <1>1, <1>3, TilingTypes, UnitsAreNaturals
<1>5. r.size + 8 <= 8 * (e - r.ptr)
  BY <1>2, <1>4 DEF DSIZE, ALIGNMENT
<1> QED BY <1>2, <1>3, <1>4, <1>5 DEF Within

\* No request writes into a payload that the client keeps, unless mm_realloc overgrows.
LEMMA KeptIsUntouched ==
    ASSUME NEW h, NEW B, NEW l, SoundAs(h, B, l), NEW o, NEW bp, Asks(l, o, bp),
           NEW new, new = CallOn(h, o, bp), new.bp # NULL,
           o.type = "r" => ~TooLittle(h, bp, BodySize(o.size)),
           NEW r \in KeptBy(l, o, bp), Untouched(h, r.ptr, r.size)
    PROVE  Untouched(new.heap, r.ptr, r.size)
<1> DEFINE e == NEXT_BLKP(h, r.ptr)
<1>1. r \in l /\ (o.type # "a" => r.ptr # bp)
  BY DEF KeptBy
<1>2. r.ptr \in B /\ r.ptr \in Allocated(h, B) /\ Within(r.ptr, r.size, e)
  BY <1>1, PayloadsAreWithin
<1>3. HeapOK(h, B) /\ Tiling(h, B)
  BY DEF SoundAs, HeapOK
<1>4. o.type \in {"a", "r", "f"} /\ (o.type # "f" => o.size \in Nat \ {0})
  BY DEF Asks, Request
<1>5. o.type # "a" => bp \in B /\ bp \in Allocated(h, B) /\ bp # heap_listp
  BY PayloadsAreWithin DEF Asks
<1> HIDE DEF e
<1>6. Spares(new.heap, h, r.ptr, e)
  <2>1. CASE o.type = "a"
    <3>1. new = mm_malloc(h, o.size)
      BY <2>1 DEF CallOn
    <3> QED BY <1>2, <1>3, <1>4, <2>1, <3>1, MallocSpares DEF e
  <2>2. CASE o.type = "r"
    <3>1. new = mm_realloc(h, bp, o.size)
      BY <2>2 DEF CallOn
    <3>2. ~TooLittle(h, bp, BodySize(o.size)) /\ r.ptr # bp
      BY <1>1, <2>2
    <3> QED BY <1>2, <1>3, <1>4, <1>5, <2>2, <3>1, <3>2, ReallocSpares DEF e
  <2>3. CASE o.type = "f"
    <3>1. new.heap = mm_free(h, bp)
      BY <2>3 DEF CallOn
    <3> QED BY <1>2, <1>3, <1>5, <2>3, <3>1, FreeSpares DEF e
  <2> QED BY <1>4, <2>1, <2>2, <2>3
<1> QED BY <1>2, <1>6, UntouchedSpared

\* The payloads kept by a request are all but the one it names.
LEMMA KeptOfOne ==
    ASSUME NEW l, Unique(l), NEW o, o.type # "a", NEW r \in l
    PROVE  KeptBy(l, o, r.ptr) = l \ {r}
BY DEF Unique, KeptBy

\* A request that leaves the heap sound did not overgrow.
LEMMA SoundRequestDidNotOvergrow ==
    ASSUME NEW h, NEW B, NEW l, SoundAs(h, B, l), NEW o, NEW bp, Asks(l, o, bp), o.type = "r",
           NEW new, new = CallOn(h, o, bp), new.bp # NULL,
           NEW D, SoundAs(AfterCall(o, new), D, LiveBy(l, o, bp, new.bp))
    PROVE  ~TooLittle(h, bp, BodySize(o.size))
<1>1. PICK r \in l : r.ptr = bp
  BY DEF Asks
<1>2. Unique(l)
  BY DEF SoundAs, LiveOK
<1>3. KeptBy(l, o, bp) = l \ {r}
  BY <1>1, <1>2, KeptOfOne
<1>4. LiveBy(l, o, bp, new.bp) = (l \ {r}) \cup {[ptr |-> new.bp, size |-> o.size]}
  BY <1>3 DEF LiveBy
<1>5. new = mm_realloc(h, bp, o.size) /\ AfterCall(o, new) = Fill(new.heap, new.bp, o.size)
  BY DEF CallOn, AfterCall
<1>6. o.size \in Nat \ {0}
  BY DEF Asks, Request
<1> QED BY <1>1, <1>4, <1>5, <1>6, SoundDidNotOvergrow

\* After a request that leaves the heap sound no payload holds a word of the package.
LEMMA CleanNext ==
    ASSUME NEW h, NEW B, NEW l, SoundAs(h, B, l), NEW o, NEW bp, Asks(l, o, bp), Clean(h, l),
           NEW new, new = CallOn(h, o, bp), new.bp # NULL, new.heap \in Heap,
           NEW n, n = AfterCall(o, new), NEW k, k = LiveBy(l, o, bp, new.bp),
           NEW D, SoundAs(n, D, k)
    PROVE  Clean(n, k)
<1>1. o.type = "r" => ~TooLittle(h, bp, BodySize(o.size))
  BY SoundRequestDidNotOvergrow
<1>2. ASSUME NEW r \in k PROVE Untouched(n, r.ptr, r.size)
  <2> DEFINE e == NEXT_BLKP(n, r.ptr)
  <2>1. Within(r.ptr, r.size, e)
    BY <1>2, PayloadsAreWithin
  <2> HIDE DEF e
  <2>2. CASE r \in KeptBy(l, o, bp)
    <3>1. r \in l
      BY <2>2 DEF KeptBy
    <3>2. Untouched(h, r.ptr, r.size)
      BY <3>1 DEF Clean
    <3>3. Untouched(new.heap, r.ptr, r.size)
      BY <1>1, <2>2, <3>2, KeptIsUntouched
    <3>4. Untouched(Fill(new.heap, new.bp, o.size), r.ptr, r.size)
      BY <2>1, <3>3, FillStaysUntouched
    <3> QED BY <3>3, <3>4 DEF AfterCall
  <2>3. CASE r \notin KeptBy(l, o, bp)
    <3>1. o.type # "f" /\ r = [ptr |-> new.bp, size |-> o.size]
      BY <1>2, <2>3 DEF LiveBy
    <3>2. r.ptr = new.bp /\ r.size = o.size /\ n = Fill(new.heap, new.bp, o.size)
      BY <3>1 DEF AfterCall
    <3> QED BY <2>1, <3>2, FillUntouches
  <2> QED BY <2>2, <2>3
<1> QED BY <1>2 DEF Clean

\* The new payload hits a recorded range.
Overlaps(r, p) == r.lo < ALIGNMENT * p.ptr + p.size /\ ALIGNMENT * p.ptr <= r.hi

\* Hitting the range of a payload is overlapping the payload.
LEMMA HitsOverlap ==
    ASSUME NEW bp \in Nat, NEW size \in Nat \ {0}, NEW q \in Payload,
           NEW r, r = RangeOf(bp, size), Hits(r.lo, r.hi, RangeOf(q.ptr, q.size))
    PROVE  Overlaps(r, q)
<1>1. q.ptr \in Nat /\ q.size \in Nat \ {0}
  BY UnitsAreNaturals DEF Payload
<1>2. r.lo = 8 * bp /\ r.hi = 8 * bp + size - 1
  BY DEF RangeOf, ALIGNMENT
<1>3. RangeOf(q.ptr, q.size).lo = 8 * q.ptr /\ RangeOf(q.ptr, q.size).hi = 8 * q.ptr + q.size - 1
  BY DEF RangeOf, ALIGNMENT
<1>4. \/ 8 * bp >= 8 * q.ptr /\ 8 * bp <= 8 * q.ptr + q.size - 1
      \/ 8 * bp + size - 1 >= 8 * q.ptr /\ 8 * bp + size - 1 <= 8 * q.ptr + q.size - 1
  BY <1>2, <1>3 DEF Hits
<1> QED BY <1>1, <1>2, <1>4 DEF Overlaps, ALIGNMENT

\* A payload inside the heap that overlaps no recorded one is added.
LEMMA ApartMeansAddable ==
    ASSUME NEW h, h.brk \in Nat, NEW g, NEW l, l \subseteq Payload, RangesRight(g, l),
           NEW bp \in Nat, NEW size \in Nat \ {0}, 8 * bp + size <= 8 * h.brk,
           NEW r, r = RangeOf(bp, size), \A q \in l : ~Overlaps(r, q)
    PROVE  Addable(h, g, r)
<1>1. InHeap(h, r)
  <2>1. r.lo = 8 * bp /\ r.hi = 8 * bp + size - 1
    BY DEF RangeOf, ALIGNMENT
  <2> QED BY <2>1 DEF InHeap, ALIGNMENT
<1>2. \A p \in ToSet(g) : ~Hits(r.lo, r.hi, p)
  <2> SUFFICES ASSUME NEW p \in ToSet(g), Hits(r.lo, r.hi, p)
               PROVE  FALSE
    OBVIOUS
  <2>1. PICK q \in l : p = RangeOf(q.ptr, q.size)
    BY DEF RangesRight
  <2> QED BY <2>1, HitsOverlap
<1> QED BY <1>1, <1>2 DEF Addable

\* What mm_malloc gives out on a sound heap is always added.
LEMMA MallocIsAddable ==
    ASSUME NEW h, NEW B, NEW l, SoundAs(h, B, l), NEW o, NEW bp, Asks(l, o, bp), o.type = "a",
           NEW g, RangesRight(g, l), NEW new, new = CallOn(h, o, bp), new.bp # NULL,
           RequestIsRight(new, h, l, o, bp)
    PROVE  Addable(new.heap, g, RangeOf(new.bp, o.size))
<1> DEFINE n == AfterCall(o, new)
           r == RangeOf(new.bp, o.size)
<1>1. KeptBy(l, o, bp) = l
  BY DEF KeptBy
<1>2. PICK D : SoundAs(n, D, LiveBy(l, o, bp, new.bp))
  BY DEF RequestIsRight, SpoiltBy
<1>3. \A q \in l : q.ptr # new.bp
  BY <1>1 DEF RequestIsRight
<1>4. l \subseteq Payload
  BY DEF SoundAs, LiveOK
<1>5. n.brk \in Nat /\ n.brk = new.heap.brk
  BY RequestKeepsBreak
<1> DEFINE p == [ptr |-> new.bp, size |-> o.size]
<1>6. p \in LiveBy(l, o, bp, new.bp) /\ p.ptr = new.bp /\ p.size = o.size
      /\ l \subseteq LiveBy(l, o, bp, new.bp)
  BY <1>1 DEF LiveBy
<1> HIDE DEF p, n
<1> DEFINE e == NEXT_BLKP(n, p.ptr)
<1>7. p.ptr \in Nat /\ e \in Nat /\ e <= n.brk /\ 8 * p.ptr + p.size <= 8 * e
      /\ \A q \in l : p.ptr < q.ptr => e <= q.ptr
  BY <1>2, <1>6, SoundFits
<1>8. o.size \in Nat \ {0}
  BY DEF Asks, Request
<1>9. \A q \in l : /\ q.ptr \in Nat /\ q.size \in Nat
                   /\ q.ptr < p.ptr => 8 * q.ptr + q.size <= 8 * p.ptr
  <2> TAKE q \in l
  <2> DEFINE f == NEXT_BLKP(n, q.ptr)
  <2>1. q.ptr \in Nat /\ q.size \in Nat /\ f \in Nat /\ 8 * q.ptr + q.size <= 8 * f
        /\ (q.ptr < p.ptr => f <= p.ptr)
    BY <1>2, <1>6, SoundFits
  <2> HIDE DEF f
  <2> QED BY <1>7, <2>1
<1> HIDE DEF e
<1>10. \A q \in l : ~Overlaps(r, q)
  <2> TAKE q \in l
  <2>1. r.lo = 8 * p.ptr /\ r.hi = 8 * p.ptr + p.size - 1
    BY <1>6 DEF RangeOf, ALIGNMENT
  <2>2. q.ptr < p.ptr \/ p.ptr < q.ptr
    BY <1>3, <1>6, <1>7, <1>9
  <2>3. q.ptr \in Nat /\ q.size \in Nat /\ p.size \in Nat
    BY <1>6, <1>8, <1>9
  <2>4. 8 * q.ptr + q.size <= 8 * p.ptr \/ 8 * p.ptr + p.size <= 8 * q.ptr
    <3>1. CASE q.ptr < p.ptr
      BY <1>9, <3>1
    <3>2. CASE p.ptr < q.ptr
      <4>1. e <= q.ptr
        BY <1>7, <3>2
      <4> QED BY <1>7, <2>3, <4>1
    <3> QED BY <2>2, <3>1, <3>2
  <2> QED BY <1>7, <2>1, <2>3, <2>4 DEF Overlaps, ALIGNMENT
<1>11. 8 * new.bp + o.size <= 8 * new.heap.brk
  BY <1>5, <1>6, <1>7, <1>8
<1> QED BY <1>4, <1>5, <1>6, <1>7, <1>8, <1>10, <1>11, ApartMeansAddable

\* What mm_realloc gives is refused only for an overlap with another payload.
LEMMA ReallocIsAddable ==
    ASSUME NEW h, NEW B, NEW l, SoundAs(h, B, l), NEW o, NEW bp, Asks(l, o, bp), o.type = "r",
           NEW g, RangesRight(g, l), NEW new, new = CallOn(h, o, bp), new.bp # NULL,
           NEW r, r = RangeOf(new.bp, o.size), \A q \in l : q.ptr # bp => ~Overlaps(r, q)
    PROVE  Addable(new.heap, remove_range(g, bp), r)
<1>1. l \subseteq Payload /\ HeapOK(h, B)
  BY DEF SoundAs, LiveOK
<1>2. PICK s \in l : s.ptr = bp
  BY DEF Asks
<1>3. bp \in Allocated(h, B) /\ bp # heap_listp
  BY <1>2, PayloadsAreWithin
<1>4. RangesRight(remove_range(g, bp), {q \in l : q.ptr # bp})
  BY <1>1, <1>2, RangesRemoved
<1>5. o.size \in Nat \ {0} /\ new = mm_realloc(h, bp, o.size)
  BY DEF Asks, Request, CallOn
<1> DEFINE body == BodySize(o.size)
<1>6. new.bp \in Nat /\ new.heap.brk \in Nat /\ new.bp + body <= new.heap.brk
  BY <1>1, <1>3, <1>5, ReallocEnds
<1>7. body \in Nat /\ o.size + 8 <= 8 * body
  <2>1. AdjustedSize(o.size) \in Nat /\ o.size + 8 <= 8 * AdjustedSize(o.size)
    BY <1>5, AdjustedSizeIsEnough DEF DSIZE, ALIGNMENT
  <2>2. PADDING \in Nat
    BY UnitsAssumption
  <2> QED BY <1>5, <2>1, <2>2 DEF BodySize
<1> HIDE DEF body
<1>8. 8 * new.bp + o.size <= 8 * new.heap.brk
  BY <1>5, <1>6, <1>7
<1>9. {q \in l : q.ptr # bp} \subseteq Payload
  BY <1>1
<1>10. \A q \in {q \in l : q.ptr # bp} : ~Overlaps(r, q)
  OBVIOUS
<1> QED BY <1>4, <1>5, <1>6, <1>8, <1>9, <1>10, ApartMeansAddable

\* The bytes that mm_realloc must keep.
Smaller(s, z) == IF s < z THEN s ELSE z

\* mm_realloc never changes the part of the payload that it must keep.
LEMMA ReallocPreserves ==
    ASSUME NEW h, NEW B, NEW l, SoundAs(h, B, l), Clean(h, l), NEW o, NEW bp, Asks(l, o, bp),
           o.type = "r", NEW z, [ptr |-> bp, size |-> z] \in l,
           NEW new, new = CallOn(h, o, bp), new.bp # NULL
    PROVE  Untouched(IF new.bp = bp THEN new.heap ELSE h, bp, Smaller(o.size, z))
<1> DEFINE p == [ptr |-> bp, size |-> z]
           e == NEXT_BLKP(h, bp)
<1>1. p \in l /\ p.ptr = bp /\ p.size = z
  OBVIOUS
<1> HIDE DEF p
<1>2. bp \in Allocated(h, B) /\ bp # heap_listp /\ Within(bp, z, e)
  BY <1>1, PayloadsAreWithin
<1>3. HeapOK(h, B)
  BY DEF SoundAs
<1>4. o.size \in Nat \ {0} /\ new = mm_realloc(h, bp, o.size)
  BY DEF Asks, Request, CallOn
<1>5. z \in Nat \ {0} /\ bp \in Nat
  BY <1>2 DEF Within
<1>6. Untouched(h, bp, z)
  BY <1>1 DEF Clean
<1> DEFINE s == Smaller(o.size, z)
<1>7. s \in Nat \ {0} /\ s <= z
  BY <1>4, <1>5 DEF Smaller
<1> HIDE DEF s, e
<1>8. CASE new.bp = bp
  <2>1. IF bp = bp /\ Moves(h, bp, BodySize(o.size)) THEN new.bp # bp
        ELSE Spares(new.heap, h, bp, NEXT_BLKP(h, bp))
    BY <1>2, <1>3, <1>4, ReallocSpares
  <2>2. Spares(new.heap, h, bp, e)
    BY <1>8, <2>1 DEF e
  <2>3. Untouched(new.heap, bp, z)
    BY <1>2, <1>6, <2>2, UntouchedSpared
  <2> QED BY <1>5, <1>7, <1>8, <2>3, UntouchedLess DEF s
<1>9. CASE new.bp # bp
  BY <1>5, <1>6, <1>7, <1>9, UntouchedLess DEF s
<1> QED BY <1>8, <1>9

\* What DriverInv says nothing of: the words of the payloads in a sound heap.
CleanInv == phase = "valid" /\ SoundHeap(heap, LivePayloads) => Clean(heap, LivePayloads)

\* Where the checked replay found the heap sound, it is sound as a tiling.
LEMMA CheckedIsSound ==
    ASSUME NEW t, LegalTrace(t), NEW h, NEW b, NEW z, NEW R, NEW n, Checked(h, b, z, R, t, n),
           NEW l, l = Held(R, t, n), SoundHeap(h, l)
    PROVE  SoundAs(h, Blocks(h), l)
<1>1. \A k \in 1 .. n : R[k] \in Units
  BY DEF Checked
<1>2. Apart(R, t, n) /\ Framed(h) /\ n \in 0 .. Len(t)
  BY DEF Checked
<1>3. l \subseteq Payload /\ Unique(l)
  BY <1>1, <1>2, HeldIsPayload
<1> QED BY <1>2, <1>3, SoundIsTiling

\* A new trace starts without payloads.
LEMMA ReadTraceCleans ==
    ASSUME ReadTrace
    PROVE  CleanInv'
<1>1. op' = 1
  BY DEF ReadTrace, Reset
<1>2. \A id : ~InUse(ops', op' - 1, id)
  BY <1>1, LastOfFirst
<1>3. phase' = "valid" => LivePayloads' = {}
  BY <1>2 DEF LivePayloads
<1> QED BY <1>3 DEF CleanInv, Clean

\* A request of the checked replay keeps the payloads clean.
LEMMA CleanRequest ==
    ASSUME NEW t, LegalTrace(t), NEW h, NEW b, NEW z, NEW R, NEW n, Checked(h, b, z, R, t, n),
           NEW k, Follows(k, n), n < Len(t), NEW l, l = Held(R, t, n), SoundHeap(h, l), Clean(h, l),
           NEW o, o = t[k], NEW bp, bp = b[o.index], NEW new, new = CallOn(h, o, bp), new.bp # NULL,
           NEW m, m = AfterCall(o, new), NEW S, S = Append(R, new.bp), SoundHeap(m, Held(S, t, k))
    PROVE  Clean(m, Held(S, t, k))
<1>1. /\ Asks(l, o, bp) /\ SoundAs(h, Blocks(h), l)
      /\ RequestIsRight(new, h, l, o, bp)
      /\ Checked(m, [b EXCEPT ![o.index] = new.bp], Sized(z, o), S, t, k)
      /\ Held(S, t, k) = LiveBy(l, o, bp, new.bp)
  BY CheckedRequest
<1>2. SoundAs(m, Blocks(m), Held(S, t, k))
  BY <1>1, CheckedIsSound
<1>3. new.heap \in Heap
  BY <1>1 DEF RequestIsRight
<1> QED BY <1>1, <1>2, <1>3, CleanNext

\* An accepted request keeps the payloads clean.
LEMMA ValidRequestCleans ==
    ASSUME LegalTraces, DriverInv, CleanInv, ValidRequest
    PROVE  CleanInv'
<1> DEFINE o == request
           bp == blocks[o.index]
           new == Call(o)
<1>1. PICK n \in Nat : n = op - 1 /\ At("valid", n)
  BY DueAt DEF ValidRequest
<1> DEFINE l == Held(returned, ops, n)
           S == Append(returned, new.bp)
           m == AfterCall(o, new)
<1>2. /\ new.bp # NULL /\ SoundHeap(heap, LivePayloads)
      /\ heap' = m /\ returned' = S
      /\ op' = op + 1
      /\ UNCHANGED <<tracefiles, i>> /\ phase = "valid" /\ phase' = "valid"
  BY DEF ValidRequest, Acceptable, Due, AfterCall, Remember
<1>3. o = ops[op] /\ new = CallOn(heap, o, bp) /\ bp = blocks[o.index]
  BY <1>1, RequestTyped
<1>4. /\ LegalTrace(ops) /\ Checked(heap, blocks, block_sizes, returned, ops, n)
      /\ Follows(op, n) /\ n < Len(ops)
  BY <1>1 DEF At, Replaying
<1>5. LivePayloads = l
  BY <1>1, LiveInValid
<1>6. SoundHeap(heap, l) /\ Clean(heap, l)
  BY <1>2, <1>5 DEF CleanInv
<1>7. op = op' - 1 /\ ops' = ops
  BY <1>1, <1>2, NextOp DEF DriverInv, ops, trace
<1>8. LivePayloads' = Held(S, ops, op)
  <2>1. DriverInv'
    BY ValidRequestKeeps
  <2>2. Checked(heap', blocks', block_sizes', returned', ops', op' - 1)
    BY <1>2, <2>1 DEF DriverInv, Replaying
  <2>3. Table(blocks', ops) /\ Points(blocks', S, ops, op) /\ op \in 0 .. Len(ops)
    BY <1>2, <1>7, <2>2 DEF Checked
  <2>4. LivePayloads' = {[ptr |-> (blocks')[id], size |-> ops[LastOf(ops, op, id)].size] :
                           id \in {id \in DOMAIN blocks' : InUse(ops, op, id)}}
    BY <1>2, <1>7 DEF LivePayloads, LastUse
  <2> HIDE DEF S
  <2> QED BY <1>4, <2>3, <2>4, LiveIsHeld
<1> HIDE DEF o, bp, new, l, S, m
<1>9. ASSUME SoundHeap(m, Held(S, ops, op)) PROVE Clean(m, Held(S, ops, op))
  BY <1>2, <1>3, <1>4, <1>6, <1>9, CleanRequest DEF l, m, S
<1> QED BY <1>2, <1>8, <1>9 DEF CleanInv

\* Every step keeps the payloads clean.
LEMMA CleanStays ==
    ASSUME LegalTraces, DriverInv, CleanInv, [MdriverNext]_mdriver_vars
    PROVE  CleanInv'
<1>1. CASE UNCHANGED mdriver_vars
  <2>1. LivePayloads' = LivePayloads
    BY <1>1 DEF mdriver_vars, LivePayloads, LastUse, ops, trace
  <2>2. heap' = heap /\ phase' = phase
    BY <1>1 DEF mdriver_vars
  <2> QED BY <2>1, <2>2 DEF CleanInv
<1>2. CASE ReadTrace
  BY <1>2, ReadTraceCleans
<1>3. CASE ValidRequest
  BY <1>3, ValidRequestCleans
<1>4. CASE \/ StartDriver \/ Crash \/ InvalidRequest \/ Valid \/ UtilRequest \/ Util
           \/ SpeedRequest \/ Speed \/ NextTrace
  <2>1. phase' # "valid"
    BY <1>4 DEF StartDriver, Crash, InvalidRequest, Valid, UtilRequest, Util, SpeedRequest, Speed,
       NextTrace, Due
  <2> QED BY <2>1 DEF CleanInv
<1> QED BY <1>1, <1>2, <1>3, <1>4 DEF MdriverNext

\* The new payload overlaps none but the one it replaces.
OverlapsNone(r, l, bp, size) == \A p \in l \ {[ptr |-> bp, size |-> size]} : ~Overlaps(r, p)

\* malloc_error without NULL and without an overlap: there is none.
LEMMA AlarmIsTrue ==
    ASSUME NEW t, LegalTrace(t), NEW h, NEW b, NEW z, NEW R, NEW n, Checked(h, b, z, R, t, n),
           NEW k, Follows(k, n), n < Len(t), NEW l, l = Held(R, t, n), SoundHeap(h, l), Clean(h, l),
           NEW g, RangesRight(g, l), NEW o, o = t[k], NEW bp, bp = b[o.index],
           NEW new, new = CallOn(h, o, bp), new.bp # NULL,
           NEW r, r = RangeOf(new.bp, o.size),
           OverlapsNone(r, l, bp, z[o.index])
    PROVE  /\ o.type # "f" => Addable(new.heap, RangesLeft(g, o, bp), r)
           /\ o.type = "r" => Untouched(IF new.bp = bp THEN new.heap ELSE h, bp, Smaller(o.size, z[o.index]))
<1>1. Asks(l, o, bp) /\ SoundAs(h, Blocks(h), l) /\ RequestIsRight(new, h, l, o, bp)
  <2>1. /\ Asks(l, o, bp) /\ SoundAs(h, Blocks(h), l) /\ RequestIsRight(new, h, l, o, bp)
        /\ Checked(AfterCall(o, new), [b EXCEPT ![o.index] = new.bp], Sized(z, o),
                   Append(R, new.bp), t, k)
    BY CheckedRequest
  <2> QED BY <2>1
<1> DEFINE old == [ptr |-> bp, size |-> z[o.index]]
<1>2. o.type # "a" => old \in l
  <2> SUFFICES ASSUME o.type # "a" PROVE old \in l
    OBVIOUS
  <2>1. Len(t) \in Nat /\ k \in 1 .. Len(t) /\ k - 1 = n
    <3>1. Len(t) \in Nat
      BY DEF LegalTrace
    <3> QED BY <3>1 DEF Follows
  <2>2. t[k] \in Request /\ InUse(t, n, o.index)
    BY <2>1 DEF LegalTrace
  <2>0. t \in Seq(Request) /\ Table(b, t) /\ Table(z, t)
    BY DEF LegalTrace, Checked
  <2>3. o.index \in DOMAIN b /\ o.index \in DOMAIN z /\ o.index \in Nat
    BY <2>0, <2>1, <2>2, TableHas DEF Request
  <2>4. bp = R[LastOf(t, n, o.index)] /\ z[o.index] = t[LastOf(t, n, o.index)].size
    BY <2>2, <2>3 DEF Checked, Points, Measures, InUse
  <2>5. old = PayloadOf(R, t, n, o.index)
    BY <2>4 DEF PayloadOf
  <2> QED BY <2>2, <2>3, <2>5 DEF Held
<1>3. old.ptr = bp
  OBVIOUS
<1>4. o.type \in {"a", "r", "f"}
  BY <1>1 DEF Asks, Request
<1>5. CASE o.type = "a"
  <2>1. Addable(new.heap, g, r)
    BY <1>1, <1>5, MallocIsAddable
  <2> QED BY <1>5, <2>1 DEF RangesLeft
<1>6. CASE o.type = "r"
  <2>1. \A q \in l : q.ptr # bp => ~Overlaps(r, q)
    BY <1>3 DEF OverlapsNone
  <2>2. Addable(new.heap, remove_range(g, bp), r)
    BY <1>1, <1>6, <2>1, ReallocIsAddable
  <2> DEFINE y == z[o.index]
  <2>3. [ptr |-> bp, size |-> y] \in l
    BY <1>2, <1>6
  <2> HIDE DEF y
  <2>4. Untouched(IF new.bp = bp THEN new.heap ELSE h, bp, Smaller(o.size, y))
    BY <1>1, <1>6, <2>3, ReallocPreserves
  <2> QED BY <1>6, <2>2, <2>4 DEF RangesLeft, y
<1>7. CASE o.type = "f"
  BY <1>7
<1> QED BY <1>4, <1>5, <1>6, <1>7

\* The byte of an index is read back while it has no sign bit.
LEMMA ReadsBackBelow ==
    ASSUME NEW id \in Nat, ~(LowByte(id) >= 128)
    PROVE  ReadsBack(id)
<1> QED BY DEF ReadsBack, SignedChar

\* The same of the state of the driver.
LEMMA InvalidIsTrue ==
    ASSUME LegalTraces, DriverInv, CleanInv, InvalidRequest
    PROVE  \/ Call(request).bp = NULL
           \/ request.type = "r" /\ LowByte(request.index) >= 128
           \/ \E p \in LivePayloads \ {[ptr |-> blocks[request.index], size |-> block_sizes[request.index]]} :
                LET r == RangeOf(Call(request).bp, request.size) IN
                /\ r.lo < ALIGNMENT * p.ptr + p.size
                /\ ALIGNMENT * p.ptr <= r.hi
<1> DEFINE o == request
           bp == blocks[o.index]
           new == Call(o)
           r == RangeOf(new.bp, o.size)
<1>1. PICK n \in Nat : n = op - 1 /\ At("valid", n)
  BY DueAt DEF InvalidRequest
<1> DEFINE l == Held(returned, ops, n)
<1>2. /\ phase = "valid" /\ SoundHeap(heap, LivePayloads)
      /\ ~(/\ new.bp # NULL
           /\ o.type # "f" => Addable(new.heap, RangesLeft(ranges, o, bp), r)
           /\ o.type = "r" => ReadsBack(o.index)
           /\ o.type = "r" => Untouched(IF new.bp = bp THEN new.heap ELSE heap, bp,
                                        Smaller(o.size, block_sizes[o.index])))
  BY DEF InvalidRequest, Due, Acceptable, Preserved, RangesBefore, RangesLeft, Smaller
<1>3. o = ops[op] /\ new = CallOn(heap, o, bp) /\ bp = blocks[o.index]
  BY <1>1, RequestTyped
<1>4. /\ LegalTrace(ops) /\ Checked(heap, blocks, block_sizes, returned, ops, n)
      /\ Follows(op, n) /\ n < Len(ops) /\ RangesRight(ranges, l)
  BY <1>1 DEF At, Replaying
<1>5. LivePayloads = l
  BY <1>1, LiveInValid
<1>6. SoundHeap(heap, l) /\ Clean(heap, l)
  BY <1>2, <1>5 DEF CleanInv
<1> SUFFICES ASSUME new.bp # NULL, ~(o.type = "r" /\ LowByte(o.index) >= 128),
                    OverlapsNone(r, l, bp, block_sizes[o.index])
             PROVE  FALSE
  BY <1>5 DEF Overlaps, OverlapsNone
<1> HIDE DEF o, bp, new, l, r
<1>7. /\ o.type # "f" => Addable(new.heap, RangesLeft(ranges, o, bp), r)
      /\ o.type = "r" => Untouched(IF new.bp = bp THEN new.heap ELSE heap, bp,
                                   Smaller(o.size, block_sizes[o.index]))
  BY <1>3, <1>4, <1>6, AlarmIsTrue DEF r, l
<1>8. o.type = "r" => ReadsBack(o.index)
  <2>1. o.index \in Nat
    BY <1>1, RequestTyped DEF Request, o
  <2>2. o.type = "r" => ~(LowByte(o.index) >= 128)
    OBVIOUS
  <2> QED BY <2>1, <2>2, ReadsBackBelow
<1> QED BY <1>2, <1>7, <1>8

\* eval_mm_valid finds a trace invalid only when the package returned NULL or handed out a
\* payload over another one, or at a reallocation of an index whose low byte has the sign
\* bit, where it compares a signed char with the byte.
THEOREM NoFalseAlarmAlways ==
    ASSUME LegalTraces
    PROVE  MdriverSpec => NoFalseAlarm
<1>1. MdriverInit => CleanInv
  BY DEF MdriverInit, CleanInv
<1>2. DriverInv /\ CleanInv /\ [MdriverNext]_mdriver_vars => CleanInv'
  BY CleanStays
<1>3. DriverInv /\ CleanInv /\ [MdriverNext]_mdriver_vars =>
        [InvalidRequest =>
           \/ Call(request).bp = NULL
           \/ request.type = "r" /\ LowByte(request.index) >= 128
           \/ \E p \in LivePayloads \ {[ptr |-> blocks[request.index], size |-> block_sizes[request.index]]} :
                LET r == RangeOf(Call(request).bp, request.size) IN
                /\ r.lo < ALIGNMENT * p.ptr + p.size
                /\ ALIGNMENT * p.ptr <= r.hi]_mdriver_vars
  BY InvalidIsTrue
<1> QED BY <1>1, <1>2, <1>3, DriverInvariant, PTL DEF MdriverSpec, NoFalseAlarm
=============================================================================
