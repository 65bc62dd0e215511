----------------------------- MODULE CsimProofs ------------------------------
(***************************************************************************)
(* The blocks and the counters of csim agree, and csim is the reference    *)
(* cache but for the block of the first access, for every geometry of the  *)
(* cache and every trace.                                                  *)
(***************************************************************************)
EXTENDS CsimLru, SearchProofs, FiniteSetTheorems

\* An address selects a set and a tag.
LEMMA AddressSelects ==
    ASSUME NEW addr \in Addrs
    PROVE  INDEX(addr) \in SetIndices /\ TAG(addr) \in Nat
<1> USE ArgumentsAssumption, AddrsAssumption, PowersArePositive
<1>1. 2^s \in Int /\ 2^b \in Int /\ 2^(s + b) \in Int
  <2>1. s \in Nat /\ b \in Nat /\ s + b \in Nat
    OBVIOUS
  <2> QED BY <2>1
<1>2. \A n, m \in Nat : m > 0 => n % m \in 0..(m - 1) /\ n \div m \in Nat
  OBVIOUS
<1>3. addr \div 2^b \in Nat /\ TAG(addr) \in Nat
  BY <1>1, <1>2 DEF TAG
<1>4. INDEX(addr) \in SetIndices
  BY <1>1, <1>2, <1>3 DEF INDEX, SetIndices
<1> QED BY <1>3, <1>4

LEMMA SetsAreFinite == ASSUME NEW m PROVE IsFiniteSet(ValidLines(m))
<1>1. 2^s - 1 \in Int /\ E - 1 \in Int
  BY ArgumentsAssumption
<1>2. IsFiniteSet(SetIndices) /\ IsFiniteSet(Lines)
  BY <1>1, FS_Interval DEF SetIndices, Lines
<1>3. IsFiniteSet(SetIndices \X Lines)
  BY <1>2, FS_Product
<1>4. ValidLines(m) \in SUBSET (SetIndices \X Lines)
  BY DEF ValidLines
<1> QED BY <1>3, <1>4, FS_Subset

LEMMA LinesAreNaturals == Lines \subseteq Nat /\ Lines # {}
<1>1. 0 \in Lines
  BY ArgumentsAssumption DEF Lines
<1>2. Lines \subseteq Nat
  BY ArgumentsAssumption DEF Lines
<1> QED BY <1>1, <1>2

\* The search for the smallest lruCount ends at a line.
LEMMA EvictionBlockIsLine ==
    ASSUME NEW set \in [Lines -> Block]
    PROVE  EvictionBlock(set) \in Lines
<1> DEFINE Counts == {set[j].lruCount : j \in Lines}
<1>1. Counts \subseteq Nat /\ Counts # {}
  <2>1. \A j \in Lines : set[j].lruCount \in Nat
    BY DEF Block
  <2> QED BY <2>1, LinesAreNaturals
<1>2. PICK c \in Counts : \A d \in Counts : c <= d
  BY <1>1, LeastExists
<1>3. PICK j \in Lines : set[j].lruCount = c
  OBVIOUS
<1>4. j \in Oldest(set)
  BY <1>2, <1>3 DEF Oldest
<1>5. Oldest(set) \subseteq Lines /\ Oldest(set) \subseteq Nat
  BY LinesAreNaturals DEF Oldest
<1>6. First(Oldest(set)) \in Oldest(set)
  BY <1>4, <1>5, FirstIsLeast
<1> QED BY <1>5, <1>6 DEF EvictionBlock

\* A hit is at a line that holds the tag.
LEMMA HitIsAtHolder ==
    ASSUME NEW set, NEW tag, Holding(set, tag) # {}
    PROVE  First(Holding(set, tag)) \in Holding(set, tag) /\ First(Holding(set, tag)) \in Lines
<1>1. Holding(set, tag) \subseteq Lines /\ Holding(set, tag) \subseteq Nat
  BY LinesAreNaturals DEF Holding
<1>2. First(Holding(set, tag)) \in Holding(set, tag)
  BY <1>1, FirstIsLeast
<1> QED BY <1>1, <1>2

\* Put changes one block of one set.
LEMMA PutOneBlock ==
    ASSUME NEW cache \in [SetIndices -> [Lines -> Block]],
           NEW i \in SetIndices, NEW j \in Lines, NEW block \in Block
    PROVE  /\ Put(cache, i, j, block) \in [SetIndices -> [Lines -> Block]]
           /\ Put(cache, i, j, block)[i][j] = block
           /\ \A x \in SetIndices, y \in Lines :
                 <<x, y>> # <<i, j>> => Put(cache, i, j, block)[x][y] = cache[x][y]
<1>1. [cache[i] EXCEPT ![j] = block] \in [Lines -> Block]
  OBVIOUS
<1> QED BY <1>1 DEF Put

LEMMA HitPreservesConsistent ==
    ASSUME NEW m, Consistent(m), NEW i \in SetIndices, NEW tag \in Nat,
           Holding(m.cache[i], tag) # {}
    PROVE  Consistent(Hit(m, i, tag))
<1> DEFINE n == Hit(m, i, tag)
           j == First(Holding(m.cache[i], tag))
<1>0. m \in Simulation /\ m.LRU = m.hits + m.misses /\ TagOnce(m) /\ Accounted(m)
  BY DEF Consistent, Counted
<1>1. j \in Lines
  BY HitIsAtHolder
<1>2. m.cache[i][j] \in Block
  BY <1>0, <1>1 DEF Simulation
<1>3. Refreshed(m.cache[i][j], m.LRU) \in Block
  BY <1>0, <1>2 DEF Refreshed, Block, Simulation
<1> HIDE DEF j
<1>4. n = [cache |-> Put(m.cache, i, j, Refreshed(m.cache[i][j], m.LRU)), LRU |-> m.LRU + 1,
           hits |-> m.hits + 1, misses |-> m.misses, evictions |-> m.evictions]
  BY DEF Hit, NextLRU, j
<1> HIDE DEF n
<1>5. /\ m.cache \in [SetIndices -> [Lines -> Block]]
      /\ m.LRU \in Nat /\ m.hits \in Nat /\ m.misses \in Nat /\ m.evictions \in Nat
  BY <1>0 DEF Simulation
<1>6. n \in Simulation
  BY <1>1, <1>3, <1>4, <1>5, PutOneBlock DEF Simulation
<1>7. n.LRU = n.hits + n.misses
  BY <1>0, <1>4, <1>5
<1>8. \A x \in SetIndices, y \in Lines :
        n.cache[x][y].valid = m.cache[x][y].valid /\ n.cache[x][y].tag = m.cache[x][y].tag
  <2> SUFFICES ASSUME NEW x \in SetIndices, NEW y \in Lines
               PROVE  /\ n.cache[x][y].valid = m.cache[x][y].valid
                      /\ n.cache[x][y].tag = m.cache[x][y].tag
    OBVIOUS
  <2>1. CASE <<x, y>> # <<i, j>>
    <3>1. Put(m.cache, i, j, Refreshed(m.cache[i][j], m.LRU))[x][y] = m.cache[x][y]
      BY <1>1, <1>3, <1>5, <2>1, PutOneBlock
    <3>2. n.cache[x][y] = m.cache[x][y]
      BY <1>4, <3>1
    <3> QED BY <3>2
  <2>2. CASE x = i /\ y = j
    <3>1. n.cache[x][y] = Refreshed(m.cache[i][j], m.LRU)
      BY <1>1, <1>3, <1>4, <1>5, <2>2, PutOneBlock
    <3> QED BY <1>2, <2>2, <3>1 DEF Refreshed, Block
  <2> QED BY <2>1, <2>2
<1>9. TagOnce(n)
  BY <1>0, <1>8 DEF TagOnce
<1>10. ValidLines(n) = ValidLines(m)
  BY <1>8 DEF ValidLines
<1>11. Accounted(n)
  BY <1>0, <1>4, <1>10 DEF Accounted
<1>12. Consistent(n)
  BY <1>6, <1>7, <1>9, <1>11 DEF Consistent, Counted
<1> QED BY <1>12 DEF n

LEMMA MissPreservesConsistent ==
    ASSUME NEW m, Consistent(m), NEW i \in SetIndices, NEW tag \in Nat,
           Holding(m.cache[i], tag) = {}
    PROVE  Consistent(Miss(m, i, tag))
<1> DEFINE n == Miss(m, i, tag)
           v == EvictionBlock(m.cache[i])
           filled == [valid |-> TRUE, tag |-> tag, lruCount |-> m.LRU]
<1>0. m \in Simulation /\ m.LRU = m.hits + m.misses /\ TagOnce(m) /\ Accounted(m)
  BY DEF Consistent, Counted
<1>1. v \in Lines
  BY <1>0, EvictionBlockIsLine DEF Simulation
<1>2. filled \in Block
  BY <1>0 DEF Block, Simulation
<1>3. EvictionsBy(m.cache[i][v]) = IF m.cache[i][v].valid THEN 1 ELSE 0
  BY DEF EvictionsBy
<1>4. n = [cache |-> Put(m.cache, i, v, filled), LRU |-> m.LRU + 1,
           hits |-> m.hits, misses |-> m.misses + 1,
           evictions |-> m.evictions + EvictionsBy(m.cache[i][v])]
  BY DEF Miss, NextLRU
<1> HIDE DEF n, v, filled
<1>5. /\ m.cache \in [SetIndices -> [Lines -> Block]]
      /\ m.LRU \in Nat /\ m.hits \in Nat /\ m.misses \in Nat /\ m.evictions \in Nat
  BY <1>0 DEF Simulation
<1>6. n \in Simulation
  <2>1. m.evictions + EvictionsBy(m.cache[i][v]) \in Nat
    BY <1>3, <1>5
  <2>2. Put(m.cache, i, v, filled) \in [SetIndices -> [Lines -> Block]]
    BY <1>1, <1>2, <1>5, PutOneBlock
  <2>3. m.LRU + 1 \in Nat /\ m.misses + 1 \in Nat
    BY <1>5
  <2> QED BY <1>4, <1>5, <2>1, <2>2, <2>3 DEF Simulation
<1>7. n.LRU = n.hits + n.misses
  BY <1>0, <1>4, <1>5
<1>8. n.cache[i][v] = filled /\ filled.valid /\ filled.tag = tag
  BY <1>1, <1>2, <1>4, <1>5, PutOneBlock DEF filled
<1>9. \A x \in SetIndices, y \in Lines : <<x, y>> # <<i, v>> => n.cache[x][y] = m.cache[x][y]
  BY <1>1, <1>2, <1>4, <1>5, PutOneBlock
<1>10. TagOnce(n)
  <2> SUFFICES ASSUME NEW x \in SetIndices, NEW y \in Lines, NEW z \in Lines,
                      n.cache[x][y].valid, n.cache[x][z].valid,
                      n.cache[x][y].tag = n.cache[x][z].tag
               PROVE  y = z
    BY DEF TagOnce
  <2>1. \A w \in Lines : m.cache[i][w].valid => m.cache[i][w].tag # tag
    BY DEF Holding
  <2>2. CASE <<x, y>> # <<i, v>> /\ <<x, z>> # <<i, v>>
    BY <1>0, <1>9, <2>2 DEF TagOnce
  <2>3. CASE <<x, y>> = <<i, v>> /\ <<x, z>> # <<i, v>>
    BY <1>8, <1>9, <2>1, <2>3
  <2>4. CASE <<x, y>> # <<i, v>> /\ <<x, z>> = <<i, v>>
    BY <1>8, <1>9, <2>1, <2>4
  <2>5. CASE <<x, y>> = <<i, v>> /\ <<x, z>> = <<i, v>>
    BY <2>5
  <2> QED BY <2>2, <2>3, <2>4, <2>5
<1>11. ValidLines(n) = ValidLines(m) \cup {<<i, v>>}
  <2>1. <<i, v>> \in ValidLines(n)
    BY <1>1, <1>8 DEF ValidLines
  <2>2. ASSUME NEW x \in SetIndices, NEW y \in Lines, <<x, y>> # <<i, v>>
        PROVE  <<x, y>> \in ValidLines(n) <=> <<x, y>> \in ValidLines(m)
    BY <1>9, <2>2 DEF ValidLines
  <2>3. /\ ValidLines(n) \subseteq SetIndices \X Lines
        /\ ValidLines(m) \subseteq SetIndices \X Lines
    BY DEF ValidLines
  <2> QED BY <1>1, <2>1, <2>2, <2>3
<1>12. <<i, v>> \in ValidLines(m) <=> m.cache[i][v].valid
  BY <1>1 DEF ValidLines
<1>13. Cardinality(ValidLines(m)) \in Nat
  BY SetsAreFinite, FS_CardinalityType
<1>14. Cardinality(ValidLines(n)) =
         IF m.cache[i][v].valid THEN Cardinality(ValidLines(m)) ELSE Cardinality(ValidLines(m)) + 1
  BY <1>11, <1>12, SetsAreFinite, FS_AddElement
<1>15. n.misses = m.misses + 1 /\ n.evictions = m.evictions + EvictionsBy(m.cache[i][v])
  BY <1>4
<1>16. Accounted(n)
  <2>1. CASE m.cache[i][v].valid
    BY <1>0, <1>3, <1>5, <1>13, <1>14, <1>15, <2>1 DEF Accounted
  <2>2. CASE ~m.cache[i][v].valid
    BY <1>0, <1>3, <1>5, <1>13, <1>14, <1>15, <2>2 DEF Accounted
  <2> QED BY <2>1, <2>2
<1>17. Consistent(n)
  BY <1>6, <1>7, <1>10, <1>16 DEF Consistent, Counted
<1> QED BY <1>17 DEF n

\* One access keeps the blocks and the counters consistent.
LEMMA AccessPreservesConsistent ==
    ASSUME NEW m, Consistent(m), NEW addr \in Addrs
    PROVE  Consistent(cacheAccess(m, addr))
<1>1. INDEX(addr) \in SetIndices /\ TAG(addr) \in Nat
  BY AddressSelects
<1>2. CASE Holding(m.cache[INDEX(addr)], TAG(addr)) # {}
  BY <1>1, <1>2, HitPreservesConsistent DEF cacheAccess
<1>3. CASE Holding(m.cache[INDEX(addr)], TAG(addr)) = {}
  BY <1>1, <1>3, MissPreservesConsistent DEF cacheAccess
<1> QED BY <1>2, <1>3

LEMMA InitConsistent == Init => IInv
<1> SUFFICES ASSUME Init PROVE IInv
  OBVIOUS
<1>1. sim = [cache |-> initCache, LRU |-> 0, hits |-> 0, misses |-> 0, evictions |-> 0]
  BY DEF Init
<1>2. [valid |-> FALSE, tag |-> 0, lruCount |-> 0] \in Block
  BY DEF Block
<1>3. initCache \in [SetIndices -> [Lines -> Block]]
  BY <1>2 DEF initCache
<1>4. Counted(sim)
  BY <1>1, <1>3 DEF Counted, Simulation
<1>5. \A x \in SetIndices, y \in Lines : ~sim.cache[x][y].valid
  BY <1>1 DEF initCache
<1>6. TagOnce(sim)
  BY <1>5 DEF TagOnce
<1>7. ValidLines(sim) = {}
  BY <1>5 DEF ValidLines
<1>8. Accounted(sim)
  BY <1>1, <1>7, FS_EmptySet DEF Accounted
<1> QED BY <1>4, <1>6, <1>8 DEF IInv, Consistent

\* csim never caches a block twice and its counters never disagree with its
\* blocks: IInv holds for every s, E and b and every trace (cacheAccess, simulate).
THEOREM CacheIsConsistent == Spec => []IInv
<1>1. Init => IInv
  BY InitConsistent
<1>2. IInv /\ [Next]_sim => IInv'
  <2> SUFFICES ASSUME IInv, [Next]_sim PROVE IInv'
    OBVIOUS
  <2>1. CASE UNCHANGED sim
    BY <2>1 DEF IInv, Consistent, Counted, TagOnce, Accounted, ValidLines
  <2>2. ASSUME NEW addr \in Addrs, Access(addr) PROVE IInv'
    BY <2>2, AccessPreservesConsistent DEF Access, IInv
  <2>3. ASSUME NEW addr \in Addrs, Modify(addr) PROVE IInv'
    BY <2>3, AccessPreservesConsistent DEF Modify, IInv
  <2> QED BY <2>1, <2>2, <2>3 DEF Next
<1> QED BY <1>1, <1>2, PTL DEF Spec

\* Every access counts once: LRU is the number of hits and misses so far (cacheAccess).
THEOREM CountedHolds == Spec => []TypeOK
<1>1. IInv => TypeOK
  BY DEF IInv, Consistent, TypeOK
<1> QED BY <1>1, CacheIsConsistent, PTL

\* No block is on two lines of its set.
THEOREM TagOncePerSetHolds == Spec => []TagOncePerSet
<1>1. IInv => TagOncePerSet
  BY DEF IInv, Consistent, TagOncePerSet
<1> QED BY <1>1, CacheIsConsistent, PTL

\* The misses are the evictions plus the blocks that are still there.
THEOREM EvictionsAccountHolds == Spec => []EvictionsAccountForMisses
<1>1. IInv => EvictionsAccountForMisses
  BY DEF IInv, Consistent, EvictionsAccountForMisses
<1> QED BY <1>1, CacheIsConsistent, PTL

-----------------------------------------------------------------------------
(* csim next to the reference cache: what they have in common after any      *)
(* access.                                                                   *)

ValidOf(set) == {j \in Lines : set[j].valid}
TagsOf(set) == {set[j].tag : j \in ValidOf(set)}

\* The lruCounts tell the lines in use from those never used, and from one another.
Stamped(set, now) ==
    /\ \A j \in Lines : IF set[j].valid THEN set[j].lruCount \in 1 .. (now - 1) ELSE set[j].lruCount = 0
    /\ \A j, k \in ValidOf(set) : set[j].lruCount = set[k].lruCount => j = k

\* A set holds what the reference holds except for lost, the tags used least recently.
Follows(set, older, lost, now) ==
    /\ Stamped(set, now)
    /\ DOMAIN older = TagsOf(set) \cup lost
    /\ lost \cap TagsOf(set) = {}
    /\ Cardinality(DOMAIN older) <= E
    /\ \A j, k \in ValidOf(set) :
          set[j].tag \in older[set[k].tag] <=> set[j].lruCount < set[k].lruCount
    /\ \A t \in lost : older[t] = {}
    /\ \A j \in ValidOf(set) : lost \subseteq older[set[j].tag] /\ older[set[j].tag] \subseteq DOMAIN older

\* The first access was to this set, and its block was not used since.
Fresh(set, older) ==
    /\ set[0].valid /\ set[0].lruCount = 0
    /\ \A j \in Lines \ {0} : ~set[j].valid /\ set[j].lruCount = 0
    /\ DOMAIN older = {set[0].tag} /\ older[set[0].tag] = {}

Ahead(m, l, misses, evictions) ==
    m.misses = l.misses + misses /\ m.evictions = l.evictions + evictions

\* The set of the first access: its first block is as it was; or csim has evicted it and
\* the reference has not; or both have, or it was used in time, or it is back.
FirstSet(m, l, i) ==
    LET set == m.cache[i]
        older == l.older[i]
    IN  \/ Fresh(set, older) /\ Ahead(m, l, 0, 0)
        \/ (\E t \in DOMAIN older : Follows(set, older, {t}, m.LRU)) /\ Ahead(m, l, 0, 1)
        \/ Follows(set, older, {}, m.LRU) /\ (Ahead(m, l, 0, 0) \/ Ahead(m, l, 1, 1))

Alike(m, l, f) ==
    /\ Consistent(m)
    /\ DOMAIN l.older = SetIndices /\ l.misses \in Nat /\ l.evictions \in Nat
    /\ f \subseteq SetIndices /\ (\A i, j \in f : i = j)
    /\ f = {} <=> m.LRU = 0
    /\ f = {} => Ahead(m, l, 0, 0)
    /\ \A i \in SetIndices \ f : Follows(m.cache[i], l.older[i], {}, m.LRU)
    /\ \A i \in f : FirstSet(m, l, i)

LruInv == Alike(sim, lru, first)

\* In a set that has each tag once there are as many tags as lines in use.
LEMMA CountTags ==
    ASSUME NEW set \in [Lines -> Block],
           \A j, k \in ValidOf(set) : set[j].tag = set[k].tag => j = k
    PROVE  /\ IsFiniteSet(TagsOf(set)) /\ Cardinality(TagsOf(set)) \in Nat
           /\ Cardinality(TagsOf(set)) <= E
           /\ Cardinality(TagsOf(set)) = E <=> ValidOf(set) = Lines
<1>1. IsFiniteSet(Lines) /\ Cardinality(Lines) = E
  <2>1. E - 1 \in Int /\ E > 0
    BY ArgumentsAssumption
  <2> QED BY <2>1, ArgumentsAssumption, FS_Interval DEF Lines
<1>2. ValidOf(set) \in SUBSET Lines
  BY DEF ValidOf
<1>3. /\ IsFiniteSet(ValidOf(set)) /\ Cardinality(ValidOf(set)) <= E
      /\ Cardinality(ValidOf(set)) = E <=> ValidOf(set) = Lines
  BY <1>1, <1>2, FS_Subset
<1>4. ExistsBijection(ValidOf(set), TagsOf(set))
  <2> DEFINE f == [j \in ValidOf(set) |-> set[j].tag]
  <2>1. f \in [ValidOf(set) -> TagsOf(set)] /\ (\A j \in ValidOf(set) : f[j] = set[j].tag)
    BY DEF TagsOf
  <2> HIDE DEF f
  <2>2. \A j, k \in ValidOf(set) : f[j] = f[k] => j = k
    BY <2>1
  <2>3. \A t \in TagsOf(set) : \E j \in ValidOf(set) : f[j] = t
    BY <2>1 DEF TagsOf
  <2>4. f \in Bijection(ValidOf(set), TagsOf(set))
    BY <2>1, <2>2, <2>3, Zenon DEF Bijection, Injection, Surjection, IsInjective
  <2> QED BY <2>4 DEF ExistsBijection
<1>5. IsFiniteSet(TagsOf(set)) /\ Cardinality(TagsOf(set)) = Cardinality(ValidOf(set))
  BY <1>3, <1>4, FS_Bijection
<1> QED BY <1>3, <1>5, FS_CardinalityType

\* A miss takes a line that was never used, or else the one used least recently.
LEMMA EvictionBlockIsOldest ==
    ASSUME NEW set \in [Lines -> Block]
    PROVE  /\ EvictionBlock(set) \in Lines
           /\ \A k \in Lines : set[EvictionBlock(set)].lruCount <= set[k].lruCount
<1>1. EvictionBlock(set) \in Lines
  BY EvictionBlockIsLine
<1> DEFINE All == {set[j].lruCount : j \in Lines}
<1>2. All \subseteq Nat /\ All # {}
  <2>1. \A j \in Lines : set[j].lruCount \in Nat
    BY DEF Block
  <2> QED BY <2>1, LinesAreNaturals
<1>3. PICK c \in All : \A d \in All : c <= d
  BY <1>2, LeastExists
<1>4. PICK j \in Lines : set[j].lruCount = c
  OBVIOUS
<1>5. j \in Oldest(set)
  BY <1>3, <1>4 DEF Oldest
<1>6. Oldest(set) \subseteq Nat
  BY LinesAreNaturals DEF Oldest
<1>7. First(Oldest(set)) \in Oldest(set)
  BY <1>5, <1>6, FirstIsLeast
<1> QED BY <1>1, <1>7 DEF EvictionBlock, Oldest

\* The line that a miss takes is in use only when every line is.
LEMMA UnusedFirst ==
    ASSUME NEW set \in [Lines -> Block], NEW now \in Nat, Stamped(set, now)
    PROVE  set[EvictionBlock(set)].valid <=> ValidOf(set) = Lines
<1> DEFINE v == EvictionBlock(set)
<1>1. v \in Lines /\ \A k \in Lines : set[v].lruCount <= set[k].lruCount
  BY EvictionBlockIsOldest
<1> HIDE DEF v
<1>2. ASSUME set[v].valid, NEW k \in Lines, ~set[k].valid PROVE FALSE
  BY <1>1, <1>2 DEF Stamped
<1>3. ValidOf(set) = Lines => set[v].valid
  BY <1>1 DEF ValidOf
<1>4. set[v].valid => ValidOf(set) = Lines
  BY <1>2 DEF ValidOf
<1> QED BY <1>3, <1>4 DEF v

\* What the used tag is among the tags kept makes no difference.
LEMMA RecencyOfKept ==
    ASSUME NEW older, NEW kept, NEW tag
    PROVE  Reference!Recency(older, kept, tag) = Reference!Recency(older, kept \ {tag}, tag)
<1>1. kept \cup {tag} = (kept \ {tag}) \cup {tag} /\ kept \ {tag} = (kept \ {tag}) \ {tag}
  OBVIOUS
<1> QED BY <1>1 DEF Reference!Recency

\* A block that is put into line v now, with the tags of the other lines and of lost kept
\* in the reference.
LEMMA UseFollows ==
    ASSUME NEW set \in [Lines -> Block], NEW older, NEW lost, NEW now \in Nat, now > 0,
           Follows(set, older, lost, now),
           NEW v \in Lines, NEW block \in Block, block.valid, block.lruCount = now,
           NEW left, left \subseteq lost, block.tag \notin left,
           NEW kept, kept \ {block.tag} = {set[j].tag : j \in ValidOf(set) \ {v}} \cup left,
           block.tag \notin {set[j].tag : j \in ValidOf(set) \ {v}},
           \A j, k \in ValidOf(set) : set[j].tag = set[k].tag => j = k,
           Cardinality(kept \cup {block.tag}) <= E
    PROVE  Follows([set EXCEPT ![v] = block], Reference!Recency(older, kept, block.tag), left, now + 1)
<1> DEFINE tag == block.tag
           others == {set[j].tag : j \in ValidOf(set) \ {v}}
           new == [set EXCEPT ![v] = block]
           recent == Reference!Recency(older, kept, tag)
<1>1. /\ new \in [Lines -> Block] /\ new[v] = block
      /\ \A j \in Lines \ {v} : new[j] = set[j]
  OBVIOUS
<1>2. /\ ValidOf(new) = ValidOf(set) \cup {v}
  BY <1>1 DEF ValidOf
<1>3. recent = [t \in others \cup left \cup {tag} |->
                  IF t = tag THEN others \cup left ELSE older[t] \cap (others \cup left)]
  BY DEF Reference!Recency
<1> HIDE DEF new, recent
<1>4. Stamped(set, now)
  BY DEF Follows
<1>5. \A j \in Lines : set[j].lruCount \in Nat
  BY DEF Block
<1>6. Stamped(new, now + 1)
  <2>1. ASSUME NEW j \in Lines
        PROVE  IF new[j].valid THEN new[j].lruCount \in 1 .. ((now + 1) - 1) ELSE new[j].lruCount = 0
    BY <1>1, <1>4, <1>5 DEF Stamped
  <2>2. ASSUME NEW j \in ValidOf(new), NEW k \in ValidOf(new), new[j].lruCount = new[k].lruCount
        PROVE  j = k
    <3>1. \A l \in ValidOf(set) : set[l].lruCount < now
      BY <1>4, <1>5 DEF Stamped, ValidOf
    <3>2. j # v /\ k # v => j \in ValidOf(set) /\ k \in ValidOf(set) /\ set[j].lruCount = set[k].lruCount
      BY <1>1, <1>2, <2>2 DEF ValidOf
    <3>3. j = v /\ k # v => set[k].lruCount = now /\ k \in ValidOf(set)
      BY <1>1, <1>2, <2>2 DEF ValidOf
    <3>4. k = v /\ j # v => set[j].lruCount = now /\ j \in ValidOf(set)
      BY <1>1, <1>2, <2>2 DEF ValidOf
    <3> QED BY <1>4, <3>1, <3>2, <3>3, <3>4 DEF Stamped
  <2> QED BY <2>1, <2>2 DEF Stamped
<1>7. TagsOf(new) = others \cup {tag}
  <2>1. \A j \in ValidOf(set) \ {v} : new[j].tag = set[j].tag /\ j \in ValidOf(new)
    BY <1>1, <1>2 DEF ValidOf
  <2>2. v \in ValidOf(new) /\ new[v].tag = tag
    BY <1>1, <1>2
  <2>3. \A j \in ValidOf(new) : j = v \/ j \in ValidOf(set) \ {v}
    BY <1>2
  <2> QED BY <2>1, <2>2, <2>3 DEF TagsOf
<1>8. DOMAIN recent = TagsOf(new) \cup left
  BY <1>3, <1>7
<1>9. left \cap TagsOf(new) = {}
  <2>1. lost \cap TagsOf(set) = {}
    BY DEF Follows
  <2>2. others \subseteq TagsOf(set)
    BY DEF TagsOf
  <2> HIDE DEF others
  <2> QED BY <1>7, <2>1, <2>2
<1>10. Cardinality(DOMAIN recent) <= E
  <2>1. kept \cup {tag} = DOMAIN recent
    BY <1>3
  <2> QED BY <2>1
<1>11. ASSUME NEW j \in ValidOf(new), NEW k \in ValidOf(new)
       PROVE  new[j].tag \in recent[new[k].tag] <=> new[j].lruCount < new[k].lruCount
  <2>1. \A l \in ValidOf(new) \ {v} : l \in ValidOf(set) /\ new[l] = set[l] /\ set[l].tag \in others
                                        /\ set[l].tag # tag /\ set[l].lruCount < now
    <3>1. \A l \in ValidOf(set) : set[l].lruCount < now
      BY <1>4, <1>5 DEF Stamped, ValidOf
    <3> QED BY <1>1, <1>2, <3>1 DEF ValidOf
  <2>2. CASE k = v
    <3>1. recent[new[k].tag] = others \cup left /\ new[k].lruCount = now
      BY <1>1, <1>3, <2>2
    <3>2. CASE j = v
      <4>1. tag \notin others \cup left
        OBVIOUS
      <4> QED BY <1>1, <2>2, <3>1, <3>2, <4>1
    <3>3. CASE j # v
      BY <2>1, <3>1, <3>3
    <3> QED BY <3>2, <3>3
  <2>3. CASE k # v
    <3>1. recent[new[k].tag] = older[set[k].tag] \cap (others \cup left)
      BY <1>3, <2>1, <2>3
    <3>2. CASE j = v
      <4>1. new[j].tag \notin recent[new[k].tag]
        BY <1>1, <3>1, <3>2
      <4>2. ~(new[j].lruCount < new[k].lruCount)
        <5>1. k \in Lines /\ new[j].lruCount = now /\ new[k].lruCount = set[k].lruCount
          BY <1>1, <2>3, <3>2 DEF ValidOf
        <5>2. set[k].lruCount \in Nat /\ set[k].lruCount < now
          BY <1>5, <2>1, <2>3, <5>1
        <5> QED BY <5>1, <5>2
      <4> QED BY <4>1, <4>2
    <3>3. CASE j # v
      <4>1. new[j].tag \in recent[new[k].tag] <=> set[j].tag \in older[set[k].tag]
        BY <2>1, <3>1, <3>3
      <4> QED BY <2>1, <2>3, <3>3, <4>1 DEF Follows
    <3> QED BY <3>2, <3>3
  <2> QED BY <2>2, <2>3
<1>12. \A t \in left : recent[t] = {}
  BY <1>3 DEF Follows
<1>13. ASSUME NEW j \in ValidOf(new)
       PROVE  left \subseteq recent[new[j].tag] /\ recent[new[j].tag] \subseteq DOMAIN recent
  <2>1. CASE j = v
    BY <1>1, <1>3, <2>1
  <2>2. CASE j # v
    <3>1. j \in ValidOf(set) /\ new[j].tag = set[j].tag /\ set[j].tag \in others /\ set[j].tag # tag
      BY <1>1, <1>2, <2>2 DEF ValidOf
    <3>2. recent[new[j].tag] = older[set[j].tag] \cap (others \cup left)
      BY <1>3, <3>1
    <3> QED BY <1>3, <3>1, <3>2 DEF Follows
  <2> QED BY <2>1, <2>2
<1>14. Follows(new, recent, left, now + 1)
  BY <1>6, <1>8, <1>9, <1>10, <1>11, <1>12, <1>13 DEF Follows
<1> QED BY <1>14 DEF new, recent

\* What one access does to its set and to the counters, in csim and in the reference.
Use(set, tag, now) ==
    IF Holding(set, tag) # {}
    THEN [set EXCEPT ![First(Holding(set, tag))] = Refreshed(@, now)]
    ELSE [set EXCEPT ![EvictionBlock(set)] = [valid |-> TRUE, tag |-> tag, lruCount |-> now]]
Missed(set, tag) == IF Holding(set, tag) # {} THEN 0 ELSE 1
Evicted(set, tag) == IF Holding(set, tag) # {} THEN 0 ELSE EvictionsBy(set[EvictionBlock(set)])

LruEvicts(older, tag) ==
    IF tag \notin DOMAIN older /\ Cardinality(DOMAIN older) = E
    THEN Reference!LeastRecent(older) ELSE {}
LruUse(older, tag) == Reference!Recency(older, DOMAIN older \ LruEvicts(older, tag), tag)
LruMissed(older, tag) == IF tag \in DOMAIN older THEN 0 ELSE 1
LruEvicted(older, tag) == Cardinality(LruEvicts(older, tag))

TagsDiffer(set) == \A j, k \in ValidOf(set) : set[j].tag = set[k].tag => j = k

\* A hit follows: both use the block and miss nothing.
LEMMA HitFollows ==
    ASSUME NEW set \in [Lines -> Block], TagsDiffer(set), NEW older, NEW lost,
           NEW now \in Nat, now > 0, Follows(set, older, lost, now),
           NEW tag \in Nat, Holding(set, tag) # {}
    PROVE  /\ Follows(Use(set, tag, now), LruUse(older, tag), lost, now + 1)
           /\ tag \in DOMAIN older
<1> DEFINE v == First(Holding(set, tag))
           block == Refreshed(set[v], now)
<1>1. v \in Lines /\ v \in ValidOf(set) /\ set[v].tag = tag
  <2>1. v \in Holding(set, tag)
    BY HitIsAtHolder
  <2> QED BY <2>1 DEF Holding, ValidOf
<1> HIDE DEF v
<1>2. block \in Block /\ block.valid /\ block.lruCount = now /\ block.tag = tag
  BY <1>1 DEF Refreshed, Block, ValidOf
<1>3. Use(set, tag, now) = [set EXCEPT ![v] = block]
  BY DEF Use, v
<1> HIDE DEF block
<1>4. tag \in TagsOf(set) /\ tag \in DOMAIN older /\ tag \notin lost
  BY <1>1 DEF Follows, TagsOf
<1>5. LruUse(older, tag) = Reference!Recency(older, DOMAIN older, tag)
  <2>1. LruEvicts(older, tag) = {}
    BY <1>4 DEF LruEvicts
  <2>2. DOMAIN older \ LruEvicts(older, tag) = DOMAIN older
    BY <2>1
  <2> QED BY <2>2 DEF LruUse
<1> DEFINE others == {set[j].tag : j \in ValidOf(set) \ {v}}
<1>6. tag \notin others /\ TagsOf(set) = others \cup {tag}
  BY <1>1 DEF TagsOf, TagsDiffer
<1>7. DOMAIN older \ {tag} = others \cup lost
  <2>1. DOMAIN older = TagsOf(set) \cup lost
    BY DEF Follows
  <2> QED BY <1>4, <1>6, <2>1
<1>8. Cardinality(DOMAIN older \cup {tag}) <= E
  <2>1. DOMAIN older \cup {tag} = DOMAIN older
    BY <1>4
  <2> QED BY <2>1 DEF Follows
<1>9. Follows([set EXCEPT ![v] = block], Reference!Recency(older, DOMAIN older, block.tag), lost, now + 1)
  <2>1. \A j, k \in ValidOf(set) : set[j].tag = set[k].tag => j = k
    BY DEF TagsDiffer
  <2> QED BY <1>1, <1>2, <1>4, <1>6, <1>7, <1>8, <2>1, UseFollows
<1> QED BY <1>2, <1>3, <1>4, <1>5, <1>9

\* A miss that finds a line never used: the tags in use stay, and those of left in the reference.
LEMMA FillFollows ==
    ASSUME NEW set \in [Lines -> Block], TagsDiffer(set), NEW older, NEW lost,
           NEW now \in Nat, now > 0, Follows(set, older, lost, now),
           NEW tag \in Nat, Holding(set, tag) = {}, ValidOf(set) # Lines,
           NEW left, left \subseteq lost, tag \notin left,
           NEW kept, kept \ {tag} = TagsOf(set) \cup left,
           Cardinality(kept \cup {tag}) <= E
    PROVE  /\ Follows(Use(set, tag, now), Reference!Recency(older, kept, tag), left, now + 1)
           /\ Evicted(set, tag) = 0
<1> DEFINE v == EvictionBlock(set)
           block == [valid |-> TRUE, tag |-> tag, lruCount |-> now]
<1>1. v \in Lines
  BY EvictionBlockIsLine
<1>2. ~set[v].valid
  BY UnusedFirst DEF Follows
<1>3. Use(set, tag, now) = [set EXCEPT ![v] = block]
  BY DEF Use
<1>4. Evicted(set, tag) = 0
  BY <1>2 DEF Evicted, EvictionsBy
<1> HIDE DEF v
<1>5. block \in Block /\ block.valid /\ block.lruCount = now /\ block.tag = tag
  BY DEF Block
<1> HIDE DEF block
<1>6. v \notin ValidOf(set)
  BY <1>2 DEF ValidOf
<1>7. {set[j].tag : j \in ValidOf(set) \ {v}} = TagsOf(set)
  BY <1>6 DEF TagsOf
<1>8. tag \notin TagsOf(set)
  BY DEF TagsOf, ValidOf, Holding
<1>9. Follows([set EXCEPT ![v] = block], Reference!Recency(older, kept, block.tag), left, now + 1)
  <2>1. \A j, k \in ValidOf(set) : set[j].tag = set[k].tag => j = k
    BY DEF TagsDiffer
  <2> HIDE DEF TagsDiffer
  <2>2. block.tag \notin {set[j].tag : j \in ValidOf(set) \ {v}}
    BY <1>5, <1>7, <1>8
  <2>3. kept \ {block.tag} = {set[j].tag : j \in ValidOf(set) \ {v}} \cup left
    BY <1>5, <1>7
  <2> QED BY <1>1, <1>5, <2>1, <2>2, <2>3, UseFollows
<1> QED BY <1>3, <1>4, <1>5, <1>9

\* A miss in a set in use on every line, of which nothing is lost: both evict the same block.
LEMMA EvictFollows ==
    ASSUME NEW set \in [Lines -> Block], TagsDiffer(set), NEW older,
           NEW now \in Nat, now > 0, Follows(set, older, {}, now),
           NEW tag \in Nat, Holding(set, tag) = {}, ValidOf(set) = Lines
    PROVE  /\ Follows(Use(set, tag, now), LruUse(older, tag), {}, now + 1)
           /\ Evicted(set, tag) = 1 /\ LruEvicted(older, tag) = 1
<1> DEFINE v == EvictionBlock(set)
           block == [valid |-> TRUE, tag |-> tag, lruCount |-> now]
           others == {set[j].tag : j \in ValidOf(set) \ {v}}
<1>1. v \in Lines /\ \A k \in Lines : set[v].lruCount <= set[k].lruCount
  BY EvictionBlockIsOldest
<1>2. set[v].valid
  BY <1>1 DEF ValidOf
<1>3. Use(set, tag, now) = [set EXCEPT ![v] = block]
  BY DEF Use
<1>4. Evicted(set, tag) = 1
  BY <1>2 DEF Evicted, EvictionsBy
<1> HIDE DEF v
<1>5. block \in Block /\ block.valid /\ block.lruCount = now /\ block.tag = tag
  BY DEF Block
<1> HIDE DEF block
<1>6. tag \notin TagsOf(set)
  BY DEF TagsOf, ValidOf, Holding
<1>7. DOMAIN older = TagsOf(set)
  BY DEF Follows
<1>8. IsFiniteSet(TagsOf(set)) /\ Cardinality(TagsOf(set)) = E
  <2>1. \A j, k \in ValidOf(set) : set[j].tag = set[k].tag => j = k
    BY DEF TagsDiffer
  <2> QED BY <2>1, CountTags
<1>9. Reference!LeastRecent(older) = {set[v].tag}
  <2>1. \A k \in Lines : k # v => set[v].lruCount < set[k].lruCount
    <3>1. \A k \in Lines : set[k].lruCount \in Nat
      BY DEF Block
    <3>2. \A k \in Lines : set[k].lruCount = set[v].lruCount => k = v
      BY <1>1 DEF Follows, Stamped
    <3> QED BY <1>1, <3>1, <3>2
  <2>2. \A j, k \in Lines : set[j].tag \in older[set[k].tag] <=> set[j].lruCount < set[k].lruCount
    BY DEF Follows
  <2>3. \A k \in Lines : older[set[k].tag] \subseteq TagsOf(set)
    BY DEF Follows
  <2>4. \A k \in Lines : k # v => set[v].tag \in older[set[k].tag]
    BY <1>1, <2>1, <2>2
  <2>5. older[set[v].tag] = {}
    <3>1. ASSUME NEW j \in Lines, set[j].tag \in older[set[v].tag] PROVE FALSE
      <4>1. set[j].lruCount < set[v].lruCount
        BY <1>1, <2>2, <3>1
      <4>2. set[v].lruCount <= set[j].lruCount /\ set[v].lruCount \in Nat /\ set[j].lruCount \in Nat
        BY <1>1 DEF Block
      <4> QED BY <4>1, <4>2
    <3>2. \A t \in TagsOf(set) : \E j \in Lines : t = set[j].tag
      BY DEF TagsOf
    <3> QED BY <1>1, <2>3, <3>1, <3>2
  <2>6. \A t \in TagsOf(set) : \E j \in Lines : t = set[j].tag
    BY DEF TagsOf
  <2>7. set[v].tag \in TagsOf(set)
    BY <1>1 DEF TagsOf
  <2> QED BY <1>7, <2>4, <2>5, <2>6, <2>7 DEF Reference!LeastRecent
<1>10. LruEvicts(older, tag) = {set[v].tag}
  BY <1>6, <1>7, <1>8, <1>9 DEF LruEvicts
<1>11. LruEvicted(older, tag) = 1
  BY <1>10, FS_Singleton DEF LruEvicted
<1>12. set[v].tag \notin others /\ TagsOf(set) = others \cup {set[v].tag}
  BY <1>1 DEF TagsOf, TagsDiffer
<1>13. TagsOf(set) \ {set[v].tag} = others /\ tag \notin others
  BY <1>6, <1>12
<1>14. LruUse(older, tag) = Reference!Recency(older, others, tag)
  BY <1>7, <1>10, <1>13 DEF LruUse
<1>15. Cardinality(others \cup {tag}) <= E
  <2>1. /\ IsFiniteSet(others) /\ Cardinality(others) = E - 1
    <3>1. set[v].tag \in TagsOf(set)
      BY <1>12
    <3> QED BY <1>8, <1>13, <3>1, FS_RemoveElement
  <2>2. Cardinality(others \cup {tag}) = (E - 1) + 1
    BY <1>13, <2>1, FS_AddElement
  <2> QED BY <2>2, ArgumentsAssumption
<1>16. Follows([set EXCEPT ![v] = block], Reference!Recency(older, others, block.tag), {}, now + 1)
  <2>1. \A j, k \in ValidOf(set) : set[j].tag = set[k].tag => j = k
    BY DEF TagsDiffer
  <2>2. others \ {block.tag} = others \cup {} /\ block.tag \notin others
    BY <1>5, <1>13
  <2>3. Cardinality(others \cup {block.tag}) <= E
    BY <1>5, <1>15
  <2> QED BY <1>1, <1>5, <2>1, <2>2, <2>3, UseFollows
<1> QED BY <1>3, <1>4, <1>5, <1>11, <1>14, <1>16

\* A set that has lost nothing goes on following the reference.
LEMMA SameFollows ==
    ASSUME NEW set \in [Lines -> Block], TagsDiffer(set), NEW older,
           NEW now \in Nat, now > 0, Follows(set, older, {}, now), NEW tag \in Nat
    PROVE  /\ Follows(Use(set, tag, now), LruUse(older, tag), {}, now + 1)
           /\ Missed(set, tag) = LruMissed(older, tag)
           /\ Evicted(set, tag) = LruEvicted(older, tag)
<1>1. DOMAIN older = TagsOf(set)
  BY DEF Follows
<1>2. CASE Holding(set, tag) # {}
  <2>1. Follows(Use(set, tag, now), LruUse(older, tag), {}, now + 1) /\ tag \in DOMAIN older
    BY <1>2, HitFollows
  <2>2. LruEvicted(older, tag) = 0
    BY <2>1, FS_EmptySet DEF LruEvicted, LruEvicts
  <2> QED BY <1>2, <2>1, <2>2 DEF Missed, LruMissed, Evicted
<1>3. ASSUME Holding(set, tag) = {} PROVE tag \notin DOMAIN older
  BY <1>1, <1>3 DEF TagsOf, ValidOf, Holding
<1>4. CASE Holding(set, tag) = {} /\ ValidOf(set) = Lines
  <2>1. /\ Follows(Use(set, tag, now), LruUse(older, tag), {}, now + 1)
        /\ Evicted(set, tag) = 1 /\ LruEvicted(older, tag) = 1
    BY <1>4, EvictFollows
  <2> QED BY <1>3, <1>4, <2>1 DEF Missed, LruMissed
<1>5. CASE Holding(set, tag) = {} /\ ValidOf(set) # Lines
  <2>1. /\ IsFiniteSet(TagsOf(set)) /\ Cardinality(TagsOf(set)) \in Nat
        /\ Cardinality(TagsOf(set)) <= E /\ Cardinality(TagsOf(set)) # E
    <3>1. \A j, k \in ValidOf(set) : set[j].tag = set[k].tag => j = k
      BY DEF TagsDiffer
    <3> QED BY <1>5, <3>1, CountTags
  <2>2. LruEvicts(older, tag) = {}
    BY <1>1, <2>1 DEF LruEvicts
  <2>3. LruEvicted(older, tag) = 0
    BY <2>2, FS_EmptySet DEF LruEvicted
  <2>4. LruUse(older, tag) = Reference!Recency(older, TagsOf(set), tag)
    <3>1. DOMAIN older \ LruEvicts(older, tag) = TagsOf(set)
      BY <1>1, <2>2
    <3> QED BY <3>1 DEF LruUse
  <2>5. Cardinality(TagsOf(set) \cup {tag}) <= E
    <3>1. Cardinality(TagsOf(set) \cup {tag}) = Cardinality(TagsOf(set)) + 1
      BY <1>1, <1>3, <1>5, <2>1, FS_AddElement
    <3> QED BY <2>1, <3>1, ArgumentsAssumption
  <2>6. TagsOf(set) \ {tag} = TagsOf(set) \cup {}
    BY <1>1, <1>3, <1>5
  <2>7. /\ Follows(Use(set, tag, now), Reference!Recency(older, TagsOf(set), tag), {}, now + 1)
        /\ Evicted(set, tag) = 0
    BY <1>5, <2>5, <2>6, FillFollows
  <2> QED BY <1>3, <1>5, <2>3, <2>4, <2>7 DEF Missed, LruMissed
<1> QED BY <1>2, <1>4, <1>5

\* A set that has lost block t: csim may keep running behind by t; or t comes back, and
\* csim has one more miss and one more eviction; or the reference evicts t as well.
LEMMA BehindFollows ==
    ASSUME NEW set \in [Lines -> Block], TagsDiffer(set), NEW older, NEW t,
           NEW now \in Nat, now > 0, Follows(set, older, {t}, now), NEW tag \in Nat
    PROVE  \/ /\ Follows(Use(set, tag, now), LruUse(older, tag), {t}, now + 1)
              /\ Missed(set, tag) = LruMissed(older, tag) /\ Evicted(set, tag) = LruEvicted(older, tag)
           \/ /\ Follows(Use(set, tag, now), LruUse(older, tag), {}, now + 1)
              /\ Missed(set, tag) = LruMissed(older, tag) + 1 /\ LruMissed(older, tag) = 0
              /\ Evicted(set, tag) = 0 /\ LruEvicted(older, tag) = 0
           \/ /\ Follows(Use(set, tag, now), LruUse(older, tag), {}, now + 1)
              /\ Missed(set, tag) = LruMissed(older, tag)
              /\ Evicted(set, tag) = 0 /\ LruEvicted(older, tag) = 1
<1>1. /\ DOMAIN older = TagsOf(set) \cup {t} /\ t \notin TagsOf(set)
      /\ Cardinality(DOMAIN older) <= E
  BY DEF Follows
<1>2. CASE Holding(set, tag) # {}
  <2>1. Follows(Use(set, tag, now), LruUse(older, tag), {t}, now + 1) /\ tag \in DOMAIN older
    BY <1>2, HitFollows
  <2>2. LruEvicted(older, tag) = 0
    BY <2>1, FS_EmptySet DEF LruEvicted, LruEvicts
  <2> QED BY <1>2, <2>1, <2>2 DEF Missed, LruMissed, Evicted
<1>3. ASSUME Holding(set, tag) = {} PROVE tag \notin TagsOf(set)
  BY <1>3 DEF TagsOf, ValidOf, Holding
<1>4. /\ IsFiniteSet(TagsOf(set)) /\ Cardinality(TagsOf(set)) \in Nat
      /\ Cardinality(TagsOf(set)) = E <=> ValidOf(set) = Lines
  <2>1. \A j, k \in ValidOf(set) : set[j].tag = set[k].tag => j = k
    BY DEF TagsDiffer
  <2> QED BY <2>1, CountTags
<1>5. IsFiniteSet(DOMAIN older) /\ Cardinality(DOMAIN older) = Cardinality(TagsOf(set)) + 1
  BY <1>1, <1>4, FS_AddElement
<1>6. E \in Nat /\ Cardinality(TagsOf(set)) < E
  BY <1>1, <1>4, <1>5, ArgumentsAssumption
<1>7. ValidOf(set) # Lines
  BY <1>4, <1>6
<1>8. CASE Holding(set, tag) = {} /\ tag = t
  <2>1. LruEvicts(older, tag) = {} /\ tag \in DOMAIN older
    BY <1>1, <1>8 DEF LruEvicts
  <2>2. LruEvicted(older, tag) = 0
    BY <2>1, FS_EmptySet DEF LruEvicted
  <2>3. LruUse(older, tag) = Reference!Recency(older, DOMAIN older, tag)
    <3>1. DOMAIN older \ LruEvicts(older, tag) = DOMAIN older
      BY <2>1
    <3> QED BY <3>1 DEF LruUse
  <2>4. DOMAIN older \ {tag} = TagsOf(set) \cup {} /\ DOMAIN older \cup {tag} = DOMAIN older
    BY <1>1, <1>8
  <2>5. Cardinality(DOMAIN older \cup {tag}) <= E
    BY <1>1, <2>4
  <2>6. /\ Follows(Use(set, tag, now), Reference!Recency(older, DOMAIN older, tag), {}, now + 1)
        /\ Evicted(set, tag) = 0
    BY <1>7, <1>8, <2>4, <2>5, FillFollows
  <2> QED BY <1>8, <2>1, <2>2, <2>3, <2>6 DEF Missed, LruMissed
<1>9. ASSUME Holding(set, tag) = {}, tag # t PROVE tag \notin DOMAIN older
  BY <1>1, <1>3, <1>9
<1>10. CASE Holding(set, tag) = {} /\ tag # t /\ Cardinality(DOMAIN older) # E
  <2>1. LruEvicts(older, tag) = {}
    BY <1>10 DEF LruEvicts
  <2>2. LruEvicted(older, tag) = 0
    BY <2>1, FS_EmptySet DEF LruEvicted
  <2>3. LruUse(older, tag) = Reference!Recency(older, DOMAIN older, tag)
    <3>1. DOMAIN older \ LruEvicts(older, tag) = DOMAIN older
      BY <2>1
    <3> QED BY <3>1 DEF LruUse
  <2>4. DOMAIN older \ {tag} = TagsOf(set) \cup {t}
    BY <1>1, <1>9, <1>10
  <2>5. Cardinality(DOMAIN older \cup {tag}) <= E
    <3>1. Cardinality(DOMAIN older \cup {tag}) = Cardinality(DOMAIN older) + 1
      BY <1>5, <1>9, <1>10, FS_AddElement
    <3> QED BY <1>4, <1>5, <1>6, <1>10, <3>1
  <2>6. /\ Follows(Use(set, tag, now), Reference!Recency(older, DOMAIN older, tag), {t}, now + 1)
        /\ Evicted(set, tag) = 0
    BY <1>7, <1>10, <2>4, <2>5, FillFollows
  <2> QED BY <1>9, <1>10, <2>2, <2>3, <2>6 DEF Missed, LruMissed
<1>11. CASE Holding(set, tag) = {} /\ tag # t /\ Cardinality(DOMAIN older) = E
  <2>1. Reference!LeastRecent(older) = {t}
    <3>1. older[t] = {}
      BY DEF Follows
    <3>2. \A j \in ValidOf(set) : t \in older[set[j].tag]
      BY DEF Follows
    <3> QED BY <1>1, <3>1, <3>2 DEF Reference!LeastRecent, TagsOf
  <2>2. LruEvicts(older, tag) = {t}
    BY <1>9, <1>11, <2>1 DEF LruEvicts
  <2>3. LruEvicted(older, tag) = 1
    BY <2>2, FS_Singleton DEF LruEvicted
  <2>4. LruUse(older, tag) = Reference!Recency(older, TagsOf(set), tag)
    <3>1. DOMAIN older \ LruEvicts(older, tag) = TagsOf(set)
      BY <1>1, <2>2
    <3> QED BY <3>1 DEF LruUse
  <2>5. Cardinality(TagsOf(set) \cup {tag}) <= E
    <3>1. Cardinality(TagsOf(set) \cup {tag}) = Cardinality(TagsOf(set)) + 1
      BY <1>3, <1>4, <1>11, FS_AddElement
    <3> QED BY <1>4, <1>6, <3>1
  <2>6. TagsOf(set) \ {tag} = TagsOf(set) \cup {}
    BY <1>3, <1>11
  <2>7. /\ Follows(Use(set, tag, now), Reference!Recency(older, TagsOf(set), tag), {}, now + 1)
        /\ Evicted(set, tag) = 0
    BY <1>7, <1>11, <2>5, <2>6, FillFollows
  <2> QED BY <1>9, <1>11, <2>3, <2>4, <2>7 DEF Missed, LruMissed
<1> QED BY <1>2, <1>8, <1>10, <1>11

\* When no lruCount is set, a miss takes line 0.
LEMMA ZeroIsFirst ==
    ASSUME NEW set \in [Lines -> Block], \A j \in Lines : set[j].lruCount = 0
    PROVE  EvictionBlock(set) = 0 /\ 0 \in Lines
<1>1. Oldest(set) = Lines
  BY DEF Oldest
<1>2. 0 \in Lines
  BY ArgumentsAssumption DEF Lines
<1>3. First(Lines) \in Lines /\ First(Lines) <= 0
  BY <1>2, LinesAreNaturals, FirstIsLeast
<1>4. First(Lines) = 0
  <2>1. First(Lines) \in Nat
    BY <1>3, LinesAreNaturals
  <2> QED BY <1>3, <2>1
<1> QED BY <1>1, <1>2, <1>4 DEF EvictionBlock

\* The first access of the trace leaves its set with one block whose lruCount is 0.
LEMMA FirstIsFresh ==
    ASSUME NEW set \in [Lines -> Block], NEW older, Follows(set, older, {}, 0), NEW tag \in Nat
    PROVE  /\ Fresh(Use(set, tag, 0), LruUse(older, tag))
           /\ Missed(set, tag) = LruMissed(older, tag)
           /\ Evicted(set, tag) = LruEvicted(older, tag)
<1>1. \A j \in Lines : ~set[j].valid /\ set[j].lruCount = 0
  <2>1. \A n \in Int : n \notin 1 .. (0 - 1)
    OBVIOUS
  <2>2. \A j \in Lines : set[j].lruCount \in Int
    BY DEF Block
  <2> QED BY <2>1, <2>2 DEF Follows, Stamped
<1>2. EvictionBlock(set) = 0 /\ 0 \in Lines
  BY <1>1, ZeroIsFirst
<1>3. Holding(set, tag) = {} /\ ValidOf(set) = {}
  BY <1>1 DEF Holding, ValidOf
<1> DEFINE new == [set EXCEPT ![0] = [valid |-> TRUE, tag |-> tag, lruCount |-> 0]]
<1>4. Use(set, tag, 0) = new
  BY <1>2, <1>3 DEF Use
<1>5. Evicted(set, tag) = 0 /\ Missed(set, tag) = 1
  BY <1>1, <1>2, <1>3 DEF Evicted, EvictionsBy, Missed
<1>6. DOMAIN older = {}
  BY <1>3 DEF Follows, TagsOf
<1>7. LruEvicts(older, tag) = {} /\ LruMissed(older, tag) = 1
  BY <1>6, FS_EmptySet, ArgumentsAssumption DEF LruEvicts, LruMissed
<1>8. LruEvicted(older, tag) = 0
  BY <1>7, FS_EmptySet DEF LruEvicted
<1>9. DOMAIN LruUse(older, tag) = {tag} /\ LruUse(older, tag)[tag] = {}
  BY <1>6, <1>7 DEF LruUse, Reference!Recency
<1>10. new[0].valid /\ new[0].lruCount = 0 /\ new[0].tag = tag
  BY <1>2
<1>11. \A j \in Lines \ {0} : ~new[j].valid /\ new[j].lruCount = 0
  BY <1>1
<1> HIDE DEF new
<1>12. Fresh(new, LruUse(older, tag))
  BY <1>9, <1>10, <1>11 DEF Fresh
<1> QED BY <1>4, <1>5, <1>7, <1>8, <1>12

\* Any use of line 0 of that set makes it a set that follows the reference.
LEMMA FreshUsed ==
    ASSUME NEW set \in [Lines -> Block], NEW older, Fresh(set, older), NEW now \in Nat, now > 0,
           NEW block \in Block, block.valid, block.lruCount = now,
           NEW left, left \subseteq {set[0].tag}, block.tag \notin left,
           NEW kept, kept \ {block.tag} = left,
           Cardinality(left \cup {block.tag}) <= E
    PROVE  Follows([set EXCEPT ![0] = block], Reference!Recency(older, kept, block.tag), left, now + 1)
<1> DEFINE tag == block.tag
           new == [set EXCEPT ![0] = block]
           recent == Reference!Recency(older, kept, tag)
<1>1. 0 \in Lines
  BY ArgumentsAssumption DEF Lines
<1>2. new[0] = block /\ \A j \in Lines \ {0} : ~new[j].valid /\ new[j].lruCount = 0
  BY <1>1 DEF Fresh
<1>3. recent = [t \in left \cup {tag} |-> IF t = tag THEN left ELSE older[t] \cap left]
  <2>1. kept \cup {tag} = left \cup {tag}
    OBVIOUS
  <2> QED BY <2>1 DEF Reference!Recency
<1>4. DOMAIN older = {set[0].tag} /\ older[set[0].tag] = {}
  BY DEF Fresh
<1> HIDE DEF new, recent
<1>5. ValidOf(new) = {0}
  BY <1>1, <1>2 DEF ValidOf
<1>6. TagsOf(new) = {tag}
  BY <1>2, <1>5 DEF TagsOf
<1>7. Stamped(new, now + 1)
  <2>1. now \in 1 .. ((now + 1) - 1)
    OBVIOUS
  <2> QED BY <1>1, <1>2, <1>5, <2>1 DEF Stamped
<1>8. /\ DOMAIN recent = TagsOf(new) \cup left /\ left \cap TagsOf(new) = {}
      /\ recent[tag] = left
  BY <1>3, <1>6
<1>9. Cardinality(DOMAIN recent) <= E
  <2>1. DOMAIN recent = left \cup {block.tag}
    BY <1>3
  <2> QED BY <2>1
<1>10. \A t \in left : recent[t] = {}
  BY <1>3, <1>4
<1>11. \A j \in ValidOf(new) : left \subseteq recent[new[j].tag] /\ recent[new[j].tag] \subseteq DOMAIN recent
  BY <1>2, <1>5, <1>8
<1>12. \A j, k \in ValidOf(new) :
          new[j].tag \in recent[new[k].tag] <=> new[j].lruCount < new[k].lruCount
  BY <1>2, <1>5, <1>8
<1>13. Follows(new, recent, left, now + 1)
  BY <1>7, <1>8, <1>9, <1>10, <1>11, <1>12 DEF Follows
<1> QED BY <1>13 DEF new, recent

\* The set of the first access when it is used again: the block is found; or there is but
\* one line and both evict it; or csim evicts the block, and the reference does not.
LEMMA FreshFollows ==
    ASSUME NEW set \in [Lines -> Block], NEW older, Fresh(set, older),
           NEW now \in Nat, now > 0, NEW tag \in Nat
    PROVE  \/ /\ Follows(Use(set, tag, now), LruUse(older, tag), {}, now + 1)
              /\ Missed(set, tag) = LruMissed(older, tag) /\ Evicted(set, tag) = LruEvicted(older, tag)
           \/ /\ Follows(Use(set, tag, now), LruUse(older, tag), {set[0].tag}, now + 1)
              /\ set[0].tag \in DOMAIN LruUse(older, tag)
              /\ Missed(set, tag) = LruMissed(older, tag)
              /\ Evicted(set, tag) = 1 /\ LruEvicted(older, tag) = 0
<1> DEFINE x == set[0].tag
<1>1. 0 \in Lines /\ E \in Nat /\ E # 0
  BY ArgumentsAssumption DEF Lines
<1>2. \A j \in Lines : (j # 0 => ~set[j].valid) /\ set[j].lruCount = 0
  BY <1>1 DEF Fresh
<1>3. set[0].valid /\ DOMAIN older = {x} /\ older[x] = {}
  BY DEF Fresh
<1>4. EvictionBlock(set) = 0
  BY <1>2, ZeroIsFirst
<1>5. CASE tag = x
  <2> DEFINE block == Refreshed(set[0], now)
  <2>1. Holding(set, tag) = {0}
    BY <1>1, <1>2, <1>3, <1>5 DEF Holding
  <2>2. First({0}) = 0
    BY <2>1, HitIsAtHolder
  <2>3. block \in Block /\ block.valid /\ block.lruCount = now /\ block.tag = tag
    BY <1>1, <1>3, <1>5 DEF Refreshed, Block
  <2>4. Use(set, tag, now) = [set EXCEPT ![0] = block]
    BY <2>1, <2>2 DEF Use
  <2>5. Missed(set, tag) = 0 /\ Evicted(set, tag) = 0
    BY <2>1 DEF Missed, Evicted
  <2>6. LruEvicts(older, tag) = {} /\ LruMissed(older, tag) = 0
    BY <1>3, <1>5 DEF LruEvicts, LruMissed
  <2>7. LruEvicted(older, tag) = 0
    BY <2>6, FS_EmptySet DEF LruEvicted
  <2>8. LruUse(older, tag) = Reference!Recency(older, {x}, tag)
    <3>1. DOMAIN older \ LruEvicts(older, tag) = {x}
      BY <1>3, <2>6
    <3> QED BY <3>1 DEF LruUse
  <2>9. Cardinality({} \cup {tag}) <= E
    BY <1>1, FS_Singleton
  <2> HIDE DEF block
  <2>10. {x} \ {block.tag} = {} /\ {} \subseteq {x} /\ block.tag \notin {}
    BY <1>5, <2>3
  <2>11. Cardinality({} \cup {block.tag}) <= E
    BY <2>3, <2>9
  <2>12. Follows([set EXCEPT ![0] = block], Reference!Recency(older, {x}, block.tag), {}, now + 1)
    BY <2>3, <2>10, <2>11, FreshUsed
  <2> QED BY <2>3, <2>4, <2>5, <2>6, <2>7, <2>8, <2>12
<1>6. CASE tag # x
  <2> DEFINE block == [valid |-> TRUE, tag |-> tag, lruCount |-> now]
  <2>1. Holding(set, tag) = {}
    BY <1>2, <1>6 DEF Holding
  <2>2. block \in Block /\ block.valid /\ block.lruCount = now /\ block.tag = tag
    BY DEF Block
  <2>3. Use(set, tag, now) = [set EXCEPT ![0] = block]
    BY <1>4, <2>1 DEF Use
  <2>4. Missed(set, tag) = 1 /\ Evicted(set, tag) = 1 /\ LruMissed(older, tag) = 1
    BY <1>3, <1>4, <1>6, <2>1 DEF Missed, Evicted, EvictionsBy, LruMissed
  <2> HIDE DEF block
  <2>5. Cardinality(DOMAIN older) = 1
    BY <1>3, FS_Singleton
  <2>6. CASE E = 1
    <3>1. LruEvicts(older, tag) = {x}
      BY <1>3, <1>6, <2>5, <2>6 DEF LruEvicts, Reference!LeastRecent
    <3>2. LruEvicted(older, tag) = 1
      BY <3>1, FS_Singleton DEF LruEvicted
    <3>3. LruUse(older, tag) = Reference!Recency(older, {}, tag)
      <4>1. DOMAIN older \ LruEvicts(older, tag) = {}
        BY <1>3, <3>1
      <4> QED BY <4>1 DEF LruUse
    <3>4. {} \ {block.tag} = {} /\ {} \subseteq {x} /\ block.tag \notin {}
      OBVIOUS
    <3>5. Cardinality({} \cup {block.tag}) <= E
      <4>1. {} \cup {block.tag} = {block.tag} /\ Cardinality({block.tag}) = 1
        BY FS_Singleton
      <4> QED BY <2>6, <4>1
    <3>6. Follows([set EXCEPT ![0] = block], Reference!Recency(older, {}, block.tag), {}, now + 1)
      BY <2>2, <3>4, <3>5, FreshUsed
    <3> QED BY <2>2, <2>3, <2>4, <3>2, <3>3, <3>6
  <2>7. CASE E # 1
    <3>1. LruEvicts(older, tag) = {}
      BY <2>5, <2>7 DEF LruEvicts
    <3>2. LruEvicted(older, tag) = 0
      BY <3>1, FS_EmptySet DEF LruEvicted
    <3>3. LruUse(older, tag) = Reference!Recency(older, {x}, tag)
      <4>1. DOMAIN older \ LruEvicts(older, tag) = {x}
        BY <1>3, <3>1
      <4> QED BY <4>1 DEF LruUse
    <3>4. {x} \ {block.tag} = {x} /\ {x} \subseteq {x} /\ block.tag \notin {x}
      BY <1>6, <2>2
    <3>5. Cardinality({x} \cup {block.tag}) <= E
      <4>1. Cardinality({x} \cup {block.tag}) = 1 + 1
        <5>1. IsFiniteSet({x}) /\ Cardinality({x}) = 1
          BY FS_Singleton
        <5>2. Cardinality({x} \cup {block.tag}) = Cardinality({x}) + 1
          BY <3>4, <5>1, FS_AddElement
        <5> QED BY <5>1, <5>2
      <4> QED BY <1>1, <2>7, <4>1
    <3>6. Follows([set EXCEPT ![0] = block], Reference!Recency(older, {x}, block.tag), {x}, now + 1)
      BY <2>2, <3>4, <3>5, FreshUsed
    <3>7. x \in DOMAIN Reference!Recency(older, {x}, tag)
      BY DEF Reference!Recency
    <3> QED BY <2>2, <2>3, <2>4, <3>2, <3>3, <3>6, <3>7
  <2> QED BY <2>6, <2>7
<1> QED BY <1>5, <1>6

LEMMA AccessIsUse ==
    ASSUME NEW m, NEW addr
    PROVE  LET n == cacheAccess(m, addr)
               set == m.cache[INDEX(addr)]
           IN  /\ n.cache = [m.cache EXCEPT ![INDEX(addr)] = Use(set, TAG(addr), m.LRU)]
               /\ n.LRU = m.LRU + 1
               /\ m.misses \in Nat => n.misses = m.misses + Missed(set, TAG(addr))
               /\ m.evictions \in Nat => n.evictions = m.evictions + Evicted(set, TAG(addr))
<1> DEFINE i == INDEX(addr)
           tag == TAG(addr)
           set == m.cache[i]
<1>1. CASE Holding(set, tag) # {}
  <2>1. cacheAccess(m, addr) = Hit(m, i, tag)
    BY <1>1 DEF cacheAccess
  <2>2. Missed(set, tag) = 0 /\ Evicted(set, tag) = 0
    BY <1>1 DEF Missed, Evicted
  <2>3. Use(set, tag, m.LRU) = [set EXCEPT ![First(Holding(set, tag))] = Refreshed(@, m.LRU)]
    BY <1>1 DEF Use
  <2>4. [m.cache EXCEPT ![i] = [@ EXCEPT ![First(Holding(set, tag))] =
                                  Refreshed(m.cache[i][First(Holding(set, tag))], m.LRU)]]
          = [m.cache EXCEPT ![i] = Use(set, tag, m.LRU)]
    BY <2>3
  <2> QED BY <2>1, <2>2, <2>4 DEF Hit, NextLRU, Put
<1>2. CASE Holding(set, tag) = {}
  <2>1. cacheAccess(m, addr) = Miss(m, i, tag)
    BY <1>2 DEF cacheAccess
  <2>2. /\ Missed(set, tag) = 1
        /\ Evicted(set, tag) = EvictionsBy(set[EvictionBlock(set)])
    BY <1>2 DEF Missed, Evicted
  <2>3. Use(set, tag, m.LRU) =
          [set EXCEPT ![EvictionBlock(set)] = [valid |-> TRUE, tag |-> tag, lruCount |-> m.LRU]]
    BY <1>2 DEF Use
  <2> QED BY <2>1, <2>2, <2>3 DEF Miss, NextLRU, Put
<1> QED BY <1>1, <1>2

LEMMA SameCardinality == \A S : Reference!Cardinality(S) = Cardinality(S)
BY DEF Reference!Cardinality, Cardinality

LEMMA ReferenceIsUse ==
    ASSUME NEW l, l.misses \in Nat, l.evictions \in Nat, NEW addr
    PROVE  LET r == reference(l, addr)
               older == l.older[INDEX(addr)]
           IN  /\ r.older = [l.older EXCEPT ![INDEX(addr)] = LruUse(older, TAG(addr))]
               /\ r.misses = l.misses + LruMissed(older, TAG(addr))
               /\ r.evictions = l.evictions + LruEvicted(older, TAG(addr))
<1> DEFINE i == INDEX(addr)
           tag == TAG(addr)
           older == l.older[i]
<1>1. CASE tag \in DOMAIN older
  <2>1. reference(l, addr) = Reference!LruHit(l, i, tag)
    BY <1>1 DEF reference, Reference!LruAccess
  <2>2. LruEvicts(older, tag) = {} /\ LruMissed(older, tag) = 0
    BY <1>1 DEF LruEvicts, LruMissed
  <2>3. LruEvicted(older, tag) = 0
    BY <2>2, FS_EmptySet DEF LruEvicted
  <2>4. LruUse(older, tag) = Reference!Recency(older, DOMAIN older, tag)
    <3>1. DOMAIN older \ LruEvicts(older, tag) = DOMAIN older
      BY <2>2
    <3> QED BY <3>1 DEF LruUse
  <2> QED BY <2>1, <2>2, <2>3, <2>4 DEF Reference!LruHit
<1>2. CASE tag \notin DOMAIN older
  <2>1. reference(l, addr) = Reference!LruMiss(l, i, tag)
    BY <1>2 DEF reference, Reference!LruAccess
  <2>2. /\ LruEvicts(older, tag) =
             IF Cardinality(DOMAIN older) = E THEN Reference!LeastRecent(older) ELSE {}
        /\ LruMissed(older, tag) = 1
    BY <1>2 DEF LruEvicts, LruMissed
  <2>3. Reference!LruMiss(l, i, tag) =
          [older |-> [l.older EXCEPT ![i] = LruUse(older, tag)], hits |-> l.hits,
           misses |-> l.misses + 1, evictions |-> l.evictions + LruEvicted(older, tag)]
    BY <2>2, SameCardinality, Zenon DEF Reference!LruMiss, LruUse, LruEvicted
  <2> QED BY <2>1, <2>2, <2>3
<1> QED BY <1>1, <1>2

\* Time passes for the sets that are not used.
LEMMA FollowsLater ==
    ASSUME NEW set \in [Lines -> Block], NEW older, NEW lost, NEW now \in Nat,
           Follows(set, older, lost, now)
    PROVE  Follows(set, older, lost, now + 1)
<1>1. Stamped(set, now + 1)
  <2>1. \A n \in Nat : n \in 1 .. (now - 1) => n \in 1 .. ((now + 1) - 1)
    OBVIOUS
  <2>2. \A j \in Lines : set[j].lruCount \in Nat
    BY DEF Block
  <2> QED BY <2>1, <2>2 DEF Follows, Stamped
<1> QED BY <1>1 DEF Follows

\* One access, in csim and in the reference, leaves them as alike as they were.
LEMMA AccessKeepsAlike ==
    ASSUME NEW m, NEW l, NEW f, Alike(m, l, f), NEW addr \in Addrs
    PROVE  Alike(cacheAccess(m, addr), reference(l, addr), IF m.LRU = 0 THEN {INDEX(addr)} ELSE f)
<1> DEFINE i == INDEX(addr)
           tag == TAG(addr)
           set == m.cache[i]
           older == l.older[i]
           n == cacheAccess(m, addr)
           r == reference(l, addr)
           g == IF m.LRU = 0 THEN {i} ELSE f
           missed == Missed(set, tag)
           evicted == Evicted(set, tag)
           lruMissed == LruMissed(older, tag)
           lruEvicted == LruEvicted(older, tag)
<1> SUFFICES Alike(n, r, g)
  OBVIOUS
<1>1. i \in SetIndices /\ tag \in Nat
  BY AddressSelects
<1>2. /\ Consistent(m) /\ DOMAIN l.older = SetIndices /\ l.misses \in Nat /\ l.evictions \in Nat
      /\ f \subseteq SetIndices /\ (\A x, y \in f : x = y)
      /\ f = {} <=> m.LRU = 0
      /\ f = {} => Ahead(m, l, 0, 0)
      /\ \A x \in SetIndices \ f : Follows(m.cache[x], l.older[x], {}, m.LRU)
      /\ \A x \in f : FirstSet(m, l, x)
  BY DEF Alike
<1>3. /\ m.cache \in [SetIndices -> [Lines -> Block]] /\ m.LRU \in Nat
      /\ m.misses \in Nat /\ m.evictions \in Nat
  BY <1>2 DEF Consistent, Counted, Simulation
<1>4. /\ n.cache = [m.cache EXCEPT ![i] = Use(set, tag, m.LRU)] /\ n.LRU = m.LRU + 1
      /\ n.misses = m.misses + missed /\ n.evictions = m.evictions + evicted
  BY <1>3, AccessIsUse
<1>5. /\ r.older = [l.older EXCEPT ![i] = LruUse(older, tag)]
      /\ r.misses = l.misses + lruMissed /\ r.evictions = l.evictions + lruEvicted
  BY <1>2, ReferenceIsUse
<1>6. Consistent(n)
  BY <1>2, AccessPreservesConsistent
<1>7. missed \in {0, 1} /\ lruMissed \in {0, 1} /\ evicted \in {0, 1}
  BY DEF Missed, LruMissed, Evicted, EvictionsBy
<1>8. set \in [Lines -> Block] /\ TagsDiffer(set)
  <2>1. TagOnce(m)
    BY <1>2 DEF Consistent
  <2> QED BY <1>1, <1>3, <2>1 DEF TagOnce, TagsDiffer, ValidOf
<1> HIDE DEF n, r, missed, evicted, lruMissed, lruEvicted
<1>9. /\ n.cache[i] = Use(set, tag, m.LRU) /\ r.older[i] = LruUse(older, tag)
      /\ DOMAIN r.older = SetIndices
      /\ \A x \in SetIndices \ {i} : n.cache[x] = m.cache[x] /\ r.older[x] = l.older[x]
  BY <1>1, <1>2, <1>3, <1>4, <1>5
<1>10. \A x \in SetIndices \ {i} :
         \A lost : Follows(m.cache[x], l.older[x], lost, m.LRU) => Follows(n.cache[x], r.older[x], lost, n.LRU)
  BY <1>3, <1>4, <1>9, FollowsLater
<1>11. n.LRU # 0 /\ g # {}
  BY <1>2, <1>3, <1>4
<1>12. g \subseteq SetIndices /\ \A x, y \in g : x = y
  BY <1>1, <1>2
<1>16. (m.LRU = 0 => g = {i}) /\ (m.LRU # 0 => g = f)
  OBVIOUS
<1> HIDE DEF g
<1>13. CASE m.LRU = 0
  <2>1. f = {} /\ g = {i} /\ Ahead(m, l, 0, 0) /\ Follows(set, older, {}, 0)
    BY <1>1, <1>2, <1>13, <1>16
  <2>2. Fresh(n.cache[i], r.older[i]) /\ missed = lruMissed /\ evicted = lruEvicted
    <3>1. Fresh(Use(set, tag, 0), LruUse(older, tag)) /\ missed = lruMissed /\ evicted = lruEvicted
      BY <1>1, <1>8, <2>1, FirstIsFresh DEF missed, lruMissed, evicted, lruEvicted
    <3> QED BY <1>9, <1>13, <3>1
  <2>3. Ahead(n, r, 0, 0) /\ r.misses \in Nat /\ r.evictions \in Nat
    BY <1>2, <1>3, <1>4, <1>5, <1>7, <2>1, <2>2 DEF Ahead
  <2>4. \A x \in SetIndices \ g : Follows(n.cache[x], r.older[x], {}, n.LRU)
    BY <1>2, <1>10, <2>1
  <2>5. \A x \in g : FirstSet(n, r, x)
    BY <2>1, <2>2, <2>3 DEF FirstSet
  <2> QED BY <1>6, <1>9, <1>11, <1>12, <2>3, <2>4, <2>5 DEF Alike
<1>14. CASE m.LRU # 0 /\ i \notin f
  <2>1. g = f /\ m.LRU > 0 /\ Follows(set, older, {}, m.LRU)
    BY <1>1, <1>2, <1>3, <1>14, <1>16
  <2>2. Follows(n.cache[i], r.older[i], {}, n.LRU) /\ missed = lruMissed /\ evicted = lruEvicted
    <3>1. /\ Follows(Use(set, tag, m.LRU), LruUse(older, tag), {}, m.LRU + 1)
          /\ missed = lruMissed /\ evicted = lruEvicted
      BY <1>1, <1>3, <1>8, <2>1, SameFollows DEF missed, lruMissed, evicted, lruEvicted
    <3> QED BY <1>4, <1>9, <3>1
  <2>3. /\ \A a, c \in {0, 1} : Ahead(m, l, a, c) => Ahead(n, r, a, c)
        /\ r.misses \in Nat /\ r.evictions \in Nat
    BY <1>2, <1>3, <1>4, <1>5, <1>7, <2>2 DEF Ahead
  <2>4. \A x \in SetIndices \ g : Follows(n.cache[x], r.older[x], {}, n.LRU)
    BY <1>2, <1>10, <2>1, <2>2
  <2>5. ASSUME NEW x \in f PROVE FirstSet(n, r, x)
    <3>1. x \in SetIndices \ {i} /\ FirstSet(m, l, x)
      BY <1>2, <1>14
    <3>2. n.cache[x] = m.cache[x] /\ r.older[x] = l.older[x]
      BY <1>9, <3>1
    <3>3. \A lost : Follows(m.cache[x], l.older[x], lost, m.LRU) => Follows(n.cache[x], r.older[x], lost, n.LRU)
      BY <1>10, <3>1
    <3>4. CASE Fresh(m.cache[x], l.older[x]) /\ Ahead(m, l, 0, 0)
      BY <2>3, <3>2, <3>4 DEF FirstSet
    <3>5. CASE (\E t \in DOMAIN l.older[x] : Follows(m.cache[x], l.older[x], {t}, m.LRU)) /\ Ahead(m, l, 0, 1)
      BY <2>3, <3>2, <3>3, <3>5 DEF FirstSet
    <3>6. CASE Follows(m.cache[x], l.older[x], {}, m.LRU) /\ (Ahead(m, l, 0, 0) \/ Ahead(m, l, 1, 1))
      BY <2>3, <3>3, <3>6 DEF FirstSet
    <3> QED BY <3>1, <3>4, <3>5, <3>6 DEF FirstSet
  <2> QED BY <1>6, <1>9, <1>11, <1>12, <2>1, <2>3, <2>4, <2>5 DEF Alike
<1>15. CASE m.LRU # 0 /\ i \in f
  <2>1. g = f /\ f = {i} /\ m.LRU > 0
    BY <1>2, <1>3, <1>15, <1>16
  <2>2. FirstSet(n, r, i) /\ r.misses \in Nat /\ r.evictions \in Nat
    <3>1. FirstSet(m, l, i)
      BY <1>2, <1>15
    <3>2. CASE Fresh(set, older) /\ Ahead(m, l, 0, 0)
      <4>1. \/ /\ Follows(n.cache[i], r.older[i], {}, n.LRU)
               /\ missed = lruMissed /\ evicted = lruEvicted
            \/ /\ Follows(n.cache[i], r.older[i], {set[0].tag}, n.LRU)
               /\ set[0].tag \in DOMAIN r.older[i]
               /\ missed = lruMissed /\ evicted = 1 /\ lruEvicted = 0
        <5>1. \/ /\ Follows(Use(set, tag, m.LRU), LruUse(older, tag), {}, m.LRU + 1)
                 /\ missed = lruMissed /\ evicted = lruEvicted
              \/ /\ Follows(Use(set, tag, m.LRU), LruUse(older, tag), {set[0].tag}, m.LRU + 1)
                 /\ set[0].tag \in DOMAIN LruUse(older, tag)
                 /\ missed = lruMissed /\ evicted = 1 /\ lruEvicted = 0
          BY <1>1, <1>3, <1>8, <2>1, <3>2, FreshFollows DEF missed, lruMissed, evicted, lruEvicted
        <5> QED BY <1>4, <1>9, <5>1
      <4>2. \/ Follows(n.cache[i], r.older[i], {}, n.LRU) /\ Ahead(n, r, 0, 0)
            \/ /\ \E t \in DOMAIN r.older[i] : Follows(n.cache[i], r.older[i], {t}, n.LRU)
               /\ Ahead(n, r, 0, 1)
        <5>1. missed = lruMissed /\ evicted = lruEvicted => Ahead(n, r, 0, 0)
          BY <1>2, <1>3, <1>4, <1>5, <1>7, <3>2 DEF Ahead
        <5>2. missed = lruMissed /\ evicted = 1 /\ lruEvicted = 0 => Ahead(n, r, 0, 1)
          BY <1>2, <1>3, <1>4, <1>5, <1>7, <3>2 DEF Ahead
        <5> QED BY <4>1, <5>1, <5>2
      <4>3. r.misses \in Nat /\ r.evictions \in Nat
        BY <1>2, <1>5, <1>7, <4>1
      <4> QED BY <4>2, <4>3 DEF FirstSet
    <3>3. ASSUME NEW t \in DOMAIN older, Follows(set, older, {t}, m.LRU), Ahead(m, l, 0, 1)
          PROVE  FirstSet(n, r, i) /\ r.misses \in Nat /\ r.evictions \in Nat
      <4>1. \/ /\ Follows(n.cache[i], r.older[i], {t}, n.LRU)
               /\ missed = lruMissed /\ evicted = lruEvicted
            \/ /\ Follows(n.cache[i], r.older[i], {}, n.LRU)
               /\ missed = lruMissed + 1 /\ lruMissed = 0 /\ evicted = 0 /\ lruEvicted = 0
            \/ /\ Follows(n.cache[i], r.older[i], {}, n.LRU)
               /\ missed = lruMissed /\ evicted = 0 /\ lruEvicted = 1
        <5>1. \/ /\ Follows(Use(set, tag, m.LRU), LruUse(older, tag), {t}, m.LRU + 1)
                 /\ missed = lruMissed /\ evicted = lruEvicted
              \/ /\ Follows(Use(set, tag, m.LRU), LruUse(older, tag), {}, m.LRU + 1)
                 /\ missed = lruMissed + 1 /\ lruMissed = 0 /\ evicted = 0 /\ lruEvicted = 0
              \/ /\ Follows(Use(set, tag, m.LRU), LruUse(older, tag), {}, m.LRU + 1)
                 /\ missed = lruMissed /\ evicted = 0 /\ lruEvicted = 1
          <6>1. tag \in Nat /\ m.LRU \in Nat /\ m.LRU > 0 /\ set \in [Lines -> Block] /\ TagsDiffer(set)
                /\ Follows(set, older, {t}, m.LRU)
            BY <1>1, <1>3, <1>8, <2>1, <3>3
          <6>2. t \in DOMAIN older /\ Follows(set, older, {t}, m.LRU)
            BY <3>3
          <6> HIDE DEF set, older, tag
          <6> QED BY <6>1, <6>2, BehindFollows DEF missed, lruMissed, evicted, lruEvicted
        <5> QED BY <1>4, <1>9, <5>1
      <4>2. \/ Follows(n.cache[i], r.older[i], {t}, n.LRU) /\ Ahead(n, r, 0, 1)
            \/ Follows(n.cache[i], r.older[i], {}, n.LRU) /\ (Ahead(n, r, 0, 0) \/ Ahead(n, r, 1, 1))
        BY <1>2, <1>3, <1>4, <1>5, <1>7, <3>3, <4>1 DEF Ahead
      <4>3. r.misses \in Nat /\ r.evictions \in Nat
        BY <1>2, <1>5, <1>7, <4>1
      <4>4. Follows(n.cache[i], r.older[i], {t}, n.LRU) => t \in DOMAIN r.older[i]
        BY DEF Follows
      <4> QED BY <4>2, <4>3, <4>4 DEF FirstSet
    <3>4. CASE Follows(set, older, {}, m.LRU) /\ (Ahead(m, l, 0, 0) \/ Ahead(m, l, 1, 1))
      <4>1. Follows(n.cache[i], r.older[i], {}, n.LRU) /\ missed = lruMissed /\ evicted = lruEvicted
        BY <1>1, <1>3, <1>4, <1>8, <1>9, <2>1, <3>4, SameFollows
           DEF missed, lruMissed, evicted, lruEvicted
      <4>2. Ahead(n, r, 0, 0) \/ Ahead(n, r, 1, 1)
        BY <1>2, <1>3, <1>4, <1>5, <1>7, <3>4, <4>1 DEF Ahead
      <4>3. r.misses \in Nat /\ r.evictions \in Nat
        BY <1>2, <1>5, <1>7, <4>1
      <4> QED BY <4>1, <4>2, <4>3 DEF FirstSet
    <3> QED BY <3>1, <3>2, <3>3, <3>4 DEF FirstSet
  <2>3. \A x \in SetIndices \ g : Follows(n.cache[x], r.older[x], {}, n.LRU)
    BY <1>2, <1>10, <2>1
  <2> QED BY <1>6, <1>9, <1>11, <1>12, <2>1, <2>2, <2>3 DEF Alike
<1> QED BY <1>13, <1>14, <1>15

LEMMA InitAlike == InitBoth => LruInv
<1> SUFFICES ASSUME InitBoth PROVE LruInv
  OBVIOUS
<1>1. /\ sim = [cache |-> initCache, LRU |-> 0, hits |-> 0, misses |-> 0, evictions |-> 0]
      /\ lru = Reference!EmptyLru /\ first = {}
  BY DEF InitBoth, Init
<1>2. Consistent(sim)
  BY InitConsistent DEF InitBoth, IInv
<1>3. /\ DOMAIN lru.older = SetIndices /\ lru.misses = 0 /\ lru.evictions = 0
      /\ \A i \in SetIndices : DOMAIN lru.older[i] = {}
  BY <1>1 DEF Reference!EmptyLru, Reference!EmptySet
<1>4. \A i \in SetIndices, j \in Lines :
        ~sim.cache[i][j].valid /\ sim.cache[i][j].lruCount = 0
  BY <1>1 DEF initCache
<1>5. ASSUME NEW i \in SetIndices PROVE Follows(sim.cache[i], lru.older[i], {}, 0)
  <2>1. ValidOf(sim.cache[i]) = {}
    BY <1>4 DEF ValidOf
  <2>2. TagsOf(sim.cache[i]) = {} /\ Stamped(sim.cache[i], 0)
    BY <1>4, <2>1 DEF TagsOf, Stamped
  <2>3. Cardinality(DOMAIN lru.older[i]) <= E
    BY <1>3, FS_EmptySet, ArgumentsAssumption
  <2> QED BY <1>3, <2>1, <2>2, <2>3 DEF Follows
<1>6. sim.LRU = 0 /\ sim.misses = 0 /\ sim.evictions = 0
  BY <1>1
<1> QED BY <1>1, <1>2, <1>3, <1>5, <1>6 DEF LruInv, Alike, Ahead

\* After every access each set of csim is the reference's set, but for the block that the
\* first access of the trace brought in with lruCount 0 (cacheAccess, test-csim).
THEOREM CsimFollowsReference == SpecBoth => []LruInv
<1>1. InitBoth => LruInv
  BY InitAlike
<1>2. LruInv /\ [NextBoth]_vars => LruInv'
  <2> SUFFICES ASSUME LruInv, [NextBoth]_vars PROVE LruInv'
    OBVIOUS
  <2>1. CASE UNCHANGED vars
    <3>1. sim' = sim /\ lru' = lru /\ first' = first
      BY <2>1 DEF vars
    <3>2. Alike(sim', lru', first')
      BY <3>1 DEF LruInv
    <3> QED BY <3>2 DEF LruInv
  <2>2. ASSUME NEW addr \in Addrs, AccessBoth(addr) PROVE LruInv'
    <3>1. /\ sim' = cacheAccess(sim, addr) /\ lru' = reference(lru, addr)
          /\ first' = IF sim.LRU = 0 THEN {INDEX(addr)} ELSE first
      BY <2>2 DEF AccessBoth, Access, NoteFirst
    <3>2. Alike(sim', lru', first')
      BY <3>1, AccessKeepsAlike DEF LruInv
    <3> QED BY <3>2 DEF LruInv
  <2>3. ASSUME NEW addr \in Addrs, ModifyBoth(addr) PROVE LruInv'
    <3> DEFINE n == cacheAccess(sim, addr)
               r == reference(lru, addr)
               f == IF sim.LRU = 0 THEN {INDEX(addr)} ELSE first
    <3>1. sim' = cacheAccess(n, addr) /\ lru' = reference(r, addr) /\ first' = f
      BY <2>3 DEF ModifyBoth, Modify, NoteFirst
    <3>2. Alike(n, r, f)
      BY AccessKeepsAlike DEF LruInv
    <3>3. n.LRU # 0
      <4>1. n.LRU = sim.LRU + 1
        BY AccessIsUse
      <4>2. sim.LRU \in Nat
        BY DEF LruInv, Alike, Consistent, Counted, Simulation
      <4> QED BY <4>1, <4>2
    <3> HIDE DEF n, r, f
    <3>4. Alike(cacheAccess(n, addr), reference(r, addr), f)
      <4>1. Alike(cacheAccess(n, addr), reference(r, addr), IF n.LRU = 0 THEN {INDEX(addr)} ELSE f)
        BY <3>2, AccessKeepsAlike
      <4> QED BY <3>3, <4>1
    <3>5. Alike(sim', lru', first')
      BY <3>1, <3>4
    <3> QED BY <3>5 DEF LruInv
  <2> QED BY <2>1, <2>2, <2>3 DEF NextBoth
<1> QED BY <1>1, <1>2, PTL DEF SpecBoth

\* A set not touched by the first access holds exactly the reference's blocks, ordered by
\* their lruCounts as the reference orders them: there csim is the LRU cache it promises to be.
THEOREM OtherSetsAsReferenceHolds == SpecBoth => []OtherSetsAsReference
<1>1. LruInv => OtherSetsAsReference
  <2> SUFFICES ASSUME LruInv, NEW i \in SetIndices \ first
               PROVE  LET block == sim.cache[i]
                          Valid == {j \in Lines : block[j].valid}
                      IN  /\ DOMAIN lru.older[i] = {block[j].tag : j \in Valid}
                          /\ \A j, k \in Valid :
                                block[j].tag \in lru.older[i][block[k].tag]
                                   <=> block[j].lruCount < block[k].lruCount
    BY Zenon DEF OtherSetsAsReference
  <2>1. Follows(sim.cache[i], lru.older[i], {}, sim.LRU)
    BY DEF LruInv, Alike
  <2> QED BY <2>1 DEF Follows, TagsOf, ValidOf
<1> QED BY <1>1, CsimFollowsReference, PTL

\* Stamping the first access with 0, the count of a block never used, costs csim at most
\* one miss and one eviction on any trace.
THEOREM AtMostOneOffHolds == SpecBoth => []AtMostOneOff
<1>1. LruInv => AtMostOneOff
  <2> SUFFICES ASSUME LruInv PROVE AtMostOneOff
    OBVIOUS
  <2>1. /\ sim.misses \in Nat /\ sim.evictions \in Nat
        /\ lru.misses \in Nat /\ lru.evictions \in Nat
    BY DEF LruInv, Alike, Consistent, Counted, Simulation
  <2>2. Ahead(sim, lru, 0, 0) \/ Ahead(sim, lru, 0, 1) \/ Ahead(sim, lru, 1, 1)
    <3>1. CASE first = {}
      BY <3>1 DEF LruInv, Alike
    <3>2. CASE first # {}
      <4>1. PICK i \in first : FirstSet(sim, lru, i)
        BY <3>2 DEF LruInv, Alike
      <4> QED BY <4>1 DEF FirstSet
    <3> QED BY <3>1, <3>2
  <2> QED BY <2>1, <2>2 DEF Ahead, AtMostOneOff
<1> QED BY <1>1, CsimFollowsReference, PTL
=============================================================================
