--------------------------------- MODULE Csim --------------------------------
(***************************************************************************)
(* The cache simulator (ASSN/ASSN4/csim.c): a set-associative cache whose  *)
(* blocks carry the value the global counter LRU had at their last use.    *)
(***************************************************************************)
EXTENDS Search, Integers, FiniteSets

CONSTANTS
    s,           \* set index bits
    E,           \* lines per set
    b,           \* block offset bits
    Addrs,       \* addresses in traces
    MaxAccesses  \* bound of the model: accesses in a trace (below 2^31: LRU is an int)

\* main returns before it simulates anything when an argument is 0.
ASSUME ArgumentsAssumption == s \in Nat \ {0} /\ E \in Nat \ {0} /\ b \in Nat \ {0}
ASSUME AddrsAssumption == Addrs \subseteq Nat
ASSUME MaxAccessesAssumption == MaxAccesses \in Nat
ASSUME PowersArePositive == 2^s > 0 /\ 2^b > 0 /\ 2^(s + b) > 0

VARIABLE sim     \* [cache, LRU, hits, misses, evictions]: the program's globals

SetIndices == 0 .. (2^s - 1)
Lines == 0 .. (E - 1)
INDEX(addr) == (addr \div 2^b) % 2^s
TAG(addr) == addr \div 2^(s + b)
Block == [valid : BOOLEAN, tag : Nat, lruCount : Nat]
Simulation == [cache : [SetIndices -> [Lines -> Block]], LRU : Nat,
               hits : Nat, misses : Nat, evictions : Nat]

initCache ==
    [i \in SetIndices |-> [j \in Lines |-> [valid |-> FALSE, tag |-> 0, lruCount |-> 0]]]

\* Variant of the search for a hit: it stops before the last line.
HoldingButLast(set, tag) == {j \in Lines : j < E - 1 /\ set[j].valid /\ set[j].tag = tag}
Holding(set, tag) == {j \in Lines : set[j].valid /\ set[j].tag = tag}

\* The first of the blocks with the smallest lruCount, valid or not.
Oldest(set) == {j \in Lines : \A k \in Lines : set[j].lruCount <= set[k].lruCount}
EvictionBlock(set) == First(Oldest(set))

\* Variant: a block of a set that is not full is counted as well.
CountAlways(block) == 1
EvictionsBy(block) == IF block.valid THEN 1 ELSE 0

\* Variant: a hit leaves the time of the last use as it is.
NotRefreshed(block, now) == block
Refreshed(block, now) == [block EXCEPT !.lruCount = now]

\* Variant: the counter stands still.
Stopped(n) == n
NextLRU(n) == n + 1

Put(cache, i, j, block) == [cache EXCEPT ![i] = [@ EXCEPT ![j] = block]]

Hit(m, i, tag) ==
    LET j == First(Holding(m.cache[i], tag)) IN
    [cache |-> Put(m.cache, i, j, Refreshed(m.cache[i][j], m.LRU)), LRU |-> NextLRU(m.LRU),
     hits |-> m.hits + 1, misses |-> m.misses, evictions |-> m.evictions]

Miss(m, i, tag) ==
    LET j == EvictionBlock(m.cache[i])
        filled == [valid |-> TRUE, tag |-> tag, lruCount |-> m.LRU]
    IN  [cache |-> Put(m.cache, i, j, filled), LRU |-> NextLRU(m.LRU),
         hits |-> m.hits, misses |-> m.misses + 1,
         evictions |-> m.evictions + EvictionsBy(m.cache[i][j])]

cacheAccess(m, addr) ==
    LET i == INDEX(addr)
        tag == TAG(addr)
    IN  IF Holding(m.cache[i], tag) # {} THEN Hit(m, i, tag) ELSE Miss(m, i, tag)

-----------------------------------------------------------------------------
Init == sim = [cache |-> initCache, LRU |-> 0, hits |-> 0, misses |-> 0, evictions |-> 0]

\* A trace line "L addr" or "S addr"; the lines of instruction fetches are skipped.
Access(addr) ==
    /\ sim.LRU < MaxAccesses
    /\ sim' = cacheAccess(sim, addr)

\* A trace line "M addr": a load and a store.
Modify(addr) ==
    /\ sim.LRU < MaxAccesses
    /\ sim' = cacheAccess(cacheAccess(sim, addr), addr)

Next == \E addr \in Addrs : Access(addr) \/ Modify(addr)

Spec == Init /\ [][Next]_sim

-----------------------------------------------------------------------------
(* Properties *)

\* Every access is counted once, as a hit or as a miss.
Counted(m) == m \in Simulation /\ m.LRU = m.hits + m.misses
TypeOK == Counted(sim)

\* No set holds a tag on two lines: a block that is cached is never cached again.
TagOnce(m) ==
    \A i \in SetIndices : \A j, k \in Lines :
        LET set == m.cache[i] IN
        (set[j].valid /\ set[k].valid /\ set[j].tag = set[k].tag) => j = k
TagOncePerSet == TagOnce(sim)

\* Every block brought in by a miss is still there, or its eviction was counted.
ValidLines(m) == {x \in SetIndices \X Lines : m.cache[x[1]][x[2]].valid}
Accounted(m) == m.misses = m.evictions + Cardinality(ValidLines(m))
EvictionsAccountForMisses == Accounted(sim)

\* What every access preserves.
Consistent(m) == Counted(m) /\ TagOnce(m) /\ Accounted(m)
IInv == Consistent(sim)
=============================================================================
