------------------------------- MODULE CsimLru -------------------------------
(***************************************************************************)
(* csim and the reference cache side by side on one trace, the way         *)
(* test-csim compares csim with csim-ref.                                  *)
(***************************************************************************)
EXTENDS Csim

VARIABLES
    lru,     \* the reference cache
    first    \* the sets touched by the first access of the trace

Reference == INSTANCE Lru WITH SetIndices <- SetIndices, E <- E

vars == <<sim, lru, first>>

reference(l, addr) == Reference!LruAccess(l, INDEX(addr), TAG(addr))

InitBoth ==
    /\ Init
    /\ lru = Reference!EmptyLru
    /\ first = {}

NoteFirst(addr) == first' = IF sim.LRU = 0 THEN {INDEX(addr)} ELSE first

AccessBoth(addr) ==
    /\ Access(addr)
    /\ lru' = reference(lru, addr)
    /\ NoteFirst(addr)

ModifyBoth(addr) ==
    /\ Modify(addr)
    /\ lru' = reference(reference(lru, addr), addr)
    /\ NoteFirst(addr)

NextBoth == \E addr \in Addrs : AccessBoth(addr) \/ ModifyBoth(addr)

SpecBoth == InitBoth /\ [][NextBoth]_vars

-----------------------------------------------------------------------------
(* Properties *)

\* Every set but the one of the first access holds the blocks that the reference
\* holds, and their lruCounts order them by their last use.
OtherSetsAsReference ==
    \A i \in SetIndices \ first :
        LET block == sim.cache[i]
            Valid == {j \in Lines : block[j].valid}
        IN  /\ DOMAIN lru.older[i] = {block[j].tag : j \in Valid}
            /\ \A j, k \in Valid :
                    block[j].tag \in lru.older[i][block[k].tag] <=> block[j].lruCount < block[k].lruCount

\* The set of the first access may lose one block too early, because LRU was 0
\* when that block came in, as it is in a block that was never used: over a whole
\* trace this costs at most one miss and one eviction.
AtMostOneOff ==
    /\ sim.misses - lru.misses \in {0, 1}
    /\ sim.evictions - lru.evictions \in {0, 1}

\* "LRU is the global counter that makes the cache LRU" (docs, line 79), and
\* test-csim expects the counts of csim-ref: the counts are those of an LRU cache.
CountsAsReference ==
    sim.hits = lru.hits /\ sim.misses = lru.misses /\ sim.evictions = lru.evictions
=============================================================================
