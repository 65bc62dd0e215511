--------------------------------- MODULE Lru ---------------------------------
(***************************************************************************)
(* The cache that csim promises to simulate (ASSN/ASSN4): sets of E lines  *)
(* with least-recently-used replacement, as csim-ref simulates it for      *)
(* test-csim.  A set knows for each tag it holds which of the others were  *)
(* used less recently; there is a line to spare as long as it holds fewer  *)
(* than E.                                                                 *)
(***************************************************************************)
EXTENDS FiniteSets, Integers

CONSTANTS
    SetIndices,  \* indices of the sets
    E            \* lines per set

EmptySet == [t \in {} |-> {}]
EmptyLru == [older |-> [i \in SetIndices |-> EmptySet], hits |-> 0, misses |-> 0, evictions |-> 0]

\* The tags of a set that no other one is older than.
LeastRecent(older) == {t \in DOMAIN older : older[t] = {}}

\* The tags of kept stay, and tag is used.
Recency(older, kept, tag) ==
    [t \in kept \cup {tag} |-> IF t = tag THEN kept \ {tag} ELSE older[t] \cap (kept \ {tag})]

LruHit(l, i, tag) ==
    LET older == l.older[i] IN
    [older |-> [l.older EXCEPT ![i] = Recency(older, DOMAIN older, tag)],
     hits |-> l.hits + 1, misses |-> l.misses, evictions |-> l.evictions]

LruMiss(l, i, tag) ==
    LET older == l.older[i]
        evicted == IF Cardinality(DOMAIN older) = E THEN LeastRecent(older) ELSE {}
    IN  [older |-> [l.older EXCEPT ![i] = Recency(older, DOMAIN older \ evicted, tag)],
         hits |-> l.hits, misses |-> l.misses + 1,
         evictions |-> l.evictions + Cardinality(evicted)]

LruAccess(l, i, tag) ==
    IF tag \in DOMAIN l.older[i] THEN LruHit(l, i, tag) ELSE LruMiss(l, i, tag)
=============================================================================
