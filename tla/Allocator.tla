------------------------------ MODULE Allocator ------------------------------
(***************************************************************************)
(* What the malloc package promises its clients (ASSN/ASSN6), as mdriver.c *)
(* checks it when it adds a payload to its range list: every payload is    *)
(* aligned, lies within the heap and overlaps no other payload.            *)
(***************************************************************************)
EXTENDS Naturals

CONSTANTS
    ALIGNMENT,  \* of every payload, in bytes
    HeapBytes,  \* largest heap, in bytes
    Sizes       \* requests clients make, in bytes

VARIABLE live   \* payloads that clients hold: [ptr, size], in bytes

Payload == [ptr : {a \in 1..HeapBytes : a % ALIGNMENT = 0}, size : Sizes]

Disjoint(r, s) == r.ptr + r.size <= s.ptr \/ s.ptr + s.size <= r.ptr

Init == live = {}

\* add_range: alignment, extent in the heap, and no overlap.
Allocate(kept) ==
    \E r \in Payload :
        /\ r.ptr + r.size <= HeapBytes
        /\ \A s \in kept : Disjoint(r, s)
        /\ live' = kept \cup {r}

Malloc == Allocate(live)
Free == \E r \in live : live' = live \ {r}
Realloc == \E r \in live : Allocate(live \ {r})

Next == Malloc \/ Free \/ Realloc

Spec == Init /\ [][Next]_live
=============================================================================
