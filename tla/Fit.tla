--------------------------------- MODULE Fit ---------------------------------
(***************************************************************************)
(* First fit and best fit of Lab/LAB11/lab11.c: each process in turn takes *)
(* its size off a free block, or nothing at all when no block is left that *)
(* is large enough.  main runs both functions on the same sizes.           *)
(***************************************************************************)
EXTENDS Integers

CONSTANTS
    arr,      \* number of blocks
    process,  \* number of processes
    FitSizes  \* sizes of blocks and of processes

ASSUME FitAssumption ==
    /\ arr \in Nat
    /\ process \in Nat
    /\ FitSizes \subseteq Nat

BlockIds == 0 .. arr - 1
ProcIds == 0 .. process - 1

VARIABLES
    arraySize,    \* the sizes of the blocks, as passed by main
    processSize,  \* the sizes of the processes
    policy,       \* the function that runs: "first", "best"; "main" before, "end" after them
    proc,         \* the process it has come to
    n_arraySize,  \* what is left of each block
    allocation    \* the block of each process, -1 for none

fit_vars == <<arraySize, processSize, policy, proc, n_arraySize, allocation>>

Fitting(size) == {b \in BlockIds : size <= n_arraySize[b]}

FirstBlock(size) == {b \in Fitting(size) : \A c \in Fitting(size) : b <= c}

\* Variant: the comparison of the remainders is the wrong way round.
WorstFit(size) ==
    {b \in Fitting(size) : \A c \in Fitting(size) :
        \/ n_arraySize[b] > n_arraySize[c]
        \/ n_arraySize[b] = n_arraySize[c] /\ b <= c}
\* The smallest remainder, the first such block when several are equal.
BestBlock(size) ==
    {b \in Fitting(size) : \A c \in Fitting(size) :
        \/ n_arraySize[b] < n_arraySize[c]
        \/ n_arraySize[b] = n_arraySize[c] /\ b <= c}

Chosen(size) == IF policy = "first" THEN FirstBlock(size) ELSE BestBlock(size)

Nowhere == [p \in ProcIds |-> 0]

FitInit ==
    /\ arraySize = [b \in BlockIds |-> 0]
    /\ processSize = [p \in ProcIds |-> 0]
    /\ policy = "main"
    /\ proc = 0
    /\ n_arraySize = arraySize
    /\ allocation = Nowhere

\* main has its two arrays and calls first, which copies the sizes of the blocks.
Main ==
    /\ policy = "main"
    /\ arraySize' \in [BlockIds -> FitSizes]
    /\ processSize' \in [ProcIds -> FitSizes]
    /\ n_arraySize' = arraySize'
    /\ policy' = "first"
    /\ UNCHANGED <<proc, allocation>>

Allocate ==
    /\ policy \in {"first", "best"}
    /\ proc < process
    /\ \E b \in Chosen(processSize[proc]) :
        /\ n_arraySize' = [n_arraySize EXCEPT ![b] = @ - processSize[proc]]
        /\ allocation' = [allocation EXCEPT ![proc] = b]
    /\ proc' = proc + 1
    /\ UNCHANGED <<arraySize, processSize, policy>>

Refuse ==
    /\ policy \in {"first", "best"}
    /\ proc < process
    /\ Chosen(processSize[proc]) = {}
    /\ allocation' = [allocation EXCEPT ![proc] = -1]
    /\ proc' = proc + 1
    /\ UNCHANGED <<arraySize, processSize, policy, n_arraySize>>

\* main calls best after first, with the same arrays; best copies the sizes again.
Return ==
    /\ policy \in {"first", "best"}
    /\ proc = process
    /\ policy' = IF policy = "first" THEN "best" ELSE "end"
    /\ proc' = 0
    /\ n_arraySize' = arraySize
    /\ allocation' = Nowhere
    /\ UNCHANGED <<arraySize, processSize>>

FitNext == Main \/ Allocate \/ Refuse \/ Return

FitSpec == FitInit /\ [][FitNext]_fit_vars

-----------------------------------------------------------------------------
Placed == 0 .. proc - 1

\* A process that was refused would not fit in any block now either.
RefusedForGood ==
    \A p \in Placed : allocation[p] = -1 => \A b \in BlockIds : n_arraySize[b] < processSize[p]

\* A process that first placed would not fit in any earlier block now.
NoEarlierBlock ==
    policy = "first" =>
        \A p \in Placed : \A b \in BlockIds :
            b < allocation[p] => n_arraySize[b] < processSize[p]

\* No block is given away twice.
NeverOvercommitted == \A b \in BlockIds : n_arraySize[b] \in 0 .. arraySize[b]

\* What was left of each block when a process came to be placed.
LeftBefore[p \in 0 .. process] ==
    IF p = 0 THEN arraySize
    ELSE [b \in BlockIds |->
            LeftBefore[p - 1][b] - IF allocation[p - 1] = b THEN processSize[p - 1] ELSE 0]

\* A process got the block that its policy promises, given those placed before it: the
\* first one that was large enough, or the one that it filled best.
AsPromised(p) ==
    allocation[p] # -1 =>
        \A b \in BlockIds :
            LET left == LeftBefore[p]
                fits == processSize[p] <= left[b]
            IN
            /\ b = allocation[p] => fits
            /\ policy = "best" /\ fits => left[allocation[p]] <= left[b]
            /\ policy = "first" /\ fits => allocation[p] <= b

\* Each process got the block that its policy promises.  The blocks are not over-committed,
\* a refusal is for good, and what is left of them is what the allocation says.
PlacedAsPromised ==
    /\ NeverOvercommitted /\ RefusedForGood /\ NoEarlierBlock
    /\ n_arraySize = LeftBefore[proc]
    /\ \A p \in Placed : AsPromised(p)
=============================================================================
