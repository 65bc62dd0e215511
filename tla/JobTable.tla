------------------------------ MODULE JobTable -------------------------------
(***************************************************************************)
(* The job list alone, under every sequence of additions and deletions the *)
(* shell can issue: eval adds a process that is not listed yet, the        *)
(* SIGCHLD handler, which eval blocks until addjob has returned, deletes   *)
(* one it has reaped.                                                      *)
(***************************************************************************)
EXTENDS JobList

CONSTANTS
    JidBound    \* bound of the model: nothing is added once nextjid exceeds it

VARIABLE
    adding      \* the slot addjob has stored a PID in, NoSlot between two calls

vars == <<jobs, nextjid, adding>>

Init == initjobs /\ adding = NoSlot

Add(p) ==
    /\ adding = NoSlot
    /\ ~Listed(p)
    /\ nextjid <= JidBound
    /\ FreeSlots # {}
    /\ adding' = First(FreeSlots)
    /\ addjobpid(p)

FinishAdd ==
    /\ adding # NoSlot
    /\ adding' = NoSlot
    /\ addjobstate(adding, "BG")

Delete(p) ==
    /\ adding = NoSlot
    /\ Listed(p)
    /\ deletejob(p)
    /\ UNCHANGED adding

Next == FinishAdd \/ \E p \in Pids : Add(p) \/ Delete(p)

Spec == Init /\ [][Next]_vars

-----------------------------------------------------------------------------
TypeOK == JobListTypeOK /\ adding \in Slots \cup {NoSlot}

\* Two listed jobs never share a job ID, so that "fg %n" and "bg %n" name one
\* job (getjobjid returns the first slot that matches).
JidsUnique ==
    \A i, j \in Slots :
        (i # j /\ jobs[i].pid # NoPid /\ jobs[j].pid # NoPid)
            => jobs[i].jid # jobs[j].jid
=============================================================================
