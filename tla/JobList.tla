------------------------------- MODULE JobList -------------------------------
(***************************************************************************)
(* The job list of tsh (ASSN/ASSN5/tsh.c): the array jobs[MAXJOBS], the    *)
(* counter nextjid, and the helper routines that read and update them.     *)
(* The array index i of the code is slot i + 1 here.                       *)
(***************************************************************************)
EXTENDS Search, FiniteSets

CONSTANTS
    MAXJOBS,    \* slots of the job list
    Pids,       \* process identifiers of jobs (positive pid_t values)
    NoPid       \* the pid_t value 0 of a free slot

ASSUME MaxjobsAssumption == MAXJOBS \in Nat \ {0}
ASSUME NoPidAssumption == NoPid \notin Pids

VARIABLES
    jobs,       \* struct job_t jobs[MAXJOBS], without the command line
    nextjid     \* next job ID to allocate

Slots == 1..MAXJOBS
NoSlot == 0                      \* the NULL a lookup returns
JobStates == {"UNDEF", "FG", "BG", "ST"}
Job == [pid : Pids \cup {NoPid}, jid : Nat, state : JobStates]

ClearedJob == [pid |-> NoPid, jid |-> 0, state |-> "UNDEF"]

\* Every search of the list runs from slot 1 upwards and stops at the first hit.
FirstOrNone(S) == IF S = {} THEN NoSlot ELSE First(S)

\* Variant: the search for a free slot leaves out the last one.
FreeSlotsButLast == {i \in Slots : i < MAXJOBS /\ jobs[i].pid = NoPid}
FreeSlots == {i \in Slots : jobs[i].pid = NoPid}
Listed(p) == \E i \in Slots : jobs[i].pid = p

getjobpid(p) == FirstOrNone({i \in Slots : p # NoPid /\ jobs[i].pid = p})
getjobjid(j) == FirstOrNone({i \in Slots : j # 0 /\ jobs[i].jid = j})

\* Variant: background jobs count as well.
RunningSlots == {i \in Slots : jobs[i].state \in {"FG", "BG"}}
ForegroundSlots == {i \in Slots : jobs[i].state = "FG"}

\* The PID in the first slot whose state is FG, free slots included.
fgpid == IF ForegroundSlots = {} THEN NoPid ELSE jobs[First(ForegroundSlots)].pid

maxjid(js) ==
    CHOOSE m \in {0} \cup {js[i].jid : i \in Slots} :
        \A i \in Slots : js[i].jid <= m

\* nextjid++ and its wrap.
JidAfterAdd(n) == IF n + 1 > MAXJOBS THEN 1 ELSE n + 1

\* Variant of nextjid = maxjid(jobs)+1: without the increment.
MaxjidItself(js) == maxjid(js)
JidAfterDelete(js) == maxjid(js) + 1

-----------------------------------------------------------------------------
initjobs ==
    /\ jobs = [i \in Slots |-> ClearedJob]
    /\ nextjid = 1

\* addjob in two steps, between which a handler may read the list.  It stores
\* the PID in the first free slot, whose state is still what was left there...
addjobpid(p) ==
    /\ jobs' = [jobs EXCEPT ![First(FreeSlots)].pid = p]
    /\ UNCHANGED nextjid

\* ...and then the state and the job ID, which no handler reads in between.
addjobstate(slot, st) ==
    /\ jobs' = [jobs EXCEPT ![slot].state = st, ![slot].jid = nextjid]
    /\ nextjid' = JidAfterAdd(nextjid)

deletejob(p) ==
    IF Listed(p)
    THEN /\ jobs' = [jobs EXCEPT ![getjobpid(p)] = ClearedJob]
         /\ nextjid' = JidAfterDelete(jobs')
    ELSE UNCHANGED <<jobs, nextjid>>

\* The assignment job->state = st of do_bgfg and sigchld_handler.
setstate(slot, st) ==
    /\ jobs' = [jobs EXCEPT ![slot].state = st]
    /\ UNCHANGED nextjid

JobListTypeOK ==
    /\ jobs \in [Slots -> Job]
    /\ nextjid \in Nat \ {0}

\* No process is on the list twice, so that a lookup by PID names one slot.
PidListedOnce ==
    \A i, j \in Slots : (jobs[i].pid = jobs[j].pid /\ jobs[i].pid # NoPid) => i = j
=============================================================================
