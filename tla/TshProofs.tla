------------------------------ MODULE TshProofs ------------------------------
(***************************************************************************)
(* Theorems about tsh, for every number of slots, every set of processes   *)
(* and every sequence of commands and signals: the routines of the job     *)
(* list, the safety of the shell, and that it implements JobControl.       *)
(***************************************************************************)
EXTENDS Tsh, SearchProofs, FiniteSetTheorems, TLAPS

(* What the routines of the job list return and preserve. *)

LEMMA FirstInSlots ==
    ASSUME NEW S, S \subseteq Slots, S # {}
    PROVE  First(S) \in S /\ First(S) \in Slots
<1>1. S \subseteq Nat
  BY DEF Slots
<1> QED BY <1>1, FirstIsLeast

\* getjobpid returns a slot that holds the process, NULL when there is none.
LEMMA GetjobpidFindsSlot ==
    ASSUME NEW p, p # NoPid
    PROVE  /\ Listed(p) => getjobpid(p) \in Slots /\ jobs[getjobpid(p)].pid = p
           /\ ~Listed(p) => getjobpid(p) = NoSlot
<1> DEFINE S == {i \in Slots : p # NoPid /\ jobs[i].pid = p}
<1>1. CASE Listed(p)
  <2>1. S # {} /\ S \subseteq Slots
    BY <1>1 DEF Listed
  <2>2. First(S) \in S
    BY <2>1, FirstInSlots
  <2> QED BY <1>1, <2>1, <2>2 DEF getjobpid, FirstOrNone
<1>2. CASE ~Listed(p)
  <2>1. S = {}
    BY <1>2 DEF Listed
  <2> QED BY <1>2, <2>1 DEF getjobpid, FirstOrNone
<1> QED BY <1>1, <1>2

LEMMA NoSlotIsNone == NoSlot \notin Slots
BY DEF NoSlot, Slots

\* Process 0 is never found.
LEMMA GetjobpidNoPid == getjobpid(NoPid) = NoSlot
BY DEF getjobpid, FirstOrNone

\* With no process listed twice, the slot found is the only one.
LEMMA GetjobpidIsTheSlot ==
    ASSUME PidListedOnce, NEW i \in Slots, jobs[i].pid # NoPid
    PROVE  getjobpid(jobs[i].pid) = i
<1>1. Listed(jobs[i].pid)
  BY DEF Listed
<1> QED BY <1>1, GetjobpidFindsSlot DEF PidListedOnce

\* fgpid is 0 or the PID in some slot whose state is FG.
LEMMA FgpidIsForeground ==
    fgpid = NoPid \/ \E i \in Slots : jobs[i].state = "FG" /\ jobs[i].pid = fgpid
<1>1. CASE ForegroundSlots = {}
  BY <1>1 DEF fgpid
<1>2. CASE ForegroundSlots # {}
  <2>1. First(ForegroundSlots) \in ForegroundSlots
    <3>1. ForegroundSlots \subseteq Slots
      BY DEF ForegroundSlots
    <3> QED BY <1>2, <3>1, FirstInSlots
  <2> QED BY <1>2, <2>1 DEF fgpid, ForegroundSlots
<1> QED BY <1>1, <1>2

\* maxjid is defined: by the smallest prefix of the list without a largest ID.
LEMMA MaxjidIsMax ==
    ASSUME NEW js \in [Slots -> Job]
    PROVE  maxjid(js) \in Nat /\ \A i \in Slots : js[i].jid <= maxjid(js)
<1> DEFINE HasMax(k) == \E m \in {0} \cup {js[i].jid : i \in 1..k} :
                            m \in Nat /\ \A i \in 1..k : js[i].jid <= m
           Bad == {k \in 0..MAXJOBS : ~HasMax(k)}
<1> MAXJOBS \in Nat
  BY MaxjobsAssumption
<1>1. \A i \in 1..MAXJOBS : js[i].jid \in Nat
  BY DEF Slots, Job
<1>2. Bad = {}
  <2> SUFFICES ASSUME Bad # {} PROVE FALSE
    OBVIOUS
  <2> HIDE DEF HasMax
  <2>1. Bad \subseteq Nat
    OBVIOUS
  <2>2. PICK k \in Bad : \A n \in Bad : k <= n
    BY <2>1, LeastExists
  <2>3. k # 0
    <3>1. HasMax(0)
      <4>1. 1..0 = {}
        OBVIOUS
      <4> QED BY <4>1 DEF HasMax
    <3> QED BY <3>1
  <2>4. k - 1 \in 0..MAXJOBS /\ k \in 1..MAXJOBS
    BY <2>3
  <2>5. HasMax(k - 1)
    BY <2>2, <2>4
  <2>6. PICK m \in {0} \cup {js[i].jid : i \in 1..(k - 1)} :
            m \in Nat /\ \A i \in 1..(k - 1) : js[i].jid <= m
    BY <2>5 DEF HasMax
  <2>7. \A i \in 1..k : i \in 1..(k - 1) \/ i = k
    BY <2>4
  <2>8. js[k].jid \in Nat
    BY <1>1, <2>4
  <2>9. CASE js[k].jid <= m
    <3>1. m \in {0} \cup {js[i].jid : i \in 1..k}
      BY <2>4, <2>6
    <3> QED BY <2>6, <2>7, <2>9, <3>1 DEF HasMax
  <2>10. CASE ~(js[k].jid <= m)
    <3>1. \A i \in 1..k : js[i].jid <= js[k].jid
      <4> SUFFICES ASSUME NEW i \in 1..k PROVE js[i].jid <= js[k].jid
        OBVIOUS
      <4>1. js[i].jid \in Nat
        BY <1>1, <2>4
      <4> QED BY <2>6, <2>7, <2>8, <2>10, <4>1
    <3>2. js[k].jid \in {0} \cup {js[i].jid : i \in 1..k}
      BY <2>4
    <3> QED BY <2>8, <3>1, <3>2 DEF HasMax
  <2> QED BY <2>9, <2>10
<1>3. HasMax(MAXJOBS)
  <2> HIDE DEF HasMax
  <2> QED BY <1>2
<1>4. \E m \in {0} \cup {js[i].jid : i \in Slots} : m \in Nat /\ \A i \in Slots : js[i].jid <= m
  BY <1>3 DEF Slots
<1>5. {0} \cup {js[i].jid : i \in Slots} \subseteq Nat
  BY <1>1 DEF Slots
<1> QED BY <1>4, <1>5 DEF maxjid

-----------------------------------------------------------------------------
(* The effect of each update, in the terms the proofs about tsh use. *)

LEMMA AddjobpidEffect ==
    ASSUME JobListTypeOK, NEW p \in Pids, FreeSlots # {}, addjobpid(p)
    PROVE  /\ JobListTypeOK'
           /\ First(FreeSlots) \in Slots
           /\ jobs[First(FreeSlots)].pid = NoPid
           /\ jobs' = [jobs EXCEPT ![First(FreeSlots)].pid = p]
<1>1. FreeSlots \subseteq Slots
  BY DEF FreeSlots
<1>2. First(FreeSlots) \in FreeSlots /\ First(FreeSlots) \in Slots
  BY <1>1, FirstInSlots
<1>3. jobs[First(FreeSlots)].pid = NoPid
  BY <1>2 DEF FreeSlots
<1>4. jobs' = [jobs EXCEPT ![First(FreeSlots)].pid = p] /\ nextjid' = nextjid
  BY DEF addjobpid
<1>5. jobs' \in [Slots -> Job]
  BY <1>2, <1>4 DEF JobListTypeOK, Job
<1> QED BY <1>2, <1>3, <1>4, <1>5 DEF JobListTypeOK

LEMMA AddjobstateEffect ==
    ASSUME JobListTypeOK, NEW k \in Slots, NEW st \in JobStates, addjobstate(k, st)
    PROVE  /\ JobListTypeOK'
           /\ jobs'[k].pid = jobs[k].pid
           /\ jobs'[k].state = st
           /\ jobs'[k].jid # 0
           /\ \A i \in Slots : i # k => jobs'[i] = jobs[i]
<1>1. nextjid' \in Nat \ {0}
  BY MaxjobsAssumption DEF addjobstate, JobListTypeOK, JidAfterAdd
<1>2. jobs' = [jobs EXCEPT ![k].state = st, ![k].jid = nextjid]
  BY DEF addjobstate
<1>3. jobs' \in [Slots -> Job]
  BY <1>2 DEF JobListTypeOK, Job
<1> QED BY <1>1, <1>2, <1>3 DEF JobListTypeOK, Job

LEMMA DeletejobEffect ==
    ASSUME JobListTypeOK, NEW p \in Pids, deletejob(p)
    PROVE  /\ JobListTypeOK'
           /\ \/ UNCHANGED jobs /\ ~Listed(p)
              \/ \E k \in Slots :
                    /\ jobs[k].pid = p
                    /\ jobs' = [jobs EXCEPT ![k] = ClearedJob]
<1> p # NoPid
  BY NoPidAssumption
<1>1. CASE ~Listed(p)
  BY <1>1 DEF deletejob, JobListTypeOK
<1>2. CASE Listed(p)
  <2>1. getjobpid(p) \in Slots /\ jobs[getjobpid(p)].pid = p
    BY <1>2, GetjobpidFindsSlot
  <2>2. jobs' = [jobs EXCEPT ![getjobpid(p)] = ClearedJob]
    BY <1>2 DEF deletejob
  <2>3. ClearedJob \in Job
    BY DEF ClearedJob, Job, JobStates
  <2>4. jobs' \in [Slots -> Job]
    BY <2>1, <2>2, <2>3 DEF JobListTypeOK
  <2>5. nextjid' \in Nat \ {0}
    BY <1>2, <2>4, MaxjidIsMax DEF deletejob, JidAfterDelete
  <2> QED BY <2>1, <2>2, <2>4, <2>5 DEF JobListTypeOK
<1> QED BY <1>1, <1>2

LEMMA SetstateEffect ==
    ASSUME JobListTypeOK, NEW k \in Slots, NEW st \in JobStates, setstate(k, st)
    PROVE  /\ JobListTypeOK'
           /\ jobs'[k].state = st
           /\ \A i \in Slots : jobs'[i].pid = jobs[i].pid /\ jobs'[i].jid = jobs[i].jid
           /\ \A i \in Slots : i # k => jobs'[i] = jobs[i]
BY DEF setstate, JobListTypeOK, Job

-----------------------------------------------------------------------------
(* The safety of the shell. *)

USE DEF Alive, HalfAdded, BeingAdded, Background

LEMMA InitIInv == Init => IInv
<1> SUFFICES ASSUME Init PROVE IInv
  OBVIOUS
<1> USE NoPidAssumption, MaxjobsAssumption DEF Init
<1>1. TypeOK
  BY DEF TypeOK, JobListTypeOK, initjobs, ClearedJob, Job, JobStates, MainPoints, NoArg, Args,
         HandlerPoints, ProcStates, NoSlot
<1>2. \A i \in Slots : jobs[i] = [pid |-> NoPid, jid |-> 0, state |-> "UNDEF"]
  BY DEF initjobs, ClearedJob
<1>3. PidListedOnce /\ EntriesOK /\ NoStaleEntry /\ ForegroundAwaited /\ ShownStoppedIsStopped
  BY <1>2 DEF PidListedOnce, EntriesOK, NoStaleEntry, ForegroundAwaited, ShownStoppedIsStopped
<1>4. HandlersOK /\ EvalOK /\ HeldSlotOK /\ ForwardedToForegroundOnly
  BY DEF HandlersOK, EvalOK, HeldSlotOK, ForwardedToForegroundOnly, Signals
<1> QED BY <1>1, <1>3, <1>4 DEF IInv

LEMMA NoArgType == NoArg \in Args
BY DEF NoArg, Args

\* A step of main moves on to a point of main and keeps everything typed.
LEMMA MainTypeOK ==
    ASSUME TypeOK, pc' \in MainPoints, arg' \in Args,
           blocked' \subseteq Signals,
           UNCHANGED <<jobs, nextjid, pending, handlers, kernel>>
    PROVE  TypeOK'
BY DEF TypeOK, JobListTypeOK, handlers, kernel

-----------------------------------------------------------------------------
(* Steps that end the shell *)

LEMMA ExitIInv == ASSUME IInv, NEW code \in Exits, ExitShell(code) PROVE IInv'
<1> USE DEF IInv, Alive, Exits, ExitShell, kernel
<1>1. TypeOK'
  BY NoArgType DEF TypeOK, JobListTypeOK, MainPoints, HandlerPoints, Signals
<1>2. (PidListedOnce /\ EntriesOK /\ EvalOK /\ HeldSlotOK)'
  BY DEF PidListedOnce, EntriesOK, EvalOK, HeldSlotOK
<1>3. (HandlersOK /\ ForwardedToForegroundOnly)'
  BY DEF HandlersOK, ForwardedToForegroundOnly, Signals
<1>4. (NoStaleEntry /\ ForegroundAwaited /\ ShownStoppedIsStopped)'
  BY DEF NoStaleEntry, ForegroundAwaited, ShownStoppedIsStopped
<1> QED BY <1>1, <1>2, <1>3, <1>4

-----------------------------------------------------------------------------
(* Main *)

LEMMA ReadJobIInv == ASSUME IInv, ReadJob PROVE IInv'
<1> USE DEF IInv, Alive, Exits, ReadJob, EvalMask, MainAt, handlers, kernel
<1>1. TypeOK'
  BY NoArgType, MainTypeOK DEF MainPoints, Signals, Args, NoArg
<1>2. (PidListedOnce /\ EntriesOK /\ HandlersOK)'
  BY DEF PidListedOnce, EntriesOK, HandlersOK
<1>3. (EvalOK /\ HeldSlotOK)'
  BY DEF EvalOK, HeldSlotOK, HandlersOK, Signals
<1>4. (NoStaleEntry /\ ForegroundAwaited)'
  BY DEF NoStaleEntry, ForegroundAwaited, Reaping
<1>5. (ShownStoppedIsStopped /\ ForwardedToForegroundOnly)'
  BY DEF ShownStoppedIsStopped, ForwardedToForegroundOnly, Reaping
<1> QED BY <1>1, <1>2, <1>3, <1>4, <1>5

\* The process that fork creates is not on the list: SIGCHLD is blocked, so no
\* handler is between waitpid and deletejob.
LEMMA ForkIInv == ASSUME IInv, Fork PROVE IInv'
<1> USE NoPidAssumption DEF IInv, Alive, Exits, Fork, MainAt, handlers
<1> PICK p \in Pids : /\ proc[p] = "free"
                      /\ proc' = [proc EXCEPT ![p] = "forked"]
                      /\ arg' = [arg EXCEPT !.pid = p]
                      /\ pc' = "addjob"
  OBVIOUS
<1>1. TypeOK'
  BY DEF TypeOK, JobListTypeOK, MainPoints, ProcStates, Args
<1>2. hpc["CHLD"] = "idle" /\ "CHLD" \in blocked
  BY DEF EvalOK
<1>3. ~Listed(p)
  BY <1>2 DEF Listed, NoStaleEntry, Reaping
<1>4. (PidListedOnce /\ EntriesOK /\ HandlersOK)'
  BY <1>2 DEF PidListedOnce, EntriesOK, HandlersOK
<1>5. (EvalOK /\ HeldSlotOK)'
  BY <1>2, <1>3 DEF EvalOK, HeldSlotOK, Listed, TypeOK
<1>6. (NoStaleEntry /\ ForegroundAwaited)'
  BY DEF NoStaleEntry, ForegroundAwaited, Reaping, TypeOK
<1>7. (ShownStoppedIsStopped /\ ForwardedToForegroundOnly)'
  BY <1>3 DEF ShownStoppedIsStopped, ForwardedToForegroundOnly, Reaping, Listed, TypeOK
<1> QED BY <1>1, <1>4, <1>5, <1>6, <1>7

\* The PID goes into a free slot, whose state may still be FG: until the next
\* store that job reads as the foreground job.
LEMMA AddJobIInv == ASSUME IInv, AddJob PROVE IInv'
<1> USE NoPidAssumption DEF IInv, Exits, AddJob, MainAt, handlers, kernel
<1> DEFINE k == First(FreeSlots)
<1>1. arg.pid \in Pids /\ proc[arg.pid] # "free" /\ ~Listed(arg.pid)
  BY DEF EvalOK
<1>2. /\ JobListTypeOK'
      /\ k \in Slots
      /\ jobs[k].pid = NoPid
      /\ jobs' = [jobs EXCEPT ![k].pid = arg.pid]
  BY <1>1, AddjobpidEffect DEF TypeOK
<1>3. arg' = [arg EXCEPT !.slot = k]
  OBVIOUS
<1> HIDE DEF k
<1>4. arg' \in Args /\ arg'.slot = k /\ arg'.pid = arg.pid /\ arg'.fg = arg.fg
  BY <1>2, <1>3 DEF TypeOK, Args
<1>5. TypeOK'
  BY <1>2, <1>4 DEF TypeOK, MainPoints
<1>6. /\ jobs'[k].pid = arg.pid /\ jobs'[k].jid = 0 /\ jobs'[k].state # "ST"
      /\ \A i \in Slots : i # k => jobs'[i] = jobs[i] /\ jobs[i].pid # arg.pid
  BY <1>1, <1>2 DEF TypeOK, JobListTypeOK, Job, Listed, EntriesOK
<1>7. (PidListedOnce /\ EntriesOK)'
  BY <1>1, <1>4, <1>6 DEF PidListedOnce, EntriesOK
<1>8. (HandlersOK /\ HeldSlotOK)'
  BY DEF HandlersOK, HeldSlotOK
<1>9. EvalOK'
  BY <1>1, <1>2, <1>4, <1>6 DEF EvalOK
<1>10. NoStaleEntry'
  BY <1>1, <1>6 DEF NoStaleEntry, Reaping
<1>11. ForegroundAwaited'
  BY <1>4, <1>6 DEF ForegroundAwaited
<1>12. ShownStoppedIsStopped'
  BY <1>2, <1>6 DEF ShownStoppedIsStopped, EntriesOK, Reaping
<1>13. ForwardedToForegroundOnly'
  BY DEF ForwardedToForegroundOnly, HandlersOK, Signals
<1> QED BY <1>5, <1>7, <1>8, <1>9, <1>10, <1>11, <1>12, <1>13

LEMMA AddJobFailsIInv == ASSUME IInv, AddJobFails PROVE IInv'
<1> USE DEF IInv, Exits, AddJobFails, MainAt, handlers, kernel
<1>1. TypeOK'
  BY MainTypeOK DEF TypeOK, MainPoints
<1>2. (PidListedOnce /\ EntriesOK /\ HandlersOK /\ HeldSlotOK)'
  BY DEF PidListedOnce, EntriesOK, HandlersOK, HeldSlotOK
<1>3. EvalOK'
  BY DEF EvalOK, ForegroundAwaited
<1>4. (NoStaleEntry /\ ForegroundAwaited)'
  BY DEF NoStaleEntry, ForegroundAwaited, Reaping
<1>5. (ShownStoppedIsStopped /\ ForwardedToForegroundOnly)'
  BY DEF ShownStoppedIsStopped, ForwardedToForegroundOnly, Reaping, HandlersOK, Signals
<1> QED BY <1>1, <1>2, <1>3, <1>4, <1>5

LEMMA AddJobStateIInv == ASSUME IInv, AddJobState PROVE IInv'
<1> USE NoPidAssumption DEF IInv, Exits, AddJobState, MainAt, handlers, kernel
<1> DEFINE st == IF arg.fg THEN "FG" ELSE "BG"
           k == arg.slot
<1>1. /\ k \in Slots /\ jobs[k].pid = arg.pid
      /\ arg.pid \in Pids /\ proc[arg.pid] # "free"
  BY DEF EvalOK
<1>2. /\ JobListTypeOK'
      /\ jobs'[k].pid = arg.pid
      /\ jobs'[k].state = st
      /\ jobs'[k].jid # 0
      /\ \A i \in Slots : i # k => jobs'[i] = jobs[i]
  BY <1>1, AddjobstateEffect DEF TypeOK, JobStates
<1>3. arg' \in Args /\ arg'.pid = arg.pid /\ arg'.fg = arg.fg
  BY DEF TypeOK, Args
<1>4. TypeOK'
  BY <1>2, <1>3 DEF TypeOK, MainPoints
<1>5. \A i \in Slots : jobs'[i].pid = jobs[i].pid
  BY <1>1, <1>2
<1>6. (PidListedOnce /\ EntriesOK)'
  BY <1>1, <1>2, <1>5 DEF PidListedOnce, EntriesOK
<1>7. (HandlersOK /\ HeldSlotOK)'
  BY DEF HandlersOK, HeldSlotOK
<1>8. \A i \in Slots : (jobs'[i].pid # NoPid /\ jobs'[i].state = "FG") => i = k
  BY <1>1, <1>2 DEF ForegroundAwaited, PidListedOnce
<1>9. EvalOK'
  BY <1>2, <1>3, <1>8 DEF EvalOK
<1>10. NoStaleEntry'
  BY <1>5 DEF NoStaleEntry, Reaping
<1>11. ForegroundAwaited'
  BY <1>2, <1>3, <1>8 DEF ForegroundAwaited
<1>12. ShownStoppedIsStopped'
  BY <1>2, <1>5 DEF ShownStoppedIsStopped, Reaping
<1>13. ForwardedToForegroundOnly'
  BY DEF ForwardedToForegroundOnly, HandlersOK, Signals
<1> QED BY <1>4, <1>6, <1>7, <1>9, <1>10, <1>11, <1>12, <1>13

LEMMA UnblockIInv == ASSUME IInv, Unblock PROVE IInv'
<1> USE DEF IInv, Alive, Exits, Unblock, MainAt, handlers, kernel
<1>1. TypeOK'
  BY NoArgType, MainTypeOK DEF TypeOK, MainPoints
<1>2. (PidListedOnce /\ EntriesOK /\ HandlersOK)'
  BY DEF PidListedOnce, EntriesOK, HandlersOK
<1>3. (EvalOK /\ HeldSlotOK)'
  BY DEF EvalOK, HeldSlotOK
<1>4. (NoStaleEntry /\ ForegroundAwaited)'
  BY DEF NoStaleEntry, ForegroundAwaited, Reaping, EvalOK
<1>5. (ShownStoppedIsStopped /\ ForwardedToForegroundOnly)'
  BY DEF ShownStoppedIsStopped, ForwardedToForegroundOnly, Reaping
<1> QED BY <1>1, <1>2, <1>3, <1>4, <1>5

LEMMA WaitfgLookupIInv == ASSUME IInv, WaitfgLookup PROVE IInv'
<1> USE NoPidAssumption DEF IInv, Alive, Exits, WaitfgLookup, MainAt, handlers, kernel
<1>1. CASE getjobpid(arg.pid) = NoSlot
  <2>1. \A i \in Slots : jobs[i].pid = arg.pid => arg.pid = NoPid
    BY <1>1, GetjobpidFindsSlot, NoSlotIsNone DEF Listed
  <2>2. TypeOK'
    BY <1>1, NoArgType, MainTypeOK DEF TypeOK, MainPoints
  <2>3. (PidListedOnce /\ EntriesOK /\ HandlersOK /\ EvalOK /\ HeldSlotOK)'
    BY <1>1 DEF PidListedOnce, EntriesOK, HandlersOK, EvalOK, HeldSlotOK
  <2>4. (NoStaleEntry /\ ForegroundAwaited)'
    BY <1>1, <2>1 DEF NoStaleEntry, ForegroundAwaited, Reaping
  <2>5. (ShownStoppedIsStopped /\ ForwardedToForegroundOnly)'
    BY <1>1 DEF ShownStoppedIsStopped, ForwardedToForegroundOnly, Reaping
  <2> QED BY <2>2, <2>3, <2>4, <2>5
<1>2. CASE getjobpid(arg.pid) # NoSlot
  <2>1. arg.pid # NoPid
    BY <1>2, GetjobpidNoPid
  <2>2. getjobpid(arg.pid) \in Slots /\ jobs[getjobpid(arg.pid)].pid = arg.pid
    BY <1>2, <2>1, GetjobpidFindsSlot
  <2>3. arg'.pid = arg.pid /\ arg'.slot = getjobpid(arg.pid) /\ pc' = "waiting"
    BY <1>2 DEF TypeOK, Args
  <2>4. TypeOK'
    BY <1>2, <2>2, MainTypeOK DEF TypeOK, MainPoints, Args
  <2>5. (PidListedOnce /\ EntriesOK /\ HandlersOK /\ EvalOK /\ HeldSlotOK)'
    BY <2>2, <2>3 DEF PidListedOnce, EntriesOK, HandlersOK, EvalOK, HeldSlotOK
  <2>6. (NoStaleEntry /\ ForegroundAwaited)'
    BY <2>3 DEF NoStaleEntry, ForegroundAwaited, Reaping
  <2>7. (ShownStoppedIsStopped /\ ForwardedToForegroundOnly)'
    BY <2>3 DEF ShownStoppedIsStopped, ForwardedToForegroundOnly, Reaping
  <2> QED BY <2>4, <2>5, <2>6, <2>7
<1> QED BY <1>1, <1>2

LEMMA WaitfgReturnsIInv == ASSUME IInv, WaitfgReturns PROVE IInv'
<1> USE DEF IInv, Alive, Exits, WaitfgReturns, NoLongerForeground, MainAt, handlers, kernel
<1>1. TypeOK'
  BY NoArgType, MainTypeOK DEF TypeOK, MainPoints
<1>2. (PidListedOnce /\ EntriesOK /\ HandlersOK /\ EvalOK /\ HeldSlotOK)'
  BY DEF PidListedOnce, EntriesOK, HandlersOK, EvalOK, HeldSlotOK
<1>3. (NoStaleEntry /\ ForegroundAwaited)'
  BY DEF NoStaleEntry, ForegroundAwaited, Reaping, HeldSlotOK
<1>4. (ShownStoppedIsStopped /\ ForwardedToForegroundOnly)'
  BY DEF ShownStoppedIsStopped, ForwardedToForegroundOnly, Reaping
<1> QED BY <1>1, <1>2, <1>3, <1>4

-----------------------------------------------------------------------------
(* do_bgfg *)

LEMMA ReadBgFgIInv == ASSUME IInv, ReadBgFg PROVE IInv'
<1> USE DEF IInv, Alive, Exits, ReadBgFg, MainAt, handlers, kernel
<1> PICK slot \in {getjobpid(p) : p \in Pids} \cup {getjobjid(jobs[i].jid) : i \in Slots},
         fg \in BOOLEAN :
            slot # NoSlot /\ arg' = [pid |-> NoPid, slot |-> slot, fg |-> fg]
  OBVIOUS
<1>1. slot \in Slots
  <2>1. CASE \E p \in Pids : slot = getjobpid(p)
    <3> PICK p \in Pids : slot = getjobpid(p)
      BY <2>1
    <3> QED BY GetjobpidFindsSlot, NoPidAssumption
  <2>2. CASE \E i \in Slots : slot = getjobjid(jobs[i].jid)
    <3> PICK k \in Slots : slot = getjobjid(jobs[k].jid)
      BY <2>2
    <3> DEFINE S == {i \in Slots : jobs[k].jid # 0 /\ jobs[i].jid = jobs[k].jid}
    <3>1. S # {} /\ slot = First(S)
      BY DEF getjobjid, FirstOrNone
    <3>2. S \subseteq Slots
      OBVIOUS
    <3> HIDE DEF S
    <3> QED BY <3>1, <3>2, FirstInSlots
  <2> QED BY <2>1, <2>2
<1>2. arg' \in Args
  BY <1>1 DEF Args
<1>3. TypeOK'
  BY <1>2, MainTypeOK DEF TypeOK, MainPoints
<1>4. (PidListedOnce /\ EntriesOK /\ HandlersOK /\ EvalOK /\ HeldSlotOK)'
  BY <1>1 DEF PidListedOnce, EntriesOK, HandlersOK, EvalOK, HeldSlotOK
<1>5. (NoStaleEntry /\ ForegroundAwaited)'
  BY DEF NoStaleEntry, ForegroundAwaited, Reaping
<1>6. (ShownStoppedIsStopped /\ ForwardedToForegroundOnly)'
  BY DEF ShownStoppedIsStopped, ForwardedToForegroundOnly, Reaping
<1> QED BY <1>3, <1>4, <1>5, <1>6

LEMMA ReadPidIInv == ASSUME IInv, ReadPid PROVE IInv'
<1> USE DEF IInv, Alive, Exits, ReadPid, MainAt, handlers, kernel
<1>1. arg.slot \in Slots
  BY DEF HeldSlotOK
<1>2. jobs[arg.slot].pid \in Pids \cup {NoPid}
  BY <1>1 DEF TypeOK, JobListTypeOK, Job
<1>3. arg' \in Args /\ arg'.slot = arg.slot /\ arg'.pid = jobs[arg.slot].pid
  BY <1>2 DEF TypeOK, Args
<1>4. TypeOK'
  BY <1>3, MainTypeOK DEF TypeOK, MainPoints
<1>5. (PidListedOnce /\ EntriesOK /\ HandlersOK /\ EvalOK)'
  BY DEF PidListedOnce, EntriesOK, HandlersOK, EvalOK
<1>6. HeldSlotOK'
  BY <1>1, <1>3 DEF HeldSlotOK, PidListedOnce
<1>7. (NoStaleEntry /\ ForegroundAwaited)'
  BY DEF NoStaleEntry, ForegroundAwaited, Reaping
<1>8. (ShownStoppedIsStopped /\ ForwardedToForegroundOnly)'
  BY DEF ShownStoppedIsStopped, ForwardedToForegroundOnly, Reaping
<1> QED BY <1>4, <1>5, <1>6, <1>7, <1>8

\* What kill(-pid, sig) may change: the state of that one process, and only to
\* one that exists; a process that is stopped or dead stays so unless continued.
LEMMA SendToGroupEffect ==
    ASSUME TypeOK, NEW p \in Pids \cup {NoPid}, NEW sig \in {"INT", "TSTP", "CONT"},
           ~NoSuchGroup(p), SendToGroup(p, sig)
    PROVE  /\ proc' \in [Pids -> ProcStates]
           /\ doomed' \subseteq Pids
           /\ pending' \subseteq Signals
           /\ \A q \in Pids : q # p => proc'[q] = proc[q]
           /\ \A q \in Pids : proc'[q] = "free" <=> proc[q] = "free"
           /\ sig # "CONT" => \A q \in Pids :
                proc[q] \in {"stopped", "zombie"} => proc'[q] = proc[q]
<1>1. CASE p = NoPid
  BY <1>1 DEF SendToGroup, TypeOK
<1>2. CASE p \in Pids
  <2>1. proc[p] \in ProcStates \ {"free", "forked"}
    BY <1>2, NoPidAssumption DEF NoSuchGroup, TypeOK
  <2>2. Reaction(p, sig) \in ProcStates \ {"free", "forked"}
    BY <2>1 DEF Reaction, ProcStates
  <2>3. proc' = [proc EXCEPT ![p] = Reaction(p, sig)]
    BY <1>2, NoPidAssumption DEF SendToGroup, BecomesOf
  <2>4. doomed' \subseteq Pids /\ pending' \subseteq Signals
    BY <1>2, NoPidAssumption DEF SendToGroup, BecomesOf, TypeOK, Signals
  <2>5. sig # "CONT" /\ proc[p] \in {"stopped", "zombie"} => Reaction(p, sig) = proc[p]
    BY DEF Reaction
  <2> QED BY <1>2, <2>1, <2>2, <2>3, <2>4, <2>5 DEF TypeOK
<1> QED BY <1>1, <1>2

LEMMA SendContIInv == ASSUME IInv, SendCont PROVE IInv'
<1> USE DEF IInv, Alive, Exits, SendCont, MainAt, handlers
<1>1. arg.pid \in Pids \cup {NoPid} /\ pc' = "setstate" /\ SendToGroup(arg.pid, "CONT")
  BY DEF TypeOK, Args
<1>2. /\ proc' \in [Pids -> ProcStates]
      /\ doomed' \subseteq Pids
      /\ pending' \subseteq Signals
      /\ \A q \in Pids : q # arg.pid => proc'[q] = proc[q]
      /\ \A q \in Pids : proc'[q] = "free" <=> proc[q] = "free"
  BY <1>1, SendToGroupEffect
<1>3. \A s \in Signals : hpc[s] = "idle"
  BY DEF HandlersOK
<1>4. TypeOK'
  BY <1>1, <1>2 DEF TypeOK, JobListTypeOK, MainPoints
<1>5. (PidListedOnce /\ EntriesOK /\ HandlersOK /\ EvalOK /\ HeldSlotOK)'
  BY <1>1, <1>3 DEF PidListedOnce, EntriesOK, HandlersOK, EvalOK, HeldSlotOK, Signals
<1>6. (NoStaleEntry /\ ForegroundAwaited)'
  BY <1>1, <1>2 DEF NoStaleEntry, ForegroundAwaited, Reaping, TypeOK, JobListTypeOK, Job
<1>7. ShownStoppedIsStopped'
  BY <1>1, <1>2 DEF ShownStoppedIsStopped, HeldSlotOK, Reaping, TypeOK, JobListTypeOK, Job
<1>8. ForwardedToForegroundOnly'
  BY DEF ForwardedToForegroundOnly
<1> QED BY <1>4, <1>5, <1>6, <1>7, <1>8

LEMMA SetStateIInv == ASSUME IInv, SetState PROVE IInv'
<1> USE NoPidAssumption DEF IInv, Alive, Exits, SetState, ResumedState, MainAt, handlers, kernel
<1> DEFINE st == IF arg.fg THEN "FG" ELSE "BG"
<1>1. arg.slot \in Slots /\ arg \in Args
  BY DEF HeldSlotOK, TypeOK
<1>2. /\ JobListTypeOK'
      /\ jobs'[arg.slot].state = st
      /\ \A i \in Slots : jobs'[i].pid = jobs[i].pid /\ jobs'[i].jid = jobs[i].jid
      /\ \A i \in Slots : i # arg.slot => jobs'[i] = jobs[i]
  BY <1>1, SetstateEffect DEF TypeOK, JobStates
<1>3. /\ arg' \in Args
      /\ arg.fg => pc' = "waitfg" /\ arg'.pid = arg.pid
      /\ ~arg.fg => pc' = "prompt"
  BY <1>1, NoArgType DEF Args
<1>4. TypeOK'
  BY <1>2, <1>3 DEF TypeOK, MainPoints, Args
<1>5. \A s \in Signals : hpc[s] = "idle"
  BY DEF HandlersOK
<1>6. (PidListedOnce /\ EntriesOK)'
  BY <1>2 DEF PidListedOnce, EntriesOK
<1>7. (HandlersOK /\ EvalOK /\ HeldSlotOK)'
  BY <1>3 DEF HandlersOK, EvalOK, HeldSlotOK
<1>8. NoStaleEntry'
  BY <1>2 DEF NoStaleEntry, Reaping
<1>9. ForegroundAwaited'
  <2>1. \A i \in Slots : jobs[i].pid # NoPid => jobs[i].state # "FG"
    BY DEF ForegroundAwaited
  <2>2. jobs[arg.slot].pid \in {arg.pid, NoPid}
    BY DEF HeldSlotOK
  <2> QED BY <1>2, <1>3, <2>1, <2>2 DEF ForegroundAwaited
<1>10. ShownStoppedIsStopped'
  BY <1>2 DEF ShownStoppedIsStopped, Reaping
<1>11. ForwardedToForegroundOnly'
  BY <1>5 DEF ForwardedToForegroundOnly, Signals
<1> QED BY <1>4, <1>6, <1>7, <1>8, <1>9, <1>10, <1>11

-----------------------------------------------------------------------------
(* Signals and handlers *)

LEMMA UserSignalIInv == ASSUME IInv, NEW s \in UserSignals, UserSignal(s) PROVE IInv'
<1> USE DEF IInv, Alive, Exits, UserSignal, shell, handlers, kernel
<1>1. TypeOK'
  BY UserSignalsAssumption DEF TypeOK, JobListTypeOK, Signals
<1>2. (PidListedOnce /\ EntriesOK /\ HandlersOK /\ EvalOK /\ HeldSlotOK)'
  BY DEF PidListedOnce, EntriesOK, HandlersOK, EvalOK, HeldSlotOK, Listed
<1>3. (NoStaleEntry /\ ForegroundAwaited)'
  BY DEF NoStaleEntry, ForegroundAwaited, Reaping
<1>4. (ShownStoppedIsStopped /\ ForwardedToForegroundOnly)'
  BY DEF ShownStoppedIsStopped, ForwardedToForegroundOnly, Reaping
<1> QED BY <1>1, <1>2, <1>3, <1>4

LEMMA DeliverIInv == ASSUME IInv, NEW s \in Signals, Deliver(s) PROVE IInv'
<1> USE DEF IInv, Alive, Exits, Deliver, shell, kernel
<1>1. Cardinality(Active) + 1 \in Nat \ {0}
  <2>1. IsFiniteSet(Signals)
    <3>1. IsFiniteSet({"INT"}) /\ IsFiniteSet({"TSTP"}) /\ IsFiniteSet({"CHLD"})
      BY FS_Singleton
    <3>2. Signals = ({"INT"} \cup {"TSTP"}) \cup {"CHLD"}
      BY DEF Signals
    <3> QED BY <3>1, <3>2, FS_Union
  <2>2. IsFiniteSet(Active)
    BY <2>1, FS_Subset DEF Active
  <2> QED BY <2>2, FS_CardinalityType
<1>2. TypeOK'
  BY <1>1 DEF TypeOK, JobListTypeOK, HandlerPoints
<1>3. (PidListedOnce /\ EntriesOK /\ HeldSlotOK)'
  BY DEF PidListedOnce, EntriesOK, HeldSlotOK
<1>4. HandlersOK'
  BY <1>1 DEF HandlersOK, TypeOK, Signals
<1>5. EvalOK'
  BY DEF EvalOK, TypeOK, Signals, Listed
<1>6. hpc[s] = "idle" /\ hpc'[s] \in {"wait", "find"} /\ \A t \in Signals : t # s => hpc'[t] = hpc[t]
  BY DEF HandlersOK, TypeOK
<1>7. (NoStaleEntry /\ ForegroundAwaited)'
  BY <1>6 DEF NoStaleEntry, ForegroundAwaited, Reaping, Signals
<1>8. (ShownStoppedIsStopped /\ ForwardedToForegroundOnly)'
  BY <1>6 DEF ShownStoppedIsStopped, ForwardedToForegroundOnly, Reaping, Signals
<1> QED BY <1>2, <1>3, <1>4, <1>5, <1>7, <1>8

LEMMA WaitpidZombieIInv == ASSUME IInv, WaitpidZombie PROVE IInv'
<1> USE DEF IInv, Alive, Exits, WaitpidZombie, HandlerAt, Goto, shell
<1> PICK p \in Pids : /\ proc[p] = "zombie"
                      /\ proc' = [proc EXCEPT ![p] = "free"]
                      /\ doomed' = doomed \ {p}
                      /\ hpc' = [hpc EXCEPT !["CHLD"] = "reap"]
                      /\ hpid' = [hpid EXCEPT !["CHLD"] = p]
                      /\ depth' = depth
  OBVIOUS
<1>1. TypeOK'
  BY DEF TypeOK, JobListTypeOK, HandlerPoints, ProcStates, Signals
<1>2. (PidListedOnce /\ EntriesOK /\ HeldSlotOK)'
  BY DEF PidListedOnce, EntriesOK, HeldSlotOK
<1>3. HandlersOK'
  BY DEF HandlersOK, TypeOK, Signals
<1>4. EvalOK'
  BY DEF EvalOK, TypeOK, Signals, Listed
<1>5. Reaping(p)' /\ ~\E q \in Pids : Reaping(q)
  BY DEF Reaping, TypeOK, Signals
<1>6. (NoStaleEntry /\ ForegroundAwaited)'
  BY <1>5 DEF NoStaleEntry, ForegroundAwaited, TypeOK, JobListTypeOK, Job
<1>7. ShownStoppedIsStopped'
  BY <1>5 DEF ShownStoppedIsStopped, TypeOK, JobListTypeOK, Job
<1>8. ForwardedToForegroundOnly'
  BY DEF ForwardedToForegroundOnly, TypeOK, Signals
<1> QED BY <1>1, <1>2, <1>3, <1>4, <1>6, <1>7, <1>8

LEMMA WaitpidStoppedIInv == ASSUME IInv, WaitpidStopped PROVE IInv'
<1> USE DEF IInv, Alive, Exits, WaitpidStopped, HandlerAt, Goto, shell
<1> PICK p \in Pids : /\ proc[p] = "stopping"
                      /\ proc' = [proc EXCEPT ![p] = "stopped"]
                      /\ hpc' = [hpc EXCEPT !["CHLD"] = "stop"]
                      /\ hpid' = [hpid EXCEPT !["CHLD"] = p]
                      /\ depth' = depth
  OBVIOUS
<1>1. TypeOK'
  BY DEF TypeOK, JobListTypeOK, HandlerPoints, ProcStates, Signals
<1>2. (PidListedOnce /\ EntriesOK /\ HeldSlotOK)'
  BY DEF PidListedOnce, EntriesOK, HeldSlotOK
<1>3. HandlersOK'
  BY DEF HandlersOK, TypeOK, Signals
<1>4. EvalOK'
  BY DEF EvalOK, TypeOK, Signals, Listed
<1>5. ~\E q \in Pids : Reaping(q)
  BY DEF Reaping
<1>6. (NoStaleEntry /\ ForegroundAwaited)'
  BY <1>5 DEF NoStaleEntry, ForegroundAwaited, TypeOK, JobListTypeOK, Job
<1>7. ShownStoppedIsStopped'
  BY <1>5 DEF ShownStoppedIsStopped, TypeOK, JobListTypeOK, Job
<1>8. ForwardedToForegroundOnly'
  BY DEF ForwardedToForegroundOnly, TypeOK, Signals
<1> QED BY <1>1, <1>2, <1>3, <1>4, <1>6, <1>7, <1>8

\* A handler returns; no property depends on it but the handlers' own.
LEMMA ReturnIInv ==
    ASSUME IInv, NEW s \in Signals, Alive, ~(s = "CHLD" /\ hpc[s] = "reap"), Return(s),
           UNCHANGED <<jobs, nextjid, shell, pending, kernel>>
    PROVE  IInv'
<1> USE DEF IInv, Alive, Exits, Return, shell, kernel
<1>1. TypeOK'
  BY DEF TypeOK, JobListTypeOK, HandlerPoints
<1>2. (PidListedOnce /\ EntriesOK /\ HeldSlotOK)'
  BY DEF PidListedOnce, EntriesOK, HeldSlotOK
<1>3. HandlersOK'
  BY DEF HandlersOK, TypeOK, Signals
<1>4. EvalOK'
  BY DEF EvalOK, TypeOK, Signals, Listed
<1>5. \A q \in Pids : Reaping(q) => Reaping(q)'
  BY DEF Reaping, TypeOK, Signals
<1>6. (NoStaleEntry /\ ForegroundAwaited)'
  BY <1>5 DEF NoStaleEntry, ForegroundAwaited, TypeOK, JobListTypeOK, Job
<1>7. ShownStoppedIsStopped'
  BY <1>5 DEF ShownStoppedIsStopped, TypeOK, JobListTypeOK, Job
<1>8. ForwardedToForegroundOnly'
  BY DEF ForwardedToForegroundOnly, TypeOK, Signals
<1> QED BY <1>1, <1>2, <1>3, <1>4, <1>6, <1>7, <1>8

LEMMA ReapJobIInv == ASSUME IInv, ReapJob PROVE IInv'
<1> USE NoPidAssumption DEF IInv, Alive, Exits, ReapJob, NextWaitpid, HandlerAt, Goto, shell, kernel
<1> DEFINE p == hpid["CHLD"]
<1>1. p \in Pids /\ Reaping(p)
  BY DEF HandlersOK, Reaping, Signals
<1>2. JobListTypeOK'
  BY <1>1, DeletejobEffect DEF TypeOK
<1>3. \/ UNCHANGED jobs /\ ~Listed(p)
      \/ \E k \in Slots : jobs[k].pid = p /\ jobs' = [jobs EXCEPT ![k] = ClearedJob]
  BY <1>1, DeletejobEffect DEF TypeOK
<1>4. \A i \in Slots :
        \/ jobs'[i] = jobs[i] /\ jobs[i].pid # p
        \/ jobs[i].pid = p /\ jobs'[i].pid = NoPid /\ jobs'[i].jid = 0 /\ jobs'[i].state = "UNDEF"
  BY <1>1, <1>3 DEF TypeOK, JobListTypeOK, ClearedJob, Listed, PidListedOnce
<1>5. TypeOK'
  BY <1>2 DEF TypeOK, HandlerPoints, Signals
<1>6. (PidListedOnce /\ EntriesOK)'
  BY <1>4 DEF PidListedOnce, EntriesOK
<1>7. HandlersOK'
  BY DEF HandlersOK, TypeOK, Signals
<1>8. (EvalOK /\ HeldSlotOK)'
  <2>1. pc \notin {"fork", "addjob", "addstate", "unblock"}
    BY DEF EvalOK
  <2> QED BY <1>4, <2>1 DEF EvalOK, HeldSlotOK
<1>9. \A q \in Pids : Reaping(q) => q = p
  BY DEF Reaping
<1>10. (NoStaleEntry /\ ForegroundAwaited)'
  BY <1>4, <1>9 DEF NoStaleEntry, ForegroundAwaited, TypeOK, JobListTypeOK, Job
<1>11. ShownStoppedIsStopped'
  BY <1>4, <1>9 DEF ShownStoppedIsStopped, TypeOK, JobListTypeOK, Job
<1>12. ForwardedToForegroundOnly'
  <2>1. \A s \in {"INT", "TSTP"} : hpc'[s] = hpc[s] /\ hpid'[s] = hpid[s] /\ (hpc[s] = "kill" => hpid[s] \in Pids)
    BY DEF HandlersOK, TypeOK, Signals
  <2>2. pc # "addstate"
    BY DEF EvalOK
  <2>3. \A q \in Pids : Background(q)' => Background(q) /\ ~BeingAdded(q)
    BY <1>4, <2>2
  <2> HIDE DEF Background, BeingAdded
  <2> QED BY <2>1, <2>3 DEF ForwardedToForegroundOnly
<1> QED BY <1>5, <1>6, <1>7, <1>8, <1>10, <1>11, <1>12

LEMMA StopJobIInv == ASSUME IInv, StopJob PROVE IInv'
<1> USE NoPidAssumption DEF IInv, Alive, Exits, StopJob, NextWaitpid, HandlerAt, Goto, shell, kernel
<1> DEFINE p == hpid["CHLD"]
           k == getjobpid(p)
<1>1. /\ p \in Pids /\ ~\E q \in Pids : Reaping(q)
      /\ proc[p] \in {"stopped", "zombie"} \/ (proc[p] # "free" /\ p \in resumed)
  BY DEF HandlersOK, Reaping, Signals
<1>2. k \in Slots /\ jobs[k].pid = p
  BY <1>1, GetjobpidFindsSlot
<1>3. /\ JobListTypeOK'
      /\ jobs'[k].state = "ST"
      /\ \A i \in Slots : jobs'[i].pid = jobs[i].pid /\ jobs'[i].jid = jobs[i].jid
      /\ \A i \in Slots : i # k => jobs'[i] = jobs[i]
  BY <1>2, SetstateEffect DEF TypeOK, JobStates
<1> HIDE DEF k
<1>4. TypeOK'
  BY <1>3 DEF TypeOK, HandlerPoints, Signals
<1>5. (PidListedOnce /\ EntriesOK)'
  BY <1>1, <1>2, <1>3 DEF PidListedOnce, EntriesOK
<1>6. HandlersOK'
  BY DEF HandlersOK, TypeOK, Signals
<1>7. (EvalOK /\ HeldSlotOK)'
  <2>1. pc \notin {"fork", "addjob", "addstate", "unblock"}
    BY DEF EvalOK
  <2> QED BY <1>3, <2>1 DEF EvalOK, HeldSlotOK
<1>8. (NoStaleEntry /\ ForegroundAwaited)'
  BY <1>1, <1>2, <1>3 DEF NoStaleEntry, ForegroundAwaited, TypeOK, JobListTypeOK, Job
<1>9. ShownStoppedIsStopped'
  BY <1>1, <1>2, <1>3 DEF ShownStoppedIsStopped, TypeOK, JobListTypeOK, Job
<1>10. ForwardedToForegroundOnly'
  <2>1. \A s \in {"INT", "TSTP"} : hpc'[s] = hpc[s] /\ hpid'[s] = hpid[s]
    BY DEF TypeOK, Signals
  <2>2. pc # "addstate" /\ \A i \in Slots : jobs'[i].state = "BG" => jobs[i].state = "BG"
    BY <1>3 DEF EvalOK
  <2>3. \A q : Background(q)' => Background(q) /\ ~BeingAdded(q)
    BY <1>3, <2>2
  <2> QED BY <2>1, <2>3 DEF ForwardedToForegroundOnly
<1> QED BY <1>4, <1>5, <1>6, <1>7, <1>8, <1>9, <1>10

LEMMA SigchldStepIInv == ASSUME IInv, SigchldStep PROVE IInv'
<1>1. CASE WaitpidNone \/ LostTrack
  BY <1>1, ReturnIInv DEF WaitpidNone, LostTrack, HandlerAt, Signals
<1> QED BY <1>1, WaitpidZombieIInv, WaitpidStoppedIInv, ReapJobIInv, StopJobIInv DEF SigchldStep

LEMMA FindForegroundIInv == ASSUME IInv, NEW s \in {"INT", "TSTP"}, FindForeground(s) PROVE IInv'
<1> USE NoPidAssumption DEF IInv, Alive, Exits, FindForeground, HandlerAt
<1>1. CASE fgpid = NoPid
  BY <1>1, ReturnIInv DEF Signals
<1>2. CASE fgpid # NoPid
  <2> USE DEF Goto, shell, kernel
  <2>1. PICK k \in Slots : jobs[k].state = "FG" /\ jobs[k].pid = fgpid
    BY <1>2, FgpidIsForeground
  <2>2. fgpid \in Pids
    BY <1>2, <2>1 DEF TypeOK, JobListTypeOK, Job
  <2>3. /\ hpc' = [hpc EXCEPT ![s] = "kill"]
        /\ hpid' = [hpid EXCEPT ![s] = fgpid]
        /\ depth' = depth
    BY <1>2
  <2>4. TypeOK'
    BY <2>2, <2>3 DEF TypeOK, JobListTypeOK, HandlerPoints
  <2>5. (PidListedOnce /\ EntriesOK /\ HeldSlotOK)'
    BY DEF PidListedOnce, EntriesOK, HeldSlotOK
  <2>6. HandlersOK'
    BY <2>2, <2>3 DEF HandlersOK, TypeOK, Signals
  <2>7. EvalOK'
    BY <2>3 DEF EvalOK, TypeOK, Signals, Listed
  <2>8. \A q \in Pids : Reaping(q) => Reaping(q)'
    BY <2>3 DEF Reaping, TypeOK, Signals
  <2>9. (NoStaleEntry /\ ForegroundAwaited)'
    BY <2>8 DEF NoStaleEntry, ForegroundAwaited, TypeOK, JobListTypeOK, Job
  <2>10. ShownStoppedIsStopped'
    BY <2>8 DEF ShownStoppedIsStopped, TypeOK, JobListTypeOK, Job
  <2>11. ForwardedToForegroundOnly'
    <3>1. \A i \in Slots : jobs[i].pid = fgpid => i = k
      BY <1>2, <2>1 DEF PidListedOnce
    <3>2. Background(fgpid) =>
            s = "TSTP" /\ BeingAdded(fgpid) /\ jobs[arg.slot].state = "FG"
      <4>1. CASE BeingAdded(fgpid)
        <5>1. s = "TSTP" /\ arg.slot = k
          BY <3>1, <4>1 DEF EvalOK
        <5> QED BY <2>1, <4>1, <5>1
      <4>2. CASE ~BeingAdded(fgpid)
        BY <2>1, <3>1, <4>2
      <4> QED BY <4>1, <4>2
    <3>3. \A t \in {"INT", "TSTP"} :
            \/ t = s /\ hpid'[t] = fgpid
            \/ hpc'[t] = hpc[t] /\ hpid'[t] = hpid[t]
      BY <2>3 DEF TypeOK, Signals
    <3> HIDE DEF Background, BeingAdded
    <3>4. \A q : (Background(q)' <=> Background(q)) /\ (BeingAdded(q)' <=> BeingAdded(q))
      BY DEF Background, BeingAdded
    <3>5. jobs' = jobs /\ arg' = arg
      OBVIOUS
    <3> QED BY <3>2, <3>3, <3>4, <3>5 DEF ForwardedToForegroundOnly
  <2> QED BY <2>4, <2>5, <2>6, <2>7, <2>9, <2>10, <2>11
<1> QED BY <1>1, <1>2

LEMMA ForwardSignalIInv == ASSUME IInv, NEW s \in {"INT", "TSTP"}, ForwardSignal(s) PROVE IInv'
<1> USE NoPidAssumption DEF IInv, Alive, Exits, ForwardSignal, HandlerAt, Return, shell
<1> DEFINE p == hpid[s]
<1>1. s \in Signals /\ p \in Pids \cup {NoPid}
  BY DEF TypeOK, Signals
<1>2. /\ proc' \in [Pids -> ProcStates]
      /\ doomed' \subseteq Pids
      /\ pending' \subseteq Signals
      /\ \A q \in Pids : proc'[q] = "free" <=> proc[q] = "free"
      /\ \A q \in Pids : proc[q] \in {"stopped", "zombie"} => proc'[q] = proc[q]
  BY <1>1, SendToGroupEffect
<1>3. TypeOK'
  BY <1>1, <1>2 DEF TypeOK, JobListTypeOK, HandlerPoints
<1>4. (PidListedOnce /\ EntriesOK /\ HeldSlotOK)'
  BY DEF PidListedOnce, EntriesOK, HeldSlotOK
<1>5. HandlersOK'
  BY <1>2 DEF HandlersOK, TypeOK, Signals
<1>6. EvalOK'
  BY <1>2 DEF EvalOK, TypeOK, Signals, Listed
<1>7. \A q \in Pids : Reaping(q) => Reaping(q)'
  BY DEF Reaping, TypeOK, Signals
<1>8. (NoStaleEntry /\ ForegroundAwaited)'
  BY <1>2, <1>7 DEF NoStaleEntry, ForegroundAwaited, TypeOK, JobListTypeOK, Job
<1>9. ShownStoppedIsStopped'
  BY <1>2, <1>7 DEF ShownStoppedIsStopped, TypeOK, JobListTypeOK, Job
<1>10. ForwardedToForegroundOnly'
  BY DEF ForwardedToForegroundOnly, TypeOK, Signals
<1> QED BY <1>3, <1>4, <1>5, <1>6, <1>8, <1>9, <1>10

LEMMA ForwardStepIInv == ASSUME IInv, NEW s \in {"INT", "TSTP"}, ForwardStep(s) PROVE IInv'
<1>1. CASE ForwardFails(s)
  BY <1>1, ExitIInv DEF ForwardFails, Exits
<1> QED BY <1>1, FindForegroundIInv, ForwardSignalIInv DEF ForwardStep

-----------------------------------------------------------------------------
(* The children *)

\* A child may go from one living state to another, stop, or die; it becomes
\* neither free nor anything else once it is dead.
LEMMA ChildStepIInv ==
    ASSUME IInv, NEW p \in Pids,
           ChildAction(p) /\ ~ChildContinues(p)
    PROVE  IInv'
<1> USE DEF IInv, Exits, shell, handlers
<1>1. /\ UNCHANGED <<jobs, nextjid, pc, arg, blocked, hpc, hpid, depth, doomed, resumed>>
      /\ \E st \in ProcStates \ {"free"} :
            /\ proc' = [proc EXCEPT ![p] = st]
            /\ proc[p] \notin {"free", "zombie"}
            /\ proc[p] = "stopped" => st = "zombie"
      /\ pending' \in {pending, pending \cup {"CHLD"}}
  BY DEF ChildAction, Setpgid, Execve, CommandNotFound, ChildEnds, ChildStops,
         ChildStep, ChildQuietStep, BecomesOf, ProcStates, StopStates
<1>2. TypeOK'
  BY <1>1 DEF TypeOK, JobListTypeOK, Signals
<1>3. (PidListedOnce /\ EntriesOK /\ HeldSlotOK)'
  BY <1>1 DEF PidListedOnce, EntriesOK, HeldSlotOK
<1>4. \A q \in Pids : /\ proc'[q] = "free" <=> proc[q] = "free"
                      /\ proc[q] \in {"stopped", "zombie"} => proc'[q] \in {"stopped", "zombie"}
  BY <1>1 DEF TypeOK
<1>5. (HandlersOK /\ EvalOK)'
  BY <1>1, <1>4 DEF HandlersOK, EvalOK, Signals, Listed
<1>6. (NoStaleEntry /\ ForegroundAwaited)'
  BY <1>1, <1>4 DEF NoStaleEntry, ForegroundAwaited, Reaping, TypeOK, JobListTypeOK, Job
<1>7. ShownStoppedIsStopped'
  BY <1>1, <1>4 DEF ShownStoppedIsStopped, Reaping, TypeOK, JobListTypeOK, Job
<1>8. ForwardedToForegroundOnly'
  BY <1>1 DEF ForwardedToForegroundOnly
<1> QED BY <1>2, <1>3, <1>5, <1>6, <1>7, <1>8

\* A child that another process continues is remembered in resumed.
LEMMA ChildContinuesIInv == ASSUME IInv, NEW p \in Pids, ChildContinues(p) PROVE IInv'
<1> USE NoPidAssumption DEF IInv, Exits, ChildContinues, shell, handlers
<1>1. ~NoSuchGroup(p) /\ SendToGroup(p, "CONT") /\ p \in Pids \cup {NoPid}
  BY DEF NoSuchGroup, StopStates
<1>2. /\ proc' \in [Pids -> ProcStates]
      /\ doomed' \subseteq Pids
      /\ pending' \subseteq Signals
      /\ \A q \in Pids : q # p => proc'[q] = proc[q]
      /\ \A q \in Pids : proc'[q] = "free" <=> proc[q] = "free"
  BY <1>1, SendToGroupEffect
<1>3. resumed' = resumed \cup {p}
  OBVIOUS
<1>4. TypeOK'
  BY <1>2, <1>3 DEF TypeOK, JobListTypeOK
<1>5. (PidListedOnce /\ EntriesOK /\ HeldSlotOK)'
  BY DEF PidListedOnce, EntriesOK, HeldSlotOK
<1>6. HandlersOK'
  <2>1. hpc["CHLD"] \in {"reap", "stop"} => hpid["CHLD"] \in Pids
    BY DEF HandlersOK, Signals
  <2> QED BY <1>2, <1>3, <2>1 DEF HandlersOK, Signals
<1>7. EvalOK'
  BY <1>2 DEF EvalOK, Listed
<1>8. (NoStaleEntry /\ ForegroundAwaited)'
  BY <1>2 DEF NoStaleEntry, ForegroundAwaited, Reaping, TypeOK, JobListTypeOK, Job
<1>9. ShownStoppedIsStopped'
  BY <1>2, <1>3 DEF ShownStoppedIsStopped, Reaping, TypeOK, JobListTypeOK, Job
<1>10. ForwardedToForegroundOnly'
  BY DEF ForwardedToForegroundOnly
<1> QED BY <1>4, <1>5, <1>6, <1>7, <1>8, <1>9, <1>10

LEMMA ChildActionIInv == ASSUME IInv, NEW p \in Pids, ChildAction(p) PROVE IInv'
BY ChildStepIInv, ChildContinuesIInv

-----------------------------------------------------------------------------
LEMMA StutterIInv == ASSUME IInv, UNCHANGED vars PROVE IInv'
BY DEF vars, IInv, TypeOK, JobListTypeOK, PidListedOnce, EntriesOK, HandlersOK, EvalOK,
       HeldSlotOK, Listed, NoStaleEntry, ForegroundAwaited, ShownStoppedIsStopped,
       ForwardedToForegroundOnly, Reaping

LEMMA NextIInv == ASSUME IInv, [Next]_vars PROVE IInv'
<1>1. CASE MainStep
  BY <1>1, ForkIInv, AddJobIInv, AddJobFailsIInv, AddJobStateIInv, UnblockIInv, WaitfgLookupIInv, WaitfgReturnsIInv, ReadPidIInv,
     SendContIInv, SetStateIInv, ExitIInv DEF MainStep, ForkFails, SendContFails, Exits
<1>2. CASE Command
  BY <1>2, ReadJobIInv, ReadBgFgIInv, ExitIInv DEF Command, Quit, Exits
<1>3. CASE SigchldStep
  BY <1>3, SigchldStepIInv
<1>4. CASE \E s \in UserSignals : UserSignal(s)
  BY <1>4, UserSignalIInv
<1>5. CASE \E s \in {"INT", "TSTP"} : ForwardStep(s)
  BY <1>5, ForwardStepIInv
<1>6. CASE \E s \in Signals : Deliver(s)
  BY <1>6, DeliverIInv
<1>7. CASE \E p \in Pids : ChildAction(p)
  BY <1>7, ChildActionIInv
<1>8. CASE Sigquit
  BY <1>8, ExitIInv DEF Sigquit, Exits
<1>9. CASE UNCHANGED vars
  BY <1>9, StutterIInv
<1> QED BY <1>1, <1>2, <1>3, <1>4, <1>5, <1>6, <1>7, <1>8, <1>9 DEF Next

THEOREM InductiveInvariant == Spec => []IInv
<1>1. Init => IInv
  BY InitIInv
<1>2. IInv /\ [Next]_vars => IInv'
  BY NextIInv
<1> QED BY <1>1, <1>2, PTL DEF Spec

\* Every variable keeps to its type.
THEOREM TypeCorrect == Spec => []TypeOK
<1>1. IInv => TypeOK
  BY DEF IInv
<1> QED BY <1>1, InductiveInvariant, PTL

\* The job list never names a process that was reaped, outside the window in
\* which the SIGCHLD handler is about to delete it.
THEOREM NoStaleEntryHolds == Spec => []NoStaleEntry
<1>1. IInv => NoStaleEntry
  BY DEF IInv
<1> QED BY <1>1, InductiveInvariant, PTL

\* A listed foreground job is the one main waits for, or the one it is adding: there is
\* at most one.
THEOREM ForegroundAwaitedHolds == Spec => []ForegroundAwaited
<1>1. IInv => ForegroundAwaited
  BY DEF IInv
<1> QED BY <1>1, InductiveInvariant, PTL

\* No listed job is shown as stopped while its process runs, unless another process
\* continued it after its stop was reported.
THEOREM ShownStoppedIsStoppedHolds == Spec => []ShownStoppedIsStopped
<1>1. IInv => ShownStoppedIsStopped
  BY DEF IInv
<1> QED BY <1>1, InductiveInvariant, PTL

\* ctrl-c is never forwarded to a background job, and ctrl-z only to one that addjob has
\* stored the PID of in a slot where do_bgfg had left FG.
THEOREM ForwardedToForegroundOnlyHolds == Spec => []ForwardedToForegroundOnly
<1>1. IInv => ForwardedToForegroundOnly
  BY DEF IInv
<1> QED BY <1>1, InductiveInvariant, PTL

-----------------------------------------------------------------------------
(* With a slot for every process no child goes unlisted. *)

RoomForAll == IsFiniteSet(Pids) /\ Cardinality(Pids) <= MAXJOBS

\* While one process is not on the list, there is a free slot.
LEMMA RoomLeft ==
    ASSUME RoomForAll, JobListTypeOK, PidListedOnce, NEW p \in Pids, ~Listed(p)
    PROVE  FreeSlots # {}
<1> SUFFICES ASSUME FreeSlots = {} PROVE FALSE
  OBVIOUS
<1> DEFINE others == Pids \ {p}
           f == [i \in Slots |-> jobs[i].pid]
<1>1. IsFiniteSet(Slots) /\ Cardinality(Slots) = MAXJOBS
  BY MaxjobsAssumption, FS_Interval DEF Slots
<1>2. IsFiniteSet(others) /\ Cardinality(others) = Cardinality(Pids) - 1
  BY FS_RemoveElement DEF RoomForAll
<1>3. Cardinality(others) < Cardinality(Slots)
  <2>1. Cardinality(Pids) \in Nat /\ MAXJOBS \in Nat
    BY FS_CardinalityType, MaxjobsAssumption DEF RoomForAll
  <2> QED BY <1>1, <1>2, <2>1 DEF RoomForAll
<1>4. f \in [Slots -> others]
  BY DEF FreeSlots, Listed, JobListTypeOK, Job
<1> HIDE DEF others
<1>5. \E i, j \in Slots : i # j /\ f[i] = f[j]
  <2> HIDE DEF f
  <2> QED BY <1>1, <1>2, <1>3, <1>4, FS_PigeonHole
<1>6. \A i \in Slots : jobs[i].pid # NoPid
  BY DEF FreeSlots
<1> QED BY <1>5, <1>6 DEF PidListedOnce

\* A step that gives no process life, takes none off the list and does not leave addjob.
LEMMA StillListed ==
    ASSUME EveryChildListed,
           pc = "addjob" => pc' = "addjob" /\ arg'.pid = arg.pid,
           pc \in Exits => pc' \in Exits,
           \A p \in Pids : proc'[p] # "free" =>
                proc[p] # "free" /\ \A i \in Slots : jobs[i].pid = p => jobs'[i].pid = p
    PROVE  EveryChildListed'
BY DEF EveryChildListed, Listed, Exits

LEMMA AddJobListsChild == ASSUME IInv, EveryChildListed, AddJob PROVE EveryChildListed'
<1> USE DEF MainAt, kernel
<1>1. /\ arg.pid \in Pids /\ pc = "addjob" /\ pc' = "addstate" /\ proc' = proc
      /\ JobListTypeOK /\ FreeSlots # {} /\ addjobpid(arg.pid)
  BY DEF IInv, TypeOK, EvalOK, AddJob
<1> DEFINE k == First(FreeSlots)
<1>2. /\ k \in Slots
      /\ jobs[k].pid = NoPid
      /\ jobs' = [jobs EXCEPT ![k].pid = arg.pid]
  BY <1>1, AddjobpidEffect
<1> HIDE DEF k
<1>3. jobs'[k].pid = arg.pid /\ \A i \in Slots : i # k => jobs'[i] = jobs[i]
  BY <1>1, <1>2 DEF JobListTypeOK, Job
<1>4. ASSUME NEW p \in Pids, proc[p] # "free" PROVE Listed(p)'
  <2>1. CASE p = arg.pid
    BY <1>2, <1>3, <2>1 DEF Listed
  <2>2. CASE p # arg.pid
    <3>1. PICK i \in Slots : jobs[i].pid = p
      BY <1>1, <1>4, <2>2 DEF EveryChildListed, Listed, Exits
    <3>2. i # k
      BY <1>2, <1>4, <3>1, NoPidAssumption
    <3> QED BY <1>3, <3>1, <3>2 DEF Listed
  <2> QED BY <2>1, <2>2
<1> QED BY <1>1, <1>4 DEF EveryChildListed

\* The list is never full when eval has a child to add.
LEMMA AddJobSucceeds == ASSUME RoomForAll, IInv PROVE ~AddJobFails
<1> SUFFICES ASSUME AddJobFails PROVE FALSE
  OBVIOUS
<1>1. arg.pid \in Pids /\ ~Listed(arg.pid) /\ FreeSlots = {}
  BY DEF IInv, EvalOK, AddJobFails, MainAt
<1>2. JobListTypeOK /\ PidListedOnce
  BY DEF IInv, TypeOK
<1> QED BY <1>1, <1>2, RoomLeft

LEMMA ForkListsLater == ASSUME IInv, EveryChildListed, Fork PROVE EveryChildListed'
<1> USE DEF MainAt, handlers
<1>1. PICK p \in Pids : /\ proc' = [proc EXCEPT ![p] = "forked"]
                        /\ arg' = [arg EXCEPT !.pid = p]
                        /\ pc' = "addjob" /\ pc = "fork" /\ jobs' = jobs
  BY DEF Fork
<1>2. arg'.pid = p
  BY <1>1 DEF IInv, TypeOK, Args
<1>3. \A q \in Pids : q # p => proc'[q] = proc[q]
  BY <1>1 DEF IInv, TypeOK
<1> QED BY <1>1, <1>2, <1>3 DEF EveryChildListed, Listed, Exits

LEMMA ReapJobUnlistsTheDead == ASSUME IInv, EveryChildListed, ReapJob PROVE EveryChildListed'
<1> USE DEF HandlerAt, shell, kernel
<1> DEFINE p == hpid["CHLD"]
<1>1. p \in Pids /\ proc[p] = "free" /\ UNCHANGED <<pc, arg, proc>>
  BY DEF IInv, HandlersOK, ReapJob, Signals
<1>2. JobListTypeOK /\ deletejob(p)
  BY DEF IInv, TypeOK, ReapJob
<1>3. \/ UNCHANGED jobs
      \/ \E k \in Slots : jobs[k].pid = p /\ jobs' = [jobs EXCEPT ![k] = ClearedJob]
  BY <1>1, <1>2, DeletejobEffect
<1> HIDE DEF p
<1>4. \A i \in Slots : jobs[i].pid # p => jobs'[i].pid = jobs[i].pid
  BY <1>2, <1>3 DEF JobListTypeOK
<1>5. \A q \in Pids : proc'[q] # "free" => q # p
  BY <1>1
<1> QED BY <1>1, <1>4, <1>5, StillListed

LEMMA NextListsChildren ==
    ASSUME RoomForAll, IInv, EveryChildListed, [Next]_vars
    PROVE  EveryChildListed'
<1> USE DEF MainAt, handlers, shell, kernel
<1>1. ASSUME NEW code \in Exits, ExitShell(code) PROVE EveryChildListed'
  BY <1>1 DEF ExitShell, EveryChildListed, Exits
<1>2. CASE MainStep
  <2>1. CASE Unblock \/ WaitfgLookup \/ WaitfgReturns \/ ReadPid
    <3>1. UNCHANGED <<jobs, proc>> /\ pc \notin {"addjob"} \cup Exits
      BY <2>1 DEF Unblock, WaitfgLookup, WaitfgReturns, ReadPid, Exits
    <3> QED BY <3>1, StillListed
  <2>2. CASE SendCont
    <3>1. pc = "sendcont" /\ jobs' = jobs
      BY <2>2 DEF SendCont
    <3>2. \A q \in Pids : proc'[q] = "free" <=> proc[q] = "free"
      <4>1. TypeOK /\ arg.pid \in Pids \cup {NoPid}
        BY DEF IInv, TypeOK, Args
      <4> QED BY <2>2, <4>1, SendToGroupEffect DEF SendCont
    <3> QED BY <3>1, <3>2, StillListed DEF Exits
  <2>3. CASE SetState
    <3>1. pc = "setstate" /\ proc' = proc
      BY <2>3 DEF SetState
    <3>2. \A i \in Slots : jobs'[i].pid = jobs[i].pid
      <4>1. JobListTypeOK /\ arg.slot \in Slots /\ ResumedState \in JobStates
        BY <3>1 DEF IInv, TypeOK, HeldSlotOK, ResumedState, JobStates
      <4> QED BY <2>3, <4>1, SetstateEffect DEF SetState
    <3> QED BY <3>1, <3>2, StillListed DEF Exits
  <2>4. CASE ForkFails \/ SendContFails
    BY <1>1, <2>4 DEF ForkFails, SendContFails, Exits
  <2>5. CASE AddJobState
    <3>1. pc = "addstate" /\ proc' = proc
      BY <2>5 DEF AddJobState
    <3>2. \A i \in Slots : jobs'[i].pid = jobs[i].pid
      <4>1. JobListTypeOK /\ arg.slot \in Slots
        BY <3>1 DEF IInv, TypeOK, EvalOK
      <4>2. PICK st \in JobStates : addjobstate(arg.slot, st)
        BY <2>5 DEF AddJobState, JobStates
      <4> QED BY <4>1, <4>2, AddjobstateEffect
    <3> QED BY <3>1, <3>2, StillListed DEF Exits
  <2> QED BY <1>2, <2>1, <2>2, <2>3, <2>4, <2>5, AddJobListsChild, AddJobSucceeds, ForkListsLater
          DEF MainStep
<1>3. CASE Command
  <2>1. CASE ReadJob \/ ReadBgFg
    <3>1. UNCHANGED <<jobs, proc>> /\ pc = "prompt"
      BY <2>1 DEF ReadJob, ReadBgFg
    <3> QED BY <3>1, StillListed DEF Exits
  <2>2. CASE Quit
    BY <1>1, <2>2 DEF Quit, Exits
  <2> QED BY <1>3, <2>1, <2>2 DEF Command
<1>4. CASE SigchldStep
  <2>1. CASE WaitpidZombie
    <3>1. UNCHANGED <<jobs, pc, arg>> /\ \A q \in Pids : proc'[q] # "free" => proc[q] # "free"
      BY <2>1 DEF WaitpidZombie, IInv, TypeOK
    <3> QED BY <3>1, StillListed
  <2>2. CASE WaitpidStopped
    <3>1. UNCHANGED <<jobs, pc, arg>> /\ \A q \in Pids : proc'[q] # "free" => proc[q] # "free"
      BY <2>2 DEF WaitpidStopped, IInv, TypeOK
    <3> QED BY <3>1, StillListed
  <2>3. CASE WaitpidNone \/ LostTrack
    <3>1. UNCHANGED <<jobs, pc, arg, proc>>
      BY <2>3 DEF WaitpidNone, LostTrack
    <3> QED BY <3>1, StillListed
  <2>4. CASE StopJob
    <3>1. UNCHANGED <<pc, arg, proc>>
      BY <2>4 DEF StopJob
    <3>2. \A i \in Slots : jobs'[i].pid = jobs[i].pid
      <4>1. JobListTypeOK /\ hpid["CHLD"] \in Pids /\ Listed(hpid["CHLD"])
        BY <2>4 DEF StopJob, HandlerAt, IInv, TypeOK, HandlersOK, Signals
      <4>2. getjobpid(hpid["CHLD"]) \in Slots
        BY <4>1, GetjobpidFindsSlot, NoPidAssumption
      <4>3. setstate(getjobpid(hpid["CHLD"]), "ST") /\ "ST" \in JobStates
        BY <2>4 DEF StopJob, JobStates
      <4> QED BY <4>1, <4>2, <4>3, SetstateEffect
    <3> QED BY <3>1, <3>2, StillListed
  <2> QED BY <1>4, <2>1, <2>2, <2>3, <2>4, ReapJobUnlistsTheDead DEF SigchldStep
<1>5. CASE \E s \in UserSignals : UserSignal(s)
  <2>1. UNCHANGED <<jobs, pc, arg, proc>>
    BY <1>5 DEF UserSignal
  <2> QED BY <2>1, StillListed
<1>6. ASSUME NEW s \in {"INT", "TSTP"}, ForwardStep(s) PROVE EveryChildListed'
  <2>1. CASE FindForeground(s)
    <3>1. UNCHANGED <<jobs, pc, arg, proc>>
      BY <2>1 DEF FindForeground
    <3> QED BY <3>1, StillListed
  <2>2. CASE ForwardSignal(s)
    <3>1. UNCHANGED <<jobs, pc, arg>>
      BY <2>2 DEF ForwardSignal
    <3>2. \A q \in Pids : proc'[q] = "free" <=> proc[q] = "free"
      <4>1. TypeOK /\ hpid[s] \in Pids \cup {NoPid}
        BY DEF IInv, TypeOK, Signals
      <4> QED BY <2>2, <4>1, SendToGroupEffect DEF ForwardSignal
    <3> QED BY <3>1, <3>2, StillListed
  <2>3. CASE ForwardFails(s)
    BY <1>1, <2>3 DEF ForwardFails, Exits
  <2> QED BY <1>6, <2>1, <2>2, <2>3 DEF ForwardStep
<1>7. CASE \E s \in Signals : Deliver(s)
  <2>1. UNCHANGED <<jobs, pc, arg, proc>>
    BY <1>7 DEF Deliver
  <2> QED BY <2>1, StillListed
<1>8. ASSUME NEW p \in Pids, ChildAction(p) PROVE EveryChildListed'
  <2>1. /\ UNCHANGED <<jobs, pc, arg>>
        /\ \E st : proc' = [proc EXCEPT ![p] = st] /\ proc[p] # "free"
    BY <1>8, NoPidAssumption DEF ChildAction, ChildContinues, SendToGroup, Setpgid, Execve, CommandNotFound, ChildEnds, ChildStops,
                ChildStep, ChildQuietStep, BecomesOf, ProcStates, StopStates
  <2>2. \A q \in Pids : proc'[q] # "free" => proc[q] # "free"
    BY <2>1 DEF IInv, TypeOK
  <2> QED BY <2>1, <2>2, StillListed
<1>9. CASE Sigquit
  BY <1>1, <1>9 DEF Sigquit, Exits
<1>10. CASE UNCHANGED vars
  <2>1. UNCHANGED <<jobs, pc, arg, proc>>
    BY <1>10 DEF vars
  <2> QED BY <2>1, StillListed
<1> QED BY <1>2, <1>3, <1>4, <1>5, <1>6, <1>7, <1>8, <1>9, <1>10 DEF Next

\* With a slot for every process, each child that was not reaped is on the list as soon as
\* eval has had its turn: jobs, fg, bg, ctrl-c and ctrl-z reach all of them.
THEOREM EveryChildListedHolds == ASSUME RoomForAll PROVE Spec => []EveryChildListed
<1>1. Init => EveryChildListed
  BY DEF Init, EveryChildListed
<1>2. IInv /\ EveryChildListed /\ [Next]_vars => EveryChildListed'
  BY NextListsChildren
<1> QED BY <1>1, <1>2, InductiveInvariant, PTL DEF Spec

-----------------------------------------------------------------------------
(* tsh implements the abstract job control of JobControl: Spec => JC!Spec. *)

\* The status of a process is the state of the one slot that lists it, once addjob is
\* done with that slot.
LEMMA StatusOfSlot ==
    PidListedOnce => \A i \in Slots :
        (jobs[i].pid \in Pids /\ jobs[i].jid # 0) => listStatus[jobs[i].pid] = jobs[i].state
<1> SUFFICES ASSUME PidListedOnce, NEW i \in Slots, jobs[i].pid \in Pids, jobs[i].jid # 0
             PROVE  listStatus[jobs[i].pid] = jobs[i].state
  OBVIOUS
<1>1. jobs[i].pid # NoPid
  BY NoPidAssumption
<1>2. getjobpid(jobs[i].pid) = i
  BY <1>1, GetjobpidIsTheSlot
<1> QED BY <1>2 DEF listStatus

LEMMA StatusOfUnlisted ==
    \A p \in Pids : (\A i \in Slots : jobs[i].pid = p => jobs[i].jid = 0) => listStatus[p] = "none"
BY NoPidAssumption DEF listStatus

LEMMA StatusIsFunction == listStatus = [p \in Pids |-> listStatus[p]]
BY DEF listStatus

\* The three facts again, about the next state.
LEMMA StatusOfSlotNext ==
    (PidListedOnce => \A i \in Slots :
        (jobs[i].pid \in Pids /\ jobs[i].jid # 0) => listStatus[jobs[i].pid] = jobs[i].state)'
BY StatusOfSlot, PTL

LEMMA StatusOfUnlistedNext ==
    (\A p \in Pids : (\A i \in Slots : jobs[i].pid = p => jobs[i].jid = 0) => listStatus[p] = "none")'
BY StatusOfUnlisted, PTL

LEMMA StatusIsFunctionNext == (listStatus = [p \in Pids |-> listStatus[p]])'
BY StatusIsFunction, PTL

\* A step that keeps every entry but that of one process changes one status.
LEMMA OneStatusChanges ==
    ASSUME IInv, IInv', NEW p \in Pids, NEW st,
           listStatus'[p] = st,
           \A q \in Pids : q # p => listStatus'[q] = listStatus[q]
    PROVE  listStatus' = [listStatus EXCEPT ![p] = st]
BY StatusIsFunction, StatusIsFunctionNext

\* The list names the same processes in the same states: nothing to see.
LEMMA SameEntries ==
    ASSUME IInv, IInv', NEW q \in Pids,
           \A i \in Slots : jobs[i].pid = q <=> jobs'[i].pid = q,
           \A i \in Slots : jobs[i].pid = q =>
                jobs'[i].state = jobs[i].state /\ jobs'[i].jid = jobs[i].jid
    PROVE  listStatus'[q] = listStatus[q]
<1>1. CASE \E i \in Slots : jobs[i].pid = q /\ jobs[i].jid # 0
  <2>1. PICK i \in Slots : jobs[i].pid = q /\ jobs[i].jid # 0
    BY <1>1
  <2>2. listStatus[q] = jobs[i].state
    BY <2>1, StatusOfSlot DEF IInv
  <2>3. listStatus'[q] = jobs'[i].state
    BY <2>1, StatusOfSlotNext DEF IInv
  <2> QED BY <2>1, <2>2, <2>3
<1>2. CASE \A i \in Slots : jobs[i].pid = q => jobs[i].jid = 0
  <2>1. \A i \in Slots : jobs'[i].pid = q => jobs'[i].jid = 0
    BY <1>2
  <2> QED BY <1>2, <2>1, StatusOfUnlisted, StatusOfUnlistedNext
<1> QED BY <1>1, <1>2

LEMMA UnchangedJobs == ASSUME UNCHANGED jobs PROVE UNCHANGED listStatus
BY DEF listStatus, getjobpid, FirstOrNone

\* Only a process of the list has a status, and "FG" only the one awaited: while addjob
\* is at work it has none yet.
LEMMA NoForegroundWhen ==
    ASSUME IInv, pc \notin {"unblock", "waitfg", "waiting"} \cup Exits
    PROVE  JC!NoForeground
<1> SUFFICES ASSUME NEW p \in Pids, listStatus[p] = "FG" PROVE FALSE
  BY DEF JC!NoForeground
<1>1. PICK i \in Slots : jobs[i].pid = p /\ jobs[i].jid # 0
  BY StatusOfUnlisted
<1>2. jobs[i].state = "FG"
  BY <1>1, StatusOfSlot DEF IInv
<1>3. pc = "addstate" /\ jobs[i].pid = arg.pid
  BY <1>1, <1>2, NoPidAssumption DEF IInv, ForegroundAwaited, Exits
<1>4. i = arg.slot
  BY <1>1, <1>3, NoPidAssumption DEF IInv, EvalOK, PidListedOnce
<1> QED BY <1>1, <1>3, <1>4 DEF IInv, EvalOK

-----------------------------------------------------------------------------
\* Storing the PID shows nothing: the job has no ID yet.
LEMMA AddJobHidden == ASSUME IInv, IInv', AddJob PROVE UNCHANGED listStatus
<1> USE NoPidAssumption
<1> DEFINE k == First(FreeSlots)
<1>1. /\ arg.pid \in Pids /\ ~Listed(arg.pid)
      /\ JobListTypeOK /\ FreeSlots # {} /\ addjobpid(arg.pid)
  BY DEF IInv, TypeOK, EvalOK, AddJob, MainAt
<1>2. /\ k \in Slots
      /\ jobs[k].pid = NoPid
      /\ jobs' = [jobs EXCEPT ![k].pid = arg.pid]
  BY <1>1, AddjobpidEffect
<1> HIDE DEF k
<1>3. /\ jobs'[k].pid = arg.pid /\ jobs'[k].jid = 0
      /\ \A i \in Slots : i # k => jobs'[i] = jobs[i] /\ jobs[i].pid # arg.pid
  BY <1>1, <1>2 DEF IInv, EntriesOK, JobListTypeOK, Job, Listed
<1>4. \A q \in Pids : q # arg.pid => listStatus'[q] = listStatus[q]
  <2> SUFFICES ASSUME NEW q \in Pids, q # arg.pid PROVE listStatus'[q] = listStatus[q]
    OBVIOUS
  <2> QED BY <1>2, <1>3, SameEntries
<1>5. listStatus[arg.pid] = "none"
  BY <1>1, StatusOfUnlisted DEF Listed
<1>6. listStatus'[arg.pid] = "none"
  BY <1>1, <1>3, StatusOfUnlistedNext
<1>7. \A q \in Pids : listStatus'[q] = listStatus[q]
  BY <1>4, <1>5, <1>6
<1> QED BY <1>7, StatusIsFunction, StatusIsFunctionNext

LEMMA AddJobStateStarts == ASSUME IInv, IInv', AddJobState PROVE [JC!Next]_listStatus
<1> USE NoPidAssumption
<1> DEFINE k == arg.slot
           p == arg.pid
           st == IF arg.fg THEN "FG" ELSE "BG"
<1>1. /\ k \in Slots /\ jobs[k].pid = p /\ jobs[k].jid = 0
      /\ p \in Pids /\ pc = "addstate"
  BY DEF IInv, EvalOK, AddJobState, MainAt
<1>2. /\ jobs'[k].pid = p
      /\ jobs'[k].state = st
      /\ jobs'[k].jid # 0
      /\ \A i \in Slots : i # k => jobs'[i] = jobs[i]
  BY <1>1, AddjobstateEffect DEF IInv, TypeOK, JobStates, AddJobState
<1>3. \A i \in Slots : jobs[i].pid = p => i = k
  BY <1>1 DEF IInv, PidListedOnce
<1>4. listStatus'[p] = st
  BY <1>1, <1>2, StatusOfSlotNext DEF IInv
<1>5. \A q \in Pids : q # p => listStatus'[q] = listStatus[q]
  <2> SUFFICES ASSUME NEW q \in Pids, q # p PROVE listStatus'[q] = listStatus[q]
    OBVIOUS
  <2> QED BY <1>1, <1>2, SameEntries
<1>6. listStatus' = [listStatus EXCEPT ![p] = st]
  BY <1>1, <1>4, <1>5, OneStatusChanges
<1>7. listStatus[p] = "none"
  BY <1>1, <1>3, StatusOfUnlisted
<1>8. JC!NoForeground
  BY <1>1, NoForegroundWhen DEF Exits
<1>9. JC!Start(p)
  BY <1>6, <1>7, <1>8 DEF JC!Start, JC!Becomes
<1> QED BY <1>1, <1>9 DEF JC!Next

LEMMA SetStateResumes == ASSUME IInv, IInv', SetState PROVE [JC!Next]_listStatus
<1> USE NoPidAssumption
<1> DEFINE k == arg.slot
           p == jobs[k].pid
           st == IF arg.fg THEN "FG" ELSE "BG"
<1>1. k \in Slots /\ pc = "setstate"
  BY DEF IInv, HeldSlotOK, SetState, MainAt
<1>2. /\ jobs'[k].state = st
      /\ \A i \in Slots : jobs'[i].pid = jobs[i].pid /\ jobs'[i].jid = jobs[i].jid
      /\ \A i \in Slots : i # k => jobs'[i] = jobs[i]
  BY <1>1, SetstateEffect DEF IInv, TypeOK, JobStates, SetState, ResumedState
<1>3. \A q \in Pids : q # p => listStatus'[q] = listStatus[q]
  <2> SUFFICES ASSUME NEW q \in Pids, q # p PROVE listStatus'[q] = listStatus[q]
    OBVIOUS
  <2> QED BY <1>2, SameEntries
<1>4. CASE p = NoPid
  BY <1>3, <1>4, StatusIsFunction, StatusIsFunctionNext
<1>5. CASE p \in Pids
  <2>1. listStatus[p] = jobs[k].state /\ listStatus'[p] = st
    <3>1. jobs[k].jid # 0
      BY <1>1, <1>5 DEF IInv, EntriesOK, Exits
    <3> QED BY <1>1, <1>2, <1>5, <3>1, StatusOfSlot, StatusOfSlotNext DEF IInv
  <2>2. listStatus' = [listStatus EXCEPT ![p] = st]
    BY <1>3, <1>5, <2>1, OneStatusChanges
  <2>3. JC!NoForeground
    BY <1>1, NoForegroundWhen DEF Exits
  <2>4. listStatus[p] \in {"BG", "ST"}
    <3>1. jobs[k].state \in {"BG", "ST", "FG"}
      BY <1>1, <1>5 DEF IInv, EntriesOK, TypeOK, JobListTypeOK, Job, JobStates, Exits
    <3> QED BY <1>5, <2>1, <2>3, <3>1 DEF JC!NoForeground
  <2>5. CASE listStatus[p] = "BG" /\ st = "BG"
    BY <2>2, <2>5, StatusIsFunction
  <2>6. CASE ~(listStatus[p] = "BG" /\ st = "BG")
    <3>1. JC!Resume(p)
      BY <2>2, <2>3, <2>4, <2>6 DEF JC!Resume, JC!Becomes
    <3> QED BY <1>5, <3>1 DEF JC!Next
  <2> QED BY <2>5, <2>6
<1>6. p \in Pids \cup {NoPid}
  BY <1>1 DEF IInv, TypeOK, JobListTypeOK, Job
<1> QED BY <1>4, <1>5, <1>6

\* The SIGCHLD handler never sees a job that addjob is not done with.
LEMMA EntriesHaveIds ==
    ASSUME IInv, Alive, hpc["CHLD"] # "idle", NEW i \in Slots, jobs[i].pid \in Pids
    PROVE  jobs[i].jid # 0
BY NoPidAssumption DEF IInv, EvalOK, EntriesOK

LEMMA ReapJobEnds == ASSUME IInv, IInv', ReapJob PROVE [JC!Next]_listStatus
<1> USE NoPidAssumption
<1> PICK p \in Pids : p = hpid["CHLD"]
  BY DEF IInv, HandlersOK, Signals, ReapJob, HandlerAt
<1>1. JobListTypeOK /\ deletejob(p)
  BY DEF IInv, TypeOK, ReapJob
<1>2. CASE UNCHANGED jobs
  BY <1>2, UnchangedJobs
<1>3. CASE \E k \in Slots : jobs[k].pid = p /\ jobs' = [jobs EXCEPT ![k] = ClearedJob]
  <2> PICK k \in Slots : jobs[k].pid = p /\ jobs' = [jobs EXCEPT ![k] = ClearedJob]
    BY <1>3
  <2>1. jobs'[k].pid = NoPid /\ \A i \in Slots : i # k => jobs'[i] = jobs[i] /\ jobs[i].pid # p
    BY <1>1 DEF IInv, TypeOK, JobListTypeOK, ClearedJob, PidListedOnce
  <2>2. \A i \in Slots : jobs'[i].pid # p
    BY <1>1, <2>1
  <2>3. listStatus'[p] = "none"
    BY <1>1, <2>2, StatusOfUnlistedNext
  <2>4. \A q \in Pids : q # p => listStatus'[q] = listStatus[q]
    BY <2>1, SameEntries
  <2>5. listStatus' = [listStatus EXCEPT ![p] = "none"]
    BY <1>1, <2>3, <2>4, OneStatusChanges
  <2>6. listStatus[p] # "none"
    <3>1. listStatus[p] = jobs[k].state
      BY <1>1, EntriesHaveIds, StatusOfSlot DEF IInv, ReapJob, HandlerAt
    <3> QED BY <3>1 DEF IInv, TypeOK, JobListTypeOK, Job, JobStates
  <2>7. JC!End(p)
    BY <2>5, <2>6 DEF JC!End, JC!Becomes
  <2> QED BY <1>1, <2>7 DEF JC!Next
<1> QED BY <1>1, <1>2, <1>3, DeletejobEffect

LEMMA StopJobStops == ASSUME IInv, IInv', StopJob PROVE [JC!Next]_listStatus
<1> USE NoPidAssumption
<1> DEFINE p == hpid["CHLD"]
           k == getjobpid(p)
<1>1. p \in Pids
  BY DEF IInv, HandlersOK, Signals, StopJob, HandlerAt
<1>2. k \in Slots /\ jobs[k].pid = p
  BY <1>1, GetjobpidFindsSlot DEF StopJob
<1>3. /\ jobs'[k].state = "ST"
      /\ \A i \in Slots : jobs'[i].pid = jobs[i].pid /\ jobs'[i].jid = jobs[i].jid
      /\ \A i \in Slots : i # k => jobs'[i] = jobs[i]
  BY <1>2, SetstateEffect DEF IInv, TypeOK, JobStates, StopJob
<1> HIDE DEF k
<1>4. listStatus[p] = jobs[k].state /\ listStatus'[p] = "ST"
  <2>1. jobs[k].jid # 0
    BY <1>1, <1>2, EntriesHaveIds DEF StopJob, HandlerAt
  <2> QED BY <1>1, <1>2, <1>3, <2>1, StatusOfSlot, StatusOfSlotNext DEF IInv
<1>5. \A q \in Pids : q # p => listStatus'[q] = listStatus[q]
  <2> SUFFICES ASSUME NEW q \in Pids, q # p PROVE listStatus'[q] = listStatus[q]
    OBVIOUS
  <2> QED BY <1>2, <1>3, SameEntries
<1>6. listStatus' = [listStatus EXCEPT ![p] = "ST"]
  BY <1>1, <1>4, <1>5, OneStatusChanges
<1>7. jobs[k].state \in {"FG", "BG", "ST"}
  <2>1. jobs[k].jid # 0
    BY <1>1, <1>2, EntriesHaveIds DEF StopJob, HandlerAt
  <2> QED BY <1>1, <1>2, <2>1 DEF IInv, EntriesOK, TypeOK, JobListTypeOK, Job, JobStates
<1>8. CASE jobs[k].state = "ST"
  BY <1>4, <1>6, <1>8, StatusIsFunction
<1>9. CASE jobs[k].state # "ST"
  <2>1. JC!Stop(p)
    BY <1>4, <1>6, <1>7, <1>9 DEF JC!Stop, JC!Becomes
  <2> QED BY <1>1, <2>1 DEF JC!Next
<1> QED BY <1>8, <1>9

LEMMA StepRefines == ASSUME IInv, IInv', [Next]_vars PROVE [JC!Next]_listStatus
<1>1. CASE AddJob \/ AddJobState
  BY <1>1, AddJobHidden, AddJobStateStarts
<1>2. CASE SetState
  BY <1>2, SetStateResumes
<1>3. CASE ReapJob
  BY <1>3, ReapJobEnds
<1>4. CASE StopJob
  BY <1>4, StopJobStops
<1>5. CASE ~(AddJob \/ AddJobState \/ SetState \/ ReapJob \/ StopJob)
  <2>1. UNCHANGED jobs
    BY <1>5 DEF Next, vars, MainStep, Command, SigchldStep, ForwardStep, ChildAction, Fork,
       ForkFails, AddJobFails, ExitShell, Unblock, WaitfgLookup, WaitfgReturns, ReadPid, SendCont, SendContFails, ReadJob, ReadBgFg,
       Quit, Sigquit, UserSignal, Deliver, WaitpidZombie, WaitpidStopped, WaitpidNone, LostTrack,
       FindForeground, ForwardSignal, ForwardFails, Setpgid, Execve, CommandNotFound,
       ChildEnds, ChildStops, ChildContinues, ChildStep, ChildQuietStep
  <2> QED BY <2>1, UnchangedJobs
<1> QED BY <1>1, <1>2, <1>3, <1>4, <1>5

\* Whatever the interleaving of main, the handlers and the children, what the
\* job list shows is a behaviour of the abstract job control.
THEOREM TshImplementsJobControl == Spec => JobControlSpec
<1>1. Init => JC!Init
  <2> SUFFICES ASSUME Init PROVE JC!Init
    OBVIOUS
  <2>1. \A i \in Slots : jobs[i].jid = 0
    BY DEF Init, initjobs, ClearedJob
  <2> QED BY <2>1, StatusOfUnlisted, StatusIsFunction DEF JC!Init
<1>2. IInv /\ IInv' /\ [Next]_vars => [JC!Next]_listStatus
  BY StepRefines
<1> QED BY <1>1, <1>2, InductiveInvariant, PTL DEF Spec, JobControlSpec, JC!Spec
=============================================================================
