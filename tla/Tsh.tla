-------------------------------- MODULE Tsh ----------------------------------
(***************************************************************************)
(* The tiny shell (ASSN/ASSN5/tsh.c): the read/eval loop, the built-in     *)
(* commands fg and bg, and the three signal handlers that interrupt it,    *)
(* over a model of the kernel's processes and signals.                     *)
(*                                                                         *)
(* The shell is one thread.  Main runs only while no handler is active; a  *)
(* handler may be interrupted by the handler of another signal (sa_mask is *)
(* empty), never by its own.  A step is what runs between two accesses to  *)
(* state shared with a handler or with the kernel.                         *)
(***************************************************************************)
EXTENDS JobList

CONSTANTS
    UserSignals,    \* what the user and other processes send to the shell
    JidBound        \* bound of the model: no job is started above this ID

ASSUME JidBoundAssumption == JidBound \in Nat
ASSUME UserSignalsAssumption == UserSignals \subseteq {"INT", "TSTP"}

VARIABLES
    pc,         \* where main stands
    arg,        \* main's locals: [pid, slot, fg]
    blocked,    \* signals main has blocked with sigprocmask
    pending,    \* signals pending for the shell (one bit each)
    hpc,        \* where each handler stands, "idle" when it is not active
    hpid,       \* each handler's local pid
    depth,      \* place of each handler on the stack, 0 when not active
    proc,       \* kernel: state of each process
    doomed,     \* kernel: stopped processes with a SIGINT pending
    resumed     \* history: continued by another process, with no stop reported since

shell == <<pc, arg, blocked>>
handlers == <<hpc, hpid, depth>>
kernel == <<proc, doomed, resumed>>
vars == <<jobs, nextjid, pc, arg, blocked, pending, hpc, hpid, depth, proc, doomed,
          resumed>>

Signals == {"INT", "TSTP", "CHLD"}
Exits == {"quit", "fork_error", "kill_error", "sigquit"}
MainPoints == {"prompt", "fork", "addjob", "addstate", "unblock", "waitfg",
               "waiting", "readpid", "sendcont", "setstate"} \cup Exits
HandlerPoints == {"idle", "wait", "stop", "reap", "find", "kill"}

\* free: no such process or already reaped;  forked: still in the shell's
\* process group;  grouped: own group, the shell's handlers until execve;
\* stopping: stopped, waitpid has not reported it;  stopped: reported.
ProcStates == {"free", "forked", "grouped", "running", "stopping", "stopped", "zombie"}
StopStates == {"stopping", "stopped"}

Args == [pid : Pids \cup {NoPid}, slot : Slots \cup {NoSlot}, fg : BOOLEAN]
NoArg == [pid |-> NoPid, slot |-> NoSlot, fg |-> FALSE]

Init ==
    /\ initjobs
    /\ pc = "prompt"
    /\ arg = NoArg
    /\ blocked = {}
    /\ pending = {}
    /\ hpc = [s \in Signals |-> "idle"]
    /\ hpid = [s \in Signals |-> NoPid]
    /\ depth = [s \in Signals |-> 0]
    /\ proc = [p \in Pids |-> "free"]
    /\ doomed = {}
    /\ resumed = {}

Alive == pc \notin Exits

\* exit() or _exit(): the shell's locals, handlers and signals go with it.
ExitShell(code) ==
    /\ pc' = code
    /\ arg' = NoArg
    /\ blocked' = {}
    /\ pending' = {}
    /\ hpc' = [s \in Signals |-> "idle"]
    /\ hpid' = [s \in Signals |-> NoPid]
    /\ depth' = [s \in Signals |-> 0]
    /\ UNCHANGED <<jobs, nextjid, kernel>>

MainAt(l) == pc = l /\ \A s \in Signals : depth[s] = 0

-----------------------------------------------------------------------------
(* The kernel: kill(-pid, sig) and the end or stop of a process. *)

NoSuchGroup(p) == p # NoPid /\ proc[p] \in {"free", "forked"}

Reaction(p, sig) ==
    IF sig = "INT" /\ proc[p] = "running" THEN "zombie"
    ELSE IF sig = "TSTP" /\ proc[p] = "running" THEN "stopping"
    ELSE IF sig = "CONT" /\ proc[p] \in StopStates
         THEN IF p \in doomed THEN "zombie" ELSE "running"
    ELSE proc[p]

\* A change of a child's state makes SIGCHLD pending for the shell.
BecomesOf(p, st) ==
    /\ proc' = [proc EXCEPT ![p] = st]
    /\ pending' = IF st = proc[p] THEN pending ELSE pending \cup {"CHLD"}

\* kill(-0, sig) goes to the shell's own group and changes no job.
SendToGroup(p, sig) ==
    IF p = NoPid
    THEN UNCHANGED <<proc, pending, doomed>>
    ELSE /\ BecomesOf(p, Reaction(p, sig))
         /\ doomed' = IF sig = "INT" /\ proc[p] \in StopStates THEN doomed \cup {p}
                      ELSE IF sig = "CONT" THEN doomed \ {p}
                      ELSE doomed

-----------------------------------------------------------------------------
(* main, eval and waitfg *)

\* Variant: SIGCHLD left out of signalValueList.
EvalMaskWithoutSigchld == {"INT"}
EvalMask == {"INT", "CHLD"}

\* fgets, parseline, and the sigprocmask(SIG_BLOCK) of eval: SIGINT, SIGCHLD
\* and SIGSTOP are named; SIGSTOP cannot be blocked and SIGTSTP is not named.
ReadJob ==
    /\ MainAt("prompt")
    /\ nextjid <= JidBound
    /\ pc' = "fork"
    /\ blocked' = EvalMask
    /\ \E fg \in BOOLEAN : arg' = [NoArg EXCEPT !.fg = fg]
    /\ UNCHANGED <<jobs, nextjid, pending, handlers, kernel>>

Fork ==
    /\ MainAt("fork")
    /\ \E p \in Pids :
        /\ proc[p] = "free"
        /\ proc' = [proc EXCEPT ![p] = "forked"]
        /\ arg' = [arg EXCEPT !.pid = p]
        /\ pc' = "addjob"
    /\ UNCHANGED <<jobs, nextjid, blocked, pending, handlers, doomed, resumed>>

ForkFails ==
    /\ MainAt("fork")
    /\ ExitShell("fork_error")

\* addjob up to jobs[i].pid = pid.  SIGTSTP is not blocked: its handler may run
\* before the next store and finds the state that was left in the slot.
AddJob ==
    /\ MainAt("addjob")
    /\ FreeSlots # {}
    /\ addjobpid(arg.pid)
    /\ pc' = "addstate"
    /\ arg' = [arg EXCEPT !.slot = First(FreeSlots)]
    /\ UNCHANGED <<blocked, pending, handlers, kernel>>

\* A full list: "Tried to create too many jobs", and eval goes on.
AddJobFails ==
    /\ MainAt("addjob")
    /\ FreeSlots = {}
    /\ pc' = "unblock"
    /\ UNCHANGED <<jobs, nextjid, arg, blocked, pending, handlers, kernel>>

\* The rest of addjob, from jobs[i].state = state on.
AddJobState ==
    /\ MainAt("addstate")
    /\ addjobstate(arg.slot, IF arg.fg THEN "FG" ELSE "BG")
    /\ pc' = "unblock"
    /\ arg' = [arg EXCEPT !.slot = NoSlot]
    /\ UNCHANGED <<blocked, pending, handlers, kernel>>

Unblock ==
    /\ MainAt("unblock")
    /\ blocked' = {}
    /\ IF arg.fg
       THEN pc' = "waitfg" /\ UNCHANGED arg
       ELSE pc' = "prompt" /\ arg' = NoArg
    /\ UNCHANGED <<jobs, nextjid, pending, handlers, kernel>>

\* waitfg looks its job up once and then watches the slot.
WaitfgLookup ==
    /\ MainAt("waitfg")
    /\ IF getjobpid(arg.pid) = NoSlot
       THEN pc' = "prompt" /\ arg' = NoArg
       ELSE pc' = "waiting" /\ arg' = [arg EXCEPT !.slot = getjobpid(arg.pid)]
    /\ UNCHANGED <<jobs, nextjid, blocked, pending, handlers, kernel>>

\* Variants of waitfg's loop: one sleep and no loop; a loop that only a stop ends.
WaitOnce == TRUE
WaitForStop == jobs[arg.slot].state = "ST"
NoLongerForeground == jobs[arg.slot].state # "FG"

WaitfgReturns ==
    /\ MainAt("waiting")
    /\ NoLongerForeground
    /\ pc' = "prompt"
    /\ arg' = NoArg
    /\ UNCHANGED <<jobs, nextjid, blocked, pending, handlers, kernel>>

-----------------------------------------------------------------------------
(* do_bgfg: no signal is blocked while it runs *)

\* "fg" or "bg" with %jid or a PID; a lookup that fails changes nothing.
ReadBgFg ==
    /\ MainAt("prompt")
    /\ \E slot \in {getjobpid(p) : p \in Pids} \cup
                   {getjobjid(jobs[i].jid) : i \in Slots}, fg \in BOOLEAN :
        /\ slot # NoSlot
        /\ arg' = [pid |-> NoPid, slot |-> slot, fg |-> fg]
    /\ pc' = "readpid"
    /\ UNCHANGED <<jobs, nextjid, blocked, pending, handlers, kernel>>

\* pid = job->pid: 0 if the SIGCHLD handler has cleared the slot meanwhile.
ReadPid ==
    /\ MainAt("readpid")
    /\ arg' = [arg EXCEPT !.pid = jobs[arg.slot].pid]
    /\ pc' = "sendcont"
    /\ UNCHANGED <<jobs, nextjid, blocked, pending, handlers, kernel>>

SendCont ==
    /\ MainAt("sendcont")
    /\ ~NoSuchGroup(arg.pid)
    /\ pc' = "setstate"
    /\ SendToGroup(arg.pid, "CONT")
    /\ UNCHANGED <<jobs, nextjid, arg, blocked, handlers, resumed>>

\* kill fails with ESRCH: unix_error prints the message and exits.
SendContFails ==
    /\ MainAt("sendcont")
    /\ NoSuchGroup(arg.pid)
    /\ ExitShell("kill_error")

\* Variant: bg forgets to update the state.
ResumedOnlyByFg == IF arg.fg THEN "FG" ELSE jobs[arg.slot].state
ResumedState == IF arg.fg THEN "FG" ELSE "BG"

SetState ==
    /\ MainAt("setstate")
    /\ setstate(arg.slot, ResumedState)
    /\ IF arg.fg
       THEN pc' = "waitfg" /\ arg' = [arg EXCEPT !.slot = NoSlot]
       ELSE pc' = "prompt" /\ arg' = NoArg
    /\ UNCHANGED <<blocked, pending, handlers, kernel>>

\* The quit command, or end of file on the standard input.
Quit ==
    /\ MainAt("prompt")
    /\ ExitShell("quit")

-----------------------------------------------------------------------------
(* Signals and their handlers *)

\* ctrl-c or ctrl-z at the terminal, or a kill from another process.
UserSignal(s) ==
    /\ Alive
    /\ s \notin pending
    /\ pending' = pending \cup {s}
    /\ UNCHANGED <<jobs, nextjid, shell, handlers, kernel>>

\* sigquit_handler prints a line and exits, whatever it interrupts.
Sigquit ==
    /\ Alive
    /\ ExitShell("sigquit")

Active == {s \in Signals : depth[s] # 0}

Deliver(s) ==
    /\ Alive
    /\ s \in pending \ blocked
    /\ depth[s] = 0
    /\ pending' = pending \ {s}
    /\ depth' = [depth EXCEPT ![s] = Cardinality(Active) + 1]
    /\ hpc' = [hpc EXCEPT ![s] = IF s = "CHLD" THEN "wait" ELSE "find"]
    /\ UNCHANGED <<jobs, nextjid, shell, hpid, kernel>>

\* The handler of s is the one that runs, and stands at l.
HandlerAt(s, l) ==
    /\ Alive
    /\ depth[s] # 0
    /\ \A t \in Signals : depth[t] <= depth[s]
    /\ hpc[s] = l

Goto(s, l, p) ==
    /\ hpc' = [hpc EXCEPT ![s] = l]
    /\ hpid' = [hpid EXCEPT ![s] = p]
    /\ UNCHANGED depth

Return(s) ==
    /\ hpc' = [hpc EXCEPT ![s] = "idle"]
    /\ hpid' = [hpid EXCEPT ![s] = NoPid]
    /\ depth' = [depth EXCEPT ![s] = 0]

\* Variant of the handler's loop: an if where the code has a while.
NoMoreWaitpid == Return("CHLD")
NextWaitpid == Goto("CHLD", "wait", NoPid)

\* waitpid(-1, &status, WNOHANG | WUNTRACED) picks any child with a status to
\* report; with none it returns 0 or -1 and the handler's loop ends.  Without
\* WCONTINUED it never reports that a child was continued.
WaitpidZombie ==
    /\ HandlerAt("CHLD", "wait")
    /\ \E p \in Pids :
        /\ proc[p] = "zombie"
        /\ proc' = [proc EXCEPT ![p] = "free"]
        /\ doomed' = doomed \ {p}
        /\ resumed' = resumed \ {p}
        /\ Goto("CHLD", "reap", p)
    /\ UNCHANGED <<jobs, nextjid, shell, pending>>

WaitpidStopped ==
    /\ HandlerAt("CHLD", "wait")
    /\ \E p \in Pids :
        /\ proc[p] = "stopping"
        /\ proc' = [proc EXCEPT ![p] = "stopped"]
        /\ resumed' = resumed \ {p}
        /\ Goto("CHLD", "stop", p)
    /\ UNCHANGED <<jobs, nextjid, shell, pending, doomed>>

WaitpidNone ==
    /\ HandlerAt("CHLD", "wait")
    /\ \A p \in Pids : proc[p] \notin {"zombie", "stopping"}
    /\ Return("CHLD")
    /\ UNCHANGED <<jobs, nextjid, shell, pending, kernel>>

ReapJob ==
    /\ HandlerAt("CHLD", "reap")
    /\ deletejob(hpid["CHLD"])
    /\ NextWaitpid
    /\ UNCHANGED <<shell, pending, kernel>>

StopJob ==
    /\ HandlerAt("CHLD", "stop")
    /\ Listed(hpid["CHLD"])
    /\ setstate(getjobpid(hpid["CHLD"]), "ST")
    /\ NextWaitpid
    /\ UNCHANGED <<shell, pending, kernel>>

\* "Lost track of (%d)": the handler returns at once.
LostTrack ==
    /\ HandlerAt("CHLD", "stop")
    /\ ~Listed(hpid["CHLD"])
    /\ Return("CHLD")
    /\ UNCHANGED <<jobs, nextjid, shell, pending, kernel>>

\* sigint_handler and sigtstp_handler
FindForeground(s) ==
    /\ HandlerAt(s, "find")
    /\ IF fgpid = NoPid THEN Return(s) ELSE Goto(s, "kill", fgpid)
    /\ UNCHANGED <<jobs, nextjid, shell, pending, kernel>>

ForwardSignal(s) ==
    /\ HandlerAt(s, "kill")
    /\ ~NoSuchGroup(hpid[s])
    /\ SendToGroup(hpid[s], s)
    /\ Return(s)
    /\ UNCHANGED <<jobs, nextjid, shell, resumed>>

ForwardFails(s) ==
    /\ HandlerAt(s, "kill")
    /\ NoSuchGroup(hpid[s])
    /\ ExitShell("kill_error")

-----------------------------------------------------------------------------
(* The children *)

ChildStep(p, from, to) ==
    /\ Alive
    /\ proc[p] \in from
    /\ BecomesOf(p, to)
    /\ UNCHANGED <<jobs, nextjid, shell, handlers, doomed, resumed>>

\* setpgid and execve do not concern the parent: no SIGCHLD.
ChildQuietStep(p, from, to) ==
    /\ Alive
    /\ proc[p] = from
    /\ proc' = [proc EXCEPT ![p] = to]
    /\ UNCHANGED <<jobs, nextjid, shell, pending, handlers, doomed, resumed>>

Setpgid(p) == ChildQuietStep(p, "forked", "grouped")
Execve(p) == ChildQuietStep(p, "grouped", "running")
CommandNotFound(p) == ChildStep(p, {"grouped"}, "zombie")
\* The program exits, or a signal of another process ends or stops it.
ChildEnds(p) == ChildStep(p, {"running"} \cup StopStates, "zombie")
ChildStops(p) == ChildStep(p, {"running"}, "stopping")

\* Another process continues a stopped child: the kernel sends SIGCHLD, but
\* waitpid has nothing to report, and a stop not yet reported never will be.
ChildContinues(p) ==
    /\ Alive
    /\ proc[p] \in StopStates
    /\ SendToGroup(p, "CONT")
    /\ resumed' = resumed \cup {p}
    /\ UNCHANGED <<jobs, nextjid, shell, handlers>>

-----------------------------------------------------------------------------
MainStep ==
    \/ Fork \/ ForkFails \/ AddJob \/ AddJobFails \/ AddJobState \/ Unblock
    \/ WaitfgLookup \/ WaitfgReturns \/ ReadPid \/ SendCont \/ SendContFails \/ SetState

Command == ReadJob \/ ReadBgFg \/ Quit

SigchldStep ==
    WaitpidZombie \/ WaitpidStopped \/ WaitpidNone \/ ReapJob \/ StopJob \/ LostTrack

ForwardStep(s) == FindForeground(s) \/ ForwardSignal(s) \/ ForwardFails(s)

ChildAction(p) ==
    \/ Setpgid(p) \/ Execve(p) \/ CommandNotFound(p)
    \/ ChildEnds(p) \/ ChildStops(p) \/ ChildContinues(p)

Next ==
    \/ MainStep
    \/ Command
    \/ SigchldStep
    \/ \E s \in UserSignals : UserSignal(s)
    \/ \E s \in {"INT", "TSTP"} : ForwardStep(s)
    \/ \E s \in Signals : Deliver(s)
    \/ \E p \in Pids : ChildAction(p)
    \/ Sigquit

Spec == Init /\ [][Next]_vars

\* Code that can run runs again and again between signals, which arrive at a
\* finite rate, and the kernel delivers a pending signal that stays deliverable
\* or becomes so again and again.  Of users and programs one thing is assumed:
\* other processes continue a job only finitely often.  Without it the handler's
\* loop could report the stops of one child for ever and never reach another.
FinitelyOftenContinued == <>[][\A p \in Pids : ~ChildContinues(p)]_vars

Fairness ==
    /\ FinitelyOftenContinued
    /\ SF_vars(MainStep)
    /\ SF_vars(SigchldStep)
    /\ \A s \in {"INT", "TSTP"} : SF_vars(ForwardStep(s))
    /\ \A s \in Signals : SF_vars(Deliver(s))

FairSpec == Spec /\ Fairness
-----------------------------------------------------------------------------
(* Properties *)

TypeOK ==
    /\ JobListTypeOK
    /\ pc \in MainPoints
    /\ arg \in Args
    /\ blocked \subseteq Signals
    /\ pending \subseteq Signals
    /\ hpc \in [Signals -> HandlerPoints]
    /\ hpid \in [Signals -> Pids \cup {NoPid}]
    /\ depth \in [Signals -> Nat]
    /\ proc \in [Pids -> ProcStates]
    /\ doomed \subseteq Pids
    /\ resumed \subseteq Pids

\* Between waitpid's return and deletejob the handler holds a reaped PID.
Reaping(p) == hpc["CHLD"] = "reap" /\ hpid["CHLD"] = p

\* The list never names a process that is gone: addjob cannot run after the
\* job it adds was reaped, because eval blocks SIGCHLD from fork to addjob.
NoStaleEntry ==
    Alive => \A i \in Slots : jobs[i].pid # NoPid =>
        proc[jobs[i].pid] # "free" \/ Reaping(jobs[i].pid)

\* While the list has room for every child, each child that was not reaped is
\* on it, except between the fork and the addjob of eval.
EveryChildListed ==
    Alive => \A p \in Pids :
        proc[p] # "free" => Listed(p) \/ (arg.pid = p /\ pc = "addjob")

\* "At most 1 job can be in the FG state" (line 35), for the jobs of the list:
\* a listed foreground job is the one eval or do_bgfg is waiting for, or the one
\* addjob has stored the PID of in a slot where do_bgfg had left FG.
ForegroundAwaited ==
    Alive => \A i \in Slots : (jobs[i].pid # NoPid /\ jobs[i].state = "FG") =>
        /\ pc \in {"addstate", "unblock", "waitfg", "waiting"}
        /\ jobs[i].pid = arg.pid

\* A job listed as Stopped is stopped (or dead and not deleted yet).  Only two
\* may see otherwise: the fg or bg command that has just sent SIGCONT, and who
\* looks at a job that another process continued after its stop was reported.
ShownStoppedIsStopped ==
    Alive => \A i \in Slots : (jobs[i].pid # NoPid /\ jobs[i].state = "ST") =>
        \/ proc[jobs[i].pid] \in {"stopped", "zombie"}
        \/ Reaping(jobs[i].pid)
        \/ (pc = "setstate" /\ arg.slot = i)
        \/ jobs[i].pid \in resumed

\* addjob has stored the PID of the job, and neither its state nor its ID.
HalfAdded(i) == jobs[i].pid # NoPid /\ jobs[i].jid = 0
BeingAdded(p) == pc = "addstate" /\ arg.pid = p

Background(p) ==
    IF BeingAdded(p)
    THEN ~arg.fg
    ELSE \E i \in Slots : jobs[i].pid = p /\ jobs[i].state = "BG"

\* A handler never holds a background job as the target of ctrl-c or ctrl-z,
\* whatever other handlers ran since it looked the foreground job up: but for a
\* ctrl-z in the middle of addjob, in a slot where do_bgfg had left FG.
ForwardedToForegroundOnly ==
    \A s \in {"INT", "TSTP"} :
        (hpc[s] = "kill" /\ Background(hpid[s])) =>
            s = "TSTP" /\ BeingAdded(hpid[s]) /\ jobs[arg.slot].state = "FG"

\* What makes the properties above inductive.
EntriesOK ==
    \A i \in Slots :
        /\ jobs[i].pid = NoPid => jobs[i].jid = 0 /\ jobs[i].state # "ST"
        /\ HalfAdded(i) => ~Alive \/ (pc = "addstate" /\ arg.slot = i)
        /\ jobs[i].jid # 0 => jobs[i].state # "UNDEF"

HandlersOK ==
    /\ \A s \in Signals : hpc[s] = "idle" <=> depth[s] = 0
    /\ hpc["CHLD"] \in {"idle", "wait", "stop", "reap"}
    /\ \A s \in {"INT", "TSTP"} : hpc[s] \in {"idle", "find", "kill"}
    /\ \A s \in Signals : hpc[s] \in {"stop", "reap", "kill"} => hpid[s] \in Pids
    /\ hpc["CHLD"] = "reap" => proc[hpid["CHLD"]] = "free"
    /\ hpc["CHLD"] = "stop" =>
        \/ proc[hpid["CHLD"]] \in {"stopped", "zombie"}
        \/ proc[hpid["CHLD"]] # "free" /\ hpid["CHLD"] \in resumed

\* SIGINT and SIGCHLD stay blocked, and their handlers out, from before fork to
\* after addjob.
EvalOK ==
    /\ pc \in {"fork", "addjob", "addstate", "unblock"} =>
        \A s \in {"INT", "CHLD"} : s \in blocked /\ hpc[s] = "idle"
    /\ pc = "addjob" => /\ arg.pid \in Pids
                        /\ proc[arg.pid] # "free"
                        /\ ~Listed(arg.pid)
    /\ pc = "addstate" => /\ arg.slot \in Slots
                          /\ jobs[arg.slot].pid = arg.pid
                          /\ jobs[arg.slot].jid = 0
                          /\ arg.pid \in Pids
                          /\ proc[arg.pid] # "free"
    /\ pc = "unblock" => \A i \in Slots :
            (jobs[i].pid # NoPid /\ jobs[i].state = "FG") => arg.fg

\* The slot do_bgfg and waitfg hold is still their job's, or was cleared.
HeldSlotOK ==
    /\ pc \in {"readpid", "sendcont", "setstate", "waiting"} => arg.slot \in Slots
    /\ pc \in {"sendcont", "setstate", "waiting"} =>
        /\ jobs[arg.slot].pid \in {arg.pid, NoPid}
        /\ \A i \in Slots : (jobs[i].pid = arg.pid /\ arg.pid # NoPid) => i = arg.slot

IInv ==
    /\ TypeOK
    /\ PidListedOnce
    /\ EntriesOK
    /\ HandlersOK
    /\ EvalOK
    /\ HeldSlotOK
    /\ NoStaleEntry
    /\ ForegroundAwaited
    /\ ShownStoppedIsStopped
    /\ ForwardedToForegroundOnly

\* Every child that dies is reaped in the end, however many deaths share one
\* SIGCHLD, unless the shell exits first (sigchld_handler's loop).
EveryZombieReaped ==
    \A p \in Pids : (proc[p] = "zombie") ~> (proc[p] # "zombie" \/ ~Alive)

\* When the job main waits for has ended, waitfg returns to the prompt.
PromptComesBack ==
    \A p \in Pids :
        (pc = "waiting" /\ arg.pid = p /\ proc[p] \in {"zombie", "free"})
            ~> (pc # "waiting" \/ arg.pid # p)

\* What a user sees of the job list is the job control of JobControl: races
\* with the handlers never show a second foreground job, a transition that no
\* command or signal asks for, or a job in a state that is none of the three.
listStatus ==
    [p \in Pids |-> IF \E i \in Slots : jobs[i].pid = p /\ ~HalfAdded(i)
                    THEN jobs[getjobpid(p)].state ELSE "none"]
JC == INSTANCE JobControl WITH status <- listStatus
JobControlSpec == JC!Spec

\* "Return PID of current foreground job, 0 if no such job" (line 619): what the
\* comment says and the code does not keep.
FgpidFindsForeground ==
    \A i \in Slots : (jobs[i].pid # NoPid /\ jobs[i].state = "FG") => fgpid = jobs[i].pid
=============================================================================
