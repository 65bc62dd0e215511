----------------------------- MODULE JobControl ------------------------------
(***************************************************************************)
(* What the job control of tsh promises its user, without processes,       *)
(* signals or slots: each job is foreground, background or stopped, and    *)
(* "at most 1 job can be in the FG state" (tsh.c, lines 28-36).            *)
(***************************************************************************)
CONSTANT Pids

VARIABLE status     \* the state of each job, "none" when it is not listed

Init == status = [p \in Pids |-> "none"]

NoForeground == \A p \in Pids : status[p] # "FG"

Becomes(p, st) ==
    /\ st = "FG" => NoForeground
    /\ status' = [status EXCEPT ![p] = st]

Start(p) == status[p] = "none" /\ \E st \in {"FG", "BG"} : Becomes(p, st)

\* ctrl-z, or a SIGTSTP from another process (trace16, mystop).
Stop(p) == status[p] \in {"FG", "BG"} /\ Becomes(p, "ST")

\* The fg and bg commands; the shell has no way from FG to BG.
Resume(p) ==
    \/ status[p] \in {"ST", "BG"} /\ Becomes(p, "FG")
    \/ status[p] = "ST" /\ Becomes(p, "BG")

End(p) == status[p] # "none" /\ Becomes(p, "none")

Next == \E p \in Pids : Start(p) \/ Stop(p) \/ Resume(p) \/ End(p)

Spec == Init /\ [][Next]_status
=============================================================================
