--------------------------------- MODULE Labs --------------------------------
(***************************************************************************)
(* The programs of the labs that do not meet, side by side: one of them is *)
(* started and runs, the others stay as they are.                          *)
(***************************************************************************)
EXTENDS Mdriver, Fcyc, Fit, Btest, TestTrans

CONSTANTS
    MAXLINE, MAXARGS, Scripts                                       \* of Parseline

VARIABLES
    lab,    \* the program that runs
    call,
    shell, typed, stdin, cmdline, shell_state, executed, children

P == INSTANCE Puzzles
S == INSTANCE Parseline

parse_vars == <<shell, typed, stdin, cmdline, shell_state, executed, children>>

vars == <<lab, cvars, fit_vars, mdriver_vars, bvars, call, trans_vars, parse_vars>>

Init ==
    /\ lab \in {"mdriver", "fcyc", "btest", "bits", "test-trans", "lab11", "shell"}
    /\ MdriverInit /\ FcycInit /\ BtestInit /\ P!Init /\ TransInit /\ FitInit
    /\ S!ParseInit

MdriverStep ==
    /\ lab = "mdriver" /\ MdriverNext
    /\ UNCHANGED <<lab, cvars, fit_vars, bvars, call, trans_vars, parse_vars>>
TimerStep ==
    /\ lab = "fcyc" /\ FcycNext
    /\ UNCHANGED <<lab, fit_vars, mdriver_vars, bvars, call, trans_vars, parse_vars>>
BtestStep ==
    /\ lab = "btest" /\ BtestNext
    /\ UNCHANGED <<lab, cvars, fit_vars, mdriver_vars, call, trans_vars, parse_vars>>
PuzzlesStep ==
    /\ lab = "bits" /\ P!Next
    /\ UNCHANGED <<lab, cvars, fit_vars, mdriver_vars, bvars, trans_vars, parse_vars>>
TestTransStep ==
    /\ lab = "test-trans" /\ TransNext
    /\ UNCHANGED <<lab, cvars, fit_vars, mdriver_vars, bvars, call, parse_vars>>
Lab11Step ==
    /\ lab = "lab11" /\ FitNext
    /\ UNCHANGED <<lab, cvars, mdriver_vars, bvars, call, trans_vars, parse_vars>>
ShellStep ==
    /\ lab = "shell" /\ S!ParseNext
    /\ UNCHANGED <<lab, cvars, fit_vars, mdriver_vars, bvars, call, trans_vars>>

Next ==
    \/ MdriverStep \/ TimerStep \/ BtestStep \/ PuzzlesStep \/ TestTransStep \/ Lab11Step
    \/ ShellStep

Spec == Init /\ [][Next]_vars /\ FcycFairness /\ BtestFairness

-----------------------------------------------------------------------------
(* The properties of the programs that are instances; the other modules state theirs.         *)

\* Every puzzle is solved, but for the doubles that are too large (Puzzles).
SolutionsRight == P!SolutionsRight

\* A shell runs what was typed, up to the first line it cannot take (Parseline).
TypedIsExecuted == S!TypedIsExecuted
=============================================================================
