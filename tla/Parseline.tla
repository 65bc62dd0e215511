------------------------------ MODULE Parseline ------------------------------
(***************************************************************************)
(* What the two shells make of the text they are given: fgets, parseline   *)
(* and the part of eval that uses its result, of tsh (ASSN/ASSN5/tsh.c)    *)
(* and of labsh (Lab/LAB10/labsh.c).  A text is a sequence of characters.  *)
(* Tsh has what tsh does with a command; labsh forks and does not wait.    *)
(***************************************************************************)
EXTENDS Integers, SequencesExt, FiniteSetsExt

CONSTANTS
    MAXLINE,    \* size of the buffer of fgets
    MAXARGS,    \* size of argv
    Scripts     \* what is typed: [tsh, labsh -> set of sequences of lines]

VARIABLES
    shell,          \* "tsh" or "labsh"
    typed,          \* the lines typed
    stdin,          \* the characters that are left of them
    cmdline,        \* the line read
    shell_state,    \* "off", "reading", "evaluating", "closed", "failed"
    executed,       \* the commands given to fork, or run as a builtin: [argv, bg, rd_file]
    children        \* for each command of labsh: "forked", "terminal", "file" or "gone"

parse_vars == <<shell, typed, stdin, cmdline, shell_state, executed, children>>

-----------------------------------------------------------------------------
(* The lines typed: [lead, words, mode, tail, ended], a word being           *)
(* [text, quoted, gap].  In mode "bg" an & follows the words, in mode        *)
(* "redirect" a > and a name; tail is text after a quote that is not closed. *)

Spaces(n) == [k \in 1 .. n |-> " "]
Plain(text) == [text |-> text, quoted |-> FALSE, gap |-> 1]
TypedWords(line) ==
    line.words \o CASE line.mode = "fg" -> <<>>
                    [] line.mode = "bg" -> <<Plain(<<"&">>)>>
                    [] line.mode = "redirect" -> <<Plain(<<">">>), Plain(<<"f">>)>>
WordText(word) ==
    (IF word.quoted THEN <<"'">> \o word.text \o <<"'">> ELSE word.text) \o Spaces(word.gap)
LineText(line) ==
    Spaces(line.lead) \o FlattenSeq([k \in DOMAIN TypedWords(line) |-> WordText(TypedWords(line)[k])])
    \o line.tail \o (IF line.ended THEN <<"\n">> ELSE <<>>)

-----------------------------------------------------------------------------
(* fgets and parseline. *)

Newlines(stream) == {k \in DOMAIN stream : stream[k] = "\n"}
\* At most MAXLINE - 1 characters, up to the first newline.
fgets(stream) == SubSeq(stream, 1, Min(Newlines(stream) \cup {Len(stream), MAXLINE - 1}))
\* The end of the file is met in the search for a newline.
feof(stream) == Newlines(stream) = {} /\ Len(stream) < MAXLINE - 1

\* Variant: one space is skipped.
SkipSpace(buf, p) == IF p <= Len(buf) /\ buf[p] = " " THEN p + 1 ELSE p
\* The place of the first character from p on that is no space.
SkipSpaces(buf, p) == Min({q \in p .. Len(buf) + 1 : q = Len(buf) + 1 \/ buf[q] # " "})

\* The arguments from the character p of buf on.
ArgumentsOf(buf) ==
    LET Quoted(p) == p <= Len(buf) /\ buf[p] = "'"
        Start(p) == IF Quoted(p) THEN p + 1 ELSE p
        Delims(p) == {d \in Start(p) .. Len(buf) : buf[d] = IF Quoted(p) THEN "'" ELSE " "}
        From[p \in 1 .. Len(buf) + 1] ==
            LET word == SkipSpaces(buf, p)
            IN  IF Delims(word) = {} THEN <<>>
                ELSE <<SubSeq(buf, Start(word), Min(Delims(word)) - 1)>>
                     \o From[Min(Delims(word)) + 1]
    IN  From[1]

StartsWith(arg, char) == arg # <<>> /\ arg[1] = char

\* The last argument asks for the background, in tsh.
Background(args) == args # <<>> /\ StartsWith(args[Len(args)], "&")
\* The last but one asks for a redirection to the last one, in labsh.
Redirection(args) == Len(args) > 2 /\ StartsWith(args[Len(args) - 1], ">")

Command(argv, bg, rd_file) == [argv |-> argv, bg |-> bg, rd_file |-> rd_file]

\* The last character of the line, its newline, becomes a space.
parseline(line) ==
    LET args == ArgumentsOf(Append(Front(line), " "))
        n == Len(args)
    IN  IF shell = "tsh"
        THEN Command(IF Background(args) THEN Front(args) ELSE args, Background(args), <<>>)
        ELSE IF Redirection(args)
             THEN Command(SubSeq(args, 1, n - 2), FALSE, <<args[n]>>)
             ELSE Command(args, FALSE, <<>>)

\* More arguments than argv has room for, with the NULL at their end.
Overruns(line) == Len(ArgumentsOf(Append(Front(line), " "))) > MAXARGS - 1

-----------------------------------------------------------------------------

ParseInit ==
    /\ shell = "tsh" /\ typed = <<>> /\ stdin = <<>> /\ cmdline = <<>>
    /\ shell_state = "off" /\ executed = <<>> /\ children = <<>>

Start ==
    /\ shell_state = "off"
    /\ shell' \in {"tsh", "labsh"}
    /\ typed' \in Scripts[shell']
    /\ stdin' = FlattenSeq([k \in DOMAIN typed' |-> LineText(typed'[k])])
    /\ shell_state' = "reading"
    /\ UNCHANGED <<cmdline, executed, children>>

Read ==
    /\ shell_state = "reading"
    /\ shell_state' = IF feof(stdin) THEN "closed" ELSE "evaluating"
    /\ cmdline' = fgets(stdin)
    /\ stdin' = SubSeq(stdin, Len(cmdline') + 1, Len(stdin))
    /\ UNCHANGED <<shell, typed, executed, children>>

\* tsh leaves a blank line alone, labsh forks a child without a program.
Eval ==
    /\ shell_state = "evaluating"
    /\ shell_state' = "reading"
    /\ LET command == parseline(cmdline)
       IN  /\ executed' = IF shell = "tsh" /\ command.argv = <<>> THEN executed
                          ELSE Append(executed, command)
           /\ children' = IF shell = "tsh" THEN children ELSE Append(children, "forked")
    /\ UNCHANGED <<shell, typed, stdin, cmdline>>

\* fork fails, or the arguments that argv has no room for destroy the frame of eval.
EvalFails ==
    /\ shell_state = "evaluating"
    /\ shell = "labsh" \/ parseline(cmdline).argv # <<>> \/ Overruns(cmdline)
    /\ shell_state' = "failed"
    /\ UNCHANGED <<shell, typed, stdin, cmdline, executed, children>>

\* A child of labsh opens its file and becomes the program, if there is one: on the
\* terminal, too, when the file cannot be opened.
Child(k) ==
    /\ children[k] = "forked"
    /\ \/ children' = [children EXCEPT ![k] = "gone"]
       \/ /\ executed[k].argv # <<>>
          /\ children' = [children EXCEPT ![k] = "terminal"]
       \/ /\ executed[k].rd_file # <<>>
          /\ children' = [children EXCEPT ![k] = "file"]
    /\ UNCHANGED <<shell, typed, stdin, cmdline, shell_state, executed>>

ParseNext == Start \/ Read \/ Eval \/ EvalFails \/ \E k \in DOMAIN children : Child(k)

ParseSpec == ParseInit /\ [][ParseNext]_parse_vars

-----------------------------------------------------------------------------

TypedArgs(line) == [k \in DOMAIN line.words |-> line.words[k].text]

\* What the shells can take: a line that fits in the buffer, with arguments that fit in
\* argv and none of which looks like & or >.  Quotes do not protect these.
Understood(line) ==
    /\ Len(LineText(line)) < MAXLINE - (IF line.ended THEN 0 ELSE 1)
    /\ Len(TypedWords(line)) < MAXARGS
    /\ \A k \in DOMAIN line.words :
         ~StartsWith(line.words[k].text, "&") /\ ~StartsWith(line.words[k].text, ">")

\* What the user of the shell means by a line.  One without a newline at the end of the
\* file is not a line, and what follows a quote that is not closed is not an argument.
Meant(line) ==
    IF ~line.ended \/ (shell = "tsh" /\ line.words = <<>>) THEN <<>>
    ELSE <<Command(TypedArgs(line), line.mode = "bg",
                   IF line.mode = "redirect" THEN <<<<"f">>>> ELSE <<>>)>>

\* The arguments of the commands a shell runs are, word by word, what was typed, whatever
\* the spaces and quotes around them, in the order of the lines and with nothing lost or
\* added, up to the first line the shell cannot take; and at the end of the file every
\* line was run (fgets in main, parseline, eval).
TypedIsExecuted ==
    LET Upto == Max({0} \cup {n \in DOMAIN typed : \A k \in 1 .. n : Understood(typed[k])})
        meant == FlattenSeq([k \in 1 .. Upto |-> Meant(typed[k])])
    IN  /\ IsPrefix(executed, meant) \/ IsPrefix(meant, executed)
        /\ shell_state = "closed" /\ Upto = Len(typed) => executed = meant
=============================================================================
