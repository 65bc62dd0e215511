------------------------------- MODULE MCLabs --------------------------------
EXTENDS Labs, Sequences

\* Traces of requests of mdriver: all legal ones over two indices with a payload of one
\* or of three words, up to a length of MaxOps.
MaxOps == 4
a(k, s) == [type |-> "a", index |-> k, size |-> s]
r(k, s) == [type |-> "r", index |-> k, size |-> s]
f(k) == [type |-> "f", index |-> k, size |-> 0]
Requests == {a(k, s) : k \in 0 .. 1, s \in {1, 33}} \cup {r(k, s) : k \in 0 .. 1, s \in {1, 33}}
            \cup {f(k) : k \in 0 .. 1}
Legal(t, o) == o.type = "a" <=> ~InUse(t, Len(t), o.index)
Traces ==
    LET OfLength[n \in 0 .. MaxOps] ==
            IF n = 0 THEN {<<>>}
            ELSE {Append(e[1], e[2]) : e \in {e \in OfLength[n - 1] \X Requests : Legal(e[1], e[2])}}
    IN  UNION {OfLength[n] : n \in 1 .. MaxOps}
File(t) == [num_ids |-> Max({t[k].index : k \in DOMAIN t}) + 1, num_ops |-> Len(t), ops |-> t]

\* As in short1-bal.rep, with payloads that the heap has room for; and two payloads whose
\* indices have the low bytes 127 and 128, of which the second is reallocated or not.
Short == <<a(0, 1), a(1, 1), f(1), a(2, 1), a(3, 9), f(3), a(4, 9), f(0), f(2), a(5, 9), f(4), f(5)>>
HighIndex(o) == <<a(127, 1), a(128, 1), r(127, 9), o, a(3, 1)>>

\* A payload of s bytes is handed out over another one; a tag is left behind for the
\* next trace; a trace whose header is wrong; a trace after one that ran out of memory.
Overlapping(s) == <<a(0, 33), f(0), a(0, 1), a(1, 1), a(2, 1), f(1), r(0, s)>>
Tagged == <<a(0, 33), f(0), a(0, 9), a(1, 1), f(1), r(0, 1)>>
MCTraceLists ==
    {<<File(t)>> : t \in Traces}
    \cup {<<File(Overlapping(s)), File(<<a(0, 33), r(0, 1)>>)>> : s \in {25, 33, 41}}
    \cup {<<File(HighIndex(o))>> : o \in {f(128), r(128, 1)}}
    \cup {<<File(Tagged), File(Tagged)>>, <<File(Short)>>,
          <<[File(<<a(0, 1)>>) EXCEPT !.num_ids = 3]>>,
          <<File(<<a(0, 33), a(1, 33)>>), File(<<a(0, 1), r(0, 33)>>)>>}

ASSUME TracesAreLegal == LegalTraces

\* btest calls the solutions and the test functions of the lab.
MCPasses(name, first, second) == P!Agrees(name, first, second)

\* Sets of puzzles: the solutions of the lab, and ones that hang among them.
AnyInt == <<0 - 2^(WIDTH - 1), 2^(WIDTH - 1) - 1>>
AnyFloat == <<1, 1>>
Puzzle(n, args, r1, r2) == [name |-> n, args |-> args, ranges |-> <<r1, r2>>, rating |-> 1]
One(n, r1) == Puzzle(n, 1, r1, r1)
Two(n) == Puzzle(n, 2, AnyInt, AnyInt)
MCtest_sets ==
    {<<Two("bitOr"), One("loop", AnyInt), Two("addOK")>>,
     <<One("loop", AnyInt), One("loop", AnyInt)>>,
     <<One("negate", AnyInt), One("bitCount", AnyInt),
       Puzzle("logicalShift", 2, AnyInt, <<0, WIDTH - 1>>)>>,
     <<One("float_neg", AnyFloat), One("float_i2f", AnyFloat), One("float_twice", AnyFloat)>>}
    \cup {<<One("negate", <<0 - 40, high>>)>> : high \in {11, 12, 13}}
    \cup {<<One("negate", bounds)>> :
              bounds \in {<<74, 127>>, <<75, 127>>, <<126, 127>>, <<0 - 128, 0 - 100>>}}

\* The three graded sizes, small ones around the block, and ones that are refused.
MCTransSizes ==
    {<<32, 32>>, <<64, 64>>, <<61, 67>>}
    \cup {1, 7, 8, 9, 12, 17} \X {1, 7, 8, 9, 13, 18}
    \cup {<<0, 8>>, <<257, 8>>}

\* The lines typed: up to two words, or three in the background, before a second line.
w(text, quoted, gap) == [text |-> text, quoted |-> quoted, gap |-> gap]
x(gap) == w(<<"x">>, FALSE, gap)
WordsTyped ==
    {x(1), x(2), w(<<"x", "'">>, FALSE, 1), w(<<>>, TRUE, 0), w(<<"x", " ", "x">>, TRUE, 1),
     w(<<"&">>, TRUE, 1)}
line(lead, words, mode) ==
    [lead |-> lead, words |-> words, mode |-> mode, tail |-> <<>>, ended |-> TRUE]
LinesTyped(modes) ==
    {line(1, <<v>>, mode) : v \in WordsTyped, mode \in modes}
    \cup {line(1, <<v, u>>, mode) : v, u \in WordsTyped, mode \in modes}
    \cup {line(lead, <<>>, "fg") : lead \in 0 .. 1}
    \cup {line(0, <<x(1), x(gap), x(1)>>, mode) : gap \in 1 .. 2, mode \in modes}
    \cup {[line(0, <<x(1)>>, "fg") EXCEPT !.tail = <<"'", "x">>]}
    \cup {line(0, <<x(12)>>, mode) : mode \in modes}
SecondLine == line(0, <<x(1)>>, "fg")
ScriptsOf(modes) ==
    {<<first, second>> : first \in LinesTyped(modes),
                         second \in {SecondLine, [SecondLine EXCEPT !.ended = FALSE]}}
MCScripts == [tsh |-> ScriptsOf({"fg", "bg"}) \cup {<<line(0, <<>>, "bg"), SecondLine>>},
              labsh |-> ScriptsOf({"fg", "redirect"})]
=============================================================================
