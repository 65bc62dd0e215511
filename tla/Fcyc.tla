--------------------------------- MODULE Fcyc --------------------------------
(***************************************************************************)
(* The K-best timer of ASSN/ASSN6: fcyc.c samples the running time of a    *)
(* function until the kbest smallest samples agree, with the cycle counter *)
(* of clock.c, which is read as two words and, when compensate is set,     *)
(* corrected for the timer interrupts that fell into the sample.           *)
(***************************************************************************)
EXTENDS Integers, FiniteSets, Search

CONSTANTS
    kbest,          \* samples that must agree
    maxsamples,     \* samples after which fcyc gives up
    EpsNum, EpsDen, \* epsilon
    WORD,           \* the values of one word of the counter (2^32 in the code)
    NEVENT, THRESHOLD, RECORDTHRESH,    \* of callibrate
    Starts,         \* counter values when the timer is first used
    Durations,      \* cycles that a piece of code takes, interrupts included
    MaxTicks        \* timer interrupts that fall into one of them

ASSUME SamplerAssumption ==
    /\ kbest \in Nat \ {0} /\ maxsamples \in Nat \ {0}
    /\ EpsNum \in Nat \ {0} /\ EpsDen \in Nat \ {0}
ASSUME ClockAssumption ==
    /\ WORD \in Nat \ {0} /\ NEVENT \in Nat \ {0}
    /\ Durations \subseteq Nat /\ MaxTicks \in Nat /\ Starts \subseteq Nat

VARIABLES
    stage,          \* "start", "sample", "callibrate", "measure", "done"
    compensate,     \* timer interrupts are corrected for
    counter,        \* the cycle counter of the processor
    cyc,            \* [hi, lo]: cyc_hi and cyc_lo
    calib,          \* locals of callibrate: [e, gap (newt - oldt), ticks (newc - oldc)]
    cyc_per_tick,   \* 0 until it is known
    values,         \* the smallest samples
    samplecount,
    samples         \* all samples (history)

cvars == <<stage, compensate, counter, cyc, calib, cyc_per_tick, values, samplecount, samples>>

-----------------------------------------------------------------------------
(* clock.c *)

access_counter(t) == [hi |-> (t \div WORD) % WORD, lo |-> t % WORD]

\* Variant: the difference of the low words is not borrowed for.
NoBorrow(lo, nlo) == 0
Borrow(lo, nlo) == IF lo > nlo THEN 1 ELSE 0

\* The difference of two readings, word by word, modulo the width of a word.  The code
\* returns it as a double, which is exact below 2^53; this is the number itself.
get_counter(from, to) ==
    LET lo == (to.lo - from.lo) % WORD
        hi == (to.hi - from.hi - Borrow(lo, to.lo)) % WORD
    IN  hi * WORD + lo

-----------------------------------------------------------------------------
(* fcyc.c *)

\* Variant: a sample is left where it was put.
PlaceAtEnd(vals, pos, val) == pos
\* Where the insertion sort stops with the sample that starts at pos.
SortedPlace(vals, pos, val) ==
    First({p \in 0 .. pos : \A j \in p .. (pos - 1) : vals[j] > val})

IsKept(vals, n, val) == n < kbest \/ val < vals[kbest - 1]

\* The values from place to pos move up by one.
InsertSample(vals, place, pos, val) ==
    [j \in 0 .. (kbest - 1) |->
        IF j < place \/ j > pos THEN vals[j] ELSE IF j = place THEN val ELSE vals[j - 1]]

add_sample(vals, n, val) ==
    LET pos == IF n < kbest THEN n ELSE kbest - 1
    IN  IF IsKept(vals, n, val) THEN InsertSample(vals, SortedPlace(vals, pos, val), pos, val) ELSE vals

\* Variant: the largest value kept is not looked at.
ConvergedAtOnce(vals, n) == n >= kbest
has_converged(vals, n) ==
    n >= kbest /\ (EpsDen + EpsNum) * vals[0] >= EpsDen * vals[kbest - 1]

init_sampler == [j \in 0 .. (kbest - 1) |-> 0]

-----------------------------------------------------------------------------
NotCallibrating == [e |-> 0, gap |-> 0, ticks |-> 0]

FcycInit ==
    /\ stage = "start" /\ compensate = FALSE
    /\ counter = 0 /\ cyc = access_counter(0)
    /\ calib = NotCallibrating /\ cyc_per_tick = 0
    /\ values = init_sampler /\ samplecount = 0 /\ samples = {}

\* fcyc is called: init_sampler.
Start ==
    /\ stage = "start"
    /\ compensate' \in BOOLEAN
    /\ counter' \in Starts
    /\ cyc' = access_counter(counter')
    /\ values' = init_sampler /\ samplecount' = 0 /\ samples' = {}
    /\ stage' = "sample"
    /\ UNCHANGED <<calib, cyc_per_tick>>

\* start_comp_counter: a clock whose tick has no known cost is callibrated first.
StartCallibrate ==
    /\ stage = "sample" /\ compensate /\ cyc_per_tick = 0
    /\ stage' = "callibrate"
    /\ calib' = NotCallibrating
    /\ cyc' = access_counter(counter)
    /\ UNCHANGED <<compensate, counter, cyc_per_tick, values, samplecount, samples>>

\* Variant: only an event that is long enough to be recorded is counted.
CountRecorded(cpt) == cpt > RECORDTHRESH
CountsAsEvent(cpt) == TRUE

IsShortest(cpt) == (cyc_per_tick = 0 \/ cyc_per_tick > cpt) /\ cpt > RECORDTHRESH

\* A round of the loop of callibrate that takes d cycles and sees t ticks.
CallibrateRound(d, t) ==
    LET gap == calib.gap + d
        ticks == calib.ticks + t
        long == gap >= THRESHOLD
        cpt == gap \div ticks
    IN  /\ stage = "callibrate" /\ calib.e < NEVENT
        /\ counter' = (counter + d) % (WORD * WORD)
        /\ cyc_per_tick' = IF long /\ ticks > 0 /\ IsShortest(cpt) THEN cpt ELSE cyc_per_tick
        /\ calib' = IF ~long THEN [calib EXCEPT !.gap = gap, !.ticks = ticks]
                    ELSE IF ticks = 0 THEN [calib EXCEPT !.gap = 0]
                    ELSE [e |-> IF CountsAsEvent(cpt) THEN calib.e + 1 ELSE calib.e,
                          gap |-> 0, ticks |-> 0]
        /\ stage' = IF calib'.e = NEVENT THEN "measure" ELSE stage
        /\ UNCHANGED <<compensate, cyc, values, samplecount, samples>>

\* start_counter, when there is nothing to callibrate.
StartSample ==
    /\ stage = "sample" /\ ~(compensate /\ cyc_per_tick = 0)
    /\ stage' = "measure"
    /\ UNCHANGED <<compensate, counter, cyc, calib, cyc_per_tick, values, samplecount, samples>>

\* get_comp_counter takes the cost of the ticks away.
Corrected(measured, t) == IF compensate THEN measured - t * cyc_per_tick ELSE measured

\* One call of the function, which takes d cycles, t ticks included.
Sample(d, t) ==
    LET from == access_counter(counter)
        to == access_counter((counter + d) % (WORD * WORD))
        measured == get_counter(from, to)
        val == Corrected(measured, t)
    IN  /\ stage = "measure"
        /\ counter' = (counter + d) % (WORD * WORD)
        /\ cyc' = from
        /\ values' = add_sample(values, samplecount, val)
        /\ samplecount' = samplecount + 1
        /\ samples' = samples \cup {[nr |-> samplecount, cycles |-> d, measured |-> measured, val |-> val]}
        /\ stage' = IF has_converged(values', samplecount') \/ samplecount' >= maxsamples
                    THEN "done" ELSE "sample"
        /\ UNCHANGED <<compensate, calib, cyc_per_tick>>

FcycNext ==
    \/ Start \/ StartCallibrate \/ StartSample
    \/ \E d \in Durations, t \in 0 .. MaxTicks : CallibrateRound(d, t) \/ Sample(d, t)

\* The loops of callibrate and fcyc run on, and the clock ticks while they do.
FcycFairness ==
    /\ WF_cvars(StartCallibrate \/ StartSample \/ \E d \in Durations, t \in 0 .. MaxTicks :
                    CallibrateRound(d, t) \/ Sample(d, t))
    /\ SF_cvars(\E d \in Durations, t \in 1 .. MaxTicks : CallibrateRound(d, t))

FcycSpec == FcycInit /\ [][FcycNext]_cvars /\ FcycFairness

-----------------------------------------------------------------------------
(* Properties *)

Kept == 0 .. ((IF samplecount < kbest THEN samplecount ELSE kbest) - 1)

\* The values kept are the smallest of all samples, in order: fewer than j + 1
\* samples are below values[j], and at least j + 1 are not above it.
KBest ==
    \A j \in Kept :
        /\ Cardinality({m \in samples : m.val < values[j]}) <= j
        /\ Cardinality({m \in samples : m.val <= values[j]}) > j

\* The cycles between two readings of the counter are counted exactly, wherever the
\* low word or the whole counter wraps in between.
MeasuredExactly == \A m \in samples : m.cycles < WORD * WORD => m.measured = m.cycles

\* fcyc stops before maxsamples only when the kbest smallest samples are within
\* epsilon of each other and none is negative: a sample that was corrected below
\* zero makes it take all the samples it may.
StopsWhenConverged ==
    stage = "done" /\ samplecount < maxsamples =>
        /\ Cardinality({m \in samples : EpsDen * m.val <= (EpsDen + EpsNum) * values[0]}) >= kbest
        /\ \A m \in samples : m.val >= 0

\* The timer returns, callibration included.
Returns == stage = "sample" ~> stage = "done"
=============================================================================
