------------------------------ MODULE LabProofs ------------------------------
(***************************************************************************)
(* The smaller programs of the labs, for all their constants: the cycle    *)
(* counter (Fcyc), the search for free blocks (Fit) and the tester of the  *)
(* data lab (Btest).                                                       *)
(***************************************************************************)
EXTENDS Fcyc, Fit, Btest, SearchProofs, FiniteSetTheorems, TLAPS

-----------------------------------------------------------------------------
(* Fcyc: the K-best sampler keeps the smallest samples, for every kbest,   *)
(* maxsamples and epsilon and every clock.                                 *)

\* Slots of values that hold one of n samples.
Filled(n) == 0 .. ((IF n < kbest THEN n ELSE kbest) - 1)
Below(S, v) == {m \in S : m.val < v}
UpTo(S, v) == {m \in S : m.val <= v}

\* vals holds the smallest of the samples S, in order.
Best(vals, n, S) ==
    /\ \A i, j \in Filled(n) : i <= j => vals[i] <= vals[j]
    /\ \A j \in Filled(n) : Cardinality(Below(S, vals[j])) <= j
    /\ \A j \in Filled(n) : Cardinality(UpTo(S, vals[j])) > j

LEMMA CountIsMonotone ==
    ASSUME NEW S, IsFiniteSet(S), NEW T, T \subseteq S
    PROVE  /\ IsFiniteSet(T)
           /\ Cardinality(T) \in Nat /\ Cardinality(S) \in Nat
           /\ Cardinality(T) <= Cardinality(S)
<1>1. IsFiniteSet(T) /\ Cardinality(T) <= Cardinality(S)
  BY FS_Subset
<1> QED BY <1>1, FS_CardinalityType

\* What one more sample adds to the counts.
LEMMA OneMoreSample ==
    ASSUME NEW S, IsFiniteSet(S), \A m \in S : m.val \in Int,
           NEW x, x \notin S, x.val \in Int,
           NEW v \in Int
    PROVE  /\ Cardinality(Below(S, v)) \in Nat /\ Cardinality(UpTo(S, v)) \in Nat
           /\ Cardinality(Below(S \cup {x}, v)) =
                Cardinality(Below(S, v)) + (IF x.val < v THEN 1 ELSE 0)
           /\ Cardinality(UpTo(S \cup {x}, v)) =
                Cardinality(UpTo(S, v)) + (IF x.val <= v THEN 1 ELSE 0)
<1>1. Below(S, v) \subseteq S /\ UpTo(S, v) \subseteq S
  BY DEF Below, UpTo
<1>2. /\ IsFiniteSet(Below(S, v)) /\ Cardinality(Below(S, v)) \in Nat
      /\ IsFiniteSet(UpTo(S, v)) /\ Cardinality(UpTo(S, v)) \in Nat
  BY <1>1, CountIsMonotone
<1>3. x \notin Below(S, v) /\ x \notin UpTo(S, v)
  BY <1>1
<1>4. Below(S \cup {x}, v) = IF x.val < v THEN Below(S, v) \cup {x} ELSE Below(S, v)
  BY DEF Below
<1>5. UpTo(S \cup {x}, v) = IF x.val <= v THEN UpTo(S, v) \cup {x} ELSE UpTo(S, v)
  BY DEF UpTo
<1>6. Cardinality(Below(S, v) \cup {x}) = Cardinality(Below(S, v)) + 1
  BY <1>2, <1>3, FS_AddElement
<1>7. Cardinality(UpTo(S, v) \cup {x}) = Cardinality(UpTo(S, v)) + 1
  BY <1>2, <1>3, FS_AddElement
<1> QED BY <1>2, <1>4, <1>5, <1>6, <1>7

LEMMA CountsAreOrdered ==
    ASSUME NEW S, IsFiniteSet(S), \A m \in S : m.val \in Int,
           NEW v \in Int, NEW w \in Int, v <= w
    PROVE  /\ Cardinality(Below(S, v)) <= Cardinality(Below(S, w))
           /\ Cardinality(UpTo(S, v)) <= Cardinality(UpTo(S, w))
           /\ Cardinality(Below(S, v)) <= Cardinality(S)
<1>1. /\ Below(S, v) \subseteq Below(S, w) /\ UpTo(S, v) \subseteq UpTo(S, w)
      /\ Below(S, w) \subseteq S /\ UpTo(S, w) \subseteq S /\ Below(S, v) \subseteq S
  BY DEF Below, UpTo
<1>2. IsFiniteSet(Below(S, w)) /\ IsFiniteSet(UpTo(S, w))
  BY <1>1, CountIsMonotone
<1> QED BY <1>1, <1>2, CountIsMonotone

\* The insertion sort stops behind the last value that is not larger, where the
\* values before it are in order.
LEMMA SortedPlaceIsRight ==
    ASSUME NEW vals, NEW pos \in Nat, NEW v \in Int,
           \A j \in 0 .. (pos - 1) : vals[j] \in Int
    PROVE  LET p == SortedPlace(vals, pos, v) IN
           /\ p \in 0 .. pos
           /\ \A j \in p .. (pos - 1) : vals[j] > v
           /\ p > 0 => vals[p - 1] <= v
<1> DEFINE Stops == {p \in 0 .. pos : \A j \in p .. (pos - 1) : vals[j] > v}
           p == SortedPlace(vals, pos, v)
<1>1. Stops \subseteq Nat /\ pos \in Stops
  OBVIOUS
<1>2. p \in Stops /\ \A q \in Stops : p <= q
  BY <1>1, FirstIsLeast DEF SortedPlace
<1>3. ASSUME p > 0 PROVE vals[p - 1] <= v
  <2> HIDE DEF p
  <2>1. p \in 0 .. pos /\ p - 1 \in 0 .. (pos - 1) /\ p - 1 \notin Stops
    BY <1>2, <1>3
  <2>2. PICK j \in (p - 1) .. (pos - 1) : ~(vals[j] > v)
    BY <2>1
  <2>3. j \notin p .. (pos - 1)
    BY <1>2, <2>2
  <2>4. j = p - 1
    BY <2>1, <2>2, <2>3
  <2> QED BY <2>1, <2>2, <2>4
<1> QED BY <1>2, <1>3

\* One more sample, and values still holds the smallest ones.
LEMMA AddSampleKeepsBest ==
    ASSUME NEW S, IsFiniteSet(S), \A m \in S : m.val \in Int,
           NEW n \in Nat, Cardinality(S) = n,
           NEW vals \in [0 .. (kbest - 1) -> Int], Best(vals, n, S),
           NEW x, x \notin S, x.val \in Int
    PROVE  /\ add_sample(vals, n, x.val) \in [0 .. (kbest - 1) -> Int]
           /\ Best(add_sample(vals, n, x.val), n + 1, S \cup {x})
<1> DEFINE v == x.val
           pos == IF n < kbest THEN n ELSE kbest - 1
           p == SortedPlace(vals, pos, v)
           new == add_sample(vals, n, v)
           T == S \cup {x}
<1>k. kbest \in Nat /\ kbest >= 1
  BY SamplerAssumption
<1>v. v \in Int /\ pos \in 0 .. (kbest - 1)
  BY <1>k
<1>e. Filled(n + 1) = 0 .. pos
  BY <1>k DEF Filled
<1>f. /\ 0 .. (pos - 1) \subseteq Filled(n) /\ Filled(n) \subseteq 0 .. (kbest - 1)
      /\ n >= kbest => Filled(n) = 0 .. pos
  BY <1>k DEF Filled
<1>c. \A j \in Filled(n) :
        /\ Cardinality(Below(S, vals[j])) \in Nat /\ Cardinality(UpTo(S, vals[j])) \in Nat
        /\ Cardinality(Below(T, vals[j])) =
             Cardinality(Below(S, vals[j])) + (IF v < vals[j] THEN 1 ELSE 0)
        /\ Cardinality(UpTo(T, vals[j])) =
             Cardinality(UpTo(S, vals[j])) + (IF v <= vals[j] THEN 1 ELSE 0)
  <2> TAKE j \in Filled(n)
  <2>1. vals[j] \in Int
    BY <1>f
  <2> QED BY <2>1, OneMoreSample
<1>d. /\ Cardinality(Below(S, v)) \in Nat /\ Cardinality(UpTo(S, v)) \in Nat
      /\ Cardinality(Below(T, v)) = Cardinality(Below(S, v))
      /\ Cardinality(UpTo(T, v)) = Cardinality(UpTo(S, v)) + 1
  <2>1. /\ Cardinality(Below(S, v)) \in Nat /\ Cardinality(UpTo(S, v)) \in Nat
        /\ Cardinality(Below(T, v)) = Cardinality(Below(S, v)) + (IF v < v THEN 1 ELSE 0)
        /\ Cardinality(UpTo(T, v)) = Cardinality(UpTo(S, v)) + (IF v <= v THEN 1 ELSE 0)
    BY OneMoreSample
  <2> HIDE DEF v
  <2> QED BY <2>1, <1>v
<1>1. CASE ~IsKept(vals, n, v)
  <2>1. new = vals /\ n >= kbest /\ ~(v < vals[kbest - 1]) /\ pos = kbest - 1
    BY <1>1, <1>k DEF add_sample, IsKept
  <2>2. \A j \in Filled(n) : ~(v < vals[j])
    BY <2>1, <1>f, <1>v, <1>k DEF Best
  <2>3. Filled(n + 1) = Filled(n)
    BY <1>e, <1>f, <2>1
  <2>4. \A j \in Filled(n) : Cardinality(Below(T, vals[j])) <= j /\ Cardinality(UpTo(T, vals[j])) > j
    <3> TAKE j \in Filled(n)
    <3>1. j \in Int /\ vals[j] \in Int
      BY <1>f
    <3>2. Cardinality(Below(S, vals[j])) <= j /\ Cardinality(UpTo(S, vals[j])) > j
      BY DEF Best
    <3> HIDE DEF v, T
    <3> QED BY <1>c, <1>v, <2>2, <3>1, <3>2
  <2> QED BY <2>1, <2>3, <2>4 DEF Best
<1>2. CASE IsKept(vals, n, v)
  <2>1. new = InsertSample(vals, p, pos, v)
    BY <1>2 DEF add_sample
  <2>2. /\ p \in 0 .. pos
        /\ \A j \in p .. (pos - 1) : vals[j] > v
        /\ p > 0 => vals[p - 1] <= v
    <3>1. \A j \in 0 .. (pos - 1) : vals[j] \in Int
      BY <1>v, <1>k
    <3>2. pos \in Nat
      BY <1>v, <1>k
    <3> HIDE DEF pos, v
    <3> QED BY <1>v, <3>1, <3>2, SortedPlaceIsRight
  <2> HIDE DEF p, new, pos, v, T
  <2>3. /\ new \in [0 .. (kbest - 1) -> Int]
        /\ \A j \in 0 .. pos :
             /\ j < p => new[j] = vals[j]
             /\ j = p => new[j] = v
             /\ j > p => new[j] = vals[j - 1] /\ j - 1 \in p .. (pos - 1)
    BY <2>1, <2>2, <1>v, <1>k DEF InsertSample
  <2>4. \A i, j \in 0 .. (pos - 1) : i <= j => vals[i] <= vals[j]
    BY <1>f DEF Best
  <2>5. \A j \in 0 .. (p - 1) : vals[j] <= v
    BY <2>2, <2>4, <1>v, <1>k
  <2>6. \A i, j \in 0 .. pos : i <= j => new[i] <= new[j]
    <3> SUFFICES ASSUME NEW i \in 0 .. pos, NEW j \in 0 .. pos, i <= j
                 PROVE  new[i] <= new[j]
      OBVIOUS
    <3>1. CASE j < p
      BY <3>1, <2>3, <2>4, <2>2, <1>v
    <3>2. CASE i < p /\ j = p
      BY <3>2, <2>3, <2>5, <2>2, <1>v
    <3>3. CASE i < p /\ j > p
      <4>1. vals[i] <= v /\ v < vals[j - 1] /\ vals[i] \in Int /\ vals[j - 1] \in Int
        BY <3>3, <2>2, <2>3, <2>5, <1>v, <1>k
      <4> QED BY <3>3, <4>1, <2>3, <1>v
    <3>4. CASE i = p /\ j = p
      BY <3>4, <2>3, <1>v
    <3>5. CASE i = p /\ j > p
      <4>1. v < vals[j - 1] /\ vals[j - 1] \in Int
        BY <3>5, <2>2, <2>3, <1>v, <1>k
      <4> QED BY <3>5, <4>1, <2>3, <1>v
    <3>6. CASE i > p
      <4>1. i - 1 \in 0 .. (pos - 1) /\ j - 1 \in 0 .. (pos - 1) /\ i - 1 <= j - 1
        BY <3>6, <2>2, <1>v
      <4>2. new[i] = vals[i - 1] /\ new[j] = vals[j - 1]
        BY <3>6, <2>3, <2>2
      <4> QED BY <4>1, <4>2, <2>4
    <3> QED BY <3>1, <3>2, <3>3, <3>4, <3>5, <3>6, <2>2, <1>v
  <2>7. \A j \in 0 .. pos :
          Cardinality(Below(T, new[j])) <= j /\ Cardinality(UpTo(T, new[j])) > j
    <3> SUFFICES ASSUME NEW j \in 0 .. pos
                 PROVE  Cardinality(Below(T, new[j])) <= j /\ Cardinality(UpTo(T, new[j])) > j
      OBVIOUS
    <3>1. CASE j < p
      <4>1. j \in Filled(n) /\ new[j] = vals[j] /\ vals[j] <= v /\ vals[j] \in Int
        BY <3>1, <2>2, <2>3, <2>5, <1>f, <1>v, <1>k
      <4>2. Cardinality(Below(S, vals[j])) <= j /\ Cardinality(UpTo(S, vals[j])) > j
        BY <4>1 DEF Best
      <4>3. /\ Cardinality(Below(T, vals[j])) = Cardinality(Below(S, vals[j]))
            /\ Cardinality(UpTo(T, vals[j])) >= Cardinality(UpTo(S, vals[j]))
            /\ Cardinality(Below(S, vals[j])) \in Nat /\ Cardinality(UpTo(S, vals[j])) \in Nat
            /\ Cardinality(UpTo(T, vals[j])) \in Nat
        BY <4>1, <1>c, <1>v
      <4> QED BY <4>1, <4>2, <4>3, <1>v, <1>k
    <3>2. CASE j = p
      <4>1. new[j] = v
        BY <3>2, <2>3
      <4>2. /\ Cardinality(Below(S, v)) \in Nat /\ Cardinality(UpTo(S, v)) \in Nat
            /\ Cardinality(Below(T, v)) = Cardinality(Below(S, v))
            /\ Cardinality(UpTo(T, v)) = Cardinality(UpTo(S, v)) + 1
        BY <1>d
      <4>3. Cardinality(Below(S, v)) <= p
        <5>1. CASE p < pos \/ n >= kbest
          <6>1. p \in Filled(n) /\ v < vals[p] /\ vals[p] \in Int
            <7>1. CASE p < pos
              BY <7>1, <2>2, <1>f, <1>v, <1>k
            <7>2. CASE p = pos /\ n >= kbest
              BY <7>2, <1>2, <1>f, <1>v, <1>k DEF IsKept, pos
            <7> QED BY <5>1, <7>1, <7>2, <2>2, <1>v
          <6>2. Cardinality(Below(S, v)) <= Cardinality(Below(S, vals[p]))
            BY <6>1, <1>v, CountsAreOrdered
          <6>3. Cardinality(Below(S, vals[p])) <= p /\ Cardinality(Below(S, vals[p])) \in Nat
            BY <6>1, <1>c DEF Best
          <6> QED BY <6>2, <6>3, <4>2, <2>2, <1>v
        <5>2. CASE p = pos /\ n < kbest
          <6>1. Cardinality(Below(S, v)) <= n
            BY <1>v, CountsAreOrdered
          <6> QED BY <5>2, <6>1 DEF pos
        <5> QED BY <5>1, <5>2, <2>2, <1>v, <1>k
      <4>4. Cardinality(UpTo(S, v)) >= p
        <5>1. CASE p = 0
          BY <5>1, <4>2
        <5>2. CASE p > 0
          <6>1. p - 1 \in Filled(n) /\ vals[p - 1] <= v /\ vals[p - 1] \in Int
            BY <5>2, <2>2, <1>f, <1>v, <1>k
          <6>2. Cardinality(UpTo(S, vals[p - 1])) <= Cardinality(UpTo(S, v))
            BY <6>1, <1>v, CountsAreOrdered
          <6>3. Cardinality(UpTo(S, vals[p - 1])) > p - 1 /\ Cardinality(UpTo(S, vals[p - 1])) \in Nat
            BY <6>1, <1>c DEF Best
          <6> QED BY <6>2, <6>3, <4>2, <2>2, <1>v
        <5> QED BY <5>1, <5>2, <2>2, <1>v
      <4> QED BY <3>2, <4>1, <4>2, <4>3, <4>4, <2>2, <1>v
    <3>3. CASE j > p
      <4>1. j - 1 \in Filled(n) /\ new[j] = vals[j - 1] /\ v < vals[j - 1] /\ vals[j - 1] \in Int
        BY <3>3, <2>2, <2>3, <1>f, <1>v, <1>k
      <4>2. Cardinality(Below(S, vals[j - 1])) <= j - 1 /\ Cardinality(UpTo(S, vals[j - 1])) > j - 1
        BY <4>1 DEF Best
      <4>3. /\ Cardinality(Below(T, vals[j - 1])) = Cardinality(Below(S, vals[j - 1])) + 1
            /\ Cardinality(UpTo(T, vals[j - 1])) = Cardinality(UpTo(S, vals[j - 1])) + 1
            /\ Cardinality(Below(S, vals[j - 1])) \in Nat /\ Cardinality(UpTo(S, vals[j - 1])) \in Nat
        BY <4>1, <1>c, <1>v
      <4>4. /\ Cardinality(Below(T, new[j])) = Cardinality(Below(S, vals[j - 1])) + 1
            /\ Cardinality(UpTo(T, new[j])) = Cardinality(UpTo(S, vals[j - 1])) + 1
        BY <4>1, <4>3
      <4>5. \A a \in Nat : /\ a <= j - 1 => a + 1 <= j
                           /\ a > j - 1 => a + 1 > j
        BY <1>k
      <4> HIDE DEF new
      <4> QED BY <4>2, <4>3, <4>4, <4>5
    <3> QED BY <3>1, <3>2, <3>3, <2>2, <1>v
  <2> QED BY <2>3, <2>6, <2>7, <1>e DEF Best, new, v, T
<1> QED BY <1>1, <1>2

-----------------------------------------------------------------------------
(* The specification. *)

Calibration == [e : Nat, gap : Int, ticks : Nat]

Types ==
    /\ counter \in Int
    /\ calib \in Calibration
    /\ cyc_per_tick \in Int
    /\ values \in [0 .. (kbest - 1) -> Int]
    /\ samplecount \in Nat

\* The history numbers the samples, so that no two of them are one element of the set.
Numbered ==
    /\ IsFiniteSet(samples) /\ Cardinality(samples) = samplecount
    /\ \A m \in samples : m.val \in Int /\ m.nr \in 0 .. (samplecount - 1)

StoppedRightly ==
    stage = "done" => has_converged(values, samplecount) \/ samplecount >= maxsamples

SamplerInv == Types /\ Numbered /\ Best(values, samplecount, samples) /\ StoppedRightly

LEMMA NoSamples == Best(init_sampler, 0, {})
<1>1. Filled(0) = {}
  BY SamplerAssumption DEF Filled
<1> QED BY <1>1 DEF Best

LEMMA DifferenceIsInt ==
    ASSUME NEW a \in Int, NEW b \in Int
    PROVE  get_counter(access_counter(a), access_counter(b)) \in Int
<1>1. WORD \in Nat /\ WORD > 0
  BY ClockAssumption
<1>2. \A y \in Int : y % WORD \in Int /\ y \div WORD \in Int
  BY <1>1
<1>3. /\ access_counter(a).lo \in Int /\ access_counter(a).hi \in Int
      /\ access_counter(b).lo \in Int /\ access_counter(b).hi \in Int
  BY <1>2 DEF access_counter
<1> DEFINE from == access_counter(a)
           to == access_counter(b)
<1> HIDE DEF from, to
<1>4. Borrow((to.lo - from.lo) % WORD, to.lo) \in Int
  BY DEF Borrow
<1>5. (to.lo - from.lo) % WORD \in Int
  BY <1>2, <1>3 DEF from, to
<1>6. (to.hi - from.hi - Borrow((to.lo - from.lo) % WORD, to.lo)) % WORD \in Int
  BY <1>2, <1>3, <1>4 DEF from, to
<1>7. get_counter(from, to) \in Int
  BY <1>1, <1>5, <1>6 DEF get_counter
<1> QED BY <1>7 DEF from, to

LEMMA SamplerInit == FcycInit => SamplerInv
<1> SUFFICES ASSUME FcycInit PROVE SamplerInv
  OBVIOUS
<1>1. Types
  <2>1. init_sampler \in [0 .. (kbest - 1) -> Int]
    BY DEF init_sampler
  <2>2. NotCallibrating \in Calibration
    BY DEF NotCallibrating, Calibration
  <2> QED BY <2>1, <2>2 DEF FcycInit, Types
<1>2. Numbered
  BY FS_EmptySet DEF FcycInit, Numbered
<1> QED BY <1>1, <1>2, NoSamples DEF FcycInit, SamplerInv, StoppedRightly

\* fcyc starts over with no samples.
LEMMA StartKeepsInv ==
    ASSUME SamplerInv, Start
    PROVE  SamplerInv'
<1>1. Types'
  BY SamplerAssumption, ClockAssumption
     DEF SamplerInv, Types, Start, init_sampler
<1>2. Numbered'
  BY FS_EmptySet DEF Start, Numbered
<1>3. Best(values, samplecount, samples)'
  BY NoSamples DEF Start
<1> QED BY <1>1, <1>2, <1>3 DEF Start, SamplerInv, StoppedRightly

\* Callibration does not touch the samples.
LEMMA CallibrationKeepsInv ==
    ASSUME SamplerInv, NEW d \in Durations, NEW t \in 0 .. MaxTicks,
           StartCallibrate \/ StartSample \/ CallibrateRound(d, t)
    PROVE  SamplerInv'
<1>1. d \in Nat /\ t \in Nat /\ WORD \in Nat /\ WORD > 0
  BY ClockAssumption
<1>2. UNCHANGED <<compensate, values, samplecount, samples>> /\ stage' # "done"
  BY DEF StartCallibrate, StartSample, CallibrateRound, SamplerInv
<1>3. Types'
  <2>1. CASE StartCallibrate
    BY <2>1, <1>2 DEF StartCallibrate, SamplerInv, Types, Calibration, NotCallibrating
  <2>2. CASE StartSample
    BY <2>2, <1>2 DEF StartSample, SamplerInv, Types
  <2>3. CASE CallibrateRound(d, t)
    <3> DEFINE gap == calib.gap + d
               ticks == calib.ticks + t
    <3>1. gap \in Int /\ ticks \in Nat /\ calib.e \in Nat
      BY <1>1 DEF SamplerInv, Types, Calibration
    <3>2. ticks > 0 => gap \div ticks \in Int
      BY <3>1
    <3>3. cyc_per_tick' \in Int
      BY <2>3, <3>1, <3>2 DEF CallibrateRound, SamplerInv, Types
    <3>4. calib' \in Calibration
      <4>1. \/ calib' = [calib EXCEPT !.gap = gap, !.ticks = ticks]
            \/ calib' = [calib EXCEPT !.gap = 0]
            \/ calib' = [e |-> calib.e + 1, gap |-> 0, ticks |-> 0]
            \/ calib' = [e |-> calib.e, gap |-> 0, ticks |-> 0]
        BY <2>3 DEF CallibrateRound
      <4> HIDE DEF gap, ticks
      <4>2. calib \in Calibration
        BY DEF SamplerInv, Types
      <4> DEFINE c == [calib EXCEPT !.gap = gap]
      <4>3. c \in Calibration
        BY <3>1, <4>2 DEF Calibration
      <4>4. [calib EXCEPT !.gap = 0] \in Calibration
        BY <4>2 DEF Calibration
      <4>5. [calib EXCEPT !.gap = gap, !.ticks = ticks] \in Calibration
        <5>1. [calib EXCEPT !.gap = gap, !.ticks = ticks] = [c EXCEPT !.ticks = ticks]
          OBVIOUS
        <5> HIDE DEF c
        <5>2. [c EXCEPT !.ticks = ticks] \in Calibration
          BY <3>1, <4>3 DEF Calibration
        <5> QED BY <5>1, <5>2
      <4>6. /\ [e |-> calib.e + 1, gap |-> 0, ticks |-> 0] \in Calibration
            /\ [e |-> calib.e, gap |-> 0, ticks |-> 0] \in Calibration
        BY <3>1 DEF Calibration
      <4> QED BY <4>1, <4>4, <4>5, <4>6
    <3>5. counter' \in Int
      <4>1. WORD * WORD \in Nat /\ WORD * WORD > 0
        BY <1>1
      <4>2. counter + d \in Int /\ counter' = (counter + d) % (WORD * WORD)
        BY <2>3, <1>1 DEF CallibrateRound, SamplerInv, Types
      <4> HIDE DEF gap, ticks
      <4> QED BY <4>1, <4>2
    <3> QED BY <1>2, <3>3, <3>4, <3>5 DEF SamplerInv, Types
  <2> QED BY <2>1, <2>2, <2>3
<1>4. Numbered' /\ Best(values, samplecount, samples)'
  BY <1>2 DEF SamplerInv, Numbered, Best, Below, UpTo
<1> QED BY <1>2, <1>3, <1>4 DEF SamplerInv, StoppedRightly

LEMMA SampleKeepsInv ==
    ASSUME SamplerInv, NEW d \in Durations, NEW t \in 0 .. MaxTicks, Sample(d, t)
    PROVE  SamplerInv'
<1> DEFINE measured == get_counter(access_counter(counter),
                                   access_counter((counter + d) % (WORD * WORD)))
           val == Corrected(measured, t)
           x == [nr |-> samplecount, cycles |-> d, measured |-> measured, val |-> val]
<1>1. d \in Nat /\ t \in Nat /\ counter \in Int /\ counter' \in Int
  <2>1. d \in Nat /\ t \in Nat /\ WORD \in Nat /\ WORD > 0 /\ counter \in Int
    BY ClockAssumption DEF SamplerInv, Types
  <2>2. WORD * WORD \in Nat /\ WORD * WORD > 0 /\ counter + d \in Int
    BY <2>1
  <2>3. counter' = (counter + d) % (WORD * WORD)
    BY DEF Sample
  <2>4. (counter + d) % (WORD * WORD) \in Int
    BY <2>2
  <2> QED BY <2>1, <2>3, <2>4
<1>2. measured \in Int
  <2>1. (counter + d) % (WORD * WORD) = counter'
    BY DEF Sample
  <2> QED BY <1>1, <2>1, DifferenceIsInt
<1>3. /\ values' = add_sample(values, samplecount, val)
      /\ samplecount' = samplecount + 1
      /\ samples' = samples \cup {x}
      /\ stage' = IF has_converged(values', samplecount') \/ samplecount' >= maxsamples
                  THEN "done" ELSE "sample"
      /\ UNCHANGED <<compensate, calib, cyc_per_tick>>
  BY DEF Sample
<1> HIDE DEF measured
<1>4. val \in Int
  BY <1>1, <1>2 DEF Corrected, SamplerInv, Types
<1> HIDE DEF val
<1>5. x.val = val /\ x.nr = samplecount
  OBVIOUS
<1>6. x \notin samples
  BY <1>5 DEF SamplerInv, Numbered, Types
<1> HIDE DEF x
<1>7. /\ values' \in [0 .. (kbest - 1) -> Int]
      /\ Best(values, samplecount, samples)'
  <2>1. /\ add_sample(values, samplecount, x.val) \in [0 .. (kbest - 1) -> Int]
        /\ Best(add_sample(values, samplecount, x.val), samplecount + 1, samples \cup {x})
    BY <1>4, <1>5, <1>6, AddSampleKeepsBest DEF SamplerInv, Numbered, Types
  <2> QED BY <1>3, <1>5, <2>1
<1>8. Numbered'
  <2>1. IsFiniteSet(samples') /\ Cardinality(samples') = samplecount'
    BY <1>3, <1>6, FS_AddElement DEF SamplerInv, Numbered
  <2>2. \A m \in samples' : m.val \in Int /\ m.nr \in 0 .. (samplecount' - 1)
    BY <1>3, <1>4, <1>5 DEF SamplerInv, Numbered, Types
  <2> QED BY <2>1, <2>2 DEF Numbered
<1>9. Types'
  BY <1>1, <1>3, <1>7 DEF SamplerInv, Types
<1>10. StoppedRightly'
  BY <1>3 DEF StoppedRightly
<1> QED BY <1>7, <1>8, <1>9, <1>10 DEF SamplerInv

\* The samples, the values kept and the reason for stopping belong together, for
\* every kbest, maxsamples and epsilon, and every clock.
THEOREM SamplerIsSound == FcycSpec => []SamplerInv
<1>1. SamplerInv /\ [FcycNext]_cvars => SamplerInv'
  <2> SUFFICES ASSUME SamplerInv, [FcycNext]_cvars PROVE SamplerInv'
    OBVIOUS
  <2>1. CASE Start
    BY <2>1, StartKeepsInv
  <2>2. ASSUME NEW d \in Durations, NEW t \in 0 .. MaxTicks,
               CallibrateRound(d, t) \/ Sample(d, t)
        PROVE  SamplerInv'
    BY <2>2, CallibrationKeepsInv, SampleKeepsInv
  <2>3. CASE StartCallibrate \/ StartSample
    <3>1. stage' # "done" /\ UNCHANGED <<compensate, counter, cyc_per_tick, values, samplecount, samples>>
      BY <2>3 DEF StartCallibrate, StartSample
    <3>2. calib' \in Calibration
      BY <2>3 DEF StartCallibrate, StartSample, SamplerInv, Types, Calibration, NotCallibrating
    <3> QED BY <3>1, <3>2
            DEF SamplerInv, Types, Numbered, Best, Below, UpTo, StoppedRightly
  <2>4. CASE UNCHANGED cvars
    BY <2>4 DEF cvars, SamplerInv, Types, Numbered, Best, Below, UpTo, StoppedRightly, has_converged
  <2> QED BY <2>1, <2>2, <2>3, <2>4 DEF FcycNext
<1> QED BY <1>1, SamplerInit, PTL DEF FcycSpec

LEMMA BestIsKBest == SamplerInv => KBest
BY DEF SamplerInv, Best, KBest, Kept, Filled, Below, UpTo

\* values always holds the kbest smallest samples, in order.
THEOREM KBestHolds == FcycSpec => []KBest
BY SamplerIsSound, BestIsKBest, PTL

\* Why a converged sampler was right to stop: the kbest smallest samples are within
\* epsilon of the smallest one, which is not negative.
LEMMA ConvergedIsRight == SamplerInv => StopsWhenConverged
<1> SUFFICES ASSUME SamplerInv, stage = "done", samplecount < maxsamples
             PROVE  /\ Cardinality({m \in samples : EpsDen * m.val <= (EpsDen + EpsNum) * values[0]}) >= kbest
                    /\ \A m \in samples : m.val >= 0
  BY DEF StopsWhenConverged
<1> DEFINE last == values[kbest - 1]
           near == {m \in samples : EpsDen * m.val <= (EpsDen + EpsNum) * values[0]}
<1>1. /\ kbest \in Nat /\ kbest >= 1 /\ maxsamples \in Nat
      /\ EpsNum \in Nat /\ EpsNum > 0 /\ EpsDen \in Nat /\ EpsDen > 0
  BY SamplerAssumption
<1>2. values[0] \in Int /\ last \in Int /\ samplecount \in Nat
  BY <1>1 DEF SamplerInv, Types
<1>3. samplecount >= kbest /\ (EpsDen + EpsNum) * values[0] >= EpsDen * last
  BY <1>1, <1>2 DEF SamplerInv, StoppedRightly, has_converged
<1>4. Filled(samplecount) = 0 .. (kbest - 1)
  BY <1>1, <1>2, <1>3 DEF Filled
<1>5. /\ values[0] <= last
      /\ Cardinality(Below(samples, values[0])) <= 0
      /\ Cardinality(UpTo(samples, last)) > kbest - 1
  BY <1>1, <1>4 DEF SamplerInv, Best
<1>6. values[0] >= 0
  <2> HIDE DEF last
  <2>1. EpsDen * last >= EpsDen * values[0]
    BY <1>1, <1>2, <1>5
  <2>2. (EpsDen + EpsNum) * values[0] = EpsDen * values[0] + EpsNum * values[0]
    BY <1>1, <1>2
  <2>3. EpsNum * values[0] >= 0
    BY <1>1, <1>2, <1>3, <2>1, <2>2
  <2> QED BY <1>1, <1>2, <2>3
<1>7. \A m \in samples : m.val >= 0
  <2>1. Below(samples, values[0]) \subseteq samples
    BY DEF Below
  <2>2. Cardinality(Below(samples, values[0])) \in Nat /\ IsFiniteSet(Below(samples, values[0]))
    BY <2>1, CountIsMonotone DEF SamplerInv, Numbered
  <2>3. Below(samples, values[0]) = {}
    BY <1>5, <2>2, FS_EmptySet
  <2> QED BY <1>2, <1>6, <2>3 DEF Below, SamplerInv, Numbered
<1>8. Cardinality(near) >= kbest
  <2>1. UpTo(samples, last) \subseteq near
    <3> SUFFICES ASSUME NEW m \in samples, m.val <= last
                 PROVE  EpsDen * m.val <= (EpsDen + EpsNum) * values[0]
      BY DEF UpTo
    <3>1. m.val \in Int
      BY DEF SamplerInv, Numbered
    <3> HIDE DEF last
    <3>2. EpsDen * m.val <= EpsDen * last
      BY <1>1, <1>2, <3>1
    <3>3. /\ EpsDen * m.val \in Int /\ EpsDen * last \in Int
          /\ (EpsDen + EpsNum) * values[0] \in Int
      BY <1>1, <1>2, <3>1
    <3> QED BY <1>3, <3>2, <3>3
  <2>2. near \subseteq samples
    OBVIOUS
  <2>3. IsFiniteSet(near) /\ Cardinality(near) \in Nat
    BY <2>2, CountIsMonotone DEF SamplerInv, Numbered
  <2>4. Cardinality(UpTo(samples, last)) <= Cardinality(near) /\ Cardinality(UpTo(samples, last)) \in Nat
    BY <2>1, <2>3, CountIsMonotone
  <2> HIDE DEF near, last
  <2> QED BY <1>1, <1>5, <2>3, <2>4
<1> QED BY <1>7, <1>8

\* fcyc stops early only when the kbest smallest samples agree and none is negative.
THEOREM StopsWhenConvergedHolds == FcycSpec => []StopsWhenConverged
BY SamplerIsSound, ConvergedIsRight, PTL

-----------------------------------------------------------------------------
(* The cycle counter. *)

LEMMA Regroup ==
    ASSUME NEW W \in Int, NEW th \in Int, NEW fh \in Int, NEW lo \in Int, NEW bo \in Int,
           NEW i \in Int, NEW j \in Int, NEW k \in Int
    PROVE  W * (th + W * j) - W * (fh + W * i) + (lo - W * bo) + (W * W) * k
           = W * ((th - fh - bo) + W * (k + j - i)) + lo
OBVIOUS

\* The words of the counter are the digits of its value.
LEMMA TwoWords ==
    ASSUME NEW a \in Int
    PROVE  LET at == access_counter(a) IN
           /\ at.lo \in 0 .. (WORD - 1) /\ at.hi \in 0 .. (WORD - 1)
           /\ \E k \in Int : a = WORD * (at.hi + WORD * k) + at.lo
<1> DEFINE at == access_counter(a)
           q == a \div WORD
<1>1. WORD \in Nat /\ WORD > 0
  BY ClockAssumption
<1>2. /\ at.lo = a % WORD /\ at.hi = q % WORD
  BY DEF access_counter
<1>3. (a % WORD) \in 0 .. (WORD - 1) /\ q \in Int /\ a = WORD * q + (a % WORD)
  BY <1>1, DivMod
<1> HIDE DEF at, q
<1>4. (q % WORD) \in 0 .. (WORD - 1) /\ q \div WORD \in Int
      /\ q = WORD * (q \div WORD) + (q % WORD)
  BY <1>1, <1>3, DivMod
<1> DEFINE k == q \div WORD
<1>5. k \in Int /\ q = at.hi + WORD * k /\ at.hi \in 0 .. (WORD - 1)
  BY <1>1, <1>2, <1>4
<1> HIDE DEF k
<1>6. a = WORD * (at.hi + WORD * k) + at.lo
  BY <1>2, <1>3, <1>5
<1> QED BY <1>2, <1>3, <1>5, <1>6 DEF at

\* The difference of two readings is the number of cycles between them, although
\* the low word, or the whole counter, has wrapped in between.
LEMMA DifferenceIsExact ==
    ASSUME NEW a \in Int, NEW d \in Nat, d < WORD * WORD
    PROVE  get_counter(access_counter(a), access_counter((a + d) % (WORD * WORD))) = d
<1> DEFINE W == WORD
           b == (a + d) % (W * W)
           from == access_counter(a)
           to == access_counter(b)
           lo == (to.lo - from.lo) % W
           borrow == Borrow(lo, to.lo)
<1>1. W \in Nat /\ W > 0 /\ W * W \in Nat /\ W * W > 0
  BY ClockAssumption
<1>2. PICK k \in Int : b \in Int /\ b = a + d - (W * W) * k
  <2>1. a + d \in Int
    OBVIOUS
  <2> DEFINE c == a + d
  <2> HIDE DEF W, c
  <2>2. (c % (W * W)) \in 0 .. (W * W - 1) /\ c \div (W * W) \in Int
        /\ c = (W * W) * (c \div (W * W)) + (c % (W * W))
    BY <1>1, <2>1, DivMod DEF c
  <2>3. c % (W * W) \in Int /\ c % (W * W) = c - (W * W) * (c \div (W * W))
    BY <1>1, <2>1, <2>2 DEF c
  <2>4. b = c % (W * W)
    BY DEF c
  <2> HIDE DEF b
  <2> DEFINE kk == c \div (W * W)
  <2>5. kk \in Int /\ b \in Int /\ b = c - (W * W) * kk
    BY <2>2, <2>3, <2>4
  <2> HIDE DEF kk
  <2>6. c = a + d
    BY DEF c
  <2> QED BY <1>1, <2>1, <2>5, <2>6
<1>3. PICK i \in Int : a = W * (from.hi + W * i) + from.lo
  BY TwoWords
<1>4. PICK j \in Int : b = W * (to.hi + W * j) + to.lo
  BY <1>2, TwoWords
<1>5. /\ from.lo \in 0 .. (W - 1) /\ from.hi \in 0 .. (W - 1)
      /\ to.lo \in 0 .. (W - 1) /\ to.hi \in 0 .. (W - 1)
  BY <1>2, TwoWords
<1> HIDE DEF W, b, from, to
<1>6. lo \in 0 .. (W - 1) /\ borrow \in 0 .. 1 /\ to.lo - from.lo = lo - W * borrow
  <2>1. CASE to.lo >= from.lo
    <3>1. lo = to.lo - from.lo
      <4>1. (W * 0 + (to.lo - from.lo)) % W = to.lo - from.lo
        BY <2>1, <1>1, <1>5, ModIsRest
      <4>2. W * 0 + (to.lo - from.lo) = to.lo - from.lo
        BY <1>1, <1>5
      <4> QED BY <4>1, <4>2
    <3>2. borrow = 0
      BY <2>1, <3>1, <1>5, <1>1 DEF Borrow
    <3> QED BY <2>1, <3>1, <3>2, <1>5, <1>1
  <2>2. CASE to.lo < from.lo
    <3>1. lo = to.lo - from.lo + W
      <4>1. (W * (-1) + (to.lo - from.lo + W)) % W = to.lo - from.lo + W
        <5> DEFINE r == to.lo - from.lo + W
        <5>1. r \in Int /\ 0 <= r /\ r < W
          BY <2>2, <1>1, <1>5
        <5> HIDE DEF r
        <5>2. (W * (-1) + r) % W = r
          BY <5>1, <1>1, ModIsRest
        <5> QED BY <5>2 DEF r
      <4>2. W * (-1) + (to.lo - from.lo + W) = to.lo - from.lo
        BY <1>1, <1>5
      <4> QED BY <4>1, <4>2
    <3>2. borrow = 1
      BY <2>2, <3>1, <1>5, <1>1 DEF Borrow
    <3> QED BY <2>2, <3>1, <3>2, <1>5, <1>1
  <2> QED BY <2>1, <2>2, <1>5, <1>1
<1> HIDE DEF lo, borrow
<1> DEFINE q == to.hi - from.hi - borrow
           m == W * (k + j - i)
<1>7. d = W * (q + m) + lo
  <2>1. b - a = d - (W * W) * k
    BY <1>1, <1>2
  <2>2. b - a = W * (to.hi + W * j) - W * (from.hi + W * i) + (lo - W * borrow)
    BY <1>1, <1>3, <1>4, <1>5, <1>6
  <2>3. W * (to.hi + W * j) - W * (from.hi + W * i) + (lo - W * borrow) + (W * W) * k
        = W * (q + m) + lo
    <3>1. /\ W \in Int /\ to.hi \in Int /\ from.hi \in Int /\ lo \in Int /\ borrow \in Int
      BY <1>1, <1>5, <1>6
    <3> QED BY <3>1, Regroup
  <2> DEFINE kk == (W * W) * k
             diff == W * (to.hi + W * j) - W * (from.hi + W * i) + (lo - W * borrow)
  <2>4. b \in Int /\ kk \in Int /\ diff \in Int
    <3>1. /\ W \in Int /\ to.hi \in Int /\ from.hi \in Int /\ lo \in Int /\ borrow \in Int
      BY <1>1, <1>5, <1>6
    <3> QED BY <3>1, <1>2
  <2> HIDE DEF kk, diff, q, m
  <2>5. b - a = d - kk /\ b - a = diff /\ diff + kk = W * (q + m) + lo
    BY <2>1, <2>2, <2>3 DEF kk, diff
  <2>6. d = diff + kk
    BY <2>4, <2>5
  <2> QED BY <2>5, <2>6
<1>8. q \in Int /\ m \in Int /\ q + m \in 0 .. (W - 1)
  <2>1. q \in Int /\ m \in Int /\ q + m \in Int
    BY <1>1, <1>5, <1>6
  <2> HIDE DEF q, m
  <2> DEFINE n == q + m
  <2>2. n \in Int /\ d = W * n + lo
    BY <2>1, <1>7
  <2> HIDE DEF n
  <2>3. n >= 0
    <3>1. SUFFICES ASSUME n <= -1 PROVE FALSE
      BY <2>2
    <3>2. W * n <= W * (-1)
      BY <1>1, <2>2, <3>1
    <3> QED BY <1>1, <1>6, <2>2, <3>2
  <2>4. n < W
    <3>1. SUFFICES ASSUME n >= W PROVE FALSE
      BY <2>2, <1>1
    <3>2. W * n >= W * W
      BY <1>1, <2>2, <3>1
    <3>3. d < W * W
      BY DEF W
    <3> QED BY <1>1, <1>6, <2>2, <3>2, <3>3
  <2> QED BY <2>1, <2>2, <2>3, <2>4, <1>1 DEF n
<1>9. q % W = q + m
  <2>1. q = W * (0 - (k + j - i)) + (q + m)
    BY <1>1, <1>5, <1>6
  <2>2. 0 - (k + j - i) \in Int
    OBVIOUS
  <2> DEFINE u == 0 - (k + j - i)
             n == q + m
  <2>3. n \in Int /\ 0 <= n /\ n < W /\ u \in Int
    BY <1>8, <1>1
  <2> HIDE DEF u, n
  <2>4. (W * u + n) % W = n
    BY <2>3, <1>1, ModIsRest
  <2> QED BY <2>1, <2>4 DEF u, n
<1>10. get_counter(from, to) = (q % W) * W + lo
  BY DEF get_counter, lo, borrow, W
<1>11. get_counter(from, to) = (q + m) * W + lo
  BY <1>9, <1>10
<1> HIDE DEF q, m
<1>12. (q + m) * W + lo = d
  BY <1>1, <1>6, <1>7, <1>8
<1> QED BY <1>11, <1>12 DEF from, to, b, W

\* The cycles that the timer reports are those that went by, for every width of the
\* two words and wherever they wrap.
THEOREM MeasuredExactlyHolds == FcycSpec => []MeasuredExactly
<1>1. FcycInit => MeasuredExactly
  BY DEF FcycInit, MeasuredExactly
<1>2. SamplerInv /\ MeasuredExactly /\ [FcycNext]_cvars => MeasuredExactly'
  <2> SUFFICES ASSUME SamplerInv, MeasuredExactly, [FcycNext]_cvars PROVE MeasuredExactly'
    OBVIOUS
  <2>1. CASE samples' \in {{}, samples}
    BY <2>1 DEF MeasuredExactly
  <2>2. ASSUME NEW d \in Durations, NEW t \in 0 .. MaxTicks, Sample(d, t)
        PROVE  MeasuredExactly'
    <3> DEFINE measured == get_counter(access_counter(counter),
                                       access_counter((counter + d) % (WORD * WORD)))
    <3>1. counter \in Int /\ d \in Nat
      BY ClockAssumption DEF SamplerInv, Types
    <3>2. d < WORD * WORD => measured = d
      BY <3>1, DifferenceIsExact
    <3> DEFINE x == [nr |-> samplecount, cycles |-> d, measured |-> measured,
                     val |-> Corrected(measured, t)]
    <3>x. samples' = samples \cup {x}
      BY <2>2 DEF Sample
    <3> HIDE DEF measured
    <3>y. x.cycles = d /\ x.measured = measured
      OBVIOUS
    <3> HIDE DEF x
    <3>3. \A m \in samples' : m \in samples \/ (m.cycles = d /\ m.measured = measured)
      BY <3>x, <3>y
    <3> QED BY <3>2, <3>3 DEF MeasuredExactly
  <2>3. samples' \in {{}, samples} \/ \E d \in Durations, t \in 0 .. MaxTicks : Sample(d, t)
    BY DEF FcycNext, cvars, Start, StartCallibrate, StartSample, CallibrateRound
  <2> QED BY <2>1, <2>2, <2>3
<1> QED BY <1>1, <1>2, SamplerIsSound, PTL DEF FcycSpec

-----------------------------------------------------------------------------
(* Fit: both placement policies of lab11.c give each process the block     *)
(* that they promise, for every number of blocks and processes, all sizes. *)

FitTypes ==
    /\ arraySize \in [BlockIds -> Nat]
    /\ processSize \in [ProcIds -> Nat]
    /\ proc \in 0 .. process
    /\ n_arraySize \in [BlockIds -> Nat]
    /\ allocation \in [ProcIds -> Int]

\* Between the calls of the two functions nothing is placed.
NothingPlaced == policy \notin {"first", "best"} => proc = 0

\* What the placement promises for each process.
AllAsPromised == n_arraySize = LeftBefore[proc] /\ \A p \in Placed : AsPromised(p)

FitInv ==
    /\ FitTypes /\ NothingPlaced
    /\ NeverOvercommitted /\ RefusedForGood /\ NoEarlierBlock /\ AllAsPromised

\* What LeftBefore computes: an allocation takes the size of a process off its block.
LEMMA LeftBeforeStep ==
    FitTypes =>
        /\ LeftBefore \in [0 .. process -> [BlockIds -> Int]]
        /\ LeftBefore[0] = arraySize
        /\ \A p \in 1 .. process :
                LeftBefore[p] =
                    [b \in BlockIds |->
                        LeftBefore[p - 1][b] - IF allocation[p - 1] = b THEN processSize[p - 1] ELSE 0]
<1> SUFFICES ASSUME FitTypes
             PROVE  /\ LeftBefore \in [0 .. process -> [BlockIds -> Int]]
                    /\ LeftBefore[0] = arraySize
                    /\ \A p \in 1 .. process :
                            LeftBefore[p] =
                                [b \in BlockIds |->
                                    LeftBefore[p - 1][b]
                                    - IF allocation[p - 1] = b THEN processSize[p - 1] ELSE 0]
  OBVIOUS
<1> DEFINE V == [BlockIds -> Int]
           after(p, left) ==
                [b \in BlockIds |-> left[b] - IF allocation[p - 1] = b THEN processSize[p - 1] ELSE 0]
           next == [p \in 1 .. process |-> [left \in V |-> after(p, left)]]
<1>1. arraySize \in V /\ process \in Nat
  BY FitAssumption DEF FitTypes
<1>2. \A p \in 1 .. process, left \in V : after(p, left) \in V
  <2> SUFFICES ASSUME NEW p \in 1 .. process, NEW left \in V, NEW b \in BlockIds
               PROVE  left[b] - (IF allocation[p - 1] = b THEN processSize[p - 1] ELSE 0) \in Int
    OBVIOUS
  <2>1. p - 1 \in ProcIds
    BY <1>1 DEF ProcIds
  <2>2. processSize[p - 1] \in Int /\ left[b] \in Int
    BY <2>1 DEF FitTypes
  <2> QED BY <2>2
<1>3. next \in [1 .. process -> [V -> V]]
  BY <1>2
<1> HIDE DEF V, next
<1>4. PICK f : Iterates(f, process, V, arraySize, next)
  BY <1>1, <1>3, IterationExists
<1> DEFINE IsLeft(g) ==
        g = [p \in 0 .. process |->
                IF p = 0 THEN arraySize
                ELSE [b \in BlockIds |->
                        g[p - 1][b] - IF allocation[p - 1] = b THEN processSize[p - 1] ELSE 0]]
<1>5. \A p \in 1 .. process, left \in V : next[p][left] = after(p, left)
  BY DEF next
<1>6. \A p \in 0 .. process : f[p] = IF p = 0 THEN arraySize ELSE after(p, f[p - 1])
  <2> SUFFICES ASSUME NEW p \in 0 .. process
               PROVE  f[p] = IF p = 0 THEN arraySize ELSE after(p, f[p - 1])
    OBVIOUS
  <2>1. f[p] = IF p = 0 THEN arraySize ELSE next[p][f[p - 1]]
    BY <1>4 DEF Iterates
  <2>2. p # 0 => p \in 1 .. process /\ p - 1 \in 0 .. process
    BY <1>1
  <2>3. p # 0 => f[p - 1] \in V
    BY <1>4, <2>2 DEF Iterates
  <2> QED BY <1>5, <2>1, <2>2, <2>3
<1>7. IsLeft(f)
  BY <1>4, <1>6 DEF Iterates
<1>8. IsLeft(LeftBefore)
  BY <1>7 DEF LeftBefore
<1>9. /\ LeftBefore = [p \in 0 .. process |-> LeftBefore[p]]
      /\ LeftBefore[0] = arraySize
      /\ \A p \in 1 .. process : LeftBefore[p] = after(p, LeftBefore[p - 1])
  <2> DEFINE L == LeftBefore
  <2>1. IsLeft(L)
    BY <1>8
  <2> HIDE DEF L
  <2>2. L = [p \in 0 .. process |-> L[p]]
    BY <2>1
  <2>3. L[0] = arraySize
    BY <1>1, <2>1
  <2>4. \A p \in 0 .. process : p # 0 => L[p] = after(p, L[p - 1])
    BY <2>1
  <2>5. \A p \in 1 .. process : L[p] = after(p, L[p - 1])
    BY <2>4
  <2> QED BY <2>2, <2>3, <2>5 DEF L
<1>10. \A p \in 0 .. process : LeftBefore[p] \in V
  <2> DEFINE L == LeftBefore
             P == {p \in 0 .. process : L[p] \in V}
  <2>1. 0 \in P
    BY <1>1, <1>9
  <2>2. \A p \in 1 .. process : p - 1 \in P => p \in P
    <3> SUFFICES ASSUME NEW p \in 1 .. process, p - 1 \in P PROVE p \in P
      OBVIOUS
    <3>1. L[p - 1] \in V /\ p \in 0 .. process
      OBVIOUS
    <3>2. L[p] = after(p, L[p - 1])
      BY <1>9
    <3> QED BY <1>2, <3>1, <3>2
  <2> HIDE DEF P
  <2>3. 0 .. process \subseteq P
    BY <1>1, <2>1, <2>2, UpFromZero
  <2> QED BY <2>3 DEF P
<1> QED BY <1>9, <1>10 DEF V

\* A step that places the process proc leaves what was left before the others, and takes
\* its size off its block.
LEMMA PlacingTakesSize ==
    ASSUME FitTypes, FitTypes', UNCHANGED <<arraySize, processSize>>, proc \in ProcIds,
           \A p \in ProcIds : p # proc => allocation'[p] = allocation[p]
    PROVE  /\ \A p \in 0 .. proc : LeftBefore'[p] = LeftBefore[p]
           /\ LeftBefore'[proc + 1] =
                    [b \in BlockIds |->
                        LeftBefore[proc][b] - IF allocation'[proc] = b THEN processSize[proc] ELSE 0]
<1>1. /\ LeftBefore[0] = arraySize
      /\ \A p \in 1 .. process :
            LeftBefore[p] =
                [b \in BlockIds |->
                    LeftBefore[p - 1][b] - IF allocation[p - 1] = b THEN processSize[p - 1] ELSE 0]
  BY LeftBeforeStep
<1>2. /\ LeftBefore'[0] = arraySize'
      /\ \A p \in 1 .. process :
            LeftBefore'[p] =
                [b \in BlockIds |->
                    LeftBefore'[p - 1][b] - IF allocation'[p - 1] = b THEN processSize'[p - 1] ELSE 0]
  <2>1. (FitTypes =>
            /\ LeftBefore \in [0 .. process -> [BlockIds -> Int]]
            /\ LeftBefore[0] = arraySize
            /\ \A p \in 1 .. process :
                    LeftBefore[p] =
                        [b \in BlockIds |->
                            LeftBefore[p - 1][b]
                            - IF allocation[p - 1] = b THEN processSize[p - 1] ELSE 0])'
    BY LeftBeforeStep, PTL
  <2> QED BY <2>1
<1>3. process \in Nat /\ proc \in Nat /\ proc < process
  BY FitAssumption DEF ProcIds
<1> DEFINE P == {p \in 0 .. proc : LeftBefore'[p] = LeftBefore[p]}
<1>4. 0 \in P
  BY <1>1, <1>2, <1>3
<1>5. ASSUME NEW p \in 1 .. proc, p - 1 \in P
      PROVE  p \in P
  <2>1. p \in 1 .. process /\ p - 1 \in ProcIds /\ p - 1 # proc
    BY <1>3 DEF ProcIds
  <2>2. allocation'[p - 1] = allocation[p - 1] /\ LeftBefore'[p - 1] = LeftBefore[p - 1]
    BY <1>5, <2>1
  <2>3. LeftBefore'[p] =
            [b \in BlockIds |->
                LeftBefore[p - 1][b] - IF allocation[p - 1] = b THEN processSize[p - 1] ELSE 0]
    BY <1>2, <2>1, <2>2
  <2>4. LeftBefore'[p] = LeftBefore[p]
    BY <1>1, <2>1, <2>3
  <2> QED BY <2>4
<1> HIDE DEF P
<1>6. 0 .. proc \subseteq P
  <2>1. \A p \in 1 .. proc : p - 1 \in P => p \in P
    BY <1>5
  <2> QED BY <1>3, <1>4, <2>1, UpFromZero
<1>7. \A p \in 0 .. proc : LeftBefore'[p] = LeftBefore[p]
  BY <1>6 DEF P
<1>8. LeftBefore'[proc + 1] =
        [b \in BlockIds |->
            LeftBefore'[proc][b] - IF allocation'[proc] = b THEN processSize'[proc] ELSE 0]
  <2>1. proc + 1 \in 1 .. process /\ (proc + 1) - 1 = proc
    BY <1>3
  <2> QED BY <1>2, <2>1
<1> QED BY <1>3, <1>7, <1>8

LEMMA ChosenFits ==
    ASSUME NEW size, NEW b \in Chosen(size)
    PROVE  b \in BlockIds /\ size <= n_arraySize[b]
BY DEF Chosen, FirstBlock, BestBlock, Fitting

\* The blocks before the one that first chooses are too small.
LEMMA FirstBlockIsFirst ==
    ASSUME FitTypes, policy = "first", NEW size \in Nat, NEW b \in Chosen(size),
           NEW c \in BlockIds, c < b
    PROVE  n_arraySize[c] < size
<1>1. b \in BlockIds /\ \A x \in Fitting(size) : b <= x
  BY DEF Chosen, FirstBlock, Fitting
<1>2. c \notin Fitting(size)
  BY <1>1 DEF BlockIds
<1> QED BY <1>2 DEF Fitting, FitTypes

\* Both functions find a block when there is one.
LEMMA ChosenIfAny ==
    ASSUME FitTypes, NEW size \in Nat, Fitting(size) # {}
    PROVE  Chosen(size) # {}
<1>1. Fitting(size) \subseteq Nat /\ Fitting(size) \subseteq BlockIds
  BY DEF Fitting, BlockIds
<1>2. FirstBlock(size) # {}
  BY <1>1, LeastExists DEF FirstBlock
<1>3. BestBlock(size) # {}
  <2> DEFINE Rests == {n_arraySize[b] : b \in Fitting(size)}
  <2>1. Rests \subseteq Nat /\ Rests # {}
    BY <1>1 DEF FitTypes
  <2>2. PICK rest \in Rests : \A x \in Rests : rest <= x
    BY <2>1, LeastExists
  <2> DEFINE Ties == {b \in Fitting(size) : n_arraySize[b] = rest}
  <2>3. Ties \subseteq Nat /\ Ties # {}
    BY <1>1
  <2>4. PICK b \in Ties : \A c \in Ties : b <= c
    BY <2>3, LeastExists
  <2>5. \A c \in Fitting(size) : n_arraySize[b] < n_arraySize[c]
                                 \/ (n_arraySize[b] = n_arraySize[c] /\ b <= c)
    <3> TAKE c \in Fitting(size)
    <3>1. rest <= n_arraySize[c] /\ rest \in Nat /\ n_arraySize[c] \in Nat /\ n_arraySize[b] = rest
      BY <2>1, <2>2, <2>4
    <3>2. n_arraySize[c] = rest => b <= c
      BY <2>4
    <3> QED BY <3>1, <3>2
  <2> QED BY <2>4, <2>5 DEF BestBlock
<1> QED BY <1>2, <1>3 DEF Chosen

LEMMA FitInitInv == FitInit => FitInv
<1> SUFFICES ASSUME FitInit PROVE FitInv
  OBVIOUS
<1>1. Placed = {}
  BY DEF FitInit, Placed
<1>2. FitTypes
  BY FitAssumption DEF FitInit, FitTypes, Nowhere
<1>3. NeverOvercommitted
  BY DEF FitInit, NeverOvercommitted
<1>4. AllAsPromised
  <2>1. LeftBefore[0] = arraySize
    BY <1>2, LeftBeforeStep
  <2> QED BY <1>1, <2>1 DEF AllAsPromised, FitInit
<1>5. NothingPlaced /\ RefusedForGood /\ NoEarlierBlock
  BY <1>1 DEF NothingPlaced, RefusedForGood, NoEarlierBlock, FitInit
<1> QED BY <1>2, <1>3, <1>4, <1>5 DEF FitInv

\* main's calls start with the blocks as they are and nothing placed.
LEMMA CallsKeepInv ==
    ASSUME FitInv, Main \/ Return
    PROVE  FitInv'
<1>1. proc' = 0 /\ n_arraySize' = arraySize'
  BY DEF Main, Return, FitInv, NothingPlaced
<1>2. Placed' = {}
  BY <1>1 DEF Placed
<1>3. FitTypes'
  <2>1. arraySize' \in [BlockIds -> Nat] /\ processSize' \in [ProcIds -> Nat]
    <3>1. CASE Main
      <4>1. arraySize' \in [BlockIds -> FitSizes] /\ processSize' \in [ProcIds -> FitSizes]
        BY <3>1 DEF Main
      <4> QED BY <4>1, FitAssumption
    <3>2. CASE Return
      BY <3>2 DEF Return, FitInv, FitTypes
    <3> QED BY <3>1, <3>2
  <2>2. allocation' \in [ProcIds -> Int]
    BY DEF Main, Return, FitInv, FitTypes, Nowhere
  <2> QED BY <1>1, <2>1, <2>2, FitAssumption DEF FitTypes
<1>4. NeverOvercommitted'
  BY <1>1, <1>3 DEF NeverOvercommitted, FitTypes
<1>5. AllAsPromised'
  <2>1. (FitTypes => LeftBefore[0] = arraySize)'
    BY LeftBeforeStep, PTL
  <2> QED BY <1>1, <1>2, <1>3, <2>1 DEF AllAsPromised
<1>6. NothingPlaced' /\ RefusedForGood' /\ NoEarlierBlock'
  BY <1>1, <1>2 DEF NothingPlaced, RefusedForGood, NoEarlierBlock
<1> QED BY <1>3, <1>4, <1>5, <1>6 DEF FitInv

\* What a process takes off a block leaves less for all the others.
LEMMA AllocateKeepsInv ==
    ASSUME FitInv, Allocate
    PROVE  FitInv'
<1>1. PICK b \in Chosen(processSize[proc]) :
        /\ n_arraySize' = [n_arraySize EXCEPT ![b] = @ - processSize[proc]]
        /\ allocation' = [allocation EXCEPT ![proc] = b]
  BY DEF Allocate
<1>2. /\ policy \in {"first", "best"} /\ proc < process /\ proc' = proc + 1
      /\ UNCHANGED <<arraySize, processSize, policy>>
  BY DEF Allocate
<1>3. proc \in ProcIds /\ processSize[proc] \in Nat /\ process \in Nat
  BY <1>2, FitAssumption DEF FitInv, FitTypes, ProcIds
<1>4. b \in BlockIds /\ processSize[proc] <= n_arraySize[b]
  BY ChosenFits
<1>5. FitTypes'
  <2>1. n_arraySize[b] - processSize[proc] \in Nat
    BY <1>3, <1>4 DEF FitInv, FitTypes
  <2>2. b \in Int
    BY <1>4 DEF BlockIds
  <2> QED BY <1>1, <1>2, <1>3, <1>4, <2>1, <2>2 DEF FitInv, FitTypes
<1>6. \A c \in BlockIds : n_arraySize'[c] \in Nat /\ n_arraySize[c] \in Nat /\ n_arraySize'[c] <= n_arraySize[c]
  BY <1>1, <1>3, <1>4, <1>5 DEF FitInv, FitTypes
<1>7. NeverOvercommitted'
  <2> SUFFICES ASSUME NEW c \in BlockIds PROVE n_arraySize'[c] \in 0 .. arraySize[c]
    BY <1>2 DEF NeverOvercommitted
  <2>1. n_arraySize[c] \in 0 .. arraySize[c] /\ arraySize[c] \in Nat
    BY DEF FitInv, FitTypes, NeverOvercommitted
  <2> QED BY <2>1, <1>6
<1>8. Placed' = Placed \cup {proc} /\ proc \notin Placed
  BY <1>2 DEF FitInv, FitTypes, Placed
<1>9. /\ \A p \in Placed : p \in Nat /\ p # proc
      /\ \A p \in ProcIds : p # proc => allocation'[p] = allocation[p]
      /\ allocation'[proc] = b
  BY <1>1, <1>3, <1>8 DEF FitInv, FitTypes, Placed
<1>10. Placed \subseteq ProcIds
  BY <1>2, FitAssumption DEF Placed, ProcIds, FitInv, FitTypes
<1>11. RefusedForGood'
  <2> SUFFICES ASSUME NEW p \in Placed', allocation'[p] = -1, NEW c \in BlockIds
               PROVE  n_arraySize'[c] < processSize[p]
    BY <1>2 DEF RefusedForGood
  <2>1. p \in Placed /\ allocation[p] = -1
    BY <1>4, <1>8, <1>9, <1>10 DEF BlockIds
  <2>2. n_arraySize[c] < processSize[p] /\ processSize[p] \in Nat
    BY <2>1, <1>10 DEF FitInv, FitTypes, RefusedForGood
  <2> QED BY <2>2, <1>6
<1>12. NoEarlierBlock'
  <2> SUFFICES ASSUME policy = "first", NEW p \in Placed', NEW c \in BlockIds, c < allocation'[p]
               PROVE  n_arraySize'[c] < processSize[p]
    BY <1>2 DEF NoEarlierBlock
  <2>1. CASE p = proc
    <3>1. n_arraySize[c] < processSize[proc]
      BY <2>1, <1>3, <1>9, FirstBlockIsFirst DEF FitInv
    <3> QED BY <2>1, <3>1, <1>3, <1>6
  <2>2. CASE p # proc
    <3>1. p \in Placed /\ c < allocation[p]
      BY <2>2, <1>8, <1>9, <1>10
    <3>2. n_arraySize[c] < processSize[p] /\ processSize[p] \in Nat
      BY <3>1, <1>10 DEF FitInv, FitTypes, NoEarlierBlock
    <3> QED BY <3>2, <1>6
  <2> QED BY <2>1, <2>2
<1>13. NothingPlaced'
  BY <1>2 DEF NothingPlaced
<1>14. /\ \A p \in 0 .. proc : LeftBefore'[p] = LeftBefore[p]
       /\ LeftBefore'[proc + 1] =
            [c \in BlockIds |-> n_arraySize[c] - IF b = c THEN processSize[proc] ELSE 0]
  BY <1>2, <1>3, <1>5, <1>9, PlacingTakesSize DEF FitInv, AllAsPromised
<1>15. n_arraySize' = LeftBefore'[proc']
  <2>1. \A c \in BlockIds :
            n_arraySize'[c] = n_arraySize[c] - IF b = c THEN processSize[proc] ELSE 0
    BY <1>1, <1>3, <1>4 DEF FitInv, FitTypes
  <2>2. n_arraySize' = [c \in BlockIds |-> n_arraySize'[c]]
    BY <1>5 DEF FitTypes
  <2>3. [c \in BlockIds |-> n_arraySize'[c]]
        = [c \in BlockIds |-> n_arraySize[c] - IF b = c THEN processSize[proc] ELSE 0]
    BY <2>1
  <2> QED BY <1>2, <1>14, <2>2, <2>3
<1>16. ASSUME NEW p \in Placed'
       PROVE  AsPromised(p)'
  <2>1. CASE p = proc
    <3>1. LeftBefore'[p] = n_arraySize /\ allocation'[p] = b
      BY <1>3, <1>9, <1>14, <2>1 DEF FitInv, AllAsPromised, ProcIds
    <3>2. ASSUME NEW c \in BlockIds, processSize[p] <= n_arraySize[c]
          PROVE  /\ policy = "best" => n_arraySize[b] <= n_arraySize[c]
                 /\ policy = "first" => b <= c
      <4>1. c \in Fitting(processSize[proc])
        BY <2>1, <3>2 DEF Fitting
      <4>2. n_arraySize[b] \in Nat /\ n_arraySize[c] \in Nat
        BY <1>4 DEF FitInv, FitTypes
      <4> QED BY <4>1, <4>2 DEF Chosen, FirstBlock, BestBlock
    <3> QED BY <1>2, <1>4, <2>1, <3>1, <3>2 DEF AsPromised
  <2>2. CASE p # proc
    <3>1. p \in Placed /\ p \in 0 .. proc /\ allocation'[p] = allocation[p]
      BY <1>8, <1>9, <1>10, <2>2 DEF Placed, FitInv, FitTypes
    <3> QED BY <1>2, <1>14, <3>1 DEF FitInv, AllAsPromised, AsPromised
  <2> QED BY <2>1, <2>2
<1>17. AllAsPromised'
  BY <1>15, <1>16 DEF AllAsPromised
<1> QED BY <1>5, <1>7, <1>11, <1>12, <1>13, <1>17 DEF FitInv

LEMMA RefuseKeepsInv ==
    ASSUME FitInv, Refuse
    PROVE  FitInv'
<1>1. /\ policy \in {"first", "best"} /\ proc < process /\ proc' = proc + 1
      /\ Chosen(processSize[proc]) = {}
      /\ allocation' = [allocation EXCEPT ![proc] = -1]
      /\ UNCHANGED <<arraySize, processSize, policy, n_arraySize>>
  BY DEF Refuse
<1>2. proc \in ProcIds /\ processSize[proc] \in Nat
  BY <1>1, FitAssumption DEF FitInv, FitTypes, ProcIds
<1>3. \A c \in BlockIds : n_arraySize[c] < processSize[proc]
  <2>1. Fitting(processSize[proc]) = {}
    BY <1>1, <1>2, ChosenIfAny DEF FitInv
  <2> QED BY <2>1, <1>2 DEF Fitting, FitInv, FitTypes
<1>4. FitTypes'
  <2>1. allocation' \in [ProcIds -> Int]
    <3>1. allocation \in [ProcIds -> Int] /\ -1 \in Int
      BY DEF FitInv, FitTypes
    <3> QED BY <1>1, <3>1
  <2> QED BY <1>1, <2>1, FitAssumption DEF FitInv, FitTypes
<1>5. /\ Placed' = Placed \cup {proc}
      /\ \A p \in Placed : p \in ProcIds /\ p # proc /\ allocation'[p] = allocation[p]
      /\ allocation'[proc] = -1
  BY <1>1, <1>2, FitAssumption DEF FitInv, FitTypes, Placed, ProcIds
<1>6. RefusedForGood'
  BY <1>1, <1>3, <1>5 DEF FitInv, RefusedForGood
<1>7. NoEarlierBlock'
  <2> SUFFICES ASSUME policy = "first", NEW p \in Placed', NEW c \in BlockIds, c < allocation'[p]
               PROVE  n_arraySize[c] < processSize[p]
    BY <1>1 DEF NoEarlierBlock
  <2>1. p \in Placed /\ c < allocation[p]
    BY <1>5 DEF BlockIds
  <2> QED BY <2>1 DEF FitInv, NoEarlierBlock
<1>8. NeverOvercommitted' /\ NothingPlaced'
  BY <1>1 DEF FitInv, NeverOvercommitted, NothingPlaced
<1>9. \A p \in ProcIds : p # proc => allocation'[p] = allocation[p]
  BY <1>1 DEF FitInv, FitTypes
<1>10. /\ \A p \in 0 .. proc : LeftBefore'[p] = LeftBefore[p]
       /\ LeftBefore'[proc + 1] =
            [c \in BlockIds |-> n_arraySize[c] - IF -1 = c THEN processSize[proc] ELSE 0]
  BY <1>1, <1>2, <1>4, <1>5, <1>9, PlacingTakesSize DEF FitInv, AllAsPromised
<1>11. n_arraySize' = LeftBefore'[proc']
  <2>1. \A c \in BlockIds : n_arraySize[c] = n_arraySize[c] - IF -1 = c THEN processSize[proc] ELSE 0
    BY DEF BlockIds, FitInv, FitTypes
  <2>2. n_arraySize = [c \in BlockIds |-> n_arraySize[c]]
    BY DEF FitInv, FitTypes
  <2>3. [c \in BlockIds |-> n_arraySize[c]]
        = [c \in BlockIds |-> n_arraySize[c] - IF -1 = c THEN processSize[proc] ELSE 0]
    BY <2>1
  <2> QED BY <1>1, <1>10, <2>2, <2>3
<1>12. ASSUME NEW p \in Placed'
       PROVE  AsPromised(p)'
  <2>1. CASE p = proc
    BY <1>5, <2>1 DEF AsPromised
  <2>2. CASE p # proc
    <3>1. p \in Placed /\ p \in 0 .. proc /\ allocation'[p] = allocation[p]
      BY <1>5, <2>2 DEF Placed, FitInv, FitTypes
    <3> QED BY <1>1, <1>10, <3>1 DEF FitInv, AllAsPromised, AsPromised
  <2> QED BY <2>1, <2>2
<1>13. AllAsPromised'
  BY <1>11, <1>12 DEF AllAsPromised
<1> QED BY <1>4, <1>6, <1>7, <1>8, <1>13 DEF FitInv

\* First places each process in the first block that is large enough for it and best in
\* the one that it fills best, given those placed before it; no block is over-committed
\* and a refusal is for good, for every number of blocks and processes and all sizes.
THEOREM PlacementIsAsPromised == FitSpec => []PlacedAsPromised
<1>1. FitInv /\ [FitNext]_fit_vars => FitInv'
  <2> SUFFICES ASSUME FitInv, [FitNext]_fit_vars PROVE FitInv'
    OBVIOUS
  <2>1. CASE Main \/ Return
    BY <2>1, CallsKeepInv
  <2>2. CASE Allocate
    BY <2>2, AllocateKeepsInv
  <2>3. CASE Refuse
    BY <2>3, RefuseKeepsInv
  <2>4. CASE UNCHANGED fit_vars
    <3>1. LeftBefore' = LeftBefore
      BY <2>4 DEF fit_vars, LeftBefore
    <3> QED BY <2>4, <3>1 DEF fit_vars, FitInv, FitTypes, NothingPlaced, NeverOvercommitted,
                RefusedForGood, NoEarlierBlock, Placed, AllAsPromised, AsPromised
  <2> QED BY <2>1, <2>2, <2>3, <2>4 DEF FitNext
<1>2. FitInv => PlacedAsPromised
  BY DEF FitInv, AllAsPromised, PlacedAsPromised
<1> QED BY <1>1, <1>2, FitInitInv, PTL DEF FitSpec

-----------------------------------------------------------------------------
(* Btest: the timer of btest, for every limit and all sets of puzzles, and *)
(* the array of argument values, for every word size and all ranges.       *)

\* The puzzle before the current one, if any, was stopped after all its seconds: only
\* then is it certain that its timer has run out.
CleanBefore(k) == k > 0 => results[k].timedout /\ results[k].worked >= timeout_limit

Testing == {"vals", "setjmp", "alarm", "test", "total"}
Stages == Testing \cup {"start", "done", "lost", "overrun"}
Outcome == [errors : {0, 1}, timedout : BOOLEAN, worked : Nat]

BtestTypeOK ==
    /\ btest_stage \in Stages
    /\ results \in Seq(Outcome) /\ current = Len(results) + 1
    /\ timer \in 0 .. timeout_limit /\ pending \in BOOLEAN /\ worked \in Nat
    /\ envbuf.puzzle \in Nat

\* The timer runs while a puzzle is tested, and it has its seconds from the start of the test.
TimerOfTest ==
    /\ btest_stage \in {"setjmp", "alarm"} => worked = 0
    /\ btest_stage = "test" => timer + worked = timeout_limit
    /\ timeout_limit = 0 => ~pending

\* Where the jump out of the handler goes.
FrameOfTest ==
    /\ btest_stage \in {"start", "vals", "setjmp", "total"} => envbuf.puzzle < current
    /\ btest_stage \in {"alarm", "test"} =>
          envbuf.puzzle <= current /\ (timeout_limit > 0 => envbuf.puzzle = current)

\* After a puzzle that was stopped in time there is no timer and no signal left, until
\* the timer is set again; and then no signal before it has run out.
NoStaleTimer ==
    CleanBefore(current - 1) =>
        /\ btest_stage \notin {"test", "done", "lost"} => timer = 0 /\ ~pending
        /\ btest_stage = "test" /\ pending => timer = 0

BtestInv ==
    /\ BtestTypeOK /\ TimerOfTest /\ FrameOfTest /\ NoStaleTimer
    /\ OnlyStaleTimersMislead

LEMMA BtestInitInv == BtestInit => BtestInv
<1> SUFFICES ASSUME BtestInit PROVE BtestInv
  OBVIOUS
<1>1. BtestTypeOK
  <2>1. results = <<>> /\ results \in Seq(Outcome) /\ Len(results) = 0
    BY DEF BtestInit
  <2>2. envbuf.puzzle = 0
    BY DEF BtestInit, NoFrame
  <2>3. btest_stage = "start" /\ current = 1 /\ timer = 0 /\ pending = FALSE /\ worked = 0
    BY DEF BtestInit
  <2>4. 0 \in 0 .. timeout_limit
    BY LimitAssumption
  <2>5. current = Len(results) + 1
    BY <2>1, <2>3
  <2>6. btest_stage \in Stages /\ timer \in 0 .. timeout_limit /\ pending \in BOOLEAN /\ worked \in Nat
    BY <2>3, <2>4 DEF Stages
  <2> QED BY <2>1, <2>2, <2>5, <2>6 DEF BtestTypeOK
<1>2. TimerOfTest /\ FrameOfTest /\ NoStaleTimer
  BY DEF BtestInit, TimerOfTest, FrameOfTest, NoStaleTimer, Testing, NoFrame
<1>3. OnlyStaleTimersMislead
  BY DEF BtestInit, OnlyStaleTimersMislead
<1> QED BY <1>1, <1>2, <1>3 DEF BtestInv

\* What a step that leaves the results alone keeps.
LEMMA SameResults ==
    ASSUME OnlyStaleTimersMislead, UNCHANGED <<results, current>>,
           btest_stage' # "lost" \/ btest_stage = "lost"
    PROVE  OnlyStaleTimersMislead' /\ (CleanBefore(current - 1)' <=> CleanBefore(current - 1))
BY DEF OnlyStaleTimersMislead, CleanBefore

\* The invariant across the return of test_function.
LEMMA ReturnKeepsInv ==
    ASSUME BtestInv, NEW errors \in {0, 1}, NEW timedout \in BOOLEAN,
           TestReturns(errors, timedout), UNCHANGED <<timer, envbuf, worked>>,
           pending' \in BOOLEAN, timeout_limit = 0 => ~pending',
           envbuf.puzzle <= current,
           timedout => /\ timeout_limit > 0 /\ ~pending'
                       /\ worked >= timeout_limit => timer = 0
                       /\ worked < timeout_limit => ~CleanBefore(current - 1)
    PROVE  BtestInv'
<1> DEFINE k == current
           outcome == Result(errors, timedout)
<1>1. BtestTypeOK
  BY DEF BtestInv
<1>2. outcome \in Outcome /\ outcome.timedout = timedout /\ outcome.worked = worked
  BY <1>1 DEF Result, Outcome, BtestTypeOK
<1>3. results' = Append(results, outcome) /\ current' = current + 1 /\ btest_stage' \in {"total", "vals"}
  BY DEF TestReturns
<1> HIDE DEF outcome
<1>4. /\ results' \in Seq(Outcome) /\ Len(results') = Len(results) + 1
      /\ results'[k] = outcome
      /\ \A j \in 1 .. Len(results) : results'[j] = results[j]
  BY <1>1, <1>2, <1>3 DEF BtestTypeOK
<1>5. /\ k \in Nat /\ k > 0 /\ current' - 1 = k /\ timer' = timer /\ worked' = worked
      /\ timer \in Nat /\ worked \in Nat /\ timeout_limit \in Nat
  BY <1>1, <1>3, LimitAssumption DEF BtestTypeOK
<1>6. BtestTypeOK'
  BY <1>1, <1>3, <1>4 DEF BtestTypeOK, Stages, Testing
<1>7. TimerOfTest' /\ FrameOfTest'
  BY <1>1, <1>3, <1>5 DEF TimerOfTest, FrameOfTest, BtestTypeOK
<1>8. CleanBefore(current - 1)' <=> timedout /\ worked >= timeout_limit
  BY <1>2, <1>4, <1>5 DEF CleanBefore
<1>9. NoStaleTimer'
  BY <1>3, <1>5, <1>8 DEF NoStaleTimer
<1>10. OnlyStaleTimersMislead'
  <2>1. DOMAIN results' = 1 .. k /\ DOMAIN results = 1 .. (k - 1) /\ Len(results) = k - 1
    BY <1>1, <1>4, <1>5 DEF BtestTypeOK
  <2>2. ASSUME NEW j \in 1 .. k, results'[j].timedout, results'[j].worked < timeout_limit
        PROVE  j - 1 > 0 /\ (results'[j - 1].timedout => results'[j - 1].worked < timeout_limit)
    <3>1. CASE j < k
      <4>1. results'[j] = results[j] /\ j \in DOMAIN results
        <5>1. j \in 1 .. Len(results)
          BY <1>5, <2>1, <3>1
        <5> QED BY <1>4, <2>1, <5>1
      <4>2. j - 1 > 0 /\ (results[j - 1].timedout => results[j - 1].worked < timeout_limit)
        BY <2>2, <4>1 DEF BtestInv, OnlyStaleTimersMislead
      <4>3. results'[j - 1] = results[j - 1]
        <5>1. j - 1 \in 1 .. Len(results)
          BY <1>5, <2>1, <3>1, <4>2
        <5> QED BY <1>4, <5>1
      <4> QED BY <4>2, <4>3
    <3>2. CASE j = k
      <4>1. timedout /\ worked < timeout_limit
        BY <1>2, <1>4, <2>2, <3>2
      <4>2. ~CleanBefore(k - 1)
        BY <4>1
      <4>3. k - 1 > 0 /\ results'[k - 1] = results[k - 1] /\ results[k - 1] \in Outcome
        BY <1>1, <1>4, <1>5, <2>1, <4>2 DEF CleanBefore, BtestTypeOK
      <4>4. results[k - 1].worked \in Nat
        BY <4>3 DEF Outcome
      <4> QED BY <1>5, <3>2, <4>2, <4>3, <4>4 DEF CleanBefore
    <3> QED BY <1>5, <3>1, <3>2
  <2> QED BY <1>3, <2>1, <2>2 DEF OnlyStaleTimersMislead
<1> QED BY <1>6, <1>7, <1>9, <1>10 DEF BtestInv

LEMMA BtestStepInv == BtestInv /\ [BtestNext]_bvars => BtestInv'
<1> SUFFICES ASSUME BtestInv, [BtestNext]_bvars PROVE BtestInv'
  OBVIOUS
<1> USE LimitAssumption
<1>0. BtestTypeOK /\ TimerOfTest /\ FrameOfTest /\ NoStaleTimer /\ OnlyStaleTimersMislead
  BY DEF BtestInv
<1>1. CASE UNCHANGED bvars
  <2>1. OnlyStaleTimersMislead'
    BY <1>0, <1>1 DEF bvars, OnlyStaleTimersMislead
  <2>2. BtestTypeOK' /\ TimerOfTest' /\ FrameOfTest' /\ NoStaleTimer'
    BY <1>0, <1>1 DEF bvars, BtestTypeOK, TimerOfTest, FrameOfTest, NoStaleTimer, CleanBefore
  <2> QED BY <2>1, <2>2 DEF BtestInv
<1>2. CASE RunTests
  <2>1. OnlyStaleTimersMislead' /\ (CleanBefore(current - 1)' <=> CleanBefore(current - 1))
    BY <1>0, <1>2, SameResults DEF RunTests
  <2>2. BtestTypeOK' /\ TimerOfTest' /\ FrameOfTest' /\ NoStaleTimer'
    BY <1>0, <1>2, <2>1 DEF RunTests, BtestTypeOK, TimerOfTest, FrameOfTest, NoStaleTimer, Testing, Stages
  <2> QED BY <2>1, <2>2 DEF BtestInv
<1>3. CASE GenVals
  <2>1. OnlyStaleTimersMislead' /\ (CleanBefore(current - 1)' <=> CleanBefore(current - 1))
    BY <1>0, <1>3, SameResults DEF GenVals
  <2>2. BtestTypeOK' /\ TimerOfTest' /\ FrameOfTest' /\ NoStaleTimer'
    BY <1>0, <1>3, <2>1 DEF GenVals, BtestTypeOK, TimerOfTest, FrameOfTest, NoStaleTimer, Testing, Stages
  <2> QED BY <2>1, <2>2 DEF BtestInv
<1>4. CASE SetJmp
  <2>1. OnlyStaleTimersMislead' /\ (CleanBefore(current - 1)' <=> CleanBefore(current - 1))
    BY <1>0, <1>4, SameResults DEF SetJmp
  <2>2. envbuf' = IF timeout_limit > 0 THEN [puzzle |-> current, blocked |-> blocked] ELSE envbuf
    BY <1>4 DEF SetJmp, FrameOf, SavedMask
  <2>3. BtestTypeOK' /\ TimerOfTest' /\ FrameOfTest' /\ NoStaleTimer'
    BY <1>0, <1>4, <2>1, <2>2 DEF SetJmp, BtestTypeOK, TimerOfTest, FrameOfTest, NoStaleTimer, Testing, Stages
  <2> QED BY <2>1, <2>3 DEF BtestInv
<1>5. CASE Alarm
  <2>1. OnlyStaleTimersMislead' /\ (CleanBefore(current - 1)' <=> CleanBefore(current - 1))
    BY <1>0, <1>5, SameResults DEF Alarm
  <2>2. BtestTypeOK' /\ TimerOfTest' /\ FrameOfTest' /\ NoStaleTimer'
    BY <1>0, <1>5, <2>1 DEF Alarm, BtestTypeOK, TimerOfTest, FrameOfTest, NoStaleTimer, Testing, Stages
  <2> QED BY <2>1, <2>2 DEF BtestInv
<1>6. CASE Test
  <2>1. ErrorsOf(puzzle, arg_vals) \in {0, 1}
    BY DEF ErrorsOf
  <2>2. /\ TestReturns(ErrorsOf(puzzle, arg_vals), FALSE)
        /\ UNCHANGED <<timer, envbuf, worked>> /\ pending' = pending
    BY <1>6 DEF Test
  <2>3. envbuf.puzzle <= current
    BY <1>0, <1>6 DEF Test, FrameOfTest, BtestTypeOK
  <2>4. pending' \in BOOLEAN /\ (timeout_limit = 0 => ~pending')
    BY <1>0, <2>2 DEF BtestTypeOK, TimerOfTest
  <2> QED BY <2>1, <2>2, <2>3, <2>4, ReturnKeepsInv
<1>7. CASE Tick
  <2>1. OnlyStaleTimersMislead' /\ (CleanBefore(current - 1)' <=> CleanBefore(current - 1))
    BY <1>0, <1>7, SameResults DEF Tick
  <2>2. BtestTypeOK' /\ TimerOfTest' /\ FrameOfTest' /\ NoStaleTimer'
    BY <1>0, <1>7, <2>1 DEF Tick, BtestTypeOK, TimerOfTest, FrameOfTest, NoStaleTimer, Testing, Stages
  <2> QED BY <2>1, <2>2 DEF BtestInv
<1>8. CASE Timeout
  <2>1. /\ btest_stage \in Testing /\ pending /\ pending' = FALSE
        /\ UNCHANGED <<timer, envbuf, worked>>
    BY <1>8 DEF Timeout, Testing
  <2>2. timeout_limit > 0
    BY <1>0, <2>1 DEF TimerOfTest
  <2>3. CleanBefore(current - 1) => btest_stage = "test" /\ timer = 0
    BY <1>0, <2>1 DEF NoStaleTimer, Testing
  <2>4. CASE envbuf.puzzle = current
    <3>1. TestReturns(1, TRUE)
      BY <1>8, <2>4 DEF Timeout
    <3>2. btest_stage \in {"alarm", "test"}
      BY <1>0, <2>1, <2>4 DEF FrameOfTest, Testing, BtestTypeOK
    <3>3. timer + worked = timeout_limit \/ worked = 0
      BY <1>0, <3>2 DEF TimerOfTest
    <3>4. /\ worked >= timeout_limit => timer = 0
          /\ worked < timeout_limit => ~CleanBefore(current - 1)
      BY <1>0, <2>2, <2>3, <3>3 DEF BtestTypeOK, TimerOfTest
    <3>5. envbuf.puzzle <= current
      BY <1>0, <2>4 DEF BtestTypeOK
    <3> QED BY <2>1, <2>2, <3>1, <3>4, <3>5, ReturnKeepsInv
  <2>5. CASE envbuf.puzzle # current
    <3>1. btest_stage' = "lost" /\ UNCHANGED <<current, results>>
      BY <1>8, <2>5 DEF Timeout
    <3>2. ~CleanBefore(current - 1)
      BY <1>0, <2>2, <2>3, <2>5 DEF FrameOfTest
    <3>3. ~CleanBefore(current - 1)'
      BY <3>1, <3>2 DEF CleanBefore
    <3>4. OnlyStaleTimersMislead'
      <4>1. current - 1 \in DOMAIN results /\ results[current - 1] \in Outcome
        BY <1>0, <3>2 DEF CleanBefore, BtestTypeOK
      <4>2. results[current - 1].worked \in Nat
        BY <4>1 DEF Outcome
      <4>3. current - 1 > 0
            /\ (results[current - 1].timedout => results[current - 1].worked < timeout_limit)
        BY <3>2, <4>2 DEF CleanBefore
      <4> QED BY <1>0, <3>1, <4>3 DEF OnlyStaleTimersMislead
    <3>5. BtestTypeOK' /\ TimerOfTest' /\ FrameOfTest' /\ NoStaleTimer'
      BY <1>0, <2>1, <3>1, <3>3 DEF BtestTypeOK, TimerOfTest, FrameOfTest, NoStaleTimer, Testing, Stages
    <3> QED BY <3>4, <3>5 DEF BtestInv
  <2> QED BY <2>4, <2>5
<1>9. CASE Total
  <2>1. OnlyStaleTimersMislead' /\ (CleanBefore(current - 1)' <=> CleanBefore(current - 1))
    BY <1>0, <1>9, SameResults DEF Total
  <2>2. BtestTypeOK' /\ TimerOfTest' /\ FrameOfTest' /\ NoStaleTimer'
    BY <1>0, <1>9, <2>1 DEF Total, BtestTypeOK, TimerOfTest, FrameOfTest, NoStaleTimer, Testing, Stages
  <2> QED BY <2>1, <2>2 DEF BtestInv
<1>10. CASE GenValsOverruns
  <2>1. OnlyStaleTimersMislead' /\ (CleanBefore(current - 1)' <=> CleanBefore(current - 1))
    BY <1>0, <1>10, SameResults DEF GenValsOverruns
  <2>2. BtestTypeOK' /\ TimerOfTest' /\ FrameOfTest' /\ NoStaleTimer'
    BY <1>0, <1>10, <2>1 DEF GenValsOverruns, BtestTypeOK, TimerOfTest, FrameOfTest, NoStaleTimer, Testing, Stages
  <2> QED BY <2>1, <2>2 DEF BtestInv
<1> QED BY <1>1, <1>2, <1>3, <1>4, <1>5, <1>6, <1>7, <1>8, <1>9, <1>10 DEF BtestNext

\* btest calls a puzzle an infinite loop only after its seconds, and jumps into no frame
\* that is gone, unless the puzzle before it left its timer running (test_function,
\* timeout_handler): for every limit, any puzzles, and whenever signals are delivered.
THEOREM OnlyStaleTimersMisleadHolds == BtestSpec => []OnlyStaleTimersMislead
<1>1. BtestInv => OnlyStaleTimersMislead
  BY DEF BtestInv
<1> QED BY <1>1, BtestInitInv, BtestStepInv, PTL DEF BtestSpec

-----------------------------------------------------------------------------
(* The array of argument values. *)

PuzzleTested ==
    /\ btest_stage = "start" => current = 1
    /\ btest_stage # "start" => test_set \in test_sets
    /\ btest_stage \in {"vals", "setjmp", "alarm", "test"} => current \in 1 .. Len(test_set)

LEMMA ReturnKeepsPuzzle ==
    ASSUME PuzzleTested, btest_stage \in {"vals", "setjmp", "alarm", "test"}, test_set' = test_set,
           NEW errors, NEW timedout, TestReturns(errors, timedout)
    PROVE  PuzzleTested'
<1>1. test_set \in test_sets /\ current \in 1 .. Len(test_set)
  BY DEF PuzzleTested
<1>2. Len(test_set) \in Nat
  BY <1>1, PuzzlesAssumption
<1> QED BY <1>1, <1>2 DEF PuzzleTested, TestReturns

LEMMA PuzzleStep == PuzzleTested /\ BtestInv /\ [BtestNext]_bvars => PuzzleTested'
<1> SUFFICES ASSUME PuzzleTested, BtestInv, [BtestNext]_bvars PROVE PuzzleTested'
  OBVIOUS
<1>1. CASE UNCHANGED bvars
  BY <1>1 DEF bvars, PuzzleTested
<1>2. CASE RunTests
  <2>1. test_set' \in test_sets /\ current' = 1 /\ btest_stage' = "vals"
    BY <1>2 DEF RunTests, PuzzleTested
  <2>2. Len(test_set') \in Nat /\ Len(test_set') >= 1
    BY <2>1, PuzzlesAssumption
  <2> QED BY <2>1, <2>2 DEF PuzzleTested
<1>3. CASE GenVals \/ GenValsOverruns \/ SetJmp \/ Alarm \/ Total \/ Tick
  BY <1>3 DEF GenVals, GenValsOverruns, SetJmp, Alarm, Total, Tick, PuzzleTested
<1>4. CASE Test
  <2>1. btest_stage = "test" /\ test_set' = test_set /\ TestReturns(ErrorsOf(puzzle, arg_vals), FALSE)
    BY <1>4 DEF Test
  <2> QED BY <2>1, ReturnKeepsPuzzle
<1>5. CASE Timeout
  <2>1. CASE envbuf.puzzle = current
    <3>1. TestReturns(1, TRUE) /\ test_set' = test_set
      BY <1>5, <2>1 DEF Timeout
    <3>2. btest_stage \in {"alarm", "test"}
      BY <1>5, <2>1 DEF Timeout, BtestInv, FrameOfTest, BtestTypeOK
    <3> QED BY <3>1, <3>2, ReturnKeepsPuzzle
  <2>2. CASE envbuf.puzzle # current
    BY <1>5, <2>2 DEF Timeout, PuzzleTested
  <2> QED BY <2>1, <2>2
<1> QED BY <1>1, <1>2, <1>3, <1>4, <1>5 DEF BtestNext

\* The range of an argument is between 1 and TEST_RANGE.
LEMMA ArgRangeInRange ==
    ASSUME NEW args
    PROVE  ArgRange(args) \in 1 .. TEST_RANGE
<1> USE RangeAssumption
<1> DEFINE n == TEST_RANGE
           Roots == {k \in 1 .. n : k * k <= n}
           LeftOut == {n - k : k \in Roots}
<1>1. 1 \in Roots
  OBVIOUS
<1>2. LeftOut \subseteq Nat /\ LeftOut # {}
  <2>1. \A k \in Roots : n - k \in Nat
    OBVIOUS
  <2> QED BY <1>1, <2>1
<1>3. PICK d \in LeftOut : \A e \in LeftOut : d <= e
  BY <1>2, LeastExists
<1>4. PICK k \in Roots : d = n - k
  OBVIOUS
<1>5. \A y \in Roots : k >= y
  <2>1. \A y \in Roots : n - k <= n - y
    BY <1>3, <1>4
  <2>2. \A y \in Roots : y \in Nat /\ k \in Nat /\ n \in Nat
    OBVIOUS
  <2> QED BY <2>1, <2>2
<1>6. Root(n) \in Roots
  BY <1>5 DEF Root, Max
<1> QED BY <1>6 DEF ArgRange

LEMMA CountOfSome ==
    ASSUME NEW range \in Nat, NEW S, S \subseteq 0 .. (range - 1)
    PROVE  Cardinality(S) \in Nat /\ Cardinality(S) <= range
<1>1. IsFiniteSet(0 .. (range - 1)) /\ Cardinality(0 .. (range - 1)) <= range
  <2>1. 0 \in Int /\ range - 1 \in Int
    OBVIOUS
  <2>2. /\ IsFiniteSet(0 .. (range - 1))
        /\ Cardinality(0 .. (range - 1)) = IF 0 > range - 1 THEN 0 ELSE range - 1 - 0 + 1
    BY <2>1, FS_Interval
  <2> QED BY <2>2
<1>2. IsFiniteSet(S) /\ Cardinality(S) <= Cardinality(0 .. (range - 1))
  BY <1>1, FS_Subset
<1>3. Cardinality(S) \in Nat /\ Cardinality(0 .. (range - 1)) \in Nat
  BY <1>1, <1>2, FS_CardinalityType
<1> QED BY <1>1, <1>2, <1>3

\* The greatest int, and the size of the array, are numbers.
LEMMA SignIsNat == Sign \in Nat /\ MAX_TEST_VALS < Sign /\ Ints \subseteq Int
<1>1. WIDTH - 1 \in Nat
  BY WordAssumption
<1>2. Sign \in Int
  BY <1>1 DEF Sign
<1> QED BY <1>2, RangeAssumption DEF Ints

\* gen_vals writes beyond the array only one value of an exhaustive range.
LEMMA CountFits ==
    ASSUME NEW r \in Ints \X Ints, NEW range \in 1 .. TEST_RANGE, NEW wraps \in BOOLEAN,
           TestCount(r, range, wraps) > MAX_TEST_VALS
    PROVE  TestCount(r, range, wraps) = MAX_TEST_VALS + 1 /\ r[2] - r[1] = MAX_TEST_VALS
<1> USE RangeAssumption
<1>1. CASE IsFloat(r)
  <2> DEFINE least == IF range > 2^FRAC THEN 2^FRAC ELSE range
  <2>1. FRAC \in Nat /\ 2^FRAC \in Int
    <3>1. FRAC \in Nat
      BY WordAssumption DEF FRAC
    <3> QED BY <3>1
  <2>2. least \in Int /\ least <= TEST_RANGE
    BY <2>1
  <2>3. TestCount(r, range, wraps) = 12 * least + 4
    BY <1>1 DEF TestCount
  <2> HIDE DEF least
  <2>4. 12 * least + 4 <= 13 * TEST_RANGE
    BY <2>2
  <2> QED BY <2>2, <2>3, <2>4
<1>2. CASE ~IsFloat(r) /\ Exhaustive(r, wraps)
  <2>1. TestCount(r, range, wraps) = IF r[1] > r[2] THEN 0 ELSE r[2] - r[1] + 1
    BY <1>2 DEF TestCount
  <2>2. r[1] \in Int /\ r[2] \in Int /\ Sign \in Nat
    BY SignIsNat
  <2>3. r[2] - MAX_TEST_VALS <= r[1]
    BY <1>2, <2>2 DEF Exhaustive, LeastMin
  <2> QED BY <1>2, <2>1, <2>2, <2>3
<1>3. CASE ~IsFloat(r) /\ ~Exhaustive(r, wraps)
  <2> DEFINE Up == {i \in 0 .. (range - 1) : r[1] <= i /\ i <= r[2]}
             Down == {i \in 0 .. (range - 1) : r[1] <= 0 - i /\ 0 - i <= r[2]}
  <2>1. TestCount(r, range, wraps) = 3 * range + Cardinality(Up) + Cardinality(Down)
    BY <1>3 DEF TestCount
  <2>2. Up \subseteq 0 .. (range - 1) /\ Down \subseteq 0 .. (range - 1)
    OBVIOUS
  <2> HIDE DEF Up, Down
  <2>3. /\ Cardinality(Up) \in Nat /\ Cardinality(Up) <= range
        /\ Cardinality(Down) \in Nat /\ Cardinality(Down) <= range
    <3>1. range \in Nat
      OBVIOUS
    <3> QED BY <2>2, <3>1, CountOfSome
  <2> QED BY <2>1, <2>3
<1> QED BY <1>1, <1>2, <1>3

\* The loop over a range never ends only when the range is up to the greatest int and not
\* larger than the array by more than one.
LEMMA EndlessRange ==
    ASSUME NEW r \in Ints \X Ints, Endless(r)
    PROVE  r[2] = Sign - 1 /\ r[2] - r[1] \in 0 .. MAX_TEST_VALS
<1>1. /\ r[1] \in Int /\ r[2] \in Int /\ Sign \in Nat /\ MAX_TEST_VALS < Sign
      /\ MAX_TEST_VALS \in Nat
  BY SignIsNat, RangeAssumption
<1>2. r[1] <= r[2] /\ r[2] = Sign - 1 /\ LeastMin(r, TRUE) <= r[1]
  BY DEF Endless, Exhaustive
<1>3. LeastMin(r, TRUE) = r[2] - MAX_TEST_VALS
  BY <1>1, <1>2 DEF LeastMin
<1>4. r[2] - MAX_TEST_VALS <= r[1]
  BY <1>2, <1>3
<1>5. r[2] - r[1] <= MAX_TEST_VALS /\ r[2] - r[1] \in Nat
  BY <1>1, <1>2, <1>4
<1> QED BY <1>1, <1>2, <1>5

\* The ranges of the puzzle that is tested.
LEMMA RangesOfPuzzle ==
    ASSUME PuzzleTested, btest_stage = "vals", NEW a \in 1 .. puzzle.args
    PROVE  puzzle.ranges[a] \in Ints \X Ints
<1>1. test_set \in test_sets /\ current \in 1 .. Len(test_set)
  BY DEF PuzzleTested
<1> DEFINE Puzzle == [name : STRING, args : 0 .. 2, ranges : Seq(Ints \X Ints), rating : Int]
<1>2. /\ test_set \in Seq(Puzzle)
      /\ \A k \in DOMAIN test_set : Len(test_set[k].ranges) >= test_set[k].args
  BY <1>1, PuzzlesAssumption
<1>3. puzzle \in Puzzle /\ Len(puzzle.ranges) >= puzzle.args
  <2> HIDE DEF Puzzle
  <2>1. current \in DOMAIN test_set
    BY <1>1, <1>2
  <2>2. test_set[current] \in Puzzle
    BY <1>1, <1>2
  <2> QED BY <1>2, <2>1, <2>2 DEF puzzle
<1>4. puzzle.ranges \in Seq(Ints \X Ints) /\ puzzle.args \in 0 .. 2
  BY <1>3
<1>5. a \in 1 .. Len(puzzle.ranges)
  BY <1>3, <1>4
<1> QED BY <1>4, <1>5

LEMMA GenValsFitStep == PuzzleTested /\ BtestInv /\ GenValsFit /\ [BtestNext]_bvars => GenValsFit'
<1> SUFFICES ASSUME PuzzleTested, BtestInv, GenValsFit, [BtestNext]_bvars PROVE GenValsFit'
  OBVIOUS
<1>1. CASE UNCHANGED <<test_set, current, test_counts, btest_stage>>
  <2>1. puzzle' = puzzle
    BY <1>1 DEF puzzle
  <2> QED BY <1>1, <2>1 DEF GenValsFit
<1>2. CASE GenVals
  <2>1. btest_stage = "vals" /\ btest_stage' = "setjmp" /\ test_set' = test_set /\ current' = current
    BY <1>2 DEF GenVals
  <2>2. puzzle' = puzzle
    BY <2>1 DEF puzzle
  <2>3. PICK wraps \in [1 .. puzzle.args -> BOOLEAN] :
          test_counts' = [a \in 1 .. puzzle.args |->
                            TestCount(puzzle.ranges[a], ArgRange(puzzle.args), wraps[a])]
    BY <1>2 DEF GenVals
  <2>4. ASSUME NEW a \in 1 .. puzzle.args, test_counts'[a] > MAX_TEST_VALS
        PROVE  test_counts'[a] = MAX_TEST_VALS + 1
               /\ puzzle.ranges[a][2] - puzzle.ranges[a][1] = MAX_TEST_VALS
    <3>1. test_counts'[a] = TestCount(puzzle.ranges[a], ArgRange(puzzle.args), wraps[a])
      BY <2>3
    <3>2. puzzle.ranges[a] \in Ints \X Ints /\ wraps[a] \in BOOLEAN
      BY <2>1, RangesOfPuzzle
    <3>3. ArgRange(puzzle.args) \in 1 .. TEST_RANGE
      BY ArgRangeInRange
    <3> QED BY <2>4, <3>1, <3>2, <3>3, CountFits
  <2> QED BY <2>1, <2>2, <2>4 DEF GenValsFit
<1>3. CASE GenValsOverruns
  <2>1. /\ btest_stage = "vals" /\ btest_stage' = "overrun"
        /\ test_set' = test_set /\ current' = current
    BY <1>3 DEF GenValsOverruns
  <2>2. puzzle' = puzzle
    BY <2>1 DEF puzzle
  <2>3. PICK a \in 1 .. puzzle.args : Endless(puzzle.ranges[a])
    BY <1>3 DEF GenValsOverruns
  <2>4. puzzle.ranges[a] \in Ints \X Ints
    BY <2>1, RangesOfPuzzle
  <2>5. /\ puzzle.ranges[a][2] = Sign - 1
        /\ puzzle.ranges[a][2] - puzzle.ranges[a][1] \in 0 .. MAX_TEST_VALS
    BY <2>3, <2>4, EndlessRange
  <2> QED BY <2>1, <2>2, <2>5 DEF GenValsFit
<1>4. CASE btest_stage' \notin {"setjmp", "overrun"}
  BY <1>4 DEF GenValsFit
<1>5. CASE RunTests \/ SetJmp \/ Alarm \/ Total
  <2>1. btest_stage' \notin {"setjmp", "overrun"}
    BY <1>5 DEF RunTests, SetJmp, Alarm, Total
  <2> QED BY <1>4, <2>1
<1>6. CASE Test \/ Timeout
  <2>1. btest_stage' \in {"total", "vals", "lost"}
    BY <1>6 DEF Test, Timeout, TestReturns
  <2> QED BY <1>4, <2>1
<1>7. CASE Tick
  BY <1>1, <1>7 DEF Tick
<1>8. CASE UNCHANGED bvars
  BY <1>1, <1>8 DEF bvars
<1> QED BY <1>2, <1>3, <1>5, <1>6, <1>7, <1>8 DEF BtestNext

\* What gen_vals writes fits in the array of MAX_TEST_VALS values, but for one value of a
\* range that has MAX_TEST_VALS + 1 of them; and the loop that writes it ends, but for a
\* range of at most as many up to the greatest int: for every word size, range and number
\* of arguments, and whether the arithmetic of int wraps or not (btest.c, lines 198-200).
THEOREM GenValsFitHolds == BtestSpec => []GenValsFit
<1>1. BtestInit => PuzzleTested /\ GenValsFit
  BY DEF BtestInit, PuzzleTested, GenValsFit
<1> QED BY <1>1, PuzzleStep, GenValsFitStep, BtestInitInv, BtestStepInv, PTL DEF BtestSpec
=============================================================================
