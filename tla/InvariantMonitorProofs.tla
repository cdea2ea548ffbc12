----------------------- MODULE InvariantMonitorProofs -----------------------
(***************************************************************************)
(* Proofs about one safety invariant of the engine, for every              *)
(* specification, quantity, horizon and history of commands.  The engine   *)
(* keeps a timer, two totals, two peaks and an open interval; the          *)
(* properties speak of the whole record of evaluations.                    *)
(***************************************************************************)
EXTENDS InvariantMonitor, FiniteSetTheorems, SequenceTheorems, TLAPS

-----------------------------------------------------------------------------
(* Sets of samples, and sequences.                                          *)

\* An element that bounds the set is the one Max chooses.
LEMMA MaxIs ==
    ASSUME NEW S \in SUBSET Int, NEW x \in S, \A y \in S : x >= y
    PROVE  Max(S) = x
<1>1. \A z \in S : (\A y \in S : z >= y) => z = x
  OBVIOUS
<1> QED
  BY <1>1 DEF Max

\* The same below.
LEMMA MinIs ==
    ASSUME NEW S \in SUBSET Int, NEW x \in S, \A y \in S : x <= y
    PROVE  Min(S) = x
<1>1. \A z \in S : (\A y \in S : z <= y) => z = x
  OBVIOUS
<1> QED
  BY <1>1 DEF Min

\* A set of samples is finite and no larger than their number.
LEMMA SamplesAreFew ==
    ASSUME NEW n \in Nat, NEW S \in SUBSET (0..(n - 1))
    PROVE  IsFiniteSet(S) /\ Cardinality(S) \in 0..n
<1>1. IsFiniteSet(0..(n - 1)) /\ Cardinality(0..(n - 1)) = n
  BY FS_Interval
<1>2. IsFiniteSet(S) /\ Cardinality(S) <= n
  BY <1>1, FS_Subset
<1> QED
  BY <1>2, FS_CardinalityType

\* One sample more: the set of those that qualify grows by it or stays.
LEMMA OneMoreSample ==
    ASSUME NEW n \in Nat, NEW S \in SUBSET (0..(n - 1)), NEW T,
           T = S \cup {n} \/ T = S
    PROVE  /\ n \in T => T = S \cup {n} /\ Cardinality(T) = Cardinality(S) + 1
           /\ n \notin T => T = S
<1>1. n \notin S
  OBVIOUS
<1>2. IsFiniteSet(S)
  BY SamplesAreFew
<1> QED
  BY <1>1, <1>2, FS_AddElement

\* Appending keeps what was there.
LEMMA Appended ==
    ASSUME NEW S, NEW s \in Seq(S), NEW elt \in S
    PROVE  /\ Append(s, elt) \in Seq(S)
           /\ Len(s) \in Nat /\ Len(Append(s, elt)) = Len(s) + 1
           /\ \A i \in 1..Len(s) : Append(s, elt)[i] = s[i]
           /\ Append(s, elt)[Len(s) + 1] = elt
OBVIOUS

\* What is in a sequence is in the set it is drawn from.
LEMMA Elements ==
    ASSUME NEW S, NEW s \in Seq(S)
    PROVE  Len(s) \in Nat /\ DOMAIN s = 1..Len(s) /\ (\A i \in 1..Len(s) : s[i] \in S)
OBVIOUS

\* Replacing the last element of a sequence keeps the others.
LEMMA LastReplaced ==
    ASSUME NEW S, NEW s \in Seq(S), NEW elt \in S, s # <<>>
    PROVE  LET t == [s EXCEPT ![Len(s)] = elt]
           IN  /\ t \in Seq(S) /\ Len(t) = Len(s) /\ t # <<>>
               /\ \A i \in 1..(Len(s) - 1) : t[i] = s[i]
               /\ t[Len(s)] = elt
OBVIOUS

-----------------------------------------------------------------------------
(* What the bookkeeping knows of the record.                                *)

Evaluation == [reading : Readings, status : {"ok", "approaching", "violated"}]

TypeInv ==
    /\ bound \in Specs
    /\ {breachFor, violatedFor, approachedFor} \subseteq 0..Now
    /\ peak \in Nat
    /\ firstViolation \in Nat \cup {None}
    /\ intervals \in Seq(Interval)
    /\ open \in BOOLEAN /\ finished \in BOOLEAN
    /\ open => intervals # <<>>
    /\ evaluations \in Seq(Evaluation)
    /\ Now <= Horizon
    /\ finished => Now = Horizon /\ ~open

\* The timer is the length of the run of breaching samples at the end.
Breaches ==
    /\ breachFor \in 0..Now
    /\ \A u \in (Now - breachFor)..(Now - 1) : BreachedAt(u)
    /\ breachFor < Now => ~BreachedAt(Now - breachFor - 1)

\* The i-th interval is a run of violations that is as long as it can be so far;
\* only the open one has no end, and only the last of a finished run ends with it.
IsOpen(i) == open /\ i = Len(intervals)

Begins(start) ==
    start \in Samples /\ (start = 0 \/ ~ViolatedAt(start - 1))

OpenRun(start) ==
    Begins(start) /\ \A t \in start..(Now - 1) : ViolatedAt(t)

ClosedRun(start, end) ==
    /\ Begins(start)
    /\ end \in Nat /\ start < end
    /\ \A t \in start..(end - 1) : ViolatedAt(t)
    /\ \/ end < Now /\ ~ViolatedAt(end)
       \/ finished /\ end = Now

RunSoFar(i) ==
    \A start, end :
        start = intervals[i].start /\ end = intervals[i].end =>
            IF IsOpen(i) THEN end = None /\ OpenRun(start) ELSE ClosedRun(start, end)

Covers(i, t) ==
    /\ intervals[i].start <= t
    /\ IsOpen(i) \/ t < intervals[i].end

IntervalsSoFar ==
    /\ \A i \in 1..Len(intervals) : RunSoFar(i)
    /\ \A i \in 2..Len(intervals) : intervals[i - 1].end < intervals[i].start
    /\ \A t \in Samples : ViolatedAt(t) => \E i \in 1..Len(intervals) : Covers(i, t)

\* The totals, with the first violation as the least of them.
Violations == {t \in Samples : ViolatedAt(t)}
Warnings == {t \in Samples : At(t).status = "approaching"}

TotalsSoFar ==
    /\ violatedFor = Cardinality(Violations)
    /\ approachedFor = Cardinality(Warnings)
    /\ IF Violations = {} THEN firstViolation = None
       ELSE firstViolation \in Violations /\ \A t \in Violations : firstViolation <= t

\* The peak of an interval is a value of its samples, and none of them is worse;
\* the excursion is that of a violation, or none, and no violation has a larger.
NoWorse(value, other) == IF bound.kind = "lower" THEN value <= other ELSE value >= other

PeaksSoFar ==
    bound.kind \in {"upper", "lower"} =>
        /\ \A i \in 1..Len(intervals) :
            /\ \E t \in Samples : Covers(i, t) /\ At(t).reading.value = intervals[i].peak
            /\ \A t \in Samples :
                Covers(i, t) => NoWorse(intervals[i].peak, At(t).reading.value)
        /\ peak = 0 \/ \E t \in Violations : peak = Excursion(At(t).reading.value)
        /\ \A t \in Violations : peak >= Excursion(At(t).reading.value)

MonitorInv ==
    /\ RateTypeOK /\ TypeInv
    /\ Breaches /\ ViolationsPersist
    /\ IntervalsSoFar /\ TotalsSoFar /\ PeaksSoFar

-----------------------------------------------------------------------------
(* The history of commands.                                                 *)

\* A single start is within the limit of a young experiment, and a breach is a
\* violation at once: so the shipped specification of INV-004.
RateSpecsFair ==
    \A spec \in Specs :
        spec.kind = "rate" =>
            /\ spec.tolerance <= 1
            /\ spec.limit * MinRateWindow >= 10 * RateWindow

Starts == {u \in 0..(Len(commands) - 1) : commands[u + 1].start}

\* v is at least a pace after u.
PaceAfter(u, v) ==
    (v - u) * (bound.limit * MinRateWindow - 10 * RateWindow)
        >= 10 * RateWindow * MinRateWindow

PacedSoFar == \A u, v \in Starts : u < v => PaceAfter(u, v)

StartsFrom(a) == {u \in Starts : u >= a}

\* From any time on, as many starts as there are paces up to the last of them.
AsManyAsPaces ==
    \A a \in 0..Len(commands) :
        \/ StartsFrom(a) = {}
        \/ \E v \in StartsFrom(a) :
            /\ \A u \in Starts : u <= v
            /\ (v - a) * (bound.limit * MinRateWindow - 10 * RateWindow)
                >= (Cardinality(StartsFrom(a)) - 1) * (10 * RateWindow * MinRateWindow)

RateInv ==
    bound.kind = "rate" =>
        /\ Len(commands) = Now
        /\ startTimes = {u \in Starts : Now - 1 - u <= RateWindow}
        /\ PacedSoFar => AsManyAsPaces

-----------------------------------------------------------------------------
(* One evaluation.                                                          *)

\* What a violation does, and what any other evaluation does.
Violated(reading) ==
    /\ Persists(reading)
    /\ violatedFor' = violatedFor + 1 /\ approachedFor' = approachedFor
    /\ peak' = Greater(peak, Excursion(reading.value))
    /\ Extend(reading)
    /\ open' = TRUE
    /\ firstViolation' = IF firstViolation = None THEN Now ELSE firstViolation

Spared(reading, status) ==
    /\ ~Persists(reading)
    /\ \/ status = "approaching" /\ approachedFor' = approachedFor + 1
       \/ status = "ok" /\ approachedFor' = approachedFor
    /\ Close
    /\ violatedFor' = violatedFor /\ peak' = peak /\ firstViolation' = firstViolation

\* One evaluation more, of this reading and with this status.
Evaluated(reading, status) ==
    /\ reading \in Readings /\ status \in {"ok", "approaching", "violated"}
    /\ Now \in Nat /\ Now' = Now + 1 /\ Now < Horizon
    /\ bound' = bound /\ finished' = finished
    /\ evaluations' \in Seq(Evaluation)
    /\ \A j \in 1..Now : evaluations'[j] = evaluations[j]
    /\ evaluations'[Now + 1].reading = reading /\ evaluations'[Now + 1].status = status
    /\ CountBreach(reading)
    /\ \/ status = "violated" /\ Violated(reading)
       \/ status # "violated" /\ Spared(reading, status)

\* That is what the three branches do.
LEMMA OneEvaluation ==
    ASSUME TypeInv, NEW reading \in Readings, Evaluate(reading)
    PROVE  \E status : Evaluated(reading, status)
<1>1. PICK status \in {"ok", "approaching", "violated"} :
        /\ Record(reading, status)
        /\ CountBreach(reading)
        /\ \/ status = "violated" /\ Violated(reading)
           \/ status # "violated" /\ Spared(reading, status)
  <2>1. CASE Violate(reading)
    BY <2>1 DEF Violate, Violated
  <2>2. CASE Warn(reading)
    BY <2>2 DEF Warn, Spared
  <2>3. CASE Pass(reading)
    BY <2>3 DEF Pass, Spared, Persists
  <2> QED
    BY <2>1, <2>2, <2>3 DEF Evaluate
<1> DEFINE row == [reading |-> reading, status |-> status]
<1>2. evaluations \in Seq(Evaluation) /\ row \in Evaluation
  BY DEF TypeInv, Evaluation
<1>3. evaluations' = Append(evaluations, row)
  BY <1>1 DEF Record
<1> HIDE DEF row
<1>4. /\ evaluations' \in Seq(Evaluation)
      /\ Len(evaluations) \in Nat /\ Len(evaluations') = Len(evaluations) + 1
      /\ \A i \in 1..Len(evaluations) : evaluations'[i] = evaluations[i]
      /\ evaluations'[Len(evaluations) + 1] = row
  BY <1>2, <1>3, Appended
<1>5. row.reading = reading /\ row.status = status
  BY DEF row
<1>6. Now < Horizon /\ bound' = bound /\ finished' = finished
  BY DEF Evaluate
<1>7. Evaluated(reading, status)
  BY <1>1, <1>4, <1>5, <1>6 DEF Evaluated, Now
<1> QED
  BY <1>7

\* The past of the record stays, and the last sample is the one evaluated.
LEMMA RecordGrows ==
    ASSUME NEW reading, NEW status, Evaluated(reading, status)
    PROVE  /\ Samples' = Samples \cup {Now} /\ Now \notin Samples /\ Samples \subseteq Nat
           /\ \A t \in Samples : /\ At(t)' = At(t)
                                 /\ ViolatedAt(t)' <=> ViolatedAt(t)
                                 /\ BreachedAt(t)' <=> BreachedAt(t)
           /\ \A t : t = Now =>
                /\ At(t)'.reading = reading /\ At(t)'.status = status
                /\ ViolatedAt(t)' <=> status = "violated"
                /\ BreachedAt(t)' <=> Breaching(bound, reading)
<1>1. Samples' = Samples \cup {Now} /\ Now \notin Samples /\ Samples \subseteq Nat
  BY DEF Evaluated, Samples
<1>2. ASSUME NEW t \in Samples PROVE At(t)' = At(t)
  BY DEF Evaluated, Samples, At
<1>3. ASSUME NEW t, t = Now PROVE At(t)'.reading = reading /\ At(t)'.status = status
  BY <1>3 DEF Evaluated, At
<1>4. bound' = bound
  BY DEF Evaluated
<1> QED
  BY <1>1, <1>2, <1>3, <1>4 DEF ViolatedAt, BreachedAt

\* What an interval looks like after a violation: the open one with the worse
\* peak, or a new one.
LEMMA ExtendedIntervals ==
    ASSUME TypeInv, NEW reading, Evaluated(reading, "violated")
    PROVE  /\ intervals' \in Seq(Interval) /\ intervals' # <<>> /\ open' = TRUE
           /\ Len(intervals) \in Nat
           /\ open => /\ Len(intervals') = Len(intervals) /\ Len(intervals) >= 1
                      /\ \A i \in 1..Len(intervals) :
                            /\ intervals'[i].start = intervals[i].start
                            /\ intervals'[i].end = intervals[i].end
                      /\ \A i \in 1..(Len(intervals) - 1) : intervals'[i] = intervals[i]
                      /\ intervals'[Len(intervals)].peak =
                            Worse(reading.value, intervals[Len(intervals)].peak)
           /\ ~open => /\ Len(intervals') = Len(intervals) + 1
                       /\ \A i \in 1..Len(intervals) : intervals'[i] = intervals[i]
                       /\ intervals'[Len(intervals) + 1] =
                            [start |-> Now, end |-> None, peak |-> reading.value]
<1>1. Extend(reading) /\ open' = TRUE /\ reading.value \in Int /\ Now \in Nat
  BY DEF Evaluated, Violated, Readings
<1>2. intervals \in Seq(Interval) /\ Len(intervals) \in Nat
  BY DEF TypeInv
<1>3. CASE open
  <2> DEFINE n == Len(intervals)
             last == [intervals[n] EXCEPT !.peak = Worse(reading.value, @)]
  <2>1. intervals' = [intervals EXCEPT ![n] = last]
    BY <1>1, <1>3 DEF Extend
  <2>2. intervals # <<>> /\ n \in 1..n
    BY <1>2, <1>3 DEF TypeInv
  <2>3. intervals[n] \in Interval
    BY <1>2, <2>2, Elements
  <2>4. /\ last \in Interval /\ last.start = intervals[n].start /\ last.end = intervals[n].end
        /\ last.peak = Worse(reading.value, intervals[n].peak)
    <3>1. Worse(reading.value, intervals[n].peak) \in Int
      BY <1>1, <2>3 DEF Worse, Lesser, Greater, Interval
    <3> QED
      BY <2>3, <3>1 DEF Interval
  <2> HIDE DEF last
  <2>5. /\ intervals' \in Seq(Interval) /\ Len(intervals') = n /\ intervals' # <<>>
        /\ \A i \in 1..(n - 1) : intervals'[i] = intervals[i]
        /\ intervals'[n] = last
    BY <1>2, <2>1, <2>2, <2>4, LastReplaced
  <2>6. \A i \in 1..n : i = n \/ i \in 1..(n - 1)
    BY <1>2
  <2> QED
    BY <1>1, <1>2, <1>3, <2>2, <2>4, <2>5, <2>6
<1>4. CASE ~open
  <2> DEFINE new == [start |-> Now, end |-> None, peak |-> reading.value]
  <2>1. intervals' = Append(intervals, new) /\ new \in Interval
    BY <1>1, <1>4 DEF Extend, Interval
  <2> HIDE DEF new
  <2>2. /\ intervals' \in Seq(Interval) /\ intervals' # <<>>
        /\ Len(intervals') = Len(intervals) + 1
        /\ \A i \in 1..Len(intervals) : intervals'[i] = intervals[i]
        /\ intervals'[Len(intervals) + 1] = new
    BY <1>2, <2>1, Appended
  <2> QED
    BY <1>1, <1>2, <1>4, <2>2 DEF new
<1> QED
  BY <1>3, <1>4

\* What closing leaves: the open interval gets its end, and nothing else moves.
LEMMA ClosedIntervals ==
    ASSUME TypeInv, Close
    PROVE  /\ intervals' \in Seq(Interval) /\ open' = FALSE
           /\ Len(intervals) \in Nat /\ Len(intervals') = Len(intervals)
           /\ \A i \in 1..Len(intervals) :
                /\ intervals'[i].start = intervals[i].start
                /\ intervals'[i].peak = intervals[i].peak
                /\ intervals'[i].end = IF IsOpen(i) THEN Now ELSE intervals[i].end
<1>1. intervals \in Seq(Interval) /\ Len(intervals) \in Nat /\ Now \in Nat /\ open' = FALSE
  BY DEF TypeInv, Now, Close
<1>2. CASE open
  <2> DEFINE n == Len(intervals)
             last == [intervals[n] EXCEPT !.end = Now]
  <2>1. intervals' = [intervals EXCEPT ![n] = last]
    BY <1>2 DEF Close
  <2>2. intervals # <<>> /\ n \in 1..n
    BY <1>1, <1>2 DEF TypeInv
  <2>3. intervals[n] \in Interval
    BY <1>1, <2>2, Elements
  <2>4. /\ last \in Interval /\ last.start = intervals[n].start /\ last.end = Now
        /\ last.peak = intervals[n].peak
    BY <1>1, <2>3 DEF Interval
  <2> HIDE DEF last
  <2>5. /\ intervals' \in Seq(Interval) /\ Len(intervals') = n
        /\ \A i \in 1..(n - 1) : intervals'[i] = intervals[i]
        /\ intervals'[n] = last
    BY <1>1, <2>1, <2>2, <2>4, LastReplaced
  <2>6. \A i \in 1..n : i = n \/ (i \in 1..(n - 1) /\ i # n)
    BY <1>1
  <2> QED
    BY <1>1, <1>2, <2>4, <2>5, <2>6 DEF IsOpen
<1>3. CASE ~open
  BY <1>1, <1>3 DEF Close, IsOpen
<1> QED
  BY <1>2, <1>3

-----------------------------------------------------------------------------
(* What an evaluation preserves.                                            *)

\* The bound specification is one of the kinds.
LEMMA BoundTyped == TypeInv => bound \in SpecType
BY MonitorAssumption DEF TypeInv

\* The totals stay within the samples, the sequences within their types.
LEMMA TypeStep ==
    ASSUME TypeInv, NEW reading, NEW status, Evaluated(reading, status)
    PROVE  TypeInv'
<1>1. /\ bound' \in Specs /\ finished' \in BOOLEAN /\ Now' = Now + 1 /\ Now \in Nat
      /\ Now' <= Horizon /\ ~finished' /\ evaluations' \in Seq(Evaluation)
  BY MonitorAssumption DEF TypeInv, Evaluated
<1>2. breachFor' \in 0..Now'
  BY <1>1 DEF TypeInv, Evaluated, CountBreach
<1>3. CASE status = "violated"
  <2>1. Violated(reading)
    BY <1>3 DEF Evaluated
  <2>2. intervals' \in Seq(Interval) /\ open' \in BOOLEAN /\ intervals' # <<>>
    BY <1>3, ExtendedIntervals
  <2>3. peak' \in Nat
    <3>1. Excursion(reading.value) \in Int
      BY BoundTyped DEF Evaluated, Readings, SpecType, Excursion, Greater
    <3> QED
      BY <2>1, <3>1 DEF Violated, TypeInv, Greater
  <2> QED
    BY <1>1, <1>2, <2>1, <2>2, <2>3 DEF Violated, TypeInv
<1>4. CASE status # "violated"
  <2>1. Spared(reading, status)
    BY <1>4 DEF Evaluated
  <2>2. intervals' \in Seq(Interval) /\ open' = FALSE
    BY <2>1, ClosedIntervals DEF Spared
  <2> QED
    <3>1. /\ violatedFor' = violatedFor /\ peak' = peak /\ firstViolation' = firstViolation
          /\ approachedFor' = approachedFor \/ approachedFor' = approachedFor + 1
      BY <2>1 DEF Spared
    <3>2. violatedFor' \in 0..Now' /\ approachedFor' \in 0..Now'
      BY <1>1, <3>1 DEF TypeInv
    <3> QED
      BY <1>1, <1>2, <2>2, <3>1, <3>2 DEF TypeInv
<1> QED
  BY <1>3, <1>4

\* The timer follows the breaches.
LEMMA BreachesStep ==
    ASSUME TypeInv, Breaches, NEW reading, NEW status, Evaluated(reading, status)
    PROVE  Breaches'
<1>1. /\ breachFor' = IF Breaching(bound, reading) THEN breachFor + 1 ELSE 0
      /\ Now \in Nat /\ Now' = Now + 1
  BY DEF Evaluated, CountBreach
<1>2. /\ Samples = 0..(Now - 1)
      /\ \A t \in Samples : BreachedAt(t)' <=> BreachedAt(t)
      /\ \A t : t = Now => (BreachedAt(t)' <=> Breaching(bound, reading))
  BY RecordGrows DEF Samples
<1>3. /\ breachFor \in 0..Now
      /\ \A u \in (Now - breachFor)..(Now - 1) : BreachedAt(u)
      /\ breachFor < Now => ~BreachedAt(Now - breachFor - 1)
  BY DEF Breaches
<1>4. CASE Breaching(bound, reading)
  <2>1. breachFor' = breachFor + 1
    BY <1>1, <1>4
  <2>2. ASSUME NEW u \in (Now' - breachFor')..(Now' - 1) PROVE BreachedAt(u)'
    <3>1. u = Now \/ u \in (Now - breachFor)..(Now - 1)
      BY <1>1, <1>3, <2>1
    <3> QED
      BY <1>1, <1>2, <1>3, <1>4, <3>1
  <2>3. ASSUME NEW u, u = Now' - breachFor' - 1, breachFor' < Now' PROVE ~BreachedAt(u)'
    <3>1. u = Now - breachFor - 1 /\ u \in Samples /\ breachFor < Now
      BY <1>1, <1>2, <1>3, <2>1, <2>3
    <3> QED
      BY <1>2, <1>3, <3>1
  <2>4. breachFor' \in 0..Now'
    BY <1>1, <1>3, <2>1
  <2> QED
    BY <2>2, <2>3, <2>4 DEF Breaches
<1>5. CASE ~Breaching(bound, reading)
  <2>1. breachFor' = 0
    BY <1>1, <1>5
  <2>2. ASSUME NEW u, u = Now' - 0 - 1 PROVE ~BreachedAt(u)'
    BY <1>1, <1>2, <1>5, <2>2
  <2> QED
    BY <1>1, <2>1, <2>2 DEF Breaches
<1> QED
  BY <1>4, <1>5

\* A sample is a violation when the breach has lasted for the tolerance.
LEMMA PersistStep ==
    ASSUME TypeInv, Breaches, ViolationsPersist,
           NEW reading, NEW status, Evaluated(reading, status)
    PROVE  ViolationsPersist'
<1>0. PICK wait : wait = Greater(1, bound.tolerance)
  OBVIOUS
<1>1. /\ Now \in Nat /\ Now' = Now + 1 /\ bound' = bound
      /\ status = "violated" <=> Persists(reading)
  BY DEF Evaluated, Violated, Spared
<1>2. bound.tolerance \in Nat /\ wait \in Nat /\ wait >= 1 /\ wait >= bound.tolerance
      /\ (wait = 1 \/ wait = bound.tolerance)
  BY <1>0, BoundTyped DEF SpecType, Greater
<1>3. /\ Samples = 0..(Now - 1) /\ Samples' = Samples \cup {Now}
      /\ \A t \in Samples : /\ BreachedAt(t)' <=> BreachedAt(t)
                            /\ ViolatedAt(t)' <=> ViolatedAt(t)
      /\ \A t : t = Now => /\ BreachedAt(t)' <=> Breaching(bound, reading)
                           /\ ViolatedAt(t)' <=> status = "violated"
  BY RecordGrows DEF Samples
<1>4. ASSUME NEW t \in Samples
      PROVE  ViolatedAt(t)' <=> t + 1 - wait >= 0 /\ \A u \in (t + 1 - wait)..t : BreachedAt(u)'
  <2>1. ViolatedAt(t) <=> t + 1 - wait >= 0 /\ \A u \in (t + 1 - wait)..t : BreachedAt(u)
    BY <1>0 DEF ViolationsPersist
  <2>2. t + 1 - wait >= 0 => \A u \in (t + 1 - wait)..t : u \in Samples
    BY <1>1, <1>2, <1>3
  <2> QED
    BY <1>3, <2>1, <2>2
<1>5. ASSUME NEW t, t = Now
      PROVE  ViolatedAt(t)' <=> t + 1 - wait >= 0 /\ \A u \in (t + 1 - wait)..t : BreachedAt(u)'
  <2>9. PICK b : b = breachFor'
    OBVIOUS
  <2>1. /\ b \in 0..(Now + 1)
        /\ \A u \in (Now + 1 - b)..Now : BreachedAt(u)'
        /\ \A u : u = Now - b /\ b < Now + 1 => ~BreachedAt(u)'
    <3>1. Breaches' /\ Now' - 1 = Now
      BY <1>1, BreachesStep
    <3>2. b \in 0..(Now + 1)
      BY <1>1, <2>9, <3>1 DEF Breaches
    <3>3. Now' - b - 1 = Now - b /\ Now' - b = Now + 1 - b
      BY <1>1, <3>2
    <3> QED
      BY <1>1, <2>9, <3>1, <3>2, <3>3 DEF Breaches
  <2>2. status = "violated" <=> b >= wait
    <3>1. b = IF Breaching(bound, reading) THEN breachFor + 1 ELSE 0
      BY <2>9 DEF Evaluated, CountBreach
    <3>2. breachFor \in Nat
      BY <1>1 DEF TypeInv
    <3>3. Breaching(bound, reading) <=> b >= 1
      BY <3>1, <3>2
    <3> QED
      BY <1>0, <1>1, <1>2, <2>1, <2>9, <3>3 DEF Persists
  <2>0. b \in Int /\ wait \in Int /\ Now \in Int /\ (wait <= Now + 1 <=> t + 1 - wait >= 0)
    BY <1>1, <1>2, <1>5, <2>1
  <2>3. CASE b >= wait
    <3>1. \A u \in (t + 1 - wait)..t : u \in (Now + 1 - b)..Now
      <4>1. t \in Int /\ b \in Int /\ wait \in Int /\ t = Now
        BY <1>5, <2>0
      <4> QED
        BY <2>3, <4>1
    <3>2. t + 1 - wait >= 0
      BY <1>1, <1>2, <1>5, <2>1, <2>3
    <3> QED
      BY <1>3, <1>5, <2>1, <2>2, <2>3, <3>1, <3>2
  <2>4. CASE b < wait
    <3>1. ~(status = "violated")
      BY <1>2, <2>1, <2>2, <2>4
    <3>0. b >= 0
      BY <1>1, <2>1
    <3>2. t + 1 - wait >= 0 => Now - b \in (t + 1 - wait)..t /\ b < Now + 1
      <4>1. t \in Int /\ b \in Int /\ wait \in Int /\ t = Now
        BY <1>5, <2>0
      <4>2. t + 1 - wait >= 0 => t - b \in (t + 1 - wait)..t /\ b < t + 1
        BY <2>4, <3>0, <4>1
      <4> QED
        BY <4>1, <4>2
    <3>3. t + 1 - wait >= 0 => \E u \in (t + 1 - wait)..t : ~BreachedAt(u)'
      BY <2>1, <3>2
    <3> QED
      BY <1>3, <1>5, <3>1, <3>3
  <2> QED
    BY <1>2, <2>1, <2>3, <2>4
<1>6. \A t \in Samples' :
        ViolatedAt(t)' <=> t + 1 - wait >= 0 /\ \A u \in (t + 1 - wait)..t : BreachedAt(u)'
  BY <1>3, <1>4, <1>5
<1> QED
  BY <1>0, <1>1, <1>6 DEF ViolationsPersist

\* What the rows of the intervals are: times.
LEMMA IntervalFields ==
    ASSUME TypeInv, NEW i \in 1..Len(intervals)
    PROVE  /\ intervals[i].start \in Nat /\ intervals[i].end \in Nat \cup {None}
           /\ intervals[i].peak \in Int
<1>1. intervals[i] \in Interval
  BY Elements DEF TypeInv
<1> QED
  BY <1>1 DEF Interval

\* A closed run stays what it is; an open one is lengthened by a violation and
\* ends at any other sample.
LEMMA RunsStay ==
    ASSUME TypeInv, NEW reading, NEW status, Evaluated(reading, status),
           NEW start, NEW end
    PROVE  /\ ClosedRun(start, end) => ClosedRun(start, end)' /\ start < end /\ end < Now
           /\ OpenRun(start) /\ status = "violated" => OpenRun(start)'
           /\ OpenRun(start) /\ status # "violated" /\ end = Now => ClosedRun(start, end)'
<1>1. /\ Now \in Nat /\ Now' = Now + 1 /\ ~finished
      /\ Samples = 0..(Now - 1) /\ Samples' = Samples \cup {Now}
      /\ \A t \in Samples : ViolatedAt(t)' <=> ViolatedAt(t)
      /\ \A t : t = Now => (ViolatedAt(t)' <=> status = "violated")
  BY MonitorAssumption, RecordGrows DEF Evaluated, TypeInv, Samples
<1>2. Begins(start) => Begins(start)' /\ start \in Nat /\ start < Now
  BY <1>1 DEF Begins
<1>3. ClosedRun(start, end) => ClosedRun(start, end)' /\ start < end /\ end < Now
  <2> SUFFICES ASSUME ClosedRun(start, end)
               PROVE  ClosedRun(start, end)' /\ start < end /\ end < Now
    OBVIOUS
  <2>1. start \in Nat /\ end \in Nat /\ start < end /\ end < Now /\ ~ViolatedAt(end)
    BY <1>1, <1>2 DEF ClosedRun
  <2>2. end \in Samples /\ \A t \in start..(end - 1) : t \in Samples
    BY <1>1, <2>1
  <2> QED
    BY <1>1, <1>2, <2>1, <2>2 DEF ClosedRun
<1>4. OpenRun(start) /\ status = "violated" => OpenRun(start)'
  <2>1. start \in Nat => \A t \in start..(Now' - 1) : t = Now \/ t \in start..(Now - 1)
    BY <1>1
  <2>2. start \in Nat => \A t \in start..(Now - 1) : t \in Samples
    BY <1>1
  <2> QED
    BY <1>1, <1>2, <2>1, <2>2 DEF OpenRun
<1>5. OpenRun(start) /\ status # "violated" /\ end = Now => ClosedRun(start, end)'
  <2>1. start \in Nat => \A t \in start..(Now - 1) : t \in Samples
    BY <1>1
  <2> QED
    BY <1>1, <1>2, <2>1 DEF OpenRun, ClosedRun
<1> QED
  BY <1>3, <1>4, <1>5

\* A violation lengthens the open run or begins one; it cannot begin one next to
\* another, for the sample before would have been part of that.
LEMMA ViolatedIntervals ==
    ASSUME TypeInv, IntervalsSoFar, NEW reading, Evaluated(reading, "violated")
    PROVE  IntervalsSoFar'
<1> DEFINE n == Len(intervals)
<1>1. /\ Now \in Nat /\ Now' = Now + 1 /\ ~finished /\ n \in Nat
      /\ Samples = 0..(Now - 1) /\ Samples' = Samples \cup {Now}
      /\ \A t \in Samples : ViolatedAt(t)' <=> ViolatedAt(t)
      /\ \A t : t = Now => ViolatedAt(t)'
  BY MonitorAssumption, RecordGrows DEF Evaluated, TypeInv, Samples
<1>2. /\ \A i \in 1..n : RunSoFar(i)
      /\ \A i \in 2..n : intervals[i - 1].end < intervals[i].start
      /\ \A t \in Samples : ViolatedAt(t) => \E i \in 1..n : Covers(i, t)
  BY DEF IntervalsSoFar
<1>3. CASE open
  <2>1. /\ Len(intervals') = n /\ n >= 1 /\ open'
        /\ \A i \in 1..n : /\ intervals'[i].start = intervals[i].start
                           /\ intervals'[i].end = intervals[i].end
    BY <1>3, ExtendedIntervals
  <2>2. \A i \in 1..n : IsOpen(i)' <=> IsOpen(i)
    BY <1>3, <2>1 DEF IsOpen
  <2>3. ASSUME NEW i \in 1..n PROVE RunSoFar(i)'
    BY <1>2, <2>1, <2>2, RunsStay DEF RunSoFar
  <2>4. \A i \in 2..n : intervals'[i - 1].end < intervals'[i].start
    BY <1>1, <1>2, <2>1
  <2>5. \A i \in 1..n : \A t : Covers(i, t)' <=> Covers(i, t)
    BY <2>1, <2>2 DEF Covers
  <2>6. ASSUME NEW t, t = Now PROVE \E i \in 1..n : Covers(i, t)
    <3>1. n \in 1..n /\ IsOpen(n)
      BY <1>1, <1>3, <2>1 DEF IsOpen
    <3>2. intervals[n].start \in Samples
      BY <1>2, <3>1 DEF RunSoFar, OpenRun, Begins
    <3> QED
      BY <1>1, <2>6, <3>1, <3>2 DEF Covers
  <2>7. \A t \in Samples' : ViolatedAt(t)' => \E i \in 1..n : Covers(i, t)'
    BY <1>1, <1>2, <2>5, <2>6
  <2> QED
    BY <2>1, <2>3, <2>4, <2>7 DEF IntervalsSoFar
<1>4. CASE ~open
  <2> DEFINE new == [start |-> Now, end |-> None, peak |-> reading.value]
  <2>1. /\ Len(intervals') = n + 1 /\ open'
        /\ \A i \in 1..n : intervals'[i] = intervals[i]
        /\ intervals'[n + 1].start = Now /\ intervals'[n + 1].end = None
    <3>1. intervals'[n + 1] = new /\ new.start = Now /\ new.end = None
      BY <1>4, ExtendedIntervals
    <3> HIDE DEF new
    <3> QED
      BY <1>4, <3>1, ExtendedIntervals
  <2>2. \A i \in 1..n : ~IsOpen(i) /\ ~IsOpen(i)'
    BY <1>1, <1>4, <2>1 DEF IsOpen
  <2>3. \A i \in 1..n : ClosedRun(intervals[i].start, intervals[i].end)
    BY <1>2, <2>2 DEF RunSoFar
  <2>4. ASSUME NEW i \in 1..n PROVE RunSoFar(i)' /\ intervals[i].end < Now /\ intervals[i].end \in Nat
    <3>1. PICK start, end : start = intervals[i].start /\ end = intervals[i].end
      OBVIOUS
    <3>2. ClosedRun(start, end) /\ ClosedRun(start, end)' /\ end < Now
      BY <2>3, <3>1, RunsStay
    <3> QED
      BY <2>1, <2>2, <3>1, <3>2 DEF RunSoFar, ClosedRun
  <2>5. ASSUME NEW t, t = Now PROVE t \in Samples' /\ OpenRun(t)'
    <3>1. t = 0 \/ ~ViolatedAt(t - 1)
      <4> SUFFICES ASSUME t # 0, ViolatedAt(t - 1) PROVE FALSE
        OBVIOUS
      <4>1. PICK j \in 1..n : Covers(j, t - 1)
        BY <1>1, <1>2, <2>5
      <4> QED
        BY <1>1, <2>2, <2>4, <2>5, <4>1 DEF Covers
    <3>2. t = 0 \/ ~ViolatedAt(t - 1)'
      BY <1>1, <2>5, <3>1
    <3>3. \A u \in t..(Now' - 1) : u = Now
      BY <1>1, <2>5
    <3> QED
      BY <1>1, <2>5, <3>2, <3>3 DEF OpenRun, Begins
  <2>6. ASSUME NEW i, i = n + 1 PROVE RunSoFar(i)' /\ IsOpen(i)'
    <3>1. IsOpen(i)'
      BY <2>1, <2>6 DEF IsOpen
    <3> QED
      BY <2>1, <2>5, <2>6, <3>1 DEF RunSoFar
  <2>7. \A i \in 1..(n + 1) : i \in 1..n \/ i = n + 1
    BY <1>1
  <2>8. ASSUME NEW i \in 2..(n + 1) PROVE intervals'[i - 1].end < intervals'[i].start
    <3>1. i - 1 \in 1..n /\ intervals'[i - 1] = intervals[i - 1]
      BY <1>1, <2>1
    <3>2. CASE i = n + 1
      BY <2>1, <2>4, <3>1, <3>2
    <3>3. CASE i # n + 1
      <4>1. i \in 2..n /\ i \in 1..n
        BY <1>1, <3>3
      <4> QED
        BY <1>2, <2>1, <3>1, <4>1
    <3> QED
      BY <3>2, <3>3
  <2>9. \A i \in 1..n : \A t : Covers(i, t)' <=> Covers(i, t)
    BY <2>1, <2>2 DEF Covers
  <2>10. ASSUME NEW i, i = n + 1, NEW t, t = Now PROVE Covers(i, t)'
    BY <1>1, <2>1, <2>6, <2>10 DEF Covers
  <2>11. \A t \in Samples' : ViolatedAt(t)' => \E i \in 1..(n + 1) : Covers(i, t)'
    <3>1. n + 1 \in 1..(n + 1) /\ \A i \in 1..n : i \in 1..(n + 1)
      BY <1>1
    <3> QED
      BY <1>1, <1>2, <2>9, <2>10, <3>1
  <2> QED
    BY <2>1, <2>4, <2>6, <2>7, <2>8, <2>11 DEF IntervalsSoFar
<1> QED
  BY <1>3, <1>4

\* Any other sample ends the open run, and the interval with it.
LEMMA SparedIntervals ==
    ASSUME TypeInv, IntervalsSoFar, NEW reading, NEW status, Evaluated(reading, status),
           status # "violated"
    PROVE  IntervalsSoFar'
<1> DEFINE n == Len(intervals)
<1>1. /\ Now \in Nat /\ Now' = Now + 1 /\ n \in Nat
      /\ Samples = 0..(Now - 1) /\ Samples' = Samples \cup {Now}
      /\ \A t \in Samples : ViolatedAt(t)' <=> ViolatedAt(t)
      /\ \A t : t = Now => ~ViolatedAt(t)'
  BY RecordGrows DEF Evaluated, TypeInv, Samples
<1>2. /\ \A i \in 1..n : RunSoFar(i)
      /\ \A i \in 2..n : intervals[i - 1].end < intervals[i].start
      /\ \A t \in Samples : ViolatedAt(t) => \E i \in 1..n : Covers(i, t)
  BY DEF IntervalsSoFar
<1>3. Close
  BY DEF Evaluated, Spared
<1>4. /\ Len(intervals') = n /\ ~open'
      /\ \A i \in 1..n :
            /\ intervals'[i].start = intervals[i].start
            /\ intervals'[i].end = IF IsOpen(i) THEN Now ELSE intervals[i].end
  BY <1>3, ClosedIntervals
<1>5. \A i \in 1..n : ~IsOpen(i)'
  BY <1>4 DEF IsOpen
<1>6. ASSUME NEW i \in 1..n PROVE RunSoFar(i)'
  <2>1. PICK start, end : start = intervals[i].start /\ end = intervals[i].end
    OBVIOUS
  <2>2. CASE IsOpen(i)
    <3>1. OpenRun(start)
      BY <1>2, <2>1, <2>2 DEF RunSoFar
    <3>2. ASSUME NEW e, e = Now PROVE ClosedRun(start, e)'
      BY <3>1, <3>2, RunsStay
    <3> QED
      BY <1>4, <1>5, <2>1, <2>2, <3>2 DEF RunSoFar
  <2>3. CASE ~IsOpen(i)
    <3>1. ClosedRun(start, end)'
      BY <1>2, <2>1, <2>3, RunsStay DEF RunSoFar
    <3> QED
      BY <1>4, <1>5, <2>1, <2>3, <3>1 DEF RunSoFar
  <2> QED
    BY <2>2, <2>3
<1>7. \A i \in 2..n : intervals'[i - 1].end < intervals'[i].start
  <2> SUFFICES ASSUME NEW i \in 2..n PROVE intervals'[i - 1].end < intervals'[i].start
    OBVIOUS
  <2>1. i - 1 \in 1..n /\ i \in 1..n /\ i - 1 # n
    BY <1>1
  <2>2. ~IsOpen(i - 1)
    BY <2>1 DEF IsOpen
  <2> QED
    BY <1>2, <1>4, <2>1, <2>2
<1>8. \A i \in 1..n, t \in Samples : Covers(i, t) => Covers(i, t)'
  BY <1>1, <1>4, <1>5 DEF Covers
<1>9. \A t \in Samples' : ViolatedAt(t)' => \E i \in 1..n : Covers(i, t)'
  BY <1>1, <1>2, <1>8
<1> QED
  BY <1>4, <1>6, <1>7, <1>9 DEF IntervalsSoFar

\* The end of the run closes the interval that is still open, at the run's end.
LEMMA FinalIntervals ==
    ASSUME TypeInv, IntervalsSoFar, Finalise
    PROVE  IntervalsSoFar'
<1> DEFINE n == Len(intervals)
<1>1. /\ Now \in Nat /\ n \in Nat /\ Now' = Now /\ Samples' = Samples /\ finished'
      /\ Samples = 0..(Now - 1)
      /\ \A t : ViolatedAt(t)' <=> ViolatedAt(t)
  BY DEF TypeInv, Finalise, Now, Samples, ViolatedAt, At
<1>2. /\ \A i \in 1..n : RunSoFar(i)
      /\ \A i \in 2..n : intervals[i - 1].end < intervals[i].start
      /\ \A t \in Samples : ViolatedAt(t) => \E i \in 1..n : Covers(i, t)
  BY DEF IntervalsSoFar
<1>3. /\ Len(intervals') = n /\ ~open'
      /\ \A i \in 1..n :
            /\ intervals'[i].start = intervals[i].start
            /\ intervals'[i].end = IF IsOpen(i) THEN Now ELSE intervals[i].end
  BY ClosedIntervals DEF Finalise
<1>4. \A i \in 1..n : ~IsOpen(i)'
  BY <1>3 DEF IsOpen
<1>5. \A start : Begins(start)' <=> Begins(start)
  BY <1>1 DEF Begins
<1>6. ASSUME NEW i \in 1..n PROVE RunSoFar(i)'
  <2>1. PICK start, end : start = intervals[i].start /\ end = intervals[i].end
    OBVIOUS
  <2>2. CASE IsOpen(i)
    <3>1. OpenRun(start)
      BY <1>2, <2>1, <2>2 DEF RunSoFar
    <3>2. ASSUME NEW e, e = Now PROVE ClosedRun(start, e)'
      BY <1>1, <1>5, <3>1, <3>2 DEF OpenRun, ClosedRun, Begins
    <3> QED
      BY <1>3, <1>4, <2>1, <2>2, <3>2 DEF RunSoFar
  <2>3. CASE ~IsOpen(i)
    <3>1. ClosedRun(start, end)
      BY <1>2, <2>1, <2>3 DEF RunSoFar
    <3>2. ClosedRun(start, end)'
      BY <1>1, <1>5, <3>1 DEF ClosedRun
    <3> QED
      BY <1>3, <1>4, <2>1, <2>3, <3>2 DEF RunSoFar
  <2> QED
    BY <2>2, <2>3
<1>7. \A i \in 2..n : intervals'[i - 1].end < intervals'[i].start
  <2> SUFFICES ASSUME NEW i \in 2..n PROVE intervals'[i - 1].end < intervals'[i].start
    OBVIOUS
  <2>1. i - 1 \in 1..n /\ i \in 1..n /\ i - 1 # n
    BY <1>1
  <2>2. ~IsOpen(i - 1)
    BY <2>1 DEF IsOpen
  <2> QED
    BY <1>2, <1>3, <2>1, <2>2
<1>8. \A i \in 1..n, t \in Samples : Covers(i, t) => Covers(i, t)'
  BY <1>1, <1>3, <1>4 DEF Covers
<1>9. \A t \in Samples' : ViolatedAt(t)' => \E i \in 1..n : Covers(i, t)'
  BY <1>1, <1>2, <1>8
<1> QED
  BY <1>3, <1>6, <1>7, <1>9 DEF IntervalsSoFar

\* The totals count the samples of their status.
LEMMA TotalsStep ==
    ASSUME TypeInv, TotalsSoFar, NEW reading, NEW status, Evaluated(reading, status)
    PROVE  TotalsSoFar'
<1>1. /\ Now \in Nat /\ Samples = 0..(Now - 1) /\ Samples' = Samples \cup {Now}
      /\ Now \notin Samples
      /\ \A t \in Samples : At(t)' = At(t) /\ (ViolatedAt(t)' <=> ViolatedAt(t))
      /\ \A t : t = Now => At(t)'.status = status /\ (ViolatedAt(t)' <=> status = "violated")
  BY RecordGrows DEF Evaluated, Samples
<1>2. Violations' = Violations \cup (IF status = "violated" THEN {Now} ELSE {})
  BY <1>1 DEF Violations
<1>3. Warnings' = Warnings \cup (IF status = "approaching" THEN {Now} ELSE {})
  BY <1>1 DEF Warnings
<1>4. /\ Violations \subseteq 0..(Now - 1) /\ Warnings \subseteq 0..(Now - 1)
      /\ IsFiniteSet(Violations) /\ IsFiniteSet(Warnings)
      /\ Now \notin Violations /\ Now \notin Warnings
  BY <1>1, SamplesAreFew DEF Violations, Warnings
<1>5. violatedFor = Cardinality(Violations) /\ approachedFor = Cardinality(Warnings)
  BY DEF TotalsSoFar
<1>6. CASE status = "violated"
  <2>1. Violated(reading)
    BY <1>6 DEF Evaluated
  <2>2. Violations' = Violations \cup {Now} /\ Warnings' = Warnings
    BY <1>2, <1>3, <1>6
  <2>3. Cardinality(Violations') = Cardinality(Violations) + 1
    BY <1>4, <2>2, FS_AddElement
  <2>4. firstViolation' = IF firstViolation = None THEN Now ELSE firstViolation
    BY <2>1 DEF Violated
  <2>5. firstViolation' \in Violations' /\ \A t \in Violations' : firstViolation' <= t
    <3>1. CASE Violations = {}
      BY <1>1, <2>2, <2>4, <3>1 DEF TotalsSoFar
    <3>2. CASE Violations # {}
      <4>1. firstViolation \in Violations /\ \A t \in Violations : firstViolation <= t
        BY <3>2 DEF TotalsSoFar
      <4>2. firstViolation' = firstViolation
        BY <1>4, <2>4, <4>1, MonitorAssumption
      <4> QED
        BY <1>1, <1>4, <2>2, <4>1, <4>2
    <3> QED
      BY <3>1, <3>2
  <2> QED
    BY <1>5, <2>1, <2>2, <2>3, <2>5 DEF Violated, TotalsSoFar
<1>7. CASE status # "violated"
  <2>1. Spared(reading, status)
    BY <1>7 DEF Evaluated
  <2>2. Violations' = Violations
    BY <1>2, <1>7
  <2>3. approachedFor' = Cardinality(Warnings')
    <3>1. CASE status = "approaching"
      <4>1. Cardinality(Warnings') = Cardinality(Warnings) + 1
        BY <1>3, <1>4, <3>1, FS_AddElement
      <4> QED
        BY <1>5, <2>1, <3>1, <4>1 DEF Spared
    <3>2. CASE status # "approaching"
      BY <1>3, <1>5, <2>1, <3>2 DEF Spared
    <3> QED
      BY <3>1, <3>2
  <2>4. violatedFor' = violatedFor /\ firstViolation' = firstViolation
    BY <2>1 DEF Spared
  <2> QED
    BY <2>2, <2>3, <2>4 DEF TotalsSoFar
<1> QED
  BY <1>6, <1>7

\* A violation is covered by the last interval alone, and covers nothing else.
LEMMA ViolatedCovers ==
    ASSUME TypeInv, IntervalsSoFar, NEW reading, Evaluated(reading, "violated"),
           NEW i \in 1..Len(intervals')
    PROVE  /\ i \in 1..Len(intervals) => \A t \in Samples : Covers(i, t)' <=> Covers(i, t)
           /\ i \notin 1..Len(intervals) => \A t \in Samples : ~Covers(i, t)'
           /\ \A t : t = Now => (Covers(i, t)' <=> i = Len(intervals'))
<1> DEFINE n == Len(intervals)
           new == [start |-> Now, end |-> None, peak |-> reading.value]
<1>1. /\ Now \in Nat /\ Now' = Now + 1 /\ n \in Nat /\ Samples = 0..(Now - 1) /\ ~finished
      /\ Len(intervals') \in Nat
  BY ExtendedIntervals, MonitorAssumption DEF Evaluated, TypeInv, Samples
<1>2. \A j \in 1..n : RunSoFar(j) /\ intervals[j].start \in Samples
  BY DEF IntervalsSoFar, RunSoFar, OpenRun, ClosedRun, Begins
<1>3. \A j \in 1..n : ~IsOpen(j) => intervals[j].end \in Nat /\ intervals[j].end < Now
  BY <1>1, <1>2 DEF RunSoFar, ClosedRun
<1>4. CASE open
  <2>1. /\ Len(intervals') = n /\ n >= 1 /\ open'
        /\ \A j \in 1..n : /\ intervals'[j].start = intervals[j].start
                           /\ intervals'[j].end = intervals[j].end
    BY <1>4, ExtendedIntervals
  <2>2. i \in 1..n /\ (IsOpen(i)' <=> i = n) /\ (IsOpen(i) <=> i = n)
    BY <1>4, <2>1 DEF IsOpen
  <2>3. \A t : Covers(i, t)' <=> Covers(i, t)
    BY <2>1, <2>2 DEF Covers
  <2>4. ASSUME NEW t, t = Now PROVE Covers(i, t) <=> i = n
    BY <1>1, <1>2, <1>3, <2>2, <2>4 DEF Covers
  <2> QED
    BY <2>1, <2>2, <2>3, <2>4
<1>5. CASE ~open
  <2>1. /\ Len(intervals') = n + 1 /\ open'
        /\ \A j \in 1..n : intervals'[j] = intervals[j]
        /\ intervals'[n + 1].start = Now
    <3>1. intervals'[n + 1] = new /\ new.start = Now
      BY <1>5, ExtendedIntervals
    <3> HIDE DEF new
    <3> QED
      BY <1>5, <3>1, ExtendedIntervals
  <2>2. CASE i = n + 1
    BY <1>1, <2>1, <2>2 DEF Covers, IsOpen
  <2>3. CASE i # n + 1
    <3>1. i \in 1..n /\ ~IsOpen(i)' /\ ~IsOpen(i)
      BY <1>1, <1>5, <2>1, <2>3 DEF IsOpen
    <3>2. \A t : Covers(i, t)' <=> Covers(i, t)
      BY <2>1, <3>1 DEF Covers
    <3>3. ASSUME NEW t, t = Now PROVE ~Covers(i, t)
      BY <1>1, <1>3, <3>1, <3>3 DEF Covers
    <3> QED
      BY <2>1, <2>3, <3>1, <3>2, <3>3
  <2> QED
    BY <2>2, <2>3
<1> QED
  BY <1>4, <1>5

\* Closing covers what was covered, and not the time at which it closes.
LEMMA ClosedCovers ==
    ASSUME TypeInv, IntervalsSoFar, Close, NEW i \in 1..Len(intervals), NEW t,
           t \in Samples \/ (t = Now /\ ~finished)
    PROVE  Covers(i, t)' <=> t \in Samples /\ Covers(i, t)
<1> DEFINE n == Len(intervals)
<1>1. /\ Now \in Nat /\ n \in Nat /\ Samples = 0..(Now - 1)
      /\ Len(intervals') = n /\ ~open'
      /\ \A j \in 1..n :
            /\ intervals'[j].start = intervals[j].start
            /\ intervals'[j].end = IF IsOpen(j) THEN Now ELSE intervals[j].end
  <2>1. Now \in Nat /\ n \in Nat /\ Samples = 0..(Now - 1)
    BY DEF TypeInv, Now, Samples
  <2> QED
    BY <2>1, ClosedIntervals
<1>2. RunSoFar(i)
  BY DEF IntervalsSoFar
<1>3. ~IsOpen(i) /\ ~finished => intervals[i].end \in Nat /\ intervals[i].end < Now
  BY <1>2 DEF RunSoFar, ClosedRun
<1>4. ~IsOpen(i)'
  BY <1>1 DEF IsOpen
<1> QED
  BY <1>1, <1>3, <1>4 DEF Covers

\* The peaks stay the worst values.
LEMMA PeaksStep ==
    ASSUME TypeInv, IntervalsSoFar, PeaksSoFar,
           NEW reading, NEW status, Evaluated(reading, status)
    PROVE  PeaksSoFar'
<1>1. /\ bound' = bound /\ Now \in Nat /\ Samples = 0..(Now - 1) /\ Samples' = Samples \cup {Now}
      /\ Now \notin Samples /\ reading.value \in Int /\ bound.limit \in Int
      /\ \A t \in Samples : At(t)' = At(t) /\ (ViolatedAt(t)' <=> ViolatedAt(t))
      /\ \A t : t = Now => At(t)'.reading = reading /\ (ViolatedAt(t)' <=> status = "violated")
  BY BoundTyped, RecordGrows DEF Evaluated, Samples, Readings, SpecType
<1> SUFFICES ASSUME bound.kind \in {"upper", "lower"} PROVE PeaksSoFar'
  BY <1>1 DEF PeaksSoFar
<1>2. /\ \A i \in 1..Len(intervals) :
            /\ \E t \in Samples : Covers(i, t) /\ At(t).reading.value = intervals[i].peak
            /\ \A t \in Samples :
                Covers(i, t) => NoWorse(intervals[i].peak, At(t).reading.value)
      /\ peak = 0 \/ \E t \in Violations : peak = Excursion(At(t).reading.value)
      /\ \A t \in Violations : peak >= Excursion(At(t).reading.value)
  BY DEF PeaksSoFar
<1>3. Violations' = Violations \cup (IF status = "violated" THEN {Now} ELSE {})
      /\ Violations \subseteq Samples
  BY <1>1 DEF Violations
<1>4. \A t \in Samples : At(t).reading.value \in Int
  <2>1. \A row \in Evaluation : row.reading.value \in Int
    BY DEF Evaluation, Readings
  <2>2. evaluations \in Seq(Evaluation) /\ \A t \in Samples : t + 1 \in 1..Len(evaluations)
    BY <1>1 DEF TypeInv, Now
  <2>3. \A t \in Samples : evaluations[t + 1] \in Evaluation
    BY <2>2, Elements
  <2> QED
    BY <2>1, <2>3 DEF At
<1>5. \A x \in Int : Excursion(x) \in Nat /\ Excursion(x)' = Excursion(x)
  BY <1>1 DEF Excursion, Greater
<1>6. \A x, y : NoWorse(x, y)' <=> NoWorse(x, y)
  BY <1>1 DEF NoWorse
<1>7. ASSUME /\ \A i \in 1..Len(intervals') :
                    /\ \E t \in Samples' : Covers(i, t)' /\ At(t)'.reading.value = intervals'[i].peak
                    /\ \A t \in Samples' :
                        Covers(i, t)' => NoWorse(intervals'[i].peak, At(t)'.reading.value)
             /\ peak' = 0 \/ \E t \in Violations' : peak' = Excursion(At(t)'.reading.value)
             /\ \A t \in Violations' : peak' >= Excursion(At(t)'.reading.value)
      PROVE  PeaksSoFar'
  <2>1. \A x : Excursion(x)' = Excursion(x)
    BY <1>1 DEF Excursion
  <2> QED
    BY <1>1, <1>6, <1>7, <2>1 DEF PeaksSoFar, Excursion, NoWorse
<1>8. CASE status = "violated"
  <2>1. Violated(reading) /\ Evaluated(reading, "violated")
    BY <1>8 DEF Evaluated
  <2>2. Excursion(reading.value) \in Nat /\ peak' = Greater(peak, Excursion(reading.value))
        /\ peak \in Nat
    BY <1>1, <1>5, <2>1 DEF Violated, TypeInv
  <2>3. \A t \in Violations : Excursion(At(t).reading.value) \in Nat
    BY <1>3, <1>4, <1>5
  <2>4. Violations' = Violations \cup {Now}
    BY <1>3, <1>8
  <2>5. \A t \in Violations' : peak' >= Excursion(At(t)'.reading.value)
    <3>1. \A t \in Violations : At(t)' = At(t) /\ peak' >= Excursion(At(t).reading.value)
      BY <1>1, <1>2, <1>3, <2>2, <2>3 DEF Greater
    <3>2. \A t : t = Now => peak' >= Excursion(At(t)'.reading.value)
      BY <1>1, <2>2 DEF Greater
    <3> QED
      BY <2>4, <3>1, <3>2
  <2>6. peak' = 0 \/ \E t \in Violations' : peak' = Excursion(At(t)'.reading.value)
    <3>1. CASE peak' = peak
      BY <1>1, <1>2, <1>3, <2>4, <3>1
    <3>2. CASE peak' = Excursion(reading.value)
      <4>1. \A t : t = Now => t \in Violations' /\ peak' = Excursion(At(t)'.reading.value)
        BY <1>1, <2>4, <3>2
      <4> QED
        BY <4>1
    <3> QED
      BY <2>2, <3>1, <3>2 DEF Greater
  <2>7. ASSUME NEW i \in 1..Len(intervals')
        PROVE  /\ \E t \in Samples' : Covers(i, t)' /\ At(t)'.reading.value = intervals'[i].peak
               /\ \A t \in Samples' :
                    Covers(i, t)' => NoWorse(intervals'[i].peak, At(t)'.reading.value)
    <3> DEFINE new == [start |-> Now, end |-> None, peak |-> reading.value]
    <3>1. /\ i \in 1..Len(intervals) => \A t \in Samples : Covers(i, t)' <=> Covers(i, t)
          /\ i \notin 1..Len(intervals) => \A t \in Samples : ~Covers(i, t)'
          /\ \A t : t = Now => (Covers(i, t)' <=> i = Len(intervals'))
      BY <2>1, ViolatedCovers
    <3>2. Len(intervals) \in Nat
      BY DEF TypeInv
    <3>3. CASE i # Len(intervals')
      <4>1. i \in 1..Len(intervals) /\ intervals'[i] = intervals[i]
        <5>1. CASE open
          <6>1. Len(intervals') = Len(intervals)
                /\ \A j \in 1..(Len(intervals) - 1) : intervals'[j] = intervals[j]
            BY <2>1, <5>1, ExtendedIntervals
          <6> QED
            BY <3>2, <3>3, <6>1
        <5>2. CASE ~open
          <6>1. Len(intervals') = Len(intervals) + 1
                /\ \A j \in 1..Len(intervals) : intervals'[j] = intervals[j]
            BY <2>1, <5>2, ExtendedIntervals
          <6> QED
            BY <3>2, <3>3, <6>1
        <5> QED
          BY <5>1, <5>2
      <4> QED
        BY <1>1, <1>2, <3>1, <3>3, <4>1
    <3>4. CASE i = Len(intervals') /\ open
      <4>1. /\ i \in 1..Len(intervals)
            /\ intervals'[i].peak = Worse(reading.value, intervals[i].peak)
        BY <2>1, <3>2, <3>4, ExtendedIntervals
      <4>2. intervals[i].peak \in Int
        BY <4>1, IntervalFields
      <4>3. /\ \/ intervals'[i].peak = reading.value
               \/ intervals'[i].peak = intervals[i].peak
            /\ NoWorse(intervals'[i].peak, reading.value)
            /\ \A x \in Int : NoWorse(intervals[i].peak, x) => NoWorse(intervals'[i].peak, x)
        BY <1>1, <4>1, <4>2 DEF Worse, Lesser, Greater, NoWorse
      <4>4. \E t \in Samples' : Covers(i, t)' /\ At(t)'.reading.value = intervals'[i].peak
        <5>1. CASE intervals'[i].peak = reading.value
          <6>1. \A t : t = Now => /\ t \in Samples' /\ Covers(i, t)'
                                  /\ At(t)'.reading.value = intervals'[i].peak
            BY <1>1, <3>1, <3>4, <5>1
          <6> QED
            BY <6>1
        <5>2. CASE intervals'[i].peak = intervals[i].peak
          BY <1>1, <1>2, <3>1, <4>1, <5>2
        <5> QED
          BY <4>3, <5>1, <5>2
      <4>5. \A t \in Samples : Covers(i, t)' => NoWorse(intervals'[i].peak, At(t)'.reading.value)
        BY <1>1, <1>2, <1>4, <3>1, <4>1, <4>3
      <4>6. \A t : t = Now => NoWorse(intervals'[i].peak, At(t)'.reading.value)
        BY <1>1, <4>3
      <4> QED
        BY <1>1, <4>4, <4>5, <4>6
    <3>5. CASE i = Len(intervals') /\ ~open
      <4>1. i \notin 1..Len(intervals) /\ intervals'[i] = new /\ new.peak = reading.value
        <5>1. Len(intervals') = Len(intervals) + 1 /\ intervals'[Len(intervals) + 1] = new
          BY <2>1, <3>5, ExtendedIntervals
        <5>2. new.peak = reading.value
          OBVIOUS
        <5> HIDE DEF new
        <5> QED
          BY <3>2, <3>5, <5>1, <5>2
      <4> HIDE DEF new
      <4>2. NoWorse(reading.value, reading.value)
        BY <1>1 DEF NoWorse
      <4>3. \A t : t = Now => /\ t \in Samples' /\ Covers(i, t)'
                              /\ At(t)'.reading.value = intervals'[i].peak
                              /\ NoWorse(intervals'[i].peak, At(t)'.reading.value)
        BY <1>1, <3>1, <3>5, <4>1, <4>2
      <4> QED
        BY <1>1, <3>1, <4>1, <4>3
    <3> QED
      BY <3>3, <3>4, <3>5
  <2> QED
    BY <1>7, <2>5, <2>6, <2>7
<1>9. CASE status # "violated"
  <2>1. Spared(reading, status) /\ Close /\ peak' = peak /\ ~finished
    BY <1>9, MonitorAssumption DEF Evaluated, Spared, TypeInv
  <2>2. Violations' = Violations
    BY <1>3, <1>9
  <2>3. ASSUME NEW i \in 1..Len(intervals')
        PROVE  /\ \E t \in Samples' : Covers(i, t)' /\ At(t)'.reading.value = intervals'[i].peak
               /\ \A t \in Samples' :
                    Covers(i, t)' => NoWorse(intervals'[i].peak, At(t)'.reading.value)
    <3>1. i \in 1..Len(intervals) /\ intervals'[i].peak = intervals[i].peak
      BY <2>1, ClosedIntervals
    <3>2. /\ \A t \in Samples : Covers(i, t)' <=> Covers(i, t)
          /\ \A t : t = Now => ~Covers(i, t)'
      BY <1>1, <2>1, <3>1, ClosedCovers
    <3> QED
      BY <1>1, <1>2, <3>1, <3>2
  <2>4. \A t \in Violations : At(t)' = At(t)
    BY <1>1, <1>3
  <2> QED
    BY <1>2, <1>7, <2>1, <2>2, <2>3, <2>4
<1> QED
  BY <1>8, <1>9

\* The end of the run moves no peak.
LEMMA FinalPeaks ==
    ASSUME TypeInv, IntervalsSoFar, PeaksSoFar, Finalise
    PROVE  PeaksSoFar'
<1>1. /\ bound' = bound /\ peak' = peak /\ Samples' = Samples /\ Close
      /\ \A t : At(t)' = At(t)
      /\ Violations' = Violations
  BY DEF Finalise, Samples, Now, At, Violations, ViolatedAt
<1>2. Len(intervals') = Len(intervals)
      /\ \A i \in 1..Len(intervals) : intervals'[i].peak = intervals[i].peak
  BY <1>1, ClosedIntervals
<1>3. \A i \in 1..Len(intervals), t \in Samples : Covers(i, t)' <=> Covers(i, t)
  BY <1>1, ClosedCovers
<1>4. /\ \A x : Excursion(x)' = Excursion(x)
      /\ \A x, y : NoWorse(x, y)' <=> NoWorse(x, y)
  BY <1>1 DEF Excursion, NoWorse
<1>5. ASSUME bound.kind \in {"upper", "lower"}
      PROVE  /\ \A i \in 1..Len(intervals') :
                    /\ \E t \in Samples' : Covers(i, t)' /\ At(t)'.reading.value = intervals'[i].peak
                    /\ \A t \in Samples' :
                        Covers(i, t)' => NoWorse(intervals'[i].peak, At(t)'.reading.value)
             /\ peak' = 0 \/ \E t \in Violations' : peak' = Excursion(At(t)'.reading.value)
             /\ \A t \in Violations' : peak' >= Excursion(At(t)'.reading.value)
  BY <1>1, <1>2, <1>3, <1>5 DEF PeaksSoFar
<1> QED
  BY <1>1, <1>5 DEF PeaksSoFar, Excursion, NoWorse

-----------------------------------------------------------------------------
(* The rate of commands: arithmetic.                                        *)

\* A larger factor gives a larger product.
LEMMA Monotone ==
    ASSUME NEW a \in Nat, NEW x \in Int, NEW y \in Int, x <= y
    PROVE  a * x <= a * y /\ x * a <= y * a
OBVIOUS

\* A positive factor can be cancelled.
LEMMA Cancel ==
    ASSUME NEW a \in Nat \ {0}, NEW x \in Int, NEW y \in Int, x * a <= y * a
    PROVE  x <= y
<1> SUFFICES ASSUME x >= y + 1 PROVE FALSE
  OBVIOUS
<1>1. (y + 1) * a <= x * a
  BY Monotone
<1>2. (y + 1) * a = y * a + a
  OBVIOUS
<1>3. y * a \in Int /\ x * a \in Int
  OBVIOUS
<1> QED
  BY <1>1, <1>2, <1>3

\* A rate that is rounded up exceeds a whole limit exactly when the rate does.
LEMMA RoundedUp ==
    ASSUME NEW x \in Nat, NEW w \in Nat \ {0}, NEW limit \in Int
    PROVE  /\ (x + w - 1) \div w \in Int
           /\ (x + w - 1) \div w > limit <=> x > limit * w
<1> DEFINE q == (x + w - 1) \div w
<1>1. q \in Int /\ w * q <= x + w - 1 /\ x + w - 1 < w * (q + 1)
  OBVIOUS
<1> HIDE DEF q
<1>2. q > limit => x > limit * w
  <2> SUFFICES ASSUME q >= limit + 1 PROVE x > limit * w
    BY <1>1
  <2>1. w * (limit + 1) <= w * q
    BY <1>1, Monotone
  <2>2. w * (limit + 1) = limit * w + w /\ limit * w \in Int /\ w * q \in Int
    BY <1>1
  <2> QED
    BY <1>1, <2>1, <2>2
<1>3. q <= limit => x <= limit * w
  <2> SUFFICES ASSUME q <= limit PROVE x <= limit * w
    OBVIOUS
  <2>1. w * q <= w * limit
    BY <1>1, Monotone
  <2>2. w * (q + 1) = w * q + w /\ w * limit = limit * w /\ limit * w \in Int /\ w * q \in Int
    BY <1>1
  <2> QED
    BY <1>1, <2>1, <2>2
<1>4. limit * w \in Int
  OBVIOUS
<1> QED
  BY <1>1, <1>2, <1>3, <1>4 DEF q

\* n starts that span at least n - 1 paces are within the limit in any window that
\* holds the span and is no shorter than the minimum: the pace is chosen so that
\* the start itself is paid for by the minimum window.
LEMMA PacedIsWithin ==
    ASSUME NEW limit \in Nat, NEW hour \in Nat, NEW least \in Nat \ {0}, NEW n \in Nat,
           NEW window \in Nat, NEW span \in Int,
           window >= least, span <= window, limit * least >= hour,
           span * (limit * least - hour) >= (n - 1) * (hour * least)
    PROVE  n * hour <= limit * window
<1>0. limit * least - hour \in Nat
  OBVIOUS
<1>1. span * (limit * least - hour) <= window * (limit * least - hour)
  BY <1>0, Monotone
<1>2. window * (limit * least - hour) = (limit * window) * least - hour * window
  OBVIOUS
<1>3. (n - 1) * (hour * least) = (n * hour) * least - hour * least
  OBVIOUS
<1>4. hour * least <= hour * window
  BY Monotone
<1>5. /\ span * (limit * least - hour) \in Int /\ (n * hour) * least \in Int
      /\ (limit * window) * least \in Int /\ hour * window \in Int /\ hour * least \in Int
  OBVIOUS
<1>6. (n * hour) * least <= (limit * window) * least
  BY <1>1, <1>2, <1>3, <1>4, <1>5
<1>7. n * hour \in Int /\ limit * window \in Int
  OBVIOUS
<1> QED
  BY <1>6, <1>7, Cancel

-----------------------------------------------------------------------------
(* The rate of commands: the history.                                       *)

\* One command more.
Commanded(command) ==
    /\ command \in CommandType /\ command.setpoint \in Nat /\ command.start \in BOOLEAN
    /\ Len(commands) \in Nat /\ Len(commands') = Len(commands) + 1
    /\ commands \in Seq(CommandType) /\ commands' \in Seq(CommandType)
    /\ \A j \in 1..Len(commands) : commands'[j] = commands[j] /\ commands[j] \in CommandType
    /\ commands'[Len(commands) + 1] = command
    /\ startTimes' = Recent(startTimes \cup {t \in {Len(commands)} : command.start}, Len(commands))

\* Observing a command appends it.
LEMMA OneCommand ==
    ASSUME RateTypeOK, NEW command \in CommandType, ObserveCommand(command)
    PROVE  Commanded(command)
<1>1. commands \in Seq(CommandType) /\ commands' = Append(commands, command)
  BY DEF RateTypeOK, ObserveCommand
<1>2. command.setpoint \in Nat /\ command.start \in BOOLEAN
  BY RateAssumption DEF CommandType
<1>3. \A j \in 1..Len(commands) : commands[j] \in CommandType
  BY <1>1, Elements
<1> QED
  BY <1>1, <1>2, <1>3, Appended DEF Commanded, ObserveCommand

\* The history stays in its types, and the reading made of it is one.
LEMMA RateTypeStep ==
    ASSUME RateTypeOK, NEW command \in CommandType, ObserveCommand(command)
    PROVE  RateTypeOK' /\ RateReading(command) \in Readings
<1>1. Commanded(command)
  BY OneCommand
<1>2. startTimes' \subseteq 0..(Len(commands') - 1)
  <2>1. startTimes \subseteq 0..(Len(commands) - 1) /\ Len(commands) \in Nat
        /\ Len(commands') = Len(commands) + 1
    BY <1>1 DEF Commanded, RateTypeOK
  <2>2. startTimes' \subseteq startTimes \cup {Len(commands)}
    BY <1>1 DEF Commanded, Recent
  <2> QED
    BY <2>1, <2>2
<1>3. RateTypeOK'
  BY <1>1, <1>2 DEF Commanded, RateTypeOK
<1>4. Cardinality(startTimes') \in Nat
  <2>1. Len(commands') \in Nat
    BY <1>1 DEF Commanded
  <2>2. PICK n \in Nat : n = Len(commands')
    BY <2>1
  <2>3. startTimes' \in SUBSET (0..(n - 1))
    BY <1>2, <2>2
  <2>4. Cardinality(startTimes') \in 0..n
    BY <2>3, SamplesAreFew
  <2> QED
    BY <2>4
<1>5. Window(Len(commands)) \in Nat \ {0}
  BY <1>1, RateAssumption DEF Commanded, Window, Greater, Lesser
<1>6. StartsPerHour(Cardinality(startTimes'), Window(Len(commands))) \in Int
  <2> DEFINE count == Cardinality(startTimes')
  <2>1. 10 * count * RateWindow \in Nat
    BY <1>4, RateAssumption
  <2> HIDE DEF count
  <2>2. (10 * count * RateWindow + Window(Len(commands)) - 1) \div Window(Len(commands)) \in Int
    BY <1>5, <2>1, RoundedUp
  <2> QED
    BY <2>2 DEF StartsPerHour, count
<1>7. Jumps(command.setpoint) \in BOOLEAN
  BY Zenon DEF Jumps
<1>8. RateReading(command) \in Readings
  BY <1>6, <1>7, Zenon DEF RateReading, Readings
<1> QED
  BY <1>3, <1>8

\* The starts so far: the new one is among them if there is one.
LEMMA StartsGrow ==
    ASSUME NEW command, Commanded(command)
    PROVE  /\ Starts \subseteq 0..(Len(commands) - 1) /\ Len(commands) \in Nat
           /\ Starts' = Starts \cup {t \in {Len(commands)} : command.start}
           /\ \A t \in 0..(Len(commands) - 1) :
                /\ StartsUpTo(t)' = StartsUpTo(t)
                /\ Jumped(t)' <=> Jumped(t)
           /\ \A t : t = Len(commands) => StartsUpTo(t)' = Starts'
<1>1. Starts \subseteq 0..(Len(commands) - 1) /\ Len(commands) \in Nat
      /\ Len(commands') = Len(commands) + 1
  BY DEF Starts, Commanded
<1>2. \A u \in 0..(Len(commands) - 1) : commands'[u + 1] = commands[u + 1]
  BY DEF Commanded
<1>3. \A u : u = Len(commands) => commands'[u + 1] = command
  BY DEF Commanded
<1>4. 0..(Len(commands') - 1) = (0..(Len(commands) - 1)) \cup {Len(commands)}
  BY <1>1
<1>5. Starts' = Starts \cup {t \in {Len(commands)} : command.start}
  BY <1>1, <1>2, <1>3, <1>4 DEF Starts
<1>6. ASSUME NEW t \in 0..(Len(commands) - 1)
      PROVE  StartsUpTo(t)' = StartsUpTo(t) /\ (Jumped(t)' <=> Jumped(t))
  <2>1. \A u \in 0..t : u \in 0..(Len(commands) - 1)
    BY <1>1
  <2>2. t > 0 => t - 1 \in 0..(Len(commands) - 1)
    BY <1>1
  <2> QED
    BY <1>2, <2>1, <2>2 DEF StartsUpTo, Jumped
<1>7. ASSUME NEW t, t = Len(commands) PROVE StartsUpTo(t)' = Starts'
  <2>1. 0..t = 0..(Len(commands') - 1)
    BY <1>1, <1>7
  <2> QED
    BY <2>1 DEF StartsUpTo, Starts
<1> QED
  BY <1>1, <1>5, <1>6, <1>7

\* As long as the starts keep their pace, there are as many of them as paces.
LEMMA PacesStep ==
    ASSUME RateTypeOK, bound' = bound, bound.limit \in Int,
           bound.limit * MinRateWindow >= 10 * RateWindow,
           PacedSoFar => AsManyAsPaces, NEW command, Commanded(command)
    PROVE  PacedSoFar' => AsManyAsPaces'
<1> DEFINE A == bound.limit * MinRateWindow - 10 * RateWindow
           B == 10 * RateWindow * MinRateWindow
<1>0. /\ Starts \subseteq 0..(Len(commands) - 1) /\ Len(commands) \in Nat
      /\ Starts' = Starts \cup {t \in {Len(commands)} : command.start}
      /\ Len(commands') = Len(commands) + 1
  BY StartsGrow DEF Commanded
<1>1. A \in Nat /\ B \in Nat
  BY RateAssumption
<1>2. SUFFICES ASSUME PacedSoFar' PROVE AsManyAsPaces'
  OBVIOUS
<1>3. \A u, v \in Starts' : u < v => (v - u) * A >= B
  BY <1>2 DEF PacedSoFar, PaceAfter
<1>4. PacedSoFar
  BY <1>0, <1>3 DEF PacedSoFar, PaceAfter
<1>5. \A a \in 0..Len(commands) :
        \/ StartsFrom(a) = {}
        \/ \E v \in StartsFrom(a) :
            /\ \A u \in Starts : u <= v
            /\ (v - a) * A >= (Cardinality(StartsFrom(a)) - 1) * B
  BY <1>2, <1>4 DEF AsManyAsPaces
<1> HIDE DEF A, B
<1>6. ASSUME NEW a \in 0..Len(commands')
      PROVE  \/ StartsFrom(a)' = {}
             \/ \E v \in StartsFrom(a)' :
                /\ \A u \in Starts' : u <= v
                /\ (v - a) * A >= (Cardinality(StartsFrom(a)') - 1) * B
  <2>1. CASE ~command.start \/ a = Len(commands')
    <3>1. CASE a = Len(commands')
      <4>1. \A u \in Starts' : u < Len(commands')
        BY <1>0
      <4>2. \A u \in Starts' : ~(u >= a)
        BY <1>0, <3>1, <4>1
      <4> QED
        BY <4>2 DEF StartsFrom
    <3>2. CASE ~command.start /\ a # Len(commands')
      <4>1. Starts' = Starts /\ a \in 0..Len(commands)
        BY <1>0, <3>2
      <4>2. StartsFrom(a)' = StartsFrom(a)
        BY <4>1 DEF StartsFrom
      <4> QED
        BY <1>5, <4>1, <4>2
    <3> QED
      BY <2>1, <3>1, <3>2
  <2>2. CASE command.start /\ a # Len(commands')
    <3>1. Starts' = Starts \cup {Len(commands)} /\ a \in 0..Len(commands)
      BY <1>0, <2>2
    <3>2. StartsFrom(a)' = StartsFrom(a) \cup {Len(commands)}
      <4>1. Len(commands) >= a
        BY <1>0, <3>1
      <4>2. \A u : u \in StartsFrom(a)' => u \in StartsFrom(a) \/ u = Len(commands)
        BY <3>1, Zenon DEF StartsFrom
      <4>3. \A u : u \in StartsFrom(a) \/ u = Len(commands) => u \in StartsFrom(a)'
        BY <3>1, <4>1, Zenon DEF StartsFrom
      <4> QED
        BY <4>2, <4>3
    <3>3. StartsFrom(a) \subseteq 0..(Len(commands) - 1) /\ Len(commands) \notin StartsFrom(a)
      <4>1. StartsFrom(a) \subseteq Starts
        BY Zenon DEF StartsFrom
      <4>2. Len(commands) \notin 0..(Len(commands) - 1)
        BY <1>0
      <4> QED
        BY <1>0, <4>1, <4>2, Zenon
    <3>4. /\ IsFiniteSet(StartsFrom(a)) /\ Cardinality(StartsFrom(a)) \in Nat
          /\ Cardinality(StartsFrom(a)') = Cardinality(StartsFrom(a)) + 1
      <4>1. IsFiniteSet(StartsFrom(a)) /\ Cardinality(StartsFrom(a)) \in 0..Len(commands)
        BY <1>0, <3>3, SamplesAreFew
      <4>2. Cardinality(StartsFrom(a)) \in Nat
        BY <1>0, <4>1
      <4>3. Cardinality(StartsFrom(a) \cup {Len(commands)}) = Cardinality(StartsFrom(a)) + 1
        BY <3>3, <4>1, FS_AddElement
      <4> QED
        BY <3>2, <4>1, <4>2, <4>3, Zenon
    <3>5. PICK now \in Nat : now = Len(commands)
      BY <1>0
    <3>6. now \in StartsFrom(a)' /\ \A u \in Starts' : u <= now
      BY <1>0, <3>1, <3>2, <3>5
    <3>7. (now - a) * A >= (Cardinality(StartsFrom(a)') - 1) * B
      <4>1. CASE StartsFrom(a) = {}
        <5>1. Cardinality(StartsFrom(a)') = 1
          BY <3>4, <4>1, FS_EmptySet
        <5>2. (now - a) * A >= 0
          BY <1>1, <3>1, <3>5
        <5> QED
          BY <1>1, <5>1, <5>2
      <4>2. CASE StartsFrom(a) # {}
        <5>1. PICK v \in StartsFrom(a) :
                (v - a) * A >= (Cardinality(StartsFrom(a)) - 1) * B
          BY <1>5, <3>1, <4>2
        <5>2. v \in Starts' /\ now \in Starts' /\ v < now /\ v \in Int
          BY <1>0, <3>1, <3>3, <3>5, <5>1 DEF StartsFrom
        <5>3. (now - v) * A >= B
          BY <1>3, <5>2
        <5>4. (now - a) * A = (now - v) * A + (v - a) * A
          BY <1>1, <3>1, <5>2
        <5>5. PICK c \in Nat : c = Cardinality(StartsFrom(a))
          BY <3>4
        <5>8. /\ Cardinality(StartsFrom(a)') = c + 1
              /\ (v - a) * A >= (c - 1) * B
          BY <3>4, <5>1, <5>5
        <5>6. (c + 1 - 1) * B = (c - 1) * B + B
          BY <1>1
        <5>7. (now - v) * A \in Int /\ (v - a) * A \in Int /\ (c - 1) * B \in Int
          BY <1>1, <3>1, <5>2
        <5>9. (now - a) * A >= (c + 1 - 1) * B
          BY <1>1, <5>3, <5>4, <5>6, <5>7, <5>8
        <5> QED
          BY <5>8, <5>9
      <4> QED
        BY <4>1, <4>2
    <3> QED
      BY <3>6, <3>7
  <2> QED
    BY <2>1, <2>2
<1> QED
  BY <1>2, <1>6 DEF AsManyAsPaces, A, B
-----------------------------------------------------------------------------
(* The rate of commands: the verdict.                                       *)

\* A window holds the time that has run, up to an hour, and the minimum.
LEMMA WindowIs ==
    ASSUME NEW t \in Nat
    PROVE  /\ Window(t) \in Nat \ {0}
           /\ Window(t) >= MinRateWindow /\ Window(t) <= RateWindow
           /\ t <= RateWindow => Window(t) >= t
           /\ t > RateWindow => Window(t) = RateWindow
BY RateAssumption DEF Window, Greater, Lesser

\* The start times kept are those of the last hour.
LEMMA RecentStep ==
    ASSUME RateInv, bound.kind = "rate", NEW command, Commanded(command),
           NEW t, t = Len(commands)
    PROVE  startTimes' = {u \in Starts' : t - u <= RateWindow}
<1>1. /\ Starts \subseteq 0..(t - 1) /\ t \in Nat
      /\ Starts' = Starts \cup {u \in {t} : command.start}
  BY StartsGrow
<1>2. startTimes = {u \in Starts : t - 1 - u <= RateWindow}
  BY DEF RateInv
<1>3. startTimes' = {u \in startTimes \cup {v \in {t} : command.start} : t - u <= RateWindow}
  BY DEF Commanded, Recent
<1>4. \A u \in Starts : t - u <= RateWindow => t - 1 - u <= RateWindow
  BY <1>1, RateAssumption
<1> QED
  BY <1>1, <1>2, <1>3, <1>4

\* A sample with no more starts, or one.
LEMMA RecentAreFew ==
    ASSUME RateInv, bound.kind = "rate", NEW command, Commanded(command)
    PROVE  Cardinality(startTimes') \in Nat
<1>1. PICK t : t = Len(commands)
  OBVIOUS
<1>2. startTimes' = {u \in Starts' : t - u <= RateWindow}
  BY <1>1, RecentStep
<1>3. t \in Nat /\ Starts' \subseteq 0..((t + 1) - 1)
  BY <1>1, StartsGrow
<1>4. startTimes' \in SUBSET (0..((t + 1) - 1))
  BY <1>2, <1>3
<1>5. Cardinality(startTimes') \in 0..(t + 1)
  BY <1>3, <1>4, SamplesAreFew
<1> QED
  BY <1>3, <1>5

\* The flag of the reading is a jump of the setpoint.
LEMMA JumpIsSeen ==
    ASSUME NEW command, Commanded(command), NEW t, t = Len(commands)
    PROVE  Jumped(t)' <=> Jumps(command.setpoint)
<1>1. t \in Nat /\ commands'[t + 1] = command
  BY DEF Commanded
<1>2. CASE t = 0
  <2>1. commands = <<>>
    BY <1>2, EmptySeq DEF Commanded
  <2> QED
    BY <1>2, <2>1 DEF Jumped, Jumps
<1>3. CASE t > 0
  <2>1. commands # <<>> /\ commands'[t] = commands[t] /\ commands[t] \in CommandType
    BY <1>1, <1>3 DEF Commanded
  <2>2. commands[t].setpoint \in Nat /\ command.setpoint \in Nat
    BY <2>1, RateAssumption DEF CommandType, Commanded
  <2>3. t - 1 + 1 = t
    BY <1>1
  <2>4. PICK now \in Nat, before \in Nat : now = command.setpoint /\ before = commands[t].setpoint
    BY <2>2
  <2>5. Jumped(t)' <=> now \notin (before - MaxSlew)..(before + MaxSlew)
    BY <1>1, <1>3, <2>1, <2>3, <2>4 DEF Jumped
  <2>6. Jumps(command.setpoint) <=> Greater(now - before, before - now) > MaxSlew
    BY <2>1, <2>4 DEF Jumps
  <2>7. now \notin (before - MaxSlew)..(before + MaxSlew)
          <=> Greater(now - before, before - now) > MaxSlew
    BY RateAssumption DEF Greater
  <2> QED
    BY <2>5, <2>6, <2>7
<1> QED
  BY <1>1, <1>2, <1>3

\* A limit above a start an hour judges the number of starts as it is.
LEMMA TooManyIsTooFast ==
    ASSUME NEW n \in Nat, NEW limit \in Int, NEW window \in Nat \ {0},
           window <= RateWindow, limit * MinRateWindow >= 10 * RateWindow,
           10 * n > limit
    PROVE  StartsPerHour(n, window) > limit
<1>1. limit \in Nat
  <2> SUFFICES ASSUME limit <= 0 PROVE FALSE
    OBVIOUS
  <2>1. limit * MinRateWindow <= 0 * MinRateWindow
    BY RateAssumption, Monotone
  <2> QED
    BY <2>1, RateAssumption
<1>2. limit * window <= limit * RateWindow
  BY <1>1, RateAssumption, Monotone
<1>3. (limit + 1) * RateWindow <= (10 * n) * RateWindow
  BY RateAssumption, Monotone
<1>4. (limit + 1) * RateWindow = limit * RateWindow + RateWindow
  BY RateAssumption
<1>5. /\ limit * window \in Int /\ limit * RateWindow \in Int /\ (10 * n) * RateWindow \in Nat
      /\ 10 * n * RateWindow = (10 * n) * RateWindow
  BY RateAssumption
<1>6. 10 * n * RateWindow > limit * window
  BY <1>2, <1>3, <1>4, <1>5, RateAssumption
<1> DEFINE x == 10 * n * RateWindow
<1>7. x \in Nat /\ x > limit * window
  BY <1>5, <1>6
<1> HIDE DEF x
<1>8. (x + window - 1) \div window > limit
  BY <1>7, RoundedUp
<1> QED
  BY <1>8 DEF StartsPerHour, x

\* Starts that keep their pace are within the limit.
LEMMA PacedIsSlow ==
    ASSUME NEW n \in Nat, NEW limit \in Int, NEW window \in Nat \ {0}, NEW span \in Int,
           window >= MinRateWindow, span <= window,
           limit * MinRateWindow >= 10 * RateWindow,
           n = 0 \/ span * (limit * MinRateWindow - 10 * RateWindow)
                        >= (n - 1) * (10 * RateWindow * MinRateWindow)
    PROVE  ~(StartsPerHour(n, window) > limit)
<1>1. limit \in Nat
  <2> SUFFICES ASSUME limit <= 0 PROVE FALSE
    OBVIOUS
  <2>1. limit * MinRateWindow <= 0 * MinRateWindow
    BY RateAssumption, Monotone
  <2> QED
    BY <2>1, RateAssumption
<1>2. PICK hour \in Nat : hour = 10 * RateWindow
  BY RateAssumption
<1>3. n * hour <= limit * window
  <2>1. CASE n = 0
    BY <1>1, <2>1
  <2>2. CASE n # 0
    <3>1. limit * MinRateWindow >= hour
      BY <1>2
    <3>2. span * (limit * MinRateWindow - hour) >= (n - 1) * (hour * MinRateWindow)
      BY <1>2, <2>2
    <3> QED
      BY <1>1, <3>1, <3>2, RateAssumption, PacedIsWithin
  <2> QED
    BY <2>1, <2>2
<1>4. 10 * n * RateWindow = n * hour /\ n * hour \in Nat
  BY <1>2, RateAssumption
<1> DEFINE x == 10 * n * RateWindow
<1>5. x \in Nat /\ ~(x > limit * window)
  BY <1>1, <1>3, <1>4
<1> HIDE DEF x
<1>6. ~((x + window - 1) \div window > limit)
  BY <1>5, RoundedUp
<1> QED
  BY <1>6 DEF StartsPerHour, x
\* What is known of the history stays known.
LEMMA RateStep ==
    ASSUME RateTypeOK, RateInv, RateSpecsFair, TypeInv, bound.kind = "rate",
           NEW reading, NEW status, Evaluated(reading, status),
           NEW command, Commanded(command)
    PROVE  RateInv'
<1>1. bound' = bound /\ Now \in Nat /\ Now' = Now + 1
  BY DEF Evaluated
<1>2. Len(commands) = Now /\ (PacedSoFar => AsManyAsPaces)
  BY DEF RateInv
<1>3. Len(commands') = Now'
  BY <1>1, <1>2 DEF Commanded
<1>4. bound \in SpecType
  BY BoundTyped
<1>5. PacedSoFar' => AsManyAsPaces'
  <2>1. bound.limit \in Int
    BY <1>4 DEF SpecType
  <2>2. bound.limit * MinRateWindow >= 10 * RateWindow
    BY DEF RateSpecsFair, TypeInv
  <2> QED
    BY <1>1, <1>2, <2>1, <2>2, PacesStep
<1>6. startTimes' = {u \in Starts' : Now' - 1 - u <= RateWindow}
  <2>1. PICK t : t = Len(commands)
    OBVIOUS
  <2>2. startTimes' = {u \in Starts' : t - u <= RateWindow}
    BY <2>1, RecentStep
  <2>3. Now' - 1 = t
    BY <1>1, <1>2, <2>1
  <2> QED
    BY <2>2, <2>3
<1> QED
  BY <1>3, <1>5, <1>6 DEF RateInv

\* The sample just evaluated is judged fairly: a jump and too many starts are
\* violations, and starts that keep their pace are none.
LEMMA VerdictIsFair ==
    ASSUME RateTypeOK, RateInv, RateSpecsFair, TypeInv, bound.kind = "rate",
           NEW command, Commanded(command),
           NEW reading, reading = RateReading(command),
           NEW status, Evaluated(reading, status), NEW t, t = Now
    PROVE  /\ Jumped(t)' \/ TooOften(t)' => status = "violated"
           /\ Paced(t)' /\ ~Jumped(t)' => status # "violated"
<1>1. bound' = bound /\ t \in Nat /\ t = Len(commands) /\ Now' = t + 1
  BY DEF Evaluated, RateInv
<1>2. bound \in SpecType /\ bound \in Specs
  BY BoundTyped DEF TypeInv
<1>3. PICK limit \in Int : limit = bound.limit
  BY <1>2 DEF SpecType
<1>4. bound.tolerance \in Nat /\ bound.tolerance <= 1 /\ limit * MinRateWindow >= 10 * RateWindow
  BY <1>2, <1>3 DEF SpecType, RateSpecsFair
<1>5. PICK n \in Nat : n = Cardinality(startTimes')
  BY RecentAreFew
<1>6. PICK window \in Nat \ {0} : window = Window(t)
  BY <1>1, WindowIs
<1>7. reading.value = StartsPerHour(n, window) /\ reading.flag = Jumps(command.setpoint)
  BY <1>1, <1>5, <1>6 DEF RateReading
<1>8. Breaching(bound, reading) <=> (Jumped(t)' \/ StartsPerHour(n, window) > limit)
  <2>1. Breaching(bound, reading) <=> (reading.flag \/ reading.value > limit)
    BY <1>3, Zenon DEF Breaching
  <2>2. Jumped(t)' <=> Jumps(command.setpoint)
    BY <1>1, JumpIsSeen
  <2> QED
    BY <1>7, <2>1, <2>2, Zenon
<1>9. status = "violated" <=> Breaching(bound, reading)
  <2>1. Persists(reading) <=> Breaching(bound, reading)
    <3>1. Breaching(bound, reading) => breachFor' = breachFor + 1
      BY DEF Evaluated, CountBreach
    <3>2. breachFor \in Nat
      BY <1>1 DEF TypeInv
    <3>3. Breaching(bound, reading) => breachFor' >= bound.tolerance
      BY <1>4, <3>1, <3>2
    <3> QED
      BY <3>3 DEF Persists
  <2> QED
    BY <2>1, Zenon DEF Evaluated, Violated, Spared
<1>10. Starts \subseteq 0..(t - 1) /\ Starts' \subseteq 0..t /\ StartsUpTo(t)' = Starts'
       /\ startTimes' = {u \in Starts' : t - u <= RateWindow}
  BY <1>1, StartsGrow, RecentStep
<1>11. window <= RateWindow /\ window >= MinRateWindow
  BY <1>1, <1>6, WindowIs
<1>12. TooOften(t)' => StartsPerHour(n, window) > limit
  <2>1. TooOften(t)' <=> 10 * n > limit
    BY <1>1, <1>3, <1>5, <1>10 DEF TooOften
  <2> QED
    BY <1>4, <1>11, <2>1, TooManyIsTooFast
<1>13. Paced(t)' => ~(StartsPerHour(n, window) > limit)
  <2> SUFFICES ASSUME Paced(t)' PROVE ~(StartsPerHour(n, window) > limit)
    OBVIOUS
  <2>1. PacedSoFar'
    BY <1>10 DEF Paced, PacedSoFar, PaceAfter
  <2>2. AsManyAsPaces'
    BY <1>1, <2>1, RateStep DEF RateInv
  <2> DEFINE paid(span) == span * (limit * MinRateWindow - 10 * RateWindow)
                             >= (n - 1) * (10 * RateWindow * MinRateWindow)
  <2>3. PICK a \in Nat : a = Greater(0, t - RateWindow)
    BY <1>1, RateAssumption DEF Greater
  <2>4. a \in 0..Len(commands') /\ t - a <= window
    <3>1. t <= RateWindow => window >= t
      BY <1>1, <1>6, WindowIs
    <3>2. t > RateWindow => window = RateWindow
      BY <1>1, <1>6, WindowIs
    <3>3. Len(commands') = t + 1
      BY <1>1 DEF Commanded
    <3> QED
      BY <1>1, <2>3, <3>1, <3>2, <3>3, RateAssumption DEF Greater
  <2>5. StartsFrom(a)' = startTimes'
    <3>1. \A u \in Starts' : u >= a <=> t - u <= RateWindow
      BY <1>1, <1>10, <2>3, RateAssumption DEF Greater
    <3> QED
      BY <1>10, <3>1, Zenon DEF StartsFrom
  <2>6. n = 0 \/ \E span \in Int : span <= window /\ paid(span)
    <3>1. CASE StartsFrom(a)' = {}
      BY <1>5, <2>5, <3>1, FS_EmptySet
    <3>2. CASE StartsFrom(a)' # {}
      <4>1. PICK v \in StartsFrom(a)' :
              (v - a) * (bound'.limit * MinRateWindow - 10 * RateWindow)
                >= (Cardinality(StartsFrom(a)') - 1) * (10 * RateWindow * MinRateWindow)
        BY <2>2, <2>4, <3>2 DEF AsManyAsPaces
      <4>2. paid(v - a)
        BY <1>1, <1>3, <1>5, <2>5, <4>1
      <4>3. v \in 0..t
        BY <1>10, <2>5, <4>1
      <4>4. v - a \in Int /\ v - a <= window
        BY <1>1, <2>3, <2>4, <4>3
      <4> HIDE DEF paid
      <4> QED
        BY <4>2, <4>4
    <3> QED
      BY <3>1, <3>2
  <2>7. CASE n = 0
    <3>1. 0 \in Int /\ 0 <= window
      OBVIOUS
    <3> QED
      BY <1>4, <1>11, <2>7, <3>1, PacedIsSlow
  <2>8. CASE \E span \in Int : span <= window /\ paid(span)
    BY <1>4, <1>11, <2>8, PacedIsSlow
  <2> QED
    BY <2>6, <2>7, <2>8
<1> QED
  BY <1>8, <1>9, <1>12, <1>13, Zenon

\* Every command is judged fairly, the new one and those before it.
LEMMA JudgedStep ==
    ASSUME RateTypeOK, RateInv, RateSpecsFair, TypeInv, CommandsAreJudged,
           bound.kind = "rate",
           NEW command, Commanded(command),
           NEW reading, reading = RateReading(command),
           NEW status, Evaluated(reading, status)
    PROVE  CommandsAreJudged'
<1>1. Samples' = Samples \cup {Now} /\ Now \notin Samples /\ Len(commands) = Now
      /\ bound' = bound
  BY RecordGrows DEF RateInv, Evaluated
<1>2. ASSUME NEW t \in Samples
      PROVE  /\ (Jumped(t) \/ TooOften(t) => ViolatedAt(t))'
             /\ (Paced(t) /\ ~Jumped(t) => ~ViolatedAt(t))'
  <2>1. t \in 0..(Len(commands) - 1)
    BY <1>1 DEF Samples
  <2>2. StartsUpTo(t)' = StartsUpTo(t) /\ (Jumped(t)' <=> Jumped(t))
    BY <2>1, StartsGrow
  <2>3. ViolatedAt(t)' <=> ViolatedAt(t)
    BY RecordGrows
  <2>4. (TooOften(t)' <=> TooOften(t)) /\ (Paced(t)' <=> Paced(t))
    BY <1>1, <2>2 DEF TooOften, Paced
  <2>5. /\ Jumped(t) \/ TooOften(t) => ViolatedAt(t)
        /\ Paced(t) /\ ~Jumped(t) => ~ViolatedAt(t)
    BY DEF CommandsAreJudged
  <2> QED
    BY <2>2, <2>3, <2>4, <2>5, Zenon
<1>3. ASSUME NEW t, t = Now
      PROVE  /\ (Jumped(t) \/ TooOften(t) => ViolatedAt(t))'
             /\ (Paced(t) /\ ~Jumped(t) => ~ViolatedAt(t))'
  <2>1. ViolatedAt(t)' <=> status = "violated"
    BY <1>3, RecordGrows
  <2>2. /\ Jumped(t)' \/ TooOften(t)' => status = "violated"
        /\ Paced(t)' /\ ~Jumped(t)' => status # "violated"
    BY <1>3, VerdictIsFair
  <2> QED
    BY <2>1, <2>2, Zenon
<1> QED
  BY <1>1, <1>2, <1>3, Zenon DEF CommandsAreJudged
-----------------------------------------------------------------------------
(* The invariant.                                                           *)

\* Nothing has been evaluated at first.
LEMMA InitInv == Init => MonitorInv
<1> SUFFICES ASSUME Init PROVE MonitorInv
  OBVIOUS
<1> USE DEF Init
<1>1. Now = 0 /\ Samples = {} /\ Len(intervals) = 0 /\ Len(commands) = 0
  BY DEF Now, Samples, RateInit
<1>2. RateTypeOK
  BY <1>1, EmptySeq DEF RateInit, RateTypeOK
<1>3. TypeInv
  <2>1. <<>> \in Seq(Interval) /\ <<>> \in Seq(Evaluation)
    BY EmptySeq
  <2>2. {breachFor, violatedFor, approachedFor} \subseteq 0..Now /\ peak \in Nat
    BY <1>1
  <2>3. /\ bound \in Specs /\ firstViolation \in Nat \cup {None}
        /\ open \in BOOLEAN /\ finished \in BOOLEAN /\ ~open /\ ~finished
    BY Zenon
  <2>4. intervals \in Seq(Interval) /\ evaluations \in Seq(Evaluation)
    BY <2>1
  <2>5. Now <= Horizon
    BY <1>1, MonitorAssumption
  <2> QED
    BY <2>2, <2>3, <2>4, <2>5, Zenon DEF TypeInv
<1>4. Breaches
  BY <1>1 DEF Breaches
<1>5. ViolationsPersist
  BY <1>1, Zenon DEF ViolationsPersist
<1>6. IntervalsSoFar
  BY <1>1 DEF IntervalsSoFar
<1>7. Violations = {} /\ Warnings = {}
  BY <1>1 DEF Violations, Warnings
<1>8. TotalsSoFar
  BY <1>7, FS_EmptySet DEF TotalsSoFar
<1>9. PeaksSoFar
  BY <1>1, <1>7 DEF PeaksSoFar
<1> QED
  BY <1>2, <1>3, <1>4, <1>5, <1>6, <1>8, <1>9 DEF MonitorInv

\* One evaluation keeps what the bookkeeping knows.
LEMMA EvaluationKeepsInv ==
    ASSUME MonitorInv, NEW reading, NEW status, Evaluated(reading, status)
    PROVE  /\ TypeInv' /\ Breaches' /\ ViolationsPersist'
           /\ IntervalsSoFar' /\ TotalsSoFar' /\ PeaksSoFar'
<1>1. TypeInv /\ Breaches /\ ViolationsPersist /\ IntervalsSoFar /\ TotalsSoFar /\ PeaksSoFar
  BY DEF MonitorInv
<1>2. TypeInv'
  BY <1>1, TypeStep
<1>3. Breaches'
  BY <1>1, BreachesStep
<1>4. ViolationsPersist'
  BY <1>1, PersistStep
<1>5. IntervalsSoFar'
  <2>1. status = "violated" \/ status # "violated"
    OBVIOUS
  <2> QED
    BY <1>1, <2>1, ViolatedIntervals, SparedIntervals
<1>6. TotalsSoFar'
  BY <1>1, TotalsStep
<1>7. PeaksSoFar'
  BY <1>1, PeaksStep
<1> QED
  BY <1>2, <1>3, <1>4, <1>5, <1>6, <1>7

\* A reading is taken from the quantities, or made of the history of commands.
LEMMA PlainReadingsTyped == PlainReadings \subseteq Readings
<1>1. \A reading \in PlainReadings : reading \in Readings
  <2> SUFFICES ASSUME NEW reading \in PlainReadings PROVE reading \in Readings
    OBVIOUS
  <2>1. (IF bound.kind = "conditional" THEN BOOLEAN ELSE {FALSE}) \subseteq BOOLEAN
    OBVIOUS
  <2> QED
    BY <2>1, MonitorAssumption DEF PlainReadings, Readings
<1> QED
  BY <1>1

\* What the steps do: they evaluate a reading, of the quantity or of the history.
LEMMA PlainStep ==
    ASSUME TypeInv, EvaluatePlain
    PROVE  /\ bound.kind # "rate" /\ UNCHANGED rateVars
           /\ \E reading, status : Evaluated(reading, status)
<1>1. PICK reading \in PlainReadings : Evaluate(reading)
  BY DEF EvaluatePlain
<1>2. reading \in Readings
  BY PlainReadingsTyped
<1> QED
  BY <1>1, <1>2, OneEvaluation DEF EvaluatePlain

\* The same of a command.
LEMMA CommandStep ==
    ASSUME RateTypeOK, TypeInv, EvaluateRate
    PROVE  /\ bound.kind = "rate" /\ RateTypeOK'
           /\ \E command, reading, status :
                /\ Commanded(command) /\ reading = RateReading(command)
                /\ Evaluated(reading, status)
<1>1. bound.kind = "rate"
  BY DEF EvaluateRate
<1>2. PICK command \in CommandType : ObserveCommand(command) /\ Evaluate(RateReading(command))
  BY DEF EvaluateRate
<1>3. Commanded(command) /\ RateTypeOK' /\ RateReading(command) \in Readings
  BY <1>2, OneCommand, RateTypeStep
<1>4. PICK reading \in Readings : reading = RateReading(command)
  BY <1>3
<1>5. Evaluate(reading)
  BY <1>2, <1>4
<1>6. \E status : Evaluated(reading, status)
  BY <1>5, OneEvaluation
<1> QED
  BY <1>1, <1>3, <1>4, <1>6

\* Every step of the engine keeps the invariant.
LEMMA NextInv == MonitorInv /\ [Next]_monitorVars => MonitorInv'
<1> SUFFICES ASSUME MonitorInv, [Next]_monitorVars PROVE MonitorInv'
  OBVIOUS
<1>0. /\ RateTypeOK /\ TypeInv /\ Breaches /\ ViolationsPersist
      /\ IntervalsSoFar /\ TotalsSoFar /\ PeaksSoFar
  BY DEF MonitorInv
<1>1. CASE EvaluatePlain
  <2>1. UNCHANGED rateVars /\ \E reading, status : Evaluated(reading, status)
    BY <1>0, <1>1, PlainStep
  <2>2. RateTypeOK'
    BY <1>0, <2>1 DEF RateTypeOK, rateVars
  <2>3. PICK reading, status : Evaluated(reading, status)
    BY <2>1
  <2> QED
    BY <2>2, <2>3, EvaluationKeepsInv DEF MonitorInv
<1>2. CASE EvaluateRate
  <2>1. RateTypeOK'
    BY <1>0, <1>2, CommandStep
  <2>2. PICK reading, status : Evaluated(reading, status)
    BY <1>0, <1>2, CommandStep
  <2> QED
    BY <2>1, <2>2, EvaluationKeepsInv DEF MonitorInv
<1>3. CASE Finalise
  <2> USE <1>3
  <2>1. /\ bound' = bound /\ breachFor' = breachFor /\ violatedFor' = violatedFor
        /\ approachedFor' = approachedFor /\ peak' = peak /\ finished' = TRUE
        /\ firstViolation' = firstViolation /\ evaluations' = evaluations
        /\ commands' = commands /\ startTimes' = startTimes
        /\ Now = Horizon
    BY DEF Finalise
  <2>2. Samples' = Samples /\ Now' = Now
    BY <2>1 DEF Samples, Now
  <2>3. RateTypeOK'
    BY <1>0, <2>1 DEF RateTypeOK
  <2>4. TypeInv'
    <3>1. intervals' \in Seq(Interval) /\ open' = FALSE
      BY <1>0, ClosedIntervals DEF Finalise
    <3> QED
      BY <1>0, <2>1, <2>2, <3>1, MonitorAssumption DEF TypeInv
  <2>6. Breaches'
    BY <1>0, <2>1 DEF Breaches, BreachedAt, At, Now
  <2>7. ViolationsPersist'
    BY <1>0, <2>1 DEF ViolationsPersist, Samples, Now, BreachedAt, ViolatedAt, At
  <2>8. IntervalsSoFar'
    BY <1>0, FinalIntervals
  <2>9. TotalsSoFar'
    BY <1>0, <2>1, <2>2 DEF TotalsSoFar, Violations, Warnings, ViolatedAt, At
  <2>10. PeaksSoFar'
    BY <1>0, FinalPeaks
  <2> QED
    BY <2>3, <2>4, <2>6, <2>7, <2>8, <2>9, <2>10 DEF MonitorInv
<1>4. CASE UNCHANGED monitorVars
  <2> USE <1>4 DEF monitorVars
  <2>1. RateTypeOK' /\ TypeInv' /\ Now' = Now /\ Samples' = Samples
    BY <1>0 DEF RateTypeOK, TypeInv, Now, Samples
  <2>2. Breaches'
    BY <1>0 DEF Breaches, BreachedAt, At, Now
  <2>3. ViolationsPersist'
    BY <1>0 DEF ViolationsPersist, Samples, Now, BreachedAt, ViolatedAt, At
  <2>4. IntervalsSoFar'
    BY <1>0 DEF IntervalsSoFar, RunSoFar, Covers, IsOpen, OpenRun, ClosedRun, Begins,
        Samples, Now, ViolatedAt, At
  <2>5. TotalsSoFar'
    BY <1>0 DEF TotalsSoFar, Violations, Warnings, Samples, Now, ViolatedAt, At
  <2>6. PeaksSoFar'
    BY <1>0 DEF PeaksSoFar, Violations, Covers, IsOpen, NoWorse, Excursion,
        Samples, Now, ViolatedAt, At
  <2> QED
    BY <2>1, <2>2, <2>3, <2>4, <2>5, <2>6 DEF MonitorInv
<1> QED
  BY <1>1, <1>2, <1>3, <1>4 DEF Next

\* The bookkeeping knows the record.
THEOREM MonitorKeepsCount == Spec => []MonitorInv
<1> QED
  BY InitInv, NextInv, PTL DEF Spec

\* Every variable of the engine keeps its type: no total exceeds the horizon.
THEOREM MonitorTyped == Spec => []MonitorTypeOK
<1>1. MonitorInv => MonitorTypeOK
  BY MonitorAssumption DEF MonitorInv, TypeInv, MonitorTypeOK, Now, Evaluation
<1> QED
  BY <1>1, MonitorKeepsCount, PTL

\* A sample is a violation exactly when the breach has lasted for the tolerance.
THEOREM ViolationsHavePersisted == Spec => []ViolationsPersist
<1>1. MonitorInv => ViolationsPersist
  BY DEF MonitorInv
<1> QED
  BY <1>1, MonitorKeepsCount, PTL
-----------------------------------------------------------------------------
(* What the bookkeeping reports.                                            *)

\* Two runs that share a sample are one.
LEMMA RunsAreMaximal ==
    ASSUME TypeInv, NEW start, NEW end, ClosedRun(start, end),
           NEW first, NEW last, ClosedRun(first, last), start <= first, first < end
    PROVE  start = first /\ end = last
<1>1. /\ start \in Nat /\ first \in Nat /\ end \in Nat /\ last \in Nat /\ Now \in Nat
      /\ end <= Now /\ last <= Now /\ first < last
  BY DEF ClosedRun, Begins, Samples, TypeInv, Now
<1>2. start = first
  <2> SUFFICES ASSUME start < first PROVE FALSE
    BY <1>1
  <2>1. first - 1 \in start..(end - 1) /\ first # 0
    BY <1>1
  <2> QED
    BY <2>1 DEF ClosedRun, Begins
<1>3. ~(end < last)
  <2> SUFFICES ASSUME end < last PROVE FALSE
    OBVIOUS
  <2>1. end \in first..(last - 1) /\ end # Now
    BY <1>1
  <2> QED
    BY <2>1 DEF ClosedRun
<1>4. ~(last < end)
  <2> SUFFICES ASSUME last < end PROVE FALSE
    OBVIOUS
  <2>1. last \in start..(end - 1) /\ last # Now
    BY <1>1
  <2> QED
    BY <2>1 DEF ClosedRun
<1> QED
  BY <1>1, <1>2, <1>3, <1>4

\* The intervals reported at the end are the maximal runs of violated samples.
THEOREM IntervalsAreRuns == Spec => []IntervalsAreTheRuns
<1>1. ASSUME MonitorInv, finished PROVE IntervalsAreTheRuns
  <2> DEFINE Reported == {[start |-> intervals[i].start, end |-> intervals[i].end] :
                            i \in DOMAIN intervals}
  <2>1. TypeInv /\ IntervalsSoFar /\ ~open
    BY <1>1 DEF MonitorInv, TypeInv
  <2>2. /\ intervals \in Seq(Interval) /\ DOMAIN intervals = 1..Len(intervals)
        /\ Now \in Nat /\ Samples = 0..(Now - 1)
    BY <2>1, Elements DEF TypeInv, Now, Samples
  <2>3. ASSUME NEW i \in DOMAIN intervals,
               NEW start, start = intervals[i].start, NEW end, end = intervals[i].end
        PROVE  ClosedRun(start, end)
    BY <2>1, <2>2, <2>3 DEF IntervalsSoFar, RunSoFar, IsOpen
  <2>4. \A start, end : ClosedRun(start, end) =>
            /\ start \in Samples /\ end \in 1..Now /\ start < end
            /\ \A t \in start..(end - 1) : ViolatedAt(t)
            /\ start = 0 \/ ~ViolatedAt(start - 1)
            /\ end = Now \/ ~ViolatedAt(end)
    BY <2>2 DEF ClosedRun, Begins
  <2>5. \A run \in Runs : /\ ClosedRun(run.start, run.end)
                          /\ run = [start |-> run.start, end |-> run.end]
    BY <1>1, <2>2 DEF Runs, ClosedRun, Begins
  <2>6. \A i \in DOMAIN intervals :
            [start |-> intervals[i].start, end |-> intervals[i].end] \in Runs
    <3> SUFFICES ASSUME NEW i \in DOMAIN intervals
                 PROVE  [start |-> intervals[i].start, end |-> intervals[i].end] \in Runs
      OBVIOUS
    <3>1. PICK start : start = intervals[i].start
      OBVIOUS
    <3>2. PICK end : end = intervals[i].end
      OBVIOUS
    <3>3. ClosedRun(start, end)
      BY <2>3, <3>1, <3>2
    <3>4. [start |-> start, end |-> end] \in Runs
      BY <2>4, <3>3 DEF Runs
    <3> QED
      BY <3>1, <3>2, <3>4
  <2>7. ASSUME NEW run \in Runs PROVE run \in Reported
    <3>1. ClosedRun(run.start, run.end)
      BY <2>5
    <3>2. run.start \in Samples /\ ViolatedAt(run.start)
      <4>1. /\ run.start \in Nat /\ run.end \in Nat /\ run.start < run.end
            /\ \A t \in run.start..(run.end - 1) : ViolatedAt(t)
        BY <2>2, <2>4, <3>1
      <4>2. run.start \in run.start..(run.end - 1)
        BY <4>1
      <4> QED
        BY <2>4, <3>1, <4>1, <4>2
    <3>3. PICK i \in 1..Len(intervals) : Covers(i, run.start)
      BY <2>1, <3>2 DEF IntervalsSoFar
    <3>4. i \in DOMAIN intervals
      BY <2>2
    <3>5. PICK start : start = intervals[i].start
      OBVIOUS
    <3>6. PICK end : end = intervals[i].end
      OBVIOUS
    <3>7. ClosedRun(start, end)
      BY <2>3, <3>4, <3>5, <3>6
    <3>8. start <= run.start /\ run.start < end
      BY <2>1, <3>3, <3>5, <3>6 DEF Covers, IsOpen
    <3>9. start = run.start /\ end = run.end
      BY <2>1, <3>1, <3>7, <3>8, RunsAreMaximal
    <3>10. run = [start |-> intervals[i].start, end |-> intervals[i].end]
      BY <2>5, <3>5, <3>6, <3>9
    <3> QED
      BY <3>4, <3>10
  <2>8. Reported = Runs
    BY <2>6, <2>7
  <2>9. \A i \in 2..Len(intervals) : intervals[i - 1].end < intervals[i].start
    BY <2>1 DEF IntervalsSoFar
  <2> QED
    BY <2>8, <2>9 DEF IntervalsAreTheRuns
<1>2. MonitorInv => IntervalsAreTheRuns
  BY <1>1 DEF IntervalsAreTheRuns
<1> QED
  BY <1>2, MonitorKeepsCount, PTL

\* The totals are those of the record.
THEOREM TotalsAreTheRecords == Spec => []TotalsMatchRecord
<1>1. ASSUME MonitorInv PROVE TotalsMatchRecord
  <2>1. TypeInv /\ TotalsSoFar /\ Now \in Nat
    BY <1>1 DEF MonitorInv, TypeInv, Now
  <2>2. violatedFor = Cardinality(Violations) /\ approachedFor = Cardinality(Warnings)
    BY <2>1 DEF TotalsSoFar
  <2>3. Violations \in SUBSET (0..(Now - 1)) /\ Violations \in SUBSET Int
    BY <2>1 DEF Violations, Samples
  <2>4. violatedFor = 0 <=> Violations = {}
    BY <2>1, <2>2, <2>3, SamplesAreFew, FS_EmptySet
  <2>5. firstViolation = IF violatedFor = 0 THEN None ELSE Min(Violations)
    <3>1. CASE Violations = {}
      BY <2>1, <2>4, <3>1 DEF TotalsSoFar
    <3>2. CASE Violations # {}
      <4>1. firstViolation \in Violations /\ \A t \in Violations : firstViolation <= t
        BY <2>1, <3>2 DEF TotalsSoFar
      <4>2. Min(Violations) = firstViolation
        BY <2>3, <4>1, MinIs
      <4> QED
        BY <2>4, <3>2, <4>2
    <3> QED
      BY <3>1, <3>2
  <2> QED
    BY <2>2, <2>5 DEF TotalsMatchRecord, Violations, Warnings
<1> QED
  BY <1>1, MonitorKeepsCount, PTL

\* The peak of an interval is the worst of its values, and the largest excursion
\* that of the worst violation.
THEOREM PeaksAreTheWorst == Spec => []PeaksAreWorst
<1>1. ASSUME MonitorInv, bound.kind \in {"upper", "lower"} PROVE PeaksAreWorst
  <2>1. TypeInv /\ IntervalsSoFar /\ PeaksSoFar
    BY <1>1 DEF MonitorInv
  <2>2. /\ intervals \in Seq(Interval) /\ DOMAIN intervals = 1..Len(intervals)
        /\ Now \in Nat /\ Samples = 0..(Now - 1) /\ peak \in Nat
    BY <2>1, Elements DEF TypeInv, Now, Samples
  <2>3. \A t \in Samples : At(t).reading.value \in Int
    <3> SUFFICES ASSUME NEW t \in Samples PROVE At(t).reading.value \in Int
      OBVIOUS
    <3>1. t + 1 \in 1..Len(evaluations)
      BY <2>2 DEF Now
    <3>2. At(t) \in Evaluation
      BY <2>1, <3>1, Elements DEF TypeInv, At
    <3> QED
      BY <3>2 DEF Evaluation, Readings
  <2>4. bound.limit \in Int
    BY <2>1, BoundTyped DEF SpecType
  <2>5. ASSUME NEW i \in DOMAIN intervals
        PROVE  intervals[i].peak = IF bound.kind = "lower" THEN Min(ValuesDuring(i))
                                                            ELSE Max(ValuesDuring(i))
    <3>1. \A u \in Samples :
            Covers(i, u) <=> /\ u >= intervals[i].start
                             /\ intervals[i].end = None \/ u < intervals[i].end
      <4> SUFFICES ASSUME NEW u \in Samples
                   PROVE  Covers(i, u) <=>
                            /\ u >= intervals[i].start
                            /\ intervals[i].end = None \/ u < intervals[i].end
        OBVIOUS
      <4>1. PICK start : start = intervals[i].start
        OBVIOUS
      <4>2. PICK end : end = intervals[i].end
        OBVIOUS
      <4>3. start \in Nat /\ IF IsOpen(i) THEN end = None ELSE end \in Nat
        BY <2>1, <2>2, <4>1, <4>2 DEF IntervalsSoFar, RunSoFar, OpenRun, ClosedRun, Begins, Samples
      <4>4. end = None <=> IsOpen(i)
        BY <4>3, MonitorAssumption
      <4> QED
        BY <2>2, <4>1, <4>2, <4>3, <4>4 DEF Covers
    <3>2. ValuesDuring(i) = {At(t).reading.value : t \in {u \in Samples : Covers(i, u)}}
      BY <3>1, Zenon DEF ValuesDuring
    <3>3. ValuesDuring(i) \in SUBSET Int
      BY <2>3, <3>2
    <3>4. intervals[i].peak \in ValuesDuring(i)
      BY <1>1, <2>1, <2>2, <3>2 DEF PeaksSoFar
    <3>5. \A value \in ValuesDuring(i) : NoWorse(intervals[i].peak, value)
      BY <1>1, <2>1, <2>2, <3>2 DEF PeaksSoFar
    <3>6. CASE bound.kind = "lower"
      <4>1. \A value \in ValuesDuring(i) : intervals[i].peak <= value
        BY <3>5, <3>6 DEF NoWorse
      <4> QED
        BY <3>3, <3>4, <3>6, <4>1, MinIs
    <3>7. CASE bound.kind # "lower"
      <4>1. \A value \in ValuesDuring(i) : intervals[i].peak >= value
        BY <3>5, <3>7 DEF NoWorse
      <4> QED
        BY <3>3, <3>4, <3>7, <4>1, MaxIs
    <3> QED
      BY <3>6, <3>7
  <2>6. peak = Max({0} \cup {Excursion(At(t).reading.value) : t \in Violations})
    <3> DEFINE Excursions == {0} \cup {Excursion(At(t).reading.value) : t \in Violations}
    <3>1. \A t \in Violations : Excursion(At(t).reading.value) \in Int
      BY <2>3, <2>4 DEF Violations, Excursion, Greater
    <3>2. Excursions \in SUBSET Int
      BY <3>1
    <3>3. peak \in Excursions
      BY <1>1, <2>1 DEF PeaksSoFar
    <3>4. \A value \in Excursions : peak >= value
      BY <1>1, <2>1, <2>2 DEF PeaksSoFar
    <3> QED
      BY <3>2, <3>3, <3>4, MaxIs
  <2> QED
    BY <2>5, <2>6 DEF PeaksAreWorst, Violations
<1>2. MonitorInv => PeaksAreWorst
  BY <1>1 DEF PeaksAreWorst
<1> QED
  BY <1>2, MonitorKeepsCount, PTL

\* INV-004 judges commands fairly.  The hypothesis is what the code's defaults
\* satisfy: no tolerance, and a limit above the rate of a single start.
THEOREM CommandsAreJudgedFairly ==
    ASSUME RateSpecsFair
    PROVE  Spec => []CommandsAreJudged
<1>1. Init => RateInv /\ CommandsAreJudged
  <2> SUFFICES ASSUME Init PROVE RateInv /\ CommandsAreJudged
    OBVIOUS
  <2>1. Now = 0 /\ Samples = {} /\ Len(commands) = 0 /\ startTimes = {}
    BY DEF Init, Now, Samples, RateInit
  <2>2. Starts = {}
    BY <2>1 DEF Starts
  <2>3. \A a : StartsFrom(a) = {}
    BY <2>2 DEF StartsFrom
  <2> QED
    BY <2>1, <2>2, <2>3 DEF RateInv, AsManyAsPaces, CommandsAreJudged
<1>2. ASSUME MonitorInv, RateInv, CommandsAreJudged, [Next]_monitorVars
      PROVE  RateInv' /\ CommandsAreJudged'
  <2>1. RateTypeOK /\ TypeInv
    BY <1>2 DEF MonitorInv
  <2>2. CASE EvaluatePlain
    <3>1. bound.kind # "rate" /\ \E reading, status : Evaluated(reading, status)
      BY <2>1, <2>2, PlainStep
    <3>2. bound' = bound
      BY <3>1 DEF Evaluated
    <3> QED
      BY <3>1, <3>2 DEF RateInv, CommandsAreJudged
  <2>3. CASE EvaluateRate
    <3>1. PICK command, reading, status :
            /\ Commanded(command) /\ reading = RateReading(command)
            /\ Evaluated(reading, status)
      BY <2>1, <2>3, CommandStep
    <3>2. bound.kind = "rate"
      BY <2>1, <2>3, CommandStep
    <3>3. RateInv'
      BY <1>2, <2>1, <3>1, <3>2, RateStep
    <3>4. CommandsAreJudged'
      BY <1>2, <2>1, <3>1, <3>2, JudgedStep
    <3> QED
      BY <3>3, <3>4
  <2>4. CASE Finalise \/ UNCHANGED monitorVars
    <3>1. /\ bound' = bound /\ evaluations' = evaluations
          /\ commands' = commands /\ startTimes' = startTimes
      BY <2>4 DEF Finalise, monitorVars
    <3>2. RateInv'
      BY <1>2, <3>1 DEF RateInv, PacedSoFar, AsManyAsPaces, PaceAfter, StartsFrom, Starts, Now
    <3>3. CommandsAreJudged'
      BY <1>2, <3>1 DEF CommandsAreJudged, Samples, Now, ViolatedAt, At, Jumped, TooOften,
          Paced, StartsUpTo
    <3> QED
      BY <3>2, <3>3
  <2> QED
    BY <1>2, <2>2, <2>3, <2>4 DEF Next
<1> QED
  BY <1>1, <1>2, MonitorKeepsCount, PTL DEF Spec
=============================================================================
