-------------------- MODULE ConsequenceClassifierProofs --------------------
(***************************************************************************)
(* Proofs about the consequence classifier, for every horizon, every       *)
(* sustained time and every set of samples.  The classifier keeps counters *)
(* and never looks back; the properties speak of the whole trace.  The     *)
(* inductive invariant says what each counter knows of the trace.          *)
(***************************************************************************)
EXTENDS ConsequenceClassifier, FiniteSetTheorems, SequenceTheorems, TLAPS

-----------------------------------------------------------------------------
(* The greatest and the least element of a set.                             *)

\* An element that bounds the set is the one Max chooses.
LEMMA MaxIs ==
    ASSUME NEW S \in SUBSET Int, NEW x \in S, \A y \in S : x >= y
    PROVE  Max(S) = x
<1>1. \A z \in S : (\A y \in S : z >= y) => z = x
  OBVIOUS
<1> QED
  BY <1>1 DEF Max

\* The same below.
LEMMA MinIs ==
    ASSUME NEW S \in SUBSET Int, NEW x \in S, \A y \in S : x <= y
    PROVE  Min(S) = x
<1>1. \A z \in S : (\A y \in S : z <= y) => z = x
  OBVIOUS
<1> QED
  BY <1>1 DEF Min

\* A set of classes up to C4 that holds C0 has a greatest one.
LEMMA MaxOfClasses ==
    ASSUME NEW S \in SUBSET (0..4), 0 \in S
    PROVE  Max(S) \in S /\ (\A y \in S : Max(S) >= y)
<1>1. PICK x \in S : \A y \in S : x >= y
  <2>1. CASE 4 \in S
    BY <2>1
  <2>2. CASE 4 \notin S /\ 3 \in S
    BY <2>2
  <2>3. CASE 4 \notin S /\ 3 \notin S /\ 2 \in S
    BY <2>3
  <2>4. CASE 4 \notin S /\ 3 \notin S /\ 2 \notin S /\ 1 \in S
    BY <2>4
  <2>5. CASE 4 \notin S /\ 3 \notin S /\ 2 \notin S /\ 1 \notin S
    BY <2>5
  <2> QED
    BY <2>1, <2>2, <2>3, <2>4, <2>5
<1>2. Max(S) = x
  BY <1>1, MaxIs
<1> QED
  BY <1>1, <1>2

\* A set of rows is finite and no larger than the last of them.
LEMMA RowsAreFew ==
    ASSUME NEW n \in Nat, NEW S \in SUBSET (1..n)
    PROVE  IsFiniteSet(S) /\ Cardinality(S) \in 0..n
<1>1. IsFiniteSet(1..n) /\ Cardinality(1..n) = n
  BY FS_Interval
<1>2. IsFiniteSet(S) /\ Cardinality(S) <= n
  BY <1>1, FS_Subset
<1> QED
  BY <1>2, FS_CardinalityType

\* The rows of a longer trace that qualify are those of the shorter one, with
\* the new row if it qualifies.
LEMMA OneMoreRow ==
    ASSUME NEW n \in Nat, NEW S \in SUBSET (1..n), NEW T \in SUBSET (1..(n + 1)),
           \A k \in 1..n : k \in T <=> k \in S
    PROVE  /\ n + 1 \in T => Cardinality(T) = Cardinality(S) + 1
           /\ n + 1 \notin T => T = S
<1>0. 1..(n + 1) = (1..n) \cup {n + 1} /\ n + 1 \notin 1..n
  OBVIOUS
<1>1. CASE n + 1 \in T
  <2>1. T = S \cup {n + 1} /\ n + 1 \notin S
    <3>1. \A k : k \in T => k \in S \cup {n + 1}
      BY <1>0
    <3>2. \A k : k \in S \cup {n + 1} => k \in T
      BY <1>0, <1>1
    <3> QED
      BY <1>0, <3>1, <3>2
  <2>2. IsFiniteSet(S)
    BY RowsAreFew
  <2> QED
    BY <2>1, <2>2, FS_AddElement
<1>2. CASE n + 1 \notin T
  BY <1>0, <1>2
<1> QED
  BY <1>1, <1>2

\* Appending keeps what was there.
LEMMA Appended ==
    ASSUME NEW S, NEW s \in Seq(S), NEW elt \in S
    PROVE  /\ Append(s, elt) \in Seq(S)
           /\ Len(s) \in Nat /\ Len(Append(s, elt)) = Len(s) + 1
           /\ \A i \in 1..Len(s) : Append(s, elt)[i] = s[i]
           /\ Append(s, elt)[Len(s) + 1] = elt
           /\ \A i \in 1..Len(s) : s[i] \in S
OBVIOUS

\* What is in a sequence is in the set it is drawn from.
LEMMA Elements ==
    ASSUME NEW S, NEW s \in Seq(S)
    PROVE  Len(s) \in Nat /\ DOMAIN s = 1..Len(s) /\ (\A i \in 1..Len(s) : s[i] \in S)
OBVIOUS

-----------------------------------------------------------------------------
(* What the counters know of the trace.                                     *)

\* A timer is the length of the run of rows, at the end of the trace, in which
\* the shortfall reaches the threshold.
Trailing(timer, threshold) ==
    /\ timer \in 0..Now
    /\ \A j \in (Now - timer + 1)..Now : trace[j].sample.shortfall >= threshold
    /\ timer < Now => trace[Now - timer].sample.shortfall < threshold

Row == [sample : Samples, class : Levels]
Note == [at : Nat, from : Levels, to : Levels]

\* What the elements of the two sequences are.
LEMMA RowFields ==
    /\ \A row \in Row : row.sample \in Samples /\ row.class \in Levels
    /\ \A note \in Note : note.at \in Nat
BY DEF Row, Note

TypeInv ==
    /\ trace \in Seq(Row)
    /\ Now <= Horizon
    /\ dwell \in [Levels -> 0..Now]
    /\ firstReached \in [Levels -> Nat \cup {Never}]
    /\ transitions \in Seq(Note)
    /\ maximum \in Levels
    /\ unsafeFor \in 0..Now

Timers ==
    /\ Trailing(degradedFor, Degraded)
    /\ Trailing(lostFor, Lost)
    /\ unsafeFor = Cardinality({j \in 1..Now : Meets(4, trace[j].sample, 0, 0)})

Reached(class) == {k \in Steps : trace[k].class = class}

Dwells == \A class \in Levels : dwell[class] = Cardinality(Reached(class))

Firsts ==
    \A class \in Levels :
        IF Reached(class) = {} THEN firstReached[class] = Never
        ELSE /\ firstReached[class] \in Nat
             /\ firstReached[class] + 1 \in Reached(class)
             /\ \A k \in Reached(class) : firstReached[class] + 1 <= k

Highest ==
    /\ \A k \in Steps : trace[k].class <= maximum
    /\ maximum = 0 \/ \E k \in Steps : trace[k].class = maximum

Changes == {k \in Steps : k > 1 /\ trace[k].class # trace[k - 1].class}

Transits ==
    /\ Len(transitions) = Cardinality(Changes)
    /\ \A i \in DOMAIN transitions :
        /\ transitions[i].at + 1 \in Changes
        /\ transitions[i].from = trace[transitions[i].at].class
        /\ transitions[i].to = trace[transitions[i].at + 1].class
        /\ i > 1 => transitions[i - 1].at < transitions[i].at

ClassifierInv ==
    /\ TypeInv /\ Timers
    /\ ClassMatchesTaxonomy /\ CatastropheIsEarned
    /\ Dwells /\ Firsts /\ Highest /\ Transits

-----------------------------------------------------------------------------
(* One more row.                                                            *)

\* The class of a step up to C4, and the class it is recorded with.
UpToC4Now(sample) == UpToC4(sample, degradedFor', lostFor')

ClassNow(sample) ==
    IF Catastrophic(sample, UpToC4Now(sample), lostFor', unsafeFor')
    THEN 5 ELSE UpToC4Now(sample)

\* The class up to C4 is one whose condition holds, and none above it does.
LEMMA UpToC4Is ==
    ASSUME NEW sample, NEW degraded, NEW lost
    PROVE  /\ UpToC4(sample, degraded, lost) \in 0..4
           /\ Meets(UpToC4(sample, degraded, lost), sample, degraded, lost)
           /\ UpToC4(sample, degraded, lost) >= 4 <=> Meets(4, sample, 0, 0)
<1> DEFINE met == {class \in 0..4 : Meets(class, sample, degraded, lost)}
<1>1. 0 \in met
  BY DEF Meets
<1>2. Max(met) \in met /\ \A class \in met : class <= Max(met)
  BY <1>1, MaxOfClasses
<1>3. Meets(4, sample, degraded, lost) <=> Meets(4, sample, 0, 0)
  BY DEF Meets
<1>4. Max(met) >= 4 <=> 4 \in met
  BY <1>2
<1> QED
  BY <1>2, <1>3, <1>4 DEF UpToC4

\* One row more, with this sample and its class; those before it stay.
Grown(sample) ==
    /\ sample \in Samples /\ ClassNow(sample) \in Levels
    /\ RecordClass(sample, ClassNow(sample))
    /\ Now \in Nat /\ Now' = Now + 1 /\ Now < Horizon
    /\ trace' \in Seq(Row)
    /\ \A j \in 1..Now : trace'[j] = trace[j]
    /\ trace'[Now + 1] = [sample |-> sample, class |-> ClassNow(sample)]
    /\ \A j \in 1..Now : trace[j] \in Row

\* That is what classifying a sample does.
LEMMA OneRow ==
    ASSUME TypeInv, NEW sample \in Samples, Classify(sample)
    PROVE  Grown(sample)
<1>1. ClassNow(sample) \in Levels
  BY UpToC4Is DEF ClassNow, UpToC4Now, Levels
<1>2. RecordClass(sample, ClassNow(sample)) /\ Now < Horizon
  BY DEF Classify, ClassNow, UpToC4Now
<1>3. trace' = Append(trace, [sample |-> sample, class |-> ClassNow(sample)])
  BY <1>2 DEF RecordClass
<1>4. /\ trace \in Seq(Row)
      /\ [sample |-> sample, class |-> ClassNow(sample)] \in Row
  BY <1>1 DEF TypeInv, Row
<1> PICK row : row = [sample |-> sample, class |-> ClassNow(sample)]
  OBVIOUS
<1>5. /\ trace' \in Seq(Row)
      /\ Len(trace) \in Nat /\ Len(trace') = Len(trace) + 1
      /\ \A j \in 1..Len(trace) : trace'[j] = trace[j]
      /\ trace'[Len(trace) + 1] = row
  <2>1. trace \in Seq(Row) /\ row \in Row /\ trace' = Append(trace, row)
    BY <1>3, <1>4
  <2> QED
    BY <2>1, Appended
<1>6. \A j \in 1..Len(trace) : trace[j] \in Row
  <2>1. trace \in Seq(Row)
    BY <1>4
  <2> QED
    BY <2>1
<1> QED
  BY <1>1, <1>2, <1>5, <1>6 DEF Now, Grown

\* The type invariant.
LEMMA TypeStep ==
    ASSUME TypeInv, NEW sample \in Samples, Classify(sample)
    PROVE  TypeInv'
<1> DEFINE class == ClassNow(sample)
<1>0. Grown(sample)
  BY OneRow
<1> USE <1>0 DEF Grown
<1>1. dwell' \in [Levels -> 0..Now']
  <2>1. dwell' = [dwell EXCEPT ![class] = @ + 1]
    BY DEF RecordClass
  <2>2. dwell \in [Levels -> 0..Now] /\ dwell[class] \in 0..Now
    BY DEF TypeInv
  <2>3. class \in Levels /\ Now \in Nat /\ Now' = Now + 1
    OBVIOUS
  <2> HIDE DEF class
  <2>4. \A level \in Levels : dwell'[level] \in 0..Now'
    BY <2>1, <2>2, <2>3
  <2> QED
    BY <2>1, <2>2, <2>4
<1>2. firstReached' \in [Levels -> Nat \cup {Never}]
  BY DEF TypeInv, RecordClass
<1>3. transitions' \in Seq(Note)
  <2>1. CASE trace # <<>> /\ class # trace[Now].class
    <3>1. Now \in 1..Now
      BY <2>1 DEF TypeInv, Now
    <3>2. trace[Now].class \in Levels
      BY <3>1, RowFields
    <3> QED
      BY <2>1, <3>2, Appended DEF TypeInv, RecordClass, Note
  <2>2. CASE ~(trace # <<>> /\ class # trace[Now].class)
    BY <2>2 DEF TypeInv, RecordClass
  <2> QED
    BY <2>1, <2>2
<1>4. maximum' \in Levels
  BY DEF TypeInv, RecordClass, Greater
<1>5. unsafeFor' \in 0..Now'
  BY DEF TypeInv, Classify
<1>6. Now' <= Horizon
  BY ClassifierAssumption
<1> QED
  BY <1>1, <1>2, <1>3, <1>4, <1>5, <1>6 DEF TypeInv

\* A timer follows its run: it grows with a row in which the shortfall reaches
\* the threshold, and any other row ends the run.
LEMMA TrailingStep ==
    ASSUME TypeInv, NEW sample \in Samples, Classify(sample),
           NEW timer, NEW next, NEW threshold \in Shortfalls,
           Trailing(timer, threshold),
           next = Sustain(timer, sample.shortfall >= threshold)
    PROVE  /\ next \in 0..Now'
           /\ \A j \in (Now' - next + 1)..Now' : trace'[j].sample.shortfall >= threshold
           /\ next < Now' => trace'[Now' - next].sample.shortfall < threshold
<1>0. Grown(sample)
  BY OneRow
<1> USE <1>0 DEF Grown
<1>1. timer \in 0..Now
  BY DEF Trailing
<1>2. sample.shortfall \in Int /\ threshold \in Int
  <2>1. sample \in SampleType
    BY ClassifierAssumption
  <2>2. sample.shortfall \in Shortfalls
    BY <2>1, Zenon DEF SampleType
  <2> QED
    BY <2>2 DEF Shortfalls, Lost
<1>3. CASE sample.shortfall >= threshold
  <2>1. next = timer + 1
    BY <1>3 DEF Sustain
  <2>2. \A j \in (Now' - next + 1)..Now' : trace'[j].sample.shortfall >= threshold
    <3> TAKE j \in (Now' - next + 1)..Now'
    <3>1. CASE j = Now + 1
      BY <1>3, <3>1
    <3>2. CASE j # Now + 1
      BY <1>1, <2>1, <3>2 DEF Trailing
    <3> QED
      BY <3>1, <3>2
  <2>3. next < Now' => trace'[Now' - next].sample.shortfall < threshold
    <3> HAVE next < Now'
    <3>1. timer < Now /\ Now' - next = Now - timer /\ Now - timer \in 1..Now
      BY <1>1, <2>1
    <3> QED
      BY <3>1 DEF Trailing
  <2> QED
    BY <1>1, <2>1, <2>2, <2>3
<1>4. CASE ~(sample.shortfall >= threshold)
  <2>1. next = 0
    BY <1>4 DEF Sustain
  <2> QED
    BY <1>2, <1>4, <2>1
<1> QED
  BY <1>3, <1>4

\* The time in C4 is that of the unsafe rows.
LEMMA TimersStep ==
    ASSUME TypeInv, Timers, NEW sample \in Samples, Classify(sample)
    PROVE  Timers'
<1>0. Grown(sample)
  BY OneRow
<1> USE <1>0 DEF Grown
<1>1. Trailing(degradedFor, Degraded)'
  <2>1. /\ degradedFor' = Sustain(degradedFor, sample.shortfall >= Degraded)
        /\ Trailing(degradedFor, Degraded) /\ Degraded \in Shortfalls
    BY DEF Timers, Classify, Shortfalls, Degraded, Lost
  <2> QED
    BY <2>1, TrailingStep DEF Trailing
<1>2. Trailing(lostFor, Lost)'
  <2>1. /\ lostFor' = Sustain(lostFor, sample.shortfall >= Lost)
        /\ Trailing(lostFor, Lost) /\ Lost \in Shortfalls
    BY DEF Timers, Classify, Shortfalls, Lost
  <2> QED
    BY <2>1, TrailingStep DEF Trailing
<1>3. unsafeFor' = Cardinality({j \in 1..Now' : Meets(4, trace'[j].sample, 0, 0)})
  <2> DEFINE before == {j \in 1..Now : Meets(4, trace[j].sample, 0, 0)}
             after == {j \in 1..(Now + 1) : Meets(4, trace'[j].sample, 0, 0)}
  <2>1. /\ Now + 1 \in after => Cardinality(after) = Cardinality(before) + 1
        /\ Now + 1 \notin after => after = before
    BY OneMoreRow
  <2>2. Now + 1 \in after <=> UpToC4Now(sample) >= 4
    <3>1. trace'[Now + 1].sample = sample /\ Now + 1 \in 1..(Now + 1)
      OBVIOUS
    <3>2. UpToC4Now(sample) >= 4 <=> Meets(4, sample, 0, 0)
      BY UpToC4Is DEF UpToC4Now
    <3> QED
      BY <3>1, <3>2
  <2>3. unsafeFor' = IF UpToC4Now(sample) >= 4 THEN unsafeFor + 1 ELSE unsafeFor
    BY DEF Classify, UpToC4Now
  <2>4. unsafeFor = Cardinality(before)
    BY DEF Timers
  <2> HIDE <1>0 DEF before, after
  <2>5. unsafeFor' = Cardinality(after)
    BY <2>1, <2>2, <2>3, <2>4
  <2> QED
    BY <1>0, <2>5 DEF after
<1> QED
  BY <1>1, <1>2, <1>3 DEF Timers

-----------------------------------------------------------------------------
(* The class of every row.                                                  *)

\* What a row says does not change with later rows.
LEMMA PastStays ==
    ASSUME NEW sample, Grown(sample), NEW k \in 1..Now
    PROVE  /\ trace'[k] = trace[k]
           /\ \A count \in Nat \ {0} : \A threshold : Sustained(k, count, threshold)' <=> Sustained(k, count, threshold)
           /\ ServiceIsLost(k)' <=> ServiceIsLost(k)
<1>1. trace'[k] = trace[k]
  BY DEF Grown
<1>2. ASSUME NEW count \in Nat \ {0}, NEW threshold
      PROVE  Sustained(k, count, threshold)' <=> Sustained(k, count, threshold)
  <2>1. k >= count => \A j \in (k - count + 1)..k : j \in 1..Now /\ trace'[j] = trace[j]
    BY DEF Grown
  <2> QED
    BY <2>1 DEF Sustained
<1>3. ServiceIsLost(k)' <=> ServiceIsLost(k)
  BY <1>1, <1>2, ClassifierAssumption DEF ServiceIsLost
<1> QED
  BY <1>1, <1>2, <1>3

\* A condition has been sustained at the last row when its timer says so.
LEMMA TimerTells ==
    ASSUME NEW k \in Nat, NEW timer \in 0..k, NEW count \in Nat \ {0}, NEW threshold,
           \A j \in (k - timer + 1)..k : trace'[j].sample.shortfall >= threshold,
           timer < k => ~(trace'[k - timer].sample.shortfall >= threshold)
    PROVE  Sustained(k, count, threshold)' <=> timer >= count
<1>1. Sustained(k, count, threshold)' <=>
        /\ k >= count
        /\ \A j \in (k - count + 1)..k : trace'[j].sample.shortfall >= threshold
  BY DEF Sustained
<1>2. CASE timer >= count
  BY <1>1, <1>2
<1>3. CASE timer < count
  <2>1. k >= count => k - timer \in (k - count + 1)..k
    BY <1>3
  <2> QED
    BY <1>1, <1>3, <2>1
<1> QED
  BY <1>2, <1>3

\* With the sample counted, the timers decide C2 and C3 as the trace does, and the
\* class up to C4 is the one the taxonomy gives.
LEMMA NewClass ==
    ASSUME TypeInv, Timers, NEW sample \in Samples, Classify(sample), NEW k, k = Now + 1
    PROVE  /\ Sustained(k, DegradationSustained, Degraded)' <=> degradedFor' >= DegradationSustained
           /\ Sustained(k, LossSustained, Lost)' <=> lostFor' >= LossSustained
           /\ ServiceIsLost(k)' <=> LosesReserve(sample) \/ lostFor' >= LossSustained
           /\ trace'[k].sample = sample /\ trace'[k].class = ClassNow(sample)
<1>0. Grown(sample)
  BY OneRow
<1>1. k \in Nat /\ k = Now' /\ trace'[k].sample = sample /\ trace'[k].class = ClassNow(sample)
  BY <1>0 DEF Grown
<1>2. Trailing(degradedFor, Degraded)' /\ Trailing(lostFor, Lost)' /\ TypeInv'
  BY TimersStep, TypeStep DEF Timers
<1>3. \A j \in 1..k : trace'[j].sample.shortfall \in Nat
  <2>1. \A j \in 1..k : trace'[j].sample \in Samples
    BY <1>0, RowFields DEF Grown
  <2>2. \A s \in Samples : s.shortfall \in Shortfalls
    BY ClassifierAssumption, Zenon DEF SampleType
  <2> QED
    BY <2>1, <2>2 DEF Shortfalls, Lost
<1>4. Sustained(k, DegradationSustained, Degraded)' <=> degradedFor' >= DegradationSustained
  <2>1. /\ degradedFor' \in 0..k
        /\ \A j \in (k - degradedFor' + 1)..k : trace'[j].sample.shortfall >= Degraded
        /\ degradedFor' < k => trace'[k - degradedFor'].sample.shortfall < Degraded
    BY <1>1, <1>2 DEF Trailing
  <2>2. degradedFor' < k => ~(trace'[k - degradedFor'].sample.shortfall >= Degraded)
    BY <1>1, <1>3, <2>1 DEF Degraded
  <2> QED
    BY <1>1, <2>1, <2>2, TimerTells, ClassifierAssumption
<1>5. Sustained(k, LossSustained, Lost)' <=> lostFor' >= LossSustained
  <2>1. /\ lostFor' \in 0..k
        /\ \A j \in (k - lostFor' + 1)..k : trace'[j].sample.shortfall >= Lost
        /\ lostFor' < k => trace'[k - lostFor'].sample.shortfall < Lost
    BY <1>1, <1>2 DEF Trailing
  <2>2. lostFor' < k => ~(trace'[k - lostFor'].sample.shortfall >= Lost)
    BY <1>1, <1>3, <2>1 DEF Lost
  <2> QED
    BY <1>1, <2>1, <2>2, TimerTells, ClassifierAssumption
<1> QED
  BY <1>1, <1>4, <1>5 DEF ServiceIsLost

\* The class the taxonomy gives to a row that is not catastrophic.
Taxonomy(k) ==
    Max({0}
        \cup {c \in {1} : Meets(1, trace[k].sample, 0, 0)}
        \cup {c \in {2} : Sustained(k, DegradationSustained, Degraded)}
        \cup {c \in {3} : ServiceIsLost(k)}
        \cup {c \in {4} : Meets(4, trace[k].sample, 0, 0)})

\* The taxonomy of C0 to C4 for every row.
LEMMA TaxonomyStep ==
    ASSUME TypeInv, Timers, ClassMatchesTaxonomy, NEW sample \in Samples, Classify(sample)
    PROVE  ClassMatchesTaxonomy'
<1>0. Grown(sample)
  BY OneRow
<1>1. ASSUME NEW k \in 1..Now PROVE Taxonomy(k)' = Taxonomy(k) /\ trace'[k] = trace[k]
  BY <1>0, PastStays, ClassifierAssumption, Zenon DEF Taxonomy
<1>2. ASSUME NEW k, k = Now + 1, trace'[k].class # 5 PROVE trace'[k].class = Taxonomy(k)'
  <2> DEFINE met == {class \in 0..4 : Meets(class, sample, degradedFor', lostFor')}
             told == {0}
                 \cup {c \in {1} : Meets(1, sample, 0, 0)}
                 \cup {c \in {2} : Sustained(k, DegradationSustained, Degraded)'}
                 \cup {c \in {3} : ServiceIsLost(k)'}
                 \cup {c \in {4} : Meets(4, sample, 0, 0)}
  <2>1. trace'[k].sample = sample /\ trace'[k].class = UpToC4Now(sample)
    BY <1>2, NewClass DEF ClassNow
  <2>2. met = told
    <3>1. /\ Meets(0, sample, degradedFor', lostFor')
          /\ Meets(1, sample, degradedFor', lostFor') <=> Meets(1, sample, 0, 0)
          /\ Meets(2, sample, degradedFor', lostFor') <=>
                Sustained(k, DegradationSustained, Degraded)'
          /\ Meets(3, sample, degradedFor', lostFor') <=> ServiceIsLost(k)'
          /\ Meets(4, sample, degradedFor', lostFor') <=> Meets(4, sample, 0, 0)
      BY <1>2, NewClass DEF Meets
    <3>2. 0..4 = {0, 1, 2, 3, 4}
      OBVIOUS
    <3> QED
      BY <3>1, <3>2
  <2>3. UpToC4Now(sample) = Max(met)
    BY DEF UpToC4Now, UpToC4
  <2>4. Taxonomy(k)' = Max(told)
    BY <2>1 DEF Taxonomy
  <2> QED
    BY <2>1, <2>2, <2>3, <2>4
<1>3. Steps' = (1..Now) \cup {Now + 1}
  BY <1>0 DEF Grown, Steps
<1>4. \A k \in 1..Now : trace[k].class # 5 => trace[k].class = Taxonomy(k)
  BY DEF ClassMatchesTaxonomy, Steps, Taxonomy
<1>5. \A k \in Steps' : trace'[k].class # 5 => trace'[k].class = Taxonomy(k)'
  BY <1>1, <1>2, <1>3, <1>4
<1> QED
  BY <1>5 DEF ClassMatchesTaxonomy, Taxonomy

\* The class is C5 exactly with a loss of containment, or an unsafe state that has
\* lasted and is also a loss of the service.
LEMMA CatastropheStep ==
    ASSUME TypeInv, Timers, CatastropheIsEarned, NEW sample \in Samples, Classify(sample)
    PROVE  CatastropheIsEarned'
<1> DEFINE UnsafeRows(k) == {j \in 1..k : Meets(4, trace[j].sample, 0, 0)}
           Earned(k) ==
            \/ trace[k].sample.catastrophicSpill
            \/ /\ Meets(4, trace[k].sample, 0, 0)
               /\ ServiceIsLost(k)
               /\ Cardinality(UnsafeRows(k)) >= CatastrophicUnsafe
<1>0. Grown(sample)
  BY OneRow
<1>1. ASSUME NEW k \in 1..Now PROVE (Earned(k)' <=> Earned(k)) /\ trace'[k] = trace[k]
  <2>1. \A j \in 1..k : trace'[j] = trace[j]
    BY <1>0 DEF Grown
  <2>2. UnsafeRows(k)' = UnsafeRows(k)
    BY <2>1
  <2>3. k \in 1..k
    BY <1>0 DEF Grown
  <2> QED
    BY <1>0, <2>1, <2>2, <2>3, PastStays
<1>2. ASSUME NEW k, k = Now + 1 PROVE trace'[k].class = 5 <=> Earned(k)'
  <2>1. k = Now' /\ trace'[k].sample = sample /\ trace'[k].class = ClassNow(sample)
    BY <1>0, <1>2 DEF Grown
  <2>2. /\ UpToC4Now(sample) \in 0..4
        /\ UpToC4Now(sample) >= 4 <=> Meets(4, sample, 0, 0)
    BY UpToC4Is DEF UpToC4Now
  <2>3. trace'[k].class = 5 <=> Catastrophic(sample, UpToC4Now(sample), lostFor', unsafeFor')
    BY <2>1, <2>2 DEF ClassNow
  <2>4. ServiceIsLost(k)' <=> LosesReserve(sample) \/ lostFor' >= LossSustained
    BY <1>2, NewClass
  <2>5. unsafeFor' = Cardinality(UnsafeRows(k)')
    BY <2>1, TimersStep DEF Timers
  <2>6. /\ trace'[k].sample.catastrophicSpill <=> sample.catastrophicSpill
        /\ Meets(4, trace'[k].sample, 0, 0) <=> Meets(4, sample, 0, 0)
    BY <2>1
  <2> HIDE DEF UnsafeRows
  <2>7. Catastrophic(sample, UpToC4Now(sample), lostFor', unsafeFor') <=>
            \/ sample.catastrophicSpill
            \/ /\ Meets(4, sample, 0, 0)
               /\ ServiceIsLost(k)'
               /\ Cardinality(UnsafeRows(k)') >= CatastrophicUnsafe
    BY <2>2, <2>4, <2>5 DEF Catastrophic
  <2> QED
    BY <2>3, <2>6, <2>7
<1>3. Steps' = (1..Now) \cup {Now + 1}
  BY <1>0 DEF Grown, Steps
<1>4. \A k \in 1..Now : trace[k].class = 5 <=> Earned(k)
  BY DEF CatastropheIsEarned, Steps
<1>5. ASSUME NEW k \in Steps' PROVE trace'[k].class = 5 <=> Earned(k)'
  <2>1. CASE k \in 1..Now
    <3>1. (Earned(k)' <=> Earned(k)) /\ trace'[k] = trace[k]
      BY <1>1, <2>1
    <3>2. trace[k].class = 5 <=> Earned(k)
      BY <1>4, <2>1
    <3> HIDE DEF Earned
    <3> QED
      BY <3>1, <3>2
  <2>2. CASE k = Now + 1
    BY <1>2, <2>2
  <2> QED
    BY <1>3, <1>5, <2>1, <2>2
<1> QED
  BY <1>5 DEF CatastropheIsEarned

-----------------------------------------------------------------------------
(* The summary.                                                             *)

\* The rows of each class, with the new one among those of its class.
LEMMA ReachedStep ==
    ASSUME NEW sample, Grown(sample), NEW class \in Levels
    PROVE  /\ Reached(class) \subseteq 1..Now
           /\ Reached(class)' =
                Reached(class) \cup (IF class = ClassNow(sample) THEN {Now + 1} ELSE {})
<1>1. Steps' = (1..Now) \cup {Now + 1}
  BY DEF Grown, Steps
<1>2. trace'[Now + 1].class = ClassNow(sample)
  BY DEF Grown
<1>3. \A k \in 1..Now : trace'[k] = trace[k]
  BY DEF Grown
<1> QED
  BY <1>1, <1>2, <1>3, Zenon DEF Reached, Steps

\* The time at each class is the number of its rows.
LEMMA DwellsStep ==
    ASSUME TypeInv, Dwells, NEW sample \in Samples, Classify(sample)
    PROVE  Dwells'
<1>0. Grown(sample)
  BY OneRow
<1>1. dwell' = [dwell EXCEPT ![ClassNow(sample)] = @ + 1]
  BY <1>0 DEF Grown, RecordClass
<1> SUFFICES ASSUME NEW class \in Levels PROVE dwell'[class] = Cardinality(Reached(class)')
  BY DEF Dwells
<1>2. /\ Reached(class) \subseteq 1..Now /\ Now \in Nat
      /\ Reached(class)' =
            Reached(class) \cup (IF class = ClassNow(sample) THEN {Now + 1} ELSE {})
  BY <1>0, ReachedStep DEF Grown
<1>3. dwell[class] = Cardinality(Reached(class)) /\ dwell \in [Levels -> Nat]
  BY DEF Dwells, TypeInv
<1>4. IsFiniteSet(Reached(class)) /\ Now + 1 \notin Reached(class)
  BY <1>2, RowsAreFew
<1>5. CASE class = ClassNow(sample)
  <2>1. Cardinality(Reached(class)') = Cardinality(Reached(class)) + 1
    BY <1>2, <1>4, <1>5, FS_AddElement
  <2> QED
    BY <1>1, <1>3, <1>5, <2>1
<1>6. CASE class # ClassNow(sample)
  BY <1>1, <1>2, <1>3, <1>6
<1> QED
  BY <1>5, <1>6

\* The first time at each class is that of its first row.
LEMMA FirstsStep ==
    ASSUME TypeInv, Firsts, NEW sample \in Samples, Classify(sample)
    PROVE  Firsts'
<1>0. Grown(sample)
  BY OneRow
<1>1. firstReached' = [firstReached EXCEPT ![ClassNow(sample)] = IF @ = Never THEN Now ELSE @]
  BY <1>0 DEF Grown, RecordClass
<1> SUFFICES ASSUME NEW class \in Levels
             PROVE  IF Reached(class)' = {} THEN firstReached'[class] = Never
                    ELSE /\ firstReached'[class] \in Nat
                         /\ firstReached'[class] + 1 \in Reached(class)'
                         /\ \A k \in Reached(class)' : firstReached'[class] + 1 <= k
  BY DEF Firsts
<1>2. /\ Reached(class) \subseteq 1..Now /\ Now \in Nat
      /\ Reached(class)' =
            Reached(class) \cup (IF class = ClassNow(sample) THEN {Now + 1} ELSE {})
  BY <1>0, ReachedStep DEF Grown
<1>3. /\ firstReached \in [Levels -> Nat \cup {Never}] /\ Never \notin Nat
      /\ ClassNow(sample) \in Levels
  BY <1>0, ClassifierAssumption DEF TypeInv, Grown
<1>4. IF Reached(class) = {} THEN firstReached[class] = Never
      ELSE /\ firstReached[class] \in Nat
           /\ firstReached[class] + 1 \in Reached(class)
           /\ \A k \in Reached(class) : firstReached[class] + 1 <= k
  BY DEF Firsts
<1>5. CASE class # ClassNow(sample)
  BY <1>1, <1>2, <1>3, <1>4, <1>5
<1>6. CASE class = ClassNow(sample) /\ Reached(class) = {}
  BY <1>1, <1>2, <1>3, <1>4, <1>6
<1>7. CASE class = ClassNow(sample) /\ Reached(class) # {}
  <2>1. firstReached'[class] = firstReached[class] /\ firstReached[class] \in Nat
    BY <1>1, <1>3, <1>4, <1>7
  <2>2. firstReached[class] + 1 <= Now + 1
    BY <1>2, <1>4, <1>7
  <2> QED
    BY <1>2, <1>4, <1>7, <2>1, <2>2
<1> QED
  BY <1>5, <1>6, <1>7

\* The highest class is reached by some row and exceeded by none.
LEMMA HighestStep ==
    ASSUME TypeInv, Highest, NEW sample \in Samples, Classify(sample)
    PROVE  Highest'
<1>0. Grown(sample)
  BY OneRow
<1>1. /\ maximum' = Greater(maximum, ClassNow(sample)) /\ maximum \in 0..5
      /\ ClassNow(sample) \in 0..5
      /\ Steps' = (1..Now) \cup {Now + 1}
      /\ trace'[Now + 1].class = ClassNow(sample)
      /\ \A k \in 1..Now : trace'[k] = trace[k] /\ trace[k].class \in 0..5
  <2>1. \A row \in Row : row.class \in 0..5
    BY DEF Levels, Row
  <2>2. \A k \in 1..Now : trace'[k] = trace[k] /\ trace[k].class \in 0..5
    BY <1>0, <2>1 DEF Grown
  <2> QED
    <3>1. trace'[Now + 1].class = ClassNow(sample) /\ Steps' = (1..Now) \cup {Now + 1}
      BY <1>0 DEF Grown, Steps
    <3>2. maximum' = Greater(maximum, ClassNow(sample)) /\ ClassNow(sample) \in 0..5
      BY <1>0 DEF Grown, RecordClass, Levels
    <3> QED
      BY <2>2, <3>1, <3>2 DEF TypeInv, Levels
<1>2. (\A k \in 1..Now : trace[k].class <= maximum)
      /\ (maximum = 0 \/ \E k \in 1..Now : trace[k].class = maximum)
  BY DEF Highest, Steps
<1>3. maximum' >= maximum /\ maximum' >= ClassNow(sample)
      /\ (maximum' = maximum \/ maximum' = ClassNow(sample)) /\ maximum' \in 0..5
  BY <1>1 DEF Greater
<1>4. \A k \in Steps' : trace'[k].class <= maximum'
  BY <1>1, <1>2, <1>3
<1>5. maximum' = 0 \/ \E k \in Steps' : trace'[k].class = maximum'
  BY <1>1, <1>2, <1>3
<1> QED
  BY <1>4, <1>5 DEF Highest

\* Every change of class is noted once, in order.
LEMMA TransitsStep ==
    ASSUME TypeInv, Transits, NEW sample \in Samples, Classify(sample)
    PROVE  Transits'
<1> DEFINE Noted(t, i) ==
            /\ t[i].at + 1 \in Changes
            /\ t[i].from = trace[t[i].at].class
            /\ t[i].to = trace[t[i].at + 1].class
            /\ i > 1 => t[i - 1].at < t[i].at
           changed == trace # <<>> /\ ClassNow(sample) # trace[Now].class
<1>0. Grown(sample)
  BY OneRow
<1>1. /\ Now \in Nat /\ Now' = Now + 1 /\ Steps' = (1..Now) \cup {Now + 1}
      /\ \A k \in 1..Now : trace'[k] = trace[k]
      /\ trace'[Now + 1].class = ClassNow(sample)
  BY <1>0 DEF Grown, Steps
<1>2. /\ Len(transitions) = Cardinality(Changes) /\ Len(transitions) \in Nat
      /\ \A i \in 1..Len(transitions) : Noted(transitions, i)
  <2>1. transitions \in Seq(Note)
    BY DEF TypeInv
  <2>2. Len(transitions) \in Nat /\ DOMAIN transitions = 1..Len(transitions)
    BY <2>1, Elements
  <2>3. /\ Len(transitions) = Cardinality(Changes)
        /\ \A i \in DOMAIN transitions : Noted(transitions, i)
    BY DEF Transits
  <2> QED
    BY <2>2, <2>3
<1>3. trace # <<>> <=> Now >= 1
  BY DEF TypeInv, Now
<1>4. Changes \subseteq 1..Now
  BY DEF Changes, Steps
<1>5. Changes' = Changes \cup (IF changed THEN {Now + 1} ELSE {})
  <2>1. \A k \in 1..Now : k > 1 => k - 1 \in 1..Now
    BY <1>1
  <2>2. \A k \in 1..Now : k \in Changes' <=> k \in Changes
    BY <1>1, <2>1 DEF Changes, Steps
  <2>3. Now + 1 \in Changes' <=> changed
    <3>1. CASE Now >= 1
      <4>1. trace'[Now + 1 - 1] = trace[Now] /\ Now + 1 > 1
        BY <1>1, <3>1
      <4> QED
        BY <1>1, <1>3, <3>1, <4>1 DEF Changes
    <3>2. CASE ~(Now >= 1)
      BY <1>1, <1>3, <3>2 DEF Changes
    <3> QED
      BY <3>1, <3>2
  <2>4. Changes' \subseteq (1..Now) \cup {Now + 1}
    BY <1>1 DEF Changes
  <2> QED
    BY <1>4, <2>2, <2>3, <2>4
<1>6. ASSUME NEW k \in Changes PROVE k \in 2..Now /\ trace'[k] = trace[k] /\ trace'[k - 1] = trace[k - 1]
  BY <1>1 DEF Changes, Steps
<1>7. transitions \in Seq(Note)
  BY DEF TypeInv
<1>8. \A i \in 1..Len(transitions) : transitions[i].at \in Nat
  BY <1>7, RowFields, Elements
<1>9. ASSUME NEW i \in 1..Len(transitions)
      PROVE  /\ transitions[i].at + 1 \in Changes'
             /\ transitions[i].from = trace'[transitions[i].at].class
             /\ transitions[i].to = trace'[transitions[i].at + 1].class
             /\ i > 1 => transitions[i - 1].at < transitions[i].at
             /\ transitions[i].at < Now
  <2>1. transitions[i].at + 1 \in Changes /\ transitions[i].at \in Nat
    BY <1>2, <1>8
  <2>2. /\ trace'[transitions[i].at + 1] = trace[transitions[i].at + 1]
        /\ trace'[transitions[i].at] = trace[transitions[i].at]
        /\ transitions[i].at + 1 \in 2..Now
    BY <1>6, <2>1
  <2>3. Noted(transitions, i)
    BY <1>2
  <2> QED
    BY <1>1, <1>5, <2>1, <2>2, <2>3
<1>10. CASE ~changed
  <2>1. transitions' = transitions /\ Changes' = Changes
    BY <1>0, <1>5, <1>10 DEF Grown, RecordClass
  <2> QED
    BY <1>2, <1>9, <2>1 DEF Transits
<1>11. CASE changed
  <2> PICK note : note = [at |-> Now, from |-> trace[Now].class, to |-> ClassNow(sample)]
    OBVIOUS
  <2>1. transitions' = Append(transitions, note)
    BY <1>0, <1>11 DEF Grown, RecordClass
  <2>2. note \in Note
    <3>1. Now \in 1..Now
      BY <1>1, <1>3, <1>11
    <3>2. trace[Now] \in Row
      BY <1>0, <3>1 DEF Grown
    <3>3. trace[Now].class \in Levels
      BY <3>2 DEF Row
    <3>4. ClassNow(sample) \in Levels
      BY <1>0 DEF Grown
    <3> QED
      BY <1>1, <3>3, <3>4 DEF Note
  <2>3. /\ Len(transitions') = Len(transitions) + 1
        /\ \A i \in 1..Len(transitions) : transitions'[i] = transitions[i]
        /\ transitions'[Len(transitions) + 1] = note
    BY <2>1, <2>2, <1>7, Appended
  <2>4. Len(transitions') = Cardinality(Changes')
    <3>1. Now + 1 \notin Changes /\ IsFiniteSet(Changes)
      BY <1>1, <1>4, RowsAreFew
    <3> QED
      BY <1>2, <1>5, <1>11, <2>3, <3>1, FS_AddElement
  <2>5. DOMAIN transitions' = (1..Len(transitions)) \cup {Len(transitions) + 1}
    <3>1. DOMAIN transitions' = 1..Len(transitions')
      BY <2>1, <2>2, <1>7
    <3> QED
      BY <1>2, <2>3, <3>1
  <2>6. ASSUME NEW i \in 1..Len(transitions) PROVE Noted(transitions, i)' /\ i - 1 < Len(transitions)
    <3>1. i > 1 => i - 1 \in 1..Len(transitions)
      BY <1>2
    <3> QED
      BY <1>2, <1>9, <2>3, <3>1
  <2>7. ASSUME NEW i, i = Len(transitions) + 1 PROVE Noted(transitions, i)'
    <3>1. transitions'[i] = note /\ note.at = Now /\ note.from = trace[Now].class
          /\ note.to = ClassNow(sample)
      BY <2>3, <2>7
    <3>2. Now + 1 \in Changes' /\ trace'[Now] = trace[Now]
      BY <1>1, <1>3, <1>5, <1>11
    <3>3. i > 1 => transitions'[i - 1].at < Now
      <4>1. i > 1 => i - 1 \in 1..Len(transitions) /\ i - 1 = Len(transitions)
        BY <1>2, <2>7
      <4> QED
        BY <1>9, <2>3, <4>1
    <3> QED
      BY <1>1, <3>1, <3>2, <3>3
  <2>8. \A i \in DOMAIN transitions' : Noted(transitions, i)'
    BY <2>5, <2>6, <2>7
  <2> QED
    BY <2>4, <2>8 DEF Transits
<1> QED
  BY <1>10, <1>11

\* It holds before the first sample.
LEMMA ClassifierStarts ==
    ASSUME Init
    PROVE  ClassifierInv
<1>1. Now = 0 /\ Steps = {} /\ trace = <<>>
  BY DEF Init, Now, Steps
<1>2. TypeInv
  BY <1>1, ClassifierAssumption DEF Init, TypeInv, Levels
<1>3. Timers
  BY <1>1, FS_EmptySet, ClassifierAssumption DEF Init, Timers, Trailing
<1>4. ClassMatchesTaxonomy /\ CatastropheIsEarned
  BY <1>1 DEF ClassMatchesTaxonomy, CatastropheIsEarned
<1>5. Dwells
  BY <1>1, FS_EmptySet DEF Init, Dwells, Reached
<1>6. Firsts
  BY <1>1 DEF Init, Firsts, Reached
<1>7. Highest
  BY <1>1 DEF Init, Highest
<1>8. Transits
  <2>1. Changes = {}
    BY <1>1 DEF Changes
  <2> QED
    BY <2>1, FS_EmptySet DEF Init, Transits
<1> QED
  BY <1>2, <1>3, <1>4, <1>5, <1>6, <1>7, <1>8 DEF ClassifierInv

\* A step of the classifier, or of whatever leaves it alone, keeps it.
LEMMA ClassifierSteps ==
    ASSUME ClassifierInv, [Next]_classifierVars
    PROVE  ClassifierInv'
<1>1. ASSUME ClassifierInv, NEW sample \in Samples, Classify(sample) PROVE ClassifierInv'
  BY <1>1, TypeStep, TimersStep, TaxonomyStep, CatastropheStep, DwellsStep, FirstsStep,
     HighestStep, TransitsStep DEF ClassifierInv
<1>2. ASSUME ClassifierInv, UNCHANGED classifierVars PROVE ClassifierInv'
  <2> USE <1>2 DEF classifierVars
  <2>0. TypeInv'
    BY DEF ClassifierInv, TypeInv, Now
  <2>1. Timers'
    <3>1. degradedFor' = degradedFor /\ lostFor' = lostFor /\ unsafeFor' = unsafeFor
          /\ trace' = trace
      OBVIOUS
    <3>2. Trailing(degradedFor, Degraded)' /\ Trailing(lostFor, Lost)'
      BY <3>1 DEF ClassifierInv, Timers, Trailing, Now, Degraded, Lost
    <3> QED
      BY <3>1, <3>2 DEF ClassifierInv, Timers, Now
  <2>2. ClassMatchesTaxonomy' /\ CatastropheIsEarned'
    <3>1. /\ trace' = trace /\ Steps' = Steps
          /\ \A k, count, threshold : Sustained(k, count, threshold)' <=> Sustained(k, count, threshold)
      BY DEF Sustained, Steps, Now
    <3>2. \A k : ServiceIsLost(k)' <=> ServiceIsLost(k)
      BY <3>1 DEF ServiceIsLost
    <3>3. ClassMatchesTaxonomy'
      <4>1. \A k : Taxonomy(k)' = Taxonomy(k)
        BY <3>1, <3>2, Zenon DEF Taxonomy
      <4>2. \A k \in Steps : trace[k].class # 5 => trace[k].class = Taxonomy(k)
        BY DEF ClassifierInv, ClassMatchesTaxonomy, Taxonomy
      <4>3. \A k \in Steps' : trace'[k].class # 5 => trace'[k].class = Taxonomy(k)'
        BY <3>1, <4>1, <4>2
      <4> QED
        BY <4>3 DEF ClassMatchesTaxonomy, Taxonomy
    <3>4. CatastropheIsEarned'
      BY <3>1, <3>2 DEF ClassifierInv, CatastropheIsEarned
    <3> QED
      BY <3>3, <3>4
  <2>3. Dwells' /\ Firsts' /\ Highest'
    BY DEF ClassifierInv, Dwells, Firsts, Highest, Reached, Steps, Now
  <2>4. Transits'
    BY DEF ClassifierInv, Transits, Changes, Steps, Now
  <2> QED
    BY <2>0, <2>1, <2>2, <2>3, <2>4 DEF ClassifierInv
<1> QED
  BY <1>1, <1>2 DEF Next

-----------------------------------------------------------------------------
(* The theorems.                                                            *)

\* The invariant of the counters and the trace holds of every behaviour.
THEOREM ClassifierKeepsCount == Spec => []ClassifierInv
<1>1. Init => ClassifierInv
  BY ClassifierStarts
<1>2. ClassifierInv /\ [Next]_classifierVars => ClassifierInv'
  BY ClassifierSteps
<1> QED
  BY <1>1, <1>2, PTL DEF Spec

\* What the invariant says of the types.
LEMMA ClassifierInvIsTyped ==
    ASSUME ClassifierInv
    PROVE  ClassifierTypeOK
<1>1. TypeInv /\ Trailing(degradedFor, Degraded) /\ Trailing(lostFor, Lost)
  BY DEF ClassifierInv, Timers
<1>2. Now \in 0..Horizon
  BY <1>1, ClassifierAssumption DEF TypeInv, Now
<1>3. {degradedFor, lostFor, unsafeFor} \subseteq 0..Horizon
  BY <1>1, <1>2, ClassifierAssumption DEF TypeInv, Trailing
<1>4. dwell \in [Levels -> 0..Horizon]
  <2>1. 0..Now \subseteq 0..Horizon
    BY <1>2, ClassifierAssumption
  <2> QED
    BY <1>1, <2>1 DEF TypeInv
<1> QED
  BY <1>1, <1>2, <1>3, <1>4 DEF TypeInv, ClassifierTypeOK, Row, Note

\* The counters, the dwell times and the times of the first rows stay within the
\* length of the run.
THEOREM ClassifierTyped == Spec => []ClassifierTypeOK
<1>1. ClassifierInv => ClassifierTypeOK
  BY ClassifierInvIsTyped
<1> QED
  BY <1>1, ClassifierKeepsCount, PTL

\* The class of every row is the one consequences.yaml gives to the history up
\* to it, though the classifier keeps two timers and forgets the rest.
THEOREM ClassIsTheTaxonomys == Spec => []ClassMatchesTaxonomy
<1>1. ClassifierInv => ClassMatchesTaxonomy
  BY DEF ClassifierInv
<1> QED
  BY <1>1, ClassifierKeepsCount, PTL

\* No row is C5 for a token overflow, or for a long unsafe period in which the
\* service was intact.
THEOREM EscalationIsHard == Spec => []CatastropheIsEarned
<1>1. ClassifierInv => CatastropheIsEarned
  BY DEF ClassifierInv
<1> QED
  BY <1>1, ClassifierKeepsCount, PTL

\* The summary kept step by step is the one a reader of the whole trace makes.
THEOREM SummaryIsTheTraces == Spec => []SummaryMatchesTrace
<1>1. ASSUME ClassifierInv PROVE SummaryMatchesTrace
  <2>1. Steps \subseteq Int /\ Now \in Nat
    BY <1>1 DEF ClassifierInv, TypeInv, Steps, Now
  <2>2. ASSUME NEW class \in Levels
        PROVE  /\ dwell[class] = Cardinality(Reached(class))
               /\ firstReached[class] =
                    IF Reached(class) = {} THEN Never ELSE Min(Reached(class)) - 1
    <3>1. dwell[class] = Cardinality(Reached(class))
      BY <1>1 DEF ClassifierInv, Dwells
    <3>2. CASE Reached(class) = {}
      BY <1>1, <3>1, <3>2 DEF ClassifierInv, Firsts
    <3>3. CASE Reached(class) # {}
      <4>1. /\ firstReached[class] \in Nat /\ firstReached[class] + 1 \in Reached(class)
            /\ \A k \in Reached(class) : firstReached[class] + 1 <= k
        BY <1>1, <3>3 DEF ClassifierInv, Firsts
      <4>2. Reached(class) \in SUBSET Int
        BY <2>1 DEF Reached
      <4>3. Min(Reached(class)) = firstReached[class] + 1
        BY <4>1, <4>2, MinIs
      <4> QED
        BY <3>1, <3>3, <4>1, <4>3
    <3> QED
      BY <3>2, <3>3
  <2>3. maximum = Max({0} \cup {trace[k].class : k \in Steps})
    <3> DEFINE classes == {0} \cup {trace[k].class : k \in Steps}
    <3>1. trace \in Seq(Row) /\ maximum \in 0..5
      BY <1>1 DEF ClassifierInv, TypeInv, Levels
    <3>2. \A k \in Steps : trace[k].class \in 0..5
      <4>1. \A row \in Row : row.class \in 0..5
        BY DEF Levels, Row
      <4> QED
        BY <3>1, <4>1 DEF Steps, Now
    <3>3. classes \in SUBSET Int
      BY <3>2
    <3>4. maximum \in classes /\ \A c \in classes : maximum >= c
      BY <1>1, <3>1, <3>2 DEF ClassifierInv, Highest
    <3> HIDE DEF classes
    <3>5. Max(classes) = maximum
      BY <3>3, <3>4, MaxIs
    <3> QED
      BY <3>5 DEF classes
  <2>4. ASSUME NEW i \in DOMAIN transitions, NEW k, k = transitions[i].at + 1
        PROVE  /\ k \in Changes
               /\ transitions[i].from = trace[k - 1].class
               /\ transitions[i].to = trace[k].class
               /\ i > 1 => transitions[i - 1].at < transitions[i].at
    <3>1. transitions \in Seq(Note)
      BY <1>1 DEF ClassifierInv, TypeInv
    <3>2. transitions[i].at \in Nat
      BY <3>1, RowFields, Elements
    <3>3. k - 1 = transitions[i].at
      BY <2>4, <3>2
    <3> QED
      BY <1>1, <2>4, <3>3 DEF ClassifierInv, Transits
  <2> QED
    <3>1. \A class \in Levels :
            LET reached == {k \in Steps : trace[k].class = class}
            IN  /\ dwell[class] = Cardinality(reached)
                /\ firstReached[class] = IF reached = {} THEN Never ELSE Min(reached) - 1
      BY <2>2 DEF Reached
    <3>2. LET changes == {k \in Steps : k > 1 /\ trace[k].class # trace[k - 1].class}
          IN  /\ Len(transitions) = Cardinality(changes)
              /\ \A i \in DOMAIN transitions :
                    LET k == transitions[i].at + 1
                    IN  /\ k \in changes
                        /\ transitions[i].from = trace[k - 1].class
                        /\ transitions[i].to = trace[k].class
                        /\ i > 1 => transitions[i - 1].at < transitions[i].at
      <4> DEFINE changes == {k \in Steps : k > 1 /\ trace[k].class # trace[k - 1].class}
      <4>1. changes = Changes
        BY DEF Changes
      <4> HIDE DEF changes
      <4>2. /\ Len(transitions) = Cardinality(changes)
            /\ \A i \in DOMAIN transitions :
                LET k == transitions[i].at + 1
                IN  /\ k \in changes
                    /\ transitions[i].from = trace[k - 1].class
                    /\ transitions[i].to = trace[k].class
                    /\ i > 1 => transitions[i - 1].at < transitions[i].at
        BY <1>1, <2>4, <4>1 DEF ClassifierInv, Transits
      <4> QED
        BY <4>2 DEF changes
    <3> QED
      BY <2>3, <3>1, <3>2, Zenon DEF SummaryMatchesTrace
<1> QED
  BY <1>1, ClassifierKeepsCount, PTL
=============================================================================
