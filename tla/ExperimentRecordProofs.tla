----------------------- MODULE ExperimentRecordProofs -----------------------
(***************************************************************************)
(* What an experiment leaves behind is true of it, for every length of the *)
(* experiment and every set of samples.  The class of a row is known from  *)
(* the classifier's own proof, whose invariant the record keeps because it *)
(* takes the classifier's steps and no others.                             *)
(***************************************************************************)
EXTENDS ExperimentRecord, ConsequenceClassifierProofs, WellFoundedInduction

-----------------------------------------------------------------------------
(* The invariant.                                                           *)

\* The stream by itself: typed, in the order of time, and of what is told at a
\* time nothing yet at this one.
InOrder(es) == \A i \in 1..Len(es) : \A j \in 1..Len(es) : i <= j => es[i].at <= es[j].at

Before(es, t) == \A i \in 1..Len(es) : es[i].at <= t

SaidAt(es, signal, t) == \E i \in 1..Len(es) : es[i].signal = signal /\ es[i].at = t

\* That it tells of this phase of an effect.
PhaseAt(es, phase, t) ==
    \E i \in 1..Len(es) : es[i].signal = "scenario" /\ es[i].value = phase /\ es[i].at = t

\* What the stream says of a signal: nothing yet, or a last word.
Silent(es, signal) == \A i \in 1..Len(es) : es[i].signal # signal

LastWord(es, signal, value) ==
    \E i \in 1..Len(es) :
        /\ es[i].signal = signal /\ es[i].value = value
        /\ \A j \in 1..Len(es) : j > i => es[j].signal # signal

Heard(es, signal, value) ==
    \/ Silent(es, signal) /\ value \in {Never, signal = "supervisory"}
    \/ LastWord(es, signal, value)

\* The signals told when they change.
Changing == Signals \ {"acted"}

StreamInv ==
    /\ events \in Seq(Event)
    /\ InOrder(events) /\ Before(events, Now)
    /\ \A t \in Nat : t >= Now =>
        /\ ~SaidAt(events, "acted", t) /\ ~SaidAt(events, "telemetry", t)
        /\ \A phase : ~PhaseAt(events, phase, t)

\* What has begun and what has ended is what the schedule says, and the effects of
\* the last step are told at it.
ScheduleInv ==
    /\ scenario \in Scenarios
    /\ activated = {i \in DOMAIN scenario : scenario[i].begin < Now}
    /\ deactivated = {i \in DOMAIN scenario :
                        scenario[i].until # Lasting /\ scenario[i].until < Now}
    /\ Now > 0 => \A i \in DOMAIN scenario :
        /\ PhaseAt(events, <<i, "activate">>, Now - 1) <=> scenario[i].begin = Now - 1
        /\ PhaseAt(events, <<i, "deactivate">>, Now - 1) <=> scenario[i].until = Now - 1

\* previous_* is what the events have told, and the signals of the last step.
StoryInv ==
    /\ DOMAIN previous = Signals
    /\ \A s \in Changing : Heard(events, s, previous[s])
    /\ Now > 0 =>
        /\ \A s \in Signals : previous[s] = Value(s, trace[Now].sample, trace[Now].class)
        /\ SaidAt(events, "acted", Now - 1) <=> Shown[trace[Now].sample].acted

\* The next trend sample is due at the next multiple of the interval.
TrendInv ==
    /\ \E m \in Nat : telemetryAt = TelemetryInterval * m
    /\ Now <= telemetryAt /\ telemetryAt < Now + TelemetryInterval
    /\ Now > 0 =>
        (SaidAt(events, "telemetry", Now - 1) <=> (Now - 1) % TelemetryInterval = 0)

\* The engine's intervals are those the rows tell.
Opened == {begun \in Rows \X Invariants : begun[2] \in Begun(begun[1])}

IntervalInv ==
    /\ ongoing = IF Now = 0 THEN {} ELSE trace[Now].sample.violated
    /\ intervals = Cardinality(Opened)

\* There is a highest level once there is a row.
PeakInv == Now > 0 => \E k \in 1..Now : \A j \in 1..Now : Level(j) <= Level(k)

\* The result is about the whole trace.
ResultInv ==
    result # Never =>
        /\ Now = Horizon
        /\ result.satisfied \in 0..Horizon
        /\ result.end \in Nat \cup {Lasting, Nothing}
        /\ result.recovery = Recovery(result.end)
        /\ \E highest \in Nearest(Max({Level(k) : k \in Rows}), MetricUnit) :
            result.primary = Primary(highest)
        /\ \E highest \in Nearest(Max({Exported(k) : k \in Rows}), MetricUnit) :
            result.independent = Independent(highest)

RecordInv ==
    /\ ClassifierInv
    /\ StreamInv /\ ScheduleInv /\ StoryInv /\ TrendInv
    /\ IntervalInv /\ PeakInv /\ ResultInv

-----------------------------------------------------------------------------
(* Natural numbers.                                                         *)

\* A set of natural numbers has a least one: the interval below it is strictly
\* contained in no other.
LEMMA Least ==
    ASSUME NEW S \in SUBSET Nat, S # {}
    PROVE  \E x \in S : \A y \in S : x <= y
<1> DEFINE T == {0..x : x \in S}
<1>1. T \subseteq FiniteSubsetsOf(Nat) /\ T # {}
  <2>1. \A x \in Nat : 0..x \subseteq Nat /\ IsFiniteSet(0..x)
    BY FS_Interval
  <2> QED
    BY <2>1 DEF FiniteSubsetsOf
<1>2. PICK t \in T : \A u \in T : ~ (<<u, t>> \in StrictSubsetOrdering(Nat))
  BY <1>1, WFMin, FS_StrictSubsetOrderingWellFounded
<1>3. PICK x \in S : t = 0..x
  OBVIOUS
<1>4. ASSUME NEW y \in S, y < x PROVE FALSE
  <2>1. 0..y \in T /\ 0..y \subseteq 0..x /\ x \in 0..x /\ x \notin 0..y
    BY <1>4
  <2>2. <<0..y, 0..x>> \in StrictSubsetOrdering(Nat)
    BY <2>1 DEF StrictSubsetOrdering
  <2> QED
    BY <2>1, <2>2, <1>2, <1>3
<1> QED
  BY <1>4

\* The two means' common operator picks it.
LEMMA MinIsLeast ==
    ASSUME NEW S \in SUBSET Nat, S # {}
    PROVE  Min(S) \in S /\ \A y \in S : Min(S) <= y
<1>1. PICK x \in S : \A y \in S : x <= y
  BY Least
<1>2. Min(S) = x
  BY <1>1, MinIs
<1> QED
  BY <1>1, <1>2

\* A number is a multiple of a unit and what is left.
LEMMA Division ==
    ASSUME NEW n \in Nat, NEW unit \in Nat \ {0}
    PROVE  \E q \in Nat : \E r \in 0..(unit - 1) : n = unit * q + r /\ n % unit = r
<1>1. n \div unit \in Nat /\ n % unit \in 0..(unit - 1) /\ n = unit * (n \div unit) + (n % unit)
  OBVIOUS
<1>2. PICK q : q = n \div unit
  OBVIOUS
<1>3. PICK r : r = n % unit
  OBVIOUS
<1>4. q \in Nat /\ r \in 0..(unit - 1) /\ n = unit * q + r
  BY <1>1, <1>2, <1>3
<1> QED
  BY <1>3, <1>4

\* Two multiples of a unit that are less than one apart are the same.
LEMMA SameMultiple ==
    ASSUME NEW unit \in Nat \ {0}, NEW p \in Nat, NEW q \in Nat,
           unit * p - unit * q < unit, unit * q - unit * p < unit
    PROVE  p = q
<1>1. unit * (p - q) = unit * p - unit * q
  OBVIOUS
<1>2. p - q >= 1 => unit * (p - q) >= unit
  OBVIOUS
<1>3. p - q <= -1 => unit * (p - q) <= -unit
  OBVIOUS
<1> QED
  BY <1>1, <1>2, <1>3

\* From one multiple of a unit to the next there is no other.
LEMMA Multiples ==
    ASSUME NEW unit \in Nat \ {0}, NEW m \in Nat, NEW n \in Nat,
           n <= unit * m, unit * m < n + unit
    PROVE  n = unit * m <=> n % unit = 0
<1>1. PICK q \in Nat : \E r \in 0..(unit - 1) : n = unit * q + r /\ n % unit = r
  BY Division
<1>2. PICK r \in 0..(unit - 1) : n = unit * q + r /\ n % unit = r
  BY <1>1
<1>3. PICK x, y : x = unit * q /\ y = unit * m
  OBVIOUS
<1>4. x \in Nat /\ y \in Nat
  BY <1>3
<1>5. CASE r = 0
  <2>1. x - y < unit /\ y - x < unit
    BY <1>2, <1>3, <1>4, <1>5
  <2>2. q = m
    BY <2>1, <1>3, SameMultiple
  <2> QED
    BY <2>2, <1>2, <1>5
<1>6. CASE r # 0
  <2>1. ASSUME n = y PROVE FALSE
    <3>1. x - y < unit /\ y - x < unit
      BY <1>2, <1>3, <1>4, <2>1
    <3>2. q = m
      BY <3>1, <1>3, SameMultiple
    <3>3. x = y
      BY <3>2, <1>3
    <3> QED
      BY <3>3, <2>1, <1>2, <1>3, <1>4, <1>6
  <2> QED
    BY <2>1, <1>2, <1>3, <1>6
<1> QED
  BY <1>5, <1>6

-----------------------------------------------------------------------------
(* What a step may tell.                                                    *)

\* What the record knows of a sample.
LEMMA ShownFields ==
    ASSUME NEW sample \in Samples
    PROVE  /\ Shown[sample].level \in Nat
           /\ Shown[sample].pump \in BOOLEAN /\ Shown[sample].acted \in BOOLEAN
           /\ Shown[sample].supervisory \in BOOLEAN /\ Shown[sample].reserve \in BOOLEAN
           /\ sample.violated \in SUBSET Invariants /\ sample.shortfall \in Nat
<1>1. Shown[sample] \in ShownType
  BY RecordAssumption
<1>2. sample \in SampleType
  BY ClassifierAssumption
<1>3. sample.violated \in SUBSET Invariants
  BY <1>2, Zenon DEF SampleType, Invariants
<1>6. sample.shortfall \in Nat
  <2>1. sample.shortfall \in Shortfalls
    BY <1>2, Zenon DEF SampleType
  <2> QED
    BY <2>1 DEF Shortfalls, Lost
<1>4. Shown[sample].level \in Nat
  BY <1>1 DEF ShownType
<1>5. /\ Shown[sample].pump \in BOOLEAN /\ Shown[sample].acted \in BOOLEAN
      /\ Shown[sample].supervisory \in BOOLEAN /\ Shown[sample].reserve \in BOOLEAN
  BY <1>1, Zenon DEF ShownType
<1> QED
  BY <1>3, <1>4, <1>5, <1>6

\* The fields of an event, and what makes one.
LEMMA EventFields ==
    /\ \A e \in Event : e.at \in Nat
    /\ \A t \in Nat : \A s \in {"pump", "acted", "supervisory", "reserve"} : \A v \in BOOLEAN :
        [at |-> t, signal |-> s, value |-> v] \in Event
    /\ \A t \in Nat : \A s \in Invariants : \A v \in Statuses :
        [at |-> t, signal |-> s, value |-> v] \in Event
    /\ \A t \in Nat : \A s \in {"class", "telemetry", "end"} : \A v \in Levels :
        [at |-> t, signal |-> s, value |-> v] \in Event
    /\ \A t \in Nat : \A v \in Phases : [at |-> t, signal |-> "scenario", value |-> v] \in Event
    /\ \A t \in Nat : [at |-> t, signal |-> "start", value |-> TRUE] \in Event
<1> HIDE DEF Levels, Statuses, Phases, Invariants
<1> QED
  BY DEF Event

\* The value of a signal is a class, a status, or yes or no: it is never the one
\* that stands for nothing told yet, and it makes an event.
LEMMA ValueType ==
    ASSUME NEW s \in Signals, NEW sample \in Samples, NEW class \in Levels, NEW t \in Nat
    PROVE  /\ [at |-> t, signal |-> s, value |-> Value(s, sample, class)] \in Event
           /\ Value(s, sample, class) # Never
<1>1. CASE s \in Invariants
  <2>1. Value(s, sample, class) = Status(s, sample)
    <3>1. s # "class"
      BY <1>1 DEF Invariants, UnsafePhysical, ServiceLoss, Advisory
    <3> QED
      BY <1>1, <3>1, Zenon DEF Value
  <2>2. Status(s, sample) \in Statuses
    BY DEF Status, Statuses
  <2>3. Never \notin Statuses
    BY RecordAssumption
  <2> QED
    BY <1>1, <2>1, <2>2, <2>3, EventFields
<1>2. CASE s = "class"
  <2>1. s \notin Invariants
    BY <1>2 DEF Invariants, UnsafePhysical, ServiceLoss, Advisory
  <2>2. Value(s, sample, class) = class
    BY <1>2, <2>1 DEF Value
  <2>3. class # Never
    BY ClassifierAssumption DEF Levels
  <2> QED
    BY <1>2, <2>2, <2>3, EventFields
<1>3. CASE s \in {"pump", "acted", "supervisory", "reserve"}
  <2>1. s \notin Invariants /\ s # "class"
    BY <1>3 DEF Invariants, UnsafePhysical, ServiceLoss, Advisory
  <2>2. Value(s, sample, class) = Shown[sample][s]
    BY <2>1 DEF Value
  <2>3. Shown[sample] \in ShownType
    BY RecordAssumption
  <2>4. Shown[sample][s] \in BOOLEAN
    BY <1>3, <2>3 DEF ShownType
  <2>5. Never \notin BOOLEAN
    BY RecordAssumption
  <2>6. PICK v \in BOOLEAN : v = Value(s, sample, class)
    BY <2>2, <2>4
  <2>7. v # Never
    BY <2>5
  <2>8. [at |-> t, signal |-> s, value |-> v] \in Event
    BY <1>3, EventFields
  <2> QED
    BY <2>6, <2>7, <2>8, Zenon
<1> QED
  BY <1>1, <1>2, <1>3 DEF Signals

\* A stream with one event more, at the last time of the stream or later.
LEMMA OneMoreEvent ==
    ASSUME NEW es \in Seq(Event), NEW e \in Event, InOrder(es), Before(es, e.at)
    PROVE  LET longer == es \o <<e>>
           IN  /\ longer \in Seq(Event) /\ InOrder(longer) /\ Before(longer, e.at)
               /\ \A s, v : s # e.signal /\ Heard(es, s, v) => Heard(longer, s, v)
               /\ LastWord(longer, e.signal, e.value)
               /\ \A s, t : SaidAt(longer, s, t) <=>
                                SaidAt(es, s, t) \/ (s = e.signal /\ t = e.at)
               /\ e.signal # "scenario" =>
                    \A p, t : PhaseAt(longer, p, t) <=> PhaseAt(es, p, t)
<1> DEFINE longer == es \o <<e>>
           n == Len(es)
<1>1. /\ n \in Nat /\ DOMAIN es = 1..n /\ \A i \in 1..n : es[i] \in Event
      /\ longer \in Seq(Event) /\ Len(longer) = n + 1
      /\ \A i \in 1..n : longer[i] = es[i]
      /\ longer[n + 1] = e
  OBVIOUS
<1> HIDE DEF longer, n
<1>2. \A i \in 1..n : es[i].at \in Nat /\ es[i].at <= e.at
  BY <1>1, EventFields DEF Before, n
<1>3. e.at \in Nat
  BY EventFields
<1>4. InOrder(longer) /\ Before(longer, e.at)
  <2>1. \A i \in 1..(n + 1) : longer[i].at \in Nat /\ longer[i].at <= e.at
    BY <1>1, <1>2, <1>3
  <2>2. \A i, j \in 1..(n + 1) : i <= j => longer[i].at <= longer[j].at
    <3> SUFFICES ASSUME NEW i \in 1..(n + 1), NEW j \in 1..(n + 1), i <= j
                 PROVE  longer[i].at <= longer[j].at
      OBVIOUS
    <3>1. CASE j = n + 1
      BY <1>1, <2>1, <3>1
    <3>2. CASE j # n + 1
      <4>1. i \in 1..n /\ j \in 1..n
        BY <1>1, <3>2
      <4>2. es[i].at <= es[j].at
        BY <4>1 DEF InOrder, n
      <4> QED
        BY <1>1, <4>1, <4>2
    <3> QED
      BY <3>1, <3>2
  <2> QED
    BY <1>1, <2>1, <2>2 DEF InOrder, Before
<1>5. ASSUME NEW s, NEW v, s # e.signal, Heard(es, s, v) PROVE Heard(longer, s, v)
  <2>1. CASE Silent(es, s) /\ v \in {Never, s = "supervisory"}
    <3>1. \A i \in 1..(n + 1) : longer[i].signal # s
      BY <1>1, <1>5, <2>1 DEF Silent, n
    <3> QED
      BY <1>1, <2>1, <3>1 DEF Heard, Silent
  <2>2. CASE LastWord(es, s, v)
    <3>1. PICK i \in 1..n : /\ es[i].signal = s /\ es[i].value = v
                            /\ \A j \in 1..n : j > i => es[j].signal # s
      BY <2>2 DEF LastWord, n
    <3>2. i \in 1..(n + 1) /\ longer[i].signal = s /\ longer[i].value = v
      BY <1>1, <3>1
    <3>3. \A j \in 1..(n + 1) : j > i => longer[j].signal # s
      BY <1>1, <1>5, <3>1
    <3> QED
      BY <1>1, <3>2, <3>3 DEF Heard, LastWord
  <2> QED
    BY <1>5, <2>1, <2>2 DEF Heard
<1>6. LastWord(longer, e.signal, e.value)
  <2>1. n + 1 \in 1..(n + 1) /\ \A j \in 1..(n + 1) : ~(j > n + 1)
    BY <1>1
  <2> QED
    BY <1>1, <2>1 DEF LastWord
<1>7. ASSUME NEW s, NEW t
      PROVE  SaidAt(longer, s, t) <=> SaidAt(es, s, t) \/ (s = e.signal /\ t = e.at)
  <2>1. \A i : i \in 1..(n + 1) <=> i \in 1..n \/ i = n + 1
    BY <1>1
  <2> QED
    BY <1>1, <2>1 DEF SaidAt, n
<1>8. ASSUME NEW p, NEW t, e.signal # "scenario"
      PROVE  PhaseAt(longer, p, t) <=> PhaseAt(es, p, t)
  <2>1. \A i : i \in 1..(n + 1) <=> i \in 1..n \/ i = n + 1
    BY <1>1
  <2> QED
    BY <1>1, <1>8, <2>1 DEF PhaseAt, n
<1> QED
  BY <1>1, <1>4, <1>5, <1>6, <1>7, <1>8 DEF longer

\* A stream with the phases of effects after it, all of one time.
LEMMA MorePhases ==
    ASSUME NEW es \in Seq(Event), NEW block \in Seq(Event), NEW now \in Nat,
           InOrder(es), Before(es, now),
           \A i \in 1..Len(block) : block[i].signal = "scenario" /\ block[i].at = now
    PROVE  LET longer == es \o block
           IN  /\ longer \in Seq(Event) /\ InOrder(longer) /\ Before(longer, now)
               /\ \A s, v : s # "scenario" /\ Heard(es, s, v) => Heard(longer, s, v)
               /\ \A s, t : s # "scenario" => (SaidAt(longer, s, t) <=> SaidAt(es, s, t))
               /\ \A p, t : PhaseAt(longer, p, t) <=>
                    \/ PhaseAt(es, p, t)
                    \/ t = now /\ \E i \in 1..Len(block) : block[i].value = p
<1> DEFINE longer == es \o block
           n == Len(es)
           m == Len(block)
<1>1. /\ n \in Nat /\ m \in Nat /\ longer \in Seq(Event) /\ Len(longer) = n + m
      /\ \A i \in 1..n : longer[i] = es[i] /\ es[i] \in Event
      /\ \A i \in 1..m : longer[n + i] = block[i] /\ block[i] \in Event
  OBVIOUS
<1> HIDE DEF longer, n, m
<1>2. \A i \in (n + 1)..(n + m) : /\ longer[i] = block[i - n] /\ i - n \in 1..m
                                  /\ longer[i].signal = "scenario" /\ longer[i].at = now
  <2> SUFFICES ASSUME NEW i \in (n + 1)..(n + m)
               PROVE  /\ longer[i] = block[i - n] /\ i - n \in 1..m
                      /\ longer[i].signal = "scenario" /\ longer[i].at = now
    OBVIOUS
  <2>1. i - n \in 1..m /\ n + (i - n) = i
    BY <1>1
  <2> QED
    BY <1>1, <2>1 DEF m
<1>3. \A i : i \in 1..(n + m) <=> i \in 1..n \/ i \in (n + 1)..(n + m)
  BY <1>1
<1>4. \A i \in 1..n : es[i].at \in Nat /\ es[i].at <= now
  BY <1>1, EventFields DEF Before, n
<1>5. InOrder(longer) /\ Before(longer, now)
  <2>1. \A i \in 1..(n + m) : longer[i].at \in Nat /\ longer[i].at <= now
    BY <1>1, <1>2, <1>3, <1>4
  <2>2. ASSUME NEW i \in 1..(n + m), NEW j \in 1..(n + m), i <= j
        PROVE  longer[i].at <= longer[j].at
    <3>1. CASE j \in 1..n
      <4>1. i \in 1..n
        BY <1>1, <2>2, <3>1
      <4>2. es[i].at <= es[j].at
        BY <2>2, <3>1, <4>1 DEF InOrder, n
      <4> QED
        BY <1>1, <3>1, <4>1, <4>2
    <3>2. CASE j \in (n + 1)..(n + m)
      BY <1>2, <2>1, <3>2
    <3> QED
      BY <1>3, <3>1, <3>2
  <2> QED
    BY <1>1, <2>1, <2>2 DEF InOrder, Before
<1>6. ASSUME NEW s, NEW v, s # "scenario", Heard(es, s, v) PROVE Heard(longer, s, v)
  <2>1. CASE Silent(es, s) /\ v \in {Never, s = "supervisory"}
    <3>1. \A i \in 1..(n + m) : longer[i].signal # s
      BY <1>1, <1>2, <1>3, <1>6, <2>1 DEF Silent, n
    <3> QED
      BY <1>1, <2>1, <3>1 DEF Heard, Silent
  <2>2. CASE LastWord(es, s, v)
    <3>1. PICK i \in 1..n : /\ es[i].signal = s /\ es[i].value = v
                            /\ \A j \in 1..n : j > i => es[j].signal # s
      BY <2>2 DEF LastWord, n
    <3>2. i \in 1..(n + m) /\ longer[i].signal = s /\ longer[i].value = v
      BY <1>1, <1>3, <3>1
    <3>3. \A j \in 1..(n + m) : j > i => longer[j].signal # s
      BY <1>1, <1>2, <1>3, <1>6, <3>1
    <3> QED
      BY <1>1, <3>2, <3>3 DEF Heard, LastWord
  <2> QED
    BY <1>6, <2>1, <2>2 DEF Heard
<1>7. ASSUME NEW s, NEW t, s # "scenario" PROVE SaidAt(longer, s, t) <=> SaidAt(es, s, t)
  BY <1>1, <1>2, <1>3, <1>7 DEF SaidAt, n
<1>8. ASSUME NEW p, NEW t
      PROVE  PhaseAt(longer, p, t) <=>
                PhaseAt(es, p, t) \/ (t = now /\ \E i \in 1..m : block[i].value = p)
  <2>1. ASSUME PhaseAt(longer, p, t)
        PROVE  PhaseAt(es, p, t) \/ (t = now /\ \E i \in 1..m : block[i].value = p)
    <3>1. PICK i \in 1..(n + m) :
            longer[i].signal = "scenario" /\ longer[i].value = p /\ longer[i].at = t
      BY <1>1, <2>1 DEF PhaseAt
    <3>2. CASE i \in 1..n
      BY <1>1, <3>1, <3>2 DEF PhaseAt, n
    <3>3. CASE i \in (n + 1)..(n + m)
      BY <1>2, <3>1, <3>3
    <3> QED
      BY <1>3, <3>2, <3>3
  <2>2. ASSUME PhaseAt(es, p, t) PROVE PhaseAt(longer, p, t)
    BY <1>1, <1>3, <2>2 DEF PhaseAt, n
  <2>3. ASSUME t = now, NEW i \in 1..m, block[i].value = p PROVE PhaseAt(longer, p, t)
    <3>1. n + i \in 1..(n + m)
      BY <1>1
    <3> QED
      BY <1>1, <2>3, <3>1 DEF PhaseAt, m
  <2> QED
    BY <2>1, <2>2, <2>3
<1> QED
  BY <1>1, <1>5, <1>6, <1>7, <1>8 DEF longer, m

\* A stream that stands with the signals of done told of this step.
Progress(es, done, sample, class) ==
    /\ es \in Seq(Event) /\ InOrder(es) /\ Before(es, Now)
    /\ \A s \in Changing :
        Heard(es, s, IF s \in done THEN Value(s, sample, class) ELSE previous[s])
    /\ \A t \in Nat : t >= Now =>
        /\ ~SaidAt(es, "telemetry", t)
        /\ SaidAt(es, "acted", t) <=> t = Now /\ "acted" \in done /\ Shown[sample].acted
        /\ \A phase : PhaseAt(es, phase, t) <=> t = Now /\ phase \in Due

\* One signal more.
LEMMA OneSignal ==
    ASSUME NEW es, NEW done, NEW sample \in Samples, NEW class \in Levels,
           Now \in Nat, NEW signal \in Signals \ done,
           Progress(es, done, sample, class)
    PROVE  Progress(es \o Tell(signal, sample, class), done \cup {signal}, sample, class)
<1> DEFINE value == Value(signal, sample, class)
           e == [at |-> Now, signal |-> signal, value |-> value]
<1>1. es \in Seq(Event) /\ InOrder(es) /\ Before(es, Now)
  BY DEF Progress
<1>2. e \in Event /\ e.at = Now /\ e.signal = signal /\ e.value = value
  BY ValueType, EventFields
<1>3. signal \in Signals /\ signal \notin done /\ signal # "telemetry" /\ signal # "scenario"
  BY DEF Signals, Invariants, UnsafePhysical, ServiceLoss, Advisory
<1>4. signal = "acted" => value = Shown[sample].acted
  BY DEF Value, Invariants, UnsafePhysical, ServiceLoss, Advisory
<1> HIDE DEF e, value
<1>5. CASE Tells(signal, sample, class)
  <2> DEFINE longer == es \o <<e>>
  <2>1. es \o Tell(signal, sample, class) = longer
    BY <1>5 DEF Tell, e, value
  <2>2. /\ longer \in Seq(Event) /\ InOrder(longer) /\ Before(longer, Now)
        /\ \A s, v : s # signal /\ Heard(es, s, v) => Heard(longer, s, v)
        /\ LastWord(longer, signal, value)
        /\ \A s, t : SaidAt(longer, s, t) <=> SaidAt(es, s, t) \/ (s = signal /\ t = Now)
        /\ \A p, t : PhaseAt(longer, p, t) <=> PhaseAt(es, p, t)
    BY <1>1, <1>2, <1>3, OneMoreEvent
  <2> HIDE DEF longer
  <2>3. ASSUME NEW s \in Changing
        PROVE  Heard(longer, s, IF s \in done \cup {signal}
                                THEN Value(s, sample, class) ELSE previous[s])
    <3>1. CASE s = signal
      BY <2>2, <3>1 DEF Heard, value
    <3>2. CASE s # signal
      <4>1. Heard(es, s, IF s \in done THEN Value(s, sample, class) ELSE previous[s])
        BY DEF Progress
      <4>2. s \in done \cup {signal} <=> s \in done
        BY <3>2
      <4> QED
        BY <2>2, <3>2, <4>1, <4>2
    <3> QED
      BY <3>1, <3>2
  <2>4. ASSUME NEW t \in Nat, t >= Now
        PROVE  /\ ~SaidAt(longer, "telemetry", t)
               /\ SaidAt(longer, "acted", t) <=>
                    t = Now /\ "acted" \in done \cup {signal} /\ Shown[sample].acted
               /\ \A phase : PhaseAt(longer, phase, t) <=> t = Now /\ phase \in Due
    <3>1. /\ ~SaidAt(es, "telemetry", t)
          /\ SaidAt(es, "acted", t) <=> t = Now /\ "acted" \in done /\ Shown[sample].acted
          /\ \A phase : PhaseAt(es, phase, t) <=> t = Now /\ phase \in Due
      BY <2>4 DEF Progress
    <3>2. signal = "acted" => Shown[sample].acted
      BY <1>5 DEF Tells
    <3> QED
      BY <1>3, <2>2, <3>1, <3>2
  <2> QED
    BY <2>1, <2>2, <2>3, <2>4 DEF Progress
<1>6. CASE ~Tells(signal, sample, class)
  <2>1. es \o Tell(signal, sample, class) = es
    BY <1>1, <1>6 DEF Tell
  <2>2. signal # "acted" => previous[signal] = value
    BY <1>6 DEF Tells, value
  <2>3. signal = "acted" => ~Shown[sample].acted
    BY <1>6 DEF Tells
  <2>4. ASSUME NEW s \in Changing
        PROVE  Heard(es, s, IF s \in done \cup {signal}
                            THEN Value(s, sample, class) ELSE previous[s])
    <3>1. Heard(es, s, IF s \in done THEN Value(s, sample, class) ELSE previous[s])
      BY DEF Progress
    <3>2. s = signal => previous[s] = Value(s, sample, class)
      BY <2>2 DEF Changing, value
    <3> QED
      BY <3>1, <3>2
  <2>5. ASSUME NEW t \in Nat, t >= Now
        PROVE  /\ ~SaidAt(es, "telemetry", t)
               /\ SaidAt(es, "acted", t) <=>
                    t = Now /\ "acted" \in done \cup {signal} /\ Shown[sample].acted
               /\ \A phase : PhaseAt(es, phase, t) <=> t = Now /\ phase \in Due
    BY <2>3, <2>5 DEF Progress
  <2> QED
    BY <1>1, <2>1, <2>4, <2>5 DEF Progress
<1> QED
  BY <1>5, <1>6

\* The place of a signal in the order of the code.
Place ==
    [s \in Signals |->
        CASE s = "pump" -> 1 [] s = "acted" -> 2
          [] s = "INV-001" -> 3 [] s = "INV-002" -> 4 [] s = "INV-003" -> 5
          [] s = "INV-004" -> 6 [] s = "INV-005" -> 7 [] s = "INV-006" -> 8
          [] s = "class" -> 9 [] s = "supervisory" -> 10 [] s = "reserve" -> 11]

\* Every signal has a place of its own.
LEMMA Places ==
    /\ \A s \in Signals : Place[s] \in 1..11
    /\ \A s, r \in Signals : Place[s] = Place[r] => s = r
    /\ Place["pump"] = 1 /\ Place["acted"] = 2
    /\ Place["INV-001"] = 3 /\ Place["INV-002"] = 4 /\ Place["INV-003"] = 5
    /\ Place["INV-004"] = 6 /\ Place["INV-005"] = 7 /\ Place["INV-006"] = 8
    /\ Place["class"] = 9 /\ Place["supervisory"] = 10 /\ Place["reserve"] = 11
    /\ {"pump", "acted", "INV-001", "INV-002", "INV-003", "INV-004", "INV-005", "INV-006",
        "class", "supervisory", "reserve"} \subseteq Signals
BY DEF Place, Signals, Invariants, UnsafePhysical, ServiceLoss, Advisory

\* When all are told, every signal that tells its changes has its present value
\* as its last word, and the backstop's events stand where it acted.
LEMMA AllTold ==
    ASSUME NEW said, NEW sample \in Samples, NEW class \in Levels, Now \in Nat,
           Progress(events \o Announced(said), {}, sample, class)
    PROVE  Progress(Told(said, sample, class), Signals, sample, class)
<1> DEFINE First(n) == {s \in Signals : Place[s] <= n}
           After(es, n) == Progress(es, First(n), sample, class)
           Of(signal) == Tell(signal, sample, class)
           e0 == events \o Announced(said)
<1>1. ASSUME NEW es, NEW n \in 0..10, NEW next, next = n + 1,
             NEW signal \in Signals, Place[signal] = next, After(es, n)
      PROVE  After(es \o Of(signal), next)
  <2>1. First(next) = First(n) \cup {signal} /\ signal \notin First(n)
    BY <1>1, Places
  <2>2. Progress(es \o Of(signal), First(n) \cup {signal}, sample, class)
    BY <1>1, <2>1, OneSignal
  <2> QED
    BY <2>1, <2>2
<1>2. After(e0, 0)
  <2>1. First(0) = {}
    BY Places
  <2> QED
    BY <2>1
<1>3. \A es : After(es, 11) => Progress(es, Signals, sample, class)
  <2>1. First(11) = Signals
    BY Places
  <2> QED
    BY <2>1
<1> DEFINE e1 == e0 \o Of("pump")
           e2 == e1 \o Of("acted")
           e3 == e2 \o Of("INV-001")
           e4 == e3 \o Of("INV-002")
           e5 == e4 \o Of("INV-003")
           e6 == e5 \o Of("INV-004")
           e7 == e6 \o Of("INV-005")
           e8 == e7 \o Of("INV-006")
           e9 == e8 \o Of("class")
           e10 == e9 \o Of("supervisory")
           e11 == e10 \o Of("reserve")
<1> HIDE DEF First, After, Of, e0, e1, e2, e3, e4, e5, e6, e7, e8, e9, e10, e11
<1>4. After(e1, 1)
  <2>1. 1 = 0 + 1 /\ "pump" \in Signals /\ Place["pump"] = 1
    BY Places
  <2> QED
    BY <1>1, <1>2, <2>1 DEF e1
<1>5. After(e2, 2)
  <2>1. 2 = 1 + 1 /\ "acted" \in Signals /\ Place["acted"] = 2
    BY Places
  <2> QED
    BY <1>1, <1>4, <2>1 DEF e2
<1>6. After(e3, 3)
  <2>1. 3 = 2 + 1 /\ "INV-001" \in Signals /\ Place["INV-001"] = 3
    BY Places
  <2> QED
    BY <1>1, <1>5, <2>1 DEF e3
<1>7. After(e4, 4)
  <2>1. 4 = 3 + 1 /\ "INV-002" \in Signals /\ Place["INV-002"] = 4
    BY Places
  <2> QED
    BY <1>1, <1>6, <2>1 DEF e4
<1>8. After(e5, 5)
  <2>1. 5 = 4 + 1 /\ "INV-003" \in Signals /\ Place["INV-003"] = 5
    BY Places
  <2> QED
    BY <1>1, <1>7, <2>1 DEF e5
<1>9. After(e6, 6)
  <2>1. 6 = 5 + 1 /\ "INV-004" \in Signals /\ Place["INV-004"] = 6
    BY Places
  <2> QED
    BY <1>1, <1>8, <2>1 DEF e6
<1>10. After(e7, 7)
  <2>1. 7 = 6 + 1 /\ "INV-005" \in Signals /\ Place["INV-005"] = 7
    BY Places
  <2> QED
    BY <1>1, <1>9, <2>1 DEF e7
<1>11. After(e8, 8)
  <2>1. 8 = 7 + 1 /\ "INV-006" \in Signals /\ Place["INV-006"] = 8
    BY Places
  <2> QED
    BY <1>1, <1>10, <2>1 DEF e8
<1>12. After(e9, 9)
  <2>1. 9 = 8 + 1 /\ "class" \in Signals /\ Place["class"] = 9
    BY Places
  <2> QED
    BY <1>1, <1>11, <2>1 DEF e9
<1>13. After(e10, 10)
  <2>1. 10 = 9 + 1 /\ "supervisory" \in Signals /\ Place["supervisory"] = 10
    BY Places
  <2> QED
    BY <1>1, <1>12, <2>1 DEF e10
<1>14. After(e11, 11)
  <2>1. 11 = 10 + 1 /\ "reserve" \in Signals /\ Place["reserve"] = 11
    BY Places
  <2> QED
    BY <1>1, <1>13, <2>1 DEF e11
<1>15. Told(said, sample, class) = e11
  BY DEF Told, Of, e0, e1, e2, e3, e4, e5, e6, e7, e8, e9, e10, e11
<1> QED
  BY <1>3, <1>14, <1>15

-----------------------------------------------------------------------------
(* A timestep.                                                              *)

\* One row more, with this sample and class, and what the record makes of it.
Advanced(sample, class) ==
    /\ sample \in Samples /\ class \in Levels
    /\ Now \in Nat /\ Now' = Now + 1 /\ Now < Horizon
    /\ trace \in Seq(Row) /\ trace' \in Seq(Row)
    /\ \A j \in 1..Now : trace'[j] = trace[j]
    /\ trace'[Now + 1].sample = sample /\ trace'[Now + 1].class = class
    /\ Emit(sample, class) /\ CountIntervals(sample)
    /\ Schedule
    /\ result' = result

\* A step of the record is such an advance.
LEMMA StepAdvances ==
    ASSUME ClassifierInv, TakeStep
    PROVE  \E sample \in Samples : \E class \in Levels : Advanced(sample, class)
<1>1. PICK sample \in Samples : Classify(sample)
  BY DEF TakeStep, Next
<1>2. Grown(sample) /\ trace \in Seq(Row)
  BY <1>1, OneRow DEF ClassifierInv, TypeInv
<1>3. PICK class \in Levels : class = ClassNow(sample)
  BY <1>2 DEF Grown
<1>4. trace'[Now + 1].sample = sample /\ trace'[Now + 1].class = class
  BY <1>2, <1>3 DEF Grown
<1>5. Emit(sample, class) /\ CountIntervals(sample) /\ Schedule /\ result' = result
  BY <1>4 DEF TakeStep
<1>6. Advanced(sample, class)
  BY <1>2, <1>4, <1>5 DEF Advanced, Grown
<1> QED
  BY <1>6

\* The phases that are due are those of effects of the schedule, each of its step.
LEMMA WhatIsDue ==
    ASSUME ScheduleInv, Now \in Nat
    PROVE  /\ Due \subseteq Phases
           /\ \A i \in DOMAIN scenario :
                /\ <<i, "activate">> \in Due <=> scenario[i].begin = Now
                /\ <<i, "deactivate">> \in Due <=> scenario[i].until = Now
                /\ Begins(i) <=> scenario[i].begin = Now
                /\ Ends(i) <=> scenario[i].until = Now
                /\ scenario[i].begin \in Nat
                /\ scenario[i].until # Lasting => scenario[i].until \in Nat
<1>1. scenario \in Seq(EffectType) /\ Lasting \notin Nat
  BY RecordAssumption DEF ScheduleInv
<1>2. DOMAIN scenario = 1..Len(scenario) /\ Len(scenario) \in Nat
      /\ \A i \in DOMAIN scenario : scenario[i] \in EffectType
  BY <1>1, Elements
<1>3. ASSUME NEW i \in DOMAIN scenario
      PROVE  /\ Begins(i) <=> scenario[i].begin = Now
             /\ Ends(i) <=> scenario[i].until = Now
             /\ scenario[i].begin \in Nat
             /\ scenario[i].until # Lasting => scenario[i].until \in Nat
  <2>1. scenario[i].begin \in Nat /\ scenario[i].until \in Nat \cup {Lasting}
    BY <1>2 DEF EffectType
  <2>2. scenario[i].until # Lasting => scenario[i].begin <= scenario[i].until
    BY RecordAssumption DEF ScheduleInv
  <2>3. /\ i \in activated <=> scenario[i].begin < Now
        /\ i \in deactivated <=> scenario[i].until # Lasting /\ scenario[i].until < Now
    BY DEF ScheduleInv
  <2>4. Begins(i) <=> scenario[i].begin = Now
    BY <2>1, <2>3 DEF Begins
  <2>5. CASE scenario[i].until = Lasting
    BY <1>1, <2>1, <2>4, <2>5 DEF Ends
  <2>6. CASE scenario[i].until # Lasting
    <3>1. scenario[i].until \in Nat
      BY <2>1, <2>6
    <3> QED
      BY <2>1, <2>2, <2>3, <2>4, <2>6, <3>1 DEF Ends
  <2> QED
    BY <2>1, <2>4, <2>5, <2>6
<1>4. /\ \A i : <<i, "activate">> \in Due <=> i \in DOMAIN scenario /\ Begins(i)
      /\ \A i : <<i, "deactivate">> \in Due <=> i \in DOMAIN scenario /\ Ends(i)
  BY DEF Due
<1>5. Due \subseteq Phases
  BY <1>2 DEF Due, Phases
<1> QED
  BY <1>3, <1>4, <1>5

\* The announcements tell what is due.
LEMMA AnnouncedIsDue ==
    ASSUME ScheduleInv, Now \in Nat, NEW said \in Announcements
    PROVE  /\ Announced(said) \in Seq(Event)
           /\ \A i \in 1..Len(Announced(said)) :
                Announced(said)[i].signal = "scenario" /\ Announced(said)[i].at = Now
           /\ \A phase : phase \in Due <=>
                \E i \in 1..Len(Announced(said)) : Announced(said)[i].value = phase
<1>1. PICK n \in Nat : said \in [1..n -> Due]
  BY DEF Announcements, SeqOf
<1>2. \A phase \in Due : \E i \in DOMAIN said : said[i] = phase
  BY DEF Announcements
<1>3. Due \subseteq Phases
  BY WhatIsDue
<1> DEFINE block == Announced(said)
<1>4. DOMAIN said = 1..n /\ \A i \in 1..n : said[i] \in Due
  BY <1>1
<1>5. block = [i \in 1..n |-> [at |-> Now, signal |-> "scenario", value |-> said[i]]]
  BY <1>4 DEF Announced
<1> HIDE DEF block
<1>6. \A i \in 1..n : /\ block[i] \in Event /\ block[i].at = Now
                       /\ block[i].signal = "scenario" /\ block[i].value = said[i]
  BY <1>3, <1>4, <1>5, EventFields
<1>7. block \in Seq(Event) /\ Len(block) = n
  BY <1>5, <1>6
<1> QED
  BY <1>2, <1>4, <1>6, <1>7 DEF block

\* What is told in the step, before the trend sample.
LEMMA StepTells ==
    ASSUME StreamInv, ScheduleInv, StoryInv, NEW sample, NEW class, Advanced(sample, class),
           NEW said \in Announcements
    PROVE  Progress(Told(said, sample, class), Signals, sample, class)
<1> DEFINE block == Announced(said)
           longer == events \o block
<1>1. \A s \in Changing : Heard(events, s, IF s \in {} THEN Value(s, sample, class) ELSE previous[s])
  BY DEF StoryInv
<1>2. Now \in Nat /\ sample \in Samples /\ class \in Levels
  BY DEF Advanced
<1>3. /\ block \in Seq(Event)
      /\ \A i \in 1..Len(block) : block[i].signal = "scenario" /\ block[i].at = Now
      /\ \A phase : phase \in Due <=> \E i \in 1..Len(block) : block[i].value = phase
  BY <1>2, AnnouncedIsDue
<1> HIDE DEF block
<1>4. /\ longer \in Seq(Event) /\ InOrder(longer) /\ Before(longer, Now)
      /\ \A s, v : s # "scenario" /\ Heard(events, s, v) => Heard(longer, s, v)
      /\ \A s, t : s # "scenario" => (SaidAt(longer, s, t) <=> SaidAt(events, s, t))
      /\ \A p, t : PhaseAt(longer, p, t) <=>
            PhaseAt(events, p, t) \/ (t = Now /\ \E i \in 1..Len(block) : block[i].value = p)
  BY <1>2, <1>3, MorePhases DEF StreamInv
<1>5. \A s \in Changing : s # "scenario"
  BY DEF Changing, Signals, Invariants, UnsafePhysical, ServiceLoss, Advisory
<1> HIDE DEF longer
<1>6. \A t \in Nat : t >= Now =>
        /\ ~SaidAt(longer, "acted", t) /\ ~SaidAt(longer, "telemetry", t)
        /\ \A phase : PhaseAt(longer, phase, t) <=> t = Now /\ phase \in Due
  BY <1>3, <1>4 DEF StreamInv
<1>7. Progress(longer, {}, sample, class)
  BY <1>1, <1>4, <1>5, <1>6 DEF Progress
<1> QED
  BY <1>2, <1>7, AllTold DEF longer, block

\* The stream after the step: in order, the present value of each signal as its
\* last word, the backstop's event and the trend sample if there is one.
LEMMA StepStreams ==
    ASSUME StreamInv, ScheduleInv, StoryInv, NEW sample, NEW class, Advanced(sample, class)
    PROVE  /\ events' \in Seq(Event) /\ InOrder(events') /\ Before(events', Now)
           /\ \A s \in Changing : Heard(events', s, Value(s, sample, class))
           /\ \A t \in Nat : t >= Now =>
                /\ SaidAt(events', "acted", t) <=> t = Now /\ Shown[sample].acted
                /\ SaidAt(events', "telemetry", t) <=> t = Now /\ Now >= telemetryAt
                /\ \A phase : PhaseAt(events', phase, t) <=> t = Now /\ phase \in Due
<1>0. PICK said \in Announcements :
        events' = Told(said, sample, class) \o
                    (IF Now >= telemetryAt
                     THEN <<[at |-> Now, signal |-> "telemetry", value |-> class]>>
                     ELSE <<>>)
  BY DEF Advanced, Emit
<1> DEFINE told == Told(said, sample, class)
           e == [at |-> Now, signal |-> "telemetry", value |-> class]
<1>1. /\ told \in Seq(Event) /\ InOrder(told) /\ Before(told, Now)
      /\ \A s \in Changing : Heard(told, s, Value(s, sample, class))
      /\ \A t \in Nat : t >= Now =>
            /\ ~SaidAt(told, "telemetry", t)
            /\ SaidAt(told, "acted", t) <=> t = Now /\ Shown[sample].acted
            /\ \A phase : PhaseAt(told, phase, t) <=> t = Now /\ phase \in Due
  <2>1. Progress(told, Signals, sample, class)
    BY StepTells
  <2>2. Changing \subseteq Signals /\ "acted" \in Signals
    BY Places DEF Changing
  <2> QED
    BY <2>1, <2>2 DEF Progress
<1>2. CASE Now >= telemetryAt
  <2>1. e \in Event /\ e.at = Now /\ e.signal = "telemetry"
    BY EventFields DEF Advanced
  <2>2. events' = told \o <<e>>
    BY <1>0, <1>2
  <2> HIDE DEF told, e
  <2>3. /\ events' \in Seq(Event) /\ InOrder(events') /\ Before(events', Now)
        /\ \A s, v : s # "telemetry" /\ Heard(told, s, v) => Heard(events', s, v)
        /\ \A s, t : SaidAt(events', s, t) <=>
                        SaidAt(told, s, t) \/ (s = "telemetry" /\ t = Now)
        /\ \A p, t : PhaseAt(events', p, t) <=> PhaseAt(told, p, t)
    BY <1>1, <2>1, <2>2, OneMoreEvent
  <2>4. \A s \in Changing : s # "telemetry"
    BY DEF Changing, Signals, Invariants, UnsafePhysical, ServiceLoss, Advisory
  <2> QED
    BY <1>1, <1>2, <2>3, <2>4
<1>3. CASE ~(Now >= telemetryAt)
  <2>1. events' = told \o <<>>
    BY <1>0, <1>3
  <2> HIDE DEF told
  <2>2. events' = told
    BY <1>1, <2>1
  <2> QED
    BY <1>1, <1>3, <2>2
<1> QED
  BY <1>2, <1>3

\* The stream stays one, with nothing told of the time to come.
LEMMA StreamStep ==
    ASSUME StreamInv, ScheduleInv, StoryInv, NEW sample, NEW class, Advanced(sample, class)
    PROVE  StreamInv'
<1>1. /\ events' \in Seq(Event) /\ InOrder(events') /\ Before(events', Now)
      /\ \A t \in Nat : t >= Now =>
            /\ SaidAt(events', "acted", t) <=> t = Now /\ Shown[sample].acted
            /\ SaidAt(events', "telemetry", t) <=> t = Now /\ Now >= telemetryAt
            /\ \A phase : PhaseAt(events', phase, t) <=> t = Now /\ phase \in Due
  BY StepStreams
<1>2. Now \in Nat /\ Now' = Now + 1
  BY DEF Advanced
<1>3. Before(events', Now + 1)
  <2>1. \A i \in 1..Len(events') : events'[i].at \in Nat
    BY <1>1, EventFields
  <2> QED
    BY <1>1, <1>2, <2>1 DEF Before
<1>4. \A t \in Nat : t >= Now + 1 =>
        /\ ~SaidAt(events', "acted", t) /\ ~SaidAt(events', "telemetry", t)
        /\ \A phase : ~PhaseAt(events', phase, t)
  BY <1>1, <1>2
<1> QED
  BY <1>1, <1>2, <1>3, <1>4 DEF StreamInv

\* The schedule advances, and what it did is told.
LEMMA ScheduleStep ==
    ASSUME StreamInv, ScheduleInv, StoryInv, NEW sample, NEW class, Advanced(sample, class)
    PROVE  ScheduleInv'
<1>1. Now \in Nat /\ Now' = Now + 1 /\ Now' - 1 = Now /\ Lasting \notin Nat
  <2>1. Lasting \notin Nat
    BY RecordAssumption
  <2> QED
    BY <2>1 DEF Advanced
<1>2. \A phase : PhaseAt(events', phase, Now) <=> phase \in Due
  BY <1>1, StepStreams
<1>3. \A i \in DOMAIN scenario :
        /\ <<i, "activate">> \in Due <=> scenario[i].begin = Now
        /\ <<i, "deactivate">> \in Due <=> scenario[i].until = Now
        /\ Begins(i) <=> scenario[i].begin = Now
        /\ Ends(i) <=> scenario[i].until = Now
        /\ scenario[i].begin \in Nat
        /\ scenario[i].until # Lasting => scenario[i].until \in Nat
  BY <1>1, WhatIsDue
<1> DEFINE now == Now
<1>0. \A t \in Nat : t < now + 1 <=> t < now \/ t = now
  <2>1. now \in Nat
    BY <1>1
  <2> HIDE DEF now
  <2> QED
    BY <2>1
<1>4. /\ scenario' = scenario
      /\ activated' = activated \cup {i \in DOMAIN scenario : Begins(i)}
      /\ deactivated' = deactivated \cup {i \in DOMAIN scenario : Ends(i)}
  BY DEF Advanced, Schedule
<1>5. activated' = {i \in DOMAIN scenario : scenario[i].begin < Now + 1}
  <2>1. \A i \in DOMAIN scenario : scenario[i].begin < Now + 1 <=>
            scenario[i].begin < Now \/ scenario[i].begin = Now
    BY <1>0, <1>3
  <2> QED
    BY <1>3, <1>4, <2>1 DEF ScheduleInv
<1>6. deactivated' = {i \in DOMAIN scenario :
                        scenario[i].until # Lasting /\ scenario[i].until < Now + 1}
  <2>1. \A i \in DOMAIN scenario : scenario[i].until # Lasting =>
            (scenario[i].until < Now + 1 <=> scenario[i].until < Now \/ scenario[i].until = Now)
    BY <1>0, <1>3
  <2>2. \A i \in DOMAIN scenario : scenario[i].until = Now => scenario[i].until # Lasting
    BY <1>1
  <2> QED
    BY <1>3, <1>4, <2>1, <2>2 DEF ScheduleInv
<1> QED
  BY <1>1, <1>2, <1>3, <1>4, <1>5, <1>6 DEF ScheduleInv

\* previous_* is what has just been told.
LEMMA StoryStep ==
    ASSUME StreamInv, ScheduleInv, StoryInv, NEW sample, NEW class, Advanced(sample, class)
    PROVE  StoryInv'
<1>1. /\ \A s \in Changing : Heard(events', s, Value(s, sample, class))
      /\ SaidAt(events', "acted", Now) <=> Shown[sample].acted
  BY StepStreams DEF Advanced
<1>2. DOMAIN previous' = Signals /\ \A s \in Signals : previous'[s] = Value(s, sample, class)
  BY DEF Advanced, Emit, Remember
<1>3. Now \in Nat /\ Now' = Now + 1 /\ Now' - 1 = Now
      /\ trace'[Now'].sample = sample /\ trace'[Now'].class = class
  BY DEF Advanced
<1>4. \A s \in Changing : Heard(events', s, previous'[s])
  BY <1>1, <1>2 DEF Changing
<1> QED
  BY <1>1, <1>2, <1>3, <1>4 DEF StoryInv

\* The next trend sample is due when the time reaches the next multiple.
LEMMA TrendStep ==
    ASSUME StreamInv, ScheduleInv, StoryInv, TrendInv, NEW sample, NEW class, Advanced(sample, class)
    PROVE  TrendInv'
<1>1. SaidAt(events', "telemetry", Now) <=> Now >= telemetryAt
  BY StepStreams DEF Advanced
<1>2. Now \in Nat /\ Now' = Now + 1 /\ Now' - 1 = Now
  BY DEF Advanced
<1>3. TelemetryInterval \in Nat \ {0}
  BY RecordAssumption
<1>4. PICK m \in Nat : telemetryAt = TelemetryInterval * m
  BY DEF TrendInv
<1>5. Now <= telemetryAt /\ telemetryAt < Now + TelemetryInterval /\ telemetryAt \in Nat
  BY <1>3, <1>4 DEF TrendInv
<1>6. Now = telemetryAt <=> Now % TelemetryInterval = 0
  BY <1>2, <1>3, <1>4, <1>5, Multiples
<1>7. CASE Now = telemetryAt
  <2>1. telemetryAt' = Now + TelemetryInterval
    BY <1>5, <1>7 DEF Advanced, Emit
  <2>2. telemetryAt' = TelemetryInterval * (m + 1)
    <3>1. TelemetryInterval * (m + 1) = TelemetryInterval * m + TelemetryInterval
      BY <1>3
    <3> QED
      BY <1>4, <1>7, <2>1, <3>1
  <2>3. m + 1 \in Nat
    OBVIOUS
  <2>4. Now' <= telemetryAt' /\ telemetryAt' < Now' + TelemetryInterval
    BY <1>2, <1>3, <2>1
  <2> QED
    BY <1>1, <1>2, <1>5, <1>6, <1>7, <2>2, <2>3, <2>4 DEF TrendInv
<1>8. CASE Now # telemetryAt
  <2>1. telemetryAt' = telemetryAt /\ ~(Now >= telemetryAt)
    BY <1>2, <1>5, <1>8 DEF Advanced, Emit
  <2>2. Now' <= telemetryAt' /\ telemetryAt' < Now' + TelemetryInterval
    BY <1>2, <1>3, <1>5, <1>8, <2>1
  <2> QED
    BY <1>1, <1>2, <1>4, <1>6, <1>8, <2>1, <2>2 DEF TrendInv
<1> QED
  BY <1>7, <1>8

\* There are finitely many invariants.
LEMMA InvariantsAreFew == IsFiniteSet(Invariants)
<1>1. Invariants = ((((({"INV-001"} \cup {"INV-002"}) \cup {"INV-003"}) \cup {"INV-004"})
                    \cup {"INV-005"}) \cup {"INV-006"})
  BY DEF Invariants, UnsafePhysical, ServiceLoss, Advisory
<1>2. IsFiniteSet({"INV-001"})
  BY FS_Singleton
<1> QED
  BY <1>1, <1>2, FS_AddElement

\* The intervals opened in the rows up to now are finitely many.
LEMMA OpenedAreFew ==
    ASSUME trace \in Seq(Row)
    PROVE  IsFiniteSet(Opened) /\ Cardinality(Opened) \in Nat
<1>1. IsFiniteSet(Rows)
  <2>1. Rows = 1..Len(trace) /\ Len(trace) \in Nat
    BY Elements DEF Rows
  <2> QED
    BY <2>1, FS_Interval
<1>2. IsFiniteSet(Rows \X Invariants)
  BY <1>1, InvariantsAreFew, FS_Product
<1>3. Opened \in SUBSET (Rows \X Invariants)
  BY DEF Opened
<1> QED
  BY <1>2, <1>3, FS_Subset, FS_CardinalityType

\* The engine opens in a step the intervals that its row begins.
LEMMA IntervalStep ==
    ASSUME IntervalInv, NEW sample, NEW class, Advanced(sample, class)
    PROVE  IntervalInv'
<1> DEFINE n == Now + 1
           new == sample.violated \ ongoing
<1>1. /\ Now \in Nat /\ Now' = n /\ trace'[n].sample = sample /\ trace'[n].class = class
      /\ \A j \in 1..Now : trace'[j] = trace[j]
  BY DEF Advanced
<1>2. intervals' = intervals + Cardinality(new) /\ ongoing' = sample.violated
  BY DEF Advanced, CountIntervals
<1>3. new \subseteq Invariants
  BY ShownFields DEF Advanced
<1>4. Rows = 1..Now /\ Rows' = 1..n
  BY Elements DEF Advanced, Rows, Now
<1>5. \A k \in 1..Now : Begun(k)' = Begun(k)
  <2> SUFFICES ASSUME NEW k \in 1..Now PROVE Begun(k)' = Begun(k)
    OBVIOUS
  <2>1. k # 1 => k - 1 \in 1..Now
    BY <1>1
  <2> QED
    BY <1>1, <2>1 DEF Begun
<1>6. \A k : k = n => Begun(k)' = new
  <2> SUFFICES ASSUME NEW k, k = n PROVE Begun(k)' = new
    OBVIOUS
  <2>1. CASE Now = 0
    <3>1. k = 1 /\ ongoing = {}
      BY <2>1 DEF IntervalInv
    <3> QED
      BY <1>1, <3>1 DEF Begun
  <2>2. CASE Now # 0
    <3>1. k # 1 /\ k - 1 = Now /\ Now \in 1..Now /\ ongoing = trace[Now].sample.violated
      BY <1>1, <2>2 DEF IntervalInv
    <3> QED
      BY <1>1, <3>1 DEF Begun
  <2> QED
    BY <2>1, <2>2
<1>7. /\ Opened' = Opened \cup ({n} \X new)
      /\ Opened \cap ({n} \X new) = {}
  <2>1. Opened' = {begun \in (1..n) \X Invariants : begun[2] \in Begun(begun[1])'}
    BY <1>4 DEF Opened
  <2>2. Opened = {begun \in (1..Now) \X Invariants : begun[2] \in Begun(begun[1])}
    BY <1>4 DEF Opened
  <2> HIDE DEF new
  <2>3. ASSUME NEW begun \in (1..n) \X Invariants
        PROVE  begun \in Opened' <=> begun \in Opened \cup ({n} \X new)
    <3>1. PICK k \in 1..n, i \in Invariants : begun = <<k, i>>
      OBVIOUS
    <3>2. begun \in Opened' <=> i \in Begun(k)'
      BY <2>1, <3>1
    <3>3. CASE k \in 1..Now
      <4>1. begun \in Opened <=> i \in Begun(k)
        BY <2>2, <3>1, <3>3
      <4>2. k # n
        BY <1>1, <3>3
      <4> QED
        BY <1>5, <3>1, <3>2, <3>3, <4>1, <4>2
    <3>4. CASE k = n
      <4>1. begun \notin Opened
        BY <1>1, <2>2, <3>1, <3>4
      <4> QED
        BY <1>6, <3>1, <3>2, <3>4, <4>1
    <3> QED
      BY <1>1, <3>3, <3>4
  <2>4. Opened' \subseteq (1..n) \X Invariants /\ Opened \cup ({n} \X new) \subseteq (1..n) \X Invariants
    BY <1>1, <1>3, <2>1, <2>2
  <2>5. Opened \cap ({n} \X new) = {}
    BY <1>1, <2>2
  <2> QED
    BY <2>3, <2>4, <2>5
<1>8. IsFiniteSet(Opened) /\ Cardinality(Opened) \in Nat
  BY OpenedAreFew DEF Advanced
<1>9. /\ IsFiniteSet({n} \X new) /\ IsFiniteSet(new)
      /\ Cardinality({n} \X new) = Cardinality(new) /\ Cardinality(new) \in Nat
  <2>1. IsFiniteSet(new) /\ Cardinality(new) \in Nat
    BY <1>3, InvariantsAreFew, FS_Subset, FS_CardinalityType
  <2>2. IsFiniteSet({n}) /\ Cardinality({n}) = 1
    BY FS_Singleton
  <2> HIDE DEF new, n
  <2>3. IsFiniteSet({n} \X new) /\ Cardinality({n} \X new) = Cardinality({n}) * Cardinality(new)
    BY <2>1, <2>2, FS_Product
  <2> QED
    BY <2>1, <2>2, <2>3
<1>10. Cardinality(Opened') = Cardinality(Opened) + Cardinality(new)
  <2> HIDE DEF new, n
  <2>1. Cardinality(Opened \cup ({n} \X new)) =
            Cardinality(Opened) + Cardinality({n} \X new) - Cardinality(Opened \cap ({n} \X new))
    BY <1>8, <1>9, FS_Union
  <2>2. Cardinality(Opened \cap ({n} \X new)) = 0
    BY <1>7, FS_EmptySet
  <2> QED
    BY <1>7, <1>8, <1>9, <2>1, <2>2
<1>11. intervals' = Cardinality(Opened')
  BY <1>2, <1>10 DEF IntervalInv
<1>12. ongoing' = IF Now' = 0 THEN {} ELSE trace'[Now'].sample.violated
  BY <1>1, <1>2
<1> QED
  BY <1>11, <1>12 DEF IntervalInv

\* The highest row stays the highest or is the new one.
LEMMA PeakStep ==
    ASSUME PeakInv, NEW sample, NEW class, Advanced(sample, class)
    PROVE  PeakInv'
<1>0. PICK n : n = Now + 1
  OBVIOUS
<1>1. /\ Now \in Nat /\ Now' = n
      /\ \A j \in 1..Now : trace'[j] = trace[j]
  BY <1>0 DEF Advanced
<1>2. \A j \in 1..n : Level(j)' \in Nat
  <2>1. \A j \in 1..n : trace'[j].sample \in Samples
    <3>1. trace' \in Seq(Row) /\ n = Len(trace')
      BY <1>1 DEF Advanced, Now
    <3> QED
      BY <3>1, Elements, RowFields
  <2> QED
    BY <2>1, ShownFields DEF Level
<1>3. \A j \in 1..Now : Level(j)' = Level(j)
  BY <1>1 DEF Level
<1>4. \E k \in 1..n : \A j \in 1..n : Level(j)' <= Level(k)'
  <2>1. CASE Now = 0
    <3>1. n \in 1..n /\ \A j \in 1..n : j = n
      BY <1>0, <1>1, <2>1
    <3> QED
      BY <1>2, <3>1
  <2>2. CASE Now # 0
    <3>1. PICK k \in 1..Now : \A j \in 1..Now : Level(j) <= Level(k)
      BY <1>1, <2>2 DEF PeakInv
    <3>2. \A j \in 1..Now : Level(j)' <= Level(k)'
      BY <1>3, <3>1
    <3>3. k \in 1..n /\ n \in 1..n /\ \A j \in 1..n : j \in 1..Now \/ j = n
      BY <1>0, <1>1
    <3>4. CASE Level(n)' <= Level(k)'
      BY <3>2, <3>3, <3>4
    <3>5. CASE ~(Level(n)' <= Level(k)')
      <4>1. \A j \in 1..n : Level(j)' <= Level(n)'
        BY <1>2, <3>2, <3>3, <3>5
      <4> QED
        BY <3>3, <4>1
    <3> QED
      BY <3>4, <3>5
  <2> QED
    BY <2>1, <2>2
<1> QED
  BY <1>1, <1>4 DEF PeakInv

\* There is no result before the end, and no step after it.
LEMMA ResultStep ==
    ASSUME ResultInv, NEW sample, NEW class, Advanced(sample, class)
    PROVE  ResultInv'
<1>1. result = Never
  BY ClassifierAssumption DEF ResultInv, Advanced
<1> QED
  BY <1>1 DEF ResultInv, Advanced

-----------------------------------------------------------------------------
(* The end.                                                                 *)

\* The last event changes the last word of no signal.
LEMMA EndOfStream ==
    ASSUME ClassifierInv, StreamInv, ScheduleInv, StoryInv, TrendInv, Finish
    PROVE  StreamInv' /\ ScheduleInv' /\ StoryInv' /\ TrendInv'
<1> DEFINE e == [at |-> Horizon, signal |-> "end", value |-> maximum]
<1>1. /\ Now = Horizon /\ Now \in Nat /\ trace' = trace /\ Now' = Now
      /\ previous' = previous /\ telemetryAt' = telemetryAt
      /\ scenario' = scenario /\ activated' = activated /\ deactivated' = deactivated
  BY ClassifierAssumption DEF Finish, classifierVars, Now
<1>2. e \in Event /\ e.at = Now /\ e.signal = "end"
  BY <1>1, EventFields DEF ClassifierInv, TypeInv
<1>3. events \in Seq(Event) /\ InOrder(events) /\ Before(events, Now)
  BY DEF StreamInv
<1>4. events' = events \o <<e>>
  <2>1. events' = Append(events, e)
    BY DEF Finish
  <2> HIDE DEF e
  <2> QED
    BY <1>2, <1>3, <2>1
<1> HIDE DEF e
<1>5. /\ events' \in Seq(Event) /\ InOrder(events') /\ Before(events', Now)
      /\ \A s, v : s # "end" /\ Heard(events, s, v) => Heard(events', s, v)
      /\ \A s, t : SaidAt(events', s, t) <=> SaidAt(events, s, t) \/ (s = "end" /\ t = Now)
      /\ \A p, t : PhaseAt(events', p, t) <=> PhaseAt(events, p, t)
  BY <1>2, <1>3, <1>4, OneMoreEvent
<1>6. \A s \in Changing : s # "end"
  BY DEF Changing, Signals, Invariants, UnsafePhysical, ServiceLoss, Advisory
<1>7. StreamInv'
  BY <1>1, <1>5 DEF StreamInv
<1>8. StoryInv'
  BY <1>1, <1>5, <1>6 DEF StoryInv
<1>9. TrendInv'
  BY <1>1, <1>5 DEF TrendInv
<1>10. ScheduleInv'
  BY <1>1, <1>5 DEF ScheduleInv
<1> QED
  BY <1>7, <1>8, <1>9, <1>10

\* What is computed of the same trace is the same.
LEMMA SameTrace ==
    ASSUME trace' = trace, intervals' = intervals, maximum' = maximum
    PROVE  /\ Now' = Now /\ Rows' = Rows
           /\ \A end : Recovery(end)' = Recovery(end)
           /\ \A highest : Primary(highest)' = Primary(highest)
           /\ \A highest : Independent(highest)' = Independent(highest)
           /\ Max({Level(k) : k \in Rows})' = Max({Level(k) : k \in Rows})
           /\ Max({Exported(k) : k \in Rows})' = Max({Exported(k) : k \in Rows})
<1>1. Now' = Now /\ Rows' = Rows
  BY DEF Now, Rows
<1>2. \A end : Recovery(end)' = Recovery(end)
  <2>1. \A k : Satisfied(k)' <=> Satisfied(k)
    BY DEF Satisfied
  <2>2. \A tail : Recovered(tail)' = Recovered(tail)
    BY <2>1 DEF Recovered
  <2> QED
    BY <1>1, <2>2 DEF Recovery
<1>3. \A k : Level(k)' = Level(k) /\ Exported(k)' = Exported(k)
  BY DEF Level, Exported
<1>4. \A highest : Primary(highest)' = Primary(highest)
  BY <1>1, <1>3 DEF Primary
<1>5. \A highest : Independent(highest)' = Independent(highest)
  <2>1. \A k : Begun(k)' = Begun(k)
    BY DEF Begun
  <2> QED
    BY <1>1, <1>3, <2>1 DEF Independent
<1> QED
  BY <1>1, <1>2, <1>3, <1>4, <1>5

\* A sequence of naturals has a greatest element: the first place up to which it
\* had none would be one after a place up to which it has one.
LEMMA Greatest ==
    ASSUME NEW n \in Nat \ {0}, NEW f, \A i \in 1..n : f[i] \in Nat
    PROVE  \E j \in 1..n : \A i \in 1..n : f[i] <= f[j]
<1> DEFINE Has(k) == \E j \in 1..k : \A i \in 1..k : f[i] <= f[j]
           none == {k \in Nat : k \in 1..n /\ ~Has(k)}
<1> SUFFICES ASSUME ~Has(n) PROVE FALSE
  OBVIOUS
<1>1. none \in SUBSET Nat /\ none # {}
  BY DEF none
<1>2. PICK k \in none : \A j \in none : k <= j
  BY <1>1, Least
<1>3. k \in 1..n /\ ~Has(k) /\ k \in Nat
  OBVIOUS
<1>4. k # 1
  <2>1. f[1] <= f[1]
    OBVIOUS
  <2> QED
    BY <1>3, <2>1
<1>5. Has(k - 1)
  <2>1. k - 1 \in 1..n /\ k - 1 \in Nat /\ ~(k <= k - 1)
    BY <1>3, <1>4
  <2> QED
    BY <1>2, <2>1
<1>6. PICK j \in 1..(k - 1) : \A i \in 1..(k - 1) : f[i] <= f[j]
  BY <1>5
<1>7. \A i \in 1..k : f[i] \in Nat /\ (i \in 1..(k - 1) \/ i = k)
  BY <1>3
<1>8. j \in 1..k /\ k \in 1..k
  BY <1>3
<1>9. CASE f[k] <= f[j]
  <2>1. \A i \in 1..k : f[i] <= f[j]
    BY <1>6, <1>7, <1>9
  <2> QED
    BY <1>3, <1>8, <2>1
<1>10. CASE f[j] <= f[k]
  <2>1. \A i \in 1..k : f[i] <= f[k]
    BY <1>6, <1>7, <1>8, <1>10
  <2> QED
    BY <1>3, <1>8, <2>1
<1> QED
  BY <1>7, <1>8, <1>9, <1>10

\* The disturbance ends at a time, or has no end, or there is none.
LEMMA DisturbanceEnds ==
    ASSUME ScheduleInv
    PROVE  DisturbanceEnd \in Nat \cup {Lasting, Nothing}
<1> DEFINE ends == {scenario[i].until : i \in DOMAIN scenario}
           until == [i \in DOMAIN scenario |-> scenario[i].until]
<1>1. scenario \in Seq(EffectType)
  BY RecordAssumption DEF ScheduleInv
<1>2. DOMAIN scenario = 1..Len(scenario) /\ Len(scenario) \in Nat
      /\ \A i \in DOMAIN scenario : scenario[i] \in EffectType
  BY <1>1, Elements
<1>3. \A i \in DOMAIN scenario : scenario[i].until \in Nat \cup {Lasting}
  BY <1>2 DEF EffectType
<1>4. CASE ends = {}
  BY <1>4, Zenon DEF DisturbanceEnd
<1>5. CASE ends # {} /\ Lasting \in ends
  BY <1>5, Zenon DEF DisturbanceEnd
<1>6. CASE ends # {} /\ Lasting \notin ends
  <2>1. DisturbanceEnd = Max(ends)
    BY <1>6, Zenon DEF DisturbanceEnd
  <2>2. \A i \in 1..Len(scenario) : until[i] \in Nat
    BY <1>2, <1>3, <1>6
  <2>3. Len(scenario) \in Nat \ {0}
    BY <1>2, <1>6
  <2>4. PICK j \in 1..Len(scenario) : \A i \in 1..Len(scenario) : until[i] <= until[j]
    BY <2>2, <2>3, Greatest
  <2>5. /\ ends \in SUBSET Int /\ until[j] \in ends /\ until[j] \in Nat
        /\ \A end \in ends : until[j] >= end
    BY <1>2, <2>2, <2>4
  <2>6. Max(ends) = until[j]
    BY <2>5, MaxIs
  <2> QED
    BY <2>1, <2>5, <2>6
<1> QED
  BY <1>4, <1>5, <1>6

\* The result is computed from the whole trace.
LEMMA EndOfRun ==
    ASSUME ClassifierInv, ScheduleInv, Finish
    PROVE  ResultInv'
<1>1. Now = Horizon /\ trace' = trace /\ intervals' = intervals /\ maximum' = maximum
  BY DEF Finish, classifierVars
<1> DEFINE end == DisturbanceEnd
<1>2. PICK primary \in Nearest(Max({Level(k) : k \in Rows}), MetricUnit),
           independent \in Nearest(Max({Exported(k) : k \in Rows}), MetricUnit) :
        result' = [end |-> end,
                   satisfied |-> Cardinality({k \in Rows : Satisfied(k)}),
                   recovery |-> Recovery(end),
                   primary |-> Primary(primary),
                   independent |-> Independent(independent)]
  BY DEF Finish
<1>3. Cardinality({k \in Rows : Satisfied(k)}) \in 0..Horizon
  <2>1. Rows = 1..Horizon /\ Horizon \in Nat
    BY <1>1, Elements, ClassifierAssumption DEF ClassifierInv, TypeInv, Rows, Now
  <2> QED
    BY <2>1, RowsAreFew
<1>4. /\ result'.satisfied \in 0..Horizon /\ result'.end = end /\ end \in Nat \cup {Lasting, Nothing}
      /\ result'.recovery = Recovery(end)
      /\ result'.primary = Primary(primary) /\ result'.independent = Independent(independent)
  BY <1>2, <1>3, DisturbanceEnds
<1> HIDE DEF end
<1> QED
  BY <1>1, <1>2, <1>4, SameTrace DEF ResultInv

-----------------------------------------------------------------------------
(* The invariant is one.                                                    *)

\* It holds of an empty record.
LEMMA RecordStarts ==
    ASSUME RecordInit
    PROVE  RecordInv
<1> DEFINE e == [at |-> 0, signal |-> "start", value |-> TRUE]
<1>1. trace = <<>> /\ Now = 0 /\ Rows = {}
  BY DEF RecordInit, Init, Now, Rows
<1>2. ClassifierInv
  BY ClassifierStarts DEF RecordInit
<1>3. e \in Event /\ e.at = 0 /\ e.signal = "start"
  BY EventFields
<1>4. events = <<e>>
  BY DEF RecordInit
<1> HIDE DEF e
<1>5. /\ events \in Seq(Event) /\ Len(events) = 1 /\ events[1] = e
  BY <1>3, <1>4
<1>6. StreamInv
  <2>1. \A i \in 1..Len(events) : events[i] = e
    BY <1>5
  <2> QED
    BY <1>1, <1>3, <1>5, <2>1 DEF StreamInv, InOrder, Before, SaidAt, PhaseAt
<1>7. StoryInv
  <2>1. \A s \in Signals : Silent(events, s)
    BY <1>3, <1>5 DEF Silent, Signals, Invariants, UnsafePhysical, ServiceLoss, Advisory
  <2>2. ASSUME NEW s \in Changing PROVE previous[s] \in {Never, s = "supervisory"}
    <3>1. s \in Signals
      BY DEF Changing
    <3>2. CASE s \in Invariants \cup {"class"}
      <4>1. previous[s] = Never
        BY <3>1, <3>2 DEF RecordInit, Invariants, UnsafePhysical, ServiceLoss, Advisory
      <4> QED
        BY <4>1
    <3>3. CASE s = "supervisory"
      <4>1. previous[s] = TRUE
        BY <3>1, <3>3 DEF RecordInit, Invariants, UnsafePhysical, ServiceLoss, Advisory
      <4> QED
        BY <3>3, <4>1
    <3>4. CASE s \in {"pump", "reserve"}
      <4>1. previous[s] = FALSE
        BY <3>1, <3>4 DEF RecordInit, Invariants, UnsafePhysical, ServiceLoss, Advisory
      <4> QED
        BY <3>4, <4>1
    <3> QED
      BY <3>2, <3>3, <3>4 DEF Changing, Signals
  <2>3. DOMAIN previous = Signals
    BY DEF RecordInit
  <2> QED
    BY <1>1, <2>1, <2>2, <2>3 DEF StoryInv, Heard, Changing
<1>8. TrendInv
  <2>1. TelemetryInterval \in Nat \ {0}
    BY RecordAssumption
  <2>2. telemetryAt = 0
    BY DEF RecordInit
  <2>3. telemetryAt = TelemetryInterval * 0
    BY <2>1, <2>2
  <2> QED
    BY <1>1, <2>1, <2>2, <2>3 DEF TrendInv
<1>9. IntervalInv
  <2>1. Opened = {}
    BY <1>1 DEF Opened
  <2> QED
    BY <1>1, <2>1, FS_EmptySet DEF RecordInit, IntervalInv
<1>10. PeakInv /\ ResultInv
  BY <1>1 DEF RecordInit, PeakInv, ResultInv
<1>11. ScheduleInv
  <2>1. scenario \in Scenarios /\ activated = {} /\ deactivated = {}
    BY DEF RecordInit
  <2>2. DOMAIN scenario = 1..Len(scenario)
        /\ \A i \in DOMAIN scenario : scenario[i] \in EffectType
    BY <2>1, RecordAssumption, Elements
  <2>3. \A i \in DOMAIN scenario :
            /\ scenario[i].begin \in Nat /\ scenario[i].until \in Nat \cup {Lasting}
    BY <2>2 DEF EffectType
  <2>4. \A i \in DOMAIN scenario : /\ ~(scenario[i].begin < 0)
                                   /\ scenario[i].until # Lasting => ~(scenario[i].until < 0)
    BY <2>3
  <2> QED
    BY <1>1, <2>1, <2>4 DEF ScheduleInv
<1> QED
  BY <1>11, <1>2, <1>6, <1>7, <1>8, <1>9, <1>10 DEF RecordInv

\* Every step of the record, and every step that leaves it alone, keeps it.
LEMMA RecordSteps ==
    ASSUME RecordInv, [RecordNext]_<<classifierVars, recordVars>>
    PROVE  RecordInv'
<1> USE DEF RecordInv
<1>1. CASE TakeStep
  <2>1. PICK sample \in Samples : \E class \in Levels : Advanced(sample, class)
    BY <1>1, StepAdvances
  <2>2. PICK class \in Levels : Advanced(sample, class)
    BY <2>1
  <2>3. ClassifierInv'
    BY <1>1, ClassifierSteps DEF TakeStep
  <2> QED
    BY <2>2, <2>3, StreamStep, ScheduleStep, StoryStep, TrendStep, IntervalStep, PeakStep,
       ResultStep
<1>2. CASE Finish
  <2>1. ClassifierInv'
    BY <1>2, ClassifierSteps DEF Finish
  <2>2. StreamInv' /\ ScheduleInv' /\ StoryInv' /\ TrendInv' /\ ResultInv'
    BY <1>2, EndOfStream, EndOfRun
  <2>3. trace' = trace /\ ongoing' = ongoing /\ intervals' = intervals
    BY <1>2 DEF Finish, classifierVars
  <2>4. IntervalInv' /\ PeakInv'
    BY <2>3 DEF IntervalInv, PeakInv, Opened, Begun, Rows, Level, Now
  <2> QED
    BY <2>1, <2>2, <2>4
<1>3. CASE UNCHANGED <<classifierVars, recordVars>>
  <2>1. ClassifierInv'
    BY <1>3, ClassifierSteps
  <2>2. /\ trace' = trace /\ intervals' = intervals /\ maximum' = maximum
        /\ events' = events /\ previous' = previous /\ telemetryAt' = telemetryAt
        /\ ongoing' = ongoing /\ result' = result
        /\ scenario' = scenario /\ activated' = activated /\ deactivated' = deactivated
    BY <1>3 DEF classifierVars, recordVars
  <2>3. StreamInv' /\ ScheduleInv' /\ StoryInv' /\ TrendInv'
    BY <2>2 DEF StreamInv, ScheduleInv, StoryInv, TrendInv, Now
  <2>4. IntervalInv' /\ PeakInv'
    BY <2>2 DEF IntervalInv, PeakInv, Opened, Begun, Rows, Level, Now
  <2>5. ResultInv'
    BY <2>2, SameTrace DEF ResultInv
  <2> QED
    BY <2>1, <2>3, <2>4, <2>5
<1> QED
  BY <1>1, <1>2, <1>3 DEF RecordNext

-----------------------------------------------------------------------------
(* The theorems.                                                            *)

\* The record keeps its invariant in every behaviour.
THEOREM RecordKeepsTrack == RecordSpec => []RecordInv
<1>1. RecordInit => RecordInv
  BY RecordStarts
<1>2. RecordInv /\ [RecordNext]_<<classifierVars, recordVars>> => RecordInv'
  BY RecordSteps
<1> QED
  BY <1>1, <1>2, PTL DEF RecordSpec

\* Every event says what its signal may say, the engine's open intervals are of
\* the six invariants, and there is no result before the end of the run.
THEOREM RecordTyped == RecordSpec => []RecordTypeOK
<1>1. ASSUME RecordInv PROVE RecordTypeOK
  <2>1. ClassifierTypeOK
    BY <1>1, ClassifierInvIsTyped DEF RecordInv
  <2>2. trace \in Seq(Row)
    BY <1>1 DEF RecordInv, ClassifierInv, TypeInv
  <2>3. \A i \in DOMAIN events : events[i] \in Event
    BY <1>1, Elements DEF RecordInv, StreamInv
  <2>4. telemetryAt \in Nat
    <3>1. PICK m \in Nat : telemetryAt = TelemetryInterval * m
      BY <1>1 DEF RecordInv, TrendInv
    <3>2. TelemetryInterval \in Nat
      BY RecordAssumption
    <3> QED
      BY <3>1, <3>2
  <2>5. ongoing \subseteq Invariants
    <3>1. CASE Now = 0
      BY <1>1, <3>1 DEF RecordInv, IntervalInv
    <3>2. CASE Now # 0
      <4>1. trace[Now].sample \in Samples
        BY <2>2, <3>2, Elements, RowFields DEF Now
      <4>2. ongoing = trace[Now].sample.violated
        BY <1>1, <3>2 DEF RecordInv, IntervalInv
      <4> QED
        BY <4>1, <4>2, ShownFields
    <3> QED
      BY <3>1, <3>2
  <2>6. intervals \in Nat
    BY <1>1, <2>2, OpenedAreFew DEF RecordInv, IntervalInv
  <2>7. DOMAIN previous = Signals
    BY <1>1 DEF RecordInv, StoryInv
  <2>8. result # Never => Now = Horizon /\ result.satisfied \in 0..Horizon
    BY <1>1 DEF RecordInv, ResultInv
  <2>9. /\ scenario \in Scenarios
        /\ activated = {i \in DOMAIN scenario : scenario[i].begin < Now}
        /\ deactivated = {i \in DOMAIN scenario :
                            scenario[i].until # Lasting /\ scenario[i].until < Now}
    BY <1>1 DEF RecordInv, ScheduleInv
  <2>10. ASSUME NEW i \in deactivated PROVE i \in activated
    <3>1. i \in DOMAIN scenario /\ scenario[i].until # Lasting /\ scenario[i].until < Now
      BY <2>9
    <3>2. scenario[i].begin <= scenario[i].until
      BY <2>9, <3>1, RecordAssumption
    <3>3. scenario[i] \in EffectType
      BY <2>9, <3>1, RecordAssumption, Elements
    <3>4. scenario[i].begin \in Nat /\ scenario[i].until \in Nat
      BY <3>1, <3>3 DEF EffectType
    <3>5. Now \in Nat
      BY <2>2, Elements DEF Now
    <3> QED
      BY <2>9, <3>1, <3>2, <3>4, <3>5
  <2> QED
    BY <2>1, <2>3, <2>4, <2>5, <2>6, <2>7, <2>8, <2>9, <2>10 DEF RecordTypeOK
<1> QED
  BY <1>1, RecordKeepsTrack, PTL

\* A last word is what the stream last told.
LEMMA LastWordIsTold ==
    ASSUME events \in Seq(Event), NEW s, NEW v, Heard(events, s, v), v # Never
    PROVE  LastTold(s) = v
<1> DEFINE told == {i \in DOMAIN events : events[i].signal = s}
<1>1. DOMAIN events = 1..Len(events) /\ Len(events) \in Nat
  BY Elements
<1>2. CASE Silent(events, s) /\ v \in {Never, s = "supervisory"}
  <2>1. told = {}
    BY <1>1, <1>2 DEF Silent
  <2>2. v = (s = "supervisory")
    BY <1>2
  <2> QED
    BY <2>1, <2>2 DEF LastTold
<1>3. CASE LastWord(events, s, v)
  <2>1. PICK i \in 1..Len(events) :
            /\ events[i].signal = s /\ events[i].value = v
            /\ \A j \in 1..Len(events) : j > i => events[j].signal # s
    BY <1>3 DEF LastWord
  <2>2. i \in told /\ told \in SUBSET Int /\ \A j \in told : i >= j
    BY <1>1, <2>1
  <2>3. Max(told) = i
    BY <2>2, MaxIs
  <2> QED
    BY <2>1, <2>2, <2>3 DEF LastTold
<1> QED
  BY <1>2, <1>3 DEF Heard

\* events.json tells the run: whoever reads only the stream of changes knows every
\* signal at every step, when the backstop acted, and finds a trend sample where
\* one is due.
THEOREM EventsAreTheStory == RecordSpec => []EventsTellTheRun
<1>1. ASSUME RecordInv PROVE EventsTellTheRun
  <2>1. events \in Seq(Event) /\ InOrder(events)
    BY <1>1 DEF RecordInv, StreamInv
  <2>2. DOMAIN events = 1..Len(events) /\ Len(events) \in Nat
    BY <2>1, Elements
  <2>3. \A i \in 2..Len(events) : events[i - 1].at <= events[i].at
    <3> SUFFICES ASSUME NEW i \in 2..Len(events) PROVE events[i - 1].at <= events[i].at
      OBVIOUS
    <3>1. i - 1 \in 1..Len(events) /\ i \in 1..Len(events) /\ i - 1 <= i
      BY <2>2
    <3> QED
      BY <2>1, <3>1 DEF InOrder
  <2>4. ASSUME Now > 0, NEW s \in Signals \ {"acted"}
        PROVE  LastTold(s) = Value(s, trace[Now].sample, trace[Now].class)
    <3>1. trace[Now].sample \in Samples /\ trace[Now].class \in Levels
      <4>1. trace \in Seq(Row)
        BY <1>1 DEF RecordInv, ClassifierInv, TypeInv
      <4> QED
        BY <2>4, <4>1, Elements, RowFields DEF Now
    <3>2. /\ Heard(events, s, previous[s])
          /\ previous[s] = Value(s, trace[Now].sample, trace[Now].class)
      BY <1>1, <2>4 DEF RecordInv, StoryInv, Changing
    <3>3. previous[s] # Never
      BY <3>1, <3>2, ValueType
    <3> QED
      BY <2>1, <3>2, <3>3, LastWordIsTold
  <2>5. \A s, t : ToldAt(s, t) <=> SaidAt(events, s, t)
    BY <2>2 DEF ToldAt, SaidAt
  <2>6. Now > 0 =>
            /\ ToldAt("acted", Now - 1) <=> Shown[trace[Now].sample].acted
            /\ ToldAt("telemetry", Now - 1) <=> (Now - 1) % TelemetryInterval = 0
    BY <1>1, <2>5 DEF RecordInv, StoryInv, TrendInv
  <2>7. \A p, t : PhaseToldAt(p, t) <=> PhaseAt(events, p, t)
    BY <2>2 DEF PhaseToldAt, PhaseAt
  <2>8. Now > 0 => \A i \in DOMAIN scenario :
            /\ PhaseToldAt(<<i, "activate">>, Now - 1) <=> scenario[i].begin = Now - 1
            /\ PhaseToldAt(<<i, "deactivate">>, Now - 1) <=> scenario[i].until = Now - 1
    BY <1>1, <2>7 DEF RecordInv, ScheduleInv
  <2> QED
    BY <2>3, <2>4, <2>6, <2>8 DEF EventsTellTheRun
<1> QED
  BY <1>1, RecordKeepsTrack, PTL

-----------------------------------------------------------------------------
(* The second opinion.                                                      *)

\* Every level is one that process.csv can tell.
CsvLevels == \A sample \in Samples : Shown[sample].level % CsvUnit = 0

\* A level that is not half-way between two rounded ones is rounded in one way,
\* and a rounded level to itself.
LEMMA OneRounding ==
    ASSUME NEW level \in Nat, NEW unit \in Nat \ {0}
    PROVE  /\ 2 * (level % unit) # unit => \A x, y \in Nearest(level, unit) : x = y
           /\ level % unit = 0 => Nearest(level, unit) = {level}
<1>1. PICK rest \in 0..(unit - 1) : rest = level % unit
  OBVIOUS
<1>2. ASSUME 2 * rest # unit, NEW x \in Nearest(level, unit), NEW y \in Nearest(level, unit)
      PROVE  x = y
  BY <1>1, <1>2 DEF Nearest
<1>3. ASSUME rest = 0 PROVE Nearest(level, unit) = {level}
  <2>1. 2 * rest # unit /\ 2 * rest < unit /\ level - rest = level
    BY <1>3
  <2> QED
    BY <1>1, <2>1 DEF Nearest
<1> QED
  BY <1>1, <1>2, <1>3

\* metrics.json and verification.json say the same four things, if process.csv
\* tells every level as it was: the recount of the intervals from the rows, the
\* classes and the time spent unsafe miss nothing and add nothing.
THEOREM TheRecountAgrees ==
    ASSUME CsvLevels
    PROVE  RecordSpec => []RecountAgrees
<1>1. ASSUME RecordInv, result # Never PROVE result.independent = result.primary
  <2>1. /\ trace \in Seq(Row) /\ Now = Horizon /\ Horizon \in Nat /\ Horizon >= 1
        /\ Rows = 1..Now
    <3>1. trace \in Seq(Row) /\ Now = Horizon
      BY <1>1 DEF RecordInv, ClassifierInv, TypeInv, ResultInv
    <3>2. Rows = 1..Now
      BY <3>1, Elements DEF Rows, Now
    <3> QED
      BY <3>1, <3>2, ClassifierAssumption, RecordAssumption
  <2>2. \A k \in Rows : trace[k].sample \in Samples /\ trace[k].class \in Levels
    BY <2>1, Elements, RowFields DEF Now
  <2>3. \A k \in Rows : Level(k) \in Nat /\ Exported(k) = Level(k)
    <3> SUFFICES ASSUME NEW k \in Rows PROVE Level(k) \in Nat /\ Exported(k) = Level(k)
      OBVIOUS
    <3>1. Level(k) \in Nat /\ Level(k) % CsvUnit = 0
      BY <2>2, ShownFields DEF Level, CsvLevels
    <3>2. CsvUnit \in Nat \ {0}
      BY RecordAssumption
    <3>3. Nearest(Level(k), CsvUnit) = {Level(k)}
      BY <3>1, <3>2, OneRounding
    <3> QED
      BY <3>1, <3>3 DEF Exported
  <2>4. {Exported(k) : k \in Rows} = {Level(k) : k \in Rows}
    BY <2>3
  <2>5. {k \in Rows : Unsafe(Exported(k))} = {k \in Rows : Unsafe(Level(k))}
    BY <2>3
  <2>6. PICK top \in Rows : Max({Level(k) : k \in Rows}) = Level(top)
    <3>1. PICK top \in Rows : \A j \in Rows : Level(j) <= Level(top)
      BY <1>1, <2>1 DEF RecordInv, PeakInv
    <3> DEFINE levels == {Level(k) : k \in Rows}
    <3>2. /\ levels \in SUBSET Int /\ Level(top) \in levels
          /\ \A y \in levels : Level(top) >= y
      BY <2>3, <3>1
    <3> HIDE DEF levels
    <3>3. Max(levels) = Level(top)
      BY <3>2, MaxIs
    <3> QED
      BY <3>3 DEF levels
  <2>7. \A x, y \in Nearest(Max({Level(k) : k \in Rows}), MetricUnit) : x = y
    <3>1. Level(top) \in Nat /\ 2 * (Level(top) % MetricUnit) # MetricUnit
      BY <2>2, <2>3, RecordAssumption DEF Level
    <3>2. MetricUnit \in Nat \ {0}
      BY RecordAssumption
    <3> QED
      BY <2>6, <3>1, <3>2, OneRounding
  <2>8. Max({trace[k].class : k \in Rows}) = maximum
    <3> DEFINE classes == {trace[k].class : k \in Rows}
    <3>1. Rows = Steps
      BY <2>1 DEF Steps
    <3>2. maximum \in 0..5 /\ \A k \in Rows : trace[k].class \in 0..5 /\ trace[k].class <= maximum
      BY <1>1, <2>2, <3>1 DEF RecordInv, ClassifierInv, TypeInv, Highest, Levels
    <3>3. \E k \in Rows : trace[k].class = maximum
      <4>1. 1 \in Rows
        BY <2>1
      <4>2. CASE maximum = 0
        <5>1. trace[1].class = maximum
          BY <3>2, <4>1, <4>2
        <5> QED
          BY <4>1, <5>1
      <4>3. CASE maximum # 0
        BY <1>1, <3>1, <4>3 DEF RecordInv, ClassifierInv, Highest
      <4> QED
        BY <4>2, <4>3
    <3>4. classes \in SUBSET Int /\ maximum \in classes /\ \A y \in classes : maximum >= y
      BY <3>2, <3>3
    <3> HIDE DEF classes
    <3>5. Max(classes) = maximum
      BY <3>4, MaxIs
    <3> QED
      BY <3>5 DEF classes
  <2>9. intervals = Cardinality({begun \in Rows \X Invariants : begun[2] \in Begun(begun[1])})
    BY <1>1 DEF RecordInv, IntervalInv, Opened
  <2>10. PICK one \in Nearest(Max({Level(k) : k \in Rows}), MetricUnit) :
            result.primary = Primary(one)
    BY <1>1 DEF RecordInv, ResultInv
  <2>11. PICK other \in Nearest(Max({Exported(k) : k \in Rows}), MetricUnit) :
            result.independent = Independent(other)
    BY <1>1 DEF RecordInv, ResultInv
  <2>12. other = one
    BY <2>4, <2>7
  <2>13. Independent(one) = Primary(one)
    BY <2>5, <2>8, <2>9 DEF Independent, Primary
  <2> QED
    BY <2>10, <2>11, <2>12, <2>13
<1>2. RecordInv => RecountAgrees
  BY <1>1 DEF RecountAgrees
<1> QED
  BY <1>2, RecordKeepsTrack, PTL

-----------------------------------------------------------------------------
(* Recovery.                                                                *)

\* A row in which the function is performed is at most disturbed, unless water
\* has been lost for good; one in which it is not is at least disturbed.  The
\* metrics judge the row alone, the classifier its history.
LEMMA ServiceByClass ==
    ASSUME ClassifierInv, NEW k \in Steps
    PROVE  /\ Satisfied(k) => trace[k].class <= 1 \/ trace[k].sample.catastrophicSpill
           /\ ~Satisfied(k) => trace[k].class >= 1
<1> DEFINE sample == trace[k].sample
           reached == {0}
                \cup {c \in {1} : Meets(1, trace[k].sample, 0, 0)}
                \cup {c \in {2} : Sustained(k, DegradationSustained, Degraded)}
                \cup {c \in {3} : ServiceIsLost(k)}
                \cup {c \in {4} : Meets(4, trace[k].sample, 0, 0)}
<1>1. sample \in Samples /\ trace[k].class \in 0..5 /\ k \in Nat
  BY Elements, RowFields DEF ClassifierInv, TypeInv, Steps, Now, Levels
<1>2. sample.shortfall \in Nat
  BY <1>1, ShownFields
<1>3. /\ Meets(4, sample, 0, 0) <=> UnsafePhysical \cap sample.violated # {}
      /\ Meets(1, sample, 0, 0) <=> \/ sample.place # "normal"
                                    \/ sample.shortfall >= Minor
                                    \/ Advisory \cap sample.violated # {}
  BY DEF Meets
<1>4. Satisfied(k) <=> /\ sample.shortfall < Degraded
                       /\ UnsafePhysical \cap sample.violated = {}
                       /\ ~LosesReserve(sample)
  BY DEF Satisfied, LosesReserve
<1>5. /\ Sustained(k, DegradationSustained, Degraded) => sample.shortfall >= Degraded
      /\ Sustained(k, LossSustained, Lost) => sample.shortfall >= Lost
  <2>1. DegradationSustained \in Nat \ {0} /\ LossSustained \in Nat \ {0}
    BY ClassifierAssumption
  <2>2. /\ k \in (k - DegradationSustained + 1)..k
        /\ k \in (k - LossSustained + 1)..k
    BY <1>1, <2>1
  <2> QED
    BY <2>2 DEF Sustained
<1>6. reached \in SUBSET (0..4) /\ 0 \in reached
  OBVIOUS
<1>7. Max(reached) \in reached /\ \A c \in reached : Max(reached) >= c
  BY <1>6, MaxOfClasses
<1>8. trace[k].class # 5 => trace[k].class = Max(reached)
  BY DEF ClassifierInv, ClassMatchesTaxonomy
<1>9. ASSUME Satisfied(k) PROVE trace[k].class <= 1 \/ sample.catastrophicSpill
  <2>1. CASE trace[k].class = 5
    <3>1. sample.catastrophicSpill \/ Meets(4, sample, 0, 0)
      BY <2>1 DEF ClassifierInv, CatastropheIsEarned
    <3> QED
      BY <1>3, <1>4, <1>9, <3>1
  <2>2. CASE trace[k].class # 5
    <3>1. /\ ~Meets(4, sample, 0, 0) /\ ~ServiceIsLost(k)
          /\ ~Sustained(k, DegradationSustained, Degraded)
      BY <1>2, <1>3, <1>4, <1>5, <1>9 DEF ServiceIsLost, Degraded, Lost
    <3>2. reached \subseteq {0, 1}
      BY <3>1
    <3> QED
      BY <1>7, <1>8, <2>2, <3>2
  <2> QED
    BY <2>1, <2>2
<1>10. ASSUME ~Satisfied(k) PROVE trace[k].class >= 1
  <2>1. CASE sample.shortfall >= Degraded
    <3>1. 1 \in reached
      BY <1>2, <1>3, <2>1 DEF Degraded, Minor
    <3> QED
      BY <1>1, <1>6, <1>7, <1>8, <3>1
  <2>2. CASE UnsafePhysical \cap sample.violated # {}
    <3>1. 4 \in reached
      BY <1>3, <2>2
    <3> QED
      BY <1>1, <1>6, <1>7, <1>8, <3>1
  <2>3. CASE LosesReserve(sample)
    <3>1. 3 \in reached
      BY <2>3 DEF ServiceIsLost
    <3> QED
      BY <1>1, <1>6, <1>7, <1>8, <3>1
  <2> QED
    BY <1>2, <1>4, <1>10, <2>1, <2>2, <2>3 DEF Degraded
<1> QED
  BY <1>9, <1>10

\* Recovery is the first row from which on the function is performed to the end.
LEMMA RecoveryIsFirst ==
    ASSUME trace \in Seq(Row), NEW end \in Nat,
           NEW tail, tail = {k \in Rows : k - 1 >= end}, Recovered(tail) # {},
           NEW first, first = Min(Recovered(tail))
    PROVE  /\ first \in Rows /\ first - 1 >= end
           /\ \A k \in first..Len(trace) : Satisfied(k)
           /\ first - 1 > end => first - 1 \in Rows /\ ~Satisfied(first - 1)
<1>1. Rows = 1..Len(trace) /\ Len(trace) \in Nat
  BY Elements DEF Rows
<1>2. Recovered(tail) \in SUBSET Nat
  BY <1>1 DEF Recovered
<1>3. first \in Recovered(tail) /\ \A y \in Recovered(tail) : first <= y
  BY <1>2, MinIsLeast
<1>4. first \in Rows /\ first - 1 >= end /\ \A k \in first..Len(trace) : Satisfied(k)
  BY <1>3 DEF Recovered
<1>5. ASSUME first - 1 > end PROVE first - 1 \in Rows /\ ~Satisfied(first - 1)
  <2>1. first - 1 \in Rows /\ first - 1 \in tail
    BY <1>1, <1>4, <1>5
  <2>2. ASSUME Satisfied(first - 1) PROVE FALSE
    <3>1. \A k \in (first - 1)..Len(trace) : Satisfied(k)
      BY <1>1, <1>4, <2>2
    <3>2. first - 1 \in Recovered(tail)
      BY <2>1, <3>1 DEF Recovered
    <3> QED
      BY <1>1, <1>3, <1>4, <3>2
  <2> QED
    BY <2>1, <2>2
<1> QED
  BY <1>4, <1>5

\* The status of a recovery is the field of that name.
LEMMA RecoveryStatuses ==
    \A after : /\ [status |-> "no disturbance", after |-> after].status = "no disturbance"
               /\ [status |-> "not recovered", after |-> after].status = "not recovered"
BY Zenon

\* What each status of a recovery says.
LEMMA RecoveryCases ==
    ASSUME NEW end, NEW tail, tail = {k \in Rows : k - 1 >= end}
    PROVE  /\ Recovery(end).status = "recovered" =>
                /\ end # Nothing /\ end # Lasting /\ Recovered(tail) # {}
                /\ Recovery(end).after = Min(Recovered(tail)) - 1 - end
           /\ Recovery(end).status = "not recovered" =>
                end # Nothing /\ end # Lasting /\ tail # {} /\ Recovered(tail) = {}
<1>1. CASE end = Nothing
  <2>1. Recovery(end) = [status |-> "no disturbance", after |-> Never]
    BY <1>1, Zenon DEF Recovery
  <2>2. Recovery(end).status = "no disturbance"
    BY <2>1, RecoveryStatuses
  <2> QED
    BY <1>1, <2>2
<1>2. CASE end # Nothing /\ end = Lasting
  <2>1. Recovery(end) = [status |-> "persists", after |-> Never]
    BY <1>2, Zenon DEF Recovery
  <2> QED
    BY <2>1
<1>3. CASE end # Nothing /\ end # Lasting /\ tail = {}
  <2>1. Recovery(end) = [status |-> "insufficient", after |-> Never]
    BY <1>3, Zenon DEF Recovery
  <2> QED
    BY <2>1
<1>4. CASE end # Nothing /\ end # Lasting /\ tail # {} /\ Recovered(tail) = {}
  <2>1. Recovery(end) = [status |-> "not recovered", after |-> Never]
    BY <1>4, Zenon DEF Recovery
  <2>2. Recovery(end).status = "not recovered"
    BY <2>1, RecoveryStatuses
  <2> QED
    BY <1>4, <2>2
<1>5. CASE end # Nothing /\ end # Lasting /\ tail # {} /\ Recovered(tail) # {}
  <2>1. Recovery(end) = [status |-> "recovered", after |-> Min(Recovered(tail)) - 1 - end]
    BY <1>5, Zenon DEF Recovery
  <2> QED
    BY <1>5, <2>1
<1> QED
  BY <1>1, <1>2, <1>3, <1>4, <1>5

\* The recovery time of metrics.json is one the classes bear out: from then on the
\* run stays at most disturbed unless water has been lost for good, the step before
\* was disturbed, and a run that did not recover ends disturbed.
THEOREM RecoveryIsService == RecordSpec => []RecoveryMeansService
<1>1. ASSUME RecordInv, result # Never PROVE RecoveryMeansService
  <2> DEFINE end == result.end
             tail == {k \in Rows : k - 1 >= end}
             after == result.recovery.after
             ClassAt(t) == trace[t + 1].class
  <2>1. /\ ClassifierInv /\ trace \in Seq(Row) /\ Now = Horizon
        /\ end \in Nat \cup {Lasting, Nothing} /\ result.recovery = Recovery(end)
    BY <1>1 DEF RecordInv, ClassifierInv, TypeInv, ResultInv
  <2>2. Rows = 1..Horizon /\ Steps = 1..Horizon /\ Len(trace) = Horizon /\ Horizon \in Nat
    BY <2>1, Elements, ClassifierAssumption DEF Rows, Steps, Now
  <2>3. end # Nothing /\ end # Lasting => end \in Nat
    BY <2>1
  <2> HIDE DEF end
  <2>4. ASSUME result.recovery.status = "recovered"
        PROVE  /\ \A t \in (end + after)..(Horizon - 1) :
                    ClassAt(t) <= 1 \/ trace[t + 1].sample.catastrophicSpill
               /\ after > 0 => ClassAt(end + after - 1) >= 1
    <3>1. /\ end # Nothing /\ end # Lasting /\ Recovered(tail) # {}
          /\ after = Min(Recovered(tail)) - 1 - end
      BY <2>1, <2>4, RecoveryCases
    <3>2. PICK first : first = Min(Recovered(tail))
      OBVIOUS
    <3>3. /\ first \in Rows /\ first - 1 >= end
          /\ \A k \in first..Len(trace) : Satisfied(k)
          /\ first - 1 > end => first - 1 \in Rows /\ ~Satisfied(first - 1)
      BY <2>1, <2>3, <3>1, <3>2, RecoveryIsFirst
    <3>4. end \in Nat /\ after = first - 1 - end
      BY <2>3, <3>1, <3>2
    <3> HIDE DEF after, tail
    <3>5. ASSUME NEW t \in (end + after)..(Horizon - 1)
          PROVE  ClassAt(t) <= 1 \/ trace[t + 1].sample.catastrophicSpill
      <4>1. t + 1 \in first..Len(trace) /\ t + 1 \in Steps
        BY <2>2, <3>3, <3>4
      <4>2. Satisfied(t + 1)
        BY <3>3, <4>1
      <4> QED
        BY <2>1, <4>1, <4>2, ServiceByClass
    <3>6. ASSUME after > 0 PROVE ClassAt(end + after - 1) >= 1
      <4>1. first - 1 \in Steps /\ ~Satisfied(first - 1)
        BY <2>2, <3>3, <3>4, <3>6
      <4>2. end + after - 1 + 1 = first - 1
        BY <2>2, <3>3, <3>4
      <4>3. trace[first - 1].class >= 1
        BY <2>1, <4>1, ServiceByClass
      <4> QED
        BY <4>2, <4>3
    <3> QED
      BY <3>5, <3>6
  <2>5. ASSUME result.recovery.status = "not recovered" PROVE ClassAt(Horizon - 1) >= 1
    <3>1. end # Nothing /\ end # Lasting /\ tail # {} /\ Recovered(tail) = {}
      BY <2>1, <2>5, RecoveryCases
    <3>2. end \in Nat
      BY <2>3, <3>1
    <3>3. Horizon \in tail /\ Horizon \in Steps
      BY <2>2, <3>1, <3>2
    <3>4. ~Satisfied(Horizon)
      <4>1. \A j \in Horizon..Len(trace) : j = Horizon
        BY <2>2
      <4>2. Horizon \notin Recovered(tail)
        BY <3>1
      <4> QED
        BY <3>3, <4>1, <4>2 DEF Recovered
    <3>5. trace[Horizon].class >= 1
      BY <2>1, <3>3, <3>4, ServiceByClass
    <3>6. Horizon - 1 + 1 = Horizon
      BY <2>2
    <3> QED
      BY <3>5, <3>6
  <2> QED
    BY <2>4, <2>5 DEF RecoveryMeansService, end
<1>2. RecordInv => RecoveryMeansService
  BY <1>1 DEF RecoveryMeansService
<1> QED
  BY <1>2, RecordKeepsTrack, PTL
=============================================================================
