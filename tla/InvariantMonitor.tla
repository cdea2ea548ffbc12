-------------------------- MODULE InvariantMonitor --------------------------
(***************************************************************************)
(* One safety invariant of the engine over one experiment: the temporal    *)
(* bookkeeping of Invariant.evaluate and Invariant.finalise                *)
(* (blackstart/core/invariants/base.py) on the observations of water.py.   *)
(*                                                                         *)
(* The invariants of an engine share nothing, so one of them, with any of  *)
(* the specifications in Specs, stands for all.  Times are in timesteps.   *)
(* INV-004 observes the history of commands that CommandRate keeps.        *)
(***************************************************************************)
EXTENDS CommandRate

CONSTANTS
    Specs,              \* the specifications an invariant may be bound to
    Quantities,         \* values of the quantity an invariant observes
    Horizon,            \* step_count: timesteps in the experiment
    None

\* upper        INV-001, and INV-006 for the divergence of the two views
\* lower        INV-002
\* conditional  INV-003: the source level, while the pump is energised
\* rate         INV-004, in tenths of a start per hour, or else a jump
\* bound        INV-005: least and limit bound the effective setpoint
SpecType ==
    [kind : {"upper", "lower", "conditional", "rate", "bound"},
     least : Int, limit : Int, margin : Nat, tolerance : Nat]

ASSUME MonitorAssumption ==
    /\ Specs \subseteq SpecType
    /\ \A spec \in Specs : spec.kind = "bound" => spec.least < spec.limit
    /\ \A spec \in Specs : spec.kind = "rate" => spec.limit % 5 = 0
    /\ Quantities \subseteq Int
    /\ Horizon \in Nat
    /\ None \notin Int

\* flag: the pump is energised (INV-003), or the setpoint has jumped (INV-004).
Readings == [value : Int, flag : BOOLEAN]

Breaching(spec, reading) ==
    CASE spec.kind = "upper"       -> reading.value > spec.limit
      [] spec.kind = "lower"       -> reading.value < spec.limit
      [] spec.kind = "conditional" -> reading.flag /\ reading.value <= spec.limit
      [] spec.kind = "rate"        -> reading.flag \/ reading.value > spec.limit
      [] spec.kind = "bound"       -> reading.value \notin spec.least..spec.limit

Approaching(spec, reading) ==
    CASE spec.kind = "upper"       -> reading.value >= spec.limit - spec.margin
      [] spec.kind = "lower"       -> reading.value <= spec.limit + spec.margin
      [] spec.kind = "conditional" ->
            reading.flag /\ reading.value <= spec.limit + spec.margin
      [] spec.kind = "rate"        -> 5 * reading.value > 4 * spec.limit
      [] spec.kind = "bound"       -> FALSE

VARIABLES
    bound,              \* _spec
    breachFor,          \* _breach_duration_s
    violatedFor,        \* _total_violation_s
    approachedFor,      \* _total_approaching_s
    peak,               \* _peak_excursion
    firstViolation,     \* _first_violation_t_s
    intervals,          \* _intervals
    open,               \* _open_interval is the last of them
    evaluations,        \* the engine's record of every sample
    finished            \* finalise has been called

monitorVars == <<bound, breachFor, violatedFor, approachedFor, peak, firstViolation,
                 intervals, open, evaluations, finished, commands, startTimes>>

Now == Len(evaluations)

Interval == [start : Nat, end : Nat \cup {None}, peak : Int]

MonitorTypeOK ==
    /\ RateTypeOK
    /\ bound \in Specs
    /\ {breachFor, violatedFor, approachedFor, Now} \subseteq 0..Horizon
    /\ peak \in Nat
    /\ firstViolation \in Nat \cup {None}
    /\ intervals \in Seq(Interval)
    /\ open \in BOOLEAN /\ finished \in BOOLEAN
    /\ open => intervals # <<>>
    /\ evaluations \in Seq([reading : Readings, status : {"ok", "approaching", "violated"}])

Init ==
    /\ bound \in Specs
    /\ breachFor = 0 /\ violatedFor = 0 /\ approachedFor = 0
    /\ peak = 0
    /\ firstViolation = None
    /\ intervals = <<>>
    /\ open = FALSE
    /\ evaluations = <<>>
    /\ finished = FALSE
    /\ RateInit

-----------------------------------------------------------------------------
Excursion(value) == Greater(value - bound.limit, bound.limit - value)

\* Mutant: every peak is upward.
WorseUpward(value, other) == Greater(value, other)

\* _peak_is_upward: only a lower bound is worse the lower the value.
Worse(value, other) ==
    IF bound.kind = "lower" THEN Lesser(value, other) ELSE Greater(value, other)

Record(reading, status) ==
    evaluations' = Append(evaluations, [reading |-> reading, status |-> status])

\* Mutant: the breach timer survives a recovery.
CountBreachForever(reading) ==
    breachFor' = IF Breaching(bound, reading) THEN breachFor + 1 ELSE breachFor

CountBreach(reading) ==
    breachFor' = IF Breaching(bound, reading) THEN breachFor + 1 ELSE 0

Persists(reading) == Breaching(bound, reading) /\ breachFor' >= bound.tolerance

\* A violation opens an interval or is part of the open one.
Extend(reading) ==
    IF open
    THEN intervals' = [intervals EXCEPT ![Len(intervals)].peak = Worse(reading.value, @)]
    ELSE intervals' = Append(intervals,
                             [start |-> Now, end |-> None, peak |-> reading.value])

\* Mutant: every violation restamps the first one.
ViolateRestamping(reading) ==
    /\ CountBreach(reading)
    /\ Persists(reading)
    /\ violatedFor' = violatedFor + 1
    /\ peak' = Greater(peak, Excursion(reading.value))
    /\ Extend(reading)
    /\ open' = TRUE
    /\ firstViolation' = Now
    /\ Record(reading, "violated")
    /\ UNCHANGED approachedFor

Violate(reading) ==
    /\ CountBreach(reading)
    /\ Persists(reading)
    /\ violatedFor' = violatedFor + 1
    /\ peak' = Greater(peak, Excursion(reading.value))
    /\ Extend(reading)
    /\ open' = TRUE
    /\ firstViolation' = IF firstViolation = None THEN Now ELSE firstViolation
    /\ Record(reading, "violated")
    /\ UNCHANGED approachedFor

\* Mutant: the interval stays open when the violation ends.
CloseLater == open' = FALSE /\ UNCHANGED intervals

\* An interval ends at the first sample that is no violation.
Close ==
    /\ open' = FALSE
    /\ intervals' = IF open THEN [intervals EXCEPT ![Len(intervals)].end = Now]
                    ELSE intervals

\* A breach within its tolerance is a warning, as is a value within the margin.
Warn(reading) ==
    /\ CountBreach(reading)
    /\ ~Persists(reading)
    /\ Breaching(bound, reading) \/ Approaching(bound, reading)
    /\ Close
    /\ approachedFor' = approachedFor + 1
    /\ Record(reading, "approaching")
    /\ UNCHANGED <<violatedFor, peak, firstViolation>>

Pass(reading) ==
    /\ CountBreach(reading)
    /\ ~Breaching(bound, reading) /\ ~Approaching(bound, reading)
    /\ Close
    /\ Record(reading, "ok")
    /\ UNCHANGED <<violatedFor, approachedFor, peak, firstViolation>>

\* Mutant: one evaluation too many.
EvaluatePastEnd(reading) ==
    /\ ~finished
    /\ Violate(reading) \/ Warn(reading) \/ Pass(reading)
    /\ UNCHANGED <<bound, finished>>

Evaluate(reading) ==
    /\ Now < Horizon
    /\ Violate(reading) \/ Warn(reading) \/ Pass(reading)
    /\ UNCHANGED <<bound, finished>>

Finalise ==
    /\ Now = Horizon
    /\ ~finished
    /\ Close
    /\ finished' = TRUE
    /\ UNCHANGED <<bound, breachFor, violatedFor, approachedFor, peak,
                   firstViolation, evaluations, commands, startTimes>>

\* What an invariant without a history of its own may read.
PlainReadings ==
    [value : Quantities, flag : IF bound.kind = "conditional" THEN BOOLEAN ELSE {FALSE}]

EvaluatePlain ==
    /\ bound.kind # "rate"
    /\ \E reading \in PlainReadings : Evaluate(reading)
    /\ UNCHANGED rateVars

EvaluateRate ==
    /\ bound.kind = "rate"
    /\ \E command \in CommandType :
        ObserveCommand(command) /\ Evaluate(RateReading(command))

Next == Finalise \/ EvaluatePlain \/ EvaluateRate

Spec == Init /\ [][Next]_monitorVars

-----------------------------------------------------------------------------
Samples == 0..(Now - 1)

At(t) == evaluations[t + 1]

BreachedAt(t) == Breaching(bound, At(t).reading)

ViolatedAt(t) == At(t).status = "violated"

\* base.py: "A breach becomes a violation only once it has persisted for at
\* least the configured tolerance.  With tolerance 0 the first breaching step
\* violates immediately".  A breach counts from its first step inclusive.
ViolationsPersist ==
    \A t \in Samples :
        ViolatedAt(t) <=>
            LET onset == t + 1 - Greater(1, bound.tolerance)
            IN  onset >= 0 /\ \A u \in onset..t : BreachedAt(u)

\* The maximal runs of violated samples.
Runs ==
    {run \in [start : Samples, end : 1..Now] :
        /\ run.start < run.end
        /\ \A t \in run.start..(run.end - 1) : ViolatedAt(t)
        /\ run.start = 0 \/ ~ViolatedAt(run.start - 1)
        /\ run.end = Now \/ ~ViolatedAt(run.end)}

\* The reported intervals are those runs, in order and each one once: no
\* violation is split, merged with the next or left without an end.
IntervalsAreTheRuns ==
    finished =>
        /\ {[start |-> intervals[i].start, end |-> intervals[i].end] :
                i \in DOMAIN intervals} = Runs
        /\ \A i \in 2..Len(intervals) : intervals[i - 1].end < intervals[i].start

\* The totals agree with the record: time in violation, warning time, and the
\* first violation.
TotalsMatchRecord ==
    /\ violatedFor = Cardinality({t \in Samples : ViolatedAt(t)})
    /\ approachedFor = Cardinality({t \in Samples : At(t).status = "approaching"})
    /\ firstViolation =
        IF violatedFor = 0 THEN None ELSE Min({t \in Samples : ViolatedAt(t)})

\* The values of the quantity over the i-th interval.
ValuesDuring(i) ==
    {At(t).reading.value :
        t \in {u \in Samples : /\ u >= intervals[i].start
                               /\ intervals[i].end = None \/ u < intervals[i].end}}

\* INV-004 observes a history and yet judges commands fairly: a jump, or more
\* starts than the limit within any hour, is a violation at once (its tolerance
\* is 0), and neither a young experiment nor a full hour makes one of a steady
\* setpoint and of starts a pace apart.  With P = RateWindow / (limit -
\* RateWindow / MinRateWindow) as the pace, 600 s as shipped, no window is unfair.
StartsUpTo(t) == {u \in 0..t : commands[u + 1].start}

TooOften(t) ==
    10 * Cardinality({u \in StartsUpTo(t) : t - u <= RateWindow}) > bound.limit

Paced(t) ==
    \A u, v \in StartsUpTo(t) :
        u < v => (v - u) * (bound.limit * MinRateWindow - 10 * RateWindow)
                    >= 10 * RateWindow * MinRateWindow

Jumped(t) ==
    LET Setpoint(u) == commands[u + 1].setpoint
    IN  t > 0 /\ Setpoint(t) \notin (Setpoint(t - 1) - MaxSlew)..(Setpoint(t - 1) + MaxSlew)

CommandsAreJudged ==
    bound.kind = "rate" =>
        \A t \in Samples :
            /\ Jumped(t) \/ TooOften(t) => ViolatedAt(t)
            /\ Paced(t) /\ ~Jumped(t) => ~ViolatedAt(t)

\* A one-sided limit: the peaks are the worst value of the interval and the
\* largest excursion of the run.
PeaksAreWorst ==
    bound.kind \in {"upper", "lower"} =>
        /\ \A i \in DOMAIN intervals :
            intervals[i].peak = IF bound.kind = "lower" THEN Min(ValuesDuring(i))
                                                        ELSE Max(ValuesDuring(i))
        /\ peak = Max({0} \cup {Excursion(At(t).reading.value) :
                                    t \in {u \in Samples : ViolatedAt(u)}})
=============================================================================
