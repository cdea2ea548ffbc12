-------------------------- MODULE ExperimentRecord --------------------------
(***************************************************************************)
(* What an experiment leaves behind: the events (ExperimentRunner.run and  *)
(* EventBus), the rows of the trace, the metrics computed from them        *)
(* (analysis/metrics.py), and the second opinion that is computed from the *)
(* rows as process.csv holds them (analysis/verification.py).              *)
(*                                                                         *)
(* Each step shows a sample of the classifier and, fixed for each sample,  *)
(* what else the record tells of it.  A level is a whole number of some    *)
(* unit finer than that of process.csv, itself finer than that of the      *)
(* metrics; no level in memory is half-way between two rounded ones.  All  *)
(* times are in timesteps: what a scenario has between two of them shows   *)
(* at the next.                                                            *)
(***************************************************************************)
EXTENDS ConsequenceClassifier, SequencesExt

CONSTANTS
    Shown,              \* what a step with this sample shows besides
    MinimumSafe,        \* limit_m of INV-002
    MaximumSafe,        \* limit_m of INV-001
    CsvUnit,            \* what process.csv resolves: _DECIMALS
    MetricUnit,         \* what metrics.json resolves
    TelemetryInterval,  \* _TELEMETRY_INTERVAL_S
    Scenarios,          \* the scenarios an experiment may run
    Lasting,            \* the end of an effect without a duration
    Nothing             \* the end of a disturbance of no effects

Invariants == UnsafePhysical \cup ServiceLoss \cup Advisory

\* An invariant is approaching within its tolerance or its margin.
ShownType ==
    [level : Nat, approaching : SUBSET Invariants, pump : BOOLEAN, acted : BOOLEAN,
     supervisory : BOOLEAN, reserve : BOOLEAN]

\* InvariantStatus.
Statuses == {"OK", "APPROACHING", "VIOLATED"}

\* An effect of the schedule: the first timestep at or after its time, and the
\* first at or after its end.
EffectType == [begin : Nat, until : Nat \cup {Lasting}]

ASSUME RecordAssumption ==
    /\ Horizon >= 1
    /\ Never \notin BOOLEAN /\ Never \notin Statuses
    /\ Shown \in [Samples -> ShownType]
    /\ {MinimumSafe, MaximumSafe, CsvUnit, MetricUnit, TelemetryInterval} \subseteq Nat \ {0}
    /\ MinimumSafe < MaximumSafe
    /\ MetricUnit % CsvUnit = 0 /\ MinimumSafe % MetricUnit = 0 /\ MaximumSafe % MetricUnit = 0
    /\ Scenarios \subseteq Seq(EffectType) /\ Lasting \notin Nat
    /\ \A schedule \in Scenarios : \A i \in DOMAIN schedule :
        schedule[i].until # Lasting => schedule[i].begin <= schedule[i].until
    /\ \A s \in Samples :
        /\ 2 * (Shown[s].level % CsvUnit) # CsvUnit
        /\ 2 * (Shown[s].level % MetricUnit) # MetricUnit
        /\ s.place = "unsafe" <=> Shown[s].level > MaximumSafe
        /\ s.place = "reserve lost" <=> Shown[s].level < MinimumSafe

VARIABLES
    scenario,           \* the schedule of this experiment
    activated,          \* the effects of the schedule that have begun
    deactivated,        \*   and that have ended
    events,             \* the EventBus
    previous,           \* previous_*: what the events have told of each signal
    telemetryAt,        \* next_telemetry_t_s
    ongoing,            \* invariants whose engine has an open interval
    intervals,          \* how many intervals the engine has opened
    result              \* metrics.json and verification.json

recordVars == <<scenario, activated, deactivated,
                events, previous, telemetryAt, ongoing, intervals, result>>

Signals == Invariants \cup {"pump", "acted", "class", "supervisory", "reserve"}

\* What happens to an effect of the schedule.
Phases == (Nat \ {0}) \X {"activate", "deactivate"}

\* What an event may say: a class, a status, a phase, or yes or no.
Event ==
    [at : Nat, signal : {"class", "telemetry", "end"}, value : Levels] \cup
    [at : Nat, signal : Invariants, value : Statuses] \cup
    [at : Nat, signal : {"scenario"}, value : Phases] \cup
    [at : Nat, signal : {"pump", "acted", "supervisory", "reserve", "start"}, value : BOOLEAN]

RecordTypeOK ==
    /\ ClassifierTypeOK
    /\ scenario \in Scenarios
    /\ deactivated \subseteq activated /\ activated \subseteq DOMAIN scenario
    /\ \A i \in DOMAIN events : events[i] \in Event
    /\ DOMAIN previous = Signals
    /\ telemetryAt \in Nat
    /\ ongoing \subseteq Invariants
    /\ intervals \in Nat
    /\ result # Never => Now = Horizon /\ result.satisfied \in 0..Horizon

RecordInit ==
    /\ Init
    /\ scenario \in Scenarios
    /\ activated = {} /\ deactivated = {}
    /\ events = <<[at |-> 0, signal |-> "start", value |-> TRUE]>>
    /\ previous = [s \in Signals |->
                    CASE s \in Invariants \cup {"class"} -> Never
                      [] s = "supervisory" -> TRUE
                      [] OTHER -> FALSE]
    /\ telemetryAt = 0
    /\ ongoing = {} /\ intervals = 0
    /\ result = Never

-----------------------------------------------------------------------------
(* The schedule: _apply_scenario_effects, which opens the timestep.         *)

Begins(i) == i \notin activated /\ Now >= scenario[i].begin

\* An effect that would have ended before it begins ends in the same pass.
Ends(i) ==
    /\ i \in activated \/ Begins(i)
    /\ i \notin deactivated
    /\ scenario[i].until # Lasting /\ Now >= scenario[i].until

\* What the pass has to tell.
Due ==
    {<<i, "activate">> : i \in {i \in DOMAIN scenario : Begins(i)}} \cup
    {<<i, "deactivate">> : i \in {i \in DOMAIN scenario : Ends(i)}}

\* The order of the pass: effect by effect, its begin before its end.
Earlier(p, q) == p[1] < q[1] \/ (p[1] = q[1] /\ p[2] = "activate" /\ q[2] = "deactivate")

\* The sequence that tells all of it in this order.
Announcements ==
    {said \in SeqOf(Due, 2 * Len(scenario)) :
        /\ \A phase \in Due : \E i \in DOMAIN said : said[i] = phase
        /\ \A i, j \in DOMAIN said : i < j => Earlier(said[i], said[j])}

Announced(said) == [i \in DOMAIN said |-> [at |-> Now, signal |-> "scenario", value |-> said[i]]]

Schedule ==
    /\ activated' = activated \cup {i \in DOMAIN scenario : Begins(i)}
    /\ deactivated' = deactivated \cup {i \in DOMAIN scenario : Ends(i)}
    /\ UNCHANGED scenario

-----------------------------------------------------------------------------
(* The rest of the timestep: its events, and the intervals of the engine.   *)

Status(invariant, sample) ==
    CASE invariant \in sample.violated -> "VIOLATED"
      [] invariant \in Shown[sample].approaching \ sample.violated -> "APPROACHING"
      [] OTHER -> "OK"

Value(signal, sample, class) ==
    CASE signal \in Invariants -> Status(signal, sample)
      [] signal = "class" -> class
      [] OTHER -> Shown[sample][signal]

\* Every signal is told when it changes; only what the backstop does is told
\* for as long as it lasts.
Tells(signal, sample, class) ==
    IF signal = "acted" THEN Shown[sample].acted
    ELSE Value(signal, sample, class) # previous[signal]

\* The event that tells of it, if there is one.
Tell(signal, sample, class) ==
    IF Tells(signal, sample, class)
    THEN <<[at |-> Now, signal |-> signal, value |-> Value(signal, sample, class)]>>
    ELSE <<>>

\* In the order of the code.
Told(said, sample, class) ==
    LET Of(signal) == Tell(signal, sample, class)
    IN  events \o Announced(said)
            \o Of("pump") \o Of("acted")
            \o Of("INV-001") \o Of("INV-002") \o Of("INV-003")
            \o Of("INV-004") \o Of("INV-005") \o Of("INV-006")
            \o Of("class") \o Of("supervisory") \o Of("reserve")

\* Mutant: the reserve protection is compared with how the run began.
RememberButReserve(sample, class) ==
    previous' = [s \in Signals |->
        IF s = "reserve" THEN previous[s] ELSE Value(s, sample, class)]

Remember(sample, class) ==
    previous' = [s \in Signals |-> Value(s, sample, class)]

Emit(sample, class) ==
    LET due == Now >= telemetryAt IN
    /\ \E said \in Announcements :
        events' = Told(said, sample, class) \o
                    (IF due THEN <<[at |-> Now, signal |-> "telemetry", value |-> class]>>
                     ELSE <<>>)
    /\ telemetryAt' = IF due THEN Now + TelemetryInterval ELSE telemetryAt
    /\ Remember(sample, class)

\* The engine counts a violation when its interval opens (see InvariantMonitor).
CountIntervals(sample) ==
    /\ intervals' = intervals + Cardinality(sample.violated \ ongoing)
    /\ ongoing' = sample.violated

TakeStep ==
    /\ Next
    /\ LET row == trace'[Now + 1]
       IN  Emit(row.sample, row.class) /\ CountIntervals(row.sample)
    /\ Schedule
    /\ UNCHANGED result

-----------------------------------------------------------------------------
(* compute_metrics, and verify_results on the exported rows.                *)

Rows == DOMAIN trace

Level(k) == Shown[trace[k].sample].level

\* The critical function CF-001 is performed.
Satisfied(k) ==
    /\ trace[k].sample.shortfall < Degraded
    /\ trace[k].sample.violated \cap (UnsafePhysical \cup ServiceLoss) = {}

\* Mutant: the first good row ends the recovery.
RecoveredFirst(tail) == {k \in tail : Satisfied(k)}

\* The rows from which on the function is performed to the end.
Recovered(tail) == {k \in tail : \A j \in k..Len(trace) : Satisfied(j)}

\* When the last effect ends.
DisturbanceEnd ==
    LET ends == {scenario[i].until : i \in DOMAIN scenario}
    IN  CASE ends = {} -> Nothing
          [] Lasting \in ends -> Lasting
          [] OTHER -> Max(ends)

Recovery(end) ==
    LET tail == {k \in Rows : k - 1 >= end}
        report(status, after) == [status |-> status, after |-> after]
    IN  IF end = Nothing THEN report("no disturbance", Never)
        ELSE IF end = Lasting THEN report("persists", Never)
        ELSE IF tail = {} THEN report("insufficient", Never)
        ELSE IF Recovered(tail) = {} THEN report("not recovered", Never)
        ELSE report("recovered", Min(Recovered(tail)) - 1 - end)

\* What rounding a level to a unit may give: a decimal half-way between two is
\* decided by its binary representation.
Nearest(level, unit) ==
    LET below == level - (level % unit)
    IN  IF 2 * (level % unit) = unit THEN {below, below + unit}
        ELSE IF 2 * (level % unit) < unit THEN {below} ELSE {below + unit}

Unsafe(level) == level > MaximumSafe \/ level < MinimumSafe

\* The level as process.csv tells it.
Exported(k) == CHOOSE level \in Nearest(Level(k), CsvUnit) : TRUE

\* The four outcomes by the one means and the other.
Primary(highest) ==
    [highest |-> highest,
     unsafe |-> Cardinality({k \in Rows : Unsafe(Level(k))}),
     intervals |-> intervals,
     maximum |-> maximum]

\* Mutant: a row with a violation counts, not an interval.
BegunEachRow(k) == trace[k].sample.violated

\* The violations that the row before did not have.
Begun(k) == trace[k].sample.violated \ (IF k = 1 THEN {} ELSE trace[k - 1].sample.violated)

Independent(highest) ==
    [highest |-> highest,
     unsafe |-> Cardinality({k \in Rows : Unsafe(Exported(k))}),
     intervals |-> Cardinality({begun \in Rows \X Invariants : begun[2] \in Begun(begun[1])}),
     maximum |-> Max({trace[k].class : k \in Rows})]

\* The end of the run, its metrics, and the verification of what was exported.
Finish ==
    /\ Now = Horizon
    /\ result = Never
    /\ events' = Append(events, [at |-> Horizon, signal |-> "end", value |-> maximum])
    /\ \E primary \in Nearest(Max({Level(k) : k \in Rows}), MetricUnit),
          independent \in Nearest(Max({Exported(k) : k \in Rows}), MetricUnit) :
        result' = [end |-> DisturbanceEnd,
                   satisfied |-> Cardinality({k \in Rows : Satisfied(k)}),
                   recovery |-> Recovery(DisturbanceEnd),
                   primary |-> Primary(primary),
                   independent |-> Independent(independent)]
    /\ UNCHANGED <<classifierVars, scenario, activated, deactivated,
                   previous, telemetryAt, ongoing, intervals>>

RecordNext == TakeStep \/ Finish

RecordSpec == RecordInit /\ [][RecordNext]_<<classifierVars, recordVars>>

-----------------------------------------------------------------------------
\* The stream of changes is the whole story: at every step the last event of a
\* signal tells its present value, and of an invariant which of its three statuses,
\* though a step without a change tells nothing; the backstop's events stand at
\* exactly the steps in which it acted; each effect that the schedule has begun and
\* ended, even within one step, is told at its step and at no other; and the stream
\* is in the order of time, with a trend sample every interval.
LastTold(signal) ==
    LET told == {i \in DOMAIN events : events[i].signal = signal}
    IN  IF told = {} THEN signal = "supervisory" ELSE events[Max(told)].value

ToldAt(signal, t) == \E i \in DOMAIN events : events[i].signal = signal /\ events[i].at = t

PhaseToldAt(phase, t) ==
    \E i \in DOMAIN events :
        events[i].signal = "scenario" /\ events[i].value = phase /\ events[i].at = t

EventsTellTheRun ==
    /\ \A i \in 2..Len(events) : events[i - 1].at <= events[i].at
    /\ Now > 0 =>
        /\ \A s \in Signals \ {"acted"} :
            LastTold(s) = Value(s, trace[Now].sample, trace[Now].class)
        /\ ToldAt("acted", Now - 1) <=> Shown[trace[Now].sample].acted
        /\ \A i \in DOMAIN scenario :
            /\ PhaseToldAt(<<i, "activate">>, Now - 1) <=> scenario[i].begin = Now - 1
            /\ PhaseToldAt(<<i, "deactivate">>, Now - 1) <=> scenario[i].until = Now - 1
        /\ ToldAt("telemetry", Now - 1) <=> (Now - 1) % TelemetryInterval = 0

\* verification.py repeats the primary metrics from process.csv alone: the engine
\* counts an interval when it opens, the recount where two rows differ, and the
\* levels have been through the formatting of the file.
RecountAgrees == result # Never => result.independent = result.primary

\* Recovery is sustained, and the classifier agrees: from then on the service is
\* at most disturbed (C1) unless water has been lost for good, and the moment
\* before was no better than disturbed.
RecoveryMeansService ==
    result # Never =>
        LET end == result.end
            after == result.recovery.after
            ClassAt(t) == trace[t + 1].class
        IN  CASE result.recovery.status = "recovered" ->
                    /\ \A t \in (end + after)..(Horizon - 1) :
                        ClassAt(t) <= 1 \/ trace[t + 1].sample.catastrophicSpill
                    /\ after > 0 => ClassAt(end + after - 1) >= 1
              [] result.recovery.status = "not recovered" -> ClassAt(Horizon - 1) >= 1
              [] OTHER -> TRUE
=============================================================================
