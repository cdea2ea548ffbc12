----------------------- MODULE ConsequenceClassifier -----------------------
(***************************************************************************)
(* The consequence class of every timestep, derived from the process and   *)
(* from the invariants violated in it, and the summary of an experiment    *)
(* (blackstart/core/consequence/classifier.py).                            *)
(*                                                                         *)
(* A sample abstracts what the classifier reads: the tank level by where   *)
(* it lies, the shortfall by the highest threshold it reaches, the spill   *)
(* by whether it is catastrophic.  Times are in timesteps.                 *)
(***************************************************************************)
EXTENDS Clock, Sequences, FiniteSetsExt

CONSTANTS
    DegradationSustained,   \* degradation_sustained_s
    LossSustained,          \* loss_sustained_s
    CatastrophicUnsafe,     \* catastrophic_unsafe_s
    Horizon,                \* timesteps in the experiment
    Samples,                \* what may be sampled
    Never

\* C0..C5.
Levels == 0..5

UnsafePhysical == {"INV-001", "INV-003"}
ServiceLoss == {"INV-002"}
Advisory == {"INV-004", "INV-005", "INV-006"}

\* minor_, degradation_ and loss_shortfall_ratio in ascending order; 0 is none.
Minor == 1
Degraded == 2
Lost == 3
Shortfalls == 0..Lost

SampleType ==
    [place : {"reserve lost", "low", "normal", "high", "unsafe"},
     shortfall : Shortfalls,
     violated : SUBSET (UnsafePhysical \cup ServiceLoss \cup Advisory),
     catastrophicSpill : BOOLEAN]

\* What one tank can show: INV-001 has no tolerance, INV-002 needs a level below
\* the reserve, and only a tank above its safe level can spill.
Coherent(sample) ==
    /\ "INV-001" \in sample.violated <=> sample.place = "unsafe"
    /\ "INV-002" \in sample.violated => sample.place = "reserve lost"

ASSUME ClassifierAssumption ==
    /\ {DegradationSustained, LossSustained, CatastrophicUnsafe} \subseteq Nat \ {0}
    /\ Horizon \in Nat
    /\ Samples \subseteq SampleType
    /\ \A sample \in Samples : Coherent(sample)
    /\ Never \notin Nat

VARIABLES
    degradedFor,        \* _degradation_duration_s
    lostFor,            \* _loss_duration_s
    unsafeFor,          \* _time_in_c4_s
    dwell,              \* _time_at_level_s
    firstReached,       \* _first_reached_t_s
    transitions,        \* _transitions
    maximum,            \* _maximum_level
    trace               \* the samples with their classes: the process trace

classifierVars == <<degradedFor, lostFor, unsafeFor, dwell, firstReached,
                    transitions, maximum, trace>>

Now == Len(trace)

ClassifierTypeOK ==
    /\ {degradedFor, lostFor, unsafeFor} \subseteq 0..Horizon
    /\ dwell \in [Levels -> 0..Horizon]
    /\ firstReached \in [Levels -> Nat \cup {Never}]
    /\ transitions \in Seq([at : Nat, from : Levels, to : Levels])
    /\ maximum \in Levels
    /\ trace \in Seq([sample : Samples, class : Levels])
    /\ Now <= Horizon

Init ==
    /\ degradedFor = 0 /\ lostFor = 0 /\ unsafeFor = 0
    /\ dwell = [level \in Levels |-> 0]
    /\ firstReached = [level \in Levels |-> Never]
    /\ transitions = <<>>
    /\ maximum = 0
    /\ trace = <<>>

-----------------------------------------------------------------------------
\* Mutant: the timer of a condition does not reset on recovery.
SustainForever(before, holds) == IF holds THEN before + 1 ELSE before

\* A sustained-condition timer resets on recovery.
Sustain(before, holds) == IF holds THEN before + 1 ELSE 0

LosesReserve(sample) == ServiceLoss \cap sample.violated # {}

\* The condition of each class up to C4; degraded and lost are the timers with
\* this sample counted.
Meets(class, sample, degraded, lost) ==
    CASE class = 0 -> TRUE
      [] class = 1 -> \/ sample.place # "normal"
                      \/ sample.shortfall >= Minor
                      \/ Advisory \cap sample.violated # {}
      [] class = 2 -> degraded >= DegradationSustained
      [] class = 3 -> lost >= LossSustained \/ LosesReserve(sample)
      [] class = 4 -> UnsafePhysical \cap sample.violated # {}

UpToC4(sample, degraded, lost) ==
    Max({class \in 0..4 : Meets(class, sample, degraded, lost)})

\* Mutant: a prolonged unsafe state alone is catastrophic.
CatastrophicWhenProlonged(sample, class, lost, unsafe) ==
    \/ sample.catastrophicSpill
    \/ unsafe >= CatastrophicUnsafe /\ class >= 4

\* C5: containment lost at scale, or an unsafe state that has lasted and is also
\* a loss of the required service.
Catastrophic(sample, class, lost, unsafe) ==
    \/ sample.catastrophicSpill
    \/ /\ unsafe >= CatastrophicUnsafe
       /\ class >= 4
       /\ LosesReserve(sample) \/ lost >= LossSustained

\* Mutant: a transition is noted whenever the class is not the highest so far.
RecordAgainstMaximum(sample, class) ==
    /\ dwell' = [dwell EXCEPT ![class] = @ + 1]
    /\ firstReached' = [firstReached EXCEPT ![class] = IF @ = Never THEN Now ELSE @]
    /\ transitions' = IF trace # <<>> /\ class # maximum
                      THEN Append(transitions, [at |-> Now, from |-> maximum, to |-> class])
                      ELSE transitions
    /\ maximum' = Greater(maximum, class)
    /\ trace' = Append(trace, [sample |-> sample, class |-> class])

\* _record, and the row of the trace.
RecordClass(sample, class) ==
    /\ dwell' = [dwell EXCEPT ![class] = @ + 1]
    /\ firstReached' = [firstReached EXCEPT ![class] = IF @ = Never THEN Now ELSE @]
    /\ transitions' = IF trace # <<>> /\ class # trace[Now].class
                      THEN Append(transitions,
                                  [at |-> Now, from |-> trace[Now].class, to |-> class])
                      ELSE transitions
    /\ maximum' = Greater(maximum, class)
    /\ trace' = Append(trace, [sample |-> sample, class |-> class])

\* Mutant: one sample too many.
ClassifyPastEnd(sample) ==
    /\ degradedFor' = Sustain(degradedFor, sample.shortfall >= Degraded)
    /\ lostFor' = Sustain(lostFor, sample.shortfall >= Lost)
    /\ LET class == UpToC4(sample, degradedFor', lostFor')
       IN  /\ unsafeFor' = IF class >= 4 THEN unsafeFor + 1 ELSE unsafeFor
           /\ RecordClass(sample, IF Catastrophic(sample, class, lostFor', unsafeFor')
                                  THEN 5 ELSE class)

Classify(sample) ==
    /\ Now < Horizon
    /\ degradedFor' = Sustain(degradedFor, sample.shortfall >= Degraded)
    /\ lostFor' = Sustain(lostFor, sample.shortfall >= Lost)
    /\ LET class == UpToC4(sample, degradedFor', lostFor')
       IN  /\ unsafeFor' = IF class >= 4 THEN unsafeFor + 1 ELSE unsafeFor
           /\ RecordClass(sample, IF Catastrophic(sample, class, lostFor', unsafeFor')
                                  THEN 5 ELSE class)

\* Spilled water does not come back.
Next ==
    \E sample \in Samples :
        /\ trace # <<>> /\ trace[Now].sample.catastrophicSpill => sample.catastrophicSpill
        /\ Classify(sample)

Spec == Init /\ [][Next]_classifierVars

-----------------------------------------------------------------------------
Steps == 1..Now

\* The sample has met a condition for the last count steps, itself included.
Sustained(k, count, threshold) ==
    k >= count /\ \A j \in (k - count + 1)..k : trace[j].sample.shortfall >= threshold

ServiceIsLost(k) ==
    LosesReserve(trace[k].sample) \/ Sustained(k, LossSustained, Lost)

\* consequences.yaml, C0 to C4: the class of a step that is not catastrophic is
\* the highest whose condition holds of the history up to it, and a dip that
\* recovered in time leaves no trace in it.
ClassMatchesTaxonomy ==
    \A k \in Steps :
        trace[k].class # 5 =>
            trace[k].class = Max(
                {0}
                \cup {c \in {1} : Meets(1, trace[k].sample, 0, 0)}
                \cup {c \in {2} : Sustained(k, DegradationSustained, Degraded)}
                \cup {c \in {3} : ServiceIsLost(k)}
                \cup {c \in {4} : Meets(4, trace[k].sample, 0, 0)})

\* docs/consequence-model.md, "Escalation is deliberately hard": C5 takes
\* containment loss at scale, or an unsafe step that is also a loss of the service
\* after a prolonged unsafe state, of which every unsafe step so far counts.  A
\* token overflow stays C4, a long unsafe period with the service intact stays C4,
\* and nothing that earns C5 is given less.
CatastropheIsEarned ==
    \A k \in Steps :
        trace[k].class = 5 <=>
            \/ trace[k].sample.catastrophicSpill
            \/ /\ Meets(4, trace[k].sample, 0, 0)
               /\ ServiceIsLost(k)
               /\ Cardinality({j \in 1..k : Meets(4, trace[j].sample, 0, 0)})
                    >= CatastrophicUnsafe

\* The summary is a function of the trace: time at each class, the first time at
\* it, the highest, and every change of class once and in order.
SummaryMatchesTrace ==
    /\ \A class \in Levels :
        LET reached == {k \in Steps : trace[k].class = class}
        IN  /\ dwell[class] = Cardinality(reached)
            /\ firstReached[class] = IF reached = {} THEN Never ELSE Min(reached) - 1
    /\ maximum = Max({0} \cup {trace[k].class : k \in Steps})
    /\ LET changes == {k \in Steps : k > 1 /\ trace[k].class # trace[k - 1].class}
       IN  /\ Len(transitions) = Cardinality(changes)
           /\ \A i \in DOMAIN transitions :
                LET k == transitions[i].at + 1
                IN  /\ k \in changes
                    /\ transitions[i].from = trace[k - 1].class
                    /\ transitions[i].to = trace[k].class
                    /\ i > 1 => transitions[i - 1].at < transitions[i].at
=============================================================================
