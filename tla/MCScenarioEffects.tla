------------------------- MODULE MCScenarioEffects -------------------------
(***************************************************************************)
(* Every scenario of up to two or three events drawn from a small set of   *)
(* effects, times and durations; the cfg chooses which of them are loaded. *)
(***************************************************************************)
EXTENDS ScenarioEffects

CONSTANTS
    Instants,           \* effects other than ramps the scenarios use
    Ramps,
    Times,              \* activation times
    Durations,
    RampDurations,
    MayOverlap          \* may two entries on one field be active together

MCNominal ==
    [demand |-> 2, source |-> 4, bias |-> 0, frozen |-> No,
     available |-> Yes, setpoint |-> 3]

\* Two targets, so that an effect can overlap another that wants something else.
MCEvents ==
    [effect : Instants, at : Times, duration : Durations, target : {5, 6}, ramp : {1}]
        \cup [effect : Ramps, at : Times, duration : RampDurations, target : {0}, ramp : {3, 4}]

Apart(first, second) ==
    \/ Field(first) # Field(second)
    \/ first.duration # Forever /\ first.at + first.duration <= second.at

\* The two effects that set a field back to what they found may overlap when the
\* one that comes later is gone a timestep before the other is.
Saves(event) == event.effect \in {"demand.step", "setpoint.override"}

Nested(first, second) ==
    /\ Saves(first) /\ Saves(second)
    /\ second.duration # Forever
    /\ \/ first.duration = Forever
       \/ second.at + second.duration + Timestep <= first.at + first.duration

MCScenarios ==
    {events \in UNION {[1..n -> MCEvents] : n \in 0..2} :
        /\ Loadable(events)
        /\ \A i, j \in DOMAIN events : i < j =>
                \/ MayOverlap
                \/ Apart(events[i], events[j])
                \/ Nested(events[i], events[j])}
=============================================================================
