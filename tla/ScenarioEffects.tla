-------------------------- MODULE ScenarioEffects --------------------------
(***************************************************************************)
(* The scenario engine: the scheduled effects of one scenario, applied in  *)
(* list order at the head of every timestep                                *)
(* (ExperimentRunner._apply_scenario_effects and the effect registry,      *)
(* blackstart/scenario_engine/orchestration.py and effects.py).            *)
(*                                                                         *)
(* Event times need not lie on the timestep grid, so time is counted in a  *)
(* unit of which a timestep has Timestep.  A pass over the schedule is one *)
(* step per event: a later event sees what the earlier ones have done.     *)
(***************************************************************************)
EXTENDS Clock, Sequences, FiniteSets

CONSTANTS
    Scenarios,          \* the scenarios that may be loaded: sequences of events
    Timestep,           \* dt_s
    Duration,           \* duration_s
    StepCount,          \* round(duration_s / dt_s)
    Nominal,            \* what the effects may touch, before any of them
    Forever             \* duration_s is absent

Effects == {"demand.step", "demand.ramp", "source.depletion", "sensor.bias",
            "sensor.freeze", "supervisory.blackout", "setpoint.override"}

\* EffectContext: the only fields an effect can reach.
Fields == {"demand", "source", "bias", "frozen", "available", "setpoint"}

Field(event) ==
    CASE event.effect \in {"demand.step", "demand.ramp"} -> "demand"
      [] event.effect = "source.depletion"               -> "source"
      [] event.effect = "sensor.bias"                    -> "bias"
      [] event.effect = "sensor.freeze"                  -> "frozen"
      [] event.effect = "supervisory.blackout"           -> "available"
      [] event.effect = "setpoint.override"              -> "setpoint"

IsRamp(event) == event.effect \in {"demand.ramp", "source.depletion"}

\* The two flags among the fields.
No == 0
Yes == 1

EventType ==
    [effect : Effects, at : Nat, duration : (Nat \ {0}) \cup {Forever},
     target : Int, ramp : Nat \ {0}]

\* Scenario._events_within_duration and _events_ordered.
Loadable(events) ==
    /\ events \in Seq(EventType)
    /\ \A i \in DOMAIN events : events[i].at < Duration
    /\ \A i, j \in DOMAIN events : i < j => events[i].at <= events[j].at

ASSUME EffectsAssumption ==
    /\ Timestep \in Nat \ {0}
    /\ StepCount \in Nat \ {0}
    /\ Duration \in Nat
    /\ 2 * Duration \in ((2 * StepCount - 1) * Timestep)..((2 * StepCount + 1) * Timestep)
    /\ Forever \notin Int
    /\ Nominal \in [Fields -> Int]
    /\ Nominal["bias"] = 0 /\ Nominal["frozen"] = No /\ Nominal["available"] = Yes
    /\ \A events \in Scenarios : Loadable(events)

VARIABLES
    scenario,           \* the loaded events
    now,                \* t_s
    item,               \* the next entry of the schedule in this timestep's pass
    status,             \* of each entry: pending, active or over
    saved,              \* the underscore parameter an entry keeps for itself
    plant               \* the values of Fields

effectVars == <<scenario, now, item, status, saved, plant>>

EffectsTypeOK ==
    /\ Loadable(scenario)
    /\ now \in {step * Timestep : step \in 0..(StepCount - 1)}
    /\ item \in 1..(Len(scenario) + 1)
    /\ status \in [DOMAIN scenario -> {"pending", "active", "over"}]
    /\ saved \in [DOMAIN scenario -> Int]
    /\ plant \in [Fields -> Int]
    /\ {plant["frozen"], plant["available"]} \subseteq {No, Yes}

Init ==
    /\ scenario \in Scenarios
    /\ now = 0
    /\ item = 1
    /\ status = [i \in DOMAIN scenario |-> "pending"]
    /\ saved = [i \in DOMAIN scenario |-> 0]
    /\ plant = Nominal

-----------------------------------------------------------------------------
\* Mutant: an event is due only strictly after its time.
DueAfter(event) == now > event.at

Due(event) == now >= event.at

Expired(event) == event.duration # Forever /\ now >= event.at + event.duration

\* What an effect other than a ramp sets its field to.
Imposed(event) ==
    CASE event.effect = "sensor.freeze"        -> Yes
      [] event.effect = "supervisory.blackout" -> No
      [] OTHER                                 -> event.target

\* Mutant: the demand and the setpoint are set back to what they were before the
\* scenario, as the faults are.
RestoredToNominal(event, found) ==
    CASE event.effect = "sensor.bias"          -> 0
      [] event.effect = "sensor.freeze"        -> No
      [] event.effect = "supervisory.blackout" -> Yes
      [] OTHER                                 -> Nominal[Field(event)]

\* What it sets its field back to: the faults to healthy, the other two to the
\* value they found.
Restored(event, found) ==
    CASE event.effect = "sensor.bias"          -> 0
      [] event.effect = "sensor.freeze"        -> No
      [] event.effect = "supervisory.blackout" -> Yes
      [] OTHER                                 -> found

\* Mutant: the fraction of the ramp is not capped at one.
InterpolatedOn(event, found) ==
    found + ((event.target - found) * (now - event.at)) \div event.ramp

\* The ramp from the value found at activation, complete after event.ramp.
Interpolated(event, found) ==
    found + ((event.target - found) * Lesser(event.ramp, now - event.at)) \div event.ramp

\* activate, tick and deactivate of the registry.  A ramp defines no deactivate.
Activate(event, values) ==
    IF IsRamp(event) THEN values ELSE [values EXCEPT ![Field(event)] = Imposed(event)]

Tick(event, values, found) ==
    IF IsRamp(event) THEN [values EXCEPT ![Field(event)] = Interpolated(event, found)]
    ELSE values

\* Mutant: the override has no deactivate, as a ramp has none.
DeactivateButOverride(event, values, found) ==
    IF IsRamp(event) \/ event.effect = "setpoint.override" THEN values
    ELSE [values EXCEPT ![Field(event)] = Restored(event, found)]

Deactivate(event, values, found) ==
    IF IsRamp(event) THEN values
    ELSE [values EXCEPT ![Field(event)] = Restored(event, found)]

\* An activated entry either expires or ticks.
Proceed(i, values, found) ==
    \/ /\ Expired(scenario[i])
       /\ plant' = Deactivate(scenario[i], values, found)
       /\ status' = [status EXCEPT ![i] = "over"]
    \/ /\ ~Expired(scenario[i])
       /\ plant' = Tick(scenario[i], values, found)
       /\ status' = [status EXCEPT ![i] = "active"]

Begin(i) ==
    /\ status[i] = "pending"
    /\ Due(scenario[i])
    /\ saved' = [saved EXCEPT ![i] = plant[Field(scenario[i])]]
    /\ Proceed(i, Activate(scenario[i], plant), plant[Field(scenario[i])])

Continue(i) ==
    /\ status[i] = "active"
    /\ Proceed(i, plant, saved[i])
    /\ UNCHANGED saved

Pass(i) ==
    /\ \/ status[i] = "pending" /\ ~Due(scenario[i])
       \/ status[i] = "over"
    /\ UNCHANGED <<status, saved, plant>>

Apply ==
    /\ item \in DOMAIN scenario
    /\ Begin(item) \/ Continue(item) \/ Pass(item)
    /\ item' = item + 1
    /\ UNCHANGED <<scenario, now>>

\* The rest of the timestep reads what the pass has left.
Applied == item = Len(scenario) + 1

LastStep == now = (StepCount - 1) * Timestep

\* Mutant: one timestep too many.
NextTimestepPastEnd ==
    /\ Applied
    /\ now' = now + Timestep
    /\ item' = 1
    /\ UNCHANGED <<scenario, status, saved, plant>>

NextTimestep ==
    /\ Applied
    /\ ~LastStep
    /\ now' = now + Timestep
    /\ item' = 1
    /\ UNCHANGED <<scenario, status, saved, plant>>

Next == Apply \/ NextTimestep

Spec == Init /\ [][Next]_effectVars

-----------------------------------------------------------------------------
Active(field) ==
    {i \in DOMAIN scenario : status[i] = "active" /\ Field(scenario[i]) = field}

\* schema.py: "When set, the effect is reverted at t_s + duration_s".  When no
\* effect is active on a field, the field has the value it had before them all.
FieldsReverted ==
    Applied => \A field \in Fields : Active(field) = {} => plant[field] = Nominal[field]

\* The effect active on a field that came last.
Latest(i) ==
    /\ status[i] = "active"
    /\ \A j \in Active(Field(scenario[i])) : j <= i

\* schema.py: "Absent means the effect persists to the end of the experiment".
\* Of the effects active on a field the one that came last is in force, and when
\* it ends the one before it is again: no entry that came and went in the
\* meantime has undone it.
ActiveEffectsHold ==
    Applied => \A i \in DOMAIN scenario :
        Latest(i) /\ ~IsRamp(scenario[i])
            => plant[Field(scenario[i])] = Imposed(scenario[i])

\* An active ramp is where its own schedule puts it, and stays at its target.
RampsArrive ==
    Applied => \A i \in DOMAIN scenario :
        status[i] = "active" /\ IsRamp(scenario[i])
                             /\ now >= scenario[i].at + scenario[i].ramp
            => plant[Field(scenario[i])] = scenario[i].target

\* effects.py, Effect.activate: "Called once, at the event's activation time".  In
\* every timestep the events that have happened are those due by then.  At the
\* last one these are all but the events the loader accepts after its start.
EventsHappenOnTime ==
    Applied => \A i \in DOMAIN scenario :
        status[i] # "pending" <=> scenario[i].at <= now
=============================================================================
