---------------------------- MODULE WaterProcess ----------------------------
(***************************************************************************)
(* The physical process: a tank filled by a pump and drained by gravity    *)
(* through a throttling valve (blackstart/core/physics/process.py).        *)
(*                                                                         *)
(* A flow is the change of level it makes in one timestep (q * dt / A), so *)
(* levels and flows share one integer unit.  The pump curve and Torricelli *)
(* law are tables: the results need their range and where they are zero,   *)
(* never the formula.                                                      *)
(***************************************************************************)
EXTENDS ProcessConfig

CONSTANTS
    Overflow,           \* overflow_height_m
    InitialLevel,
    InitialSource,
    InitialValve,
    ValveTravel,        \* max_slew_per_s * dt_s
    NominalFlow,        \* nominal_flow_m3_s
    PumpCurve,          \* level -> q_nominal * clamp(1 - L / H_shutoff, 0, 1)
    ValveCurve          \* position -> level -> gravity discharge

ASSUME ProcessAssumption ==
    /\ Overflow \in Nat
    /\ InitialLevel \in 0..Overflow
    /\ InitialSource \in Nat
    /\ InitialValve \in 0..FullOpen
    /\ ValveTravel \in Nat
    /\ NominalFlow \in Nat
    /\ PumpCurve \in [0..Overflow -> 0..NominalFlow]
    /\ ValveCurve \in [0..FullOpen -> [0..Overflow -> Nat]]
    /\ \A level \in 0..Overflow : ValveCurve[0][level] = 0
    /\ \A position \in 0..FullOpen : ValveCurve[position][0] = 0

VARIABLES
    level,              \* tank_level_m, the truth
    source,             \* source_level_m
    energised,          \* pump_energised
    valve,              \* valve_position
    flows               \* what the last step moved

processVars == <<level, source, energised, valve, flows>>

Flows == [inflow : Nat, outflow : Nat, demand : Nat, spill : Nat]

ProcessTypeOK ==
    /\ level \in 0..Overflow
    /\ source \in Nat
    /\ energised \in BOOLEAN
    /\ valve \in 0..FullOpen
    /\ flows \in Flows

ProcessInit ==
    /\ level = InitialLevel
    /\ source = InitialSource
    /\ energised = PumpInitiallyOn
    /\ valve = InitialValve
    /\ flows = [inflow |-> 0, outflow |-> 0, demand |-> 0, spill |-> 0]

-----------------------------------------------------------------------------
\* Without suction the motor turns and delivers nothing.
PumpInflow == IF energised /\ source > SuctionLimit THEN PumpCurve[level] ELSE 0

ValveCapacity == ValveCurve[valve][level]

\* Mutant: the travel does not stop at the commanded position.
SlewValvePastTarget(commanded) ==
    valve' = IF commanded >= valve THEN valve + ValveTravel ELSE valve - ValveTravel

SlewValve(commanded) ==
    valve' = Toward(valve, Within(0, FullOpen, commanded), ValveTravel)

\* Mutant: the outflow is not bounded by the volume there is.
OutflowUnbounded(demand) == Lesser(demand, ValveCapacity)

\* A tank cannot supply more than it holds plus what arrives.
Outflow(demand) == Lesser(Lesser(demand, ValveCapacity), Greater(0, level + PumpInflow))

\* The level before the weir and the floor bound it.
RawLevel(demand) == level + PumpInflow - Outflow(demand)

\* Volume above the weir crest leaves the system.  The last arm of the code
\* ("defensive: should make this unreachable") is the floor at zero.
StepProcess(demand) ==
    /\ level' = Within(0, Overflow, RawLevel(demand))
    /\ flows' = [inflow |-> PumpInflow,
                 outflow |-> Outflow(demand),
                 demand |-> demand,
                 spill |-> Greater(0, RawLevel(demand) - Overflow)]
    /\ UNCHANGED <<source, energised, valve>>

-----------------------------------------------------------------------------
\* Mass balance of one step (docs/physical-model.md): the level changes by
\* exactly what entered less what left, the spill included.  The floor at zero
\* would break it, so the bound on the outflow has to keep the floor idle.
VolumeConserved ==
    [][level' # level \/ flows' # flows
        => level' + flows'.outflow + flows'.spill = level + flows'.inflow]_<<level, flows>>

=============================================================================
