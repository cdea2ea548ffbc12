------------------------------ MODULE ScanLoop ------------------------------
(***************************************************************************)
(* One experiment: the timestep loop of ExperimentRunner.run               *)
(* (blackstart/scenario_engine/orchestration.py) composing the process,    *)
(* the instruments, the controller behind its scanner, and the backstop.   *)
(*                                                                         *)
(* A timestep is three phases in the order of the code:                    *)
(*   command    scenario effects, instruments, setpoint constraint, scan   *)
(*   interlock  actuator permissive, notification, actuation               *)
(*   integrate  record, then advance the physics and the clock             *)
(* Scenario effects are an arbitrary environment: at every step they may   *)
(* leave any setpoint request, transmitter fault, source level and demand  *)
(* of the constants below.  Recording (trace, events, invariants and       *)
(* consequence classes) reads the state and changes none of it.            *)
(***************************************************************************)
EXTENDS EngineeringBackstop, LevelController, WaterProcess, Instruments

CONSTANTS
    Requests,           \* setpoints the supervisory layer may hold
    SourceLevels,       \* source levels a source.depletion effect may set
    Biases,             \* level bias a sensor.bias effect may set
    Freezes,            \* whether a sensor.freeze effect may be active
    Demands,            \* demand of one timestep, its variation included
    SafeLimit           \* INV-001 limit_m

\* What the configuration loader checks across components.
ControlBandIsPhysical ==
    /\ OperatorSetpoint - Deadband > 0
    /\ OperatorSetpoint + Deadband < Overflow

BackstopIsTighterThanInvariants ==
    /\ TripLevel < SafeLimit
    /\ SetpointMax + Deadband < SafeLimit

SafeLimitBelowOverflow == SafeLimit < Overflow

ASSUME LoopAssumption ==
    /\ Requests \subseteq Int
    /\ SourceLevels \subseteq Nat
    /\ Biases \subseteq Int
    /\ Freezes \subseteq BOOLEAN
    /\ Demands \subseteq Nat
    /\ SafeLimit \in Nat

ASSUME LoaderAssumption ==
    /\ ControlBandIsPhysical
    /\ BackstopIsTighterThanInvariants
    /\ SafeLimitBelowOverflow

VARIABLE pc

vars == <<backstopVars, controllerVars, processVars, lastReported, pc>>

Init ==
    /\ BackstopInit
    /\ ControllerInit
    /\ ProcessInit
    /\ InstrumentsInit
    /\ pc = "command"

\* Stage one: the controller only ever sees the constrained setpoint.
Command(requested, error, bias, frozen) ==
    /\ pc = "command"
    /\ source' \in SourceLevels
    /\ ReadTransmitter(level, error, bias, frozen)
    /\ ConstrainSetpoint(requested)
    /\ Execute(lastReported', effectiveSetpoint')
    /\ pc' = "interlock"
    /\ UNCHANGED <<interlockVars, level, energised, valve, flows>>

\* Stage two: the interlocks decide, a denial is reported to the controller,
\* and the actuators take the decision.
Interlock(independentLevel) ==
    /\ pc = "interlock"
    /\ EvaluatePermissive(held.pumpRun, independentLevel, source)
    /\ \/ held.pumpRun /\ ~pumpPermitted' /\ NotifyPumpDenied
       \/ ~(held.pumpRun /\ ~pumpPermitted') /\ UNCHANGED beliefVars
    /\ energised' = pumpPermitted'
    /\ SlewValve(held.valvePosition)
    /\ pc' = "integrate"
    /\ UNCHANGED <<effectiveSetpoint, reserve, held, untilScan,
                   level, source, flows, lastReported>>

Integrate(demand) ==
    /\ pc = "integrate"
    /\ StepProcess(demand)
    /\ BackstopTimePasses
    /\ ControllerTimePasses
    /\ pc' = "command"
    /\ UNCHANGED <<effectiveSetpoint, tripped, permittedLast, pumpPermitted,
                   running, reserve, held, lastReported>>

Next ==
    \/ \E requested \in Requests, error \in Errors(TransmitterNoise),
          bias \in Biases, frozen \in Freezes :
            Command(requested, error, bias, frozen)
    \/ \E reading \in IndependentReadings(level) : Interlock(reading)
    \/ \E demand \in Demands : Integrate(demand)

Spec == Init /\ [][Next]_vars

\* The loop is one thread and nothing in it blocks: it takes the next phase.
FairSpec == Spec /\ WF_vars(Next)

-----------------------------------------------------------------------------
TypeOK ==
    /\ BackstopTypeOK
    /\ ControllerTypeOK
    /\ ProcessTypeOK
    /\ InstrumentsTypeOK
    /\ pc \in {"command", "interlock", "integrate"}

\* The margin the trip needs: the element reads just under the trip level at
\* worst ElementNoise above it, and the pump then delivers one more step.
TripMargin == TripLevel + ElementNoise + NominalFlow <= SafeLimit + 1

InitiallySafe == InitialLevel <= SafeLimit

\* INV-001 with the backstop enabled: whatever setpoint is requested and
\* whatever the transmitter reports, the true level stays within the safe
\* limit, and so nothing is ever spilled (backstop.py: "Prevent a digital
\* compromise from directly producing an unacceptable physical state").
LevelStaysSafe == level <= SafeLimit /\ flows.spill = 0

\* BS-03 against the truth: the motor is energised over a timestep only when the
\* level is low enough for the element to have read below the trip level.
EnergisedOnlyBelowTrip ==
    pc = "integrate" /\ energised => level < TripLevel + ElementNoise

\* BS-04 protects INV-003: the motor is never energised over a timestep whose
\* suction is lost, although the request it follows may be a scan old.
NeverRunsDry == pc = "integrate" /\ energised => source > SuctionLimit

\* BS-01 through BS-02: the setpoint the controller acts on is in the
\* permitted range at every step of its travel, not only when it arrives.
EffectiveSetpointInRange ==
    pc # "command" => effectiveSetpoint \in SetpointMin..SetpointMax

\* BS-03 and BS-05 as the motor experiences them: the loop implements the
\* abstract motor protection.
MotorProtection ==
    INSTANCE PumpProtection
        WITH motor <- energised, lockout <- tripped, rest <- sinceStopped,
             MinOff <- BackstopMinOff

MotorIsProtected == MotorProtection!ProtectionSpec

\* The controller alone keeps the same promise for what it commands, denials
\* included: its timer restarts when it is told of one.
CommandProtection ==
    INSTANCE PumpProtection
        WITH motor <- running, lockout <- FALSE, rest <- sinceStop,
             MinOff <- MinOffControl

CommandIsProtected == CommandProtection!ProtectionSpec

\* control_logic.py, notify_pump_denied: "The controller must not keep believing
\* the pump is running once the backstop has denied it".  At the end of every
\* timestep a pump the controller believes running is running, whatever was
\* refused at a scan or in a timestep between two scans.
DenialsAreBelieved == pc = "command" /\ running => energised

\* The same docstring: belief and actuator agree, or the anti-cycling timers
\* drift out of step.  Both ways: the motor runs exactly when it is believed to.
MotorFollowsBelief == pc = "command" => (energised <=> running)

\* A latched trip is never permanent while the outlet is drawn on.
TripResets == tripped ~> ~tripped

\* The two anti-cycle timers, the trip and the hysteresis never lock each other
\* out: with an honest transmitter the pump runs again and again.
PumpKeepsCycling == []<>energised
=============================================================================
