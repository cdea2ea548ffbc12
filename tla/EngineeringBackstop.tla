------------------------ MODULE EngineeringBackstop ------------------------
(***************************************************************************)
(* The independent engineering constraint EBS-001                          *)
(* (blackstart/controller/backstop.py): stage one constrains the setpoint, *)
(* stage two, here, interlocks the pump.                                   *)
(*                                                                         *)
(* Levels and setpoints are integers in the unit of the MC module, times   *)
(* are in timesteps.  Activation counters, the trip count and the names of *)
(* the rules that acted are telemetry: nothing reads them back.            *)
(***************************************************************************)
EXTENDS SetpointConstraint

CONSTANTS
    TripLevel,          \* BS-03
    ResetLevel,         \* BS-03
    BackstopMinOff      \* BS-05, in timesteps

ASSUME BackstopAssumption ==
    /\ TripLevel \in Int
    /\ ResetLevel \in Int
    /\ BackstopMinOff \in Nat

\* A hypothesis where it is needed: the loader does not order the two levels.
OrderedTrip == ResetLevel < TripLevel

VARIABLES
    tripped,            \* _trip.tripped
    permittedLast,      \* _pump_permitted_last
    sinceStopped,       \* t_s - _last_denied_t_s; saturated while that is None
    pumpPermitted       \* the pump_permitted of the last decision

interlockVars == <<tripped, permittedLast, sinceStopped, pumpPermitted>>
backstopVars == <<effectiveSetpoint, interlockVars>>

BackstopTypeOK ==
    /\ effectiveSetpoint \in Int
    /\ tripped \in BOOLEAN
    /\ permittedLast \in BOOLEAN
    /\ sinceStopped \in 0..BackstopMinOff
    /\ pumpPermitted \in BOOLEAN

\* A pump that was never stopped may start at once: an age at its limit and
\* "no denial yet" are told apart by no comparison of the code.
BackstopInit ==
    /\ ConstraintInit
    /\ tripped = FALSE
    /\ permittedLast = FALSE
    /\ sinceStopped = BackstopMinOff
    /\ pumpPermitted = FALSE

-----------------------------------------------------------------------------
\* Mutant: the trip latches and never resets.
NextTrippedForever(independentLevel) ==
    tripped \/ independentLevel >= TripLevel

\* BS-03 is latched, with hysteresis, on the independent element.
NextTripped(independentLevel) ==
    \/ tripped /\ independentLevel > ResetLevel
    \/ ~tripped /\ independentLevel >= TripLevel

\* BS-05: a start is refused until the minimum off time has elapsed.
AntiCycleDenies == ~permittedLast /\ sinceStopped < BackstopMinOff

\* Mutants of the decision: BS-03 dropped, BS-03 decided on the trip state from
\* before this reading, BS-04 dropped.
PermitsWithoutTrip(pumpRun, independentLevel, sourceLevel) ==
    pumpRun /\ sourceLevel > SuctionLimit /\ ~AntiCycleDenies

PermitsOnStaleTrip(pumpRun, independentLevel, sourceLevel) ==
    pumpRun /\ ~tripped /\ sourceLevel > SuctionLimit /\ ~AntiCycleDenies

PermitsWithoutSuction(pumpRun, independentLevel, sourceLevel) ==
    pumpRun /\ ~NextTripped(independentLevel) /\ ~AntiCycleDenies

\* The decision of BS-03, BS-04 and BS-05 on a request to run.
Permits(pumpRun, independentLevel, sourceLevel) ==
    /\ pumpRun
    /\ ~NextTripped(independentLevel)
    /\ sourceLevel > SuctionLimit
    /\ ~AntiCycleDenies

\* Mutants of the record: only a refused request counts as a stop, and every
\* refusal restarts the anti-cycle timer.
InterlockRecordingDenials(pumpRun, independentLevel, sourceLevel) ==
    /\ Enabled
    /\ pumpPermitted' = Permits(pumpRun, independentLevel, sourceLevel)
    /\ tripped' = NextTripped(independentLevel)
    /\ permittedLast' = pumpPermitted'
    /\ sinceStopped' = IF pumpRun /\ permittedLast /\ ~pumpPermitted' THEN 0
                       ELSE sinceStopped

InterlockRestartingTimer(pumpRun, independentLevel, sourceLevel) ==
    /\ Enabled
    /\ pumpPermitted' = Permits(pumpRun, independentLevel, sourceLevel)
    /\ tripped' = NextTripped(independentLevel)
    /\ permittedLast' = pumpPermitted'
    /\ sinceStopped' = IF pumpRun /\ ~pumpPermitted' THEN 0 ELSE sinceStopped

InterlockPump(pumpRun, independentLevel, sourceLevel) ==
    /\ Enabled
    /\ pumpPermitted' = Permits(pumpRun, independentLevel, sourceLevel)
    /\ tripped' = NextTripped(independentLevel)
    /\ permittedLast' = pumpPermitted'
    /\ sinceStopped' = IF permittedLast /\ ~pumpPermitted' THEN 0 ELSE sinceStopped

PassThrough(pumpRun) ==
    /\ ~Enabled
    /\ pumpPermitted' = pumpRun
    /\ UNCHANGED <<tripped, permittedLast, sinceStopped>>

EvaluatePermissive(pumpRun, independentLevel, sourceLevel) ==
    \/ InterlockPump(pumpRun, independentLevel, sourceLevel)
    \/ PassThrough(pumpRun)

BackstopTimePasses == sinceStopped' = Older(sinceStopped, BackstopMinOff)
=============================================================================
