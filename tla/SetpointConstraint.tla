------------------------- MODULE SetpointConstraint -------------------------
(***************************************************************************)
(* Stage one of the engineering backstop: the absolute clamp BS-01 and the *)
(* slew limit BS-02 on the setpoint, applied before the controller sees it *)
(* (EngineeringBackstop.constrain_setpoint, blackstart/controller/         *)
(* backstop.py).                                                           *)
(***************************************************************************)
EXTENDS ProcessConfig

CONSTANTS
    Enabled,            \* the experiment variant: is the constraint active
    SetpointMin,        \* BS-01
    SetpointMax,        \* BS-01
    MaxTravel           \* BS-02: max_slew_m_s * dt_s

ASSUME ConstraintAssumption ==
    /\ Enabled \in BOOLEAN
    /\ SetpointMin \in Int
    /\ SetpointMax \in Int
    /\ SetpointMin < SetpointMax        \* SetpointBoundInvariant requires it
    /\ MaxTravel \in Nat

\* A hypothesis of the results that need it: the loader does not relate the
\* operator setpoint to the range.
OperatorInRange == OperatorSetpoint \in SetpointMin..SetpointMax

VARIABLE effectiveSetpoint  \* _effective_setpoint_m

ConstraintInit == effectiveSetpoint = OperatorSetpoint

\* Mutant: BS-01 clamps from above only.
ClampedAbove(requested) == Lesser(SetpointMax, requested)

Clamped(requested) == Within(SetpointMin, SetpointMax, requested)

\* BS-01 clamps, BS-02 limits the travel; a disabled backstop passes through.
ConstrainSetpoint(requested) ==
    effectiveSetpoint' =
        IF Enabled THEN Toward(effectiveSetpoint, Clamped(requested), MaxTravel)
                   ELSE requested
=============================================================================
