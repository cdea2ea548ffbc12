--------------------------- MODULE PumpProtection ---------------------------
(***************************************************************************)
(* What a motor protection promises, whatever asks the motor to run: it    *)
(* never runs while locked out, and once stopped it stays off for at least *)
(* MinOff timesteps before it starts again.  BS-03 and BS-05 of the        *)
(* backstop implement it, and so does the whole scan loop when the         *)
(* backstop is enabled.                                                    *)
(***************************************************************************)
EXTENDS Clock

CONSTANT MinOff

VARIABLES
    motor,      \* is the motor running
    lockout,    \* is the high-level lockout in force
    rest        \* timesteps since the motor last stopped, saturating at MinOff

protectionVars == <<motor, lockout, rest>>

ProtectionInit ==
    /\ motor = FALSE
    /\ lockout = FALSE
    /\ rest = MinOff

MayRun(locked) == ~locked /\ (motor \/ rest >= MinOff)

\* The lockout and the motor change together; the motor only as it may.
Drive ==
    \E run, locked \in BOOLEAN :
        /\ run => MayRun(locked)
        /\ motor' = run
        /\ lockout' = locked
        /\ rest' = IF motor /\ ~run THEN 0 ELSE rest

Cool ==
    /\ rest' = Older(rest, MinOff)
    /\ UNCHANGED <<motor, lockout>>

ProtectionSpec == ProtectionInit /\ [][Drive \/ Cool]_protectionVars
=============================================================================
