--------------------------- MODULE ProcessConfig ---------------------------
(***************************************************************************)
(* The process configuration fields that more than one component reads     *)
(* (configs/process.yaml, blackstart/core/config.py).                      *)
(***************************************************************************)
EXTENDS Clock

CONSTANTS
    SuctionLimit,       \* source.suction_limit_m: the pump and BS-04 read it
    FullOpen,           \* valve position 1.0
    PumpInitiallyOn,    \* pump.initial_state = "on"
    OperatorSetpoint    \* control.operator_setpoint_m

ASSUME SharedConfigAssumption ==
    /\ SuctionLimit \in Nat
    /\ FullOpen \in Nat
    /\ PumpInitiallyOn \in BOOLEAN
    /\ OperatorSetpoint \in Nat \ {0}
=============================================================================
