----------------------------- MODULE MCScanLoop -----------------------------
(***************************************************************************)
(* A small plant for the scan loop: levels in steps of 0..10, a pump that  *)
(* lifts two steps per timestep low in the tank and one near the top, an   *)
(* outlet that drains one or two.  The order of the thresholds is that of  *)
(* the shipped configuration.                                              *)
(***************************************************************************)
EXTENDS ScanLoop

MCPumpCurve == [height \in 0..Overflow |-> IF height <= 7 THEN NominalFlow ELSE 1]

\* Torricelli: nothing through a closed valve or from an empty tank.
MCValveCurve ==
    [position \in 0..FullOpen |->
        [height \in 0..Overflow |->
            IF position = 0 \/ height = 0 THEN 0
            ELSE IF position = FullOpen THEN 2 ELSE 1]]

CONSTANTS Low, Between, High

MCRequests == {Low, Between, High}

\* A transmitter biased low is the one that asks for too much water.
MCBiases == {-3, 0}

\* A bias small enough for the controller to find its band all the same.
MCSmallBiases == {-1, 0}
=============================================================================
