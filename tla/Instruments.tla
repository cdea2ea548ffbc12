---------------------------- MODULE Instruments ----------------------------
(***************************************************************************)
(* What the control system and the backstop see of the process             *)
(* (blackstart/core/physics/sensors.py).  Gaussian noise and the rounding  *)
(* to the resolution of the instrument are one bounded error in level      *)
(* units; the flow meters feed no decision and are left out.               *)
(***************************************************************************)
EXTENDS Clock

CONSTANTS
    TransmitterNoise,   \* largest error of the operator level transmitter
    ElementNoise,       \* largest error of the independent level element
    NoReading           \* the transmitter has not been read yet

ASSUME InstrumentAssumption ==
    /\ TransmitterNoise \in Nat
    /\ ElementNoise \in Nat
    /\ NoReading \notin Nat

VARIABLE lastReported   \* _last_reported_level_m

InstrumentsTypeOK == lastReported \in Nat \cup {NoReading}

InstrumentsInit == lastReported = NoReading

\* Errors a healthy instrument may show.
Errors(noise) == (-noise)..noise

\* A level instrument never reports below zero.
Reading(truth, error) == Greater(0, truth + error)

\* SensorModel.read: a frozen transmitter repeats its last report, otherwise
\* the bias of the fault adds to the error of the instrument.
ReadTransmitter(truth, error, bias, frozen) ==
    lastReported' = IF frozen /\ lastReported # NoReading
                    THEN lastReported
                    ELSE Reading(truth, error + bias)

\* read_independent_element: no fault field reaches it.
IndependentReadings(truth) == {Reading(truth, error) : error \in Errors(ElementNoise)}
=============================================================================
