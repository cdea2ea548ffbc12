--------------------------- MODULE ScanLoopProofs ---------------------------
(***************************************************************************)
(* Proofs about the scan loop, for every plant, timer, threshold, request  *)
(* and fault that satisfies the assumptions of the modules.                *)
(***************************************************************************)
EXTENDS ScanLoop, TLAPS

\* An age stays within the limit it saturates at.
LEMMA AgeBounded ==
    ASSUME NEW limit \in Nat, NEW age \in 0..limit
    PROVE  Older(age, limit) \in 0..limit
BY DEF Older

\* A countdown stays within the interval it was started in.
LEMMA CountdownBounded ==
    ASSUME NEW start \in Nat, NEW ticks \in 0..start
    PROVE  Sooner(ticks) \in 0..start
BY DEF Sooner

\* The valve never leaves its travel: slewing between two positions of an
\* interval stays in the interval.
LEMMA SlewBounded ==
    ASSUME NEW full \in Nat, NEW current \in 0..full, NEW commanded \in Int,
           NEW travel \in Nat
    PROVE  Toward(current, Within(0, full, commanded), travel) \in 0..full
BY DEF Toward, Within, Lesser, Greater

\* What one step of the physics moves: the flows are natural numbers, the
\* outflow is covered by what is in the tank and what arrives.
LEMMA StepFlows ==
    ASSUME ProcessTypeOK, NEW demand \in Nat
    PROVE  /\ PumpInflow \in 0..NominalFlow
           /\ Outflow(demand) \in Nat
           /\ Outflow(demand) <= level + PumpInflow
           /\ RawLevel(demand) \in Nat
<1>1. PumpInflow \in 0..NominalFlow
  BY ProcessAssumption, SharedConfigAssumption DEF ProcessTypeOK, PumpInflow
<1>2. ValveCapacity \in Nat
  BY ProcessAssumption DEF ProcessTypeOK, ValveCapacity
<1>3. level \in Nat
  BY ProcessAssumption DEF ProcessTypeOK
<1> QED
  BY <1>1, <1>2, <1>3, ProcessAssumption DEF Outflow, RawLevel, Lesser, Greater

\* A step of the physics keeps the truth well typed.
LEMMA StepTyped ==
    ASSUME ProcessTypeOK, NEW demand \in Nat, StepProcess(demand)
    PROVE  ProcessTypeOK'
<1>1. /\ PumpInflow \in 0..NominalFlow
      /\ Outflow(demand) \in Nat
      /\ RawLevel(demand) \in Nat
  BY StepFlows
<1>2. level' \in 0..Overflow
  BY <1>1, ProcessAssumption DEF StepProcess, Within, Lesser, Greater
<1>3. flows' \in Flows
  BY <1>1, ProcessAssumption DEF StepProcess, Flows, Greater
<1> QED
  BY <1>2, <1>3 DEF StepProcess, ProcessTypeOK

\* What the scanner returns is a control request once it has run.
LEMMA ExecuteTyped ==
    ASSUME ControllerTypeOK, NEW reading \in Int, NEW setpoint \in Int,
           Execute(reading, setpoint)
    PROVE  ControllerTypeOK' /\ held' \in ControlRequest
<1>1. CASE ScanDue /\ Scan(reading, setpoint) /\ untilScan' = ScanTicks
  <2>1. running' \in BOOLEAN
    BY <1>1, Zenon DEF Scan
  <2>2. reserve' \in BOOLEAN
    BY <1>1, Zenon DEF Scan, NextReserve
  <2>3. held' \in ControlRequest
    BY <1>1, <2>1 DEF Scan, ControlRequest
  <2>4. sinceStart' \in 0..MinRun /\ sinceStop' \in 0..MinOffControl
    BY <1>1, ControllerAssumption DEF Scan, ControllerTypeOK
  <2>5. untilScan' \in 0..ScanTicks
    BY <1>1, ControllerAssumption
  <2> QED
    BY <2>1, <2>2, <2>3, <2>4, <2>5 DEF ControllerTypeOK
<1>2. CASE ~ScanDue /\ HoldOutputs(setpoint)
  <2>1. held \in ControlRequest
    BY <1>2 DEF ScanDue, ControllerTypeOK
  <2>2. held' \in ControlRequest
    BY <1>2, <2>1 DEF HoldOutputs, ControlRequest
  <2> QED
    BY <1>2, <2>2 DEF HoldOutputs, ControllerTypeOK, beliefVars
<1> QED
  BY <1>1, <1>2 DEF Execute

\* The second stage of the backstop keeps its state well typed.
LEMMA PermissiveTyped ==
    ASSUME BackstopTypeOK, NEW pumpRun \in BOOLEAN, NEW reading \in Int,
           NEW suction \in Int, EvaluatePermissive(pumpRun, reading, suction)
    PROVE  /\ tripped' \in BOOLEAN
           /\ permittedLast' \in BOOLEAN
           /\ sinceStopped' \in 0..BackstopMinOff
           /\ pumpPermitted' \in BOOLEAN
<1>1. CASE InterlockPump(pumpRun, reading, suction)
  <2>1. pumpPermitted' \in BOOLEAN /\ permittedLast' \in BOOLEAN
    BY <1>1, Zenon DEF InterlockPump, Permits
  <2>2. tripped' \in BOOLEAN
    BY <1>1, Zenon DEF InterlockPump, NextTripped
  <2>3. sinceStopped' \in 0..BackstopMinOff
    BY <1>1, BackstopAssumption DEF InterlockPump, BackstopTypeOK
  <2> QED
    BY <2>1, <2>2, <2>3
<1>2. CASE PassThrough(pumpRun)
  BY <1>2 DEF PassThrough, BackstopTypeOK
<1> QED
  BY <1>1, <1>2 DEF EvaluatePermissive

-----------------------------------------------------------------------------
(***************************************************************************)
(* The inductive form of the type invariant adds what the phases establish:*)
(* the transmitter has been read and a request is held once the command    *)
(* phase of the first timestep is over.                                    *)
(***************************************************************************)
TypeInv ==
    /\ TypeOK
    /\ pc # "command" => held \in ControlRequest /\ lastReported \in Nat

\* The command phase: instruments, stage one and the scan.
LEMMA CommandTyped ==
    ASSUME TypeInv,
           NEW requested \in Requests, NEW error \in Errors(TransmitterNoise),
           NEW bias \in Biases, NEW frozen \in Freezes,
           Command(requested, error, bias, frozen)
    PROVE  TypeInv'
<1>1. requested \in Int /\ error \in Int /\ bias \in Int
  BY LoopAssumption, InstrumentAssumption DEF Errors
<1>2. lastReported' \in Nat
  BY <1>1, ProcessAssumption
  DEF Command, ReadTransmitter, Reading, Greater, TypeInv, TypeOK,
      InstrumentsTypeOK, ProcessTypeOK
<1>3. effectiveSetpoint' \in Int
  BY <1>1, ConstraintAssumption
  DEF Command, ConstrainSetpoint, Toward, Clamped, Within, Lesser, Greater,
      TypeInv, TypeOK, BackstopTypeOK
<1>4. ControllerTypeOK' /\ held' \in ControlRequest
  BY <1>2, <1>3, ExecuteTyped DEF Command, TypeInv, TypeOK
<1>5. ProcessTypeOK'
  BY LoopAssumption DEF Command, TypeInv, TypeOK, ProcessTypeOK
<1>6. BackstopTypeOK'
  BY <1>3 DEF Command, TypeInv, TypeOK, BackstopTypeOK, interlockVars
<1> QED
  BY <1>2, <1>4, <1>5, <1>6 DEF Command, TypeInv, TypeOK, InstrumentsTypeOK

\* The interlock phase: stage two, the notification and the actuators.
LEMMA InterlockTyped ==
    ASSUME TypeInv, NEW reading \in IndependentReadings(level), Interlock(reading)
    PROVE  TypeInv'
<1>1. reading \in Int
  BY InstrumentAssumption, ProcessAssumption
  DEF IndependentReadings, Reading, Errors, Greater, TypeInv, TypeOK, ProcessTypeOK
<1>2. held \in ControlRequest
  BY DEF Interlock, TypeInv
<1>3. BackstopTypeOK'
  <2>1. source \in Int
    BY DEF TypeInv, TypeOK, ProcessTypeOK
  <2> QED
    BY <1>1, <1>2, <2>1, PermissiveTyped
    DEF Interlock, TypeInv, TypeOK, BackstopTypeOK, ControlRequest
<1>4. ControllerTypeOK'
  <2>1. /\ running \in BOOLEAN
        /\ sinceStart \in 0..MinRun
        /\ sinceStop \in 0..MinOffControl
    BY DEF TypeInv, TypeOK, ControllerTypeOK
  <2>2. /\ running' \in BOOLEAN
        /\ sinceStart' \in 0..MinRun
        /\ sinceStop' \in 0..MinOffControl
    <3>1. CASE NotifyPumpDenied
      <4>1. running' \in BOOLEAN
        BY <3>1 DEF NotifyPumpDenied
      <4> QED
        BY <2>1, <3>1, <4>1, ControllerAssumption DEF NotifyPumpDenied
    <3>2. CASE UNCHANGED beliefVars
      BY <2>1, <3>2 DEF beliefVars
    <3> QED
      BY <3>1, <3>2 DEF Interlock
  <2> QED
    BY <2>2 DEF Interlock, TypeInv, TypeOK, ControllerTypeOK
<1>5. ProcessTypeOK'
  <2>1. valve' \in 0..FullOpen
    <3>1. held.valvePosition \in {Throttled, FullOpen}
      BY <1>2 DEF ControlRequest
    <3>2. held.valvePosition \in Int /\ FullOpen \in Nat /\ ValveTravel \in Nat
      BY <3>1, ProcessAssumption, SharedConfigAssumption, ControllerAssumption
    <3>3. valve \in 0..FullOpen
      BY DEF TypeInv, TypeOK, ProcessTypeOK
    <3> QED
      BY <3>2, <3>3, SlewBounded DEF Interlock, SlewValve
  <2> QED
    BY <1>3, <2>1 DEF Interlock, TypeInv, TypeOK, ProcessTypeOK, BackstopTypeOK
<1> QED
  BY <1>2, <1>3, <1>4, <1>5 DEF Interlock, TypeInv, TypeOK, InstrumentsTypeOK

\* The integrate phase: the physics and every clock.
LEMMA IntegrateTyped ==
    ASSUME TypeInv, NEW demand \in Demands, Integrate(demand)
    PROVE  TypeInv'
<1>1. ProcessTypeOK'
  BY StepTyped, LoopAssumption DEF Integrate, TypeInv, TypeOK
<1>2. BackstopTypeOK'
  BY AgeBounded, BackstopAssumption
  DEF Integrate, BackstopTimePasses, TypeInv, TypeOK, BackstopTypeOK
<1>3. ControllerTypeOK'
  BY AgeBounded, CountdownBounded, ControllerAssumption
  DEF Integrate, ControllerTimePasses, TypeInv, TypeOK, ControllerTypeOK
<1> QED
  BY <1>1, <1>2, <1>3 DEF Integrate, TypeInv, TypeOK, InstrumentsTypeOK

\* Every initial state is well typed.
LEMMA InitTyped == Init => TypeInv
<1> SUFFICES ASSUME Init PROVE TypeInv
  OBVIOUS
<1>1. BackstopTypeOK
  <2>1. effectiveSetpoint \in Int /\ sinceStopped \in 0..BackstopMinOff
    BY BackstopAssumption, SharedConfigAssumption DEF Init, BackstopInit, ConstraintInit
  <2>2. {tripped, permittedLast, pumpPermitted} \subseteq BOOLEAN
    BY DEF Init, BackstopInit
  <2> QED
    BY <2>1, <2>2 DEF BackstopTypeOK
<1>2. ControllerTypeOK
  <2>1. /\ sinceStart \in 0..MinRun
        /\ sinceStop \in 0..MinOffControl
        /\ untilScan \in 0..ScanTicks
    BY ControllerAssumption DEF Init, ControllerInit
  <2>2. {running, reserve} \subseteq BOOLEAN
    BY SharedConfigAssumption DEF Init, ControllerInit
  <2>3. held \in {NoRequest}
    BY DEF Init, ControllerInit
  <2> QED
    BY <2>1, <2>2, <2>3 DEF ControllerTypeOK
<1>3. ProcessTypeOK
  BY ProcessAssumption, SharedConfigAssumption DEF Init, ProcessInit, ProcessTypeOK, Flows
<1> QED
  BY <1>1, <1>2, <1>3 DEF Init, InstrumentsInit, InstrumentsTypeOK, TypeInv, TypeOK

\* A stuttering step leaves every variable typed.
LEMMA StutterTyped ==
    ASSUME TypeInv, UNCHANGED vars
    PROVE  TypeInv'
BY DEF TypeInv, TypeOK, BackstopTypeOK, ControllerTypeOK, ProcessTypeOK, InstrumentsTypeOK,
       vars, backstopVars, interlockVars, controllerVars, beliefVars, processVars

\* Every step keeps the state well typed: the inductive step of TypeCorrect.
LEMMA NextTyped == TypeInv /\ [Next]_vars => TypeInv'
BY CommandTyped, InterlockTyped, IntegrateTyped, StutterTyped DEF Next

\* Every state of an experiment is well typed, and past the first command phase
\* there is a held request and a reported level.
THEOREM TypeCorrect == Spec => [](TypeInv /\ TypeOK)
<1>1. TypeInv => TypeOK
  BY DEF TypeInv
<1> QED
  BY <1>1, InitTyped, NextTyped, PTL DEF Spec

-----------------------------------------------------------------------------
(***************************************************************************)
(* INV-001 with the backstop enabled.  The level alone is not inductive:   *)
(* what holds it is that an energised motor means the element read below   *)
(* the trip level in this very timestep, so the truth is at most           *)
(* ElementNoise higher and one step of the pump adds at most NominalFlow.  *)
(* Nothing about the controller, the transmitter or the request is used.   *)
(***************************************************************************)
SafeInv == LevelStaysSafe /\ EnergisedOnlyBelowTrip

\* The permissive is given only on a reading below the trip level, the latched
\* trip included, because the reset level lies below the trip level.
LEMMA PermitsBelowTrip ==
    ASSUME OrderedTrip, NEW pumpRun \in BOOLEAN, NEW reading \in Int,
           NEW suction \in Int, Permits(pumpRun, reading, suction)
    PROVE  reading < TripLevel
<1>1. CASE tripped
  BY <1>1, BackstopAssumption DEF Permits, NextTripped, OrderedTrip
<1>2. CASE ~tripped
  BY <1>2, BackstopAssumption DEF Permits, NextTripped
<1> QED
  BY <1>1, <1>2

\* A motor that the interlock phase leaves energised is below the trip level by
\* the element, so below it by the element error in truth.
LEMMA InterlockBelowTrip ==
    ASSUME Enabled, OrderedTrip, TypeInv,
           NEW reading \in IndependentReadings(level), Interlock(reading)
    PROVE  energised' => level < TripLevel + ElementNoise
<1>1. /\ reading \in Int
      /\ level - ElementNoise <= reading
  BY InstrumentAssumption, ProcessAssumption
  DEF IndependentReadings, Reading, Errors, Greater, TypeInv, TypeOK, ProcessTypeOK
<1>2. held.pumpRun \in BOOLEAN /\ source \in Int
  BY DEF Interlock, TypeInv, TypeOK, ProcessTypeOK, ControlRequest
<1>3. energised' <=> Permits(held.pumpRun, reading, source)
  BY DEF Interlock, EvaluatePermissive, InterlockPump, PassThrough
<1>4. energised' => reading < TripLevel
  BY <1>1, <1>2, <1>3, PermitsBelowTrip
<1> QED
  BY <1>1, <1>4, InstrumentAssumption, ProcessAssumption, BackstopAssumption
  DEF TypeInv, TypeOK, ProcessTypeOK

\* The interlock phase keeps SafeInv.
LEMMA InterlockSafe ==
    ASSUME Enabled, OrderedTrip, TypeInv, SafeInv,
           NEW reading \in IndependentReadings(level), Interlock(reading)
    PROVE  SafeInv'
BY InterlockBelowTrip DEF SafeInv, LevelStaysSafe, EnergisedOnlyBelowTrip, Interlock

\* The integrate phase keeps SafeInv: from below the trip level one timestep of
\* inflow cannot pass the safe limit, and without inflow the level cannot rise.
LEMMA IntegrateSafe ==
    ASSUME TripMargin, TypeInv, SafeInv, NEW demand \in Demands, Integrate(demand)
    PROVE  SafeInv'
<1>1. /\ PumpInflow \in 0..NominalFlow
      /\ Outflow(demand) \in Nat
      /\ RawLevel(demand) \in Nat
  BY StepFlows, LoopAssumption DEF TypeInv, TypeOK
<1>2. level \in Nat /\ level <= SafeLimit
  BY ProcessAssumption DEF TypeInv, TypeOK, ProcessTypeOK, SafeInv, LevelStaysSafe
<1>3. RawLevel(demand) <= SafeLimit
  <2>1. CASE energised
    <3>1. level < TripLevel + ElementNoise
      BY <2>1 DEF Integrate, SafeInv, EnergisedOnlyBelowTrip
    <3> QED
      BY <1>1, <1>2, <3>1, BackstopAssumption, InstrumentAssumption, LoopAssumption,
         ProcessAssumption
      DEF RawLevel, TripMargin
  <2>2. CASE ~energised
    BY <1>1, <1>2, <2>2, LoopAssumption DEF RawLevel, PumpInflow
  <2> QED
    BY <2>1, <2>2
<1>4. level' <= SafeLimit /\ flows'.spill = 0
  BY <1>1, <1>3, LoopAssumption, LoaderAssumption, ProcessAssumption
  DEF SafeLimitBelowOverflow, Integrate, StepProcess, Within, Lesser, Greater
<1> QED
  BY <1>4 DEF SafeInv, LevelStaysSafe, EnergisedOnlyBelowTrip, Integrate

\* Every step keeps SafeInv: the inductive step of LevelSafety.
LEMMA NextSafe ==
    ASSUME Enabled, OrderedTrip, TripMargin
    PROVE  TypeInv /\ SafeInv /\ [Next]_vars => SafeInv'
<1> SUFFICES ASSUME TypeInv, SafeInv, [Next]_vars PROVE SafeInv'
  OBVIOUS
<1>1. ASSUME NEW requested \in Requests, NEW error \in Errors(TransmitterNoise),
             NEW bias \in Biases, NEW frozen \in Freezes,
             Command(requested, error, bias, frozen)
      PROVE  SafeInv'
  BY <1>1 DEF Command, SafeInv, LevelStaysSafe, EnergisedOnlyBelowTrip
<1>2. CASE UNCHANGED vars
  BY <1>2 DEF vars, processVars, SafeInv, LevelStaysSafe, EnergisedOnlyBelowTrip
<1> QED
  BY <1>1, <1>2, InterlockSafe, IntegrateSafe DEF Next

\* With the backstop enabled, an ordered trip and the margin of one step, no
\* setpoint request, transmitter fault, source level or demand brings the true
\* level above the INV-001 limit or makes the tank spill.
THEOREM LevelSafety ==
    ASSUME Enabled, OrderedTrip, TripMargin, InitiallySafe
    PROVE  Spec => [](LevelStaysSafe /\ EnergisedOnlyBelowTrip)
<1>1. Init => SafeInv
  BY DEF Init, ProcessInit, InitiallySafe, SafeInv, LevelStaysSafe, EnergisedOnlyBelowTrip
<1>2. SafeInv => LevelStaysSafe /\ EnergisedOnlyBelowTrip
  BY DEF SafeInv
<1>3. TypeInv /\ SafeInv /\ [Next]_vars => SafeInv'
  BY NextSafe
<1> QED
  BY <1>1, <1>2, <1>3, TypeCorrect, PTL DEF Spec

\* The trip alone is enough for this: wherever the level began and however much a
\* step may add, the motor runs only when the truth is at most the element error
\* above the trip level.
THEOREM TripIsHeeded ==
    ASSUME Enabled, OrderedTrip
    PROVE  Spec => []EnergisedOnlyBelowTrip
<1>1. Init => EnergisedOnlyBelowTrip
  BY DEF Init, EnergisedOnlyBelowTrip
<1>2. TypeInv /\ EnergisedOnlyBelowTrip /\ [Next]_vars => EnergisedOnlyBelowTrip'
  <2> SUFFICES ASSUME TypeInv, EnergisedOnlyBelowTrip, [Next]_vars
               PROVE  EnergisedOnlyBelowTrip'
    OBVIOUS
  <2>1. ASSUME NEW requested \in Requests, NEW error \in Errors(TransmitterNoise),
               NEW bias \in Biases, NEW frozen \in Freezes,
               Command(requested, error, bias, frozen)
        PROVE  EnergisedOnlyBelowTrip'
    BY <2>1 DEF Command, EnergisedOnlyBelowTrip
  <2>2. ASSUME NEW reading \in IndependentReadings(level), Interlock(reading)
        PROVE  EnergisedOnlyBelowTrip'
    BY <2>2, InterlockBelowTrip DEF Interlock, EnergisedOnlyBelowTrip
  <2>3. ASSUME NEW demand \in Demands, Integrate(demand)
        PROVE  EnergisedOnlyBelowTrip'
    BY <2>3 DEF Integrate, EnergisedOnlyBelowTrip
  <2>4. CASE UNCHANGED vars
    BY <2>4 DEF vars, processVars, EnergisedOnlyBelowTrip
  <2> QED
    BY <2>1, <2>2, <2>3, <2>4 DEF Next
<1> QED
  BY <1>1, <1>2, TypeCorrect, PTL DEF Spec

-----------------------------------------------------------------------------
\* BS-01 through BS-02.  The travel starts inside the range and both its ends
\* are inside, so every point of it is.
LEMMA TravelStaysWithin ==
    ASSUME NEW low \in Int, NEW high \in Int, low <= high,
           NEW current \in low..high, NEW requested \in Int, NEW travel \in Nat
    PROVE  Toward(current, Within(low, high, requested), travel) \in low..high
BY DEF Toward, Within, Lesser, Greater

\* With the backstop enabled and the operator setpoint inside the BS-01 range,
\* the controller never acts on a setpoint outside it.
THEOREM SetpointSafety ==
    ASSUME Enabled, OperatorInRange
    PROVE  Spec => []EffectiveSetpointInRange
<1> DEFINE InRange == effectiveSetpoint \in SetpointMin..SetpointMax
<1>1. Init => InRange
  BY DEF Init, BackstopInit, ConstraintInit, OperatorInRange
<1>2. InRange /\ [Next]_vars => InRange'
  <2> SUFFICES ASSUME InRange, [Next]_vars PROVE InRange'
    OBVIOUS
  <2>1. ASSUME NEW requested \in Requests, NEW error \in Errors(TransmitterNoise),
               NEW bias \in Biases, NEW frozen \in Freezes,
               Command(requested, error, bias, frozen)
        PROVE  InRange'
    <3>1. requested \in Int
      BY LoopAssumption
    <3>2. /\ {SetpointMin, SetpointMax} \subseteq Int
          /\ SetpointMin <= SetpointMax
          /\ MaxTravel \in Nat
      BY ConstraintAssumption
    <3>3. effectiveSetpoint' =
              Toward(effectiveSetpoint, Within(SetpointMin, SetpointMax, requested), MaxTravel)
      BY <2>1 DEF Command, ConstrainSetpoint, Clamped
    <3> QED
      BY <3>1, <3>2, <3>3, TravelStaysWithin
  <2>2. ASSUME NEW reading \in IndependentReadings(level), Interlock(reading)
        PROVE  InRange'
    BY <2>2 DEF Interlock
  <2>3. ASSUME NEW demand \in Demands, Integrate(demand)
        PROVE  InRange'
    BY <2>3 DEF Integrate
  <2>4. CASE UNCHANGED vars
    BY <2>4 DEF vars, backstopVars
  <2> QED
    BY <2>1, <2>2, <2>3, <2>4 DEF Next
<1>3. InRange => EffectiveSetpointInRange
  BY DEF EffectiveSetpointInRange
<1> QED
  BY <1>1, <1>2, <1>3, PTL DEF Spec

-----------------------------------------------------------------------------
\* BS-04: over the timestep it runs in, an energised pump has suction.
THEOREM SuctionSafety ==
    ASSUME Enabled
    PROVE  Spec => []NeverRunsDry
<1>1. Init => NeverRunsDry
  BY DEF Init, NeverRunsDry
<1>2. NeverRunsDry /\ [Next]_vars => NeverRunsDry'
  <2> SUFFICES ASSUME NeverRunsDry, [Next]_vars PROVE NeverRunsDry'
    OBVIOUS
  <2>1. ASSUME NEW requested \in Requests, NEW error \in Errors(TransmitterNoise),
               NEW bias \in Biases, NEW frozen \in Freezes,
               Command(requested, error, bias, frozen)
        PROVE  NeverRunsDry'
    BY <2>1 DEF Command, NeverRunsDry
  <2>2. ASSUME NEW reading \in IndependentReadings(level), Interlock(reading)
        PROVE  NeverRunsDry'
    BY <2>2 DEF Interlock, NeverRunsDry, EvaluatePermissive, InterlockPump, PassThrough, Permits
  <2>3. ASSUME NEW demand \in Demands, Integrate(demand)
        PROVE  NeverRunsDry'
    BY <2>3 DEF Integrate, NeverRunsDry
  <2>4. CASE UNCHANGED vars
    BY <2>4 DEF vars, processVars, NeverRunsDry
  <2> QED
    BY <2>1, <2>2, <2>3, <2>4 DEF Next
<1> QED
  BY <1>1, <1>2, PTL DEF Spec

-----------------------------------------------------------------------------
(***************************************************************************)
(* The loop implements the abstract motor protection.  The backstop keeps  *)
(* its own record of the motor, permittedLast; the refinement needs that   *)
(* record to be the motor, which is why a pump that is on before the first *)
(* timestep is excluded.                                                   *)
(***************************************************************************)
RecordInv == energised = permittedLast /\ permittedLast = pumpPermitted

\* The interlock phase is a Drive step of the motor protection.
LEMMA InterlockDrives ==
    ASSUME Enabled, TypeInv, RecordInv, NEW reading \in IndependentReadings(level),
           Interlock(reading)
    PROVE  RecordInv' /\ MotorProtection!Drive
<1>1. /\ energised' = pumpPermitted'
      /\ permittedLast' = pumpPermitted'
      /\ sinceStopped' = IF energised /\ ~energised' THEN 0 ELSE sinceStopped
      /\ tripped' = NextTripped(reading)
      /\ pumpPermitted' = Permits(held.pumpRun, reading, source)
  BY DEF Interlock, EvaluatePermissive, InterlockPump, PassThrough, RecordInv
<1>2. energised' \in BOOLEAN /\ tripped' \in BOOLEAN
  BY <1>1, Zenon DEF Permits, NextTripped
<1>3. energised' => MotorProtection!MayRun(tripped')
  <2>1. ~AntiCycleDenies => permittedLast \/ sinceStopped >= BackstopMinOff
    BY BackstopAssumption DEF AntiCycleDenies, TypeInv, TypeOK, BackstopTypeOK
  <2> QED
    BY <1>1, <2>1, Zenon DEF RecordInv, Permits, MotorProtection!MayRun
<1> QED
  BY <1>1, <1>2, <1>3 DEF RecordInv, MotorProtection!Drive

\* The integrate phase is a Cool step of the motor protection.
LEMMA IntegrateCools ==
    ASSUME RecordInv, NEW demand \in Demands, Integrate(demand)
    PROVE  RecordInv' /\ MotorProtection!Cool
BY DEF Integrate, StepProcess, BackstopTimePasses, RecordInv, MotorProtection!Cool,
       MotorProtection!Older, Older

\* The command phase is a stutter of the motor protection.
LEMMA CommandLeavesMotor ==
    ASSUME RecordInv,
           NEW requested \in Requests, NEW error \in Errors(TransmitterNoise),
           NEW bias \in Biases, NEW frozen \in Freezes,
           Command(requested, error, bias, frozen)
    PROVE  RecordInv' /\ UNCHANGED MotorProtection!protectionVars
BY DEF Command, interlockVars, RecordInv, MotorProtection!protectionVars

\* The scan loop with the backstop enabled and the pump off at the start
\* implements the abstract motor protection: locked out while tripped, and at
\* rest for the minimum off time between a stop and the next start.
THEOREM MotorProtected ==
    ASSUME Enabled, PumpInitiallyOn = FALSE
    PROVE  Spec => MotorIsProtected
<1>1. Init => RecordInv /\ MotorProtection!ProtectionInit
  BY DEF Init, BackstopInit, ProcessInit, RecordInv, MotorProtection!ProtectionInit
<1>2. TypeInv /\ RecordInv /\ [Next]_vars
        => RecordInv' /\ [MotorProtection!Drive \/ MotorProtection!Cool]_(MotorProtection!protectionVars)
  <2> SUFFICES ASSUME TypeInv, RecordInv, [Next]_vars
               PROVE  /\ RecordInv'
                      /\ [MotorProtection!Drive \/ MotorProtection!Cool]_(MotorProtection!protectionVars)
    OBVIOUS
  <2>1. CASE UNCHANGED vars
    BY <2>1 DEF vars, backstopVars, interlockVars, processVars, RecordInv,
                MotorProtection!protectionVars
  <2> QED
    BY <2>1, InterlockDrives, IntegrateCools, CommandLeavesMotor DEF Next
<1> QED
  BY <1>1, <1>2, TypeCorrect, PTL DEF Spec, MotorIsProtected, MotorProtection!ProtectionSpec

-----------------------------------------------------------------------------
(***************************************************************************)
(* The controller keeps the same promise for its own command, with or      *)
(* without the backstop.                                                   *)
(***************************************************************************)
\* A scan is a Drive step of the protection of the commanded pump.
LEMMA ScanCommands ==
    ASSUME TypeInv, NEW reading \in Int, NEW setpoint \in Int, Scan(reading, setpoint)
    PROVE  CommandProtection!Drive
<1>1. running' \in BOOLEAN
  BY Zenon DEF Scan
<1>2. sinceStop' = IF running /\ ~running' THEN 0 ELSE sinceStop
  BY DEF Scan, ShouldStop, ShouldStart
<1>3. running' => running \/ sinceStop >= MinOffControl
  BY DEF Scan, ShouldStart
<1>4. running' => CommandProtection!MayRun(FALSE)
  BY <1>3, Zenon DEF CommandProtection!MayRun
<1> QED
  BY <1>1, <1>2, <1>4 DEF CommandProtection!Drive

\* So is the command phase, whether it scans or holds.
LEMMA CommandCommands ==
    ASSUME TypeInv,
           NEW requested \in Requests, NEW error \in Errors(TransmitterNoise),
           NEW bias \in Biases, NEW frozen \in Freezes,
           Command(requested, error, bias, frozen)
    PROVE  CommandProtection!Drive \/ UNCHANGED CommandProtection!protectionVars
<1>1. lastReported' \in Int /\ effectiveSetpoint' \in Int
  BY CommandTyped DEF Command, TypeInv, TypeOK, BackstopTypeOK
<1>2. CASE ScanDue /\ Scan(lastReported', effectiveSetpoint') /\ untilScan' = ScanTicks
  BY <1>1, <1>2, ScanCommands
<1>3. CASE ~ScanDue /\ HoldOutputs(effectiveSetpoint')
  BY <1>3 DEF HoldOutputs, beliefVars, CommandProtection!protectionVars
<1> QED
  BY <1>2, <1>3 DEF Command, Execute

\* A denial notified to the controller is a Drive step too: it is a stop.
LEMMA InterlockCommands ==
    ASSUME NEW reading \in IndependentReadings(level), Interlock(reading)
    PROVE  CommandProtection!Drive \/ UNCHANGED CommandProtection!protectionVars
<1>1. CASE NotifyPumpDenied
  BY <1>1 DEF NotifyPumpDenied, CommandProtection!Drive
<1>2. CASE UNCHANGED beliefVars
  BY <1>2 DEF beliefVars, CommandProtection!protectionVars
<1> QED
  BY <1>1, <1>2 DEF Interlock

\* What the controller commands is at rest for its own minimum off time between
\* a stop and the next start, a denial by the backstop counting as a stop.
THEOREM CommandProtected ==
    ASSUME PumpInitiallyOn = FALSE
    PROVE  Spec => CommandIsProtected
<1>1. Init => CommandProtection!ProtectionInit
  BY DEF Init, ControllerInit, CommandProtection!ProtectionInit
<1>2. TypeInv /\ [Next]_vars
        => [CommandProtection!Drive \/ CommandProtection!Cool]_(CommandProtection!protectionVars)
  <2> SUFFICES ASSUME TypeInv, [Next]_vars
               PROVE  [CommandProtection!Drive \/ CommandProtection!Cool]_(CommandProtection!protectionVars)
    OBVIOUS
  <2>1. ASSUME NEW demand \in Demands, Integrate(demand)
        PROVE  CommandProtection!Cool
    BY <2>1 DEF Integrate, ControllerTimePasses, CommandProtection!Cool,
                CommandProtection!Older, Older
  <2>2. CASE UNCHANGED vars
    BY <2>2 DEF vars, controllerVars, beliefVars, CommandProtection!protectionVars
  <2> QED
    BY <2>1, <2>2, CommandCommands, InterlockCommands DEF Next
<1> QED
  BY <1>1, <1>2, TypeCorrect, PTL DEF Spec, CommandIsProtected, CommandProtection!ProtectionSpec

-----------------------------------------------------------------------------
(***************************************************************************)
(* A request is only ever withdrawn from the belief: what the controller   *)
(* believes running is what the held request asks for, and a permissive    *)
(* that is refused takes the belief with it.                               *)
(***************************************************************************)
DenialInv ==
    /\ held # NoRequest /\ running => held.pumpRun
    /\ pc # "interlock" /\ running => energised

\* A scan forms the request from the belief; between scans both are left alone.
LEMMA CommandBelieves ==
    ASSUME TypeInv,
           NEW requested \in Requests, NEW error \in Errors(TransmitterNoise),
           NEW bias \in Biases, NEW frozen \in Freezes,
           Command(requested, error, bias, frozen)
    PROVE  \/ held'.pumpRun = running'
           \/ held # NoRequest /\ held'.pumpRun = held.pumpRun /\ running' = running
<1>1. CASE ScanDue /\ Scan(lastReported', effectiveSetpoint') /\ untilScan' = ScanTicks
  BY <1>1 DEF Scan
<1>2. CASE ~ScanDue /\ HoldOutputs(effectiveSetpoint')
  <2>1. held \in ControlRequest /\ held # NoRequest
    BY <1>2 DEF ScanDue, TypeInv, TypeOK, ControllerTypeOK
  <2> QED
    BY <1>2, <2>1 DEF HoldOutputs, ControlRequest, beliefVars
<1> QED
  BY <1>1, <1>2 DEF Command, Execute

\* A request that is refused is no longer believed; one that is granted runs.
LEMMA InterlockDenies ==
    ASSUME TypeInv, DenialInv,
           NEW reading \in IndependentReadings(level), Interlock(reading)
    PROVE  DenialInv'
<1>1. held # NoRequest /\ held' = held /\ energised' = pumpPermitted'
  BY NoRequestAssumption DEF Interlock, TypeInv
<1>2. CASE held.pumpRun /\ ~pumpPermitted' /\ NotifyPumpDenied
  BY <1>2 DEF NotifyPumpDenied, DenialInv
<1>3. CASE ~(held.pumpRun /\ ~pumpPermitted') /\ UNCHANGED beliefVars
  BY <1>1, <1>3 DEF DenialInv, beliefVars
<1> QED
  BY <1>2, <1>3 DEF Interlock

\* Whatever the backstop refuses and whenever, no timestep ends with the controller
\* believing that a pump runs which does not.
THEOREM DenialsReachTheBelief == Spec => []DenialsAreBelieved
<1>1. Init => DenialInv
  BY DEF Init, ControllerInit, ProcessInit, DenialInv
<1>2. TypeInv /\ DenialInv /\ [Next]_vars => DenialInv'
  <2> SUFFICES ASSUME TypeInv, DenialInv, [Next]_vars PROVE DenialInv'
    OBVIOUS
  <2>1. ASSUME NEW requested \in Requests, NEW error \in Errors(TransmitterNoise),
               NEW bias \in Biases, NEW frozen \in Freezes,
               Command(requested, error, bias, frozen)
        PROVE  DenialInv'
    BY <2>1, CommandBelieves DEF Command, DenialInv
  <2>2. ASSUME NEW demand \in Demands, Integrate(demand)
        PROVE  DenialInv'
    BY <2>2 DEF Integrate, StepProcess, ControllerTimePasses, DenialInv
  <2>3. CASE UNCHANGED vars
    BY <2>3 DEF vars, controllerVars, beliefVars, processVars, DenialInv
  <2> QED
    BY <2>1, <2>2, <2>3, InterlockDenies DEF Next
<1>3. DenialInv => DenialsAreBelieved
  BY DEF DenialInv, DenialsAreBelieved
<1> QED
  BY <1>1, <1>2, <1>3, TypeCorrect, PTL DEF Spec

(***************************************************************************)
(* Without the backstop the request is the belief and the motor follows    *)
(* it: the request held between scans is the one the last scan formed from *)
(* the belief, and nothing else changes either.  With the backstop this is *)
(* false (run ScanLoopBelief): a start it refuses in the timesteps between *)
(* two scans is a request that outlives the belief.                        *)
(***************************************************************************)
BeliefInv ==
    /\ held # NoRequest => held.pumpRun = running
    /\ pc # "interlock" => energised = running

\* The interlock phase passes the request on, and there is no denial to notify.
LEMMA InterlockBelieves ==
    ASSUME ~Enabled, TypeInv, BeliefInv,
           NEW reading \in IndependentReadings(level), Interlock(reading)
    PROVE  BeliefInv'
<1>1. held \in ControlRequest /\ held # NoRequest /\ held' = held
  BY NoRequestAssumption DEF Interlock, TypeInv
<1>2. pumpPermitted' = held.pumpRun
  BY DEF Interlock, EvaluatePermissive, InterlockPump, PassThrough
<1>3. running' = running
  BY <1>2 DEF Interlock, beliefVars
<1>4. energised' = held.pumpRun
  BY <1>2 DEF Interlock
<1> QED
  BY <1>1, <1>3, <1>4 DEF BeliefInv

\* With the backstop disabled the motor is what the controller believes it to be,
\* however long the request has been held.
THEOREM BeliefIsTheMotor ==
    ASSUME ~Enabled
    PROVE  Spec => []MotorFollowsBelief
<1>1. Init => BeliefInv
  BY DEF Init, ControllerInit, ProcessInit, BeliefInv
<1>2. TypeInv /\ BeliefInv /\ [Next]_vars => BeliefInv'
  <2> SUFFICES ASSUME TypeInv, BeliefInv, [Next]_vars PROVE BeliefInv'
    OBVIOUS
  <2>1. ASSUME NEW requested \in Requests, NEW error \in Errors(TransmitterNoise),
               NEW bias \in Biases, NEW frozen \in Freezes,
               Command(requested, error, bias, frozen)
        PROVE  BeliefInv'
    BY <2>1, CommandBelieves DEF Command, BeliefInv
  <2>2. ASSUME NEW demand \in Demands, Integrate(demand)
        PROVE  BeliefInv'
    BY <2>2 DEF Integrate, StepProcess, ControllerTimePasses, BeliefInv
  <2>3. CASE UNCHANGED vars
    BY <2>3 DEF vars, controllerVars, beliefVars, processVars, BeliefInv
  <2> QED
    BY <2>1, <2>2, <2>3, InterlockBelieves DEF Next
<1>3. BeliefInv => MotorFollowsBelief
  BY DEF BeliefInv, MotorFollowsBelief
<1> QED
  BY <1>1, <1>2, <1>3, TypeCorrect, PTL DEF Spec

-----------------------------------------------------------------------------
\* The level changes by exactly what entered less what left: the outflow is
\* bounded by what is there, so the floor at zero never creates volume.
THEOREM MassBalance == Spec => VolumeConserved
<1> DEFINE Balance == level' # level \/ flows' # flows
              => level' + flows'.outflow + flows'.spill = level + flows'.inflow
<1>1. TypeInv /\ [Next]_vars => [Balance]_<<level, flows>>
  <2> SUFFICES ASSUME TypeInv, [Next]_vars PROVE [Balance]_<<level, flows>>
    OBVIOUS
  <2>1. ASSUME NEW demand \in Demands, Integrate(demand)
        PROVE  Balance
    <3>1. /\ PumpInflow \in 0..NominalFlow
          /\ Outflow(demand) \in Nat
          /\ RawLevel(demand) \in Nat
      BY StepFlows, LoopAssumption DEF TypeInv, TypeOK
    <3>2. level \in Nat
      BY ProcessAssumption DEF TypeInv, TypeOK, ProcessTypeOK
    <3>3. /\ flows'.inflow = PumpInflow
          /\ flows'.outflow = Outflow(demand)
          /\ flows'.spill = Greater(0, RawLevel(demand) - Overflow)
          /\ level' = Within(0, Overflow, RawLevel(demand))
      BY <2>1 DEF Integrate, StepProcess
    <3>4. level' + flows'.spill = RawLevel(demand)
      <4>1. Overflow \in Nat
        BY ProcessAssumption
      <4>2. CASE RawLevel(demand) <= Overflow
        BY <3>1, <3>3, <4>1, <4>2 DEF Within, Lesser, Greater
      <4>3. CASE ~(RawLevel(demand) <= Overflow)
        BY <3>1, <3>3, <4>1, <4>3 DEF Within, Lesser, Greater
      <4> QED
        BY <4>2, <4>3
    <3>5. PumpInflow \in Int
      BY <3>1, ProcessAssumption
    <3>6. RawLevel(demand) = level + PumpInflow - Outflow(demand)
      BY DEF RawLevel
    <3>7. level' + flows'.outflow + flows'.spill = level + flows'.inflow
      <4>1. level' \in Int /\ flows'.spill \in Int
        BY <3>1, <3>3, ProcessAssumption DEF Within, Lesser, Greater
      <4> QED
        BY <3>1, <3>2, <3>3, <3>4, <3>5, <3>6, <4>1
    <3> QED
      BY <3>7
  <2>2. ASSUME NEW requested \in Requests, NEW error \in Errors(TransmitterNoise),
               NEW bias \in Biases, NEW frozen \in Freezes,
               Command(requested, error, bias, frozen)
        PROVE  UNCHANGED <<level, flows>>
    BY <2>2 DEF Command
  <2>3. ASSUME NEW reading \in IndependentReadings(level), Interlock(reading)
        PROVE  UNCHANGED <<level, flows>>
    BY <2>3 DEF Interlock
  <2>4. CASE UNCHANGED vars
    BY <2>4 DEF vars, processVars
  <2> QED
    BY <2>1, <2>2, <2>3, <2>4 DEF Next
<1> QED
  BY <1>1, TypeCorrect, PTL DEF Spec, VolumeConserved
=============================================================================
