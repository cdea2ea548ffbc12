-------------------------- MODULE LevelController --------------------------
(***************************************************************************)
(* The hysteresis level controller and the PLC scanner that executes it    *)
(* (blackstart/controller/control_logic.py and plc_sim.py).  It sees the   *)
(* reported level only, and the setpoint the backstop left it.             *)
(***************************************************************************)
EXTENDS ProcessConfig

CONSTANTS
    Deadband,
    MinRun,             \* min_run_time_s in timesteps
    MinOffControl,      \* min_off_time_s in timesteps
    EngageLevel,        \* reserve protection throttles the outlet at this level
    ReleaseLevel,       \* and releases it at this one
    Throttled,          \* throttled_position
    ScanTicks,          \* scan interval in timesteps
    NoRequest           \* no scan has been executed yet

ASSUME ControllerAssumption ==
    /\ {Deadband, MinRun, MinOffControl} \subseteq Nat
    /\ {EngageLevel, ReleaseLevel} \subseteq Int
    /\ EngageLevel < ReleaseLevel
    /\ Throttled \in 0..FullOpen
    /\ ScanTicks \in Nat \ {0}

ControlRequest ==
    [setpoint : Int, pumpRun : BOOLEAN, valvePosition : {Throttled, FullOpen}]

ASSUME NoRequestAssumption == NoRequest \notin ControlRequest

VARIABLES
    running,            \* _pump_running: the controller's belief
    sinceStart,         \* t_s - _last_start_t_s, saturating at MinRun
    sinceStop,          \* t_s - _last_stop_t_s, saturating at MinOffControl
    reserve,            \* _reserve_protection_active
    held,               \* the scanner's held request
    untilScan           \* timesteps until the next scan is due

beliefVars == <<running, sinceStart, sinceStop>>
controllerVars == <<beliefVars, reserve, held, untilScan>>

ControllerTypeOK ==
    /\ running \in BOOLEAN
    /\ sinceStart \in 0..MinRun
    /\ sinceStop \in 0..MinOffControl
    /\ reserve \in BOOLEAN
    /\ held \in ControlRequest \cup {NoRequest}
    /\ untilScan \in 0..ScanTicks

\* last_start and last_stop start one limit in the past: both timers elapsed.
ControllerInit ==
    /\ running = PumpInitiallyOn
    /\ sinceStart = MinRun
    /\ sinceStop = MinOffControl
    /\ reserve = FALSE
    /\ held = NoRequest
    /\ untilScan = 0

-----------------------------------------------------------------------------
ShouldStop(level, setpoint) ==
    /\ running
    /\ sinceStart >= MinRun
    /\ level >= setpoint + Deadband

ShouldStart(level, setpoint) ==
    /\ ~running
    /\ sinceStop >= MinOffControl
    /\ level <= setpoint - Deadband

NextReserve(level) ==
    \/ reserve /\ level < ReleaseLevel
    \/ ~reserve /\ level <= EngageLevel

\* One control scan.  The count of commanded starts is read by invariant
\* INV-004 only and is not kept.
Scan(level, setpoint) ==
    /\ running' = (ShouldStart(level, setpoint)
                    \/ (running /\ ~ShouldStop(level, setpoint)))
    /\ sinceStart' = IF ShouldStart(level, setpoint) THEN 0 ELSE sinceStart
    /\ sinceStop' = IF ShouldStop(level, setpoint) THEN 0 ELSE sinceStop
    /\ reserve' = NextReserve(level)
    /\ held' = [setpoint |-> setpoint,
                pumpRun |-> running',
                valvePosition |-> IF reserve' THEN Throttled ELSE FullOpen]

\* Between scans the outputs are held; only the reported setpoint is refreshed.
HoldOutputs(setpoint) ==
    /\ held' = [held EXCEPT !.setpoint = setpoint]
    /\ UNCHANGED <<beliefVars, reserve, untilScan>>

ScanDue == held = NoRequest \/ untilScan = 0

Execute(level, setpoint) ==
    \/ ScanDue /\ Scan(level, setpoint) /\ untilScan' = ScanTicks
    \/ ~ScanDue /\ HoldOutputs(setpoint)

\* Mutants: the stop is timed but still believed running, and the other way about.
NotifyTimeOnly ==
    /\ sinceStop' = IF running THEN 0 ELSE sinceStop
    /\ UNCHANGED <<running, sinceStart>>

NotifyWithoutStopTime == running' = FALSE /\ UNCHANGED <<sinceStart, sinceStop>>

\* The only channel from the backstop back to the controller.
NotifyPumpDenied ==
    /\ running' = FALSE
    /\ sinceStop' = IF running THEN 0 ELSE sinceStop
    /\ UNCHANGED sinceStart

ControllerTimePasses ==
    /\ sinceStart' = Older(sinceStart, MinRun)
    /\ sinceStop' = Older(sinceStop, MinOffControl)
    /\ untilScan' = Sooner(untilScan)
=============================================================================
