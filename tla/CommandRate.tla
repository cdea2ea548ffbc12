---------------------------- MODULE CommandRate ----------------------------
(***************************************************************************)
(* What INV-004 makes of the commands (CommandRateInvariant.observe in     *)
(* blackstart/core/invariants/water.py): how far the requested setpoint    *)
(* moves in a timestep, and how often the motor was asked to start in the  *)
(* last hour.  A young experiment is judged by the time it has run, and by *)
(* no less than a minimum window.  Times are in timesteps.                 *)
(***************************************************************************)
EXTENDS Clock, Sequences, FiniteSetsExt

CONSTANTS
    Setpoints,          \* what may be requested
    MaxSlew,            \* max_setpoint_slew_m_s
    RateWindow,         \* _RATE_WINDOW_S: the hour a rate is given for
    MinRateWindow       \* _MIN_RATE_WINDOW_S

ASSUME RateAssumption ==
    /\ Setpoints \subseteq Nat
    /\ MaxSlew \in Nat
    /\ MinRateWindow \in Nat \ {0}
    /\ RateWindow \in Nat /\ RateWindow >= MinRateWindow

VARIABLES
    commands,       \* every setpoint requested, and whether a start came with it
    startTimes      \* _start_times_s

rateVars == <<commands, startTimes>>

CommandType == [setpoint : Setpoints, start : BOOLEAN]

RateTypeOK ==
    /\ commands \in Seq(CommandType)
    /\ startTimes \subseteq 0..(Len(commands) - 1)

RateInit == commands = <<>> /\ startTimes = {}

\* Mutant: no minimum window, so that the first start implies an enormous rate.
WindowFromStart(now) == Lesser(now + 1, RateWindow)

Window(now) == Greater(MinRateWindow, Lesser(now, RateWindow))

Recent(times, now) == {t \in times : now - t <= RateWindow}

\* Tenths of a start per hour, rounded up: what exceeds a whole number of
\* tenths still does.
StartsPerHour(count, window) == (10 * count * RateWindow + window - 1) \div window

Jumps(setpoint) ==
    /\ commands # <<>>
    /\ LET previous == commands[Len(commands)].setpoint
       IN  Greater(setpoint - previous, previous - setpoint) > MaxSlew

ObserveCommand(command) ==
    LET now == Len(commands) IN
    /\ commands' = Append(commands, command)
    /\ startTimes' = Recent(startTimes \cup {t \in {now} : command.start}, now)

RateReading(command) ==
    [value |-> StartsPerHour(Cardinality(startTimes'), Window(Len(commands))),
     flag |-> Jumps(command.setpoint)]
=============================================================================
