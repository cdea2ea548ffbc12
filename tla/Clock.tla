------------------------------- MODULE Clock -------------------------------
(***************************************************************************)
(* Arithmetic shared by the modules.                                       *)
(*                                                                         *)
(* The simulation compares absolute times (t_s - last_stop_t_s >= limit).  *)
(* Only the elapsed time matters, and only up to the limit, so every       *)
(* timestamp is kept as an age in timesteps that saturates at the limit it *)
(* is compared with.  The comparison has the same outcome for ever and the *)
(* state space of an unbounded run is finite.                              *)
(***************************************************************************)
EXTENDS Integers

Lesser(a, b) == IF a <= b THEN a ELSE b

Greater(a, b) == IF a >= b THEN a ELSE b

\* min(high, max(low, x)), the clamp idiom of the source.
Within(low, high, x) == Lesser(high, Greater(low, x))

\* One timestep added to an age that saturates at limit.
Older(age, limit) == IF age < limit THEN age + 1 ELSE limit

\* One timestep taken off a countdown.
Sooner(ticks) == IF ticks > 0 THEN ticks - 1 ELSE 0

\* current moved towards target by at most travel.
Toward(current, target, travel) ==
    IF target > current + travel THEN current + travel
    ELSE IF target < current - travel THEN current - travel
    ELSE target
=============================================================================
