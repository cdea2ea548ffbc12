------------------------- MODULE MCSetpointService -------------------------
(***************************************************************************)
(* The event loop and two handlers.  The range is not a multiple of the    *)
(* travel, so that the last stretch to either end of it is a short one.    *)
(***************************************************************************)
EXTENDS SetpointService, TLC

CONSTANTS First, Second

MCHandlers == {First, Second}

Interchangeable == Permutations(MCHandlers)
=============================================================================
