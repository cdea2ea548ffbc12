------------------------- MODULE MCInvariantMonitor -------------------------
(***************************************************************************)
(* The kinds of the shipped invariants, with no tolerance, one timestep    *)
(* and three.                                                              *)
(***************************************************************************)
EXTENDS InvariantMonitor

MCSpecs ==
    [kind : {"upper", "lower"}, least : {0}, limit : {2}, margin : {1}, tolerance : {0, 3}]
        \cup [kind : {"conditional"}, least : {0}, limit : {1}, margin : {1}, tolerance : {2}]
        \cup [kind : {"bound"}, least : {1}, limit : {2}, margin : {0}, tolerance : {0}]
        \cup [kind : {"rate"}, least : {0}, limit : {30}, margin : {0}, tolerance : {0}]
=============================================================================
