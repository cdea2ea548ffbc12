------------------------ MODULE MCExperimentRecord ------------------------
(***************************************************************************)
(* One sample for every condition of the taxonomy, and those that combine  *)
(* an unsafe state with a loss of service.  The tank is safe from 10 to 45 *)
(* units of the metrics; a unit of process.csv is a tenth of one.          *)
(***************************************************************************)
EXTENDS ExperimentRecord

Sample(place, shortfall, violated, spill) ==
    [place |-> place, shortfall |-> shortfall, violated |-> violated,
     catastrophicSpill |-> spill]

Normal == Sample("normal", 0, {}, FALSE)
Degrading == Sample("normal", Degraded, {"INV-006"}, FALSE)
Losing == Sample("low", Lost, {}, FALSE)
Draining == Sample("reserve lost", Minor, {"INV-002"}, FALSE)
Overfull == Sample("unsafe", 0, {"INV-001"}, FALSE)
Spilling == Sample("unsafe", 0, {"INV-001"}, TRUE)
Spilled == Sample("high", 0, {}, TRUE)
Emptied == Sample("reserve lost", Lost, {"INV-002", "INV-003"}, FALSE)

MCSamples ==
    {Normal, Degrading, Losing, Draining, Overfull, Spilling, Spilled, Emptied}

Signs(level, on, approaching) ==
    [level |-> level, approaching |-> approaching, pump |-> "pump" \in on, acted |-> "acted" \in on,
     supervisory |-> "supervisory" \in on, reserve |-> "reserve" \in on]

\* Levels that process.csv can tell.
MCShown ==
    (Normal :> Signs(2540, {"supervisory", "pump"}, {})) @@
    (Degrading :> Signs(2540, {"pump", "acted"}, {"INV-005"})) @@
    (Losing :> Signs(1460, {"supervisory", "reserve"}, {})) @@
    (Draining :> Signs(940, {"supervisory", "reserve", "acted"}, {"INV-003"})) @@
    (Overfull :> Signs(4530, {"supervisory", "acted"}, {"INV-005"})) @@
    (Spilling :> Signs(5040, {"supervisory"}, {})) @@
    (Spilled :> Signs(4430, {"supervisory", "pump", "acted"}, {"INV-001"})) @@
    (Emptied :> Signs(80, {"reserve"}, {}))

\* The same with levels that it has to round.
MCShownRaw ==
    [s \in MCSamples |->
        [MCShown[s] EXCEPT !.level = IF s = Overfull THEN 4548 ELSE @ + 2]]

Effect(begin, until) == [begin |-> begin, until |-> until]

\* None; one that ends as a blip between two timesteps comes and goes; one still
\* active at the end of the run; and one that has no end.
MCScenarios ==
    {<<>>,
     <<Effect(0, 2), Effect(2, 2)>>,
     <<Effect(1, Horizon + 1), Effect(1, 2)>>,
     <<Effect(3, Lasting)>>}
=============================================================================
