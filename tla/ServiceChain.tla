---------------------------- MODULE ServiceChain ----------------------------
(***************************************************************************)
(* The zoned services: every hop polls the service inward of it, caches    *)
(* the last good response and serves it outward (services/common.py and    *)
(* the four applications built on it).                                     *)
(*                                                                         *)
(*     controller <- hmi <- historian <- idmz <- enterprise                *)
(*                                                                         *)
(* A sample of the controller is identified by its time t_s and, because   *)
(* that starts at zero again, by the run of the controller it belongs to;  *)
(* the services see t_s only.  A response is composed when the upstream    *)
(* service answers and taken in later; it may be lost, time out, or find a *)
(* service that has restarted in the meantime.                             *)
(***************************************************************************)
EXTENDS Clock, Sequences, FiniteSets

CONSTANTS
    Hops,               \* the hops there are, from the controller outwards
    UnhealthyAfter,     \* consecutive failures that make a poller unhealthy: 5
    Depth,              \* _MAX_SAMPLES
    LastTime,           \* bound: the clock of a run stops here
    MaxRuns,            \* bound: runs of the controller
    MaxLosses,          \* bound: polls that fail for no fault of the upstream
    MaxRestarts,        \* bound: restarts of the services
    None

Chain == {"hmi", "historian", "idmz", "enterprise"}

Upstream ==
    [hop \in Chain |->
        CASE hop = "hmi"        -> "controller"
          [] hop = "historian"  -> "hmi"
          [] hop = "idmz"       -> "historian"
          [] hop = "enterprise" -> "idmz"]

Sample == [run : 1..MaxRuns, t : 0..LastTime]

\* aged is no field of a response: it says whether some service on the way was
\* unhealthy when it answered.  The field "stale" that HMI and broker do add is
\* about their own poller, and no service inside the chain reads it.
Response == [sample : Sample \cup {None}, aged : BOOLEAN]

\* The hops reach inwards to the controller, none of them left out.
ASSUME ChainAssumption ==
    /\ Hops \subseteq Chain
    /\ \A hop \in Hops : Upstream[hop] \in Hops \cup {"controller"}
    /\ {UnhealthyAfter, Depth, LastTime, MaxRuns} \subseteq Nat \ {0}
    /\ {MaxLosses, MaxRestarts} \subseteq Nat
    /\ None \notin Sample /\ None \notin Response

VARIABLES
    current,            \* the controller's snapshot
    latest,             \* UpstreamPoller.latest of every hop
    failures,           \* UpstreamPoller.consecutive_failures, saturating
    flight,             \* responses under way to a hop
    archive,            \* the historian's samples
    losses, restarts    \* how often something went wrong

chainVars == <<current, latest, failures, flight, archive, losses, restarts>>

ChainTypeOK ==
    /\ current \in Sample
    /\ latest \in [Hops -> Response \cup {None}]
    /\ failures \in [Hops -> 0..UnhealthyAfter]
    /\ flight \in [Hops -> SUBSET Response]
    /\ archive \in Seq(Sample) /\ Len(archive) <= Depth
    /\ losses \in 0..MaxLosses
    /\ restarts \in 0..MaxRestarts

Init ==
    /\ current = [run |-> 1, t |-> 0]
    /\ latest = [hop \in Hops |-> None]
    /\ failures = [hop \in Hops |-> 0]
    /\ flight = [hop \in Hops |-> {}]
    /\ archive = <<>>
    /\ losses = 0
    /\ restarts = 0

-----------------------------------------------------------------------------
Healthy(hop) == latest[hop] # None /\ failures[hop] < UnhealthyAfter

\* HMI and broker answer 503 until they have a sample; the historian answers
\* with an empty window, the controller has a snapshot from the start.
Answers(service) == service \in {"hmi", "idmz"} => latest[service] # None

\* /view and /summary pass the cached sample on, /query the newest archived one.
Newest(service) ==
    CASE service = "controller"      -> current
      [] service = "historian"       -> IF archive = <<>> THEN None ELSE archive[Len(archive)]
      [] service \in {"hmi", "idmz"} -> latest[service].sample

Aged(service) ==
    service # "controller" /\ (~Healthy(service) \/ latest[service].aged)

Answer(service) == [sample |-> Newest(service), aged |-> Aged(service)]

\* Mutant: two polling tasks share one poller.
AskTwice(hop) ==
    /\ Answers(Upstream[hop])
    /\ Cardinality(flight[hop]) < 2
    /\ flight' = [flight EXCEPT ![hop] = @ \cup {Answer(Upstream[hop])}]
    /\ UNCHANGED <<current, latest, failures, archive, losses, restarts>>

\* A poller has one task, and it awaits a response before it polls again.
Ask(hop) ==
    /\ Answers(Upstream[hop])
    /\ flight[hop] = {}
    /\ flight' = [flight EXCEPT ![hop] = {Answer(Upstream[hop])}]
    /\ UNCHANGED <<current, latest, failures, archive, losses, restarts>>

\* Mutants of the archive: no duplicate is dropped, and it grows without limit.
ArchivedAll(sample) ==
    LET all == Append(archive, sample)
    IN  IF Len(all) > Depth THEN Tail(all) ELSE all

ArchivedUnbounded(sample) ==
    IF archive # <<>> /\ archive[Len(archive)].t = sample.t THEN archive
    ELSE Append(archive, sample)

\* A ring buffer that drops a sample with the time of the last one.
Archived(sample) ==
    LET all == Append(archive, sample)
    IN  IF archive # <<>> /\ archive[Len(archive)].t = sample.t THEN archive
        ELSE IF Len(all) > Depth THEN Tail(all) ELSE all

\* Mutant: a success does not clear the failures before it.
TakeWithoutReset(hop) ==
    \E response \in flight[hop] :
        /\ latest' = [latest EXCEPT ![hop] = response]
        /\ archive' = IF hop = "historian" THEN Archived(response.sample) ELSE archive
        /\ flight' = [flight EXCEPT ![hop] = @ \ {response}]
        /\ UNCHANGED <<current, failures, losses, restarts>>

\* poll_once, the response has come.
Take(hop) ==
    \E response \in flight[hop] :
        /\ latest' = [latest EXCEPT ![hop] = response]
        /\ failures' = [failures EXCEPT ![hop] = 0]
        /\ archive' = IF hop = "historian" THEN Archived(response.sample) ELSE archive
        /\ flight' = [flight EXCEPT ![hop] = @ \ {response}]
        /\ UNCHANGED <<current, losses, restarts>>

\* poll_once, the exception arm: the cached sample stays.
CountFailure(hop) ==
    /\ failures' = [failures EXCEPT ![hop] = Older(@, UnhealthyAfter)]
    /\ flight' = [flight EXCEPT ![hop] = {}]
    /\ UNCHANGED <<current, latest, archive, restarts>>

\* 503 from the upstream service.
Refused(hop) ==
    /\ ~Answers(Upstream[hop])
    /\ flight[hop] = {}
    /\ CountFailure(hop)
    /\ UNCHANGED losses

\* Connection refused, timed out, an error status, no JSON.
Lose(hop) ==
    /\ losses < MaxLosses
    /\ losses' = losses + 1
    /\ CountFailure(hop)

-----------------------------------------------------------------------------
\* LiveProcess._step.
Step ==
    /\ current.t < LastTime
    /\ current' = [current EXCEPT !.t = @ + 1]
    /\ UNCHANGED <<latest, failures, flight, archive, losses, restarts>>

\* A new controller process starts at time zero.  Bound: a run that is cut short
\* stops before LastTime, as the clock of the next, which never ends in the code,
\* goes past it; where the model's clock stops nothing newer could come.
RestartController ==
    /\ current.run < MaxRuns
    /\ current.t < LastTime
    /\ current' = [run |-> current.run + 1, t |-> 0]
    /\ UNCHANGED <<latest, failures, flight, archive, losses, restarts>>

\* Nothing a hop keeps survives its process.
Restart(hop) ==
    /\ restarts < MaxRestarts
    /\ restarts' = restarts + 1
    /\ latest' = [latest EXCEPT ![hop] = None]
    /\ failures' = [failures EXCEPT ![hop] = 0]
    /\ flight' = [flight EXCEPT ![hop] = {}]
    /\ archive' = IF hop = "historian" THEN <<>> ELSE archive
    /\ UNCHANGED <<current, losses>>

Poll(hop) == Ask(hop) \/ Take(hop) \/ Refused(hop)

Next ==
    \/ Step
    \/ RestartController
    \/ \E hop \in Hops : Poll(hop) \/ Lose(hop) \/ Restart(hop)

Spec == Init /\ [][Next]_chainVars

\* The controller ticks and every poller polls until its service stops.  Nothing
\* has to be lost or restarted.
FairSpec ==
    /\ Spec
    /\ WF_chainVars(Step)
    /\ \A hop \in Hops : WF_chainVars(Poll(hop))

-----------------------------------------------------------------------------
Before(first, second) ==
    first.run < second.run \/ (first.run = second.run /\ first.t < second.t)

\* The cached response has a sample in it.
Shown(response) == response # None /\ response.sample # None

\* A view never goes back in time, over any number of hops that lag, lose
\* responses and restart between the controller and it.
ViewsNeverGoBack ==
    [][\A hop \in Hops :
            Shown(latest[hop]) /\ Shown(latest'[hop])
                => ~Before(latest'[hop].sample, latest[hop].sample)]_latest

\* historian: the archive is "de-duplicating by timestep".  It has every sample
\* at most once and in the order of the process, across runs too.
ArchiveIsOrdered ==
    \A i \in 2..Len(archive) : Before(archive[i - 1], archive[i])

\* common.py: an inner service that is unavailable "degrades the outer view to
\* stale data": once nothing goes wrong any more, every view is current and
\* healthy again, with no trace of what was.
ViewsCatchUp ==
    <>[](\A hop \in Hops : Healthy(hop) /\ latest[hop].sample = current /\ ~latest[hop].aged)
=============================================================================
