-------------------------- MODULE SetpointService --------------------------
(***************************************************************************)
(* The live controller service (services/controller/app.py) as far as its  *)
(* threads share state.  The event loop runs LiveProcess._step once per    *)
(* tick; the framework runs each POST /setpoint in a thread of its pool.   *)
(* Both call EngineeringBackstop.constrain_setpoint on one backstop and no *)
(* lock is held, so a call is several steps: it reads the effective        *)
(* setpoint to measure the distance, reads it again to travel, and writes. *)
(* The rest of _step belongs to the event loop alone and is module         *)
(* ScanLoop.                                                               *)
(***************************************************************************)
EXTENDS SetpointConstraint, FiniteSets

CONSTANTS
    Loop,               \* the event loop thread
    Handlers,           \* threads of the pool, each the origin it declares
    Startup,            \* last_command_origin before any command
    Requests,           \* setpoints that may be posted
    MaxPosts            \* bound: how many are posted

ASSUME ServiceAssumption ==
    /\ Loop \notin Handlers
    /\ Startup \notin Handlers
    /\ IsFiniteSet(Handlers)           \* the pool of the framework is bounded
    /\ Requests \subseteq Int
    /\ MaxPosts \in Nat

Threads == Handlers \cup {Loop}

VARIABLES
    requested,          \* live.requested_setpoint_m
    origin,             \* live.last_command_origin
    snapshot,           \* the three fields of live.snapshot that come from these
    posts,              \* how many setpoints were posted
    pc,                 \* where each thread is
    argument,           \* requested_setpoint_m of its call
    distance,           \* delta of its call
    result              \* effective of its call

shared == <<effectiveSetpoint, requested, origin, snapshot, posts>>
serviceVars == <<shared, pc, argument, distance, result>>

Places == {"idle", "stamp", "measure", "travel", "commit", "publish"}

ServiceTypeOK ==
    /\ effectiveSetpoint \in Int
    /\ requested \in Requests \cup {OperatorSetpoint}
    /\ origin \in Handlers \cup {Startup}
    /\ snapshot.requested \in Requests \cup {OperatorSetpoint}
    /\ snapshot.effective \in Int
    /\ snapshot.origin \in Handlers \cup {Startup}
    /\ posts \in 0..MaxPosts
    /\ pc \in [Threads -> Places]
    /\ pc[Loop] # "stamp" /\ \A self \in Handlers : pc[self] # "publish"
    /\ argument \in [Threads -> Requests \cup {OperatorSetpoint}]
    /\ {distance, result} \subseteq [Threads -> Int]

\* LiveProcess.__init__ has taken the first step before any thread exists.
FirstEffective ==
    IF Enabled THEN Toward(OperatorSetpoint, Clamped(OperatorSetpoint), MaxTravel)
               ELSE OperatorSetpoint

Init ==
    /\ effectiveSetpoint = FirstEffective
    /\ requested = OperatorSetpoint
    /\ origin = Startup
    /\ snapshot = [requested |-> OperatorSetpoint, effective |-> FirstEffective,
                   origin |-> Startup]
    /\ posts = 0
    /\ pc = [self \in Threads |-> "idle"]
    /\ argument = [self \in Threads |-> OperatorSetpoint]
    /\ distance = [self \in Threads |-> 0]
    /\ result = [self \in Threads |-> OperatorSetpoint]

-----------------------------------------------------------------------------
GoTo(self, place) == pc' = [pc EXCEPT ![self] = place]

\* set_setpoint: the request is recorded, then its origin, then constrained.
Post(self, setpoint) ==
    /\ pc[self] = "idle"
    /\ posts < MaxPosts
    /\ posts' = posts + 1
    /\ requested' = setpoint
    /\ argument' = [argument EXCEPT ![self] = setpoint]
    /\ GoTo(self, "stamp")
    /\ UNCHANGED <<effectiveSetpoint, origin, snapshot, distance, result>>

Stamp(self) ==
    /\ pc[self] = "stamp"
    /\ origin' = self
    /\ GoTo(self, "measure")
    /\ UNCHANGED <<effectiveSetpoint, requested, snapshot, posts, argument, distance, result>>

\* _step: the loop constrains whatever is requested now.
Tick ==
    /\ pc[Loop] = "idle"
    /\ argument' = [argument EXCEPT ![Loop] = requested]
    /\ GoTo(Loop, "measure")
    /\ UNCHANGED <<shared, distance, result>>

-----------------------------------------------------------------------------
\* constrain_setpoint.  Below the slew limit, and with the backstop disabled,
\* the result does not depend on the effective setpoint any more.
TooFar(self) ==
    Enabled /\ (distance'[self] > MaxTravel \/ distance'[self] < -MaxTravel)

\* Mutant: the distance is measured to the request, not to the clamped request.
MeasureUnclamped(self) ==
    /\ pc[self] = "measure"
    /\ distance' = [distance EXCEPT ![self] = argument[self] - effectiveSetpoint]
    /\ \/ TooFar(self) /\ GoTo(self, "travel") /\ UNCHANGED result
       \/ /\ ~TooFar(self)
          /\ GoTo(self, "commit")
          /\ result' = [result EXCEPT ![self] = argument[self]]
    /\ UNCHANGED <<shared, argument>>

Measure(self) ==
    /\ pc[self] = "measure"
    /\ distance' = [distance EXCEPT ![self] = Clamped(argument[self]) - effectiveSetpoint]
    /\ \/ TooFar(self) /\ GoTo(self, "travel") /\ UNCHANGED result
       \/ /\ ~TooFar(self)
          /\ GoTo(self, "commit")
          /\ result' = [result EXCEPT
                ![self] = IF Enabled THEN Clamped(argument[self]) ELSE argument[self]]
    /\ UNCHANGED <<shared, argument>>

Travel(self) ==
    /\ pc[self] = "travel"
    /\ result' = [result EXCEPT ![self] =
            effectiveSetpoint + (IF distance[self] > 0 THEN MaxTravel ELSE -MaxTravel)]
    /\ GoTo(self, "commit")
    /\ UNCHANGED <<shared, argument, distance>>

\* Mutant: the loop is done without publishing.
CommitOnly(self) ==
    /\ pc[self] = "commit"
    /\ effectiveSetpoint' = result[self]
    /\ GoTo(self, "idle")
    /\ UNCHANGED <<requested, origin, snapshot, posts, argument, distance, result>>

\* Mutant: a handler goes on to publish, as the loop does.
CommitThenPublish(self) ==
    /\ pc[self] = "commit"
    /\ effectiveSetpoint' = result[self]
    /\ GoTo(self, "publish")
    /\ UNCHANGED <<requested, origin, snapshot, posts, argument, distance, result>>

Commit(self) ==
    /\ pc[self] = "commit"
    /\ effectiveSetpoint' = result[self]
    /\ GoTo(self, IF self = Loop THEN "publish" ELSE "idle")
    /\ UNCHANGED <<requested, origin, snapshot, posts, argument, distance, result>>

\* The snapshot has the effective setpoint the controller was given, with the
\* request and the origin there are by now.
Publish ==
    /\ pc[Loop] = "publish"
    /\ snapshot' = [requested |-> requested, effective |-> result[Loop], origin |-> origin]
    /\ GoTo(Loop, "idle")
    /\ UNCHANGED <<effectiveSetpoint, requested, origin, posts, argument, distance, result>>

-----------------------------------------------------------------------------
Constrain(self) == Measure(self) \/ Travel(self) \/ Commit(self)

LoopStep == Tick \/ Constrain(Loop) \/ Publish

HandlerStep(self) == Stamp(self) \/ Constrain(self)

Next ==
    \/ LoopStep
    \/ \E self \in Handlers :
        HandlerStep(self) \/ \E setpoint \in Requests : Post(self, setpoint)

Spec == Init /\ [][Next]_serviceVars

\* The loop ticks for as long as the service runs, and a call that has begun is
\* scheduled until it returns.  Nobody has to post.
FairSpec ==
    /\ Spec
    /\ WF_serviceVars(LoopStep)
    /\ \A self \in Handlers : WF_serviceVars(HandlerStep(self))

-----------------------------------------------------------------------------
\* Once no more setpoints are posted, the last one is what the service pursues
\* and shows, clamped, whatever calls were interleaved before.
Settled ==
    /\ effectiveSetpoint = Clamped(requested)
    /\ snapshot.requested = requested
    /\ snapshot.effective = Clamped(requested)

SettlesOnRequest == <>[]Settled

\* Handlers whose call has not returned.
Busy == {self \in Handlers : pc[self] # "idle"}

\* What the race leaves of BS-01: a call can carry the effective setpoint past the
\* range by one travel if another call overtakes it, and so can the tick that it
\* overtakes itself when it returns; no request, however far out, and no number
\* of ticks carries it further.
Excess == (2 * posts - Cardinality(Busy)) * MaxTravel

OvershootIsBounded == effectiveSetpoint \in (SetpointMin - Excess)..(SetpointMax + Excess)

\* architecture.yaml, BS-01: "Any requested level setpoint is clamped into the
\* permitted engineering range regardless of its origin or authorisation".
EffectiveSetpointInRange == effectiveSetpoint \in SetpointMin..SetpointMax
=============================================================================
