----------------------- MODULE SetpointServiceProofs -----------------------
(***************************************************************************)
(* Proofs about the threads of the controller service, for any number of   *)
(* handlers, posts and setpoints.                                          *)
(***************************************************************************)
EXTENDS SetpointService, FiniteSetTheorems, TLAPS

-----------------------------------------------------------------------------
(* Types.                                                                   *)

\* A clamped setpoint is within the range.
LEMMA ClampedInRange ==
    ASSUME NEW setpoint \in Int
    PROVE  Clamped(setpoint) \in SetpointMin..SetpointMax
BY ConstraintAssumption DEF Clamped, Within, Lesser, Greater

\* The setpoints and the travel are integers.
LEMMA SetpointsAreIntegers ==
    \A setpoint \in Requests \cup {OperatorSetpoint} : setpoint \in Int
BY ServiceAssumption, SharedConfigAssumption

\* The call of one thread: a step of it is typed whoever makes it.
LEMMA ConstrainTyped ==
    ASSUME ServiceTypeOK, NEW self \in Threads, Constrain(self)
    PROVE  ServiceTypeOK'
<1> USE DEF ServiceTypeOK, shared, GoTo
<1>1. CASE Measure(self)
  <2>1. argument[self] \in Int /\ Clamped(argument[self]) \in Int
    BY SetpointsAreIntegers, ClampedInRange, ConstraintAssumption
  <2>2. distance' \in [Threads -> Int] /\ result' \in [Threads -> Int]
    BY <1>1, <2>1 DEF Measure
  <2>3. pc' = [pc EXCEPT ![self] = "travel"] \/ pc' = [pc EXCEPT ![self] = "commit"]
    BY <1>1 DEF Measure
  <2>4. pc' \in [Threads -> Places]
    BY <2>3 DEF Places
  <2>5. pc'[Loop] # "stamp" /\ \A other \in Handlers : pc'[other] # "publish"
    BY <2>3 DEF Threads
  <2> QED
    BY <1>1, <2>2, <2>4, <2>5 DEF Measure
<1>2. CASE Travel(self)
  <2>1. result' \in [Threads -> Int]
    BY <1>2, ConstraintAssumption DEF Travel
  <2>2. pc' \in [Threads -> Places]
    BY <1>2 DEF Travel, Places
  <2>3. pc'[Loop] # "stamp" /\ \A other \in Handlers : pc'[other] # "publish"
    BY <1>2 DEF Travel, Threads
  <2> QED
    BY <1>2, <2>1, <2>2, <2>3 DEF Travel
<1>3. CASE Commit(self)
  <2>1. effectiveSetpoint' \in Int
    BY <1>3 DEF Commit
  <2>2. pc' \in [Threads -> Places]
    BY <1>3 DEF Commit, Places
  <2>3. pc'[Loop] # "stamp" /\ \A other \in Handlers : pc'[other] # "publish"
    BY <1>3, ServiceAssumption DEF Commit, Threads
  <2> QED
    BY <1>3, <2>1, <2>2, <2>3 DEF Commit
<1> QED
  BY <1>1, <1>2, <1>3 DEF Constrain

\* It is typed at first.
LEMMA InitTyped == Init => ServiceTypeOK
<1> SUFFICES ASSUME Init PROVE ServiceTypeOK
  OBVIOUS
<1>1. OperatorSetpoint \in Int /\ Clamped(OperatorSetpoint) \in Int
  BY SharedConfigAssumption, ClampedInRange, ConstraintAssumption
<1>2. FirstEffective \in Int
  BY <1>1, ConstraintAssumption DEF FirstEffective, Toward
<1> QED
  BY <1>1, <1>2, ServiceAssumption DEF Init, ServiceTypeOK, Threads, Places

\* Every step keeps the types.
LEMMA StepKeepsTypes == ServiceTypeOK /\ [Next]_serviceVars => ServiceTypeOK'
<1> SUFFICES ASSUME ServiceTypeOK, [Next]_serviceVars PROVE ServiceTypeOK'
  OBVIOUS
<1> USE DEF ServiceTypeOK, shared, GoTo
<1>1. ASSUME NEW self \in Handlers, NEW setpoint \in Requests, Post(self, setpoint)
      PROVE  ServiceTypeOK'
  <2>1. posts' \in 0..MaxPosts
    BY <1>1, ServiceAssumption DEF Post
  <2>2. pc' \in [Threads -> Places] /\ argument' \in [Threads -> Requests \cup {OperatorSetpoint}]
    BY <1>1 DEF Post, Places
  <2>3. pc'[Loop] # "stamp" /\ \A other \in Handlers : pc'[other] # "publish"
    BY <1>1, ServiceAssumption DEF Post, Threads
  <2> QED
    BY <1>1, <2>1, <2>2, <2>3 DEF Post
<1>2. ASSUME NEW self \in Handlers, Stamp(self)
      PROVE  ServiceTypeOK'
  <2>1. pc' \in [Threads -> Places]
    BY <1>2 DEF Stamp, Places
  <2>2. pc'[Loop] # "stamp" /\ \A other \in Handlers : pc'[other] # "publish"
    BY <1>2, ServiceAssumption DEF Stamp, Threads
  <2> QED
    BY <1>2, <2>1, <2>2 DEF Stamp
<1>3. CASE Tick
  <2>1. pc' \in [Threads -> Places] /\ argument' \in [Threads -> Requests \cup {OperatorSetpoint}]
    BY <1>3 DEF Tick, Places
  <2>2. pc'[Loop] # "stamp" /\ \A other \in Handlers : pc'[other] # "publish"
    BY <1>3, ServiceAssumption DEF Tick, Threads
  <2> QED
    BY <1>3, <2>1, <2>2 DEF Tick
<1>4. CASE Publish
  <2>1. snapshot'.requested = requested /\ snapshot'.effective = result[Loop]
        /\ snapshot'.origin = origin
    BY <1>4 DEF Publish
  <2>2. result[Loop] \in Int
    BY DEF Threads
  <2>3. pc' \in [Threads -> Places]
    BY <1>4 DEF Publish, Places
  <2>4. pc'[Loop] # "stamp" /\ \A other \in Handlers : pc'[other] # "publish"
    BY <1>4, ServiceAssumption DEF Publish, Threads
  <2> QED
    BY <1>4, <2>1, <2>2, <2>3, <2>4 DEF Publish
<1>5. ASSUME NEW self \in Threads, Constrain(self)
      PROVE  ServiceTypeOK'
  BY <1>5, ConstrainTyped
<1>6. CASE UNCHANGED serviceVars
  BY <1>6 DEF serviceVars
<1> QED
  BY <1>1, <1>2, <1>3, <1>4, <1>5, <1>6 DEF Next, LoopStep, HandlerStep, Threads

\* Every thread is at a place of its own kind, and every setpoint a call works
\* with was posted or is the operator's.
THEOREM ServiceTypeCorrect == Spec => []ServiceTypeOK
<1>1. Init => ServiceTypeOK
  BY InitTyped
<1>2. ServiceTypeOK /\ [Next]_serviceVars => ServiceTypeOK'
  BY StepKeepsTypes
<1> QED
  BY <1>1, <1>2, PTL DEF Spec

-----------------------------------------------------------------------------
(* How far the effective setpoint can be carried.                           *)

\* Handlers that have yet to travel.
Early == {self \in Handlers : pc[self] \in {"stamp", "measure", "travel"}}

\* The travels spent: a handler spends one when it has its result, and leaves
\* one for the loop when it writes it.
Spent == 2 * posts - Cardinality(Busy) - Cardinality(Early)

Reach == Spent * MaxTravel

Span(r) == (SetpointMin - r)..(SetpointMax + r)

\* Whatever there is or is about to be is within the reach.
Reached(r) ==
    /\ effectiveSetpoint \in Span(r)
    /\ \A self \in Handlers : pc[self] = "commit" => result[self] \in Span(r)

\* Nothing was written since the loop measured.
LoopIsFresh == effectiveSetpoint + distance[Loop] = Clamped(argument[Loop])

OvershootInv ==
    /\ ServiceTypeOK
    /\ Spent \in Nat
    /\ Reached(Reach)
    /\ pc[Loop] = "commit" => result[Loop] \in Span(Reach)
    /\ pc[Loop] = "travel" =>
        /\ distance[Loop] > MaxTravel \/ distance[Loop] < -MaxTravel
        /\ LoopIsFresh \/ Reached(Reach - MaxTravel)

-----------------------------------------------------------------------------
\* The counts and the reach are integers.
LEMMA ReachTyped ==
    ASSUME ServiceTypeOK
    PROVE  /\ IsFiniteSet(Busy) /\ Cardinality(Busy) \in Nat
           /\ IsFiniteSet(Early) /\ Cardinality(Early) \in Nat
           /\ Spent \in Int /\ Reach \in Int
<1>1. Busy \subseteq Handlers /\ Early \subseteq Handlers
  BY DEF Busy, Early
<1>2. IsFiniteSet(Busy) /\ IsFiniteSet(Early)
  BY <1>1, FS_Subset, ServiceAssumption
<1>3. Cardinality(Busy) \in Nat /\ Cardinality(Early) \in Nat
  BY <1>2, FS_CardinalityType
<1>4. Spent \in Int
  BY <1>3, ServiceAssumption DEF Spent, ServiceTypeOK
<1>5. Reach \in Int
  BY <1>4, ConstraintAssumption DEF Reach
<1> QED
  BY <1>2, <1>3, <1>4, <1>5

\* A step that finishes nothing for a handler spends nothing.
LEMMA NothingSpent ==
    ASSUME ServiceTypeOK, posts' = posts,
           \A self \in Handlers :
                \/ pc'[self] = pc[self]
                \/ {pc[self], pc'[self]} \subseteq {"stamp", "measure", "travel"}
    PROVE  Spent' = Spent /\ Reach' = Reach
<1>1. Busy' = Busy /\ Early' = Early
  BY DEF Busy, Early
<1> QED
  BY <1>1 DEF Spent, Reach

\* A post brings the two travels that its handler will spend.
LEMMA PostSpendsNothing ==
    ASSUME ServiceTypeOK, NEW self \in Handlers, NEW setpoint \in Requests,
           Post(self, setpoint)
    PROVE  Spent' = Spent /\ Reach' = Reach
<1>1. self \notin Busy /\ self \notin Early
  BY DEF Post, Busy, Early
<1>2. pc' = [pc EXCEPT ![self] = "stamp"] /\ self \in DOMAIN pc
  BY DEF Post, GoTo, ServiceTypeOK, Threads
<1>3. Busy' = Busy \cup {self} /\ Early' = Early \cup {self}
  BY <1>2 DEF Busy, Early, ServiceTypeOK
<1>4. /\ Cardinality(Busy') = Cardinality(Busy) + 1
      /\ Cardinality(Early') = Cardinality(Early) + 1
  BY <1>1, <1>3, ReachTyped, FS_AddElement
<1>5. Spent' = Spent
  BY <1>4, ReachTyped, ServiceAssumption DEF Spent, Post, ServiceTypeOK
<1> QED
  BY <1>5 DEF Reach

\* A handler that has its result, and one that has written it, spend a travel.
LEMMA HandlerSpends ==
    ASSUME ServiceTypeOK, posts' = posts, NEW self \in Handlers,
           \/ pc[self] \in {"measure", "travel"} /\ GoTo(self, "commit")
           \/ pc[self] = "commit" /\ GoTo(self, "idle")
    PROVE  Spent' = Spent + 1 /\ Reach' = Reach + MaxTravel
<1>1. self \in DOMAIN pc /\ self \in Busy
  BY DEF ServiceTypeOK, Threads, Busy
<1>2. Spent' = Spent + 1
  <2>1. CASE pc[self] \in {"measure", "travel"} /\ GoTo(self, "commit")
    <3>1. self \in Early
      BY <2>1 DEF Early
    <3>2. Busy' = Busy /\ Early' = Early \ {self}
      BY <1>1, <2>1 DEF GoTo, Busy, Early
    <3>3. Cardinality(Early') = Cardinality(Early) - 1
      BY <3>1, <3>2, ReachTyped, FS_RemoveElement
    <3> QED
      BY <3>2, <3>3, ReachTyped, ServiceAssumption DEF Spent, ServiceTypeOK
  <2>2. CASE pc[self] = "commit" /\ GoTo(self, "idle")
    <3>1. Early' = Early /\ Busy' = Busy \ {self}
      BY <1>1, <2>2 DEF GoTo, Busy, Early
    <3>2. Cardinality(Busy') = Cardinality(Busy) - 1
      BY <1>1, <3>1, ReachTyped, FS_RemoveElement
    <3> QED
      BY <3>1, <3>2, ReachTyped, ServiceAssumption DEF Spent, ServiceTypeOK
  <2> QED
    BY <2>1, <2>2
<1>3. Reach' = Reach + MaxTravel
  BY <1>2, ReachTyped, ConstraintAssumption DEF Reach
<1> QED
  BY <1>2, <1>3

\* A longer reach spans more.
LEMMA SpanGrows ==
    ASSUME NEW r \in Int, NEW s \in Int, r <= s
    PROVE  Span(r) \subseteq Span(s)
BY ConstraintAssumption DEF Span

\* A travel goes no further than one travel beyond where it begins.
LEMMA TravelWithin ==
    ASSUME ServiceTypeOK, NEW self \in Threads, Travel(self), NEW r \in Int,
           effectiveSetpoint \in Span(r)
    PROVE  result'[self] \in Span(r + MaxTravel)
<1>1. result'[self] = effectiveSetpoint + MaxTravel
      \/ result'[self] = effectiveSetpoint - MaxTravel
  BY ConstraintAssumption DEF Travel, ServiceTypeOK
<1> QED
  BY <1>1, ConstraintAssumption DEF Span, ServiceTypeOK

\* Nothing is out of reach of the constraint itself.
LEMMA ClampedWithin ==
    ASSUME NEW setpoint \in Int, NEW r \in Nat
    PROVE  Clamped(setpoint) \in Span(r)
BY ClampedInRange, ConstraintAssumption DEF Span

\* What is within a reach is within a greater one.
LEMMA ReachedGrows ==
    ASSUME NEW r \in Int, NEW s \in Int, r <= s, Reached(r)
    PROVE  Reached(s)
BY SpanGrows DEF Reached

\* The loop stays where it is while a handler takes a step.
LEMMA LoopStays ==
    ASSUME ServiceTypeOK, NEW self \in Handlers,
           HandlerStep(self) \/ \E setpoint \in Requests : Post(self, setpoint)
    PROVE  /\ pc'[Loop] = pc[Loop]
           /\ distance'[Loop] = distance[Loop]
           /\ argument'[Loop] = argument[Loop]
           /\ result'[Loop] = result[Loop]
<1>1. self # Loop /\ self \in Threads /\ Loop \in Threads
  BY ServiceAssumption DEF Threads
<1>2. CASE \E setpoint \in Requests : Post(self, setpoint)
  BY <1>1, <1>2 DEF Post, GoTo, ServiceTypeOK
<1>3. CASE Stamp(self)
  BY <1>1, <1>3 DEF Stamp, GoTo, ServiceTypeOK
<1>4. CASE Measure(self)
  BY <1>1, <1>4 DEF Measure, GoTo, ServiceTypeOK
<1>5. CASE Travel(self)
  BY <1>1, <1>5 DEF Travel, GoTo, ServiceTypeOK
<1>6. CASE Commit(self)
  BY <1>1, <1>6 DEF Commit, GoTo, ServiceTypeOK
<1> QED
  BY <1>2, <1>3, <1>4, <1>5, <1>6 DEF HandlerStep, Constrain

\* A step that spends nothing and produces no result leaves everything in reach.
LEMMA QuietStep ==
    ASSUME OvershootInv, ServiceTypeOK', Spent' = Spent, Reach' = Reach,
           effectiveSetpoint' = effectiveSetpoint,
           \A self \in Handlers :
                pc'[self] = "commit" => pc[self] = "commit" /\ result'[self] = result[self],
           /\ pc'[Loop] = pc[Loop]
           /\ distance'[Loop] = distance[Loop]
           /\ argument'[Loop] = argument[Loop]
           /\ result'[Loop] = result[Loop]
    PROVE  OvershootInv'
<1>1. Reached(Reach)'
  BY DEF OvershootInv, Reached, Span
<1>2. ASSUME pc[Loop] = "travel"
      PROVE  LoopIsFresh' \/ Reached(Reach - MaxTravel)'
  <2>1. CASE LoopIsFresh
    BY <2>1 DEF LoopIsFresh, Clamped
  <2>2. CASE Reached(Reach - MaxTravel)
    BY <2>2 DEF Reached, Span
  <2> QED
    BY <1>2, <2>1, <2>2 DEF OvershootInv
<1>3. pc'[Loop] = "commit" => result'[Loop] \in Span(Reach)'
  BY DEF OvershootInv, Span
<1> QED
  BY <1>1, <1>2, <1>3 DEF OvershootInv

\* A handler that has its result widens the reach by the travel it may have made.
LEMMA ResultStep ==
    ASSUME OvershootInv, ServiceTypeOK', NEW self \in Handlers,
           Spent' = Spent + 1, Reach' = Reach + MaxTravel,
           effectiveSetpoint' = effectiveSetpoint,
           \A r \in Int : r + MaxTravel >= 0 /\ effectiveSetpoint \in Span(r)
                => result'[self] \in Span(r + MaxTravel),
           \A other \in Handlers \ {self} :
                pc'[other] = pc[other] /\ result'[other] = result[other],
           /\ pc'[Loop] = pc[Loop]
           /\ distance'[Loop] = distance[Loop]
           /\ argument'[Loop] = argument[Loop]
           /\ result'[Loop] = result[Loop]
    PROVE  OvershootInv'
<1>1. Reach \in Nat /\ MaxTravel \in Nat
  BY ConstraintAssumption DEF OvershootInv, Reach
<1>2. ASSUME NEW r \in Int, r + MaxTravel >= 0, Reached(r)
      PROVE  /\ effectiveSetpoint' \in Span(r + MaxTravel)
             /\ \A other \in Handlers :
                    pc'[other] = "commit" => result'[other] \in Span(r + MaxTravel)
  <2>1. Span(r) \subseteq Span(r + MaxTravel)
    BY <1>1, SpanGrows
  <2>2. result'[self] \in Span(r + MaxTravel)
    BY <1>2 DEF Reached
  <2> QED
    BY <1>2, <2>1, <2>2 DEF Reached
<1>3. Reached(Reach)'
  <2>1. Reached(Reach) /\ Reach + MaxTravel >= 0
    BY <1>1 DEF OvershootInv
  <2> QED
    BY <1>1, <1>2, <2>1 DEF Reached, Span
<1>4. ASSUME pc[Loop] = "travel"
      PROVE  LoopIsFresh' \/ Reached(Reach - MaxTravel)'
  <2>1. CASE LoopIsFresh
    BY <2>1 DEF LoopIsFresh, Clamped
  <2>2. CASE Reached(Reach - MaxTravel)
    <3>1. Reach' - MaxTravel = (Reach - MaxTravel) + MaxTravel
      BY <1>1
    <3>2. Reach - MaxTravel \in Int /\ (Reach - MaxTravel) + MaxTravel >= 0
      BY <1>1
    <3> QED
      BY <1>2, <2>2, <3>1, <3>2 DEF Reached, Span
  <2> QED
    BY <1>4, <2>1, <2>2 DEF OvershootInv
<1>5. pc'[Loop] = "commit" => result'[Loop] \in Span(Reach)'
  <2>1. Span(Reach) \subseteq Span(Reach + MaxTravel)
    BY <1>1, SpanGrows
  <2> QED
    BY <2>1 DEF OvershootInv, Span
<1>6. Spent' \in Nat
  BY DEF OvershootInv
<1> QED
  BY <1>3, <1>4, <1>5, <1>6 DEF OvershootInv

\* A handler that writes its result leaves the loop a travel: the loop may have
\* measured before, but what was written was in the reach of before.
LEMMA WriteStep ==
    ASSUME OvershootInv, ServiceTypeOK', NEW self \in Handlers, Commit(self),
           Spent' = Spent + 1, Reach' = Reach + MaxTravel,
           /\ pc'[Loop] = pc[Loop]
           /\ distance'[Loop] = distance[Loop]
           /\ argument'[Loop] = argument[Loop]
           /\ result'[Loop] = result[Loop]
    PROVE  OvershootInv'
<1>1. Reach \in Nat /\ MaxTravel \in Nat
  BY ConstraintAssumption DEF OvershootInv, Reach
<1>2. effectiveSetpoint' \in Span(Reach)
  BY DEF OvershootInv, Reached, Commit
<1>3. ASSUME NEW other \in Handlers, pc'[other] = "commit"
      PROVE  result'[other] \in Span(Reach)
  <2>1. pc[other] = "commit"
    BY <1>3 DEF Commit, GoTo, OvershootInv, ServiceTypeOK, Threads
  <2> QED
    BY <2>1 DEF OvershootInv, Reached, Commit
<1>4. Reach' - MaxTravel = Reach
  BY <1>1
<1>5. Reached(Reach - MaxTravel)'
  BY <1>2, <1>3, <1>4 DEF Reached, Span
<1>6. Span(Reach) \subseteq Span(Reach + MaxTravel)
  BY <1>1, SpanGrows
<1>7. Reached(Reach)'
  BY <1>2, <1>3, <1>6 DEF Reached, Span
<1>8. pc'[Loop] = "commit" => result'[Loop] \in Span(Reach)'
  BY <1>6 DEF OvershootInv, Span
<1>9. Spent' \in Nat
  BY DEF OvershootInv
<1> QED
  BY <1>5, <1>7, <1>8, <1>9 DEF OvershootInv

\* Every step of a handler keeps the invariant.
LEMMA HandlersKeepReach ==
    ASSUME OvershootInv, ServiceTypeOK', Enabled, NEW self \in Handlers,
           HandlerStep(self) \/ \E setpoint \in Requests : Post(self, setpoint)
    PROVE  OvershootInv'
<1>1. ServiceTypeOK /\ self \in Threads
  BY DEF OvershootInv, Threads
<1>2. /\ pc'[Loop] = pc[Loop]
      /\ distance'[Loop] = distance[Loop]
      /\ argument'[Loop] = argument[Loop]
      /\ result'[Loop] = result[Loop]
  BY <1>1, LoopStays
<1>3. ASSUME NEW setpoint \in Requests, Post(self, setpoint) PROVE OvershootInv'
  <2>1. Spent' = Spent /\ Reach' = Reach
    BY <1>1, <1>3, PostSpendsNothing
  <2>2. effectiveSetpoint' = effectiveSetpoint /\ result' = result
    BY <1>3 DEF Post
  <2>3. \A other \in Handlers : pc'[other] = "commit" => pc[other] = "commit"
    BY <1>1, <1>3 DEF Post, GoTo, ServiceTypeOK, Threads
  <2> QED
    BY <1>2, <2>1, <2>2, <2>3, QuietStep
<1>4. CASE Stamp(self)
  <2>1. \A other \in Handlers :
            pc'[other] = IF other = self THEN "measure" ELSE pc[other]
    BY <1>1, <1>4 DEF Stamp, GoTo, ServiceTypeOK, Threads
  <2>2. Spent' = Spent /\ Reach' = Reach
    BY <1>1, <1>4, <2>1, NothingSpent DEF Stamp
  <2>3. effectiveSetpoint' = effectiveSetpoint /\ result' = result
    BY <1>4 DEF Stamp
  <2> QED
    BY <1>2, <2>1, <2>2, <2>3, QuietStep
<1>5. CASE Measure(self) /\ GoTo(self, "travel") /\ UNCHANGED result
  <2>1. \A other \in Handlers :
            pc'[other] = IF other = self THEN "travel" ELSE pc[other]
    BY <1>1, <1>5 DEF GoTo, ServiceTypeOK, Threads
  <2>2. Spent' = Spent /\ Reach' = Reach
    BY <1>1, <1>5, <2>1, NothingSpent DEF Measure, shared
  <2>3. effectiveSetpoint' = effectiveSetpoint /\ result' = result
    BY <1>5 DEF Measure, shared
  <2> QED
    BY <1>2, <2>1, <2>2, <2>3, QuietStep
<1>6. CASE Measure(self) /\ GoTo(self, "commit")
           /\ result' = [result EXCEPT ![self] = Clamped(argument[self])]
  <2>1. Spent' = Spent + 1 /\ Reach' = Reach + MaxTravel
    BY <1>1, <1>6, HandlerSpends DEF Measure, shared
  <2>2. \A other \in Handlers \ {self} :
            pc'[other] = pc[other] /\ result'[other] = result[other]
    BY <1>1, <1>6 DEF GoTo, ServiceTypeOK, Threads
  <2>3. result'[self] = Clamped(argument[self])
    BY <1>1, <1>6 DEF ServiceTypeOK
  <2>4. argument[self] \in Int
    BY <1>1, SetpointsAreIntegers DEF ServiceTypeOK
  <2>5. \A r \in Int : r + MaxTravel >= 0 => result'[self] \in Span(r + MaxTravel)
    BY <2>3, <2>4, ClampedWithin, ConstraintAssumption
  <2>6. effectiveSetpoint' = effectiveSetpoint
    BY <1>6 DEF Measure, shared
  <2> QED
    BY <1>2, <2>1, <2>2, <2>5, <2>6, ResultStep
<1>7. CASE Travel(self)
  <2>1. Spent' = Spent + 1 /\ Reach' = Reach + MaxTravel
    BY <1>1, <1>7, HandlerSpends DEF Travel, shared
  <2>2. \A other \in Handlers \ {self} :
            pc'[other] = pc[other] /\ result'[other] = result[other]
    BY <1>1, <1>7 DEF Travel, GoTo, ServiceTypeOK, Threads
  <2>3. \A r \in Int : effectiveSetpoint \in Span(r) => result'[self] \in Span(r + MaxTravel)
    BY <1>1, <1>7, TravelWithin
  <2>4. effectiveSetpoint' = effectiveSetpoint
    BY <1>7 DEF Travel, shared
  <2> QED
    BY <1>2, <2>1, <2>2, <2>3, <2>4, ResultStep
<1>8. CASE Commit(self)
  <2>1. self # Loop
    BY ServiceAssumption
  <2>2. Spent' = Spent + 1 /\ Reach' = Reach + MaxTravel
    BY <1>1, <1>8, <2>1, HandlerSpends DEF Commit
  <2> QED
    BY <1>2, <1>8, <2>2, WriteStep
<1>9. Measure(self) =>
        \/ GoTo(self, "travel") /\ UNCHANGED result
        \/ GoTo(self, "commit") /\ result' = [result EXCEPT ![self] = Clamped(argument[self])]
  BY DEF Measure
<1> QED
  BY <1>3, <1>4, <1>5, <1>6, <1>7, <1>8, <1>9 DEF HandlerStep, Constrain

\* What the loop does moves no handler and spends nothing.
LEMMA HandlersStay ==
    ASSUME ServiceTypeOK, LoopStep
    PROVE  /\ Spent' = Spent /\ Reach' = Reach
           /\ \A self \in Handlers : pc'[self] = pc[self] /\ result'[self] = result[self]
<1>1. \A self \in Handlers : pc'[self] = pc[self] /\ result'[self] = result[self]
  <2>1. \A self \in Handlers : self # Loop /\ self \in Threads
    BY ServiceAssumption DEF Threads
  <2>2. CASE Tick
    BY <2>1, <2>2 DEF Tick, GoTo, ServiceTypeOK
  <2>3. CASE Measure(Loop)
    BY <2>1, <2>3 DEF Measure, GoTo, ServiceTypeOK
  <2>4. CASE Travel(Loop)
    BY <2>1, <2>4 DEF Travel, GoTo, ServiceTypeOK
  <2>5. CASE Commit(Loop)
    BY <2>1, <2>5 DEF Commit, GoTo, ServiceTypeOK
  <2>6. CASE Publish
    BY <2>1, <2>6 DEF Publish, GoTo, ServiceTypeOK
  <2> QED
    BY <2>2, <2>3, <2>4, <2>5, <2>6 DEF LoopStep, Constrain
<1>2. posts' = posts
  BY DEF LoopStep, Constrain, Tick, Measure, Travel, Commit, Publish, shared
<1> QED
  BY <1>1, <1>2, NothingSpent

\* Every step of the loop keeps the invariant: a travel from where it measured
\* stops short of the target, and one from elsewhere was left to it.
LEMMA LoopKeepsReach ==
    ASSUME OvershootInv, ServiceTypeOK', Enabled, LoopStep
    PROVE  OvershootInv'
<1>1. ServiceTypeOK /\ Loop \in Threads
  BY DEF OvershootInv, Threads
<1>2. /\ Spent' = Spent /\ Reach' = Reach
      /\ \A self \in Handlers : pc'[self] = pc[self] /\ result'[self] = result[self]
  BY <1>1, HandlersStay
<1>3. Reach \in Nat /\ MaxTravel \in Nat
  BY ConstraintAssumption DEF OvershootInv, Reach
<1>4. ASSUME effectiveSetpoint' = effectiveSetpoint
      PROVE  Reached(Reach)'
  BY <1>2, <1>4 DEF OvershootInv, Reached, Span
<1>5. CASE Tick
  <2>1. pc'[Loop] = "measure" /\ effectiveSetpoint' = effectiveSetpoint
    BY <1>1, <1>5 DEF Tick, GoTo, shared, ServiceTypeOK
  <2> QED
    BY <1>2, <1>4, <2>1 DEF OvershootInv
<1>6. CASE Measure(Loop)
  <2>1. effectiveSetpoint' = effectiveSetpoint /\ argument' = argument
    BY <1>6 DEF Measure, shared
  <2>2. argument[Loop] \in Int /\ Clamped(argument[Loop]) \in Int
    BY <1>1, SetpointsAreIntegers, ClampedInRange, ConstraintAssumption DEF ServiceTypeOK
  <2>3. distance'[Loop] = Clamped(argument[Loop]) - effectiveSetpoint
    BY <1>1, <1>6 DEF Measure, ServiceTypeOK
  <2>4. CASE TooFar(Loop) /\ GoTo(Loop, "travel")
    <3>1. pc'[Loop] = "travel"
      BY <1>1, <2>4 DEF GoTo, ServiceTypeOK
    <3>2. distance'[Loop] > MaxTravel \/ distance'[Loop] < -MaxTravel
      BY <2>4 DEF TooFar
    <3>3. LoopIsFresh'
      BY <1>1, <2>1, <2>2, <2>3 DEF LoopIsFresh, Clamped, ServiceTypeOK
    <3> QED
      BY <1>2, <1>4, <2>1, <3>1, <3>2, <3>3 DEF OvershootInv
  <2>5. CASE GoTo(Loop, "commit") /\ result' = [result EXCEPT ![Loop] = Clamped(argument[Loop])]
    <3>1. pc'[Loop] = "commit" /\ result'[Loop] = Clamped(argument[Loop])
      BY <1>1, <2>5 DEF GoTo, ServiceTypeOK
    <3>2. result'[Loop] \in Span(Reach)
      BY <1>3, <2>2, <3>1, ClampedWithin
    <3> QED
      BY <1>2, <1>4, <2>1, <3>1, <3>2 DEF OvershootInv, Span
  <2> QED
    BY <1>6, <2>4, <2>5 DEF Measure
<1>7. CASE Travel(Loop)
  <2>1. pc[Loop] = "travel" /\ pc'[Loop] = "commit" /\ effectiveSetpoint' = effectiveSetpoint
    BY <1>1, <1>7 DEF Travel, GoTo, shared, ServiceTypeOK
  <2>2. result'[Loop] \in Span(Reach)
    <3>1. CASE LoopIsFresh
      <4>1. Clamped(argument[Loop]) \in SetpointMin..SetpointMax
        BY <1>1, SetpointsAreIntegers, ClampedInRange DEF ServiceTypeOK
      <4>2. distance[Loop] > MaxTravel \/ distance[Loop] < -MaxTravel
        BY <2>1 DEF OvershootInv
      <4>3. result'[Loop] = effectiveSetpoint +
                (IF distance[Loop] > 0 THEN MaxTravel ELSE -MaxTravel)
        BY <1>1, <1>7 DEF Travel, ServiceTypeOK
      <4>4. effectiveSetpoint \in Span(Reach) /\ effectiveSetpoint \in Int
            /\ distance[Loop] \in Int
        BY <1>1 DEF OvershootInv, Reached, ServiceTypeOK
      <4> QED
        BY <1>3, <3>1, <4>1, <4>2, <4>3, <4>4, ConstraintAssumption DEF LoopIsFresh, Span
    <3>2. CASE Reached(Reach - MaxTravel)
      <4>1. result'[Loop] \in Span((Reach - MaxTravel) + MaxTravel)
        BY <1>1, <1>3, <1>7, <3>2, TravelWithin DEF Reached
      <4>2. (Reach - MaxTravel) + MaxTravel = Reach
        BY <1>3
      <4> QED
        BY <4>1, <4>2
    <3> QED
      BY <2>1, <3>1, <3>2 DEF OvershootInv
  <2> QED
    BY <1>2, <1>4, <2>1, <2>2 DEF OvershootInv, Span
<1>8. CASE Commit(Loop)
  <2>1. pc'[Loop] = "publish" /\ effectiveSetpoint' = result[Loop]
        /\ result[Loop] \in Span(Reach)
    BY <1>1, <1>8 DEF Commit, GoTo, OvershootInv, ServiceTypeOK
  <2>2. Reached(Reach)'
    BY <1>2, <2>1 DEF OvershootInv, Reached, Span
  <2> QED
    BY <1>2, <2>1, <2>2 DEF OvershootInv
<1>9. CASE Publish
  <2>1. pc'[Loop] = "idle" /\ effectiveSetpoint' = effectiveSetpoint
    BY <1>1, <1>9 DEF Publish, GoTo, ServiceTypeOK
  <2> QED
    BY <1>2, <1>4, <2>1 DEF OvershootInv
<1> QED
  BY <1>5, <1>6, <1>7, <1>8, <1>9 DEF LoopStep, Constrain

\* At first everything lies in the range and nothing is spent.
LEMMA InitialReach ==
    ASSUME Enabled, OperatorInRange, Init
    PROVE  OvershootInv
<1>1. ServiceTypeOK
  BY InitTyped
<1>2. Busy = {} /\ Early = {}
  BY DEF Init, Busy, Early, Threads
<1>3. Spent = 0
  BY <1>2, FS_EmptySet DEF Spent, Init
<1>4. Reach = 0
  BY <1>3, ConstraintAssumption DEF Reach
<1>5. effectiveSetpoint \in SetpointMin..SetpointMax
  BY ConstraintAssumption
  DEF Init, FirstEffective, OperatorInRange, Toward, Clamped, Within, Lesser, Greater
<1>6. \A self \in Threads : pc[self] = "idle"
  BY DEF Init
<1> QED
  BY <1>1, <1>3, <1>4, <1>5, <1>6, ConstraintAssumption
  DEF OvershootInv, Reached, Span, Threads

\* Every step that carries something further out has been paid for.
LEMMA StepKeepsReach ==
    ASSUME Enabled, OvershootInv, [Next]_serviceVars
    PROVE  OvershootInv'
<1>1. ServiceTypeOK'
  BY StepKeepsTypes DEF OvershootInv
<1>2. CASE LoopStep
  BY <1>1, <1>2, LoopKeepsReach
<1>3. ASSUME NEW self \in Handlers,
             HandlerStep(self) \/ \E setpoint \in Requests : Post(self, setpoint)
      PROVE  OvershootInv'
  BY <1>1, <1>3, HandlersKeepReach
<1>4. CASE UNCHANGED serviceVars
  <2>1. ServiceTypeOK
    BY DEF OvershootInv
  <2>2. Spent' = Spent /\ Reach' = Reach
    BY <1>4, <2>1, NothingSpent DEF serviceVars, shared
  <2> QED
    BY <1>1, <1>4, <2>2, QuietStep DEF serviceVars, shared
<1> QED
  BY <1>2, <1>3, <1>4 DEF Next

\* The handlers that are early are busy: what is spent is less than what is
\* allowed.
LEMMA ReachIsBounded == OvershootInv => OvershootIsBounded
<1> SUFFICES ASSUME OvershootInv PROVE OvershootIsBounded
  OBVIOUS
<1> DEFINE Allowed == 2 * posts - Cardinality(Busy)
<1>1. ServiceTypeOK
  BY DEF OvershootInv
<1>2. Allowed \in Int /\ Spent <= Allowed /\ Spent \in Int
  BY <1>1, ReachTyped, ServiceAssumption DEF Spent, ServiceTypeOK
<1>3. Spent * MaxTravel <= Allowed * MaxTravel
  <2> HIDE DEF Allowed
  <2> QED
    BY <1>2, ConstraintAssumption
<1>4. Reach \in Int /\ Excess \in Int /\ Reach <= Excess
  BY <1>1, <1>2, <1>3, ReachTyped, ConstraintAssumption DEF Reach, Excess
<1>5. effectiveSetpoint \in Span(Excess)
  BY <1>4, SpanGrows DEF OvershootInv, Reached
<1> QED
  BY <1>5 DEF OvershootIsBounded, Span

\* The race between the event loop and the handlers carries the effective
\* setpoint at most two travels for each post past the range of BS-01, however
\* many handlers there are, whatever is posted and for however long it runs.
THEOREM OvershootBounded ==
    ASSUME Enabled, OperatorInRange
    PROVE  Spec => []OvershootIsBounded
<1>1. Init => OvershootInv
  BY InitialReach
<1>2. OvershootInv /\ [Next]_serviceVars => OvershootInv'
  BY StepKeepsReach
<1>3. OvershootInv => OvershootIsBounded
  BY ReachIsBounded
<1> QED
  BY <1>1, <1>2, <1>3, PTL DEF Spec
=============================================================================
