----------------------- MODULE ScenarioEffectsProofs -----------------------
(***************************************************************************)
(* Proofs about the scenario engine, for every scenario it may load and    *)
(* every timestep: what is in force on a field is what the schedule says,  *)
(* and nothing of an effect is left behind.                                *)
(***************************************************************************)
EXTENDS ScenarioEffects, SequenceTheorems, TLAPS

-----------------------------------------------------------------------------
(* What the schedule has done, at any point of the pass over it.            *)

Entries == DOMAIN scenario

\* An entry the pass has seen is as the time says.  The others are as the time
\* said a timestep ago, and what is over stays over.
Timely ==
    \A i \in Entries :
        /\ status[i] # "pending" => Due(scenario[i])
        /\ i < item /\ status[i] = "pending" => ~Due(scenario[i])
        /\ i < item /\ status[i] = "active" => ~Expired(scenario[i])

\* What the loader does not check: that on one field an effect ends before the
\* next one starts ...
Apart ==
    \A events \in Scenarios : \A i, j \in DOMAIN events :
        i < j /\ Field(events[i]) = Field(events[j]) =>
            /\ events[i].duration # Forever
            /\ events[i].at + events[i].duration <= events[j].at

\* ... and that a ramp, which has no deactivate, is not meant to end.
RampsLast ==
    \A events \in Scenarios : \A i \in DOMAIN events :
        IsRamp(events[i]) => events[i].duration = Forever

\* On one field the entries take turns: what was before is over.
InTurn ==
    \A i, j \in Entries :
        i < j /\ Field(scenario[i]) = Field(scenario[j]) /\ status[j] # "pending"
            => status[i] = "over"

\* A field is as it was before all effects, but for the active one.
Untouched == \A field \in Fields : Active(field) = {} => plant[field] = Nominal[field]

\* An active entry remembers that value, and is in force; a ramp is where the
\* pass has put it.
InForce ==
    \A i \in Entries :
        status[i] = "active" =>
            /\ saved[i] = Nominal[Field(scenario[i])]
            /\ ~IsRamp(scenario[i]) => plant[Field(scenario[i])] = Imposed(scenario[i])
            /\ IsRamp(scenario[i]) /\ i < item /\ now >= scenario[i].at + scenario[i].ramp
                => plant[Field(scenario[i])] = scenario[i].target

TimelyInv == scenario \in Scenarios /\ EffectsTypeOK /\ Timely

FieldsInv == TimelyInv /\ InTurn /\ Untouched /\ InForce

-----------------------------------------------------------------------------
(* Events and their fields.                                                 *)

\* The parts of an event.
LEMMA EventFields ==
    ASSUME EffectsTypeOK, NEW i \in Entries
    PROVE  /\ scenario[i] \in EventType
           /\ Entries = 1..Len(scenario) /\ Len(scenario) \in Nat /\ i \in Nat
BY DEF EffectsTypeOK, Loadable, Entries

\* What an effect reaches, and what it sets it to.
LEMMA FieldTyped ==
    ASSUME NEW event \in EventType
    PROVE  /\ Field(event) \in Fields
           /\ Imposed(event) \in Int
           /\ \A found \in Int : Restored(event, found) \in Int
           /\ Field(event) \in {"frozen", "available"} =>
                /\ Imposed(event) \in {No, Yes} /\ ~IsRamp(event)
                /\ \A found : Restored(event, found) \in {No, Yes}
BY DEF EventType, Effects, Field, Fields, Imposed, Restored, IsRamp, No, Yes

\* Setting the field back restores what was there before all effects.
LEMMA RestoredIsNominal ==
    ASSUME NEW event \in EventType
    PROVE  Restored(event, Nominal[Field(event)]) = Nominal[Field(event)]
BY EffectsAssumption DEF EventType, Effects, Field, Restored

\* A whole number of times is divided without a remainder.
LEMMA WholeQuotient ==
    ASSUME NEW x \in Int, NEW r \in Nat \ {0}
    PROVE  (x * r) \div r = x
<1> DEFINE q == (x * r) \div r
<1>1. q \in Int /\ r * q <= x * r /\ x * r < r * (q + 1)
  <2>1. x * r \in Int
    OBVIOUS
  <2>2. PICK y \in Int : y = x * r
    BY <2>1
  <2>3. y \div r \in Int /\ r * (y \div r) <= y /\ y < r * ((y \div r) + 1)
    OBVIOUS
  <2> QED
    BY <2>2, <2>3
<1> HIDE DEF q
<1>2. ~(q > x)
  <2> SUFFICES ASSUME q >= x + 1 PROVE FALSE
    BY <1>1
  <2>1. r * q >= r * (x + 1)
    BY <1>1
  <2> QED
    BY <1>1, <2>1
<1>3. ~(q < x)
  <2> SUFFICES ASSUME q + 1 <= x PROVE FALSE
    BY <1>1
  <2>1. r * (q + 1) <= r * x
    BY <1>1
  <2> QED
    BY <1>1, <2>1
<1> QED
  BY <1>1, <1>2, <1>3 DEF q

\* An interpolated value is an integer, and past the end of the ramp its target.
LEMMA InterpolatedIs ==
    ASSUME NEW event \in EventType, NEW found \in Int, now \in Nat
    PROVE  /\ Interpolated(event, found) \in Int
           /\ now >= event.at + event.ramp => Interpolated(event, found) = event.target
<1>1. event.at \in Nat /\ event.ramp \in Nat \ {0} /\ event.target \in Int
  BY DEF EventType
<1>2. PICK x \in Int : x = event.target - found
  BY <1>1
<1>3. PICK elapsed \in Int : elapsed = Lesser(event.ramp, now - event.at)
  BY <1>1 DEF Lesser
<1>4. PICK y \in Int : y = x * elapsed
  OBVIOUS
<1>5. Interpolated(event, found) = found + y \div event.ramp
  BY <1>2, <1>3, <1>4 DEF Interpolated
<1>6. y \div event.ramp \in Int
  BY <1>1
<1>7. ASSUME now >= event.at + event.ramp PROVE Interpolated(event, found) = event.target
  <2>1. elapsed = event.ramp
    BY <1>1, <1>3, <1>7 DEF Lesser
  <2>2. y \div event.ramp = x
    BY <1>1, <1>4, <2>1, WholeQuotient
  <2> QED
    BY <1>1, <1>2, <1>5, <2>2
<1> QED
  BY <1>5, <1>6, <1>7
-----------------------------------------------------------------------------
(* One entry of the schedule.                                               *)

\* The entry is left alone: it is not due yet, or over.
LeftAlone(k) ==
    /\ \/ status[k] = "pending" /\ ~Due(scenario[k])
       \/ status[k] = "over"
    /\ status' = status /\ saved' = saved /\ plant' = plant

\* The entry is or becomes active with the value it found, and expires or ticks.
Found(k) == IF status[k] = "pending" THEN plant[Field(scenario[k])] ELSE saved[k]

Expires(k) ==
    /\ Expired(scenario[k]) /\ status'[k] = "over"
    /\ ~IsRamp(scenario[k]) =>
        plant'[Field(scenario[k])] = Restored(scenario[k], saved'[k])
    /\ IsRamp(scenario[k]) =>
        plant'[Field(scenario[k])] = plant[Field(scenario[k])]

Ticks(k) ==
    /\ ~Expired(scenario[k]) /\ status'[k] = "active"
    /\ IsRamp(scenario[k]) =>
        plant'[Field(scenario[k])] = Interpolated(scenario[k], saved'[k])
    /\ ~IsRamp(scenario[k]) =>
        plant'[Field(scenario[k])] = IF status[k] = "pending" THEN Imposed(scenario[k])
                                     ELSE plant[Field(scenario[k])]

Moved(k) ==
    /\ \/ status[k] = "pending" /\ Due(scenario[k])
       \/ status[k] = "active"
    /\ \A i \in Entries \ {k} : status'[i] = status[i] /\ saved'[i] = saved[i]
    /\ \A field \in Fields \ {Field(scenario[k])} : plant'[field] = plant[field]
    /\ DOMAIN status' = Entries /\ DOMAIN saved' = Entries /\ DOMAIN plant' = Fields
    /\ status' \in [Entries -> {"pending", "active", "over"}]
    /\ saved'[k] = Found(k)
    /\ Expires(k) \/ Ticks(k)

\* Activating an effect that is no ramp sets its field, and only that.
LEMMA ActivateIs ==
    ASSUME NEW event \in EventType, NEW values \in [Fields -> Int]
    PROVE  /\ Activate(event, values) \in [Fields -> Int]
           /\ Activate(event, values)[Field(event)] =
                IF IsRamp(event) THEN values[Field(event)] ELSE Imposed(event)
           /\ \A field \in Fields \ {Field(event)} :
                Activate(event, values)[field] = values[field]
BY FieldTyped DEF Activate

\* The same of a tick ...
LEMMA TickIs ==
    ASSUME NEW event \in EventType, NEW values \in [Fields -> Int], NEW found \in Int,
           now \in Nat
    PROVE  /\ Tick(event, values, found) \in [Fields -> Int]
           /\ Tick(event, values, found)[Field(event)] =
                IF IsRamp(event) THEN Interpolated(event, found) ELSE values[Field(event)]
           /\ \A field \in Fields \ {Field(event)} :
                Tick(event, values, found)[field] = values[field]
BY FieldTyped, InterpolatedIs DEF Tick

\* ... and of a deactivation.
LEMMA DeactivateIs ==
    ASSUME NEW event \in EventType, NEW values \in [Fields -> Int], NEW found \in Int
    PROVE  /\ Deactivate(event, values, found) \in [Fields -> Int]
           /\ Deactivate(event, values, found)[Field(event)] =
                IF IsRamp(event) THEN values[Field(event)] ELSE Restored(event, found)
           /\ \A field \in Fields \ {Field(event)} :
                Deactivate(event, values, found)[field] = values[field]
BY FieldTyped DEF Deactivate

\* The time is a whole number of timesteps.
LEMMA TimeIsNat == EffectsTypeOK => now \in Nat
<1> SUFFICES ASSUME EffectsTypeOK PROVE now \in Nat
  OBVIOUS
<1>1. PICK step \in 0..(StepCount - 1) : now = step * Timestep
  BY DEF EffectsTypeOK
<1>2. step \in Nat /\ Timestep \in Nat
  BY EffectsAssumption
<1>3. step * Timestep \in Nat
  BY <1>2
<1> QED
  BY <1>1, <1>3

\* What a pass does at one entry.
LEMMA OneEntry ==
    ASSUME EffectsTypeOK, Apply, NEW k, k = item
    PROVE  /\ k \in Entries /\ scenario' = scenario /\ now' = now /\ item' = k + 1
           /\ plant' \in [Fields -> Int] /\ saved' \in [Entries -> Int]
           /\ LeftAlone(k) \/ Moved(k)
<1>1. /\ k \in Entries /\ scenario' = scenario /\ now' = now /\ item' = k + 1
      /\ Begin(k) \/ Continue(k) \/ Pass(k)
  BY DEF Apply, Entries
<1>2. /\ status \in [Entries -> {"pending", "active", "over"}]
      /\ saved \in [Entries -> Int] /\ plant \in [Fields -> Int]
  BY DEF EffectsTypeOK, Entries
<1>3. PICK event \in EventType : event = scenario[k]
  BY <1>1, EventFields
<1>4. PICK field \in Fields : field = Field(event)
  BY FieldTyped
<1>5. CASE Pass(k)
  BY <1>1, <1>2, <1>5 DEF Pass, LeftAlone
<1>6. ASSUME NEW values \in [Fields -> Int], NEW found \in Int,
             Proceed(k, values, found),
             \A other \in Fields \ {field} : values[other] = plant[other],
             IsRamp(event) => values[field] = plant[field],
             ~IsRamp(event) => values[field] = IF status[k] = "pending" THEN Imposed(event)
                                               ELSE plant[field],
             saved' \in [Entries -> Int], saved'[k] = found, found = Found(k),
             \A i \in Entries \ {k} : saved'[i] = saved[i],
             (status[k] = "pending" /\ Due(event)) \/ status[k] = "active"
      PROVE  plant' \in [Fields -> Int] /\ saved' \in [Entries -> Int] /\ Moved(k)
  <2>0. /\ status' \in [Entries -> {"pending", "active", "over"}]
        /\ \A i \in Entries \ {k} : status'[i] = status[i]
    BY <1>1, <1>2, <1>6 DEF Proceed
  <2>1. CASE Expired(event) /\ plant' = Deactivate(event, values, found) /\ status'[k] = "over"
    <3>1. /\ plant' \in [Fields -> Int]
          /\ plant'[field] = IF IsRamp(event) THEN values[field] ELSE Restored(event, found)
          /\ \A other \in Fields \ {field} : plant'[other] = values[other]
      BY <1>4, <1>6, <2>1, DeactivateIs
    <3>2. Expires(k)
      BY <1>3, <1>4, <1>6, <2>1, <3>1 DEF Expires
    <3> QED
      BY <1>3, <1>4, <1>6, <2>0, <3>1, <3>2 DEF Moved
  <2>2. CASE ~Expired(event) /\ plant' = Tick(event, values, found) /\ status'[k] = "active"
    <3>1. /\ plant' \in [Fields -> Int]
          /\ plant'[field] = IF IsRamp(event) THEN Interpolated(event, found) ELSE values[field]
          /\ \A other \in Fields \ {field} : plant'[other] = values[other]
      BY <1>4, <1>6, <2>2, TickIs, TimeIsNat
    <3>2. Ticks(k)
      BY <1>3, <1>4, <1>6, <2>2, <3>1 DEF Ticks
    <3> QED
      BY <1>3, <1>4, <1>6, <2>0, <3>1, <3>2 DEF Moved
  <2> QED
    BY <1>1, <1>2, <1>3, <1>6, <2>1, <2>2 DEF Proceed
<1>7. CASE Begin(k)
  <2>1. /\ status[k] = "pending" /\ Due(event)
        /\ saved' = [saved EXCEPT ![k] = plant[field]]
        /\ Proceed(k, Activate(event, plant), plant[field])
    BY <1>3, <1>4, <1>7 DEF Begin
  <2>2. /\ Activate(event, plant) \in [Fields -> Int]
        /\ Activate(event, plant)[field] = IF IsRamp(event) THEN plant[field] ELSE Imposed(event)
        /\ \A other \in Fields \ {field} : Activate(event, plant)[other] = plant[other]
    BY <1>2, <1>4, ActivateIs
  <2>3. /\ plant[field] \in Int /\ saved' \in [Entries -> Int] /\ saved'[k] = plant[field]
        /\ \A i \in Entries \ {k} : saved'[i] = saved[i]
    BY <1>1, <1>2, <2>1
  <2>4. plant[field] = Found(k)
    BY <1>3, <1>4, <2>1 DEF Found
  <2> QED
    BY <1>1, <1>6, <2>1, <2>2, <2>3, <2>4
<1>8. CASE Continue(k)
  <2>1. status[k] = "active" /\ saved' = saved /\ Proceed(k, plant, saved[k])
    BY <1>8 DEF Continue
  <2>2. saved[k] = Found(k) /\ saved[k] \in Int
    BY <1>1, <1>2, <2>1 DEF Found
  <2> QED
    BY <1>1, <1>2, <1>6, <2>1, <2>2
<1> QED
  BY <1>1, <1>5, <1>7, <1>8
-----------------------------------------------------------------------------
(* The time.                                                                *)

\* What was found when an entry began, and what is set now, are integers; a flag
\* stays a flag.
LEMMA FlagsStay ==
    ASSUME EffectsTypeOK, NEW k \in Entries, Moved(k),
           NEW flag \in {"frozen", "available"}
    PROVE  plant'[flag] \in {No, Yes}
<1>1. scenario[k] \in EventType
  BY EventFields
<1>2. flag \in Fields /\ plant[flag] \in {No, Yes}
  BY DEF EffectsTypeOK, Fields
<1>3. CASE flag = Field(scenario[k])
  BY <1>1, <1>2, <1>3, FieldTyped DEF Moved, Expires, Ticks
<1>4. CASE flag # Field(scenario[k])
  BY <1>2, <1>4 DEF Moved
<1> QED
  BY <1>3, <1>4

\* The next timestep is a timestep later.
LEMMA TimeStep ==
    ASSUME EffectsTypeOK, NextTimestep
    PROVE  /\ now' \in {step * Timestep : step \in 0..(StepCount - 1)}
           /\ now' \in Nat /\ now \in Nat /\ now' > now
<1>1. PICK step \in 0..(StepCount - 1) : now = step * Timestep
  BY DEF EffectsTypeOK
<1>2. step \in Nat /\ Timestep \in Nat \ {0} /\ StepCount \in Nat
  BY EffectsAssumption
<1>3. step # StepCount - 1
  BY <1>1 DEF NextTimestep, LastStep
<1>4. (step + 1) * Timestep = step * Timestep + Timestep /\ step * Timestep \in Nat
  BY <1>2
<1>5. now' = (step + 1) * Timestep
  BY <1>1, <1>4 DEF NextTimestep
<1>6. step + 1 \in 0..(StepCount - 1)
  BY <1>2, <1>3
<1>7. now \in Nat /\ now' = now + Timestep
  BY <1>1, <1>4 DEF NextTimestep
<1> QED
  BY <1>2, <1>5, <1>6, <1>7

\* Types and times hold at first ...
LEMMA TimelyStarts == Init => TimelyInv
<1> SUFFICES ASSUME Init PROVE TimelyInv
  OBVIOUS
<1>1. Loadable(scenario) /\ scenario \in Scenarios
  BY EffectsAssumption DEF Init
<1>2. Len(scenario) \in Nat
  BY <1>1 DEF Loadable
<1>3. now \in {step * Timestep : step \in 0..(StepCount - 1)}
  <2>1. 0 \in 0..(StepCount - 1) /\ 0 * Timestep = 0
    BY EffectsAssumption
  <2> QED
    BY <2>1 DEF Init
<1>4. /\ item \in 1..(Len(scenario) + 1)
      /\ status \in [DOMAIN scenario -> {"pending", "active", "over"}]
      /\ saved \in [DOMAIN scenario -> Int]
      /\ plant \in [Fields -> Int]
      /\ {plant["frozen"], plant["available"]} \subseteq {No, Yes}
  BY <1>2, EffectsAssumption DEF Init
<1>5. \A i \in Entries : ~(i < item) /\ status[i] = "pending"
  BY <1>1 DEF Init, Entries, Loadable
<1> QED
  BY <1>1, <1>3, <1>4, <1>5 DEF TimelyInv, EffectsTypeOK, Timely

\* ... and every step keeps them.
LEMMA TimelyStep == TimelyInv /\ [Next]_effectVars => TimelyInv'
<1> SUFFICES ASSUME TimelyInv, [Next]_effectVars PROVE TimelyInv'
  OBVIOUS
<1>0. EffectsTypeOK /\ Timely /\ scenario \in Scenarios
  BY DEF TimelyInv
<1>1. CASE Apply
  <2>1. PICK k : k = item
    OBVIOUS
  <2>2. /\ k \in Entries /\ scenario' = scenario /\ now' = now /\ item' = k + 1
        /\ plant' \in [Fields -> Int] /\ saved' \in [Entries -> Int]
        /\ LeftAlone(k) \/ Moved(k)
    BY <1>0, <1>1, <2>1, OneEntry
  <2>3. Entries = 1..Len(scenario) /\ Len(scenario) \in Nat /\ Entries' = Entries
    BY <1>0, <2>2, EventFields DEF Entries
  <2>4. {plant'["frozen"], plant'["available"]} \subseteq {No, Yes}
    <3>1. CASE LeftAlone(k)
      BY <1>0, <3>1 DEF LeftAlone, EffectsTypeOK
    <3>2. CASE Moved(k)
      BY <1>0, <2>2, <3>2, FlagsStay
    <3> QED
      BY <2>2, <3>1, <3>2
  <2>5. status' \in [Entries -> {"pending", "active", "over"}]
    BY <1>0, <2>2 DEF LeftAlone, Moved, EffectsTypeOK, Entries
  <2>6. EffectsTypeOK'
    BY <1>0, <2>2, <2>3, <2>4, <2>5 DEF EffectsTypeOK, Loadable, Entries
  <2>7. ASSUME NEW i \in Entries, i < k + 1
        PROVE  /\ status'[i] = "pending" => ~Due(scenario[i])
               /\ status'[i] = "active" => ~Expired(scenario[i])
    <3>1. CASE i = k
      BY <2>2, <3>1 DEF LeftAlone, Moved, Expires, Ticks
    <3>2. CASE i # k
      <4>1. i < item /\ status'[i] = status[i]
        BY <2>1, <2>2, <2>3, <2>7, <3>2 DEF LeftAlone, Moved
      <4> QED
        BY <1>0, <4>1 DEF Timely
    <3> QED
      BY <3>1, <3>2
  <2>8. ASSUME NEW i \in Entries, status'[i] # "pending"
        PROVE  Due(scenario[i])
    <3>1. CASE i = k
      BY <1>0, <2>2, <2>8, <3>1 DEF LeftAlone, Moved, Timely
    <3>2. CASE i # k
      BY <1>0, <2>2, <2>8, <3>2 DEF LeftAlone, Moved, Timely
    <3> QED
      BY <3>1, <3>2
  <2>9. Timely'
    BY <2>2, <2>3, <2>7, <2>8 DEF Timely, Due, Expired
  <2> QED
    BY <1>0, <2>2, <2>6, <2>9 DEF TimelyInv
<1>2. CASE NextTimestep
  <2>1. UNCHANGED <<scenario, status, saved, plant>> /\ item' = 1
    BY <1>2 DEF NextTimestep
  <2>2. Len(scenario) \in Nat
    BY <1>0 DEF EffectsTypeOK, Loadable
  <2>3. EffectsTypeOK'
    BY <1>0, <1>2, <2>1, <2>2, TimeStep DEF EffectsTypeOK, Loadable
  <2>4. \A i \in Entries : ~(i < 1)
    BY <1>0, EventFields
  <2>5. ASSUME NEW i \in Entries, status[i] # "pending"
        PROVE  now' >= scenario[i].at
    <3>1. now' \in Nat /\ now \in Nat /\ now' > now
      BY <1>0, <1>2, TimeStep
    <3>2. scenario[i].at \in Nat /\ now >= scenario[i].at
      BY <1>0, <2>5, EventFields DEF EventType, Timely, Due
    <3> QED
      BY <3>1, <3>2
  <2>6. Timely'
    BY <2>1, <2>4, <2>5 DEF Timely, Entries, Due
  <2> QED
    BY <1>0, <2>1, <2>3, <2>6 DEF TimelyInv
<1>3. CASE UNCHANGED effectVars
  BY <1>0, <1>3 DEF effectVars, TimelyInv, EffectsTypeOK, Loadable, Timely, Entries, Due, Expired
<1> QED
  BY <1>1, <1>2, <1>3 DEF Next

\* At every point of a pass, what the pass has seen is as the time says.
THEOREM EffectsAreTimely == Spec => []TimelyInv
<1> QED
  BY TimelyStarts, TimelyStep, PTL DEF Spec

\* The registry only ever touches the fields it may, with values of their types.
THEOREM EffectsTyped == Spec => []EffectsTypeOK
<1>1. TimelyInv => EffectsTypeOK
  BY DEF TimelyInv
<1> QED
  BY <1>1, EffectsAreTimely, PTL

\* In every timestep the events that have been activated are exactly those due.
THEOREM EventsAreOnTime == Spec => []EventsHappenOnTime
<1>1. ASSUME TimelyInv, Applied, NEW i \in Entries
      PROVE  status[i] # "pending" <=> scenario[i].at <= now
  <2>1. EffectsTypeOK /\ Timely
    BY <1>1 DEF TimelyInv
  <2>2. i < item
    BY <1>1, <2>1, EventFields DEF Applied
  <2>3. status[i] # "pending" <=> Due(scenario[i])
    BY <2>1, <2>2 DEF Timely
  <2>4. now \in Nat /\ scenario[i].at \in Nat
    BY <2>1, TimeIsNat, EventFields DEF EventType
  <2> QED
    BY <2>3, <2>4 DEF Due
<1>2. TimelyInv => EventsHappenOnTime
  BY <1>1 DEF EventsHappenOnTime, Entries
<1> QED
  BY <1>2, EffectsAreTimely, PTL
-----------------------------------------------------------------------------
(* The fields.                                                              *)

\* When an entry moves, the others of its field are done or have yet to come:
\* those before it have expired by the time it is due.
LEMMA TheOthersRest ==
    ASSUME Apart, TimelyInv, InTurn, NEW k \in Entries, k = item, Moved(k),
           NEW i \in Entries \ {k}, Field(scenario[i]) = Field(scenario[k])
    PROVE  IF i < k THEN status[i] = "over" ELSE status[i] = "pending"
<1>0. EffectsTypeOK /\ Timely /\ scenario \in Scenarios
  BY DEF TimelyInv
<1>1. /\ i \in Nat /\ k \in Nat /\ now \in Nat
      /\ scenario[i] \in EventType /\ scenario[k] \in EventType
      /\ status[i] \in {"pending", "active", "over"}
  BY <1>0, EventFields, TimeIsNat DEF EffectsTypeOK, Entries
<1>2. CASE i < k
  <2>1. CASE status[k] = "active"
    BY <1>2, <2>1 DEF InTurn
  <2>2. CASE status[k] # "active"
    <3>1. Due(scenario[k])
      BY <2>2 DEF Moved
    <3>2. /\ scenario[i].duration # Forever
          /\ scenario[i].at + scenario[i].duration <= scenario[k].at
      BY <1>0, <1>2 DEF Apart, Entries
    <3>3. scenario[i].at \in Nat /\ scenario[i].duration \in Nat /\ scenario[k].at \in Nat
      BY <1>1, <3>2 DEF EventType
    <3>4. Due(scenario[i]) /\ Expired(scenario[i])
      BY <1>1, <3>1, <3>2, <3>3 DEF Due, Expired
    <3> QED
      BY <1>0, <1>1, <1>2, <3>4 DEF Timely
  <2> QED
    BY <2>1, <2>2
<1>3. CASE ~(i < k)
  <2>1. k < i
    BY <1>1, <1>3
  <2>2. status[i] # "pending" => status[k] = "over"
    BY <2>1 DEF InTurn
  <2>3. status[k] # "over"
    BY DEF Moved
  <2> QED
    BY <1>3, <2>2, <2>3
<1> QED
  BY <1>2, <1>3

\* It then finds the field as it was before all effects, or has remembered that.
LEMMA FoundIsNominal ==
    ASSUME Apart, FieldsInv, NEW k \in Entries, k = item, Moved(k)
    PROVE  Found(k) = Nominal[Field(scenario[k])]
<1>0. TimelyInv /\ InTurn /\ Untouched /\ InForce /\ EffectsTypeOK
  BY DEF FieldsInv, TimelyInv
<1>1. CASE status[k] = "active"
  BY <1>0, <1>1 DEF Found, InForce
<1>2. CASE status[k] = "pending"
  <2>1. ASSUME NEW i \in Entries, status[i] = "active", Field(scenario[i]) = Field(scenario[k])
        PROVE  FALSE
    <3>1. i # k
      BY <1>2, <2>1
    <3>2. IF i < k THEN status[i] = "over" ELSE status[i] = "pending"
      BY <1>0, <2>1, <3>1, TheOthersRest
    <3> QED
      BY <2>1, <3>2
  <2>2. Active(Field(scenario[k])) = {}
    BY <2>1 DEF Active, Entries
  <2>3. Field(scenario[k]) \in Fields
    BY <1>0, EventFields, FieldTyped
  <2> QED
    BY <1>0, <1>2, <2>2, <2>3 DEF Found, Untouched
<1> QED
  BY <1>1, <1>2 DEF Moved

\* An entry that moves leaves every field as the schedule says.
LEMMA MoveKeepsFields ==
    ASSUME Apart, RampsLast, FieldsInv, NEW k \in Entries, k = item, Moved(k),
           scenario' = scenario, now' = now, item' = k + 1
    PROVE  InTurn' /\ Untouched' /\ InForce'
<1>0. TimelyInv /\ InTurn /\ Untouched /\ InForce /\ EffectsTypeOK /\ scenario \in Scenarios
  BY DEF FieldsInv, TimelyInv
<1>1. Entries' = Entries /\ \A i \in Entries : i \in Nat /\ scenario[i] \in EventType
  BY <1>0, EventFields DEF Entries
<1>2. PICK field \in Fields : field = Field(scenario[k])
  BY <1>1, FieldTyped
<1>3. \A i \in Entries \ {k} :
        /\ status'[i] = status[i] /\ saved'[i] = saved[i]
        /\ Field(scenario[i]) = field =>
            IF i < k THEN status[i] = "over" ELSE status[i] = "pending"
  BY <1>0, <1>2, TheOthersRest DEF Moved
<1>4. \A other \in Fields \ {field} : plant'[other] = plant[other]
  BY <1>2 DEF Moved
<1>5. saved'[k] = Nominal[field]
  BY <1>2, FoundIsNominal DEF Moved
<1>6. InTurn'
  <2> SUFFICES ASSUME NEW i \in Entries, NEW j \in Entries, i < j,
                      Field(scenario[i]) = Field(scenario[j]), status'[j] # "pending"
               PROVE  status'[i] = "over"
    BY <1>1 DEF InTurn
  <2>1. CASE j = k
    <3>1. i # k
      BY <1>1, <2>1
    <3> QED
      BY <1>2, <1>3, <2>1, <3>1
  <2>2. CASE i = k
    <3>1. j # k /\ ~(j < k)
      BY <1>1, <2>2
    <3> QED
      BY <1>2, <1>3, <2>2, <3>1
  <2>3. CASE i # k /\ j # k
    BY <1>0, <1>3, <2>3 DEF InTurn
  <2> QED
    BY <2>1, <2>2, <2>3
<1>7. Untouched'
  <2> SUFFICES ASSUME NEW other \in Fields,
                      \A i \in Entries :
                        ~(status'[i] = "active" /\ Field(scenario[i]) = other)
               PROVE  plant'[other] = Nominal[other]
    BY <1>1 DEF Untouched, Active, Entries
  <2>1. CASE other = field
    <3>1. Expires(k) /\ ~IsRamp(scenario[k])
      <4>1. Expires(k)
        BY <1>2, <2>1 DEF Moved, Ticks
      <4> QED
        BY <1>0, <4>1 DEF Expires, Expired, RampsLast, Entries
    <3>2. plant'[field] = Restored(scenario[k], Nominal[field])
      BY <1>2, <1>5, <3>1 DEF Expires
    <3> QED
      BY <1>1, <1>2, <2>1, <3>2, RestoredIsNominal
  <2>2. CASE other # field
    <3>1. \A i \in Entries : ~(status[i] = "active" /\ Field(scenario[i]) = other)
      BY <1>2, <1>3, <2>2
    <3>2. Active(other) = {}
      BY <3>1 DEF Active, Entries
    <3> QED
      BY <1>0, <1>4, <2>2, <3>2 DEF Untouched
  <2> QED
    BY <2>1, <2>2
<1>8. InForce'
  <2> SUFFICES ASSUME NEW i \in Entries, status'[i] = "active"
               PROVE  /\ saved'[i] = Nominal[Field(scenario[i])]
                      /\ ~IsRamp(scenario[i]) =>
                            plant'[Field(scenario[i])] = Imposed(scenario[i])
                      /\ IsRamp(scenario[i]) /\ i < k + 1
                                             /\ now >= scenario[i].at + scenario[i].ramp
                            => plant'[Field(scenario[i])] = scenario[i].target
    BY <1>1 DEF InForce
  <2>1. CASE i = k
    <3>1. Ticks(k)
      BY <2>1 DEF Moved, Expires
    <3>2. ~IsRamp(scenario[k]) => plant'[field] = Imposed(scenario[k])
      <4>1. CASE status[k] = "pending"
        BY <1>2, <3>1, <4>1 DEF Ticks
      <4>2. CASE status[k] = "active"
        BY <1>0, <1>2, <3>1, <4>2 DEF Ticks, InForce
      <4> QED
        BY <4>1, <4>2 DEF Moved
    <3>3. IsRamp(scenario[k]) /\ now >= scenario[k].at + scenario[k].ramp
            => plant'[field] = scenario[k].target
      <4>1. Nominal[field] \in Int /\ now \in Nat
        BY <1>0, TimeIsNat, EffectsAssumption
      <4>2. IsRamp(scenario[k]) => plant'[field] = Interpolated(scenario[k], Nominal[field])
        BY <1>2, <1>5, <3>1 DEF Ticks
      <4> QED
        BY <1>1, <4>1, <4>2, InterpolatedIs
    <3> QED
      BY <1>2, <1>5, <2>1, <3>2, <3>3
  <2>2. CASE i # k
    <3>1. status[i] = "active" /\ saved'[i] = saved[i]
      BY <1>3, <2>2
    <3>2. Field(scenario[i]) # field /\ Field(scenario[i]) \in Fields
      BY <1>1, <1>3, <2>2, <3>1, FieldTyped
    <3>3. plant'[Field(scenario[i])] = plant[Field(scenario[i])]
      BY <1>4, <3>2
    <3>4. i < k + 1 => i < item
      BY <1>1, <2>2
    <3> QED
      BY <1>0, <3>1, <3>3, <3>4 DEF InForce
  <2> QED
    BY <2>1, <2>2
<1> QED
  BY <1>6, <1>7, <1>8

\* Before the first pass no effect is active.
LEMMA FieldsStart == Init => FieldsInv
<1> SUFFICES ASSUME Init PROVE FieldsInv
  OBVIOUS
<1>1. TimelyInv
  BY TimelyStarts
<1>2. \A i \in Entries : status[i] = "pending"
  BY DEF Init, Entries
<1>3. plant = Nominal
  BY DEF Init
<1> QED
  BY <1>1, <1>2, <1>3 DEF FieldsInv, InTurn, Untouched, InForce

\* No step of the schedule leaves a field in another state than the schedule says.
LEMMA FieldsStep ==
    ASSUME Apart, RampsLast, FieldsInv, [Next]_effectVars
    PROVE  FieldsInv'
<1>0. TimelyInv /\ InTurn /\ Untouched /\ InForce /\ EffectsTypeOK
  BY DEF FieldsInv, TimelyInv
<1>1. TimelyInv'
  BY <1>0, TimelyStep
<1>2. CASE Apply
  <2>1. PICK k : k = item
    OBVIOUS
  <2>2. /\ k \in Entries /\ scenario' = scenario /\ now' = now /\ item' = k + 1
        /\ LeftAlone(k) \/ Moved(k)
    BY <1>0, <1>2, <2>1, OneEntry
  <2>3. CASE Moved(k)
    BY <1>1, <2>1, <2>2, <2>3, MoveKeepsFields DEF FieldsInv
  <2>4. CASE LeftAlone(k)
    <3>1. /\ status' = status /\ saved' = saved /\ plant' = plant
          /\ status[k] # "active"
      BY <2>4 DEF LeftAlone
    <3>2. InTurn' /\ Untouched'
      BY <1>0, <2>2, <3>1 DEF InTurn, Untouched, Active, Entries
    <3>3. \A i \in Entries : i # k /\ i < k + 1 => i < item
      BY <1>0, <2>1, <2>2, EventFields
    <3>4. InForce'
      BY <1>0, <2>2, <3>1, <3>3 DEF InForce, Entries
    <3> QED
      BY <1>1, <3>2, <3>4 DEF FieldsInv
  <2> QED
    BY <2>2, <2>3, <2>4
<1>3. CASE NextTimestep
  <2>1. UNCHANGED <<scenario, status, saved, plant>> /\ item' = 1
    BY <1>3 DEF NextTimestep
  <2>2. \A i \in Entries : ~(i < 1)
    BY <1>0, EventFields
  <2>3. InTurn' /\ Untouched'
    BY <1>0, <2>1 DEF InTurn, Untouched, Active, Entries
  <2>4. InForce'
    BY <1>0, <2>1, <2>2 DEF InForce, Entries
  <2> QED
    BY <1>1, <2>3, <2>4 DEF FieldsInv
<1>4. CASE UNCHANGED effectVars
  BY <1>0, <1>1, <1>4 DEF effectVars, FieldsInv, InTurn, Untouched, InForce, Active, Entries
<1> QED
  BY <1>2, <1>3, <1>4 DEF Next

\* A field is in the hands of one entry at most, and of nothing else.
THEOREM FieldsAreInTurn ==
    ASSUME Apart, RampsLast
    PROVE  Spec => []FieldsInv
<1> QED
  BY FieldsStart, FieldsStep, PTL DEF Spec

\* With no effect active on it, a field has the value it had before all effects:
\* schema.py's "the effect is reverted".
THEOREM FieldsAreReverted ==
    ASSUME Apart, RampsLast
    PROVE  Spec => []FieldsReverted
<1>1. FieldsInv => FieldsReverted
  BY DEF FieldsInv, Untouched, FieldsReverted
<1> QED
  BY <1>1, FieldsAreInTurn, PTL

\* The active effect of a field is in force.
THEOREM EffectsHold ==
    ASSUME Apart, RampsLast
    PROVE  Spec => []ActiveEffectsHold
<1>1. FieldsInv => ActiveEffectsHold
  <2> SUFFICES ASSUME FieldsInv, NEW i \in DOMAIN scenario, ~IsRamp(scenario[i]),
                      Latest(i)
               PROVE  plant[Field(scenario[i])] = Imposed(scenario[i])
    BY DEF ActiveEffectsHold
  <2> QED
    BY DEF Latest, FieldsInv, InForce, Entries
<1> QED
  BY <1>1, FieldsAreInTurn, PTL

\* A ramp arrives at its target in its own time, and stays there.
THEOREM RampsReachTarget ==
    ASSUME Apart, RampsLast
    PROVE  Spec => []RampsArrive
<1>1. FieldsInv => RampsArrive
  <2> SUFFICES ASSUME FieldsInv, Applied, NEW i \in DOMAIN scenario, status[i] = "active",
                      IsRamp(scenario[i]), now >= scenario[i].at + scenario[i].ramp
               PROVE  plant[Field(scenario[i])] = scenario[i].target
    BY DEF RampsArrive
  <2>1. EffectsTypeOK /\ i \in Entries
    BY DEF FieldsInv, TimelyInv, Entries
  <2>2. i < item
    BY <2>1, EventFields DEF Applied
  <2> QED
    BY <2>1, <2>2 DEF FieldsInv, InForce
<1> QED
  BY <1>1, FieldsAreInTurn, PTL
=============================================================================
