------------------------- MODULE ServiceChainProofs -------------------------
(***************************************************************************)
(* Proofs about the polling chain, for any number of losses, restarts and  *)
(* runs of the controller.  A sample only ever moves outwards, and by one  *)
(* place at a time; so what is held further out is never newer than what   *)
(* is held further in, whatever restarts or gets lost on the way.          *)
(***************************************************************************)
EXTENDS ServiceChain, SequenceTheorems, TLAPS

\* The places a sample passes through, outwards: the controller (0), then a
\* response on its way to a hop and the hop's cached one.  The historian archives
\* (5) what it has cached before the broker asks for it.
Rank == [hop \in Chain |->
            CASE hop = "hmi"        -> 2
              [] hop = "historian"  -> 4
              [] hop = "idmz"       -> 7
              [] hop = "enterprise" -> 9]

Places == 0..9

Last == archive[Len(archive)]

\* The sample is held at the place.
Holds(place, sample) ==
    \/ place = 0 /\ sample = current
    \/ place = 5 /\ archive # <<>> /\ sample = Last
    \/ \E hop \in Hops :
        \/ place = Rank[hop] /\ Shown(latest[hop]) /\ sample = latest[hop].sample
        \/ /\ place = Rank[hop] - 1
           /\ \E response \in flight[hop] : Shown(response) /\ sample = response.sample

\* Nothing is older than what is held at the same place or further out.
Ordered ==
    \A inner, outer \in Places :
        inner <= outer =>
            \A first, second \in Sample :
                Holds(inner, first) /\ Holds(outer, second) => ~Before(first, second)

\* Between the controller and the archive there is a sample in every response.
NeverEmpty ==
    \A hop \in Hops \cap {"hmi", "historian"} :
        /\ latest[hop] # None => Shown(latest[hop])
        /\ \A response \in flight[hop] : Shown(response)

ChainInv == ChainTypeOK /\ Ordered /\ NeverEmpty /\ ArchiveIsOrdered

-----------------------------------------------------------------------------
\* The places of a hop, and where it takes its samples from.
LEMMA RankIs ==
    ASSUME NEW hop \in Hops
    PROVE  /\ hop \in {"hmi", "historian", "idmz", "enterprise"}
           /\ hop = "hmi"        => Rank[hop] = 2 /\ Upstream[hop] = "controller"
           /\ hop = "historian"  => Rank[hop] = 4 /\ Upstream[hop] = "hmi"
           /\ hop = "idmz"       => Rank[hop] = 7 /\ Upstream[hop] = "historian"
           /\ hop = "enterprise" => Rank[hop] = 9 /\ Upstream[hop] = "idmz"
           /\ Rank[hop] \in Places /\ Rank[hop] - 1 \in Places /\ Rank[hop] - 2 \in Places
           /\ Upstream[hop] \in Hops \cup {"controller"}
BY ChainAssumption DEF Chain, Rank, Upstream, Places

\* No two places of two hops are one, and none is the archive or the controller.
LEMMA RanksDiffer ==
    ASSUME NEW hop \in Hops
    PROVE  /\ \A other \in Hops \ {hop} :
                /\ Rank[other] \notin {Rank[hop], Rank[hop] - 1}
                /\ Rank[other] - 1 \notin {Rank[hop], Rank[hop] - 1}
           /\ {Rank[hop], Rank[hop] - 1} \cap {0, 5} = {}
BY RankIs

\* What is held is a sample.
LEMMA HeldAreSamples ==
    ASSUME ChainTypeOK, NEW place, NEW sample, Holds(place, sample)
    PROVE  sample \in Sample /\ place \in Places
<1>1. archive # <<>> => Last \in Sample
  BY EmptySeq DEF ChainTypeOK, Last
<1>2. \A response : response \in Response \cup {None} /\ Shown(response) => response.sample \in Sample
  BY DEF Shown, Response
<1>3. \A hop \in Hops : latest[hop] \in Response \cup {None} /\ flight[hop] \subseteq Response
  BY DEF ChainTypeOK
<1>4. CASE place = 0 /\ sample = current
  BY <1>4 DEF ChainTypeOK, Places
<1>5. CASE place = 5 /\ archive # <<>> /\ sample = Last
  BY <1>1, <1>5 DEF Places
<1>6. ASSUME NEW hop \in Hops, place = Rank[hop], Shown(latest[hop]), sample = latest[hop].sample
      PROVE  sample \in Sample /\ place \in Places
  BY <1>2, <1>3, <1>6, RankIs
<1>7. ASSUME NEW hop \in Hops, place = Rank[hop] - 1, NEW response \in flight[hop],
             Shown(response), sample = response.sample
      PROVE  sample \in Sample /\ place \in Places
  BY <1>2, <1>3, <1>7, RankIs
<1> QED
  BY <1>4, <1>5, <1>6, <1>7 DEF Holds

\* Times and runs are numbers, so the order of samples is a linear one.
LEMMA SampleFields ==
    ASSUME NEW sample \in Sample
    PROVE  sample.run \in Nat /\ sample.t \in Nat
BY ChainAssumption DEF Sample

\* If every sample held comes from the place or from one further in, and no two of
\* them overtake each other, then nothing is out of order.
LEMMA StaysOrdered ==
    ASSUME Ordered, NEW from \in [Places -> Places],
           \A inner, outer \in Places : inner <= outer => from[inner] <= from[outer],
           \A place \in Places : \A sample : Holds(place, sample)' => Holds(from[place], sample)
    PROVE  Ordered'
<1> SUFFICES ASSUME NEW inner \in Places, NEW outer \in Places, inner <= outer,
                    NEW first \in Sample, NEW second \in Sample,
                    Holds(inner, first)', Holds(outer, second)'
             PROVE  ~Before(first, second)
  BY DEF Ordered
<1>1. Holds(from[inner], first) /\ Holds(from[outer], second)
  OBVIOUS
<1>2. from[inner] \in Places /\ from[outer] \in Places /\ from[inner] <= from[outer]
  OBVIOUS
<1> QED
  BY <1>1, <1>2 DEF Ordered

\* The places of one step: a hop's own moved up from the one before.
Shift(place) == [p \in Places |-> IF p = place THEN place - 1 ELSE p]

\* A shift keeps the order of places.
LEMMA ShiftIsMonotone ==
    ASSUME NEW place \in Places, place - 1 \in Places
    PROVE  /\ Shift(place) \in [Places -> Places]
           /\ \A inner, outer \in Places :
                inner <= outer => Shift(place)[inner] <= Shift(place)[outer]
           /\ \A p \in Places : Shift(place)[p] = IF p = place THEN place - 1 ELSE p
BY DEF Shift, Places
-----------------------------------------------------------------------------
(* The steps: how they move samples.                                        *)

\* The clock goes on, or begins anew in a later run: the controller's snapshot is
\* newer than any before it.
LEMMA ControllerSteps ==
    ASSUME ChainInv, Step \/ RestartController
    PROVE  ChainInv'
<1>0. UNCHANGED <<latest, failures, flight, archive, losses, restarts>>
  BY DEF Step, RestartController
<1>1. /\ latest' = latest /\ failures' = failures /\ flight' = flight
      /\ archive' = archive /\ losses' = losses /\ restarts' = restarts
      /\ current \in Sample /\ current' \in Sample /\ Before(current, current')
  <2>1. current \in Sample
    BY DEF ChainInv, ChainTypeOK
  <2>2. CASE Step
    BY <2>1, <2>2, ChainAssumption DEF Step, Sample, Before
  <2>3. CASE RestartController
    BY <2>1, <2>3, ChainAssumption DEF RestartController, Sample, Before
  <2> QED
    BY <1>0, <2>1, <2>2, <2>3
<1>2. Before(current, current')
  BY <1>1
<1>3. ChainTypeOK'
  BY <1>1 DEF ChainInv, ChainTypeOK
<1>4. \A place, sample :
        Holds(place, sample)' => Holds(place, sample) \/ (place = 0 /\ sample = current')
  BY <1>1 DEF Holds, Last
<1>5. Ordered'
  <2> SUFFICES ASSUME NEW inner \in Places, NEW outer \in Places, inner <= outer,
                      NEW first \in Sample, NEW second \in Sample,
                      Holds(inner, first)', Holds(outer, second)'
               PROVE  ~Before(first, second)
    BY DEF Ordered
  <2>1. 0 \in Places /\ outer >= 0 /\ Holds(0, current)
    BY DEF Places, Holds
  <2>2. CASE Holds(inner, first) /\ Holds(outer, second)
    BY <2>2 DEF ChainInv, Ordered
  <2>3. CASE first = current' /\ Holds(outer, second)
    <3>1. ~Before(current, second)
      BY <1>1, <2>1, <2>3 DEF ChainInv, Ordered
    <3> QED
      BY <1>1, <1>2, <2>3, <3>1, SampleFields DEF Before
  <2>4. CASE outer = 0 /\ second = current' /\ first = current'
    BY <1>1, <2>4, SampleFields DEF Before
  <2>5. CASE outer = 0 /\ second = current' /\ inner = 0 /\ Holds(inner, first)
    <3>1. Holds(0, first)'
      BY <2>5
    <3>2. first = current'
      <4>1. \A hop \in Hops : Rank[hop] # 0 /\ Rank[hop] - 1 # 0
        BY RanksDiffer
      <4> QED
        BY <3>1, <4>1 DEF Holds
    <3> QED
      BY <1>1, <2>5, <3>2, SampleFields DEF Before
  <2> QED
    BY <1>4, <2>2, <2>3, <2>4, <2>5 DEF Places
<1>6. NeverEmpty' /\ ArchiveIsOrdered'
  BY <1>1 DEF ChainInv, NeverEmpty, ArchiveIsOrdered
<1> QED
  BY <1>3, <1>5, <1>6 DEF ChainInv

\* What a hop is told is what is held at the place inwards of it.
LEMMA NewestIsHeld ==
    ASSUME ChainInv, NEW hop \in Hops, Answers(Upstream[hop]),
           NEW sample, sample = Newest(Upstream[hop])
    PROVE  /\ sample \in Sample \cup {None}
           /\ sample # None => Holds(Rank[hop] - 2, sample)
           /\ hop \in {"hmi", "historian"} => sample # None
<1>1. ChainTypeOK /\ NeverEmpty /\ current # None
  BY ChainAssumption DEF ChainInv, ChainTypeOK
<1>2. CASE hop = "hmi"
  <2>1. sample = current /\ Rank[hop] - 2 = 0
    BY <1>2, RankIs DEF Newest
  <2>2. Holds(0, current) /\ current \in Sample
    BY <1>1 DEF Holds, ChainTypeOK
  <2> QED
    BY <1>1, <2>1, <2>2
<1>3. CASE hop \in {"historian", "enterprise"}
  <2> DEFINE inner == Upstream[hop]
  <2>1. /\ inner \in Hops /\ inner \in {"hmi", "idmz"} /\ Rank[inner] = Rank[hop] - 2
        /\ hop = "historian" => inner = "hmi"
    BY <1>3, RankIs
  <2>2. sample = latest[inner].sample /\ latest[inner] # None
    BY <2>1 DEF Newest, Answers
  <2> HIDE DEF inner
  <2>3. latest[inner] \in Response
    BY <1>1, <2>1, <2>2 DEF ChainTypeOK
  <2>4. sample \in Sample \cup {None} /\ (sample # None => Shown(latest[inner]))
    BY <2>2, <2>3 DEF Response, Shown
  <2>5. hop = "historian" => sample # None
    BY <1>1, <2>1, <2>2 DEF NeverEmpty, Shown
  <2>6. Shown(latest[inner]) => Holds(Rank[inner], sample)
    BY <2>1, <2>2, Zenon DEF Holds
  <2> QED
    BY <1>3, <2>1, <2>4, <2>5, <2>6
<1>4. CASE hop = "idmz"
  <2>1. sample = (IF archive = <<>> THEN None ELSE Last) /\ Rank[hop] - 2 = 5
    BY <1>4, RankIs DEF Newest, Last
  <2>2. archive # <<>> => Holds(5, Last) /\ Last \in Sample
    BY <1>1, EmptySeq DEF Holds, ChainTypeOK, Last
  <2> QED
    BY <1>4, <2>1, <2>2
<1> QED
  BY <1>2, <1>3, <1>4, RankIs

\* A response is on its way to the hop: what the service inwards of it holds.
LEMMA AskMoves ==
    ASSUME ChainInv, NEW hop \in Hops, Ask(hop)
    PROVE  /\ ChainTypeOK'
           /\ NeverEmpty'
           /\ \A place \in Places : \A sample :
                Holds(place, sample)' => Holds(Shift(Rank[hop] - 1)[place], sample)
<1>1. /\ current' = current /\ latest' = latest /\ failures' = failures
      /\ archive' = archive /\ losses' = losses /\ restarts' = restarts
      /\ flight' = [flight EXCEPT ![hop] = {Answer(Upstream[hop])}]
      /\ Answers(Upstream[hop])
  BY DEF Ask
<1>2. ChainTypeOK /\ NeverEmpty
  BY DEF ChainInv
<1>3. PICK value : value = Newest(Upstream[hop])
  OBVIOUS
<1>4. /\ value \in Sample \cup {None}
      /\ value # None => Holds(Rank[hop] - 2, value)
      /\ hop \in {"hmi", "historian"} => value # None
  BY <1>1, <1>3, NewestIsHeld
<1>5. Aged(Upstream[hop]) \in BOOLEAN
  <2>1. \A service \in Hops : latest[service] \in Response \cup {None}
    BY <1>2 DEF ChainTypeOK
  <2> QED
    BY <2>1, RankIs DEF Aged, Healthy, Response
<1>6. PICK answer \in Response : answer = Answer(Upstream[hop]) /\ answer.sample = value
  <2>1. PICK aged \in BOOLEAN : aged = Aged(Upstream[hop])
    BY <1>5
  <2>2. Answer(Upstream[hop]) = [sample |-> value, aged |-> aged]
    BY <1>3, <2>1, Zenon DEF Answer
  <2>3. [sample |-> value, aged |-> aged] \in Response
    BY <1>4 DEF Response
  <2> QED
    BY <2>2, <2>3
<1>7. Shown(answer) <=> value # None
  BY <1>6, ChainAssumption DEF Shown
<1>8. /\ flight' \in [Hops -> SUBSET Response] /\ flight'[hop] = {answer}
      /\ \A other \in Hops \ {hop} : flight'[other] = flight[other]
  BY <1>1, <1>2, <1>6 DEF ChainTypeOK
<1>9. ChainTypeOK'
  BY <1>1, <1>2, <1>8 DEF ChainTypeOK
<1>10. NeverEmpty'
  BY <1>1, <1>2, <1>4, <1>7, <1>8 DEF NeverEmpty
<1>11. ASSUME NEW place \in Places, NEW sample, Holds(place, sample)'
       PROVE  Holds(Shift(Rank[hop] - 1)[place], sample)
  <2> DEFINE own == Rank[hop] - 1
  <2>1. own \in Places /\ own - 1 \in Places /\ own - 1 = Rank[hop] - 2
    BY RankIs DEF Places
  <2>2. Shift(own)[place] = IF place = own THEN own - 1 ELSE place
    BY <2>1, ShiftIsMonotone
  <2> HIDE DEF own
  <2>3. CASE place = own
    <3>1. PICK other \in Hops : place = Rank[other] - 1 /\ \E response \in flight'[other] :
                                    Shown(response) /\ sample = response.sample
      <4>1. place # 0 /\ place # 5
        BY <2>3, RanksDiffer DEF own
      <4>2. \A other \in Hops : place # Rank[other]
        BY <2>3, RanksDiffer, RankIs DEF own, Places
      <4> QED
        BY <1>11, <4>1, <4>2 DEF Holds
    <3>2. other = hop
      BY <2>3, <3>1, RanksDiffer DEF own
    <3>3. Shown(answer) /\ sample = value
      BY <1>6, <1>8, <3>1, <3>2
    <3> QED
      BY <1>4, <1>7, <2>1, <2>2, <2>3, <3>3 DEF own
  <2>4. CASE place # own
    <3>1. \A other \in Hops : place = Rank[other] - 1 => flight'[other] = flight[other]
      BY <1>8, <2>4 DEF own
    <3>2. Holds(place, sample)
      BY <1>1, <1>11, <3>1 DEF Holds, Last
    <3> QED
      BY <2>2, <2>4, <3>2 DEF own
  <2> QED
    BY <2>2, <2>3, <2>4 DEF own
<1> QED
  BY <1>9, <1>10, <1>11
\* What the archive is after a sample that is not older than its last: it is in
\* order, and ends with the sample or is what it was.
LEMMA ArchivedIs ==
    ASSUME ChainTypeOK, ArchiveIsOrdered, NEW sample \in Sample,
           archive # <<>> => ~Before(sample, Last),
           NEW after, after = Archived(sample)
    PROVE  /\ after \in Seq(Sample) /\ Len(after) <= Depth
           /\ \A i \in 2..Len(after) : Before(after[i - 1], after[i])
           /\ \/ after = archive
              \/ after # <<>> /\ after[Len(after)] = sample
<1>1. archive \in Seq(Sample) /\ Len(archive) \in Nat /\ Len(archive) <= Depth
      /\ Depth \in Nat \ {0}
  BY ChainAssumption DEF ChainTypeOK
<1>2. \A i \in 2..Len(archive) : Before(archive[i - 1], archive[i])
  BY DEF ArchiveIsOrdered
<1>3. CASE after = archive
  BY <1>1, <1>2, <1>3
<1>4. CASE after # archive
  <2> DEFINE all == Append(archive, sample)
             n == Len(archive)
  <2>1. /\ after = IF Len(all) > Depth THEN Tail(all) ELSE all
        /\ archive = <<>> \/ archive[Len(archive)].t # sample.t
    BY <1>4 DEF Archived
  <2>2. /\ all \in Seq(Sample) /\ Len(all) = n + 1 /\ all[n + 1] = sample
        /\ \A i \in 1..n : all[i] = archive[i]
    BY <1>1
  <2>3. n > 0 => Before(archive[n], sample)
    <3> SUFFICES ASSUME n > 0 PROVE Before(archive[n], sample)
      OBVIOUS
    <3>1. archive # <<>> /\ archive[n] \in Sample
      BY <1>1
    <3>2. ~Before(sample, archive[n]) /\ archive[n].t # sample.t
      BY <2>1, <3>1 DEF Last
    <3> QED
      BY <3>1, <3>2, SampleFields DEF Before
  <2> HIDE DEF all
  <2>4. \A i \in 2..(n + 1) : Before(all[i - 1], all[i])
    <3> SUFFICES ASSUME NEW i \in 2..(n + 1) PROVE Before(all[i - 1], all[i])
      OBVIOUS
    <3>1. CASE i = n + 1
      <4>1. n > 0 /\ i - 1 \in 1..n /\ i - 1 = n
        BY <1>1, <3>1
      <4> QED
        BY <2>2, <2>3, <3>1, <4>1
    <3>2. CASE i # n + 1
      <4>1. i \in 2..n /\ i \in 1..n /\ i - 1 \in 1..n
        BY <1>1, <3>2
      <4> QED
        BY <1>2, <2>2, <4>1
    <3> QED
      BY <3>1, <3>2
  <2>5. CASE Len(all) > Depth
    <3>1. /\ Tail(all) \in Seq(Sample) /\ Len(Tail(all)) = n
          /\ \A i \in 1..n : Tail(all)[i] = all[i + 1]
      BY <1>1, <2>2
    <3>2. n = Depth /\ n >= 1
      BY <1>1, <2>2, <2>5
    <3>3. \A i \in 2..n : Before(Tail(all)[i - 1], Tail(all)[i])
      <4> SUFFICES ASSUME NEW i \in 2..n PROVE Before(Tail(all)[i - 1], Tail(all)[i])
        OBVIOUS
      <4>1. i - 1 \in 1..n /\ i \in 1..n /\ i + 1 \in 2..(n + 1) /\ (i - 1) + 1 = i
            /\ (i + 1) - 1 = i
        BY <1>1
      <4> QED
        BY <2>4, <3>1, <4>1
    <3>4. Tail(all)[n] = sample /\ Tail(all) # <<>>
      BY <2>2, <3>1, <3>2
    <3>5. after = Tail(all)
      BY <2>1, <2>5
    <3> QED
      BY <3>1, <3>2, <3>3, <3>4, <3>5
  <2>6. CASE ~(Len(all) > Depth)
    <3>1. after = all /\ all # <<>>
      BY <2>1, <2>2, <2>6, <1>1
    <3> QED
      BY <1>1, <2>2, <2>4, <2>6, <3>1
  <2> QED
    BY <2>5, <2>6
<1> QED
  BY <1>3, <1>4

\* The response becomes the cached one, and the historian archives its sample.
LEMMA TakeMoves ==
    ASSUME ChainInv, NEW hop \in Hops, Take(hop)
    PROVE  /\ ChainTypeOK' /\ NeverEmpty' /\ ArchiveIsOrdered' /\ Ordered'
           /\ Shown(latest[hop]) /\ Shown(latest'[hop])
                => ~Before(latest'[hop].sample, latest[hop].sample)
           /\ \A other \in Hops \ {hop} : latest'[other] = latest[other]
<1>1. PICK response \in flight[hop] :
        /\ latest' = [latest EXCEPT ![hop] = response]
        /\ failures' = [failures EXCEPT ![hop] = 0]
        /\ archive' = IF hop = "historian" THEN Archived(response.sample) ELSE archive
        /\ flight' = [flight EXCEPT ![hop] = @ \ {response}]
        /\ current' = current /\ losses' = losses /\ restarts' = restarts
  BY DEF Take
<1>2. ChainTypeOK /\ NeverEmpty /\ Ordered /\ ArchiveIsOrdered
  BY DEF ChainInv
<1>3. /\ response \in Response
      /\ latest' \in [Hops -> Response \cup {None}] /\ latest'[hop] = response
      /\ flight' \in [Hops -> SUBSET Response] /\ flight'[hop] \subseteq flight[hop]
      /\ \A other \in Hops \ {hop} : latest'[other] = latest[other] /\ flight'[other] = flight[other]
  BY <1>1, <1>2 DEF ChainTypeOK
<1>4. failures' \in [Hops -> 0..UnhealthyAfter]
  BY <1>1, <1>2, ChainAssumption DEF ChainTypeOK
<1>5. NeverEmpty'
  BY <1>2, <1>3 DEF NeverEmpty
<1>6. Shown(response) => response.sample \in Sample /\ Holds(Rank[hop] - 1, response.sample)
  BY <1>3 DEF Holds, Shown, Response
<1>7. hop = "historian" => Shown(response) /\ Rank[hop] = 4
  BY <1>2, RankIs DEF NeverEmpty
<1>8. /\ archive' \in Seq(Sample) /\ Len(archive') <= Depth
      /\ \A i \in 2..Len(archive') : Before(archive'[i - 1], archive'[i])
      /\ \/ archive' = archive
         \/ /\ hop = "historian"
            /\ archive' # <<>> /\ archive'[Len(archive')] = response.sample
  <2>1. CASE hop = "historian"
    <3>1. response.sample \in Sample /\ Holds(3, response.sample)
      BY <1>6, <1>7, <2>1
    <3>2. archive # <<>> => ~Before(response.sample, Last)
      <4> SUFFICES ASSUME archive # <<>> PROVE ~Before(response.sample, Last)
        OBVIOUS
      <4>1. Holds(5, Last)
        BY DEF Holds
      <4>2. Last \in Sample /\ 3 \in Places /\ 5 \in Places /\ 3 <= 5
        BY <1>2, <4>1, HeldAreSamples DEF Places
      <4> QED
        BY <1>2, <3>1, <4>1, <4>2 DEF Ordered
    <3>3. archive' = Archived(response.sample)
      BY <1>1, <2>1
    <3> QED
      BY <1>2, <2>1, <3>1, <3>2, <3>3, ArchivedIs
  <2>2. CASE hop # "historian"
    BY <1>1, <1>2, <2>2 DEF ChainTypeOK, ArchiveIsOrdered
  <2> QED
    BY <2>1, <2>2
<1>9. ChainTypeOK'
  BY <1>1, <1>2, <1>3, <1>4, <1>8 DEF ChainTypeOK
<1>10. ArchiveIsOrdered'
  BY <1>8 DEF ArchiveIsOrdered
<1>11. Shown(latest[hop]) /\ Shown(response) => ~Before(response.sample, latest[hop].sample)
  <2> SUFFICES ASSUME Shown(latest[hop]), Shown(response)
               PROVE  ~Before(response.sample, latest[hop].sample)
    OBVIOUS
  <2>1. Holds(Rank[hop], latest[hop].sample)
    BY DEF Holds
  <2>2. latest[hop].sample \in Sample
    BY <1>2, <2>1, HeldAreSamples
  <2>3. Rank[hop] \in Places /\ Rank[hop] - 1 \in Places /\ Rank[hop] - 1 <= Rank[hop]
    BY RankIs DEF Places
  <2> QED
    BY <1>2, <1>6, <2>1, <2>2, <2>3 DEF Ordered
<1>12. Ordered'
  <2> DEFINE archived(place) == place = 5 /\ hop = "historian" /\ archive' # archive
             from == [place \in Places |->
                        IF place = Rank[hop] \/ archived(place) THEN Rank[hop] - 1 ELSE place]
  <2>1. from \in [Places -> Places]
    BY RankIs DEF Places
  <2>2. \A inner, outer \in Places : inner <= outer => from[inner] <= from[outer]
    BY RankIs, <1>7 DEF Places
  <2>3. ASSUME NEW place \in Places, NEW sample, Holds(place, sample)'
        PROVE  Holds(from[place], sample)
    <3>1. CASE place = Rank[hop]
      <4>1. place # 0 /\ place # 5 /\ \A other \in Hops : place # Rank[other] - 1
        BY <3>1, RanksDiffer, RankIs DEF Places
      <4>2. \A other \in Hops : place = Rank[other] => other = hop
        BY <3>1, RanksDiffer
      <4>3. Shown(response) /\ sample = response.sample
        BY <1>3, <2>3, <4>1, <4>2 DEF Holds
      <4> QED
        BY <1>6, <3>1, <4>3
    <3>2. CASE archived(place)
      <4>1. sample = response.sample /\ Shown(response)
        <5>1. \A other \in Hops : Rank[other] # 5 /\ Rank[other] - 1 # 5
          BY RanksDiffer
        <5> QED
          BY <1>7, <1>8, <2>3, <3>2, <5>1 DEF Holds, Last
      <4> QED
        BY <1>6, <3>2, <4>1
    <3>3. CASE place # Rank[hop] /\ ~archived(place)
      <4>1. \A other \in Hops : place = Rank[other] => latest'[other] = latest[other]
        BY <1>3, <3>3
      <4>2. \A other \in Hops : flight'[other] \subseteq flight[other]
        BY <1>3
      <4>3. place = 5 => archive' = archive
        BY <1>8, <3>3
      <4>4. Holds(place, sample)
        BY <1>1, <2>3, <4>1, <4>2, <4>3 DEF Holds, Last
      <4> QED
        BY <3>3, <4>4
    <3> QED
      BY <3>1, <3>2, <3>3
  <2> HIDE DEF from
  <2> QED
    BY <1>2, <2>1, <2>2, <2>3, StaysOrdered
<1> QED
  BY <1>3, <1>5, <1>9, <1>10, <1>11, <1>12
\* What is lost with a response or a process is held nowhere else instead.
LEMMA LossMoves ==
    ASSUME ChainInv, NEW hop \in Hops, Refused(hop) \/ Lose(hop) \/ Restart(hop)
    PROVE  /\ ChainInv'
           /\ latest'[hop] \in {latest[hop], None}
           /\ \A other \in Hops \ {hop} : latest'[other] = latest[other]
<1>1. ChainTypeOK /\ NeverEmpty /\ Ordered /\ ArchiveIsOrdered
  BY DEF ChainInv
<1>2. /\ current' = current
      /\ latest' = latest \/ latest' = [latest EXCEPT ![hop] = None]
      /\ flight' = [flight EXCEPT ![hop] = {}]
      /\ archive' = archive \/ archive' = <<>>
      /\ failures' \in [Hops -> 0..UnhealthyAfter]
      /\ losses' \in 0..MaxLosses /\ restarts' \in 0..MaxRestarts
  <2>1. failures \in [Hops -> 0..UnhealthyAfter] /\ losses \in 0..MaxLosses
        /\ restarts \in 0..MaxRestarts
    BY <1>1 DEF ChainTypeOK
  <2>2. CASE CountFailure(hop) /\ (losses' = losses \/ (losses' = losses + 1 /\ losses < MaxLosses))
    BY <2>1, <2>2, ChainAssumption DEF CountFailure, Older
  <2>3. CASE Restart(hop)
    BY <2>1, <2>3, ChainAssumption DEF Restart
  <2> QED
    BY <2>2, <2>3 DEF Refused, Lose
<1>3. /\ latest' \in [Hops -> Response \cup {None}] /\ latest'[hop] \in {latest[hop], None}
      /\ flight' \in [Hops -> SUBSET Response] /\ flight'[hop] = {}
      /\ \A other \in Hops \ {hop} : latest'[other] = latest[other] /\ flight'[other] = flight[other]
  BY <1>1, <1>2 DEF ChainTypeOK
<1>4. archive' \in Seq(Sample) /\ Len(archive') <= Depth
  <2>1. archive \in Seq(Sample) /\ Len(archive) <= Depth
    BY <1>1 DEF ChainTypeOK
  <2>2. <<>> \in Seq(Sample) /\ Len(<<>>) = 0 /\ 0 <= Depth
    BY EmptySeq, ChainAssumption
  <2> QED
    BY <1>2, <2>1, <2>2
<1>5. ChainTypeOK'
  BY <1>1, <1>2, <1>3, <1>4 DEF ChainTypeOK
<1>6. NeverEmpty'
  BY <1>1, <1>3 DEF NeverEmpty, Shown
<1>7. ArchiveIsOrdered'
  BY <1>1, <1>2, EmptySeq DEF ArchiveIsOrdered
<1>8. \A place, sample : Holds(place, sample)' => Holds(place, sample)
  <2>1. \A other \in Hops : /\ flight'[other] \subseteq flight[other]
                            /\ Shown(latest'[other]) => latest'[other] = latest[other]
    BY <1>3 DEF Shown
  <2>2. archive' # <<>> => archive' = archive
    BY <1>2
  <2> QED
    BY <1>2, <2>1, <2>2 DEF Holds, Last
<1>9. Ordered'
  <2> DEFINE from == [place \in Places |-> place]
  <2>1. /\ from \in [Places -> Places]
        /\ \A place \in Places : from[place] = place
    OBVIOUS
  <2> HIDE DEF from
  <2> QED
    BY <1>1, <1>8, <2>1, StaysOrdered
<1> QED
  BY <1>3, <1>5, <1>6, <1>7, <1>9 DEF ChainInv

-----------------------------------------------------------------------------
(* The theorems.                                                            *)

\* No step of any service disorders the chain or sends a view back.
LEMMA ChainStep ==
    ChainInv /\ [Next]_chainVars =>
        /\ ChainInv'
        /\ \A hop \in Hops :
            Shown(latest[hop]) /\ Shown(latest'[hop])
                => ~Before(latest'[hop].sample, latest[hop].sample)
<1> DEFINE Forward == \A hop \in Hops :
                        Shown(latest[hop]) /\ Shown(latest'[hop])
                            => ~Before(latest'[hop].sample, latest[hop].sample)
<1> SUFFICES ASSUME ChainInv, [Next]_chainVars PROVE ChainInv' /\ Forward
  OBVIOUS
<1>1. \A hop \in Hops : Shown(latest[hop]) => ~Before(latest[hop].sample, latest[hop].sample)
  <2> SUFFICES ASSUME NEW hop \in Hops, Shown(latest[hop])
               PROVE  ~Before(latest[hop].sample, latest[hop].sample)
    OBVIOUS
  <2>1. Holds(Rank[hop], latest[hop].sample)
    BY DEF Holds
  <2>2. latest[hop].sample \in Sample
    BY <2>1, HeldAreSamples DEF ChainInv
  <2> QED
    BY <2>2, SampleFields DEF Before
<1>2. latest' = latest => Forward
  BY <1>1
<1>3. CASE Step \/ RestartController
  <2>1. latest' = latest
    BY <1>3 DEF Step, RestartController
  <2> QED
    BY <1>2, <1>3, <2>1, ControllerSteps
<1>4. ASSUME NEW hop \in Hops, Ask(hop) PROVE ChainInv' /\ Forward
  <2> DEFINE own == Rank[hop] - 1
  <2>1. own \in Places /\ own - 1 \in Places
    BY RankIs DEF Places
  <2>2. Ordered'
    BY <1>4, <2>1, AskMoves, ShiftIsMonotone, StaysOrdered DEF ChainInv
  <2>3. latest' = latest /\ archive' = archive
    BY <1>4 DEF Ask
  <2>4. ArchiveIsOrdered'
    BY <2>3 DEF ChainInv, ArchiveIsOrdered
  <2> QED
    BY <1>2, <1>4, <2>2, <2>3, <2>4, AskMoves DEF ChainInv
<1>5. ASSUME NEW hop \in Hops, Take(hop) PROVE ChainInv' /\ Forward
  BY <1>1, <1>5, TakeMoves DEF ChainInv
<1>6. ASSUME NEW hop \in Hops, Refused(hop) \/ Lose(hop) \/ Restart(hop)
      PROVE  ChainInv' /\ Forward
  <2>1. \A other \in Hops : Shown(latest'[other]) => latest'[other] = latest[other]
    BY <1>6, LossMoves DEF Shown
  <2> QED
    BY <1>1, <1>6, <2>1, LossMoves
<1>7. CASE UNCHANGED chainVars
  <2>1. /\ current' = current /\ latest' = latest /\ failures' = failures /\ flight' = flight
        /\ archive' = archive /\ losses' = losses /\ restarts' = restarts
    BY <1>7 DEF chainVars
  <2>2. ChainTypeOK' /\ NeverEmpty' /\ ArchiveIsOrdered'
    BY <2>1 DEF ChainInv, ChainTypeOK, NeverEmpty, ArchiveIsOrdered
  <2>3. Ordered'
    BY <2>1 DEF ChainInv, Ordered, Holds, Last
  <2> QED
    BY <1>2, <2>1, <2>2, <2>3 DEF ChainInv
<1> QED
  BY <1>3, <1>4, <1>5, <1>6, <1>7 DEF Next, Poll

\* Nothing is held anywhere at first but the controller's own snapshot.
LEMMA ChainStarts == Init => ChainInv
<1> SUFFICES ASSUME Init PROVE ChainInv
  OBVIOUS
<1>1. current \in Sample
  BY ChainAssumption DEF Init, Sample
<1>2. ChainTypeOK
  BY <1>1, EmptySeq, ChainAssumption DEF Init, ChainTypeOK
<1>3. NeverEmpty /\ ArchiveIsOrdered
  BY EmptySeq DEF Init, NeverEmpty, ArchiveIsOrdered
<1>4. \A place, sample : Holds(place, sample) => sample = current
  BY DEF Init, Holds, Shown
<1>5. ~Before(current, current)
  BY <1>1, SampleFields DEF Before
<1> QED
  BY <1>2, <1>3, <1>4, <1>5 DEF ChainInv, Ordered

\* What is held further out is never newer: the chain keeps its order.
THEOREM ChainKeepsOrder == Spec => []ChainInv
<1> QED
  BY ChainStarts, ChainStep, PTL DEF Spec

\* Every service of the chain keeps its types, and the archive its depth.
THEOREM ChainTyped == Spec => []ChainTypeOK
<1>1. ChainInv => ChainTypeOK
  BY DEF ChainInv
<1> QED
  BY <1>1, ChainKeepsOrder, PTL

\* The archive has every sample at most once and in the order of the process.
THEOREM ArchiveKeepsOrder == Spec => []ArchiveIsOrdered
<1>1. ChainInv => ArchiveIsOrdered
  BY DEF ChainInv
<1> QED
  BY <1>1, ChainKeepsOrder, PTL

\* No view ever goes back in time.
THEOREM ViewsGoForward == Spec => ViewsNeverGoBack
<1>1. ChainInv /\ [Next]_chainVars =>
        [\A hop \in Hops :
            Shown(latest[hop]) /\ Shown(latest'[hop])
                => ~Before(latest'[hop].sample, latest[hop].sample)]_latest
  BY ChainStep
<1> QED
  BY <1>1, ChainKeepsOrder, PTL DEF Spec, ViewsNeverGoBack
=============================================================================
