----------------------- MODULE SchedulingService_proofs -----------------------
(***************************************************************************)
(* What the scheduling service learns of signal groups at its start is     *)
(* right, for every map, every set of MAP messages that describe it, and   *)
(* any number of crashes: from the lanes of a message to the links, from   *)
(* these to what the intersection model writes, link by link, and to the   *)
(* answer that may come in between.                                        *)
(***************************************************************************)
EXTENDS SchedulingService, FiniteSetTheorems, WellFoundedInduction, TLAPS

\* What the theorems assume of the constants.
ServiceAssumption ==
  /\ IntersectionModelAssumption /\ SchedulingServiceAssumption
  /\ RightAssumption /\ DescriptionAssumption

-----------------------------------------------------------------------------
(***************************************************************************)
(* From a MAP message to the groups of the links.                          *)
(***************************************************************************)

\* A set of natural numbers that is not empty has a least element.
LEMMA LeastElement ==
  ASSUME NEW S \in SUBSET Nat, S # {}
  PROVE  \E x \in S : \A y \in S : x <= y
<1> DEFINE Less == {ss \in Nat \X Nat : ss[1] < ss[2]}
<1>1. IsWellFoundedOn(Less, Nat)
  BY NatLessThanWellFounded DEF OpToRel
<1>2. PICK x \in S : \A y \in S : ~ (<<y, x>> \in Less)
  BY <1>1, WFMin
<1>3. \A y \in S : y < x => <<y, x>> \in Less
  OBVIOUS
<1>4. \A y \in S : y \in Nat /\ ~ (y < x)
  BY <1>2, <1>3
<1>5. \A y \in S : x <= y
  BY <1>4
<1> QED
  BY <1>5

\* mapping_lane_id_2_lanelet_id: the lanelet of a lane, if any, is within reach.
LEMMA LaneletIsNear ==
  ASSUME NEW lane, NEW lanelets, lanelets # {},
         \A l \in lanelets : MeanDistance(lane, l) \in Nat,
         LaneletOf(lane, lanelets) # None
  PROVE  /\ LaneletOf(lane, lanelets) \in lanelets
         /\ MeanDistance(lane, LaneletOf(lane, lanelets)) < Reach
<1> DEFINE Distances == {MeanDistance(lane, l) : l \in lanelets}
           IsNearest(l) == \A other \in lanelets :
                             MeanDistance(lane, l) <= MeanDistance(lane, other)
           nearest == CHOOSE l \in lanelets : IsNearest(l)
<1>1. \E l \in lanelets : IsNearest(l)
  <2>1. PICK d \in Distances : \A other \in Distances : d <= other
    BY LeastElement
  <2> QED
    BY <2>1
<1>2. nearest \in lanelets
  BY <1>1
<1>3. LaneletOf(lane, lanelets) = IF MeanDistance(lane, nearest) < Reach THEN nearest ELSE None
  BY DEF LaneletOf
<1> HIDE DEF nearest
<1> QED
  BY <1>2, <1>3

\* What a MAP message of this intersection tells of a link is right.
LEMMA LinksGetTheirGroups ==
  ASSUME ServiceAssumption, NEW m \in Messages, m.kind = "ours",
         NEW pair \in LinksToGroups(m.lanes), pair[1] # None
  PROVE  pair[2] = Right[pair[1]]
<1>1. PICK lane \in EntryLanes(m.lanes) :
        \E c \in lane.connections : \E to \in ConnectedLane(m.lanes, c.lane) :
          pair = <<LinkOf(LaneletOf(lane, Entries), LaneletOf(to, Departures)), c.group>>
  BY DEF LinksToGroups
<1>c. PICK c \in lane.connections : \E to \in ConnectedLane(m.lanes, c.lane) :
        pair = <<LinkOf(LaneletOf(lane, Entries), LaneletOf(to, Departures)), c.group>>
  BY <1>1
<1>to. PICK to \in ConnectedLane(m.lanes, c.lane) :
         pair = <<LinkOf(LaneletOf(lane, Entries), LaneletOf(to, Departures)), c.group>>
  BY <1>c
<1> DEFINE entry == LaneletOf(lane, Entries)
           departure == LaneletOf(to, Departures)
<1>2. LinkOf(entry, departure) # None
  BY <1>to
<1>3. entry # None /\ departure # None
  BY <1>2 DEF LinkOf
<1>4. lane \in m.lanes /\ to \in m.lanes
  BY DEF EntryLanes, ConnectedLane
<1>5. /\ \A l \in Entries : MeanDistance(lane, l) \in Nat
      /\ \A l \in Departures : MeanDistance(to, l) \in Nat
  BY <1>4 DEF ServiceAssumption, RightAssumption, MeanDistance
<1>6. entry \in Entries /\ MeanDistance(lane, entry) < Reach
  BY <1>3, <1>5, LaneletIsNear DEF ServiceAssumption, IntersectionModelAssumption
<1>7. departure \in Departures /\ MeanDistance(to, departure) < Reach
  BY <1>3, <1>5, LaneletIsNear DEF ServiceAssumption, IntersectionModelAssumption
<1> HIDE DEF entry, departure
<1>8. c.group = Right[LinkOf(entry, departure)]
  BY <1>2, <1>6, <1>7 DEF ServiceAssumption, DescriptionAssumption
<1>9. pair = <<LinkOf(entry, departure), c.group>>
  BY <1>to DEF entry, departure
<1> QED
  BY <1>8, <1>9

\* A list has a finite number of places.
LEMMA PlacesAreFinite ==
  ASSUME NEW list, NEW n \in Nat, DOMAIN list = 1 .. n, NEW S \in SUBSET DOMAIN list
  PROVE  IsFiniteSet(S)
<1>1. IsFiniteSet(1 .. n)
  BY FS_Interval
<1> QED
  BY <1>1, FS_Subset

\* Pairs of a link and its group, right ones.
RightPairs(pairs) ==
  /\ pairs \in Seq(Links \X Nat)
  /\ \A i \in DOMAIN pairs : pairs[i][2] = Right[pairs[i][1]]

\* update_intersecion_info_by_map_msg writes right groups only.
LEMMA UpdatesAreRight ==
  ASSUME ServiceAssumption, NEW m \in Messages, m.kind = "ours", NEW pairs \in Updates(m.lanes)
  PROVE  RightPairs(pairs)
<1> DEFINE found == {pair \in LinksToGroups(m.lanes) : pair[1] # None}
           written == {i \in DOMAIN LinkOrder : \E pair \in found : pair[1] = LinkOrder[i]}
           Told == {f \in [{pair[1] : pair \in found} -> {pair[2] : pair \in found}] :
                      \A link \in DOMAIN f : <<link, f[link]>> \in found}
           InOrder == {s \in SetToSeqs(written) : \A i, j \in DOMAIN s : i < j => s[i] < s[j]}
<1>1. PICK order \in InOrder, group \in Told :
        pairs = [i \in DOMAIN order |-> <<LinkOrder[order[i]], group[LinkOrder[order[i]]]>>]
  <2>1. PICK order \in InOrder :
          pairs \in {[i \in DOMAIN order |-> <<LinkOrder[order[i]], group[LinkOrder[order[i]]]>>] :
                      group \in Told}
    BY Zenon DEF Updates
  <2> HIDE DEF InOrder, Told
  <2> QED
    BY <2>1
<1>2. IsFiniteSet(written)
  <2>1. DOMAIN LinkOrder = 1 .. Len(LinkOrder) /\ Len(LinkOrder) \in Nat
    BY DEF ServiceAssumption, RightAssumption
  <2> QED
    BY <2>1, PlacesAreFinite
<1>3. PICK n \in Nat : DOMAIN order = 1 .. n /\ \A i \in 1 .. n : order[i] \in written
  <2>1. Cardinality(written) \in Nat
    BY <1>2, FS_CardinalityType
  <2>2. order \in [1 .. Cardinality(written) -> written]
    BY DEF SetToSeqs
  <2> QED
    BY <2>1, <2>2
<1>4. ASSUME NEW i \in 1 .. n
      PROVE  /\ LinkOrder[order[i]] \in Links
             /\ group[LinkOrder[order[i]]] = Right[LinkOrder[order[i]]]
  <2> DEFINE link == LinkOrder[order[i]]
  <2>1. order[i] \in DOMAIN LinkOrder /\ link \in {pair[1] : pair \in found}
    BY <1>3
  <2>2. link \in Links
    BY <2>1 DEF Links, ToSet
  <2>3. <<link, group[link]>> \in found
    BY <2>1
  <2> HIDE DEF link
  <2>4. group[link] = Right[link]
    BY <2>3, LinksGetTheirGroups
  <2> QED
    BY <2>2, <2>4 DEF link
<1>5. Right \in [Links -> Nat]
  BY DEF ServiceAssumption, RightAssumption
<1> HIDE DEF found, written, Told, InOrder
<1>6. pairs = [i \in 1 .. n |-> <<LinkOrder[order[i]], group[LinkOrder[order[i]]]>>]
  BY <1>1, <1>3
<1>7. pairs = [i \in 1 .. n |-> <<LinkOrder[order[i]], Right[LinkOrder[order[i]]]>>]
  BY <1>4, <1>6
<1>8. \A i \in 1 .. n : <<LinkOrder[order[i]], Right[LinkOrder[order[i]]]>> \in Links \X Nat
  BY <1>4, <1>5
<1>9. pairs \in [1 .. n -> Links \X Nat]
  BY <1>7, <1>8
<1> QED
  BY <1>7, <1>9 DEF RightPairs

-----------------------------------------------------------------------------
(***************************************************************************)
(* The invariant: what the model has written and what it is still to write *)
(* is right, and so is what was read of it at any moment.                  *)
(***************************************************************************)

RightOrNone(g) == \A link \in Links : g[link] \in {0, Right[link]}

GroupsAreRight == groups \in [Links -> Nat] /\ RightOrNone(groups)

\* An attempt that is under way was not one too many.
AttemptsInv == stage = "wait" => attempts < Attempts

ServiceInv == TypeOK /\ GroupsAreRight /\ RightPairs(todo) /\ InfoIsRight /\ AttemptsInv

\* The program starts in the invariant.
LEMMA StartIsRight == ServiceAssumption /\ Init => ServiceInv
<1> SUFFICES ASSUME ServiceAssumption, Init PROVE ServiceInv
  OBVIOUS
<1> USE DEF Init, ModelInit, ServiceInit
<1>1. groups = [link \in Links |-> 0]
  BY DEF NoGroups
<1>2. GroupsAreRight
  BY <1>1 DEF GroupsAreRight, RightOrNone
<1>3. todo \in Seq(Links \X Nat) /\ DOMAIN todo = {}
  OBVIOUS
<1>4. RightPairs(todo)
  BY <1>3 DEF RightPairs
<1>5. InfoIsRight
  BY DEF InfoIsRight
<1>6. TypeOK
  BY <1>1, <1>3 DEF TypeOK, ModelTypeOK, ServiceAssumption, IntersectionModelAssumption,
                    SchedulingServiceAssumption
<1>7. AttemptsInv
  BY DEF AttemptsInv
<1> QED
  BY <1>2, <1>4, <1>5, <1>6, <1>7 DEF ServiceInv

\* A MAP message that is taken, refused, or ends the model.
LEMMA ConsumingIsRight ==
  ASSUME ServiceAssumption, ServiceInv, NEW m \in Messages, ConsumeMap(m)
  PROVE  ModelTypeOK' /\ GroupsAreRight' /\ RightPairs(todo)'
<1>0. /\ GroupsAreRight /\ RightPairs(todo)
      /\ up \in BOOLEAN /\ crashes \in 0 .. MaxCrashes /\ MaxCrashes \in Nat
  BY DEF ServiceInv, TypeOK, ModelTypeOK, ServiceAssumption, IntersectionModelAssumption
<1>1. RightPairs(todo')
  <2>1. CASE m.kind = "ours"
    <3>1. todo' \in Updates(m.lanes)
      BY <2>1 DEF ConsumeMap, UpdatesOf
    <3> QED
      BY <2>1, <3>1, UpdatesAreRight
  <2>2. CASE m.kind # "ours"
    BY <1>0, <2>2 DEF ConsumeMap
  <2> QED
    BY <2>1, <2>2
<1>2. groups' = groups \/ groups' = [link \in Links |-> 0]
  BY DEF ConsumeMap, NoGroups
<1>3. GroupsAreRight'
  BY <1>0, <1>2 DEF GroupsAreRight, RightOrNone
<1>4. up' \in BOOLEAN /\ crashes' \in 0 .. MaxCrashes
  <2>1. \/ crashes < MaxCrashes /\ crashes' = crashes + 1
       \/ UNCHANGED crashes
    BY DEF ConsumeMap
  <2>2. crashes' \in 0 .. MaxCrashes
    BY <1>0, <2>1
  <2>3. up' = FALSE \/ UNCHANGED up
    BY DEF ConsumeMap
  <2>4. up' \in BOOLEAN
    BY <1>0, <2>3
  <2> QED
    BY <2>2, <2>4
<1>5. ModelTypeOK'
  BY <1>1, <1>3, <1>4 DEF GroupsAreRight, RightPairs, ModelTypeOK
<1> QED
  BY <1>1, <1>3, <1>5 DEF RightPairs

\* The groups are written one link after the other.
LEMMA WritingIsRight ==
  ASSUME ServiceAssumption, ServiceInv, WriteGroup
  PROVE  ModelTypeOK' /\ GroupsAreRight' /\ RightPairs(todo)'
<1> USE DEF ServiceInv, TypeOK, ModelTypeOK
<1>1. todo \in Seq(Links \X Nat) /\ todo # <<>> /\ todo' = Tail(todo)
  BY DEF WriteGroup
<1>2. /\ todo' \in Seq(Links \X Nat)
      /\ \A i \in DOMAIN todo' : i + 1 \in DOMAIN todo /\ todo'[i] = todo[i + 1]
  BY <1>1
<1>3. RightPairs(todo')
  BY <1>2 DEF RightPairs
<1>4. /\ Head(todo) \in Links \X Nat /\ Head(todo)[2] = Right[Head(todo)[1]]
      /\ groups' = [groups EXCEPT ![Head(todo)[1]] = Head(todo)[2]]
  <2>1. 1 \in DOMAIN todo /\ Head(todo) = todo[1]
    BY <1>1
  <2> QED
    BY <1>1, <2>1 DEF RightPairs, WriteGroup
<1>5. GroupsAreRight'
  BY <1>4 DEF GroupsAreRight, RightOrNone
<1>6. ModelTypeOK'
  BY <1>2, <1>5 DEF GroupsAreRight, WriteGroup
<1> QED
  BY <1>3, <1>5, <1>6 DEF RightPairs

\* The intersection model and its restart do not touch the service.
LEMMA ModelIsRight ==
  ASSUME ServiceAssumption, ServiceInv, ModelNext, UNCHANGED serviceVars
  PROVE  ServiceInv'
<1>1. ModelTypeOK' /\ GroupsAreRight' /\ RightPairs(todo)'
  <2>1. CASE \E m \in Messages : ConsumeMap(m)
    BY <2>1, ConsumingIsRight
  <2>2. CASE WriteGroup
    BY <2>2, WritingIsRight
  <2>3. CASE Restart
    BY <2>3 DEF Restart, ServiceInv, TypeOK, ModelTypeOK, GroupsAreRight, RightPairs, RightOrNone
  <2> QED
    BY <2>1, <2>2, <2>3 DEF ModelNext
<1> QED
  BY <1>1 DEF serviceVars, ServiceInv, TypeOK, InfoIsRight, AttemptsInv

\* The service itself: an attempt, an answer read while the model writes or has just
\* been restarted, threads, rounds, and the end of the process.
LEMMA ServingIsRight ==
  ASSUME ServiceAssumption, ServiceInv, ServiceStep, UNCHANGED modelVars
  PROVE  ServiceInv'
<1> USE DEF modelVars
<1>1. ModelTypeOK' /\ GroupsAreRight' /\ RightPairs(todo)'
  BY DEF ServiceInv, TypeOK, ModelTypeOK, GroupsAreRight, RightPairs, RightOrNone
<1>2. /\ stage \in {"start", "ask", "wait", "running", "idle"} /\ attempts \in 0 .. Attempts
      /\ info \in [Links -> Nat] \cup {None}
      /\ threads \subseteq Threads /\ (threads # {} => stage = "running")
      /\ spat \in {"empty", "known"} /\ scheduled \in {"none", "partial", "all"}
      /\ deaths \in 0 .. MaxDeaths
      /\ (info # None => RightOrNone(info)) /\ (stage = "wait" => attempts < Attempts)
      /\ Attempts \in Nat /\ MaxDeaths \in Nat
  BY DEF ServiceInv, TypeOK, InfoIsRight, RightOrNone, AttemptsInv, ServiceAssumption,
         SchedulingServiceAssumption
<1> DEFINE Kept ==
      /\ stage' \in {"start", "ask", "wait", "running", "idle"} /\ attempts' \in 0 .. Attempts
      /\ info' \in [Links -> Nat] \cup {None}
      /\ threads' \subseteq Threads /\ (threads' # {} => stage' = "running")
      /\ spat' \in {"empty", "known"} /\ scheduled' \in {"none", "partial", "all"}
      /\ deaths' \in 0 .. MaxDeaths
      /\ (info' # None => RightOrNone(info')) /\ (stage' = "wait" => attempts' < Attempts)
<1>3. Kept
  <2>1. ASSUME Die PROVE Kept
    BY <1>2, <2>1 DEF Die
  <2>2. CASE Initialize
    BY <1>2, <2>2 DEF Initialize
  <2>3. CASE Ask
    BY <1>2, <2>3 DEF Ask
  <2>4. CASE Answer
    BY <1>2, <2>4 DEF Answer, ServiceInv, GroupsAreRight
  <2>5. CASE NoAnswer
    BY <1>2, <2>5 DEF NoAnswer
  <2>6. CASE ScheduleVehicles
    <3>1. CASE Die
      BY <2>1, <3>1
    <3>2. CASE /\ scheduled' \in {"partial", "all"}
               /\ UNCHANGED <<stage, attempts, info, threads, spat, deaths>>
      BY <1>2, <3>2
    <3> QED
      BY <2>6, <3>1, <3>2 DEF ScheduleVehicles
  <2>7. CASE \E readable \in BOOLEAN : ConsumeSpat(readable)
    BY <1>2, <2>7 DEF ConsumeSpat
  <2>8. CASE \E t \in Threads : ThreadEnds(t)
    BY <1>2, <2>8 DEF ThreadEnds
  <2> QED
    BY <2>1, <2>2, <2>3, <2>4, <2>5, <2>6, <2>7, <2>8 DEF ServiceStep, InitializeFails
<1> QED
  BY <1>1, <1>3 DEF ServiceInv, TypeOK, InfoIsRight, RightOrNone, AttemptsInv

-----------------------------------------------------------------------------

\* Every step keeps the invariant, and so does a step of something else.
LEMMA ServiceStepIsRight == ServiceAssumption /\ ServiceInv /\ [Next]_vars => ServiceInv'
<1> SUFFICES ASSUME ServiceAssumption, ServiceInv, [Next]_vars PROVE ServiceInv'
  OBVIOUS
<1>1. CASE ModelNext /\ UNCHANGED serviceVars
  BY <1>1, ModelIsRight
<1>2. CASE ServiceStep /\ UNCHANGED modelVars
  BY <1>2, ServingIsRight
<1>3. CASE UNCHANGED vars
  BY <1>3 DEF vars, modelVars, serviceVars, ServiceInv, TypeOK, ModelTypeOK, GroupsAreRight,
              RightPairs, RightOrNone, InfoIsRight, AttemptsInv
<1> QED
  BY <1>1, <1>2, <1>3 DEF Next

\* The groups that the intersection model has, those that it is about to write and those
\* that the scheduling service was told are right or not yet known.
THEOREM ServiceInvariance == ASSUME ServiceAssumption PROVE Spec => []ServiceInv
<1>1. Init => ServiceInv
  BY StartIsRight
<1>2. ServiceInv /\ [Next]_vars => ServiceInv'
  BY ServiceStepIsRight
<1> QED
  BY <1>1, <1>2, PTL DEF Spec

\* What the scheduling service works with are right groups or none (InfoIsRight), whatever
\* MAP message, crash of the model or end of the process its request raced.
THEOREM KnowsRightGroups == ASSUME ServiceAssumption PROVE Spec => []InfoIsRight
<1>1. ServiceInv => InfoIsRight
  BY DEF ServiceInv
<1> QED
  BY <1>1, ServiceInvariance, PTL

=============================================================================
