-------------------------- MODULE IntersectionModel --------------------------
(***************************************************************************)
(* intersection_model: the lanelets of the intersection, read from its     *)
(* map, whose link lanelets learn their signal groups from the MAP         *)
(* messages. One thread consumes MAP messages and writes the groups, one   *)
(* link after the other; another answers requests with what is written.    *)
(***************************************************************************)
EXTENDS Integers, SequencesExt, FiniteSetsExt

CONSTANTS
  Entries, Departures,  \* entering and departure lanelets
  LinkOrder,            \* the link lanelets, in the order of link_lanelets_info
  Following,            \* routing graph, with lane changes: entry -> links
  Previous,             \* routing graph, with lane changes: departure -> links
  Messages,             \* the MAP messages that may come
  Reach,                \* the lane width and lane_to_lanelet_corr_thres
  MaxCrashes,           \* bound
  None

Links == ToSet(LinkOrder)

IntersectionModelAssumption ==
  /\ Links \subseteq Nat \ {0} /\ Reach \in Nat /\ MaxCrashes \in Nat
  /\ Entries # {} /\ Departures # {}
  /\ Following \in [Entries -> SUBSET Links] /\ Previous \in [Departures -> SUBSET Links]

VARIABLES
  groups,  \* signal_group_id of each link lanelet, 0 when not available
  todo,    \* the links that are still to be written, with their groups
  up,      \* whether the process runs
  crashes

modelVars == <<groups, todo, up, crashes>>

NoGroups == [link \in Links |-> 0]

-----------------------------------------------------------------------------
(***************************************************************************)
(* From a MAP message to the signal groups of the link lanelets. A lane    *)
(* has its connections, each with a lane and a signal group, and the mean  *)
(* distance of its nodes to the center line of every lanelet.              *)
(***************************************************************************)

\* A lane of less than two nodes is skipped.
Usable(lane) == lane.nodes >= 2

MeanDistance(lane, lanelet) == lane.distance[lanelet]

MutantLaneletOf(lane, lanelets) ==
  CHOOSE l \in lanelets :
    \A other \in lanelets : MeanDistance(lane, l) <= MeanDistance(lane, other)

\* mapping_lane_id_2_lanelet_id: the nearest lanelet, unless it is too far away.
LaneletOf(lane, lanelets) ==
  LET nearest == CHOOSE l \in lanelets :
                   \A other \in lanelets : MeanDistance(lane, l) <= MeanDistance(lane, other)
  IN IF MeanDistance(lane, nearest) < Reach THEN nearest ELSE None

\* find_link_lanelet_id_by_enter_depart_lanelet_ids
LinkOf(entry, departure) ==
  LET between == IF entry = None \/ departure = None THEN {}
                 ELSE Following[entry] \cap Previous[departure]
  IN IF between = {} THEN None ELSE Min(between)

EntryLanes(lanes) == {lane \in lanes : Usable(lane) /\ lane.connections # {}}

\* The lane that a connection names, if it is one that leaves the intersection.
ConnectedLane(lanes, id) ==
  {lane \in lanes : Usable(lane) /\ lane.connections = {} /\ lane.id = id}

\* The link lanelets of the connections, with the signal groups these have.
LinksToGroups(lanes) ==
  UNION {UNION {{<<LinkOf(LaneletOf(lane, Entries), LaneletOf(to, Departures)), c.group>> :
                    to \in ConnectedLane(lanes, c.lane)} :
                  c \in lane.connections} :
           lane \in EntryLanes(lanes)}

\* update_intersecion_info_by_map_msg: what it writes, in its order. When a link has
\* several groups one of them stays, by the order of an unordered_map.
Updates(lanes) ==
  LET found == {pair \in LinksToGroups(lanes) : pair[1] # None}
      written == {i \in DOMAIN LinkOrder : \E pair \in found : pair[1] = LinkOrder[i]}
      Writing(order) ==
        {[i \in DOMAIN order |-> <<LinkOrder[order[i]], group[LinkOrder[order[i]]]>>] :
           group \in {f \in [{pair[1] : pair \in found} -> {pair[2] : pair \in found}] :
                        \A link \in DOMAIN f : <<link, f[link]>> \in found}}
  IN UNION {Writing(s) : s \in {s \in SetToSeqs(written) :
                                 \A i, j \in DOMAIN s : i < j => s[i] < s[j]}}

UpdatesOf == [m \in Messages |-> Updates(m.lanes)]

-----------------------------------------------------------------------------

ModelInit ==
  groups = NoGroups /\ todo = <<>> /\ up = TRUE /\ crashes = 0

\* intersection_model_event_update, up to the writing. update_map_msg takes a message
\* of this intersection only; a number that is none ends the process.
ConsumeMap(m) ==
  /\ up /\ todo = <<>>
  /\ IF m.kind = "ours" THEN todo' \in UpdatesOf[m] ELSE UNCHANGED todo
  /\ IF m.kind = "no number"
       THEN crashes < MaxCrashes /\ crashes' = crashes + 1 /\ up' = FALSE /\ groups' = NoGroups
       ELSE UNCHANGED <<groups, up, crashes>>

\* The end of update_intersecion_info_by_map_msg, one link of it.
WriteGroup ==
  /\ up /\ todo # <<>>
  /\ groups' = [groups EXCEPT ![Head(todo)[1]] = Head(todo)[2]]
  /\ todo' = Tail(todo)
  /\ UNCHANGED <<up, crashes>>

\* The container restarts the process (docker-compose: restart always).
Restart == ~ up /\ up' = TRUE /\ UNCHANGED <<groups, todo, crashes>>

ModelNext == (\E m \in Messages : ConsumeMap(m)) \/ WriteGroup \/ Restart

-----------------------------------------------------------------------------
(***************************************************************************)
(* Properties. Right is the group that the traffic engineers gave to each  *)
(* link lanelet, which the MAP messages of this intersection describe.     *)
(***************************************************************************)

CONSTANT Right

RightAssumption ==
  /\ LinkOrder \in Seq(Nat) /\ Right \in [Links -> Nat]
  /\ \A m \in Messages : \A lane \in m.lanes :
       lane.distance \in [Entries \cup Departures -> Nat]

\* A lane that enters tells the right group to every link between lanelets that it and
\* the lane it is connected to may be taken for.
DescriptionAssumption ==
  \A m \in Messages : m.kind = "ours" =>
    \A lane \in EntryLanes(m.lanes) : \A c \in lane.connections :
      \A to \in ConnectedLane(m.lanes, c.lane), entry \in Entries, departure \in Departures :
        /\ MeanDistance(lane, entry) < Reach /\ MeanDistance(to, departure) < Reach
        /\ LinkOf(entry, departure) # None
        => c.group = Right[LinkOf(entry, departure)]

ModelTypeOK ==
  /\ groups \in [Links -> Nat]
  /\ todo \in Seq(Links \X Nat)
  /\ up \in BOOLEAN /\ crashes \in 0 .. MaxCrashes

\* All the groups are known in the end, also after crashes.
GroupsKnown == <>[](groups = Right)

=============================================================================
