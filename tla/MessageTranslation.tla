-------------------------- MODULE MessageTranslation --------------------------
(***************************************************************************)
(* message_lanelet2_translation: from the position and the turn direction  *)
(* of a vehicle to its lanelet, its distance to the end of that lanelet    *)
(* and the entry, link and departure lanelet of its way through an all-way *)
(* stop. A vehicle drives along one such way and is told all of them.      *)
(* Lengths are in decimetres; center lines are straight.                   *)
(***************************************************************************)
EXTENDS Integers, SequencesExt, FiniteSetsExt

CONSTANTS
  Lanelets, Links,      \* all lanelets, and those inside the intersection
  Previous, Following,  \* routing graph, lanelet -> sequence of lanelets
  AllWayStop,           \* lanelets with that regulatory element
  Direction,            \* turn_direction of a lanelet, or None
  Vertices,             \* points of the center line of a lanelet, from its start
  Crossing,             \* how far along a link the others of its direction cross it
  Sides,                \* distances of a vehicle to the center line
  Lags, Leads,          \* how far behind the vehicle its trajectory starts, and its length
  None

MessageTranslationAssumption ==
  /\ Links \subseteq Lanelets /\ AllWayStop \subseteq Lanelets
  /\ \A l \in Lanelets : Previous[l] # <<>> /\ Following[l] # <<>>
  /\ \A l \in Links : Previous[l][1] \in AllWayStop
  /\ \A l \in Lanelets : Vertices[l][1] = 0 /\ Len(Vertices[l]) > 1
  /\ Sides \subseteq Nat /\ Lags \subseteq Nat /\ Leads \subseteq Nat
  /\ \A l \in Links, s \in Sides : 2 * s < Crossing /\ 2 * s < Last(Vertices[l]) - Crossing

VARIABLES
  way,      \* the link lanelet of the vehicle's way
  at,       \* the lanelet that it is on
  along,    \* how far along that lanelet
  side,     \* how far from its center line
  within,   \* every lanelet it is within, as they are found: links overlap
  lag, lead \* its trajectory; lead is None when that has no offsets

vars == <<way, at, along, side, within, lag, lead>>

Length(l) == Last(Vertices[l])

-----------------------------------------------------------------------------
(***************************************************************************)
(* The lanelet of a point: the only one, or the only one of the turn       *)
(* direction, or the one of that direction nearest to the two ends of the  *)
(* trajectory. 0 stands for no distance yet, and is a distance as well.    *)
(***************************************************************************)

OfDirection(lanelets, turn) == SelectSeq(lanelets, LAMBDA l : Direction[l] = turn)

Nearer(best, l, dist) ==
  IF best.sum >= dist \/ best.sum = 0 THEN [lanelet |-> l, sum |-> dist] ELSE best

Nearest(lanelets, sums) ==
  FoldLeft(LAMBDA best, l : Nearer(best, l, sums[l]), [lanelet |-> None, sum |-> 0],
           lanelets).lanelet

\* get_cur_lanelet_by_point_and_direction
CurrentLanelet(lanelets, turn, hasOffsets, sums) ==
  LET candidates == IF Len(lanelets) > 1 THEN OfDirection(lanelets, turn) ELSE lanelets
  IN IF Len(candidates) = 1 THEN candidates[1]
     ELSE IF candidates = <<>> \/ ~hasOffsets THEN None
     ELSE Nearest(candidates, sums)

-----------------------------------------------------------------------------
(***************************************************************************)
(* The distance to the end: the segments from the first one that starts at *)
(* most 0.2 m farther away than the center line is. With a = along - vertex*)
(* and s = side that is a * a + s * s <= (s + 2) * (s + 2).                *)
(***************************************************************************)

Starts(l, p, s) ==
  {i \in 1..Len(Vertices[l]) - 1 : (p - Vertices[l][i]) * (p - Vertices[l][i]) <= 4 * s + 4}

\* distance2_cur_lanelet_end
DistanceToEnd(l, p, s) ==
  IF l = None THEN -1
  ELSE IF Starts(l, p, s) = {} THEN 0
  ELSE Length(l) - Vertices[l][Min(Starts(l, p, s))]

-----------------------------------------------------------------------------
(***************************************************************************)
(* get_lanelet_types_ids: whether the lanelet is a link, an entry or a     *)
(* departure lanelet, one after the other; a later answer replaces an      *)
(* earlier one.                                                            *)
(***************************************************************************)

NoTypes == [entry |-> None, link |-> None, departure |-> None]

Way(entry, link, departure) == [entry |-> entry, link |-> link, departure |-> departure]

AsLink(l) ==
  IF Previous[l][1] \in AllWayStop THEN Way(Previous[l][1], l, Following[l][1]) ELSE NoTypes

AsEntry(l, turn, before) ==
  LET links == SelectSeq(Following[l], LAMBDA link : Direction[link] = turn)
  IN IF l \notin AllWayStop THEN before
     ELSE IF links = <<>> THEN [before EXCEPT !.entry = l]
     ELSE Way(l, links[1], Following[links[1]][1])

MutantAsDeparture(l, turn, before) ==
  IF Previous[Previous[l][1]][1] \in AllWayStop
  THEN Way(Previous[Previous[l][1]][1], Previous[l][1], l) ELSE before

AsDeparture(l, turn, before) ==
  LET links == SelectSeq(Previous[l], LAMBDA link : Direction[link] = turn)
  IN IF links # <<>> /\ Previous[links[1]][1] \in AllWayStop
     THEN Way(Previous[links[1]][1], links[1], l) ELSE before

LaneletTypes(l, turn) ==
  IF l = None THEN NoTypes ELSE AsDeparture(l, turn, AsEntry(l, turn, AsLink(l)))

-----------------------------------------------------------------------------
(***************************************************************************)
(* compose_vehicle_status_intent: what the vehicle status and intent says  *)
(* of the place of the vehicle.                                            *)
(***************************************************************************)

Turn == Direction[way]

\* Length of the hypotenuse, rounded down.
Hypotenuse(x, y) == Max({n \in 0..x + y : n * n <= x * x + y * y})

\* Distance of a point of the way, p along the link and side beside it, to the
\* center line of a link: of its own, or of one that crosses it at a right angle.
FromCenterLine(l, p) ==
  IF l = way THEN Hypotenuse(side, Max({0, -p, p - Length(way)}))
  ELSE Max({p - Crossing, Crossing - p})

\* The trajectory starts where the vehicle was when it was planned.
Start == along - lag

Spread(l) == FromCenterLine(l, Start) + FromCenterLine(l, Start + lead)

Lanelet ==
  CurrentLanelet(within, Turn, lead # None, [l \in ToSet(within) |-> Spread(l)])

Place ==
  [lanelet |-> Lanelet, distance |-> DistanceToEnd(Lanelet, along, side),
   types |-> LaneletTypes(Lanelet, Turn)]

\* A vehicle inside the intersection is within its link and up to two others,
\* which are found in any order.
Surroundings(l) ==
  IF l \notin Links THEN {<<l>>}
  ELSE UNION {SetToSeqs(s \cup {l}) : s \in UNION {kSubset(n, Links \ {l}) : n \in 0..2}}

Plans(l) == IF l \in Links THEN Lags \X (Leads \cup {None}) ELSE {<<0, None>>}

Init ==
  /\ way \in Links
  /\ at = Previous[Previous[way][1]][1] /\ along = 0
  /\ side \in Sides
  /\ within \in Surroundings(at)
  /\ \E plan \in Plans(at) : lag = plan[1] /\ lead = plan[2]

Drive ==
  /\ along < Length(at)
  /\ along' = along + 1
  /\ UNCHANGED <<at, side, within, lag, lead>>

\* The way ends with the departure lanelet.
Enter ==
  /\ along = Length(at)
  /\ at' = CASE at = Previous[Previous[way][1]][1] -> Previous[way][1]
             [] at = Previous[way][1] -> way
             [] at = way -> Following[way][1]
             [] OTHER -> None
  /\ at' # None
  /\ along' = 0
  /\ side' \in Sides
  /\ within' \in Surroundings(at')
  /\ \E plan \in Plans(at') : lag' = plan[1] /\ lead' = plan[2]

Next == (Drive \/ Enter) /\ way' = way

Spec == Init /\ [][Next]_vars

-----------------------------------------------------------------------------
\* The place that is told is one of the lanelets around the vehicle, if any.
TypeOK ==
  /\ way \in Links /\ at \in ToSet(within) /\ along \in 0..Length(at) /\ side \in Sides
  /\ Place.lanelet \in ToSet(within) \cup {None}

\* Whether the trajectory leads farther than the vehicle is off its center line
\* at the two ends of it.
TellsADirection == lead # None /\ lead > 2 * side

\* Both ends are on the center line, to the last digit of a double.
OnCenterLine == at \in Links /\ lead # None /\ Spread(way) = 0

Alone == Len(within) = 1 \/ Len(OfDirection(within, Turn)) = 1

\* The lanelet that is told is the one the vehicle drives on wherever links of
\* its direction cross, once its trajectory tells a direction; with no offsets
\* none is told rather than a wrong one.
LaneletIsFound ==
  /\ Alone \/ TellsADirection => Place.lanelet = at
  /\ ~Alone /\ lead = None => Place.lanelet = None

\* The same, but for a vehicle exactly on its center line.
TellsTheLanelet == ~OnCenterLine => LaneletIsFound

\* From the entry to the departure lanelet a vehicle whose lanelet is found is
\* told the same way, which is its own (get_lanelet_types_ids, its three cases).
TellsTheWay ==
  at # Previous[Previous[way][1]][1] /\ Place.lanelet = at =>
    Place.types = Way(Previous[way][1], way, Following[way][1])

\* The distance is never by more than the 0.2 m rule too long: it stops short
\* of the end or it is the rest of the lanelet.
NeverTooFar ==
  LET more == Place.distance - (Length(at) - along)
  IN Place.lanelet = at /\ more > 0 => more * more <= 4 * side + 4

=============================================================================
