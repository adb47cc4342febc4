------------------------------ MODULE MCVehicles ------------------------------
(***************************************************************************)
(* Vehicles at an intersection, and what the scheduling service makes of   *)
(* them, side by side: in each behaviour one part moves and the others     *)
(* stay as they began. The part that is extended here is the signalized    *)
(* intersection: Init, Next, vars and its properties are its own, those of *)
(* all parts have longer names.                                            *)
(***************************************************************************)
EXTENDS SignalizedIntersection, TLC

CONSTANTS
  a, b, c, A, B, LinkA, LinkB, LinkC  \* vehicles, lanes and links of a round

VARIABLES
  part,
  granted, order, situation, before, done,
  vehicles, pos, access, dp, trips, updates

schedulerVars == <<granted, order>>
roundVars == <<situation, before, done>>
trackingVars == <<vehicles, pos, access, dp, trips, updates>>
allVars == <<part, schedulerVars, roundVars, trackingVars, vars>>

-----------------------------------------------------------------------------
\* One round of the all-way stop. a and b come from two lanes and conflict, c
\* follows b in its lane and turns where it meets nobody.
StopRound == INSTANCE AllStopRound WITH
  Lanes <- {A, B}, Links <- {LinkA, LinkB, LinkC},
  Conflicting <- (LinkA :> {LinkB}) @@ (LinkB :> {LinkA}) @@ (LinkC :> {}),
  FlexibilityLimit <- 5, EnteringTimeBuffer <- 0, StaleAfter <- 0,
  schedule <- order

\* The list of vehicles alone, at the two kinds of intersection.
StopList == INSTANCE VehicleTracking WITH
  Vehicles <- {a}, Timeout <- 2, IntersectionType <- "stop_controlled_intersection",
  InFlight <- 2, MaxTrips <- 1

SignalList == INSTANCE VehicleTracking WITH
  Vehicles <- {a}, Timeout <- 2, IntersectionType <- "signalized_intersection",
  InFlight <- 2, MaxTrips <- 1

-----------------------------------------------------------------------------
(***************************************************************************)
(* A signalized intersection: two signal groups take turns, group 2 for    *)
(* lane 1, where two vehicles follow each other, group 4 for lane 2.       *)
(***************************************************************************)

Event(state, start, end) == [state |-> state, start |-> start, end |-> end]

TwoGroups == [g \in {2, 4} |->
  IF g = 2
    THEN << Event("red", 0, 2), Event("green", 2, 9), Event("yellow", 9, 10),
            Event("red", 10, 20), Event("green", 20, 30) >>
    ELSE << Event("yellow", 0, 1), Event("red", 1, 11), Event("green", 11, 18),
            Event("yellow", 18, 19), Event("red", 19, 30) >>]

ConnectingLinks == 1 :> {11} @@ 2 :> {12}
SignalGroupOf == 11 :> 2 @@ 12 :> 4
Routes ==
  [v \in {a, b, c} |->
     IF v = c THEN [lane |-> 2, link |-> 12] ELSE [lane |-> 1, link |-> 11]]
Distances == a :> 2 @@ b :> 4 @@ c :> 3

-----------------------------------------------------------------------------
\* What the parts assume of their constants.
ASSUME VehiclesAssumption ==
  /\ StopRound!AllStopAssumption
  /\ StopList!VehicleListAssumption /\ SignalList!VehicleListAssumption
  /\ SignalAssumption

AllInit ==
  /\ part \in {"round", "stop list", "signal list", "signal"}
  /\ IF part = "round" THEN TRUE ELSE situation = <<>>
  /\ StopRound!Init
  /\ StopList!TrackingInit
  /\ Init

RoundStep ==
  /\ part = "round" /\ StopRound!Next
  /\ UNCHANGED <<part, trackingVars, vars>>

ListStep ==
  /\ \/ part = "stop list" /\ StopList!Next
     \/ part = "signal list" /\ SignalList!Next
  /\ UNCHANGED <<part, schedulerVars, roundVars, vars>>

SignalStep ==
  /\ part = "signal" /\ Next
  /\ UNCHANGED <<part, schedulerVars, roundVars, trackingVars>>

AllNext == RoundStep \/ ListStep \/ SignalStep

AllSpec == AllInit /\ [][AllNext]_allVars

-----------------------------------------------------------------------------
(***************************************************************************)
(* What each part promises, put together from what its module states and   *)
(* explains.                                                               *)
(***************************************************************************)

\* The plan of a round never has vehicles in the box together whose links conflict,
\* nobody overtakes one that waits in its lane, and of the stopped vehicles the order
\* with the least delay is chosen.
RoundIsRight ==
  part = "round" =>
    /\ StopRound!TypeOK
    /\ StopRound!ConflictsSeparated /\ StopRound!AccessInOrder /\ StopRound!LeastDelayOfRanked

\* The list of vehicles is never ahead of a vehicle, doubled or late updates do not
\* take it back, and a vehicle in the box of a signalized intersection is taken for
\* a departing one, also when the updates of its lane were lost.
TracksTheVehicle ==
  /\ [](part = "stop list" => StopList!TypeOK /\ StopList!NeverAheadOfTheVehicle)
  /\ [](part = "signal list" =>
          SignalList!TypeOK /\ SignalList!NeverAheadOfTheVehicle /\ SignalList!BoxMeansDeparting)
  /\ [][/\ part = "stop list" => StopList!GoesOn
        /\ part = "signal list" => SignalList!GoesOn]_allVars

=============================================================================
