--------------------------- MODULE VehicleTracking ---------------------------
(***************************************************************************)
(* Vehicles that drive through the intersection and report it, the updates *)
(* on their way, which may be lost, doubled and overtake each other, and   *)
(* the list that the scheduling service makes of them.                     *)
(***************************************************************************)
EXTENDS VehicleList, FiniteSets

CONSTANTS
  InFlight,  \* bound: updates on their way
  MaxTrips   \* bound: a vehicle comes at most so often

VARIABLES
  pos,     \* where a vehicle is: "away", "approach", "bar", "box", "left"
  access,  \* whether it was told that it may enter
  dp,      \* the departure position that it was told
  trips,   \* how often it came
  updates  \* the updates on their way

trackingVars == <<vehicles, pos, access, dp, trips, updates>>

Positions == {"away", "approach", "bar", "box", "left"}

LaneAt(p) == CASE p \in {"approach", "bar"} -> "entry" [] p = "box" -> "link" [] OTHER -> "exit"

TrackingInit ==
  /\ vehicles = [v \in {} |-> 0]
  /\ pos = [v \in Vehicles |-> "away"]
  /\ access = [v \in Vehicles |-> FALSE]
  /\ dp = [v \in Vehicles |-> -1]
  /\ trips = [v \in Vehicles |-> 0]
  /\ updates = {}

-----------------------------------------------------------------------------
(***************************************************************************)
(* The vehicles (external). At a stop-controlled intersection they stop at *)
(* the bar and enter when they were told to; a signal they see themselves. *)
(***************************************************************************)

Move(v, from, to) ==
  /\ pos[v] = from
  /\ pos' = [pos EXCEPT ![v] = to]

Arrive(v) ==
  /\ trips[v] < MaxTrips
  /\ Move(v, "away", "approach")
  /\ trips' = [trips EXCEPT ![v] = @ + 1]
  /\ access' = [access EXCEPT ![v] = FALSE]
  /\ dp' = [dp EXCEPT ![v] = -1]
  /\ UNCHANGED <<vehicles, updates>>

Enter(v) ==
  IF IntersectionType = "signalized_intersection"
    THEN Move(v, "approach", "box")
    ELSE Move(v, "approach", "bar") \/ (access[v] /\ Move(v, "bar", "box"))

Drive(v) ==
  /\ Enter(v) \/ Move(v, "box", "left") \/ Move(v, "left", "away")
  /\ UNCHANGED <<vehicles, access, dp, trips, updates>>

\* message_services publishes what the vehicle says of itself.
Send(v) ==
  /\ pos[v] # "away"
  /\ Cardinality(updates) < InFlight
  /\ \E valid \in BOOLEAN :
       updates' = updates \cup
         {[id |-> v, age |-> 0, lane |-> LaneAt(pos[v]), stopped |-> pos[v] = "bar",
           access |-> access[v], dp |-> dp[v], valid |-> valid]}
  /\ UNCHANGED <<vehicles, pos, access, dp, trips>>

\* consume_msg; the broker may deliver the update once more.
Deliver(m) ==
  /\ m \in updates
  /\ ProcessUpdate(m)
  /\ updates' \in {updates, updates \ {m}}
  /\ UNCHANGED <<pos, access, dp, trips>>

Lose(m) ==
  /\ m \in updates
  /\ updates' = updates \ {m}
  /\ UNCHANGED <<vehicles, pos, access, dp, trips>>

Tick ==
  /\ ListGrowsOld
  /\ updates' = {[m EXCEPT !.age = Older(@)] : m \in updates}
  /\ UNCHANGED <<pos, access, dp, trips>>

VehicleStep ==
  \/ \E v \in Vehicles : Arrive(v) \/ Drive(v) \/ Send(v)
  \/ \E m \in updates : Deliver(m) \/ Lose(m)

-----------------------------------------------------------------------------
(***************************************************************************)
(* The list alone: a scheduling thread that reads it, and somebody who     *)
(* lets vehicles enter at any time.                                        *)
(***************************************************************************)

Read ==
  /\ GetVehicles
  /\ UNCHANGED <<pos, access, dp, trips, updates>>

LetIn(v) ==
  /\ pos[v] \in {"approach", "bar"}
  /\ access' = [access EXCEPT ![v] = TRUE]
  /\ UNCHANGED <<vehicles, pos, dp, trips, updates>>

Next ==
  \/ VehicleStep
  \/ Tick
  \/ Read
  \/ \E v \in Vehicles : LetIn(v)

\* The clock runs and the scheduling thread reads the list every second.
Spec == TrackingInit /\ [][Next]_trackingVars /\ WF_trackingVars(Tick) /\ WF_trackingVars(Read)

-----------------------------------------------------------------------------
(***************************************************************************)
(* Properties.                                                             *)
(***************************************************************************)

TypeOK ==
  /\ VehicleListOK
  /\ pos \in [Vehicles -> Positions] /\ access \in [Vehicles -> BOOLEAN]
  /\ dp \in [Vehicles -> Int] /\ trips \in [Vehicles -> 0 .. MaxTrips]
  /\ updates \subseteq Update /\ Cardinality(updates) <= InFlight

\* The list is never ahead of a vehicle on its only trip: it counts as stopped only
\* when it reached the bar, as departing only when it knows that it may enter, and as
\* leaving only when it left the box.
NeverAheadOfTheVehicle ==
  \A v \in DOMAIN vehicles :
    MaxTrips = 1 =>
      CASE vehicles[v].state = "RDV" -> pos[v] # "approach"
        [] vehicles[v].state = "DV" ->
             \/ access[v]
             \/ IntersectionType = "signalized_intersection" /\ pos[v] # "approach"
        [] vehicles[v].state = "LV" -> pos[v] \in {"left", "away"}
        [] OTHER -> TRUE

Rank(p) ==
  CASE p \in {"entry", "ND"} -> 0 [] p \in {"link", "EV"} -> 1
    [] p \in {"exit", "RDV"} -> 2 [] p = "DV" -> 3 [] OTHER -> 4

\* Updates that are doubled or late never take a listed vehicle back to a lane that
\* it left, nor its state to an earlier one.
GoesOn ==
  MaxTrips = 1 =>
    \A v \in DOMAIN Purged(vehicles) \cap DOMAIN vehicles' :
      /\ Rank(vehicles[v].lane) <= Rank(vehicles'[v].lane)
      /\ Rank(vehicles[v].state) <= Rank(vehicles'[v].state)

\* A vehicle that came in sight on its entry lane is never taken for an approaching
\* one once an update from further on was processed.
BoxMeansDeparting ==
  \A v \in DOMAIN vehicles : vehicles[v].state = "EV" => vehicles[v].lane = "entry"

\* A vehicle that went away for good leaves the list.
GoneIsForgotten ==
  \A v \in Vehicles :
    (pos[v] = "away" /\ trips[v] = MaxTrips) ~> (v \notin DOMAIN vehicles)

=============================================================================
