----------------------------- MODULE VehicleList -----------------------------
(***************************************************************************)
(* vehicle_list and its status-intent processors: what the scheduling      *)
(* service believes of the vehicles around the intersection. A timestamp   *)
(* is kept as its age, the time that passed since; a vehicle's lanes are   *)
(* its entry lane, its link lane and its exit lane.                        *)
(***************************************************************************)
EXTENDS Integers

CONSTANTS
  Vehicles,         \* ids
  Timeout,          \* exp_delta
  IntersectionType  \* "stop_controlled_intersection" or "signalized_intersection"

VehicleListAssumption ==
  /\ Timeout \in Nat
  /\ IntersectionType \in {"stop_controlled_intersection", "signalized_intersection"}

VARIABLE vehicles  \* the vehicles of the list, by id

LaneKinds == {"entry", "link", "exit"}
States == {"ND", "EV", "RDV", "DV", "LV"}
Ages == 0 .. Timeout + 1    \* the oldest age stands for every older one

\* A status and intent update: what the vehicle was when it sent it. An update
\* that is not valid lacks a field, or has one of the wrong type.
Update ==
  [id : Vehicles, age : Ages, lane : LaneKinds, stopped : BOOLEAN,
   access : BOOLEAN, dp : Int, valid : BOOLEAN]

Vehicle == [age : Ages, lane : LaneKinds, access : BOOLEAN, dp : Int, state : States]

VehicleListOK ==
  DOMAIN vehicles \subseteq Vehicles /\ \A v \in DOMAIN vehicles : vehicles[v] \in Vehicle

-----------------------------------------------------------------------------
(***************************************************************************)
(* update_vehicle_state, of the two processors: at most one step an update *)
(***************************************************************************)

MutantAllStopStops(state, m) ==
  CASE state = "ND" /\ m.lane = "entry" -> "EV"
    [] state = "EV" /\ m.stopped /\ m.access -> "RDV"
    [] state = "RDV" /\ m.access -> "DV"
    [] state = "DV" /\ m.lane = "exit" -> "LV"
    [] OTHER -> state

AllStopState(state, m) ==
  CASE state = "ND" /\ m.lane = "entry" -> "EV"
    [] state = "EV" /\ m.stopped -> "RDV"
    [] state = "RDV" /\ m.access -> "DV"
    [] state = "DV" /\ m.lane = "exit" -> "LV"
    [] OTHER -> state

SignalizedState(state, m) ==
  CASE state = "ND" /\ m.lane = "entry" -> "EV"
    [] state = "EV" /\ m.lane # "entry" -> "DV"
    [] state = "DV" /\ m.lane = "exit" -> "LV"
    [] OTHER -> state

NextState(state, m) ==
  IF IntersectionType = "signalized_intersection"
    THEN SignalizedState(state, m) ELSE AllStopState(state, m)

-----------------------------------------------------------------------------

\* purge_old_vehicles
Purged(list) ==
  [v \in {w \in DOMAIN list : list[w].age <= Timeout} |-> list[v]]

MutantAccepted(list, m) == m.valid /\ m.age <= Timeout

\* read_metadata and read_payload: an update that is too old, that is not later
\* than the last one of the vehicle, or that is not valid, changes nothing.
Accepted(list, m) ==
  /\ m.valid
  /\ m.age <= Timeout
  /\ m.id \in DOMAIN list => m.age < list[m.id].age

\* process_status_intent, on the vehicle of the list or on a new one.
Processed(list, m) ==
  LET state == IF m.id \in DOMAIN list THEN list[m.id].state ELSE "ND"
  IN [age |-> m.age, lane |-> m.lane, access |-> m.access, dp |-> m.dp,
      state |-> NextState(state, m)]

\* process_update
ProcessUpdate(m) ==
  LET list == Purged(vehicles)
  IN vehicles' = IF Accepted(list, m)
                   THEN [v \in DOMAIN list \cup {m.id} |->
                           IF v = m.id THEN Processed(list, m) ELSE list[v]]
                   ELSE list

\* get_vehicles
GetVehicles == vehicles' = Purged(vehicles)

Older(age) == IF age > Timeout THEN age ELSE age + 1

\* Time passes.
ListGrowsOld == vehicles' = [v \in DOMAIN vehicles |-> [vehicles[v] EXCEPT !.age = Older(@)]]

=============================================================================
