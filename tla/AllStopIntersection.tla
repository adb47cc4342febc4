------------------------- MODULE AllStopIntersection -------------------------
(***************************************************************************)
(* The all-way stop as a whole: vehicles that report themselves over a     *)
(* lossy way (VehicleTracking), the list the scheduling service keeps of   *)
(* them, the scheduling thread that orders them (AllStopScheduler) and the *)
(* vehicles that enter when the last schedule gives them access. Every     *)
(* vehicle has a lane and a link of its own, named by its id; times of the *)
(* schedule are of no interest here, only who has access.                  *)
(***************************************************************************)
EXTENDS VehicleTracking, AllStopScheduler

CONSTANT Timely  \* whether a listed vehicle at the bar or in the box is heard in time

AllStopIntersectionAssumption ==
  /\ Lanes = Vehicles /\ Links = Vehicles
  /\ IntersectionType = "stop_controlled_intersection"
  /\ Timely \in BOOLEAN

vars == <<trackingVars, schedulerVars>>

EverybodyElse == [v \in Vehicles |-> Vehicles \ {v}]

Init == TrackingInit /\ granted = {} /\ schedule = <<>>

-----------------------------------------------------------------------------

\* What the scheduler reads of a listed vehicle.
Listed(list, v) ==
  [id |-> v, state |-> list[v].state, dp |-> list[v].dp, link |-> v, entry |-> v, lane |-> v,
   st |-> 0, et |-> 0, clearance |-> 1, toStopBar |-> 0, distance |-> 0, age |-> list[v].age]

\* schedule_veh: one pass of the scheduling thread. The order of an unordered_map is any.
Schedule ==
  LET list == Purged(vehicles)
  IN /\ GetVehicles
     /\ \E order \in SetToSeqs(DOMAIN list) :
          ScheduleVehicles([i \in DOMAIN order |-> Listed(list, order[i])], 1)
     /\ UNCHANGED <<pos, access, dp, trips, updates>>

\* A vehicle (external) receives the last schedule, and takes its own entry.
Receive(v) ==
  \E i \in DOMAIN schedule :
    /\ schedule[i].id = v
    /\ pos[v] \in {"approach", "bar"}
    /\ access' = [access EXCEPT ![v] = schedule[i].access]
    /\ dp' = [dp EXCEPT ![v] = schedule[i].dp]
    /\ UNCHANGED <<vehicles, pos, trips, updates, schedulerVars>>

HeardInTime(v) ==
  pos[v] \in {"bar", "box"} /\ v \in DOMAIN vehicles => vehicles[v].age < StaleAfter

PassTime ==
  /\ Timely => \A v \in Vehicles : HeardInTime(v)
  /\ Tick
  /\ UNCHANGED schedulerVars

Scheduled == {schedule[i].id : i \in DOMAIN schedule}

\* A vehicle that comes again comes when it was long forgotten.
ArrivesAnew ==
  \A v \in Vehicles : trips'[v] # trips[v] => v \notin DOMAIN vehicles \cup Scheduled

AroundTheSchedule ==
  \/ VehicleStep /\ ArrivesAnew /\ UNCHANGED schedulerVars
  \/ PassTime
  \/ \E v \in Vehicles : Receive(v)

IntersectionNext == AroundTheSchedule \/ Schedule

\* An update that the list takes.
GetsThrough(v) ==
  /\ \E m \in updates :
       /\ m.id = v /\ Accepted(Purged(vehicles), m)
       /\ Deliver(m) /\ updates' = updates \ {m}
  /\ UNCHANGED schedulerVars

Arrives(m) == Deliver(m) /\ updates' = updates \ {m} /\ UNCHANGED schedulerVars

SendsValid(v) ==
  Send(v) /\ (\A m \in updates' \ updates : m.valid) /\ UNCHANGED schedulerVars

\* The clock runs, the scheduling thread makes its passes, vehicles drive on, receive
\* and send; nothing is on its way forever, and again and again an update gets through.
Fairness ==
  /\ WF_vars(PassTime) /\ WF_vars(Schedule)
  /\ WF_vars(\E m \in updates : Arrives(m))
  /\ \A v \in Vehicles :
       /\ WF_vars(Drive(v) /\ UNCHANGED schedulerVars)
       /\ SF_vars(Receive(v)) /\ SF_vars(SendsValid(v)) /\ SF_vars(GetsThrough(v))

IntersectionSpec == Init /\ [][IntersectionNext]_vars

FairSpec == IntersectionSpec /\ Fairness

Symmetry == Permutations(Vehicles)

-----------------------------------------------------------------------------
(***************************************************************************)
(* Properties.                                                             *)
(***************************************************************************)

IntersectionTypeOK ==
  /\ TypeOK
  /\ granted \subseteq Vehicles
  /\ \A i \in DOMAIN schedule : schedule[i].id \in Vehicles /\ schedule[i].access \in BOOLEAN
  /\ \A i, j \in DOMAIN schedule : schedule[i].id = schedule[j].id => i = j

\* Vehicles whose links conflict are never in the intersection box together.
NoConflictInBox ==
  \A v, w \in Vehicles :
    v # w /\ pos[v] = "box" /\ w \in Conflicting[v] => pos[w] # "box"

\* Why: on its only trip a vehicle learns that it may enter, and others that it stopped
\* or left, not before it did so, and from then on it is in the list as departing, until
\* it passed; vehicles that are there at the same time do not conflict.
AtTheBar(v) == pos[v] \in {"bar", "box"}

Passed(v) == pos[v] = "left" \/ (pos[v] = "away" /\ trips[v] = MaxTrips)

IsListed(v, states) == v \in DOMAIN vehicles /\ vehicles[v].state \in states

\* The scheduler, which reads the list now, takes it for a departing one.
Claims(v) ==
  /\ AtTheBar(v)
  /\ IsListed(v, {"DV"}) \/ (IsListed(v, {"RDV"}) /\ v \in granted)
  /\ vehicles[v].age <= StaleAfter

\* Somebody has it that v may enter: v, the scheduler, the list, or a message.
ToldToEnter(v) ==
  \/ access[v]
  \/ v \in granted
  \/ \E i \in DOMAIN schedule : schedule[i].id = v /\ schedule[i].access
  \/ IsListed(v, {"DV"})
  \/ \E m \in updates : m.id = v /\ m.access

SeenStopped(v) ==
  IsListed(v, {"RDV", "DV"}) \/ \E m \in updates : m.id = v /\ m.stopped

SeenLeaving(v) ==
  IsListed(v, {"LV"}) \/ \E m \in updates : m.id = v /\ m.lane = "exit"

AccessInv == \A v \in Vehicles : ToldToEnter(v) => Claims(v) \/ Passed(v)

SightInv ==
  \A v \in Vehicles :
    /\ SeenStopped(v) => AtTheBar(v) \/ Passed(v)
    /\ SeenLeaving(v) => Passed(v)

TripInv ==
  \A v \in Vehicles :
    /\ pos[v] # "away" => trips[v] = MaxTrips
    /\ pos[v] = "box" => access[v]

ClaimsInv ==
  \A v, w \in Vehicles : v # w /\ Claims(v) /\ Claims(w) => w \notin Conflicting[v]

CrossingInv == AccessInv /\ SightInv /\ TripInv /\ ClaimsInv

\* Whoever stands at the bar crosses the intersection.
EveryoneCrosses == \A v \in Vehicles : (pos[v] = "bar") ~> (pos[v] = "left")

=============================================================================
