------------------------ MODULE SignalizedIntersection ------------------------
(***************************************************************************)
(* A signalized intersection: the signal controller, the SPaT that tells   *)
(* of its next events, the two threads of the scheduling service that read *)
(* it and schedule by it, and the vehicles that enter when they were told  *)
(* to. What the threads and the vehicles know is some ticks old.           *)
(***************************************************************************)
EXTENDS SignalizedScheduler

CONSTANTS
  Vehicles,
  Route,        \* of each vehicle: its lane and its link
  Distance,     \* ticks that each vehicle needs to the stop bar, at first
  Headway, Clearance,
  Timeline,     \* of each signal group: its events, with epoch times
  Announced,    \* number of events of a group in a SPaT
  SpatAge,      \* age that the SPaT of a round may have
  ScheduleAge,  \* age that a schedule may have when a vehicle acts on it
  Ahead,        \* ticks that a vehicle may be ahead of its schedule
  MaxTime       \* bound: the clock stops here

IntersectionAssumption ==
  /\ Route \in [Vehicles -> [lane : Lanes, link : Nat]]
  /\ Distance \in [Vehicles -> Nat]
  /\ {Headway, Clearance, Announced, SpatAge, ScheduleAge, Ahead, MaxTime} \subseteq Nat

Groups == DOMAIN Timeline

\* What the intersection must be for its vehicles to be safe. A vehicle's link is one of its
\* lane, and crossing the box takes time.
RoutesAssumption ==
  /\ SignalizedAssumption /\ IntersectionAssumption
  /\ IsFiniteSet(Vehicles) /\ IsFiniteSet(Lanes)
  /\ \A v \in Vehicles : Route[v].link \in Connecting[Route[v].lane]
  /\ Clearance >= 1 /\ Announced >= 1

\* Signal groups that show nothing but one event after the other, beyond the end of the
\* clock, in one hour of the epoch: the marks of a SPaT tell no hours apart.
TimelineAssumption ==
  /\ MaxTime < HourMs
  /\ \A g \in Groups :
       /\ Timeline[g] \in Seq([state : STRING, start : 0 .. HourMs, end : 0 .. HourMs])
       /\ Timeline[g] # <<>> /\ MaxTime < Last(Timeline[g]).end
       /\ \A i \in DOMAIN Timeline[g] : Timeline[g][i].start < Timeline[g][i].end
       /\ \A i, j \in DOMAIN Timeline[g] : i < j => Timeline[g][i].end <= Timeline[g][j].start

\* The buffer at the start of a green (2 s) outweighs the age of what a vehicle acts on, how
\* far it is ahead, and that marks are cut to tenths.
BufferAssumption == InitialGreenBuffer >= SpatAge + ScheduleAge + Ahead + TenthMs - 1

\* When vehicles may enter in the green e.
FirstEntry(e) == e.start + InitialGreenBuffer - Ahead - (TenthMs - 1)
LastEntry(e) == e.end - FinalGreenBuffer - 1

\* Greens of two signal groups are so far apart that the box is clear in between.
ClearanceAssumption ==
  \A g, h \in Groups : g # h =>
    \A i \in DOMAIN Timeline[g], j \in DOMAIN Timeline[h] :
      Timeline[g][i].state = "green" /\ Timeline[h][j].state = "green" =>
        \/ FirstEntry(Timeline[h][j]) >= LastEntry(Timeline[g][i]) + Clearance
        \/ FirstEntry(Timeline[g][i]) >= LastEntry(Timeline[h][j]) + Clearance

SignalAssumption ==
  RoutesAssumption /\ TimelineAssumption /\ BufferAssumption /\ ClearanceAssumption

VARIABLES
  now,
  spat, spatAt,          \* spat_ptr and when it was sent
  schedule, scheduleAt,  \* the last schedule and its time
  stage,                 \* of each vehicle: "lane", "box" or "left"
  left,                  \* ticks to the stop bar, or to the end of the box
  entered,               \* when each vehicle entered the box
  held                   \* the last entering time each vehicle received, and its age

vehicleVars == <<stage, left, entered>>
vars == <<now, spat, spatAt, schedule, scheduleAt, vehicleVars, held>>

\* The current event of a group and those that are announced with it, at time t.
Current(g, t) == Min({i \in DOMAIN Timeline[g] : t < Timeline[g][i].end})

Marked(e, t) ==
  [state |-> e.state, start |-> MarkOfEpoch(e.start, t), end |-> MarkOfEpoch(e.end, t)]

EventsAhead(g, t) ==
  LET first == Current(g, t)
      last == Min({first + Announced - 1, Len(Timeline[g])})
  IN [i \in 1 .. last - first + 1 |-> Marked(Timeline[g][first + i - 1], t)]

SpatAt(t) == [g \in Groups |-> EventsAhead(g, t)]

Nothing == [et |-> 0, age |-> ScheduleAge + 1]

Init ==
  /\ now = 0
  /\ spat = SpatAt(0) /\ spatAt = 0
  /\ schedule = <<>> /\ scheduleAt = 0
  /\ stage = [v \in Vehicles |-> "lane"]
  /\ left = Distance
  /\ entered = [v \in Vehicles |-> 0]
  /\ held = [v \in Vehicles |-> Nothing]

-----------------------------------------------------------------------------

\* consume_spat: spat_ptr takes the next SPaT.
ConsumeSpat ==
  /\ spatAt # now
  /\ spat' = SpatAt(now) /\ spatAt' = now
  /\ UNCHANGED <<now, schedule, scheduleAt, vehicleVars, held>>

\* What the list says of a vehicle.
Listed(v) ==
  [id |-> v, state |-> IF stage[v] = "lane" THEN "EV" ELSE "DV",
   lane |-> Route[v].lane, link |-> Route[v].link, distance |-> left[v],
   eet |-> now + left[v], et |-> entered[v], headway |-> Headway,
   clearance |-> IF stage[v] = "lane" THEN Clearance ELSE left[v]]

Present == {v \in Vehicles : stage[v] # "left"}

Dvs == {v \in Vehicles : stage[v] = "box"}

EvsIn(lane) == {v \in Vehicles : stage[v] = "lane" /\ Route[v].lane = lane}

LanesWithEvs == {lane \in Lanes : EvsIn(lane) # {}}

OrdersOfEvs(lane) == ByDistance({Listed(v) : v \in EvsIn(lane)})

\* schedule_veh, one round. The order of an unordered_map is any.
Schedule ==
  /\ scheduleAt # now \/ schedule = <<>>
  /\ Present # {}
  /\ \E dvs \in SetToSeqs({Listed(v) : v \in Dvs}), lanes \in SetToSeqs(LanesWithEvs),
        evs \in [LanesWithEvs -> UNION {OrdersOfEvs(lane) : lane \in LanesWithEvs}] :
       /\ \A lane \in LanesWithEvs : evs[lane] \in OrdersOfEvs(lane)
       /\ schedule' = ScheduleVehicles(dvs, evs, lanes, spat, now).schedules
  /\ scheduleAt' = now
  /\ UNCHANGED <<now, spat, spatAt, vehicleVars, held>>

-----------------------------------------------------------------------------
(***************************************************************************)
(* The vehicles (external). One at the stop bar enters at the time it was  *)
(* told, or a little ahead of it, when what it was told is not too old.    *)
(***************************************************************************)

Receive(v) ==
  /\ stage[v] = "lane" /\ left[v] = 0
  /\ \E i \in DOMAIN schedule :
       /\ schedule[i].id = v /\ schedule[i].state = "EV"
       /\ held' = [held EXCEPT ![v] = [et |-> schedule[i].et, age |-> now - scheduleAt]]
  /\ held' # held
  /\ UNCHANGED <<now, spat, spatAt, schedule, scheduleAt, vehicleVars>>

Enter(v) ==
  /\ stage[v] = "lane" /\ left[v] = 0
  /\ held[v].age <= ScheduleAge
  /\ held[v].et - Ahead <= now /\ now <= held[v].et
  /\ stage' = [stage EXCEPT ![v] = "box"]
  /\ left' = [left EXCEPT ![v] = Clearance]
  /\ entered' = [entered EXCEPT ![v] = now]
  /\ held' = [held EXCEPT ![v] = Nothing]
  /\ UNCHANGED <<now, spat, spatAt, schedule, scheduleAt>>

\* Vehicles of a lane keep their order.
Free(v) ==
  \A w \in Vehicles \ {v} :
    stage[w] = "lane" /\ Route[w].lane = Route[v].lane => left[w] # left[v] - 1

\* A vehicle in the box moves on; one in its lane may be slower.
Tick ==
  /\ now < MaxTime
  /\ now - spatAt < SpatAge /\ now - scheduleAt < 1
  /\ now' = now + 1
  /\ \E moving \in SUBSET {v \in Vehicles : stage[v] = "lane" /\ left[v] > 0 /\ Free(v)} :
       left' = [v \in Vehicles |->
                  IF v \in moving \/ stage[v] = "box" THEN left[v] - 1 ELSE left[v]]
  /\ stage' = [v \in Vehicles |->
                 IF stage[v] = "box" /\ left[v] <= 1 THEN "left" ELSE stage[v]]
  /\ held' = [v \in Vehicles |-> [held[v] EXCEPT !.age = Min({@ + 1, ScheduleAge + 1})]]
  /\ UNCHANGED <<spat, spatAt, schedule, scheduleAt, entered>>

Next ==
  \/ ConsumeSpat
  \/ Schedule
  \/ Tick
  \/ \E v \in Vehicles : Receive(v) \/ Enter(v)

Spec == Init /\ [][Next]_vars

-----------------------------------------------------------------------------
(***************************************************************************)
(* Properties.                                                             *)
(***************************************************************************)

Scheduled == [id : Vehicles, state : {"EV", "DV"}, lane : Lanes, link : Links,
              eet : Nat, et : Nat, dt : Nat]

TypeOK ==
  /\ now \in 0 .. MaxTime /\ spatAt \in 0 .. now /\ scheduleAt \in 0 .. now
  /\ DOMAIN spat = Groups
  /\ schedule \in Seq(Scheduled)
  /\ \A i, j \in DOMAIN schedule : schedule[i].id = schedule[j].id => i = j
  /\ stage \in [Vehicles -> {"lane", "box", "left"}]
  /\ left \in [Vehicles -> Nat] /\ entered \in [Vehicles -> Nat]

Group(v) == GroupOf[Route[v].link]

IsGreen(g) == Timeline[g][Current(g, now)].state = "green"

\* A vehicle that follows the schedules, as old as they may be and as far ahead of
\* them as it may be, enters on green.
EntryOnGreen ==
  \A v \in Vehicles : stage'[v] = "box" /\ stage[v] = "lane" => IsGreen(Group(v))

EntersOnGreen == [][EntryOnGreen]_vars

\* Vehicles of different signal groups are never in the box together.
BoxOfOneGroup ==
  \A v, w \in Vehicles : stage[v] = "box" /\ stage[w] = "box" => Group(v) = Group(w)

\* Entering vehicles keep the headway to everyone that is scheduled ahead of them in
\* their lane.
KeepsHeadway ==
  \A i, j \in DOMAIN schedule :
    /\ i < j /\ schedule[i].lane = schedule[j].lane
    /\ schedule[i].state = "EV"
    => schedule[j].et >= schedule[i].et + Headway

\* What is promised of the state.
BoxIsSafe == TypeOK /\ BoxOfOneGroup /\ KeepsHeadway

=============================================================================
