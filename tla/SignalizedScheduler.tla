------------------------- MODULE SignalizedScheduler -------------------------
(***************************************************************************)
(* signalized_vehicle_scheduler: the entering times of the vehicles of a   *)
(* signalized intersection, lane by lane, in the greens that the modified  *)
(* SPaT announces. Kinematics are three numbers of a vehicle: its earliest *)
(* entering time, its headway and the time it needs to clear the box.      *)
(***************************************************************************)
EXTENDS TimeMark, SequencesExt, FiniteSetsExt

CONSTANTS
  Lanes,               \* ids of the entry lanelets
  Connecting,          \* the link lanelets an entry lanelet leads to
  GroupOf,             \* signal_group_id of each link lanelet, 0 when it has none
  InitialGreenBuffer,
  FinalGreenBuffer,
  Throws               \* what a function that throws returns: none of its values

Links == DOMAIN GroupOf

SignalizedAssumption ==
  /\ GroupOf \in [Links -> Nat]
  /\ Connecting \in [Lanes -> SUBSET Links]
  /\ InitialGreenBuffer \in Nat /\ FinalGreenBuffer \in Nat

-----------------------------------------------------------------------------

\* The lists that a sort by distance_comparator may make of the vehicles: it leaves
\* those of equal distance in the order of an unordered_map.
ByDistance(evs) ==
  {list \in SetToSeqs(evs) :
     \A i, j \in DOMAIN list : i < j => list[i].distance <= list[j].distance}

\* get_link_lanelet_info throws for a link it does not know. The exception ends the
\* round; what was scheduled before stays.
Strangers(list) == {i \in DOMAIN list : list[i].link \notin Links}

BeforeStranger(list) ==
  IF Strangers(list) = {} THEN DOMAIN list ELSE 1 .. Min(Strangers(list)) - 1

\* schedule_dvs, one vehicle of it.
ScheduleDv(veh, now) ==
  [id |-> veh.id, state |-> "DV", lane |-> veh.lane, link |-> veh.link,
   eet |-> 0, et |-> veh.et, dt |-> now + veh.clearance]

\* find_movement_state_for_lane: all links of the lane have one signal group.
MovementEvents(lane, spat) ==
  LET groups == {GroupOf[link] : link \in Connecting[lane]}
      group == CHOOSE g \in groups : TRUE
  IN IF groups = {} \/ groups # {group} \/ group \notin DOMAIN spat \ {0}
       THEN Throws ELSE spat[group]

\* Whether the vehicle can enter in this event.
Fits(et, event, now) ==
  event.state = "green" /\ et < EpochOfMark(event.end, now) - FinalGreenBuffer

MutantEntersFrom(event, now) == EpochOfMark(event.start, now)

EntersFrom(event, now) == EpochOfMark(event.start, now) + InitialGreenBuffer

\* estimate_et: in the first green it can reach, or behind all that is announced.
EstimateEt(veh, events, available, now) ==
  LET Et(event) == Max({available, veh.eet, EntersFrom(event, now)})
      greens == {i \in DOMAIN events : Fits(Et(events[i]), events[i], now)}
      beyond == EpochOfMark(Last(events).end, now) + InitialGreenBuffer
  IN IF greens = {} THEN Max({available, veh.eet, beyond}) ELSE Et(events[Min(greens)])

MutantFirstAvailable(veh, preceding, now) == now

FirstAvailable(veh, preceding, now) ==
  IF preceding = <<>> THEN now ELSE Max({now, preceding[1].et + veh.headway})

\* One entering vehicle, behind the one that precedes it.
ScheduleEv(veh, events, preceding, now) ==
  LET et == EstimateEt(veh, events, FirstAvailable(veh, preceding, now), now)
  IN [id |-> veh.id, state |-> "EV", lane |-> veh.lane, link |-> veh.link,
      eet |-> veh.eet, et |-> et, dt |-> et + veh.clearance]

\* The departing vehicle of the lane with the earliest entering time.
PrecedingDv(lane, schedules) ==
  LET dvs == {i \in DOMAIN schedules :
                schedules[i].lane = lane /\ schedules[i].state = "DV"}
      first == {i \in dvs : \A j \in dvs : schedules[i].et <= schedules[j].et}
  IN IF dvs = {} THEN <<>> ELSE <<schedules[Min(first)]>>

Round(schedules, failed) == [schedules |-> schedules, failed |-> failed]

ScheduleDvs(dvs, now) ==
  Round([i \in BeforeStranger(dvs) |-> ScheduleDv(dvs[i], now)], Strangers(dvs) # {})

\* The entering vehicles of a lane, behind what the round scheduled so far.
LaneSchedule(lane, evs, events, schedules, now) ==
  LET sched[i \in BeforeStranger(evs)] ==
        ScheduleEv(evs[i], events,
                   IF i = 1 THEN PrecedingDv(lane, schedules) ELSE <<sched[i - 1]>>, now)
  IN sched

ScheduleLane(round, lane, evs, spat, now) ==
  LET events == MovementEvents(lane, spat)
  IN CASE round.failed -> round
       [] ~ round.failed /\ events = Throws -> Round(round.schedules, TRUE)
       [] OTHER -> Round(round.schedules \o LaneSchedule(lane, evs, events, round.schedules, now),
                         Strangers(evs) # {})

\* schedule_vehicles. dvs: the departing vehicles, in the order of an unordered_map;
\* lanes: those with entering vehicles, in the order of another; evs: these vehicles by
\* lane, sorted. A vehicle of an unknown lane is in none of them.
ScheduleVehicles(dvs, evs, lanes, spat, now) ==
  LET round[n \in 0 .. Len(lanes)] ==
        IF n = 0 THEN ScheduleDvs(dvs, now)
        ELSE ScheduleLane(round[n - 1], lanes[n], evs[lanes[n]], spat, now)
  IN round[Len(lanes)]

=============================================================================
