-------------------------- MODULE AllStopScheduler --------------------------
(***************************************************************************)
(* all_stop_vehicle_scheduler: the order in which the vehicles of an       *)
(* all-way stop depart, and which of them may enter now. Kinematics are    *)
(* two numbers of a vehicle: the time it takes to clear its link lanelet,  *)
(* and the time it takes to reach the stop bar.                            *)
(***************************************************************************)
EXTENDS Integers, SequencesExt, FiniteSetsExt

CONSTANTS
  Lanes,              \* ids of the entry lanelets
  Links,              \* ids of the link lanelets
  Conflicting,        \* getConflictLaneletIds: link lanelet -> link lanelets
  FlexibilityLimit,
  EnteringTimeBuffer, \* 0 in the program: nothing sets it
  StaleAfter          \* updates older than this (5 s) are not considered

AllStopAssumption ==
  /\ Conflicting \in [Links -> SUBSET Links]
  /\ FlexibilityLimit \in Nat /\ EnteringTimeBuffer \in Nat /\ StaleAfter \in Nat

VARIABLES
  granted,  \* rdvs_previously_granted_access, by their ids
  schedule  \* the vehicle_schedules of the last intersection_schedule

schedulerVars == <<granted, schedule>>

\* The elements of a list at the given places, in their order.
Kept(list, places) ==
  LET kept[n \in 0 .. Len(list)] ==
        IF n = 0 THEN <<>>
        ELSE IF n \in places THEN Append(kept[n - 1], list[n]) ELSE kept[n - 1]
  IN kept[Len(list)]

-----------------------------------------------------------------------------
(***************************************************************************)
(* vehicle_sorting and the sorts of the standard library.                  *)
(***************************************************************************)

\* departure_position_comparator; a position below 1 is unassigned.
DeparturePositionBefore(p, q) == IF p.dp < 1 THEN p.dp > q.dp ELSE p.dp < q.dp

DistanceBefore(p, q) == p.distance < q.distance

\* Where list::sort, which is stable, puts an element: before the first of those
\* that it precedes, also when the order does not rank all of them consistently.
Place(list, after) == IF after = {} THEN Len(list) + 1 ELSE Min(after)

InsertByPosition(list, x) ==
  InsertAt(list, Place(list, {i \in DOMAIN list : DeparturePositionBefore(x, list[i])}), x)

SortedByPosition(list) ==
  LET sorted[n \in 0 .. Len(list)] ==
        IF n = 0 THEN <<>> ELSE InsertByPosition(sorted[n - 1], list[n])
  IN sorted[Len(list)]

InsertByDistance(list, x) ==
  InsertAt(list, Place(list, {i \in DOMAIN list : DistanceBefore(x, list[i])}), x)

SortedByDistance(list) ==
  LET sorted[n \in 0 .. Len(list)] ==
        IF n = 0 THEN <<>> ELSE InsertByDistance(sorted[n - 1], list[n])
  IN sorted[Len(list)]

\* next_permutation: << >> when the list is the last one.
NextPermutation(list) ==
  LET rises == {i \in 1 .. Len(list) - 1 : DeparturePositionBefore(list[i], list[i + 1])}
      i == Max(rises)
      j == Max({k \in i + 1 .. Len(list) : DeparturePositionBefore(list[i], list[k])})
      swapped == [list EXCEPT ![i] = list[j], ![j] = list[i]]
  IN IF rises = {} THEN <<>>
     ELSE SubSeq(swapped, 1, i) \o Reverse(SubSeq(swapped, i + 1, Len(list)))

Factorial(n) ==
  LET factorial[i \in 0 .. n] == IF i = 0 THEN 1 ELSE i * factorial[i - 1]
  IN factorial[n]

\* The lists that do { } while (next_permutation) visits, in their order.
DepartureOrders(list) ==
  LET Visit(lists) ==
        LET next == NextPermutation(Last(lists))
        IN IF next = <<>> THEN lists ELSE Append(lists, next)
      visited[n \in 0 .. Factorial(Len(list)) - 1] ==
        IF n = 0 THEN <<list>> ELSE Visit(visited[n - 1])
  IN visited[Factorial(Len(list)) - 1]

-----------------------------------------------------------------------------
(***************************************************************************)
(* estimate_vehicles_at_common_time: vehicles whose update is older than   *)
(* 5 s, or later than the schedule, are left out. age is the difference.   *)
(***************************************************************************)

Considered(list) ==
  Kept(list, {i \in DOMAIN list : 0 <= list[i].age /\ list[i].age <= StaleAfter})

\* get_latest_conflicting: of the schedules that conflict, the first with the
\* latest departure.
LatestConflicting(link, schedules) ==
  LET conflicts == {i \in DOMAIN schedules : schedules[i].link \in Conflicting[link]}
      latest == {i \in conflicts : \A j \in conflicts : schedules[j].dt <= schedules[i].dt}
  IN IF conflicts = {} THEN <<>> ELSE <<schedules[Min(latest)]>>

Entry(veh, state, est, st, et, dp, access) ==
  [id |-> veh.id, state |-> state, link |-> veh.link, lane |-> veh.entry,
   est |-> est, st |-> st, et |-> et, dt |-> et + veh.clearance, dp |-> dp, access |-> access]

NextPosition(schedules) == IF schedules = <<>> THEN 1 ELSE Last(schedules).dp + 1

-----------------------------------------------------------------------------
(***************************************************************************)
(* schedule_dvs. waiting: those that have access but did not confirm it.   *)
(***************************************************************************)

ScheduleDvs(dvs, waiting, now) ==
  LET sorted == SortedByPosition(dvs)
      Departing(veh, dp) ==
        [Entry(veh, veh.state, veh.st, veh.st,
               IF veh.id \in waiting THEN now ELSE veh.et, dp, TRUE)
           EXCEPT !.dt = now + veh.clearance]
  IN [dp \in DOMAIN sorted |-> Departing(sorted[dp], dp)]

-----------------------------------------------------------------------------
(***************************************************************************)
(* schedule_rdvs                                                           *)
(***************************************************************************)

\* consider_departure_position_permutation, one vehicle of it. A vehicle that
\* conflicts with nobody enters now, unless the one before it has to wait.
ConsiderRdv(option, veh, now) ==
  LET latest == LatestConflicting(veh.link, option)
      dp == NextPosition(option)
      Stopped(state, et, access) == Entry(veh, state, veh.st, veh.st, et, dp, access)
  IN Append(option,
       CASE latest # <<>> ->
              Stopped("RDV", Max({latest[1].dt, Last(option).et}), FALSE)
         [] latest = <<>> /\ (option = <<>> \/ Last(option).access) ->
              Stopped("DV", now, TRUE)
         [] OTHER -> Stopped("RDV", Last(option).et, FALSE))

WithinFlexibilityLimit(order, start) ==
  \A i \in DOMAIN order :
    LET dp == start + i - 1
    IN order[i].dp - FlexibilityLimit <= dp /\ dp <= order[i].dp + FlexibilityLimit

Option(order, scheduled, now) ==
  LET option[n \in 0 .. Len(order)] ==
        IF n = 0 THEN scheduled ELSE ConsiderRdv(option[n - 1], order[n], now)
  IN option[Len(order)]

Delay(schedules) ==
  LET delay[n \in 0 .. Len(schedules)] ==
        IF n = 0 THEN 0 ELSE delay[n - 1] + (schedules[n].et - schedules[n].st)
  IN delay[Len(schedules)]

\* Every order that keeps all positions within the limit.
Options(rdvs, scheduled, now) ==
  LET orders == DepartureOrders(SortedByPosition(rdvs))
      valid == Kept(orders, {k \in DOMAIN orders :
                               WithinFlexibilityLimit(orders[k], NextPosition(scheduled))})
  IN [k \in DOMAIN valid |-> Option(valid[k], scheduled, now)]

\* The first of those with the least delay.
BestOption(options) ==
  LET Better(option, other) == IF Delay(option) < Delay(other) THEN option ELSE other
      best[n \in 0 .. Len(options)] ==
        IF n = 0 THEN options[1] ELSE Better(options[n], best[n - 1])
  IN best[Len(options)]

-----------------------------------------------------------------------------
(***************************************************************************)
(* schedule_evs                                                            *)
(***************************************************************************)

\* The vehicle ahead of the entering ones, by lane: whatever is stopped, or
\* enters just now, is put ahead of every lane, and the first one stays.
PrecedingAtFirst(scheduled, now) ==
  LET JustEnters(s) ==
        \* The difference is unsigned: an earlier entering time is far away.
        s.state = "DV" /\ s.et >= now /\ s.et - now <= EnteringTimeBuffer
      ahead == {i \in DOMAIN scheduled :
                  scheduled[i].state = "RDV" \/ JustEnters(scheduled[i])}
  IN [lane \in IF ahead = {} THEN {} ELSE Lanes |-> scheduled[Min(ahead)]]

\* st and et of an entering vehicle: behind the one ahead of it in its lane,
\* and after every conflicting one.
TimeToStopBar(veh) == veh.toStopBar

EarliestStop(veh, now) == now + TimeToStopBar(veh)

StopTime(veh, preceding, now) ==
  IF veh.lane \in DOMAIN preceding
    THEN Max({EarliestStop(veh, now), preceding[veh.lane].et + EnteringTimeBuffer})
    ELSE EarliestStop(veh, now)

MutantEnterTime(veh, st, scheduled) ==
  IF scheduled = <<>> THEN st ELSE Max({Last(scheduled).et, st})

EnterTime(veh, st, scheduled) ==
  LET latest == LatestConflicting(veh.link, scheduled)
  IN IF latest = <<>> THEN st ELSE Max({latest[1].dt, st})

\* One round: of the first vehicles of the lanes, the one that stops first.
ScheduleNextEv(todo, now) ==
  LET evs == todo.evs
      first == {i \in DOMAIN evs : \A j \in 1 .. i - 1 : evs[j].entry # evs[i].entry}
      St(i) == StopTime(evs[i], todo.preceding, now)
      next == Min({i \in first : \A j \in first : St(i) <= St(j)})
      veh == evs[next]
      et == EnterTime(veh, St(next), todo.schedules)
      sched == Entry(veh, "EV", EarliestStop(veh, now), St(next), et,
                     NextPosition(todo.schedules), FALSE)
  IN [evs |-> RemoveAt(evs, next),
      schedules |-> Append(todo.schedules, sched),
      preceding |-> [lane \in DOMAIN todo.preceding \cup {veh.entry} |->
                       IF lane = veh.entry THEN sched ELSE todo.preceding[lane]]]

ScheduleEvs(evs, scheduled, now) ==
  LET todo[n \in 0 .. Len(evs)] ==
        IF n = 0 THEN [evs |-> SortedByDistance(evs), schedules |-> scheduled,
                       preceding |-> PrecedingAtFirst(scheduled, now)]
                 ELSE ScheduleNextEv(todo[n - 1], now)
  IN todo[Len(evs)].schedules

-----------------------------------------------------------------------------
(***************************************************************************)
(* schedule_vehicles: departing vehicles (and the stopped ones that were   *)
(* granted access before), then the stopped, then the entering ones. When  *)
(* no order of the stopped is within the limit an exception ends it there. *)
(* list holds the vehicles in the order of an unordered_map.               *)
(***************************************************************************)

MutantDeparts(veh) == veh.state = "DV"

Departs(veh) == veh.state = "DV" \/ (veh.state = "RDV" /\ veh.id \in granted)

Round(list, now) ==
  LET considered == Considered(list)
      places == DOMAIN considered
      dvs == Kept(considered, {i \in places : Departs(considered[i])})
      rdvs == Kept(considered,
                   {i \in places : considered[i].state = "RDV" /\ ~ Departs(considered[i])})
      evs == Kept(considered, {i \in places : considered[i].state = "EV"})
      confirmed == {veh.id : veh \in {v \in ToSet(considered) : v.state = "DV"}}
      departing == ScheduleDvs(dvs, granted \ confirmed, now)
      options == Options(rdvs, departing, now)
      stopped == IF rdvs = <<>> THEN departing ELSE BestOption(options)
      entering == {s \in ToSet(stopped) : s.access /\ s.id \in {v.id : v \in ToSet(rdvs)}}
  IN IF rdvs # <<>> /\ options = <<>>
       THEN [schedule |-> departing, granted |-> granted \ confirmed]
       ELSE [schedule |-> ScheduleEvs(evs, stopped, now),
             granted |-> (granted \ confirmed) \cup {s.id : s \in entering}]

ScheduleVehicles(list, now) ==
  \E round \in {Round(list, now)} :
    schedule' = round.schedule /\ granted' = round.granted

=============================================================================
