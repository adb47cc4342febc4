---------------------------- MODULE PlanSelection ----------------------------
(***************************************************************************)
(* How signal_opt_service chooses a plan: the movement groups from the TSC *)
(* configuration; for every lane the queue that would wait at the end of   *)
(* the plan in effect, and the green that clears it; the candidates; and   *)
(* the arbitrator, which schedules the vehicles under each candidate.      *)
(*                                                                         *)
(* The list of vehicles is read once to generate and, for each candidate,  *)
(* twice and more to evaluate; every read drops vehicles that are silent   *)
(* for too long. The SPaT stays the same here (PlanExchange changes it).   *)
(***************************************************************************)
EXTENDS SignalizedScheduler

CONSTANTS
  Order, Yellow, RedClear,  \* of Spat
  Configuration,            \* tsc_config_list: signal groups and their concurrent ones
  Ignores,                  \* values that ignore_signal_groups may have
  FutureGroups,             \* desired_future_move_group_count
  EtInaccuracyBuffer, QueueMaxTimeHeadway, MinGreen, MaxGreen, SoRadius,
  BasePlans,                \* plans that may be in effect
  VehicleLists,             \* what the list of vehicles may be
  Now

SelectionAssumption ==
  /\ {FutureGroups, EtInaccuracyBuffer, QueueMaxTimeHeadway, MinGreen, MaxGreen, SoRadius, Now}
       \subseteq Nat
  /\ MinGreen <= MaxGreen
  /\ \A i \in DOMAIN Configuration :
       Configuration[i] \in [group : Nat \ {0}, concurrent : Seq(Nat \ {0})]
  /\ Ignores \subseteq Seq(Nat)

VARIABLES
  pc,          \* "start", "wait", "generate", "evaluate", "measure", "done" or "down"
  moveGroups,  \* movement_groups, 0 for none
  spat,        \* spat_ptr
  vehicles,    \* the list of vehicles
  seen,        \* the list as the generator read it
  base,        \* base_desired_phase_plan
  candidates,  \* dpp_list
  measures,    \* delays of the candidates evaluated so far: candidate's, TBD
  schedules,   \* all_schedule_ptr of the candidate under evaluation
  chosen       \* the plan to publish, <<>> for none

vars == <<pc, moveGroups, spat, vehicles, seen, base, candidates, measures, schedules, chosen>>

Plans(MoveGroups) == INSTANCE Spat

-----------------------------------------------------------------------------
(***************************************************************************)
(* Movement groups.                                                        *)
(***************************************************************************)

\* A pair that is there in reverse is not added.
AddPair(groups, pair) ==
  IF <<pair[2], pair[1]>> \in ToSet(groups) THEN groups ELSE Append(groups, pair)

Populated ==
  LET Add(groups, config) ==
        IF config.concurrent = <<>> THEN Append(groups, <<config.group, 0>>)
        ELSE FoldLeft(LAMBDA gs, g : AddPair(gs, <<config.group, g>>), groups, config.concurrent)
  IN FoldLeft(Add, <<>>, Configuration)

\* A signal group that is ignored leaves its partner alone.
Without(pair, ignored) ==
  CASE pair[2] = ignored -> <<pair[1], 0>>
    [] pair[1] = ignored /\ pair[2] # 0 -> <<pair[2], 0>>
    [] OTHER -> pair

RemoveSignalGroups(groups, ignored) ==
  FoldLeft(LAMBDA gs, g :
             LET left == SelectSeq(gs, LAMBDA pair : pair # <<g, 0>>)
             IN [i \in DOMAIN left |-> Without(left[i], g)],
           groups, ignored)

GroupsOfPair(pair) == {pair[1], pair[2]} \ {0}

\* verify_movement_group_list
MovementGroupsHaveLinks ==
  \A i \in DOMAIN moveGroups : GroupsOfPair(moveGroups[i]) \subseteq {GroupOf[l] : l \in Links}

-----------------------------------------------------------------------------
(***************************************************************************)
(* The queues and the greens that clear them.                              *)
(***************************************************************************)

LanesWithEvs(list) == {veh.lane : veh \in {v \in ToSet(list) : v.state = "EV"}}

EvsOf(list, lane) == {veh \in ToSet(list) : veh.state = "EV" /\ veh.lane = lane}

\* A round of the scheduler; the orders of the unordered_maps are of no influence on
\* the times when no lane fails.
Scheduled(list, movements) ==
  LET dvs == SelectSeq(list, LAMBDA veh : veh.state = "DV")
      lanes == LanesWithEvs(list)
      evs == [lane \in lanes |-> CHOOSE sorted \in ByDistance(EvsOf(list, lane)) : TRUE]
  IN ScheduleVehicles(dvs, evs, SetToSeq(lanes), movements, Now).schedules

ListOf(list, id) == SelectSeq(list, LAMBDA veh : veh.id = id)

\* get_ev_schedules_within_so
WithinSo(scheds, list) ==
  SelectSeq(scheds, LAMBDA s : s.state = "EV" /\ ListOf(list, s.id)[1].distance <= SoRadius)

\* get_schedules_in_tbd_per_lane, for one lane
InTbd(scheds, lane, start) ==
  SortSeq(SelectSeq(scheds, LAMBDA s : s.lane = lane /\ s.et >= start),
          LAMBDA s, t : s.et < t.et)

\* get_last_vehicle_in_queue: behind it comes the last one, not the first, that meets no
\* delay and leaves a gap.
LastInQueue(evs) ==
  LET gaps == {i \in 2 .. Len(evs) : /\ evs[i].et = evs[i].eet
                                     /\ evs[i].et - evs[i-1].et >= QueueMaxTimeHeadway}
  IN IF gaps = {} THEN Last(evs) ELSE evs[Max(gaps) - 1]

RoundedUp(time) == ((time + TenthMs - 1) \div TenthMs) * TenthMs

Required(evs, start) ==
  Max({RoundedUp(LastInQueue(evs).et) + EtInaccuracyBuffer + FinalGreenBuffer,
       start + MinGreen})

MutantGreenEnd(evs, start) ==
  Min({Max({RoundedUp(LastInQueue(evs).et) + EtInaccuracyBuffer, start + MinGreen}),
       start + MaxGreen})

GreenEnd(evs, start) == Min({Required(evs, start), start + MaxGreen})

\* max_green leaves no time for the first one either.
OutOfReach(evs, start) ==
  /\ GreenEnd(evs, start) < Required(evs, start)
  /\ evs[1].et >= GreenEnd(evs, start) - FinalGreenBuffer

\* get_green_end_per_entry_lane
GreenEnds(scheds, start) ==
  LET evs == [lane \in Lanes |-> InTbd(scheds, lane, start)]
      served == {lane \in Lanes : evs[lane] # <<>> /\ ~ OutOfReach(evs[lane], start)}
  IN [lane \in served |-> GreenEnd(evs[lane], start)]

-----------------------------------------------------------------------------
(***************************************************************************)
(* The candidates.                                                         *)
(***************************************************************************)

\* signal_group_entry_lane_mapping, of those lanes that have a green end.
LanesOf(group, ends) ==
  SetToSortSeq({lane \in DOMAIN ends : \E link \in Connecting[lane] : GroupOf[link] = group},
               LAMBDA l, m : l < m)

\* update_desired_phase_plan_list: for each movement group that shares nothing with the
\* last green, a plan for every queue of its lanes.
Extended(plan, ends, start) ==
  LET With(pair, lane) == Append(plan, [groups |-> GroupsOfPair(pair), start |-> start,
                                        end |-> ends[lane]])
      Of(pair) ==
        LET lanes == LanesOf(pair[1], ends) \o
                     (IF pair[2] = 0 THEN <<>> ELSE LanesOf(pair[2], ends))
        IN IF GroupsOfPair(pair) \cap Last(plan).groups # {} THEN <<>>
           ELSE [i \in DOMAIN lanes |-> With(pair, lanes[i])]
  IN FlattenSeq([i \in DOMAIN moveGroups |-> Of(moveGroups[i])])

\* generate_desire_phase_plan_list, from the greens of the SPaT on. No green, or a movement
\* group without a link, is an exception: no candidates.
CandidatesOf(greens, list) ==
  LET start == Plans(moveGroups)!RedEnd(Last(greens))
      ends == GreenEnds(WithinSo(Scheduled(list, spat), list), start)
      Stops == \/ ~ MovementGroupsHaveLinks
               \/ greens = Throws \/ greens = <<>> \/ Len(greens) > FutureGroups
  IN IF Stops THEN <<>> ELSE Extended(greens, ends, start)

-----------------------------------------------------------------------------
(***************************************************************************)
(* The arbitrator.                                                         *)
(***************************************************************************)

DelayOf(scheds) == FoldLeft(LAMBDA sum, s : sum + s.et - s.eet, 0, scheds)

\* calculate_delay_measure: the delays of those that enter in the last green, and of
\* those after it.
DelayMeasure(scheds, green) ==
  LET within == SelectSeq(scheds, LAMBDA s : green.start <= s.et /\ s.et <= green.end)
      after == SelectSeq(scheds, LAMBDA s : s.et > green.end)
  IN [candidate |-> Max({DelayOf(within), 1}), tbd |-> Max({DelayOf(after), 1})]

AtLeast(m, n) == m.candidate * n.tbd >= n.candidate * m.tbd

\* identify_ddp_by_delay_measures; of equals it is the one the unordered_map has first.
Best == {i \in DOMAIN measures : \A j \in DOMAIN measures : AtLeast(measures[i], measures[j])}

-----------------------------------------------------------------------------

Init ==
  /\ pc = "start"
  /\ moveGroups = <<>> /\ spat = <<>>
  /\ vehicles = <<>> /\ seen = <<>>
  /\ base = <<>> /\ candidates = <<>> /\ measures = <<>> /\ schedules = <<>>
  /\ chosen = <<>>

\* start, when the configuration was received: populate_movement_groups.
PopulateMovementGroups ==
  /\ pc = "start"
  /\ \E ignored \in Ignores : moveGroups' = RemoveSignalGroups(Populated, ignored)
  /\ pc' = "wait"
  /\ UNCHANGED <<spat, vehicles, seen, base, candidates, measures, schedules, chosen>>

\* The SPaT under a plan: its first green is the one that shows.
SpatOf(plan) ==
  LET Shown(g) == [state |-> IF g \in plan[1].groups THEN "green" ELSE "red",
                   start |-> 0, end |-> 0]
  IN Plans(moveGroups)!UpdateSpatWithDpp([g \in ToSet(Order) |-> <<Shown(g)>>], plan, Now)

\* consume_spat, consume_vsi
Consume ==
  /\ pc = "wait"
  /\ \E plan \in BasePlans :
       /\ \A i \in DOMAIN plan : \E j \in DOMAIN moveGroups :
            plan[i].groups = GroupsOfPair(moveGroups[j])
       /\ spat' = SpatOf(plan)
  /\ vehicles' \in VehicleLists
  /\ pc' = "generate"
  /\ UNCHANGED <<moveGroups, seen, base, candidates, measures, schedules, chosen>>

Generate ==
  LET greens == Plans(moveGroups)!ConvertSpatToDpp(spat, Now) IN
  /\ pc = "generate"
  /\ seen' = vehicles
  /\ base' = greens
  /\ candidates' = CandidatesOf(greens, vehicles)
  /\ pc' = IF candidates' = <<>> THEN "done" ELSE "evaluate"
  /\ UNCHANGED <<moveGroups, spat, vehicles, measures, schedules, chosen>>

\* update_spat_with_candidate_dpp, calculate_vehicle_schedules for the next candidate
ScheduleUnderCandidate ==
  /\ pc = "evaluate" /\ Len(measures) < Len(candidates)
  /\ LET candidate == candidates[Len(measures) + 1]
         planned == Plans(moveGroups)!UpdateSpatWithDpp(spat, candidate, Now)
     IN schedules' = Scheduled(vehicles, planned)
  /\ pc' = "measure"
  /\ UNCHANGED <<moveGroups, spat, vehicles, seen, base, candidates, measures, chosen>>

EvsGone == \E i \in DOMAIN schedules :
  schedules[i].state = "EV" /\ ListOf(vehicles, schedules[i].id) = <<>>

\* Without a vehicle the arbitrator's exception ends the iteration.
MeasureDelay ==
  /\ pc = "measure" /\ ~ EvsGone
  /\ LET scheds == WithinSo(schedules, vehicles) IN
       IF scheds = <<>>
         THEN pc' = "done" /\ UNCHANGED measures
         ELSE /\ measures' = Append(measures,
                   DelayMeasure(scheds, Last(candidates[Len(measures) + 1])))
              /\ pc' = "evaluate"
  /\ schedules' = <<>>
  /\ UNCHANGED <<moveGroups, spat, vehicles, seen, base, candidates, chosen>>

\* get_vehicles().at() of a vehicle that was dropped since: nobody catches that.
Terminate ==
  /\ pc = "measure" /\ EvsGone
  /\ pc' = "down"
  /\ UNCHANGED <<moveGroups, spat, vehicles, seen, base, candidates, measures, schedules, chosen>>

Identify ==
  /\ pc = "evaluate" /\ Len(measures) = Len(candidates)
  /\ \E i \in Best : chosen' = candidates[i]
  /\ pc' = "done"
  /\ UNCHANGED <<moveGroups, spat, vehicles, seen, base, candidates, measures, schedules>>

\* A vehicle is silent for too long and the next read drops it, once in an iteration.
TimeOut ==
  /\ pc \in {"evaluate", "measure"} /\ vehicles = seen
  /\ \E i \in DOMAIN vehicles : vehicles' = RemoveAt(vehicles, i)
  /\ UNCHANGED <<pc, moveGroups, spat, seen, base, candidates, measures, schedules, chosen>>

Next ==
  \/ PopulateMovementGroups \/ Consume
  \/ Generate
  \/ ScheduleUnderCandidate \/ MeasureDelay \/ Terminate \/ Identify
  \/ TimeOut

Spec == Init /\ [][Next]_vars

-----------------------------------------------------------------------------
(***************************************************************************)
(* Properties.                                                             *)
(***************************************************************************)

SelectionTypeOK ==
  /\ pc \in {"start", "wait", "generate", "evaluate", "measure", "done", "down"}
  /\ moveGroups \in Seq(Nat \X Nat)
  /\ {base, chosen} \cup ToSet(candidates) \subseteq Seq(Plans(moveGroups)!Green)
  /\ Len(measures) <= Len(candidates)
  /\ chosen = <<>> \/ chosen \in ToSet(candidates)

Configured(g) == {i \in DOMAIN Configuration : Configuration[i].group = g}

\* Every configured signal group that is not ignored has a movement group, those of a
\* movement group may be green together, and no movement group is there twice.
MovementGroupsAreRight ==
  pc # "start" =>
    \E ignored \in Ignores :
      /\ UNION {GroupsOfPair(moveGroups[i]) : i \in DOMAIN moveGroups}
           = {Configuration[i].group : i \in DOMAIN Configuration} \ ToSet(ignored)
      /\ \A i \in DOMAIN moveGroups, g, h \in ToSet(Order) :
           moveGroups[i] = <<g, h>> =>
             \E k \in Configured(g) : h \in ToSet(Configuration[k].concurrent)
      /\ \A i, j \in DOMAIN moveGroups :
           GroupsOfPair(moveGroups[i]) = GroupsOfPair(moveGroups[j]) => i = j

\* The vehicles in the order of their times, as the plan makes them enter.
UnderPlan(plan) ==
  WithinSo(Scheduled(seen, Plans(moveGroups)!UpdateSpatWithDpp(spat, plan, Now)), seen)

\* Before anything else is done with the candidates.
JustGenerated == pc = "evaluate" /\ measures = <<>> /\ vehicles = seen

\* By its schedule s a vehicle enters in the green, with the buffer at the end.
EntersIn(s, green) ==
  /\ GroupOf[s.link] \in green.groups
  /\ green.start <= s.et /\ s.et < green.end - FinalGreenBuffer

\* Those who wait in one lane.
Waiting(lane) ==
  InTbd(WithinSo(Scheduled(seen, spat), seen), lane, Plans(moveGroups)!RedEnd(Last(base)))

\* The last of a queue that comes on a full tenth: without a buffer of at least a tenth, to
\* which the times of a SPaT are cut, the green ends when it would enter, for the test of
\* its entering time is strict.
OnTheEdge(evs, s) ==
  /\ EtInaccuracyBuffer < TenthMs
  /\ s.id = LastInQueue(evs).id /\ LastInQueue(evs).et % TenthMs = 0

\* The green that a candidate adds follows the others with the clearance they need, is
\* neither too short nor too long, and lets somebody enter: no vehicle waits for nothing
\* through a plan that was made for it, but for a queue of one that comes on the edge.
GreensAreOfUse ==
  JustGenerated => \A i \in DOMAIN candidates :
    LET green == Last(candidates[i])
        planned == UnderPlan(candidates[i])
    IN
    /\ Front(candidates[i]) = base
    /\ green.groups \cap Last(base).groups = {}
    /\ \A g \in Last(base).groups : green.start >= Last(base).end + Yellow[g] + RedClear[g]
    /\ MinGreen <= green.end - green.start /\ green.end - green.start <= MaxGreen
    /\ \/ \E j \in DOMAIN planned : EntersIn(planned[j], green)
       \/ \E lane \in Lanes : Waiting(lane) # <<>> /\ OnTheEdge(Waiting(lane), Waiting(lane)[1])

\* For every lane that can be served there is a candidate that clears its queue, whatever
\* the buffer and the headway are: only those have to wait on that are a gap behind the one
\* before, or beyond max_green, or the last one and on the edge
\* (get_green_end_per_entry_lane, "to dissipate the queue").
QueuesAreCleared ==
  JustGenerated =>
    \A lane \in Lanes, i \in DOMAIN moveGroups :
      LET evs == Waiting(lane)
          groups == GroupsOfPair(moveGroups[i])
          start == Plans(moveGroups)!RedEnd(Last(base))
          Clears(plan) ==
            LET after == InTbd(UnderPlan(plan), lane, start) IN
            \/ Last(plan).end = start + MaxGreen
            \/ \A j \in DOMAIN after :
                 \/ EntersIn(after[j], Last(plan)) \/ OnTheEdge(evs, after[j])
                 \/ j > 1 /\ after[j].eet - after[j-1].et >= QueueMaxTimeHeadway
                 \/ j > 1 /\ ~ EntersIn(after[j-1], Last(plan))
      IN /\ evs # <<>> /\ evs[1].et < start + MaxGreen - FinalGreenBuffer
         /\ GroupOf[evs[1].link] \in groups
         /\ groups \cap Last(base).groups = {}
         => \E k \in DOMAIN candidates :
              Last(candidates[k]).groups = groups /\ Clears(candidates[k])

=============================================================================
