--------------------------- MODULE SpatProjection ---------------------------
(***************************************************************************)
(* The SPaT thread of tsc_client_service (SPAT_PROJECTION_MODE 1): it      *)
(* receives the state of the signal controller, projects the future        *)
(* movement events from the desired phase plan, or from the controller's   *)
(* own timing when there is no plan, and publishes the SPaT. Who publishes *)
(* plans is left to the module that extends this one.                      *)
(***************************************************************************)
EXTENDS Spat, FiniteSets

CONSTANTS
  MinGreen,       \* min_green of each signal group
  Indeterminate,  \* what an uninitialised event_state may hold
  MaxTime         \* bound: the clock stops here

ASSUME MinGreenAssumption == MinGreen \in [SignalGroups -> Nat]
ASSUME IndeterminateAssumption == Indeterminate \subseteq PhaseStates
ASSUME MaxTimeAssumption == MaxTime \in Nat

VARIABLES
  now,        \* the clock
  stage,      \* the controller serves "green", or is in a "change"
  serving,    \* the signal groups it serves, or is leaving
  since,      \* when the stage began
  next,       \* during a change, the signal groups it serves next
  spat,       \* spat_ptr
  seen,       \* the last SPaT published, as its readers have it
  dpp,        \* desired_phase_plan_ptr
  lastGreen,  \* last_green_served, as a sequence of signal groups
  published,  \* plans published and not yet consumed
  pc          \* "receive", "project", "sent", "failed" (nothing published)

controllerVars == <<stage, serving, since, next>>
projectionVars == <<now, stage, serving, since, next, spat, seen, dpp, lastGreen,
                    published, pc>>

MoveSets == {{MoveGroups[i][1], MoveGroups[i][2]} \ {0} : i \in DOMAIN MoveGroups}

TypeOK ==
  /\ now \in Nat /\ since \in Nat
  /\ stage \in {"green", "change"}
  /\ serving \in MoveSets /\ next \in MoveSets
  /\ spat \in Movements /\ seen \in Movements
  /\ dpp \in Seq(Green) /\ published \in Seq(Seq(Green))
  /\ lastGreen \in Seq(SignalGroups)
  /\ pc \in {"receive", "project", "sent", "failed"}

Init ==
  /\ now = 0 /\ since = 0
  /\ stage \in {"green", "change"}
  /\ serving \in MoveSets
  /\ next \in MoveSets \ {serving}
  /\ spat = [g \in SignalGroups |-> <<>>] /\ seen = spat
  /\ dpp = <<>> /\ published = <<>> /\ lastGreen = <<>>
  /\ pc = "receive"

-----------------------------------------------------------------------------
(***************************************************************************)
(* The signal controller (external): it ends a green, shows yellow and     *)
(* red to the groups that it leaves, then serves the next groups. Groups   *)
(* that are in both movement groups stay green. It follows a plan to the   *)
(* letter, and a plan reaches it before its first green ends.              *)
(***************************************************************************)

Longest(times) == IF times = {} THEN 0
                  ELSE CHOOSE t \in times : \A u \in times : u <= t

ChangeTime == Longest({ClearanceOf(g) : g \in serving \ next})

Light(g) ==
  CASE g \in serving /\ (stage = "green" \/ g \in next) -> "green"
    [] g \in serving \ next /\ stage = "change" /\ now < since + Yellow[g] -> "yellow"
    [] OTHER -> "red"

\* No plan tells it what to do: the last green of the plan may rest.
Free ==
  dpp = <<>> \/ (Len(dpp) = 1 /\ dpp[1].groups = serving /\ now >= dpp[1].end)

\* The plan ends its green now.
ChangeDue ==
  /\ stage = "green" /\ ~ Free
  /\ dpp[1].groups # serving \/ now >= dpp[1].end

\* The movement groups it may serve next.
NextAllowed ==
  IF Free THEN MoveSets \ {serving}
          ELSE {IF dpp[1].groups = serving THEN dpp[2].groups ELSE dpp[1].groups}

BeginChange ==
  /\ stage = "green" /\ published = <<>>
  /\ Free \/ ChangeDue
  /\ next' \in NextAllowed
  /\ Free => now >= since + Longest({MinGreen[g] : g \in serving \ next'})
  /\ stage' = "change" /\ since' = now
  /\ UNCHANGED <<now, serving, spat, seen, dpp, lastGreen, published, pc>>

EndChange ==
  /\ stage = "change" /\ now >= since + ChangeTime
  /\ stage' = "green" /\ since' = now
  /\ serving' = next
  /\ UNCHANGED <<now, next, spat, seen, dpp, lastGreen, published, pc>>

\* The controller sends a packet in every unit of time and in every state.
Tick ==
  /\ now < MaxTime
  /\ pc \in {"sent", "failed"}
  /\ \A g \in SignalGroups : spat[g][1].state = Light(g)
  /\ stage = "change" => now < since + ChangeTime
  /\ ~ ChangeDue
  /\ published # <<>> => now < Head(published)[1].end
  /\ now' = now + 1
  /\ pc' = "receive"
  /\ UNCHANGED <<spat, seen, dpp, lastGreen, published>>
  /\ UNCHANGED controllerVars

-----------------------------------------------------------------------------
(***************************************************************************)
(* receive_spat: spat::update with the state of the controller. A movement *)
(* state without an event gets one that is not initialised.                *)
(***************************************************************************)

\* update_movement_state: a new state starts now. (The end is the packet's; it
\* is overwritten before anyone reads it.)
CurrentEvent(g, event) ==
  [state |-> Light(g),
   start |-> IF event.state # Light(g) THEN MarkOfOffset(0, now) ELSE event.start,
   end   |-> MarkOfOffset(0, now)]

\* toJson throws on a time that was never set.
Printable(events) == \A g \in SignalGroups : \A i \in DOMAIN events[g] :
  events[g][i].start < UnsetMark /\ events[g][i].end < UnsetMark

\* update_movements keeps the current event and drops the future ones. The
\* result is printed before it is used.
ReceiveSpat ==
  /\ pc # "project"
  /\ \E left \in [SignalGroups -> Indeterminate] :
       LET Current(g) ==
             IF spat[g] # <<>> THEN spat[g][1]
             ELSE [state |-> left[g], start |-> UnsetMark, end |-> UnsetMark]
       IN spat' = [g \in SignalGroups |-> <<CurrentEvent(g, Current(g))>>]
  /\ pc' = IF Printable(spat') THEN "project" ELSE "failed"
  /\ UNCHANGED <<now, seen, dpp, lastGreen, published>>
  /\ UNCHANGED controllerVars

-----------------------------------------------------------------------------
(***************************************************************************)
(* update_spat_future_movement_events, and the publication of its result.  *)
(* What a projection that throws has written is dropped by the next        *)
(* receive_spat.                                                           *)
(***************************************************************************)

InState(state) == Kept(Order, {i \in DOMAIN Order : spat[Order[i]][1].state = state})

\* The last steps of an iteration of produce_spat_json.
Publish(events) ==
  /\ IF events = Throws
       THEN pc' = "failed" /\ UNCHANGED <<spat, seen>>
       ELSE pc' = "sent" /\ spat' = events /\ seen' = events
  /\ UNCHANGED <<now, published>>
  /\ UNCHANGED controllerVars

MutantPruned(plan) == plan

\* prune_expired_greens_from_dpp
Pruned(plan) ==
  LET live == {i \in DOMAIN plan : now < plan[i].end}
  IN IF live = {} THEN <<>>
     ELSE SubSeq(plan, CHOOSE i \in live : \A j \in live : i <= j, Len(plan))

\* update_last_green_served
UpdatedLastGreen(groups) ==
  IF \/ lastGreen = <<>>
     \/ Head(groups) # Head(lastGreen)
     \/ Last(groups) # Head(lastGreen)
    THEN groups ELSE lastGreen

ProjectPlan ==
  /\ pc = "project"
  /\ Pruned(dpp) # <<>>
  /\ dpp' = Pruned(dpp)
  /\ Publish(UpdateSpatWithDpp(spat, Pruned(dpp), now))
  /\ UNCHANGED lastGreen

OneGreen(groups, start, end) ==
  <<[groups |-> groups, start |-> start, end |-> end]>>

\* fix_upcoming_yell_red: the current green ends after the minimum green of its
\* first signal group.
ProjectCurrentGreen ==
  LET groups == InState("green")
      start == EpochOfMark(spat[Head(groups)][1].start, now)
  IN /\ pc = "project"
     /\ Pruned(dpp) = <<>> /\ groups # <<>>
     /\ dpp' = <<>>
     /\ lastGreen' = UpdatedLastGreen(groups)
     /\ Publish(IF Len(groups) > 2 THEN Throws
                ELSE UpdateSpatWithDpp(spat,
                       OneGreen({groups[i] : i \in DOMAIN groups}, start,
                                start + MinGreen[Head(groups)]), now))

\* When the next green starts, as told by the signal groups in yellow ...
StartAfterYellow(groups) ==
  Longest({EpochOfMark(spat[groups[i]][1].start, now) + ClearanceOf(groups[i]) :
             i \in DOMAIN groups})

\* ... or by those in red that were green last; that of the last one counts.
RedClearanceEnds ==
  LET groups == Kept(Order, {i \in DOMAIN Order : Order[i] \in {Head(lastGreen), Last(lastGreen)}})
  IN [i \in DOMAIN groups |->
        EpochOfMark(spat[groups[i]][1].start, now) + RedClear[groups[i]]]

\* PHASE_STATUS_GROUP_PHASE_NEXT; nothing when the GET fails.
PhaseNext == {IF stage = "change" THEN next ELSE {}, {}}

NextGreen(groups, start) ==
  OneGreen(groups, start, start + Longest({MinGreen[g] : g \in groups}))

\* fix_upcoming_green
ProjectNextGreen ==
  LET yellow == InState("yellow")
      ends == RedClearanceEnds
      NoStart == yellow = <<>> /\ (lastGreen = <<>> \/ \E i \in DOMAIN ends : ends[i] < now)
      start == IF yellow # <<>> THEN StartAfterYellow(yellow) ELSE Last(ends)
  IN /\ pc = "project"
     /\ Pruned(dpp) = <<>> /\ InState("green") = <<>>
     /\ dpp' = <<>>
     /\ lastGreen' = IF yellow = <<>> THEN lastGreen ELSE UpdatedLastGreen(yellow)
     /\ \E groups \in PhaseNext :
          Publish(IF groups = {} \/ NoStart THEN Throws
                  ELSE UpdateSpatWithDpp(spat, NextGreen(groups, start), now))

Project == ProjectPlan \/ ProjectCurrentGreen \/ ProjectNextGreen

\* consume_desired_phase_plan: update_desired_phase_plan, under dpp_mtx as the
\* projection is.
UpdateDesiredPhasePlan ==
  /\ published # <<>>
  /\ dpp' = Head(published) /\ published' = Tail(published)
  /\ UNCHANGED <<now, spat, seen, lastGreen, pc>>
  /\ UNCHANGED controllerVars

ProjectionNext ==
  \/ BeginChange \/ EndChange \/ Tick
  \/ ReceiveSpat \/ Project
  \/ UpdateDesiredPhasePlan

-----------------------------------------------------------------------------
(***************************************************************************)
(* Properties.                                                             *)
(***************************************************************************)

\* In a published SPaT the events of a signal group follow each other without
\* a gap.
EventsContiguous ==
  \A g \in SignalGroups : \A i \in 1 .. Len(seen[g]) - 1 :
    seen[g][i].end = seen[g][i + 1].start

\* In a SPaT projected from a plan no event ends before it starts.
InOrder(events) ==
  \A g \in SignalGroups : \A i \in DOMAIN events[g] :
    events[g][i].start <= events[g][i].end

PlannedEventsInOrder ==
  [][pc = "project" /\ pc' = "sent" /\ dpp' # <<>> => InOrder(seen')]_projectionVars

Conflicting(g, h) == ~ \E m \in MoveSets : {g, h} \subseteq m

\* The greens of the plan in effect are of groups that may be green together, each one
\* after the clearance of those before it, and after the yellow that is shown to a
\* conflicting group now.
PlanFits ==
  LET plan == Pruned(dpp)
      Over(h) == EpochOfMark(spat[h][1].start, now) + Yellow[h]
  IN /\ \A i \in DOMAIN plan : plan[i].groups \in MoveSets /\ plan[i].start <= plan[i].end
     /\ \A i, j \in DOMAIN plan : i < j => RedEnd(plan[i]) <= plan[j].start
     /\ pc = "project" =>
          \A i \in DOMAIN plan : \A g \in plan[i].groups, h \in SignalGroups :
            Conflicting(g, h) /\ spat[h][1].state = "yellow" => Over(h) <= plan[i].start

\* A published SPaT never gives green to a signal group while a conflicting one
\* has green or yellow.
NoConflictingGreens ==
  \A g, h \in SignalGroups : Conflicting(g, h) =>
    \A i \in DOMAIN seen[g], j \in DOMAIN seen[h] :
      seen[g][i].state = "green" /\ seen[h][j].state \in {"green", "yellow"} =>
        \/ seen[g][i].end <= seen[h][j].start
        \/ seen[h][j].end <= seen[g][i].start

\* What convert_spat_to_dpp reads from a SPaT that was projected from a plan is
\* that plan; only the start of the first green is as observed.
ReadsAs(events, plan) ==
  LET read == ConvertSpatToDpp(events, now) IN
  /\ read # Throws
  /\ Len(read) = Len(plan)
  /\ \A i \in DOMAIN plan :
       /\ read[i].groups = plan[i].groups
       /\ read[i].end = plan[i].end
       /\ i > 1 => read[i].start = plan[i].start

PlanReadBack ==
  [][pc = "project" /\ pc' = "sent" /\ dpp' # <<>> => ReadsAs(seen', dpp')]_projectionVars

=============================================================================
