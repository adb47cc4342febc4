-------------------------------- MODULE Spat --------------------------------
(***************************************************************************)
(* The movement events of a SPaT message and the two translations between  *)
(* them and a desired phase plan: spat::update_spat_with_candidate_dpp,    *)
(* which writes a plan into the SPaT, and the plan generator's             *)
(* convert_spat_to_dpp, which reads it back.                               *)
(*                                                                         *)
(* A SPaT maps each signal group to its movement events, the current one   *)
(* first. An exception is the value Throws.                                *)
(***************************************************************************)
EXTENDS TimeMark, Sequences, SequencesExt

CONSTANTS
  Order,       \* the signal groups in the order of the SPaT's movement states
  MoveGroups,  \* movement_groups: pairs of signal groups, 0 for none
  Yellow,      \* yellow_change_duration of each signal group
  RedClear,    \* red_clearance of each signal group
  Throws       \* what a function that throws returns: none of its values

SignalGroups == {Order[i] : i \in DOMAIN Order}

ASSUME GroupsAssumption ==
  /\ Order \in Seq(Nat \ {0})
  /\ \A i, j \in DOMAIN Order : Order[i] = Order[j] => i = j
  /\ MoveGroups \in Seq(SignalGroups \X (SignalGroups \cup {0}))
ASSUME ClearanceAssumption ==
  Yellow \in [SignalGroups -> Nat] /\ RedClear \in [SignalGroups -> Nat]

\* movement_phase_state; "dark" stands for all the states but three.
PhaseStates == {"green", "yellow", "red", "dark"}
MovementEvent == [state : PhaseStates, start : Mark, end : Mark]
Movements == [SignalGroups -> Seq(MovementEvent)]

\* signal_group2green_phase_timing
Green == [groups : SUBSET SignalGroups, start : Nat, end : Nat]

\* The elements of a list at the given places, in their order.
Kept(list, places) ==
  LET kept[n \in 0 .. Len(list)] ==
        IF n = 0 THEN <<>>
        ELSE IF n \in places THEN Append(kept[n - 1], list[n]) ELSE kept[n - 1]
  IN kept[Len(list)]

-----------------------------------------------------------------------------
(***************************************************************************)
(* Writing a plan into the SPaT.                                           *)
(***************************************************************************)

ClearanceOf(g) == Yellow[g] + RedClear[g]

\* find_max_desired_yellow_duration_red_clearance_pair (of equals, the code takes
\* the one listed first)
LongestClearance(groups) ==
  CHOOSE g \in groups : \A h \in groups : ClearanceOf(g) >= ClearanceOf(h)

YellowEnd(green) == green.end + Yellow[LongestClearance(green.groups)]
RedEnd(green) == green.end + ClearanceOf(LongestClearance(green.groups))

NewEvent(state, start, end, now) ==
  [state |-> state, start |-> MarkOfEpoch(start, now), end |-> MarkOfEpoch(end, now)]

YellowAndRed(green, now) ==
  << NewEvent("yellow", green.end, YellowEnd(green), now),
     NewEvent("red", YellowEnd(green), RedEnd(green), now) >>

\* append_full_green_yellow_red_phases_by_desired_green
GreenYellowRed(green, now) ==
  <<NewEvent("green", green.start, green.end, now)>> \o YellowAndRed(green, now)

\* The events with the end of the last one set.
WithEnd(events, end, now) ==
  [events EXCEPT ![Len(events)].end = MarkOfEpoch(end, now)]

MutantFirstDesiredGreen(g, current, green, now) ==
  IF g \in green.groups
    THEN CASE current.state = "green" ->
                <<current>> \o YellowAndRed(green, now)
           [] current.state = "red" ->
                WithEnd(<<current>>, green.start, now) \o GreenYellowRed(green, now)
           [] OTHER -> Throws
    ELSE CASE current.state = "red" -> WithEnd(<<current>>, RedEnd(green), now)
           [] current.state = "yellow" ->
                LET over == EpochOfMark(current.start, now) + Yellow[g] IN
                Append(WithEnd(<<current>>, over, now),
                       NewEvent("red", over, RedEnd(green), now))
           [] OTHER -> Throws

\* process_first_desired_green
FirstDesiredGreen(g, current, green, now) ==
  IF g \in green.groups
    THEN CASE current.state = "green" ->
                WithEnd(<<current>>, green.end, now) \o YellowAndRed(green, now)
           [] current.state = "red" ->
                WithEnd(<<current>>, green.start, now) \o GreenYellowRed(green, now)
           [] OTHER -> Throws
    ELSE CASE current.state = "red" -> WithEnd(<<current>>, RedEnd(green), now)
           [] current.state = "yellow" ->
                LET over == EpochOfMark(current.start, now) + Yellow[g] IN
                Append(WithEnd(<<current>>, over, now),
                       NewEvent("red", over, RedEnd(green), now))
           [] OTHER -> Throws

\* process_second_onward_desired_green
NextDesiredGreen(g, events, green, now) ==
  IF events = Throws \/ Last(events).state # "red" THEN Throws
  ELSE IF g \in green.groups
    THEN WithEnd(events, green.start, now) \o GreenYellowRed(green, now)
    ELSE WithEnd(events, RedEnd(green), now)

\* The events of signal group g under a plan: those of its first green, and what
\* n more greens add to them.
PlannedEvents(g, current, plan, now) ==
  LET events[n \in 0 .. Len(plan) - 1] ==
        IF n = 0 THEN FirstDesiredGreen(g, current, plan[1], now)
        ELSE NextDesiredGreen(g, events[n - 1], plan[n + 1], now)
  IN events[Len(plan) - 1]

\* update_spat_with_candidate_dpp, for a plan with no empty group list.
UpdateSpatWithDpp(spat, plan, now) ==
  LET updated == [g \in SignalGroups |-> PlannedEvents(g, spat[g][1], plan, now)]
  IN IF \E g \in SignalGroups : updated[g] = Throws THEN Throws ELSE updated

-----------------------------------------------------------------------------
(***************************************************************************)
(* Reading the greens of a SPaT.                                           *)
(***************************************************************************)

\* The greens of signal group g, with epoch times, for a given movement group.
GreensOf(spat, g, groups, now) ==
  LET green == Kept(spat[g], {i \in DOMAIN spat[g] : spat[g][i].state = "green"})
  IN [i \in DOMAIN green |->
        [groups |-> groups, start |-> EpochOfMark(green[i].start, now),
                            end |-> EpochOfMark(green[i].end, now)]]

\* b begins before a boundary of a and ends after it.
Straddles(b, a) ==
  \/ b.start < a.start /\ a.start < b.end
  \/ b.start < a.end /\ a.end < b.end

SamePeriod(a, b) == a.start = b.start /\ a.end = b.end

\* The greens of a pair: those that both groups have. The second group's events
\* are searched up to the first one that matches, or that begins later and may
\* be of any state.
PairGreens(spat, pair, now) ==
  LET first == GreensOf(spat, pair[1], {pair[1], pair[2]}, now)
      second == [j \in DOMAIN spat[pair[2]] |->
                   [green |-> spat[pair[2]][j].state = "green",
                    start |-> EpochOfMark(spat[pair[2]][j].start, now),
                    end |-> EpochOfMark(spat[pair[2]][j].end, now)]]
      Matches(a, j) == second[j].green /\ SamePeriod(second[j], a)
      Searched(a, j) == \A k \in 1 .. j - 1 : second[k].start <= a.start /\ ~ Matches(a, k)
  IN IF \E i \in DOMAIN first, j \in DOMAIN second :
          Searched(first[i], j) /\ second[j].green /\ Straddles(second[j], first[i])
       THEN Throws
       ELSE Kept(first, {i \in DOMAIN first : \E j \in DOMAIN second :
                           Searched(first[i], j) /\ Matches(first[i], j)})

MovementGroupGreens(spat, pair, now) ==
  IF \E g \in {pair[1], pair[2]} \ {0} : spat[g] = <<>> THEN Throws
  ELSE IF pair[2] = 0 THEN GreensOf(spat, pair[1], {pair[1]}, now)
  ELSE PairGreens(spat, pair, now)

MutantInsertGreen(plan, green) ==
  IF plan = Throws \/ \E i \in DOMAIN plan : Straddles(green, plan[i])
    THEN Throws ELSE Append(plan, green)

\* Insertion before the first green of the plan that begins after the end of
\* the given one; the greens up to there may not straddle.
InsertGreen(plan, green) ==
  LET later == {i \in DOMAIN plan : green.end < plan[i].start}
      place == IF later = {} THEN Len(plan) + 1
               ELSE CHOOSE i \in later : \A j \in later : i <= j
  IN IF plan = Throws \/ \E i \in DOMAIN plan : i <= place /\ Straddles(green, plan[i])
       THEN Throws ELSE InsertAt(plan, place, green)

\* The greens of a movement group, inserted one by one.
InsertGreens(plan, greens) ==
  LET inserted[n \in 0 .. Len(greens)] ==
        IF n = 0 THEN plan ELSE InsertGreen(inserted[n - 1], greens[n])
  IN IF plan = Throws \/ greens = Throws THEN Throws ELSE inserted[Len(greens)]

\* convert_spat_to_dpp
ConvertSpatToDpp(spat, now) ==
  LET plans[i \in 0 .. Len(MoveGroups)] ==
        IF i = 0 THEN <<>>
        ELSE InsertGreens(plans[i - 1], MovementGroupGreens(spat, MoveGroups[i], now))
  IN plans[Len(MoveGroups)]

=============================================================================
