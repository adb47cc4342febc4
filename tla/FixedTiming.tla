----------------------------- MODULE FixedTiming -----------------------------
(***************************************************************************)
(* The SPaT thread with FIXED_TIMING_PROJECTION, after tsc_state has been  *)
(* initialized: each packet of the controller gives every signal group its *)
(* current event, and add_future_movement_events appends three more from   *)
(* the timing that was read at start-up. The controller is external: it    *)
(* serves the phases of each ring in turn, each for its minimum green, its *)
(* yellow change and its red clearance; now and then it flashes, and some  *)
(* of its packets are lost.                                                *)
(***************************************************************************)
EXTENDS TscState, TimeMark

CONSTANTS
  Period,     \* milliseconds between two packets
  MaxTime,    \* bound: the clock stops here
  MaxMissed,  \* bound: packets lost
  MaxFlashes  \* bound: times that the controller flashes

FixedTimingAssumption ==
  /\ Period \in Nat \ {0} /\ MaxTime \in Nat /\ MaxMissed \in Nat /\ MaxFlashes \in Nat

VARIABLES
  now,
  offset,    \* how long before 0 the rings began
  flashing, flashes,
  current,   \* of each signal group: state and start of its current event
  onset,     \* whether the current event follows one that was seen (history)
  seen,      \* the last SPaT that was published: the events of each group
  heard,     \* the last packet has been handled: "sent", "failed", or lost: "missed"
  missed

fixedVars == <<now, offset, flashing, flashes, current, onset, seen, heard, missed>>

Groups == DOMAIN states

-----------------------------------------------------------------------------
(***************************************************************************)
(* The controller (external).                                              *)
(***************************************************************************)

GreenTime(p) == 1000 * config.green[p]
YellowTime(p) == 100 * config.yellow[p]
ServiceTime(p) == GreenTime(p) + YellowTime(p) + 100 * config.clear[p]

TimeOf(phases) == FoldSeq(LAMBDA p, sum : sum + ServiceTime(p), 0, phases)

RingOf(p) == CHOOSE r \in DOMAIN config.sequences : p \in ToSet(config.sequences[r])

CycleOf(p) == TimeOf(config.sequences[RingOf(p)])

\* How long ago the last green of the phase began, at the given time.
SinceGreen(p, time) ==
  LET ring == config.sequences[RingOf(p)]
      before == SubSeq(ring, 1, (CHOOSE i \in DOMAIN ring : ring[i] = p) - 1)
  IN (time + offset + CycleOf(p) - TimeOf(before)) % CycleOf(p)

Light(p, time) ==
  CASE SinceGreen(p, time) < GreenTime(p) -> "green"
    [] SinceGreen(p, time) \in GreenTime(p) .. GreenTime(p) + YellowTime(p) - 1 -> "yellow"
    [] OTHER -> "red"

\* Since when it has shown what it shows.
Began(p, time) ==
  time - SinceGreen(p, time)
    + (CASE Light(p, time) = "green"  -> 0
         [] Light(p, time) = "yellow" -> GreenTime(p)
         [] OTHER                     -> GreenTime(p) + YellowTime(p))

-----------------------------------------------------------------------------
ThreadInit ==
  /\ now = 0 /\ offset = 0 /\ flashing = FALSE /\ flashes = 0
  /\ current = <<>> /\ onset = <<>> /\ seen = <<>> /\ heard = "sent" /\ missed = 0

FixedInit == Init /\ ThreadInit

\* The movements are created without events; the SPaT thread starts.
Start ==
  /\ pc = "ready" /\ current = <<>>
  /\ current' = [g \in Groups |-> [state |-> "unset", start |-> UnsetMark]]
  /\ onset' = [g \in Groups |-> FALSE]
  /\ seen' = [g \in Groups |-> <<>>]
  /\ offset' \in {t \in 0 .. CycleOf(states[CHOOSE g \in Groups : TRUE].phase) - 1 : t % Period = 0}
  /\ UNCHANGED <<now, flashing, flashes, heard, missed>>

Shown(g) == IF flashing THEN "stop_then_proceed" ELSE Light(states[g].phase, now)

MutantUpdateMovementState(g) == [state |-> Shown(g), start |-> MarkOfOffset(0, now)]

\* update_movement_state: a new state starts now.
UpdateMovementState(g) ==
  IF current[g].state # Shown(g)
  THEN [state |-> Shown(g), start |-> MarkOfOffset(0, now)]
  ELSE current[g]

DurationOf(g, state) ==
  CASE state = "green" -> states[g].green
    [] state = "yellow" -> states[g].yellow
    [] OTHER -> states[g].red

Event(g, state, start) ==
  [state |-> state, start |-> start, end |-> MarkOfEpoch(start + DurationOf(g, state), now)]

\* get_following_event, from the end of an event, read back as epoch time.
FollowingEvent(g, e) ==
  LET next == CASE e.state = "green" -> "yellow" [] e.state = "yellow" -> "red" [] OTHER -> "green"
      start == EpochOfMark(e.end, now)
  IN [Event(g, next, start) EXCEPT !.start = MarkOfEpoch(start, now)]

\* add_future_movement_events: the current event and the three that follow.
Events(g, event) ==
  LET first == [Event(g, event.state, EpochOfMark(event.start, now)) EXCEPT !.start = event.start]
      second == FollowingEvent(g, first)
      third == FollowingEvent(g, second)
  IN <<first, second, third, FollowingEvent(g, third)>>

\* A packet is received; a state that is not supported throws, and the SPaT is
\* not published.
Receive ==
  /\ current # <<>> /\ heard = "tick"
  /\ current' = [g \in Groups |-> UpdateMovementState(g)]
  /\ onset' = [g \in Groups |->
                IF Shown(g) = current[g].state THEN onset[g]
                ELSE current[g].state \in {"green", "yellow", "red"}]
  /\ IF flashing
     THEN heard' = "failed" /\ UNCHANGED seen
     ELSE /\ heard' = "sent"
          /\ seen' = [g \in Groups |-> Events(g, current'[g])]
  /\ UNCHANGED <<now, offset, flashing, flashes, missed>>

Miss ==
  /\ heard = "tick" /\ missed < MaxMissed
  /\ missed' = missed + 1
  /\ heard' = "missed"
  /\ UNCHANGED <<now, offset, flashing, flashes, current, onset, seen>>

Tick ==
  /\ current # <<>> /\ heard # "tick" /\ now < MaxTime
  /\ now' = now + Period
  /\ heard' = "tick"
  /\ UNCHANGED <<offset, flashing, flashes, current, onset, seen, missed>>

Flash ==
  /\ current # <<>> /\ heard # "tick"
  /\ flashing \/ flashes < MaxFlashes
  /\ flashing' = ~ flashing
  /\ flashes' = IF flashing THEN flashes ELSE flashes + 1
  /\ UNCHANGED <<now, offset, current, onset, seen, heard, missed>>

FixedNext ==
  \/ Initialize /\ UNCHANGED fixedVars
  \/ (Start \/ Receive \/ Miss \/ Tick \/ Flash) /\ UNCHANGED vars

-----------------------------------------------------------------------------
FixedTypeOK ==
  /\ now \in 0 .. MaxTime /\ flashing \in BOOLEAN
  /\ \A g \in DOMAIN current : current[g].start \in Mark
  /\ \A g \in DOMAIN seen : Len(seen[g]) \in {0, 4}
  /\ heard \in {"tick", "sent", "failed", "missed"}

\* How much later than it did the current event began, for the SPaT.
Delay(g) == EpochOfMark(current[g].start, now) - Began(states[g].phase, now)

\* What is published for a signal group is what the controller will do, all of
\* it late by the same time: that which passed before the current event was
\* first seen.
ProjectionComesTrue ==
  heard = "sent" => \A g \in DOMAIN seen : \A i \in DOMAIN seen[g] :
    LET p == states[g].phase
        e == seen[g][i]
        begin == EpochOfMark(e.start, now) - Delay(g)
        end == EpochOfMark(e.end, now) - Delay(g)
    IN /\ Light(p, begin) = e.state /\ Began(p, begin) = begin
       /\ Light(p, end - 1) = e.state /\ Light(p, end) # e.state

\* An event that was seen to follow another is late by no more than the packets
\* that were lost.
LateByLostPackets ==
  heard = "sent" => \A g \in DOMAIN seen :
    /\ Delay(g) >= 0
    /\ onset[g] => Delay(g) <= missed * Period
=============================================================================
