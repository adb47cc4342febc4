----------------------------- MODULE MCController -----------------------------
(***************************************************************************)
(* The parts of tsc_client_service around the control loop, and the choice *)
(* of the plan that it is to follow, side by side: in each behaviour one   *)
(* part moves and the others stay as they began, so that one run has the   *)
(* behaviours of all and the product of none.                              *)
(***************************************************************************)
EXTENDS PhaseControlSchedule, TLC

CONSTANTS
  spat, control,                                \* threads
  PhaseNext, VehCalls, SpatState, Hold, Omit,  \* OIDs
  None, Throws

VARIABLES
  part,
  up, snmpPc, request, answer, pdus, pdu, OID, OID_len, registers, requests, faults,
  config, lost, pc, vehicleChannels, pedChannels, vehiclePhases, pedPhases, signalGroups,
  rings, states, tscConfig, calls, asked, polls,
  now, offset, flashing, flashes, current, onset, seen, heard, missed,
  mode, simulation, stage, named, broadcasting, silences, packet, spatThread, last, count,
  since, configThread, configs,
  choosing, moveGroups, signals, waiting, read, base, candidates, measures, schedules, chosen

snmpVars == <<up, snmpPc, request, answer, pdus, pdu, OID, OID_len, registers, requests,
              faults>>
stateVars == <<config, lost, pc, vehicleChannels, pedChannels, vehiclePhases, pedPhases,
               signalGroups, rings, states, tscConfig, calls, asked, polls>>
fixedVars == <<now, offset, flashing, flashes, current, onset, seen, heard, missed>>
serviceVars == <<mode, simulation, stage, named, broadcasting, silences, packet, spatThread,
                 last, count, since, configThread, configs>>
selectionVars == <<choosing, moveGroups, signals, waiting, read, base, candidates, measures,
                   schedules, chosen>>
vars == <<part, snmpVars, stateVars, fixedVars, serviceVars, scheduleVars, selectionVars>>

-----------------------------------------------------------------------------
(***************************************************************************)
(* The SNMP client: one thread that reads and sets; the SPaT thread that   *)
(* reads and the control thread that sets.                                 *)
(***************************************************************************)

Alone == INSTANCE SnmpClient WITH
  Getters <- {control}, Setters <- {control}, Status <- {PhaseNext, VehCalls},
  Controls <- {SpatState, Hold, Omit}, Short <- {SpatState}, Values <- {1, 2},
  MaxRequests <- 4, MaxFaults <- 2, pc <- snmpPc

Shared == INSTANCE SnmpClient WITH
  Getters <- {spat}, Setters <- {control}, Status <- {PhaseNext, VehCalls},
  Controls <- {Hold, Omit}, Short <- {}, Values <- {1, 2},
  MaxRequests <- 4, MaxFaults <- 1, pc <- snmpPc

-----------------------------------------------------------------------------
(***************************************************************************)
(* Configurations of the signal controller: two rings, phases 1 to 3 and   *)
(* 9, which is in the second octet of the calls.                           *)
(***************************************************************************)

Phases == {1, 2, 3, 9}

Timed(types, sources, sequences, concurrent) ==
  [types |-> types, sources |-> sources, sequences |-> sequences, concurrent |-> concurrent,
   green |-> 1 :> 5 @@ 2 :> 7 @@ 3 :> 6 @@ 9 :> 6,
   yellow |-> 1 :> 30 @@ 2 :> 35 @@ 3 :> 30 @@ 9 :> 35,
   clear |-> 1 :> 10 @@ 2 :> 15 @@ 3 :> 10 @@ 9 :> 15]

Nobody == [p \in Phases |-> <<>>]

\* Two phases in each of two rings, and the walk across phase 3.
Plain ==
  Timed(<<2, 2, 2, 2, 3>>, <<1, 2, 3, 9, 3>>, <<<<1, 2>>, <<3, 9>>>>,
        1 :> <<3, 0>> @@ 2 :> <<9>> @@ 3 :> <<1>> @@ 9 :> <<2, 0>>)

\* Phase 1 has two channels, phase 9 has none but is in a ring; a walk of its
\* own phase, and an overlap.
Doubled ==
  Timed(<<2, 2, 4, 2, 3>>, <<1, 2, 1, 1, 9>>, <<<<1, 9, 2>>, <<9>>>>, Nobody)

\* Phase 3 has a channel and is in no ring, the second ring is empty.
Stray ==
  Timed(<<2, 2, 2, 3, 3>>, <<2, 1, 3, 2, 2>>, <<<<2, 1>>, <<>>>>, Nobody)

\* Phase 2 is concurrent with phase 9, which has no channel.
Unserved ==
  Timed(<<2, 2, 3, 5, 5>>, <<1, 2, 1, 0, 0>>, <<<<1>>, <<2>>>>,
        1 :> <<2>> @@ 2 :> <<1, 9>> @@ 3 :> <<>> @@ 9 :> <<>>)

\* A vehicle channel without a phase.
Sourceless ==
  Timed(<<2, 2, 2, 5, 5>>, <<1, 2, 0, 0, 0>>, <<<<1, 2>>>>, Nobody)

\* For the projection: a ring of three phases and one of a single phase that
\* takes as long, and a walk.
ThreeAndOne ==
  [types |-> <<2, 2, 2, 2, 3>>, sources |-> <<1, 2, 3, 9, 4>>,
   sequences |-> <<<<1, 2, 3>>, <<9>>>>,
   concurrent |-> [p \in Phases |-> IF p = 9 THEN <<1, 2, 3>> ELSE <<9>>],
   green |-> 1 :> 1 @@ 2 :> 1 @@ 3 :> 1 @@ 9 :> 4,
   yellow |-> 1 :> 5 @@ 2 :> 10 @@ 3 :> 5 @@ 9 :> 10,
   clear |-> 1 :> 5 @@ 2 :> 0 @@ 3 :> 5 @@ 9 :> 10]

Gets ==
  {<<"channels">>, <<"rings">>} \cup ({"type", "source"} \X (1 .. 5)) \cup ({"sequence"} \X {1, 2})
  \cup ({"concurrency", "green", "yellow", "clear"} \X Phases)

UpToTwo == {{a, b} : a, b \in Gets} \cup {{}}

SomeCalls == {{}, {1}, {3}, {2, 9}, {1, 2, 3, 9}}

\* Every configuration with up to two lost GETs; polls of two of them.
Lost == INSTANCE TscState WITH
  Configs <- {Plain, Doubled, Stray, Unserved, Sourceless},
  Losses <- UpToTwo, CallSets <- {{}}, MaxPolls <- 0

Polled == INSTANCE TscState WITH
  Configs <- {Plain, Stray}, Losses <- {{}}, CallSets <- SomeCalls, MaxPolls <- 2

Fixed == INSTANCE FixedTiming WITH
  Configs <- {ThreeAndOne}, Losses <- {{}}, CallSets <- {{}}, MaxPolls <- 0,
  HourMs <- 3600000, TenthMs <- 100, Period <- 500, MaxTime <- 6500, MaxMissed <- 2,
  MaxFlashes <- 1

-----------------------------------------------------------------------------
\* With its own intervals, outside simulation mode.
Service == INSTANCE TscService WITH
  Modes <- {0, 1, 2}, Simulations <- {FALSE}, Kinds <- {"plain", "odd", "stray"},
  PollEvery <- 10, LogAfter <- 20, MaxSilences <- 1, MaxConfigs <- 3,
  spat <- spatThread, config <- configThread

-----------------------------------------------------------------------------
(***************************************************************************)
(* Schedules of one or two, or three, commands of two types and two phases *)
(* within a few instants.                                                  *)
(***************************************************************************)

Cmds(types, phases, first, final) ==
  {[type |-> t, phase |-> p, start |-> s, end |-> e] :
     t \in types, p \in phases, s \in first .. final, e \in first .. final}
Valid(cmds) == {c \in cmds : c.start <= c.end}

\* Sequences in one order: the order of the commands in the array only orders
\* the phases within a time and type.
Key(c) == 1000 * c.start + 100 * c.end + 10 * c.phase + (IF c.type = "hold" THEN 0 ELSE 1)
UpTo(n, cmds) ==
  UNION {{s \in [1 .. k -> cmds] : \A i \in 1 .. (k - 1) : Key(s[i]) < Key(s[i + 1])} : k \in 0 .. n}

\* One schedule of up to three commands that keeps to both.
Separate == {s \in UpTo(3, Valid(Cmds({"hold", "forceoff"}, {2, 8}, 2, 4))) :
               Apart(s) /\ EndsAlone(s)}

\* Schedules that follow each other, with some that end before they start.
Replacing == {s \in UpTo(2, Cmds({"hold"}, {2}, 1, 4)) : Apart(s) /\ EndsAlone(s)}

Two == INSTANCE PhaseControlSchedule WITH Schedules <- Replacing, MaxMessages <- 2

\* Schedules of a hold and a force off: one may follow another with the same first command.
HoldAndForceOff ==
  UpTo(2, Valid(Cmds({"hold"}, {2}, 1, 3) \cup Cmds({"forceoff"}, {8}, 1, 3)))

Registers == INSTANCE PhaseControlSchedule WITH
  Schedules <- {s \in HoldAndForceOff : Apart(s) /\ EndsAlone(s)}, MaxMessages <- 2,
  MaxFailures <- 0

-----------------------------------------------------------------------------
(***************************************************************************)
(* The choice of a plan: signal groups 1 and 2 may be green together, 3    *)
(* only alone, 4 is one of pedestrians, that no lane leads to.             *)
(***************************************************************************)

Config(group, concurrent) == [group |-> group, concurrent |-> concurrent]

GreenOf(which, start, end) == [groups |-> which, start |-> start, end |-> end]

\* A vehicle in the lane of signal group lane, with its earliest entering time.
Arriving(id, lane, eet) ==
  [id |-> id, state |-> "EV", lane |-> lane, link |-> lane + 10, distance |-> eet,
   eet |-> eet, et |-> 0, headway |-> 3, clearance |-> 2]

\* Up to three, in the order of their lanes and times.
Arrivals ==
  LET Earlier(p, q) == 100 * p[1] + p[2] <= 100 * q[1] + q[2]
      Lists(n) == {list \in [1 .. n -> {1, 2, 3} \X {3, 14, 18, 25, 31}] :
                     \A i \in 1 .. n - 1 : Earlier(list[i], list[i + 1])}
  IN UNION {{[i \in 1 .. n |-> Arriving(i, list[i][1], list[i][2])] : list \in Lists(n)} :
              n \in 0 .. 3}

Selection == INSTANCE PlanSelection WITH
  HourMs <- 1000, TenthMs <- 2, Lanes <- {1, 2, 3},
  Connecting <- [lane \in {1, 2, 3} |-> {lane + 10}],
  GroupOf <- [link \in {11, 12, 13} |-> link - 10],
  InitialGreenBuffer <- 2, FinalGreenBuffer <- 2,
  Order <- <<1, 2, 3, 4>>, Yellow <- <<2, 4, 2, 2>>, RedClear <- <<2, 2, 2, 2>>,
  Configuration <- <<Config(1, <<2>>), Config(2, <<1>>), Config(3, <<>>), Config(4, <<>>)>>,
  Ignores <- {<<>>, <<4>>, <<2, 4>>}, FutureGroups <- 1,
  EtInaccuracyBuffer <- 2, QueueMaxTimeHeadway <- 6, MinGreen <- 4, MaxGreen <- 16,
  SoRadius <- 30, Now <- 0, VehicleLists <- Arrivals,
  BasePlans <- {<<GreenOf({1, 2}, 0, 6)>>, <<GreenOf({3}, 0, 6)>>,
                <<GreenOf({3}, 0, 6), GreenOf({1, 2}, 10, 14)>>},
  pc <- choosing, spat <- signals, vehicles <- waiting, seen <- read

\* With the buffer and the headway of manifest.json.
Shipped == INSTANCE PlanSelection WITH
  HourMs <- 1000, TenthMs <- 2, Lanes <- {1, 2, 3},
  Connecting <- [lane \in {1, 2, 3} |-> {lane + 10}],
  GroupOf <- [link \in {11, 12, 13} |-> link - 10],
  InitialGreenBuffer <- 2, FinalGreenBuffer <- 2,
  Order <- <<1, 2, 3, 4>>, Yellow <- <<2, 4, 2, 2>>, RedClear <- <<2, 2, 2, 2>>,
  Configuration <- <<Config(1, <<2>>), Config(2, <<1>>), Config(3, <<>>), Config(4, <<>>)>>,
  Ignores <- {<<4>>}, FutureGroups <- 1,
  EtInaccuracyBuffer <- 0, QueueMaxTimeHeadway <- 0, MinGreen <- 4, MaxGreen <- 16,
  SoRadius <- 30, Now <- 0, VehicleLists <- Arrivals,
  BasePlans <- {<<GreenOf({1, 2}, 0, 6)>>, <<GreenOf({3}, 0, 6)>>},
  pc <- choosing, spat <- signals, vehicles <- waiting, seen <- read

-----------------------------------------------------------------------------
\* What the parts assume of their constants.
ASSUME ControllerAssumption ==
  /\ Alone!SnmpClientAssumption /\ Shared!SnmpClientAssumption
  /\ Fixed!FixedTimingAssumption
  /\ Service!TscServiceAssumption
  /\ ObeyableAssumption /\ Two!ObeyableAssumption /\ Registers!ObeyableAssumption
  /\ Selection!SignalizedAssumption
  /\ Selection!SelectionAssumption /\ Shipped!SelectionAssumption

Init ==
  /\ part \in {"alone", "shared", "lost", "polled", "fixed", "service", "one", "two", "registers",
              "plan", "shipped"}
  /\ IF part = "shared" THEN Shared!Init ELSE Alone!Init
  /\ CASE part = "lost"   -> Lost!Init
       [] part = "polled" -> Polled!Init
       [] OTHER           -> Fixed!Init
  /\ Fixed!ThreadInit
  /\ IF part = "service" THEN TRUE ELSE mode = 0 /\ named = TRUE
  /\ Service!Init
  /\ ScheduleInit
  /\ Selection!Init

Snmp ==
  /\ \/ part = "alone" /\ Alone!Next
     \/ part = "shared" /\ Shared!Next
  /\ UNCHANGED <<part, stateVars, fixedVars, serviceVars, scheduleVars, selectionVars>>

State ==
  /\ \/ part = "lost" /\ Lost!Next
     \/ part = "polled" /\ Polled!Next
  /\ UNCHANGED <<part, snmpVars, fixedVars, serviceVars, scheduleVars, selectionVars>>

FixedTimingThread ==
  /\ part = "fixed" /\ Fixed!FixedNext
  /\ UNCHANGED <<part, snmpVars, serviceVars, scheduleVars, selectionVars>>

StartAndThreads ==
  /\ part = "service" /\ Service!Next
  /\ UNCHANGED <<part, snmpVars, stateVars, fixedVars, scheduleVars, selectionVars>>

Schedule ==
  /\ \/ part = "one" /\ ScheduleNext
     \/ part = "two" /\ Two!ScheduleNext
     \/ part = "registers" /\ Registers!ScheduleNext
  /\ UNCHANGED <<part, snmpVars, stateVars, fixedVars, serviceVars, selectionVars>>

PlanIsChosen ==
  /\ \/ part = "plan" /\ Selection!Next
     \/ part = "shipped" /\ Shipped!Next
  /\ UNCHANGED <<part, snmpVars, stateVars, fixedVars, serviceVars, scheduleVars>>

Next == Snmp \/ State \/ FixedTimingThread \/ StartAndThreads \/ Schedule \/ PlanIsChosen

Spec == Init /\ [][Next]_vars

-----------------------------------------------------------------------------
(***************************************************************************)
(* What each part promises, put together from what its module states and   *)
(* explains; ScheduleIsObeyed of parts "one", "two" and "registers" is       *)
(* that of PhaseControlSchedule itself.                                    *)
(***************************************************************************)

\* A thread that has the SNMP client to itself gets the answer to its own request
\* and is refused only when something was lost or refused before; two threads that
\* share the client still set only what a SET asks for.
RequestsAreOnesOwn ==
  /\ [](part = "alone" =>
          Alone!TypeOK /\ Alone!AnswersWhatWasAsked /\ Alone!SucceedsUnlessLost)
  /\ [](part = "shared" => Shared!TypeOK)
  /\ [][/\ part = "alone" => Alone!SetWasAsked
        /\ part = "shared" => Shared!SetWasAsked]_vars

\* Whatever GETs were lost when tsc_state was initialized: its phases and signal
\* groups lead to each other, no channel is under a wrong phase, the signal groups
\* of a ring agree on the cycle. A poll reports calls that the controller has, and
\* all of them when no answer is lost.
StateIsTheControllers ==
  /\ [](part \in {"lost", "polled"} =>
          /\ Lost!TypeOK
          /\ Lost!MapsInverse /\ Lost!CycleAgreed /\ Lost!ChannelsAreTheControllers)
  /\ [][part = "polled" => Polled!PollsTheController]_vars

\* What FIXED_TIMING_PROJECTION publishes is what the controller will do, all of it
\* late by one time, which is that of the lost packets at most.
ProjectionComesTrue ==
  part = "fixed" =>
    /\ Fixed!TypeOK /\ Fixed!FixedTypeOK
    /\ Fixed!ProjectionComesTrue /\ Fixed!LateByLostPackets

\* Ten SPaTs are published between two polls, whatever was skipped in between.
PollEveryTenth ==
  /\ [](part = "service" => Service!TypeOK)
  /\ [][part = "service" => Service!PollIsDue]_vars

\* The plans to choose from keep the clearance times and the limits of a green, let
\* somebody enter in the green they add, and among them is one for every queue; the
\* movement groups that they are made of are right.
QueuesGetTheirGreen ==
  /\ part = "plan" =>
       /\ Selection!SelectionTypeOK /\ Selection!MovementGroupsAreRight
       /\ Selection!GreensAreOfUse /\ Selection!QueuesAreCleared
  /\ part = "shipped" =>
       /\ Shipped!SelectionTypeOK /\ Shipped!MovementGroupsAreRight
       /\ Shipped!GreensAreOfUse /\ Shipped!QueuesAreCleared

=============================================================================
