------------------------------ MODULE MCProgress ------------------------------
(***************************************************************************)
(* What must happen in the end, and the topics that the services talk      *)
(* over, side by side: in each behaviour one part moves and the others     *)
(* stay as they began. The part that is extended here is the start of the  *)
(* scheduling service: Init, Next, vars and its properties are its own.    *)
(***************************************************************************)
EXTENDS SchedulingService, TLC

CONSTANTS
  t1, t2, o1, o2, v1  \* threads, detected objects, a vehicle

VARIABLES
  part,
  producing, sender, calls, outq, retried, reports, log, consumer, assigned, position, committed,
  payload, received, faults,
  clock, started, resting, until,
  simulated, topic, sent, ahead, waiting, since, pc, objects, count, drops, outcome,
  mode, simulation, startup, named, broadcasting, silences, packet, spatThread, last, spats,
  polled, config, configs,
  vehicles, pos, access, dp, trips, updates, granted, schedule, pass

topicVars == <<producing, sender, calls, outq, retried, reports, log, consumer, assigned, position,
               committed, payload, received, faults>>
clockVars == <<clock, started, resting, until>>
sharingVars == <<simulated, topic, sent, ahead, waiting, since, pc, objects, count, drops, outcome>>
tscVars == <<mode, simulation, startup, named, broadcasting, silences, packet, spatThread, last,
             spats, polled, config, configs>>
crossingVars == <<vehicles, pos, access, dp, trips, updates, granted, schedule>>
stopVars == <<crossingVars, pass>>
allVars == <<part, topicVars, clockVars, vars, sharingVars, tscVars, stopVars>>

-----------------------------------------------------------------------------
\* A topic of which two requests or more may be under way, and one with a short queue.
Topic == INSTANCE KafkaTopic WITH
  QueueLimit <- 2, MaxSends <- 3, MaxFaults <- 2

Short == INSTANCE KafkaTopic WITH
  QueueLimit <- 1, MaxSends <- 2, MaxFaults <- 1

\* The clock of a simulation of a few steps, of which one message is misformed,
\* with a fault, and without.
Clock == INSTANCE StreetsClock WITH
  QueueLimit <- 2, MaxSends <- 3, MaxFaults <- 1,
  Threads <- {t1, t2}, Period <- 15, Timestep <- <<10, 20, 30>>, Misformed <- {2},
  stage <- resting

Driven == INSTANCE StreetsClock WITH
  QueueLimit <- 1, MaxSends <- 4, MaxFaults <- 0,
  Threads <- {t1, t2}, Period <- 15, Timestep <- <<10, 20, 30, 40>>, Misformed <- {2},
  stage <- resting

Sharing == INSTANCE SensorDataSharing WITH
  Objects <- {o1, o2}, Simulations <- {TRUE}, Period <- 2, Fresh <- 3, CountMax <- 1,
  Capacity <- 1, MaxSends <- 3, simulation <- simulated

Tsc == INSTANCE TscService WITH
  Modes <- {0, 1, 2}, Simulations <- BOOLEAN, Kinds <- {"plain", "odd", "stray"},
  PollEvery <- 10, LogAfter <- 20, MaxSilences <- 0, MaxConfigs <- 1,
  stage <- startup, spat <- spatThread, count <- spats, since <- polled

\* One vehicle at an all-way stop, in contact with the scheduling service.
Stop == INSTANCE AllStopIntersection WITH
  Vehicles <- {v1}, Timeout <- 1, IntersectionType <- "stop_controlled_intersection",
  InFlight <- 1, MaxTrips <- 1, Lanes <- {v1}, Links <- {v1}, Conflicting <- v1 :> {},
  FlexibilityLimit <- 5, EnteringTimeBuffer <- 0, StaleAfter <- 1, Timely <- TRUE

-----------------------------------------------------------------------------
(***************************************************************************)
(* A street map and the MAP messages about it: two entering lanelets, each *)
(* with a link straight on and one that turns, which meet in the departure *)
(* lanelets. Messages are of lanes that fit, of lanes that are too far     *)
(* away or too short, of another intersection, or have a bad number.       *)
(***************************************************************************)

EntryLanelets == {"north", "east"}
DepartureLanelets == {"south", "west"}
LinksInOrder == <<1, 2, 3, 4>>
LinksFrom == [e \in EntryLanelets |-> IF e = "north" THEN {1, 2} ELSE {3, 4}]
LinksInto == [d \in DepartureLanelets |-> IF d = "south" THEN {1, 4} ELSE {2, 3}]
GroupsOfLinks == [link \in 1 .. 4 |-> CASE link \in {1, 2} -> 2 [] link = 3 -> 4 [] OTHER -> 3]

Near(lanelet) == [l \in EntryLanelets \cup DepartureLanelets |-> IF l = lanelet THEN 1 ELSE 8]
FarOff(lanelet) == [l \in EntryLanelets \cup DepartureLanelets |-> IF l = lanelet THEN 7 ELSE 9]

MapLane(id, nodes, distance, connections) ==
  [id |-> id, nodes |-> nodes, distance |-> distance, connections |-> connections]
To(lane, group) == [lane |-> lane, group |-> group]

MapLanes ==
  { MapLane(1, 2, Near("north"), {To(3, 2), To(4, 2)}),
    MapLane(2, 2, Near("east"), {To(4, 4), To(3, 3)}),
    MapLane(3, 2, Near("south"), {}), MapLane(4, 2, Near("west"), {}),
    \* A lane of the street next to this one, and one that is drawn as a point.
    MapLane(5, 2, FarOff("east"), {To(3, 6)}),
    MapLane(6, 1, Near("east"), {To(4, 7)}) }

MapMessages == {[kind |-> kind, lanes |-> MapLanes] : kind \in {"ours", "other", "no number"}}

-----------------------------------------------------------------------------
\* What the parts assume of their constants.
ASSUME ProgressAssumption ==
  /\ Topic!KafkaAssumption /\ Short!KafkaAssumption
  /\ Clock!KafkaAssumption /\ Clock!TimestepAssumption
  /\ Driven!KafkaAssumption /\ Driven!TimestepAssumption
  /\ IntersectionModelAssumption /\ RightAssumption /\ DescriptionAssumption
  /\ SchedulingServiceAssumption
  /\ Sharing!SensorDataSharingAssumption /\ Tsc!TscServiceAssumption
  /\ Stop!VehicleListAssumption /\ Stop!AllStopAssumption /\ Stop!AllStopIntersectionAssumption

AllInit ==
  /\ part \in {"topic", "short", "clock", "driven", "service", "sharing", "tsc", "stop"}
  /\ part = "tsc" \/ (mode = 0 /\ simulation = FALSE /\ named = TRUE /\ broadcasting = TRUE)
  /\ Clock!ClockInit /\ Init /\ Sharing!Init /\ Tsc!Init /\ Stop!Init
  /\ pass = FALSE

TopicStep ==
  /\ \/ part = "topic" /\ Topic!KafkaNext
     \/ part = "short" /\ Short!KafkaNext
  /\ UNCHANGED <<part, clockVars, vars, sharingVars, tscVars, stopVars>>

ClockStep ==
  /\ \/ part = "clock" /\ Clock!Next
     \/ part = "driven" /\ Driven!Next
  /\ UNCHANGED <<part, vars, sharingVars, tscVars, stopVars>>

StartStep ==
  /\ part = "service" /\ Next
  /\ UNCHANGED <<part, topicVars, clockVars, sharingVars, tscVars, stopVars>>

SharingStep ==
  /\ part = "sharing" /\ Sharing!Next
  /\ UNCHANGED <<part, topicVars, clockVars, vars, tscVars, stopVars>>

TscStep ==
  /\ part = "tsc" /\ Tsc!Next
  /\ UNCHANGED <<part, topicVars, clockVars, vars, sharingVars, stopVars>>

\* pass turns with each pass of the scheduling thread, also when it changes nothing.
StopStep ==
  /\ part = "stop"
  /\ \/ Stop!AroundTheSchedule /\ UNCHANGED pass
     \/ Stop!Schedule /\ pass' = ~pass
  /\ UNCHANGED <<part, topicVars, clockVars, vars, sharingVars, tscVars>>

AllNext == TopicStep \/ ClockStep \/ StartStep \/ SharingStep \/ TscStep \/ StopStep

-----------------------------------------------------------------------------
(***************************************************************************)
(* The fairness of each part, as its module states it.                     *)
(***************************************************************************)

TopicFairness ==
  /\ WF_topicVars(part = "short" /\ Short!Produce)
  /\ WF_topicVars(part = "short" /\ Short!PollAndRetry)
  /\ WF_topicVars(part = "short" /\ Short!FinishSend)
  /\ WF_topicVars(part = "short" /\ Short!EndFlush)
  /\ WF_topicVars(part = "short" /\ Short!Deliver)
  /\ WF_topicVars(part = "short" /\ (Short!InitConsumer \/ Short!Subscribe))
  /\ WF_topicVars(part = "short" /\ Short!AssignPartition)
  /\ WF_topicVars(part = "short" /\ Short!Consume)
  /\ WF_topicVars(part = "short" /\ Short!HandlePayload)
  /\ WF_topicVars(part = "short" /\ Short!Restart)

simulationVars == <<topicVars, clockVars>>

ClockFairness ==
  /\ WF_simulationVars(part = "driven" /\ Driven!Simulator)
  /\ WF_simulationVars(part = "driven" /\ Driven!Deliver /\ UNCHANGED clockVars)
  /\ WF_simulationVars(part = "driven" /\ (Driven!InitConsumer \/ Driven!Consume)
                       /\ UNCHANGED clockVars)
  /\ WF_simulationVars(part = "driven" /\ Driven!ProcessEnds)
  /\ WF_simulationVars(part = "driven" /\ Driven!ConsumeTimeSyncMessage)
  /\ \A t \in {t1, t2} : WF_simulationVars(part = "driven" /\ Driven!WakeUp(t))

StartFairness ==
  /\ WF_vars(part = "service" /\ Initialize /\ UNCHANGED modelVars)
  /\ WF_vars(part = "service" /\ Ask /\ UNCHANGED modelVars)
  /\ WF_vars(part = "service" /\ (Answer \/ NoAnswer) /\ UNCHANGED modelVars)
  /\ WF_vars(part = "service" /\ WriteGroup /\ UNCHANGED serviceVars)
  /\ WF_vars(part = "service" /\ Restart /\ UNCHANGED serviceVars)
  \* Strong fairness of ConsumeMap for a message of this intersection.
  /\ \/ <>[]~(part = "service" /\ up /\ todo = <<>>)
     \/ []<><<part = "service" /\ todo = <<>> /\ todo' # <<>>>>_vars

SharingFairness ==
  /\ WF_sharingVars(part = "sharing" /\ Sharing!Consume)
  /\ WF_sharingVars(part = "sharing" /\ Sharing!PutAhead)
  /\ WF_sharingVars(part = "sharing" /\ Sharing!Hold)
  /\ WF_sharingVars(part = "sharing" /\ Sharing!Take)
  /\ WF_sharingVars(part = "sharing" /\ Sharing!SendSdsm)
  /\ WF_sharingVars(part = "sharing" /\ Sharing!Tick)

TscFairness ==
  /\ WF_tscVars(part = "tsc" /\ Tsc!Receive)
  /\ WF_tscVars(part = "tsc" /\ Tsc!Project)
  /\ WF_tscVars(part = "tsc" /\ Tsc!Arrive)
  /\ WF_tscVars(part = "tsc" /\ Tsc!Timeout)

StopFairness ==
  /\ WF_crossingVars(part = "stop" /\ Stop!PassTime)
  /\ WF_pass(part = "stop" /\ pass' = ~pass)
  /\ WF_crossingVars(part = "stop" /\ \E m \in updates : Stop!Arrives(m))
  /\ WF_crossingVars(part = "stop" /\ Stop!Drive(v1) /\ UNCHANGED <<granted, schedule>>)
  /\ SF_crossingVars(part = "stop" /\ Stop!Receive(v1))
  /\ SF_crossingVars(part = "stop" /\ Stop!SendsValid(v1))
  /\ SF_crossingVars(part = "stop" /\ Stop!GetsThrough(v1))

AllSpec ==
  /\ AllInit /\ [][AllNext]_allVars
  /\ TopicFairness /\ ClockFairness /\ StartFairness /\ SharingFairness /\ TscFairness
  /\ StopFairness

-----------------------------------------------------------------------------
(***************************************************************************)
(* What each part promises, put together from what its module states and   *)
(* explains.                                                               *)
(***************************************************************************)

\* A topic implements a channel that loses and repeats, and reorders only the messages
\* of which a request failed.
ChannelSpec == Topic!Channel!Init /\ [][part = "topic" => Topic!ChannelStep]_allVars

\* send returns, also when the queue is full, and what is in the log is read while a
\* consumer is assigned.
TopicMoves ==
  /\ [](part = "topic" => Topic!TypeOK)
  /\ [](part = "short" => Short!TypeOK)
  /\ part = "short" => Short!SendReturns /\ Short!LogIsRead

\* The clock of a simulation goes back only on a repeated message, and wakes who
\* sleeps on it.
SleepersWake ==
  /\ [](part = "clock" => Clock!ClockTypeOK)
  /\ [][part = "clock" => Clock!BackOnRepeat]_allVars
  /\ part = "driven" => Driven!SleepersWake

\* The scheduling service starts or gives up, though answers are lost and the model
\* of the intersection crashes, and the signal groups are known in the end.
StartEnds ==
  /\ []TypeOK
  /\ part = "service" => InitializationEnds /\ GroupsKnown

\* What waits for an SDSM is taken.
EverythingIsTaken ==
  /\ [](part = "sharing" => Sharing!TypeOK)
  /\ part = "sharing" => Sharing!EverythingIsTaken

\* A packet that cannot be used does not end the SPaT.
SpatGoesOn ==
  /\ [](part = "tsc" => Tsc!TypeOK)
  /\ part = "tsc" => Tsc!SpatGoesOn

\* Whoever waits at the bar of an all-way stop crosses, and whoever is gone is
\* forgotten.
EveryoneCrosses ==
  /\ [](part = "stop" => Stop!IntersectionTypeOK)
  /\ part = "stop" => Stop!EveryoneCrosses /\ Stop!GoneIsForgotten

=============================================================================
