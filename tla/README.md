# carma-streets in TLA+

carma-streets is the roadside software of the CARMA programme: a set of processes
around a Kafka broker that follow the vehicles at one intersection, schedule them,
and plan and drive the phases of its traffic signal controller (TSC). This project
models the control logic of those processes, checks it with TLC on small instances,
and proves the central safety properties with TLAPS for every instance.

## The system

| Component | State it keeps | Operations | Interaction |
|---|---|---|---|
| `tsc_client_service` | the desired phase plan (DPP), the queue of SNMP commands, the SPaT, the tables of the TSC | consume a plan, build the queue, send HOLD and OMIT at their times, receive NTCIP packets, project the plan on the SPaT, publish SPaT and configuration | Kafka in (DPP) and out (SPaT, configuration); SNMP and UDP with the TSC; threads share the plan (`dpp_mtx`) and the queue (`snmp_cmd_queue_mtx`) |
| `signal_opt_service` | SPaT, vehicle list, TSC configuration, intersection | three consumer threads; every so often choose a plan among candidates and publish it | Kafka in (SPaT, status and intent, configuration) and out (DPP) |
| `streets_signal_optimization` | none | generate candidate plans from the vehicles and the SPaT; choose by delay | called by `signal_opt_service` |
| `scheduling_service`, `streets_vehicle_scheduler` | vehicle list, SPaT, previous schedule | schedule entering, departing and crossing vehicles, publish the schedule | Kafka in (status and intent, SPaT) and out (schedule) |
| `streets_vehicle_list` | the vehicles by id, with their state | process a status and intent message, purge expired vehicles | library of the two services above |
| `message_services` | three maps of the latest BSM, MobilityPath and MobilityOperation | consume, join, publish status and intent, drop stale messages | Kafka in and out; one mutex per map |
| `sensor_data_sharing_service` | detected objects by id | consume objects, publish SDSMs, drop stale objects | Kafka in and out |
| `kafka_clients` | one librdkafka handle each | subscribe, consume, send, stop | under every service |
| `tsc_state`, `snmp_client` (of `tsc_client_service`) | maps between phases and signal groups, rings, timing; the request under way | some forty GETs at start-up, polls of the calls; GET and SET | SNMP; one client is shared by the SPaT and the control thread, without a mutex |
| `streets_service_base`, `streets_service_configuration` | the clock singleton; the configuration singleton | follow a simulation clock; reread `manifest.json` | under every service |
| `streets_signal_phase_and_timing`, `streets_desired_phase_plan`, `streets_snmp_cmd`, `streets_phase_control_schedule`, `streets_messages`, `json_utils`, ... | messages | parse, write, update | libraries |
| `intersection_model` | the lanelets of the intersection and the signal groups of its link lanelets | learn groups from MAP messages, answer REST requests | Kafka in (MAP); `scheduling_service` and `tsc_client_service` ask it at their start |

What is hard here: threads of one service share data that is only partly locked;
plans are replaced while their commands are being sent; times are unsigned
milliseconds; exceptions end threads or processes; the TSC keeps what was last
written to it when the service stops; vehicles are heard over a lossy way, and what a
schedule says is acted on some time later; most answers of the TSC may be lost, and many
callers do not look.

The properties that make each component correct:

* `tsc_client_service`: commands are sent in order, never early, never a mixture of
  two plans; what is held and omitted is released again; a plan published is tried.
* SPaT projection: the movement events are in time order, yellow and red follow green,
  a green already shown is never shortened by a plan.
* `signal_opt_service`: a plan is computed from one consistent view of SPaT and
  vehicles; the greens of a plan follow each other with their clearance times; for every
  queue that can be served a candidate clears it.
* `snmp_client`, `tsc_state`: the answer that a thread gets is that of its request; what is
  read at start-up is what the controller has, or start-up fails.
* fixed timing: what is promised comes true.
* scheduling: no two vehicles in conflicting directions at the same time; nobody overtakes
  in a lane; whoever waits gets in; green is green when the vehicle arrives.
* vehicle list: never ahead of the vehicle and never back; who is gone is forgotten.
* message services: what is joined belongs together; the path and the lanelet are right.
* sensor data sharing: every detection that is fresh is told once, right and readable.
* kafka workers: in order, nothing that was accepted vanishes while a consumer is assigned.
* clock and configuration: who sleeps wakes; a parameter is never a mixture of two files.

## Modules

| Module | Models | Checked by |
|---|---|---|
| `PhaseCommands`, `TscControl` | plan to commands, the threads that queue and send them | `MCTscControl`; `TscControl_proofs` |
| `TimeMark`, `Spat`, `SpatProjection`, `PlanExchange` | the loop of SPaT and plans | `MCPlanExchange`; `PlanExchange_proofs` |
| `SnmpClient` | `snmp_client`, used by one and by two threads | `MCController`; `TscClient_proofs` |
| `TscState`, `FixedTiming` | `monitor_tsc_state`: start-up, polls; projection of the fixed timing (extends it) | `MCController` |
| `TscService` | start-up of `tsc_service`, its SPaT and configuration thread | `MCController`, `MCProgress` |
| `PhaseControlSchedule` | MMITSS schedules to commands, and their execution | `MCController`; `TscClient_proofs` |
| `VehicleList`, `VehicleTracking` | the list and its two processors; vehicles that report themselves | `MCVehicles`; `AllStopIntersection_proofs` |
| `AllStopScheduler`, `AllStopRound` | the all-way stop scheduler; a round in any situation | `MCVehicles`; `AllStopIntersection_proofs` |
| `AllStopIntersection` | composes `VehicleTracking` and `AllStopScheduler` | itself, `MCProgress`; `AllStopIntersection_proofs` |
| `SignalizedScheduler`, `SignalizedIntersection` | the signalized scheduler; signal, SPaT, schedules and vehicles | `MCVehicles`; `SignalizedIntersection_proofs` |
| `PlanSelection` | how `signal_opt_service` chooses a plan: movement groups, queues, candidates, choice (extends `SignalizedScheduler`) | `MCController` |
| `IntersectionModel`, `SchedulingService` | signal groups from MAP messages; start and threads of the service (extends it) | `MCProgress`; `SchedulingService_proofs` |
| `VehicleStatusIntent`, `EstimatedPath`, `MessageTranslation` | `message_services`: joining, path, lanelets | `MCMessages` |
| `SensorDataSharing`, `DetectionToSdsm`, `SdsmFormat`, `SdsmCodec` | `sensor_data_sharing_service`: threads, conversion, JSON | `MCMessages`, `MCProgress`; `SensorDataSharing_proofs` |
| `StreetsConfiguration` | the configuration singleton | `MCMessages` |
| `LossyChannel`, `KafkaTopic`, `StreetsClock` | what a topic promises; both Kafka workers, which implement it; the simulation clock on top | `MCProgress`; `KafkaTopic_proofs` |

The four modules `MCController`, `MCVehicles`, `MCMessages` and `MCProgress` put small
instances of several modules side by side. A variable `part` chooses one at the start; only
its actions are taken, the variables of the others stay as they began. The states of such a
run are the sum of those of its parts and not their product, and a property is the
conjunction of what the modules state of one subject (for example `RequestsAreOnesOwn` is
`AnswersWhatWasAsked`, `SucceedsUnlessLost` and `SetWasAsked` of `SnmpClient`, with its type
invariant). Each extends one of its parts (`PhaseControlSchedule`, `SignalizedIntersection`,
`SensorDataSharing`, `SchedulingService`) and instantiates the others, so that the run checks
the very definitions of that part that the theorems state.

### TscControl: plan to signal controller

Three threads of `tsc_service` in `SPAT_PROJECTION_MODE` 1:

| Thread | Code | Variables | Actions |
|---|---|---|---|
| consumer | `consume_desired_phase_plan`, `update_tsc_control_queue` | `consumerPc`, `payload`, `dpp`, `commands`, `pushed` | `Consume`, `UpdateDesiredPhasePlan` (or `...Throws`), `SkipShortPlan`, `RejectRepeatedGroup`, `ResetQueue`, `PushCommand` (or `...Throws`) |
| SPaT | `produce_spat_json` | `dpp` | `PruneExpiredGreensFromDpp` |
| control | `control_tsc_phases`, `set_tsc_hold_and_omit_forceoff_call` | `controlPc`, `current`, `executing`, `wake` | `StartCall`, `RunClearAll`, `LoopTest`, `PeekFront`, `WakeUp`, `RecheckEmpty`, `CompareFront`, `BatchTest`, `ReadFront`, `RunSet`, `PopExecuted`, `CatchTest`, `DiscardFront` |
| environment | clock, docker, TSC | `now`, `up`, `tsc` | `Tick`, `Restart`, `TornReadCrash` |

Every access to the shared queue is a step of its own, because the control thread reads
it (`empty`, `front`) without `snmp_cmd_queue_mtx` and only pops with it. The mutexes are
not variables: which thread holds them follows from `consumerPc` (`DppMtxHeld`,
`QueueMtxHeld`). The consumer keeps `dpp_mtx` from the update of the plan to the last push.

Data abstraction: an SNMP value is the set of the phases of its bits; times are naturals,
and unsigned differences wrap at `TimeModulus` (2^64 in the code). `current` and `front()`
are compared by `get_cmd_info` in the code: type, time and value, that is all of a command.

A read of an emptied queue is undefined in C++: `front()` of a queue that the consumer
has just reset returns any element of `TornReads`, or the process ends (`TornReadCrash`).
A SET may succeed, be lost, or be executed and its answer lost. An exception that leaves
a thread's function ends the process (`Terminate`); `docker-compose.yml` restarts it, with
empty state, while the TSC keeps its registers.

Left out: the log files; the force-off command, which no plan produces; `snmp_client`'s own
session; the other use of the SPaT thread. When that thread ends by a UDP timeout the
pruning stops, which `PruneExpiredGreensFromDpp` allows since nothing forces it.

| Run | Question | Result |
|---|---|---|
| `tsc_safety` | two plans out of six kinds (empty, one green, two, two with other groups, repeated group, unknown group), late ones included, failing SETs, torn reads, exceptions, restarts | all invariants hold in about 1.3 million states |
| `tsc_ontime` | two plans consumed before their first green ends, failing SETs, fairness | no sleep beyond the plan; what is held is released |
| `tsc_pop` | does a pop remove the command that was sent? | no: a plan queued between SET and pop loses its first command |

Bounds: `MaxPlans` = 2 payloads is what the races need, one plan being sent while
another replaces it; plans have up to three greens, so that there is a first, a middle and
a last; `MaxTime` = 7 lets every plan run to its end; `TimeModulus` = 32 is more than four
times `MaxTime`, so that a difference is negative (as a signed number) exactly when it is in
the code; `SleepDur` = 1 is short against a green, as in `manifest.json`. The system never
terminates by itself, but the bounds stop it, so deadlock is not checked.

Fairness (`FairSpec`): the clock goes on, and a thread that can take a step takes one
(`WF` of `Tick`, `Consumer`, `Control`). These are operating system threads that are never
joined before the end, with no lock held over a wait. Nothing is assumed about arrival of
plans, pruning, crashes and restarts.

### SPaT projection and the planning loop

Two services form a loop: `tsc_client_service` publishes a SPaT that shows the greens to
come; `signal_opt_service` reads those greens, appends one and publishes the result as the
next plan; the SPaT thread projects that plan into the next SPaT.

| Module | Content | Code |
|---|---|---|
| `TimeMark` | the tenths of an hour of a SPaT, from and to epoch times | `time_change_details`, `intersection_state::convert_offset` |
| `Spat` | a plan written into the movement events, and the greens read back from them | `spat::update_spat_with_candidate_dpp` and its helpers, `convert_spat_to_dpp` |
| `SpatProjection` | the SPaT thread, the plan it shares with the consumer, and the signal controller | `produce_spat_json`, `receive_spat`, `monitor_desired_phase_plan` |
| `PlanExchange` | extends it with the producer of plans | `produce_dpp`, `select_optimal_dpp`, `update_desired_phase_plan_list`, the arbitrator's evaluation |
| `MCPlanExchange` | a small intersection | |

| Who | Code | Variables | Actions |
|---|---|---|---|
| SPaT thread | `produce_spat_json` | `spat`, `seen`, `dpp`, `lastGreen`, `pc` | `ReceiveSpat`, `ProjectPlan`, `ProjectCurrentGreen` (`fix_upcoming_yell_red`), `ProjectNextGreen` (`fix_upcoming_green`) |
| consumer | `consume_desired_phase_plan` | `published`, `dpp` | `UpdateDesiredPhasePlan` |
| producer | `produce_dpp` | `so`, `base`, `count`, `awaited`, `skips`, `wake` | `ReadSpat`, `Generate`, `FindNoPlan`, `PublishPlan`, `Terminate` |
| controller (external) | | `stage`, `serving`, `since`, `next` | `BeginChange`, `EndChange` |
| clock | | `now` | `Tick` |

`seen` is the last SPaT that was published and `published` holds the plans under way.
The projection and the update of the plan each hold `dpp_mtx` throughout, so each is one
step. The producer reads its SPaT three times in an iteration with no lock in between, so
each of these is a step, and a new SPaT may come between any two of them. `pc` is "failed" when an
iteration of the SPaT thread published nothing. In the first one the state of a movement
state without an event is whatever the memory held (`Indeterminate`).

The vehicles decide which candidates there are and which one wins. Here any candidate may
win, and there may be none (`FindNoPlan`): whatever the lengths of the queues, the plan is
one of those. How they are made and chosen is the subject of `PlanSelection` below.

What is assumed of the controller: it follows a plan to the letter, keeps the minimum
greens when there is no plan, and a plan reaches it before the first green of the plan ends. The
first is what `TscControl` is about; here it lets the two halves of the loop be checked on
their own. A group that is in both movement groups stays green through the change.

| Run | Question | Result |
|---|---|---|
| `spat_loop` | the loop, two plans, every choice of greens, an optimization that keeps up | every plan in effect fits the lights and its own clearances (`PlanFits`), the SPaT stays free of conflicting greens, a plan projected from reads back as that plan, its events are in order |
| `spat_slow` | an optimization that takes any time and reads an old SPaT | the events leave no gap, and a plan that is consumed keeps what is left of the one before it |
| `spat_evaluation` | does a failing evaluation cost an iteration only? | no: when the first green ends between generation and evaluation, the exception ends the service |

Bounds: one unit is about a second. The intersection has four signal groups in the movement
groups {1,2}, {1,3} and {4}, so that there are pairs that overlap, a group alone, and groups
that conflict; the yellows differ in a pair, since the longest clearance decides; the minimum
greens differ in a pair. `HourMs` = 100 is beyond `MaxTime`: the runs show what holds within
an hour (see Divergences). `MaxTime` = 11 lets both plans be
consumed and the first one be served; 8 suffices when iterations are slow. `FutureGroups` = 2 makes plans of two and three
greens. `MaxSkips` is 3 (5 in the code), `MinToYellow` 0 (200 ms). `Prompt` TRUE says that an
iteration of the producer takes no time and reads a SPaT that is up to date; FALSE assumes nothing.
All properties of these runs are safety properties, so no fairness is assumed; the clock stops
at `MaxTime`, so deadlock is not checked.

`PlansOnlyExtend` depends on the skip counter: the producer waits until the SPaT shows its
last plan, but gives up after `MaxSkips` iterations. A plan that is on its way for longer
than that is overtaken. Here none is: a plan is published within `TimeToYellow` of the end of
its first green and, by the assumption above, consumed before that end.

Left out: the ped phases and the fields of a movement state that nobody reads here; flashing
and dark operation (one state, "dark", stands for all but three); plans with an empty group
list, which the generator never produces; JSON, except that a time never set makes the output
throw (`Printable`).

### Around the control loop (`controller`)

| Part | Instance | Property |
|---|---|---|
| `alone`, `shared` | `SnmpClient` with four requests; one thread and two faults, or the SPaT thread (GET) and the control thread (SET) with one | `RequestsAreOnesOwn`: a thread alone gets the answer to its own request and is refused only after a loss; two threads still set only what a SET asks for |
| `lost`, `polled` | `TscState`, five configurations (two channels of a phase, a phase without channel or ring, an empty ring, ...), every set of up to two lost GETs; or two polls of any calls | `StateIsTheControllers`: the maps are inverse, channels are right, ring cycles agree, a poll mixes no old and new calls |
| `fixed` | `FixedTiming` after `TscState`; rings of one and of three phases, two lost packets, a flash | `ProjectionComesTrue`: what is promised happens, late by the lost packets at most |
| `service` | `TscService` in each projection mode, with odd packets and a silence | `PollEveryTenth`: ten SPaTs between two polls |
| `one`, `two`, `registers` | `PhaseControlSchedule`, one schedule of up to three commands, or two that replace each other, one of them possibly invalid or clear; one SET or one round of clears may be lost; two schedules of a hold and a force-off | `ScheduleIsObeyed`: in order, exactly as scheduled, clear stays clear |
| `plan`, `shipped` | `PlanSelection`: up to three vehicles in three lanes, three plans in effect, three lists of ignored groups; the same with the buffer and the headway of `manifest.json`, both 0 | `QueuesGetTheirGreen`: a candidate clears every queue that can be served, but for a last vehicle on the edge (see the vehicles below) |

`SnmpClient` takes each access to the members `pdu`, `OID` and `OID_len` as a step. Undefined
outcomes are choices: an OID that is torn by the other thread is any status OID, a `pdu` that
was freed ends the process. A lost GET is independent of what it does to `OID_len`:
`TscState` takes any set of losses, `SnmpClient` shows when a loss refuses later requests.

`FixedTiming` starts with an unset event state and at any offset of the rings, so that the
first green seen is one already running. Rings take equally long, as NTCIP has it, and the
clock stays within an hour: hours are the subject of `TimeMark`. A pedestrian group only gets
its current state. Since each group's start is taken from the first packet that shows it, a
start in the middle of a green may promise greens that overlap until each change was seen;
the properties are about groups whose change was seen.

In `TscService` the work of the parts is an outcome: a packet is "plain", "odd" (its
projection throws) or "stray" (its calls have no signal group, polling throws). A part that
does not initialize leaves the stage "failed": `main` returns to `exec()`, which idles.
A process that ends by an exception is at stage "exit".

`PhaseControlSchedule` takes the control thread through the steps of `TscControl`: each test
of the queue, each read of its front, each SET and each pop is a step, between any two of
which a message may replace the queue. A SET may be lost, or be executed and its answer lost,
and either ends the thread; of the six clears any may be lost, which nobody notices. The
thread that looks at the queue at the moment of the swap may do anything ("undefined").
`old` is a history variable: the registers that the schedule held has not had a chance to set.
They are those that had phases when the schedule came, until they are cleared or set; those
whose clear was lost; and those that a command of an earlier queue was sent to, or whose own
command was popped in the place of one. `ScheduleIsObeyed` is about the others. In the part
`registers` the thread takes a new queue with the same front for the old one and goes on without
a clear: the register that only the earlier schedule has set stays old (see Divergences), the one
it goes on with has what the new schedule asks for. The consumer of schedules is commented out in `tsc_service`:
`update_tsc_control_queue` is called as its tests call it. Schedules are
`Apart` and `EndsAlone` (see Divergences for what happens otherwise). The converter goes
through the maps of starts and of ends, and before each start through the ends since the one
before; with commands that start before they end that is the order of time, and `AtTime` is one
instant of it.

Bounds: `MaxRequests` 4 lets a refused request follow a lost one in both threads; `MaxFaults`
2 and 1; `MaxPolls` 2 is a poll after a poll; `MaxMissed` 2, `MaxFlashes` 1, `MaxTime` 6.5 s is
a cycle of the rings and a half, `Period` 0.5 s; `MaxSilences` 1; `MaxConfigs` 3;
`MaxMessages` 2 schedules, `MaxFailures` 1 (0 in
`registers`), `MaxTime` 5 instants, `SleepDur` 1.

### Vehicles and schedules (`vehicles`, `intersection`)

| Part or run | Instance | Property |
|---|---|---|
| `round` | `AllStopRound`: up to three vehicles in any state, position and order, with any earlier grants | `RoundIsRight` |
| `stop list`, `signal list` | `VehicleTracking`, two updates on their way | `TracksTheVehicle` |
| `signal` | `SignalizedIntersection`: two signal groups, three vehicles, two of them in one lane | `EntersOnGreen`, `BoxIsSafe` |
| `intersection` | `AllStopIntersection`, two vehicles that conflict, one trip | `NoConflictInBox` |
| `intersection_return` | the same with a second trip | `NoConflictInBox` is violated |

`VehicleList` is the list with both processors; lanes are the entry, link and exit lane of
a vehicle, and of the kinematics only "stopped" is left. Times are ages, up to `Timeout`.
`VehicleTracking` adds what the processors have to cope with: vehicles that drive, and
updates that are invalid, lost, doubled and overtake each other.

`AllStopScheduler` is a round as one step (the scheduling thread holds the list's copy): DVs,
then RDVs in the best permutation, then EVs one by one. The kinematic formulas are numbers of
a vehicle (earliest stop, clearance). The round considers vehicles whose age is at most
`StaleAfter`; `granted` (the list of RDVs granted access) is restricted in `AllStopRound` to
reported RDVs and DVs, as rounds leave it.

`AllStopIntersection` composes both. What a vehicle does depends on the last schedule that
got through to it. `NoConflictInBox` holds with `Timely`: a listed vehicle at the bar or
in the box is heard before it is too old to be considered. Without that, or when a vehicle
returns whose crossing nobody heard of, the code lets two vehicles in. Vehicle names are a
symmetry set: the modules never choose by name except through the order of the map, which
`AllStopRound` enumerates.

`SignalizedScheduler` schedules by the greens of a SPaT; times of events are marks
(`TimeMark`) of a large hour. `SignalizedIntersection` keeps for each of its threads how old
its data may be: `SpatAge`, `ScheduleAge`, and `Ahead`, by how much a vehicle may come before
its time. `InitialGreenBuffer` covers the sum of these and the tenth that a mark cuts off
(`BufferAssumption`); nobody enters later than he was told.

`PlanSelection` (a part of `controller`) schedules the vehicles with `SignalizedScheduler` and writes plans with
`Spat`, as the code does. The list of vehicles is read once to generate the candidates and
for each candidate again to schedule the vehicles and to measure their delays; every read drops the
vehicles that are silent for too long, at most one of them in an iteration (`TimeOut`). What
the candidates promise is stated of the moment before the first of them is evaluated
(`JustGenerated`). The SPaT does not change under the iteration here; that it may is the
subject of `PlanExchange`. Every signal group with a link has an entry lane.
A green ends at the entering time of the last of a queue, rounded up to a tenth, plus
`et_inaccuracy_buffer` and `final_green_buffer`, and a vehicle fits when its time is strictly
before the end less the second. With the shipped buffer of 0 the last one does not fit when it
comes on a full tenth (`OnTheEdge`): `QueuesAreCleared` excepts it, and nobody when the buffer
is a tenth or more, as in the part `plan`.

Bounds: `InFlight` 2 is a late update behind a newer one; `MaxTrips` 1 (2 in
`intersection_return`); `Timeout` 2; positions, states and grants in `AllStopRound` are
exhaustive for three vehicles, of which two conflict and two share a lane; the time line of
the signal has two greens of one group and one of the other within `MaxTime` 15; in the part `plan`
of `controller` a unit is half
a tenth, the greens are of 4 to 16 units, a gap is of 6, and the vehicles come before, at, in a
queue after, behind a gap after, and beyond the longest green, the last ones outside the
radius.

### Messages and configuration (`messages`)

| Part | Instance | Property |
|---|---|---|
| `join` | `VehicleStatusIntent`: three topics that overtake each other, BSMs of which the digits are alike, foreign operations, the clean-up | `JoinsWhatBelongs`: what is joined belongs together, in order and once, and only what was overtaken is lost |
| `path` | `EstimatedPath`: up to five offsets, strides 1 to 3, limits, both ways of counting | `DistancesAreOfTheTrajectory` |
| `place` | `MessageTranslation`: two roads that cross, every way through, links that overlap, trajectories that start behind the vehicle, short, long and without offsets | `TellsTheRoad` |
| `simulated`, `real` | `SensorDataSharing`: two objects, three detections | `PublishesInTime` |
| `codec` | `SdsmCodec`: messages with up to four optional members; messages of others with unknown codes | `ReadsBack` |
| `detection` | `DetectionToSdsm`: positions, every threshold of an accuracy, with and without each optional member | `TellsWhatWasDetected` |
| `file` | `StreetsConfiguration`: saves in two steps, gets at any time, whole seconds | `ConfigurationIsWhole` |

In `VehicleStatusIntent` the clean-up iterates over maps that consumers insert into without
the lock (a data race): the process may end there. Parsing is modelled by the keys it gives.
The key of a BSM is its id, msg_count and sec_mark, digits one after the other with nothing
between them: ids are of eight digits, but (1, 23) and (12, 3) have one key. `Numbers` has such
BSMs, and `JoinsWhatBelongs` says that it is the BSM that the operation names, or one whose
digits are alike (see Divergences). `JoinsWhatItCan` says which operations are lost: those of
which the BSM or the path is not there yet, or was used by another one. When the geometry
throws within `compose_vehicle_status_intent`, what was filled in by then is published (`half`).
In `MessageTranslation` positions are along straight center lines with a point every half
metre; every lanelet has a predecessor (see Divergences). Links of one direction cross at a
right angle, and the distances that decide between them are computed from the two ends of the
trajectory (`FromCenterLine`), the sum of 0 standing for none yet as in the code. The lanelet is
the vehicle's own once its trajectory is longer than twice its distance to its center line
(`TellsADirection`); `TellsTheRoad` excepts the vehicle exactly on it (`OnCenterLine`), which may be
told the other link (see Divergences). `SensorDataSharing` counts time in
ages, and its threads are fast: `Tick` happens only when neither has something to do. Fatal
errors of Kafka, and a simulation clock that goes back, belong to `KafkaTopic` and
`StreetsClock` and are not repeated there. `SdsmFormat` has the names, the objects and the codes of an
SDSM; not the numbers, and of the list of objects one. `DetectionToSdsm` has sensor and
reference point share an origin; the size of an object without one is `Garbage`. An offset
below -1 is cast to unsigned, which is undefined: it is the number or 0, as the conversion wraps
(x86-64) or saturates (`Truncate`). `TellsWhatWasDetected` allows both, for
a negative offset only. `SensorDataSharing` may end in the middle of a
message (`EndProcess`): the parameter `reference_proj_string` that cannot be read is an exception
that its producer does not catch.

Bounds: `MaxSteps` 2 and `MaxTime` 4 are two broadcasts and a clean-up after each; `MaxOffsets`
5 is more than the largest stride plus one; `Capacity` 2, `MaxSends` 3, `Period` 2, `Fresh` 3;
`MaxOptional` 4; `MaxSecond` 3.

### Topics and progress (`progress`)

| Part | Instance | Property | Fairness |
|---|---|---|---|
| `topic` | `KafkaTopic` with three sends, two of them under way, and two faults | `ChannelSpec`: implements `LossyChannel` (refinement) | none |
| `short` | a queue of one message, one fault | `TopicMoves` | WF of both threads and of delivery |
| `clock`, `driven` | `StreetsClock` with a misformed time step; with and without a fault | `SleepersWake` | WF of simulator, topic, consumer thread, each sleeper |
| `service` | `SchedulingService` beside an `IntersectionModel` that crashes, one crash each | `InfoIsRight`; `StartEnds` | none; WF of its steps and of answers, SF of a MAP message of this intersection |
| `sharing` | `SensorDataSharing` | `EverythingIsTaken` | WF of both threads and the clock |
| `tsc` | `TscService`, in simulation and not | `SpatGoesOn` | WF of controller, receipt, projection, time-out |
| `stop` | `AllStopIntersection`, one vehicle | `EveryoneCrosses` | WF of clock, arrival, scheduling and driving; SF of valid updates that get through and of their receipt |

`KafkaTopic` is one partition of a broker with both worker classes. The broker and librdkafka
are external: messages before the first assignment and on errors are lost, messages after
an older committed offset repeated. The producer leaves the number of requests in flight and
`enable.idempotence` at librdkafka's values (many, off): a request that fails is made again, when
later ones may have been served (`MayBeNext`), and one of which only the acknowledgement is lost
doubles its message (`FailRequest`). `LossyChannel` promises what is left: messages in the order of
`send` and once each, from one place of the consumer on, except those of which a request failed
(`retried`). A delivery report needs a poll, so that `send` on a full
queue must poll. `rebalance_cb` is a step of `consume`.

`IntersectionModel` writes the groups link by link, so that a request sees them half written;
MAP messages may be of another intersection or have lanes without a number, too short or too
far away. `SchedulingService` asks, with time-outs and errors, starts its three threads, and
dies with an exception; it is started again by docker. `InfoIsRight`: of each link it knows
its signal group or none, never another's.

Why the fairness is justified: threads are those of an operating system and hold no lock over
a wait; librdkafka delivers or reports within its message time-out; docker restarts what
ends. Strong fairness says that a way that loses some updates does not lose all of one vehicle
for ever, and that the MAP message of this intersection comes again and again (it is
broadcast periodically). Nothing is assumed of faults and crashes except that they are bounded.

`EveryoneCrosses` is about one vehicle at the bar, heard again and again: the model says
nothing of several that wait for each other, where the flexibility limit may stop a round for
good (Divergences). The fairness of the scheduling round is stated for the toggle `pass`,
which turns with every pass whether it changes the schedule or not; the strong fairness
of `ConsumeMap` is written out. No liveness relates messages on different topics: Kafka
orders only within one.

Bounds: `QueueLimit` 1 and 2, `MaxSends` 2 to 4, `MaxFaults` 0 to 2; time
steps of 10, sleeps of 15; `MaxCrashes` 1, `MaxDeaths` 1, `Attempts` 2; `MaxSilences` 0, since after a silence the SPaT
thread is gone (Divergences).

## Runs

| Run | Shows |
|---|---|
| `tsc_safety`, `tsc_ontime` | commands of a plan are sent in order, never early, and released again |
| `spat_loop`, `spat_slow` | SPaT and plans keep each other's promises |
| `controller` | requests, start-up, fixed timing, polls, schedules, and the choice of a plan |
| `vehicles` | the list, rounds of the all-way stop, the signalized intersection |
| `intersection` | the all-way stop as a whole keeps the box to one vehicle |
| `messages` | status and intent, SDSM, configuration |
| `progress` | topics implement their abstract channel; the scheduling service knows the right groups; what must happen happens |
| `tsc_pop`, `spat_evaluation`, `intersection_return` | three comments of the code that the code violates |

In the bounded runs the clock or a counter stops in the end, so deadlock is not checked, except
in the two runs of `AllStopIntersection`, where somebody can always move.

## Proofs

Eight modules hold the theorems that TLAPS checks. Each extends the module it is about
(`TscClient_proofs` two that have nothing in common but their service) and starts from the types of its constants, under the names the modules assume them by.

| Module | Theorems | Property that a run checks |
|---|---|---|
| `TscControl_proofs` | `Invariance`, `TypeCorrect`, `PopIsSafe`, `BuiltFromWholePlan`, `CommandsNeverEarly`, `QueueIsOnePlans`, `QueueDrainsReleased`, `PlansEndReleased`, `HeldIsNotOmitted`, `SleepsWithinPlan` | all invariants of `tsc_safety` and `tsc_ontime` |
| `PlanExchange_proofs` | `LoopInvariance`, `NoGapInSpat`, `FittingPlansAreSafe` | `EventsContiguous`; `LoopIsSafe` given its `PlanFits` |
| `AllStopIntersection_proofs` | `RoundLetsInSafely`, `RoundKeepsThemApart`, `LeastDelayIsChosen`, `CrossingInvariance`, `NobodyMeetsInTheBox`, `ListIsNeverAhead`, `ListGoesOn` | the parts of `RoundIsRight`; `NoConflictInBox`; the parts of `TracksTheVehicle` |
| `SignalizedIntersection_proofs` | `SignalInvariance`, `BoxStaysSafe`, `FollowersEnterOnGreen` | `BoxIsSafe`, `EntersOnGreen` |
| `SchedulingService_proofs` | `ServiceInvariance`, `KnowsRightGroups` | `InfoIsRight` |
| `TscClient_proofs` | `OnlyTheAskedIsSet`, `AloneIsAnswered`, `ScheduleInvariance`, `SchedulesAreObeyed` | the parts of `RequestsAreOnesOwn`; `ScheduleIsObeyed` |
| `SensorDataSharing_proofs` | `SharingInvariance`, `NoneIsLost`, `OnlyFreshIsPublished`, `PublishedInTime` | `PublishesInTime`, of which the first three are the parts that need an invariant |
| `KafkaTopic_proofs` | `KafkaInvariance`, `TopicIsAChannel` | `ChannelSpec`, the refinement |

Where a module is checked as a part of `MCController`, `MCVehicles`, `MCMessages` or
`MCProgress`, the theorem is about the module by itself and for every value of its constants.

### What is assumed

| Theorem | Beyond the types of the constants | Why the code justifies it |
|---|---|---|
| `HeldIsNotOmitted` | two signal groups have two phases (`PhasesDistinctAssumption`) | `map_phase_and_signalgroup` turns the map round in which a phase has one signal group |
| `SleepsWithinPlan` | `InTime`: plans are in order and consumed before their first green ends; the clock stays below half its range | the plans of `signal_opt_service` are; 2^63 ms |
| `OnlyTheAskedIsSet` | one thread makes SETs; any number make GETs | after the start-up only the commands of the control thread are SETs |
| `AloneIsAnswered` | one thread | the start-up, before the threads exist |
| `ScheduleInvariance`, `SchedulesAreObeyed` | `ObeyableAssumption`: a schedule that is not refused is `Apart` and `EndsAlone` | for other schedules it is false: the code leaves phases held or omitted (see Divergences) |
| `NoneIsLost` and the others of its module | the objects are a finite set; `None` is no object | ids of detections |
| `NobodyMeetsInTheBox` | `CrossingAssumption`: a vehicle comes once; a listed vehicle at the bar or in the box is heard in time (`Timely`); it is not purged sooner than it becomes stale; conflicts are symmetric | `intersection_return` shows what happens on a second visit; 5 s against 60 s in `manifest.json`; `get_conflict_lanelets_info` intersects center lines |
| `RoundKeepsThemApart`, `LeastDelayIsChosen` | the times of a vehicle are numbers, which do not wrap | milliseconds since the epoch in 64 bits; a departing vehicle stopped before it entered, so no delay is below 0 |
| | for `LeastDelayIsChosen`: somebody waits, some order is within the limit | without the first there is nothing to choose; without the second the round ends (see Divergences) |
| `ListIsNeverAhead`, `ListGoesOn` | `TrackingAssumption`: a vehicle comes once | what is known of an earlier visit is as old as the purge allows, and so may be ahead of the next one |
| those of `SignalizedIntersection_proofs` | `RoutesAssumption`: a vehicle's link is one of its lane, crossing takes time | links of a lanelet are those that follow it |
| | `TimelineAssumption`: of each group one event after the other, to the end of the clock and within an hour | phases of the controller do not overlap; marks tell no hours apart (see Divergences for the hour) |
| | `BufferAssumption`: `InitialGreenBuffer` is at least the ages of the SPaT and the schedule, `Ahead`, and the tenth that a mark cuts off | `initial_green_buffer` is 2000 ms in `manifest.json`, "to avoid vehicles that are ahead of schedule entering before the phase is green"; a SPaT comes every 100 ms, a schedule at its interval: who follows a schedule for longer than the buffer is not covered |
| | `ClearanceAssumption`: from the last entry in one group's green to the first one in another's, the box is clear | yellow, red clearance and `final_green_buffer`, "additional safety on top of" both |
| `ServiceInvariance`, `KnowsRightGroups` | `RightAssumption`, `DescriptionAssumption`: a MAP message of this intersection tells of every pair of lanes, near enough to an entry and a departure lanelet, the group of each link between these | that is what a MAP message is for; of other messages and of lanes that are too far away nothing is assumed |
| `FittingPlansAreSafe` | `[]PlanFits`, which `spat_loop` checks as a part of `LoopIsSafe` | see below |

### The arguments

**Commands** (`Invariance` and what follows from it). `queue` alone is not inductive. `QueueInv`
ties it, element by element, to the commands of the plan it came from (a prefix while the
consumer holds the mutex, otherwise a suffix), so the last two commands in it are the two
that release the registers (`CommandsInv`, by `PlansEndReleased`). `FrontInv` says that once
the control thread has seen an element there is one whenever nobody holds the mutex, since a
new plan has at least four commands; this makes the pop safe. For `DrainedMeansReleased` the
point is that the race of `tsc_pop` can remove only commands far from the end: when at most
two commands are left, the command about to be sent is the front one (`ExecutingInv`), and so
`ReleaseInv` follows the two registers over the last two pops. `ClockInv` carries the time of
the sleep to the SET; it uses that the unsigned difference added to the clock is never before
the command's time.

`HeldPhasesNotOmitted` has an invariant of its own: HOLD and OMIT alternate in a queue
(`AlternatesInv`), and until a command is lost a HOLD that is next or under way finds its OMIT
in the register (`HoldInv`). For `NeverSleepsBeyondPlan`, plans stay in order and in time
(`InTimeInv`), the last command of a plan is its latest (`LastIsLatestInv`), and a thread that
sleeps does so until the time of the command that it has read (`SleepInv`).

**SPaT and plans.** `LoopInv` has the types, and four more parts. `PlansInv`: plans under way
are of movement groups, because a plan is only ever read back from a SPaT movement group by
movement group, and one more appended. `LightsInv`: the SPaT that a projection starts from
shows an event of each group, and those that are not red are of one movement group.
`ProducerInv`: how far the producer is. `EventsContiguous`: one event ends where the next
begins. The projection is a recursion over the greens of the plan; the operator `Follow`
says what its n-th step has made of a signal group's events: the current one first, and each
later one red, or a green of one of the first n greens of the plan with its exact times, or
its yellow. From that `FittingIsSafe` follows by cases of which greens two conflicting events
come from. So `FittingPlansAreSafe` reduces a statement about published messages to one
about plans, `PlanFits`: the greens are of movement groups, each after the clearance of those
before it, and after the yellow that is shown. The two projections without a plan
(`ProjectCurrentGreen`, `ProjectNextGreen`) fit without an assumption. `PlanFits` itself holds when the
optimization keeps up (`spat_loop`); it is not an invariant of `spat_slow`, where a plan may
be made from a SPaT that is no longer shown.

**All-way stop.** `RoundLetsInSafely` is about one round for any sequence of vehicles: the
recursions of the scheduler over departing, ready and entering vehicles are solved by equations,
and an induction shows that access has only who departs or is let in, that those do not
conflict, and that a grant is taken back only from who confirmed it. `CrossingInv` lifts it to
vehicles that drive: what the list and the messages say of a vehicle is behind what it does
(`SightInv`); of whoever is told to enter, by the list, the schedule, a grant or a message, the
scheduler knows that it departs, until it passed (`AccessInv`: `Claims`); vehicles with claims do not
conflict (`ClaimsInv`). `Calm` collects what every step other than a round keeps.

What a round plans (`RoundKeepsThemApart`) is a second induction over the same recursions,
by `Planned`: a plan that begins with the departing vehicles, where access is given in turn and
everybody behind them enters after all before it that it meets. `PlanGrows` says what
an entry must be like that is put behind such a plan, and an entry for a waiting and for an entering
vehicle is (`RdvIsPlanned`, `NextEvIsPlanned`). For `LeastDelayIsChosen`, `BestIsLeast` solves the
search over the options; that the options are all the orders within the limit, as `next_permutation`
visits them, is induction over data and left to TLC.

**Vehicle list.** In `TrackInv`, `NewsInv` says that an update was true of its vehicle, which only
went on since, and `BehindInv` the same of the lane in the list; neither is enough for `GoesOn`,
since an update may overtake another one. `OrderInv` relates the updates to each other and to the
list by their age: the younger one is from no earlier lane. As the processors refuse
what is not younger than the list (`read_metadata`), what they accept is from no earlier lane, and
from that and the state so far follows the next state, at both kinds of intersection.

**Signalized intersection.** The argument goes through two recursions, over the lanes of a
round and over the vehicles of a lane, which fold the estimated entering times on each other
(`LaneRecursion`, `RoundRecursion`). For one vehicle, `EstimateIsRight` follows the events of
the SPaT: `MarkReadBack` says that a mark read in the same hour is the time up to a tenth,
`AnnouncedEvents` that what a SPaT announces are the events of the time line from the current
one on, so that the time given to a vehicle lies in a green of its group, the buffers inside
(`RightTime`); beyond the last event announced it is so late that nobody acts on it while the
schedule lasts (`BeyondTheSchedule`). `SoundRound` carries this over the vehicles of a lane, with the
headway. In `SignalInv`, `SpatInv` says which moment the SPaT is of, `ScheduleInv` and `HeldInv` that
what is scheduled and what a vehicle was told is a `RightTime`, `BoxInv` that who is in the
box entered `WellWithin` a green and how far it is. Without `HeldInv` nothing could be said
of who enters; without `entered` in `BoxInv` nothing of two of different groups: they entered
in two greens, which are so far apart that one had left.

**Signal groups.** `ServiceInv`: what is written of the groups is right or nothing, what is
still to be written is right, and so what is answered in between is right. `LinksGetTheirGroups`
says it of a message: a lane goes to the lanelet that is nearest, if it is within reach, and
the links between two such lanelets get the group of the lanes' connection.

**SNMP.** The threads interleave at each access to `pdu` and `OID`. `SetterInv` says that
whatever another thread writes between two steps of the setter is a status OID, which the
controller does not accept in a SET, so a register changes to what was asked or not at all.
`AloneInv` follows a single request through its steps, also after a failure has left its own
length for the OID.

**Schedules.** The converter is followed from instant to instant: before each of them its values
are the phases active by then (`Before`), after it those that are active from then on
(`ValueAtTime`: an end that toggles a bit finds it set, because commands are `Apart`), and what
it has pushed `Tells` the schedule: in order, each value what is active at its time, and a command
wherever a type starts or ends, for which `EndsAlone` is needed. `ScheduleInv` then says of the
thread that the queue is the schedule's without the first `k` commands, of which none was executed
earlier than its time, and that each register that is not old has the value of the last of these of its type
(`Done`); when nothing is due, that is what is active (`DoneIsActive`). The first `k` were popped,
which is not the same as executed: `fresh` says that the command under way was read from the
queue held now, and only then is it the front that is popped (`ExecutesFront`). A command of a
queue that is gone makes its register old, and so does the one popped in its place (`Unset`), until
the next command of the schedule for that register. A queue that came during the sleep is whole
(`SleepsBeforeFront`), and if it has the front of the one before, the thread begins with it there.

**Detections.** `NoneLost` is an account: what was taken from the topic is told, waits, is in
the message under way, or was counted as dropped or left out. `AgesInv` bounds the age of what waits
by the consumer's limit and the time since the last message; so a message tells nothing that is as
old as the limit and one period together.

**Topic.** `PlaceInv`: only a consumer that runs has the partition, and a place in it;
`OrderInv`: the queue holds messages in the order of their calls of `send`; one of which no request
failed is later than all that are in the log, or came there later than all before it. That is what
a receipt of the channel needs (`Receive`), and each step of the topic is a step of the channel or a
stutter. Nothing is assumed of the number of requests in flight.

Recursive definitions are proved about without induction theorems that take an operator: the
lemma `Climb` is induction up to a number for a set in place of a predicate, derived from the
well-founded order of the naturals, and one lemma for each recursion states the equations it
solves.

### Only model-checked

* Liveness: `HeldPhasesAreReleased` and what `progress` checks besides `ChannelSpec`. It is
  out of the prover's reach.
* `PlanFits` for a prompt producer, `PlanReadBack`, `PlannedEventsInOrder` and `PlansOnlyExtend`: all
  rest on a plan surviving projection and reading back, with its marks; planned below.
* Of `RoundIsRight`, the order of the times of one vehicle, and that no order within the limit
  is forgotten.
* The other properties of `controller` and `messages`.

No module declares a RECURSIVE operator: folds and recursive functions serve instead, so every
one of them can be proved about.

## Divergences

Where the code does something else than a comment, a document or a test says, met while
modelling. Three of them are runs that TLC finds violated; the properties of the other runs
leave them out by the conditions named.

| Code | What it does | What is said |
|---|---|---|
| `tsc_service.cpp:398` (run `tsc_pop`) | a plan queued between SET and pop loses its first command | :396 "pop the existing front command" |
| `streets_desired_phase_plan_arbitrator.cpp:35` (run `spat_evaluation`) | a SPaT that changes between generation and evaluation ends the process | the failure is logged and survived, `signal_opt_processing_worker.cpp:92` |
| `all_stop_vehicle_scheduler.cpp:30` (run `intersection_return`) | a grant outlives the visit of a vehicle whose crossing was not heard | `all_stop_vehicle_scheduler.h:59` |
| `control_tsc_state.cpp:32` | compares the first two events in every iteration | :28 "no repeated signal groups in adjacent events" |
| `control_tsc_state.cpp:55` | an unsigned difference puts the OMIT of an expired green half the clock's range ahead | `tsc_service.cpp:351` "Check if event is expired" |
| `tsc_service.cpp:328` | the control thread ends after one expired command or failed SET | `README.md:21` of the service: commands at every transition |
| `control_tsc_state.cpp:20` | a plan of one event changes the SPaT and not the queue | `README.md:21` |
| `monitor_desired_phase_plan.cpp:226` | the current green lasts the minimum green of the first group of a pair | `monitor_desired_phase_plan.h:82` |
| `streets_desired_phase_plan_arbitrator.cpp:51` | a vehicle that is dropped after it was scheduled ends the process | a failure is logged and survived, `signal_opt_processing_worker.cpp:92` |
| `streets_desired_phase_plan_generator.cpp:368` | without `et_inaccuracy_buffer` (0 in `manifest.json`) the last of a queue that comes on a full tenth does not fit in | `streets_desired_phase_plan_generator.h:103` |
| `streets_desired_phase_plan_generator.cpp:401` | takes the last gap, and tests the one behind it for no delay | `streets_desired_phase_plan_generator.h:119` |
| `streets_desired_phase_plan_generator.cpp:456` | a signal group with a link and without entry lane ends the process | |
| `signal_opt_service.cpp:441` | an ignored group leaves movement groups twice or as a part of another | `movement_group.h:23` |
| `time_change_details.cpp:130` | times beyond the hour are cut to it | `time_change_details.h:18` "in current or next hour" |
| `kafka_consumer_worker.cpp:162` | an error other than a time-out stops the worker for good | `streets_service.h:81` "continously consume" |
| `kafka_consumer_worker.h:70` | `rebalance_cb` uses the error of a failed assign without testing it | |
| `streets_configuration.cpp:217` | a save in the second of the last one is not seen | `streets_configuration.h:36` |
| `all_stop_vehicle_scheduler.cpp:201`, `vehicle_sorting.cpp:6` | orders of vehicles that rank equal are left out; unassigned positions rank equal to all | `all_stop_vehicle_scheduler.h:45`, `vehicle_sorting.cpp:5` |
| `all_stop_vehicle_scheduler.cpp:204` | when no order is within the limit the round ends, and so do the next ones | `all_stop_vehicle_scheduler.h:225` |
| `all_stop_vehicle_scheduler.cpp:238` | the first scheduled vehicle precedes every lane | :231 |
| `vehicle_scheduler.cpp:56` | a vehicle with access that is silent for 5 s does not block its link | `all_stop_vehicle_scheduler.h:20` |
| `signalized_vehicle_scheduler.cpp:112` | takes the first DV of the lane | :109 "Find the last DV" |
| `signalized_vehicle_scheduler.cpp:38` | an exception in one lane drops the lanes after it | `signalized_vehicle_scheduler.h:197` |
| `intersection_client.cpp:12` | asks once, content with groups that are missing | `scheduling_service/manifest.json:110` |
| `scheduling_service.cpp:253` | a SPaT without intersection ends the process | `signalized_vehicle_scheduler.cpp:184` |
| `vehicle_status_intent_service.cpp:168` | times are matched by their full seconds | `vehicle_status_intent_service.h:59` |
| `vehicle_status_intent_service.cpp:150` | an operation without the parameters ends the process | a test accepts it, `test_mobilityoperation_worker.cpp:19` |
| `mobilityoperation.cpp:28`, `bsm.cpp:220` | two BSMs of a vehicle with other numbers can have one key; not at ten a second among those that are fresh, but 122 and 345 have the key of 12 and 2345 | |
| `vehicle_status_intent_service.cpp:398` | a `LaneletError` in between publishes what was filled in by then | `:400` "Compose vehicle status intent Exception" |
| `vehicle_status_intent_service.cpp:342`, `:368` | second point one offset too far; one point more than the limit | `message_services/manifest.json:63`, `:69` |
| `message_lanelet2_translation.cpp:232`, `:296` | the distance is 0 where no point is near; `front()` of no predecessors at the border | `message_lanelet2_translation.h:112` |
| `message_lanelet2_translation.cpp:178` | a vehicle of which the trajectory starts and ends on the center line of its link is placed on the next link of its direction | `message_lanelet2_translation.h:100` |
| `message_lanelet2_translation.cpp:146` | links overlap and the trajectory has no offsets: no lanelet, logged as an error, and a status and intent without | |
| `sensor_data_sharing_service.cpp:264` | a parameter that cannot be read ends the process, with the detections taken | :251 logs what it catches and goes on |
| `detected_object_to_sdsm_converter.cpp:76` | casts offsets of either sign to unsigned | `position_offset.hpp:21` "[-32767, 32767]" |
| `sensor_data_sharing_service.cpp:183` | neither the sensor nor the time stamp of a detection is compared | `README.md:28` of the service, :179 |
| `sensor_data_sharing_msg_json_serializer.cpp:119` | writes two names that the reader does not know; `offset_z` is never read | `SensorDataSharingMessage.md:5` |
| `sensor_data_sharing_msg_json_deserializer.cpp:219`, `:236`, `:287` | requires optional members; casts one code unchecked | `SensorDataSharingMessage.md:73`, `size_value_confidence.hpp:66`, `obstacle_size.hpp:29` |
| `detected_object_to_sdsm_converter.cpp:97`, `:250` | writes through an empty optional; radians against degrees | `detected_object_data_common.hpp:83`, `detected_object_to_sdsm_converter.hpp:111` |
| `detected_obj_msg_deserializer.cpp:56` | a size that is missing is what the memory held | `size.hpp:28` |
| `snmp_client.cpp:65`, `:80` | two threads share one request; a lost answer may refuse all later requests | `snmp_client.h:65-66` |
| `monitor_tsc_state.cpp:565`, `:401` | a lost GET leaves 0 for good; a channel without source ends the process | `monitor_tsc_state.h:98`, `:163`, `:295` |
| `tsc_service.cpp:107` | pedestrian phases with the number of a vehicle phase have no movement | :103 "Add all phases" |
| `tsc_service.cpp:233`, `:251`, `:220`, `:260` | in simulation polls for every packet; a silence ends the SPaT; a stray call stops it while it lasts; the configuration is sent for ever | :218, `README.md:33`, `README.md:14`, `tsc_service.h:99` |
| `streets_snmp_cmd_converter.cpp:163`, `:265` | a type that ends where another starts is not reset; overlapping ends toggle a bit back | :163, :229 |
| `tsc_service.cpp:368` | a new schedule with the same front command is not noticed, and what another one has set stays | :367 |
| `control_tsc_state.cpp:214` | a clear that fails is not noticed | |
| `streets_snmp_cmd_converter.cpp:279` | phases above 8 do not fit into the mask | |
| `monitor_tsc_state.cpp:688` | `get_signal_group_to_ped_phase_map` does not return; nobody calls it | |

## Plan

1. `TscControl` and its proofs (done).
2. `TimeMark`, `Spat`, `SpatProjection`, `PlanExchange` (done, with proofs).
3. `SnmpClient`, `TscState`, `FixedTiming`, `TscService`, `PhaseControlSchedule` (done).
4. `VehicleList`, both schedulers and their compositions, `IntersectionModel`,
   `SchedulingService` (done).
5. `message_services`, `sensor_data_sharing_service`, configuration (done).
6. `LossyChannel`, `KafkaTopic`, `StreetsClock`: an abstract channel and its implementation
   (done).
7. `PlanSelection` (done).
8. Proofs of `TscControl`, `SnmpClient`, schedules, the planning loop, the all-way stop, the signalized
   intersection, the vehicle list, the start of the scheduling service, the detections and the
   topics (done).
9. To come: the proofs below; the start-up requests of `signal_opt_service`; a `PlanExchange`
   whose candidates are those of `PlanSelection`.

Theorems worth proving next: `PlanFits` and `PlanReadBack` for a prompt producer, which
discharge the hypothesis of `FittingPlansAreSafe`; `AnswersFromOneFile` of
`StreetsConfiguration`.

## Not modelled

* The start-up of `signal_opt_service` and the parsing of `ignore_signal_groups`, where an
  empty entry reaches `stoi`; `PlanSelection` starts with the list. In `PlanExchange` any
  candidate may win.
* JSON of messages other than the SDSM; they are values that are carried. Of the SDSM, numbers
  are left out: a rate that is written as an unsigned number is read by `IsInt64` and is
  negative again (`json_utils.cpp:32`). The SPaT's is
  modelled as far as a time that was never set makes it throw.
* The geometry of `intersection_model` and the kinematic formulas of the schedulers.
* Messages that the senders do not make: a status and intent whose metadata is no object, which
  would put a vehicle without id into the list until the next purge; a SPaT that does not parse,
  which leaves the old one partly cleared. A SPaT that parses is replaced under its own lock,
  which a reader's copy takes as well, so that the replacement is one step.
* A second thread that asks for parameters. `streets_configuration` erases and inserts them
  without a lock; all services read them in one thread, or in the one that goes on when the others
  have started, so that it is not met here.
* The generated REST client and server code, CSV and other logs, build scripts, examples, maps.

`PROJECT.json` lists each part with its reason.
