----------------------------- MODULE TscService -----------------------------
(***************************************************************************)
(* tsc_service: its start-up, one part after the other, and the threads    *)
(* that publish the SPaT and the configuration. What the parts do is left  *)
(* to their modules (TscState, SpatProjection, FixedTiming, TscControl);   *)
(* here each of them succeeds, returns false or throws. External: the      *)
(* controller, which sends UDP packets unless it falls silent, and Kafka.  *)
(***************************************************************************)
EXTENDS Integers, Sequences

CONSTANTS
  Modes,        \* of SPAT_PROJECTION_MODE: 0 none, 1 plan, 2 fixed timing
  Simulations,  \* values of simulation mode
  Kinds,        \* of packet: "plain", "odd" (cannot be projected), "stray" (a
                \* call of a phase without a signal group when it arrives)
  PollEvery,    \* 10
  LogAfter,     \* 20
  MaxSilences,  \* bound: times that the controller falls silent
  MaxConfigs,   \* bound: publications of the configuration
  None

TscServiceAssumption ==
  /\ Modes \subseteq {0, 1, 2} /\ Simulations \subseteq BOOLEAN
  /\ Kinds \subseteq {"plain", "odd", "stray"}
  /\ PollEvery \in Nat \ {0} /\ LogAfter % PollEvery = 0
  /\ MaxSilences \in Nat /\ MaxConfigs \in Nat

VARIABLES
  mode, simulation,
  stage,         \* of the start-up; then "running", "failed" or "exited"
  named,         \* the intersection has a name and an id that is not 0
  broadcasting,  \* the controller sends packets
  silences,
  packet,        \* in the socket
  spat,          \* SPaT thread: "off", "receive", "project", "ended"
  last,          \* what became of the last packet: "published", "skipped", None
  count,         \* of produce_spat_json
  since,         \* SPaTs published since the last poll; None before the first
  config,        \* configuration thread: "off", "send", "sleep", "ended"
  configs        \* publications of the configuration

vars == <<mode, simulation, stage, named, broadcasting, silences, packet, spat, last,
          count, since, config, configs>>

Init ==
  /\ mode \in Modes /\ simulation \in Simulations
  /\ stage = "base" /\ named \in BOOLEAN
  /\ broadcasting \in BOOLEAN /\ (~ simulation => broadcasting) /\ silences = 0
  /\ packet = None /\ spat = "off" /\ last = None
  /\ count = 0 /\ since = None
  /\ config = "off" /\ configs = 0

threadVars == <<packet, spat, last, count, since, config, configs>>

-----------------------------------------------------------------------------
After(s) ==
  CASE s = "base" -> "snmp"
    [] s = "snmp" -> "config producer"
    [] s = "config producer" -> "tsc state"
    [] s = "tsc state" -> "spat producer"
    [] s = "spat producer" -> IF mode = 1 THEN "plan consumer" ELSE "socket"
    [] s = "plan consumer" -> "socket"
    [] s = "socket" -> "intersection"
    [] s = "intersection" -> IF simulation THEN "enable" ELSE "running"

Steps == {"base", "snmp", "config producer", "tsc state", "spat producer", "plan consumer",
          "socket", "intersection"}

\* start() runs both threads as soon as initialize() has returned true.
MoveTo(s) ==
  /\ stage' = s
  /\ IF s = "running" THEN spat' = "receive" /\ config' = "send" ELSE UNCHANGED <<spat, config>>
  /\ UNCHANGED <<mode, simulation, named, silences, packet, last, count, since, configs>>

Initialize == stage \in Steps /\ MoveTo(After(stage)) /\ UNCHANGED broadcasting

\* A part returns false, or the configuration lacks a value: the process stays,
\* in QCoreApplication::exec().
InitializeFails == stage \in Steps /\ MoveTo("failed") /\ UNCHANGED broadcasting

\* monitor_states_exception of tsc_state, and no one but main catches it.
InitializeThrows == stage = "tsc state" /\ MoveTo("exited") /\ UNCHANGED broadcasting

\* enable_spat: whether the SET succeeds is not looked at.
EnableSpat ==
  /\ stage = "enable"
  /\ MoveTo("running")
  /\ broadcasting' \in {TRUE, broadcasting}

-----------------------------------------------------------------------------
(***************************************************************************)
(* The controller (external).                                              *)
(***************************************************************************)

Arrive ==
  /\ broadcasting /\ packet = None /\ stage = "running"
  /\ packet' \in Kinds
  /\ UNCHANGED <<mode, simulation, stage, named, broadcasting, silences, spat, last, count,
                 since, config, configs>>

FallSilent ==
  /\ broadcasting /\ silences < MaxSilences /\ stage = "running"
  /\ broadcasting' = FALSE /\ silences' = silences + 1
  /\ UNCHANGED <<mode, simulation, stage, named>> /\ UNCHANGED threadVars

Resume ==
  /\ ~ broadcasting /\ silences > 0
  /\ broadcasting' = TRUE
  /\ UNCHANGED <<mode, simulation, stage, named, silences>> /\ UNCHANGED threadVars

-----------------------------------------------------------------------------
(***************************************************************************)
(* produce_spat_json.                                                      *)
(***************************************************************************)

\* udp_socket_listener::receive throws when nothing came for socket_timeout
\* seconds, which leaves the loop.
Timeout ==
  /\ spat = "receive" /\ packet = None /\ ~ broadcasting
  /\ spat' = "ended"
  /\ UNCHANGED <<mode, simulation, stage, named, broadcasting, silences, packet, last, count,
                 since, config, configs>>

\* receive_spat: spat::update throws as long as the intersection has no name.
Receive ==
  /\ spat = "receive" /\ packet # None
  /\ IF named
     THEN spat' = "project" /\ UNCHANGED <<packet, last>>
     ELSE packet' = None /\ last' = "skipped" /\ UNCHANGED spat
  /\ UNCHANGED <<mode, simulation, stage, named, broadcasting, silences, count, since, config,
                 configs>>

PollDue == mode = 0 /\ count % PollEvery = 0

\* The projection, or the poll, throws.
Unusable(kind) == (kind = "odd" /\ mode # 0) \/ (kind = "stray" /\ PollDue)

\* log_spat_latency
LogSpatLatency(n) == IF n + 1 >= LogAfter THEN 0 ELSE n + 1

MutantThrowingProject ==
  /\ spat = "project"
  /\ packet' = None
  /\ IF Unusable(packet)
     THEN spat' = "ended" /\ last' = "skipped" /\ UNCHANGED <<count, since>>
     ELSE /\ spat' = "receive" /\ last' = "published"
          /\ since' = IF PollDue THEN 0 ELSE IF since = None THEN None ELSE since + 1
          /\ count' = IF simulation THEN count ELSE LogSpatLatency(count)
  /\ UNCHANGED <<mode, simulation, stage, named, broadcasting, silences, config, configs>>

MutantProject ==
  /\ spat = "project"
  /\ spat' = "receive" /\ packet' = None
  /\ IF Unusable(packet)
     THEN last' = "skipped" /\ since' = since
     ELSE /\ last' = "published"
          /\ since' = IF PollDue THEN 0 ELSE IF since = None THEN None ELSE since + 1
  /\ count' = LogSpatLatency(count)
  /\ UNCHANGED <<mode, simulation, stage, named, broadcasting, silences, config, configs>>

\* The exceptions of the projections and of the poll are caught inside the loop:
\* one SPaT is not published, and not counted.
Project ==
  /\ spat = "project"
  /\ spat' = "receive" /\ packet' = None
  /\ IF Unusable(packet)
     THEN last' = "skipped" /\ UNCHANGED <<count, since>>
     ELSE /\ last' = "published"
          /\ since' = IF PollDue THEN 0 ELSE IF since = None THEN None ELSE since + 1
          /\ count' = IF simulation THEN count ELSE LogSpatLatency(count)
  /\ UNCHANGED <<mode, simulation, stage, named, broadcasting, silences, config, configs>>

-----------------------------------------------------------------------------
\* produce_tsc_config_json: send, and sleep for ten seconds.
SendConfig ==
  /\ config = "send" /\ configs < MaxConfigs
  /\ config' = "sleep" /\ configs' = configs + 1
  /\ UNCHANGED <<mode, simulation, stage, named, broadcasting, silences, packet, spat, last,
                 count, since>>

ConfigSleeps ==
  /\ config = "sleep"
  /\ config' = "send"
  /\ UNCHANGED <<mode, simulation, stage, named, broadcasting, silences, packet, spat, last,
                 count, since, configs>>

\* The producer has been stopped.
ConfigEnds ==
  /\ config = "send"
  /\ config' = "ended"
  /\ UNCHANGED <<mode, simulation, stage, named, broadcasting, silences, packet, spat, last,
                 count, since, configs>>

Next ==
  \/ Initialize \/ InitializeFails \/ InitializeThrows \/ EnableSpat
  \/ Arrive \/ FallSilent \/ Resume
  \/ Timeout \/ Receive \/ Project
  \/ SendConfig \/ ConfigSleeps \/ ConfigEnds

\* The threads are scheduled, and a controller that broadcasts sends packets.
Spec ==
  Init /\ [][Next]_vars /\ WF_vars(Receive) /\ WF_vars(Project) /\ WF_vars(Arrive)
       /\ WF_vars(Timeout)

-----------------------------------------------------------------------------
TypeOK ==
  /\ mode \in Modes /\ simulation \in Simulations
  /\ stage \in Steps \cup {"enable", "running", "failed", "exited"}
  /\ packet \in Kinds \cup {None} /\ last \in {"published", "skipped", None}
  /\ spat \in {"off", "receive", "project", "ended"}
  /\ config \in {"off", "send", "sleep", "ended"}
  /\ count \in 0 .. LogAfter - 1 /\ configs \in 0 .. MaxConfigs

Published == spat = "project" /\ spat' = "receive" /\ last' = "published"

\* tsc_service.cpp:218, "Poll and log vehicle and pedestrian call information
\* every 10 spat messages": when a poll succeeds, ten SPaTs have been published
\* since the one before, whatever was skipped in between.
PollIsDue == Published /\ since' = 0 /\ since # None => since = PollEvery - 1

\* As long as packets come that can be projected, SPaTs are published: what
\* cannot be published in between does not stop the thread.
SpatGoesOn == (named /\ []<>(packet = "plain")) => []<><<Published>>_vars

=============================================================================
