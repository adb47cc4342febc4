---------------------------- MODULE StreetsClock ----------------------------
(***************************************************************************)
(* The clock of a service in simulation mode. A simulator publishes time   *)
(* steps; a detached thread of streets_service consumes them and updates   *)
(* the CarmaClock singleton; the other threads of the service read it and  *)
(* sleep on it. Reading it blocks until the first update.                  *)
(***************************************************************************)
EXTENDS KafkaTopic

CONSTANTS
  Threads,   \* the threads of the service that use the clock
  Period,    \* how long they sleep
  Timestep,  \* the time of each message
  Misformed  \* the messages that fromJson refuses

TimestepAssumption ==
  /\ Timestep \in [1 .. MaxSends -> Nat] /\ Misformed \subseteq 1 .. MaxSends
  /\ Period \in Nat

VARIABLES
  clock,    \* the time of the last update
  started,  \* there was an update
  stage,    \* "read": about to read the clock; "asleep": in sleep_until
  until     \* what the sleep ends at

clockVars == <<clock, started, stage, until>>
vars == <<kafkaVars, clockVars>>

ClockTypeOK ==
  /\ TypeOK
  /\ clock \in Nat /\ started \in BOOLEAN
  /\ stage \in [Threads -> {"read", "asleep"}]
  /\ until \in [Threads -> Nat]

ClockInit ==
  /\ KafkaInit
  /\ clock = 0 /\ started = FALSE
  /\ stage = [t \in Threads |-> "read"]
  /\ until = [t \in Threads |-> 0]

\* consume_time_sync_message: the sequence number of the message is parsed and
\* not used. A misformed message is skipped.
ConsumeTimeSyncMessage ==
  /\ HandlePayload
  /\ IF payload \in Misformed
       THEN UNCHANGED <<clock, started>>
       ELSE clock' = Timestep[payload] /\ started' = TRUE
  /\ UNCHANGED <<stage, until>>

MutantSleepFor(t) ==
  /\ stage[t] = "read"
  /\ stage' = [stage EXCEPT ![t] = "asleep"]
  /\ until' = [until EXCEPT ![t] = clock + Period]
  /\ UNCHANGED <<clock, started, kafkaVars>>

\* sleep_for: wait_for_initialization, nowInMilliseconds, then sleep_until.
SleepFor(t) ==
  /\ stage[t] = "read" /\ started /\ consumer # "exited"
  /\ stage' = [stage EXCEPT ![t] = "asleep"]
  /\ until' = [until EXCEPT ![t] = clock + Period]
  /\ UNCHANGED <<clock, started, kafkaVars>>

\* CarmaClock (external) wakes a thread in the update that reaches its time, or
\* does not let it sleep.
WakeUp(t) ==
  /\ stage[t] = "asleep" /\ clock >= until[t] /\ consumer # "exited"
  /\ stage' = [stage EXCEPT ![t] = "read"]
  /\ UNCHANGED <<until, clock, started, kafkaVars>>

\* The process exits, or is restarted with an uninitialised clock.
ProcessEnds ==
  /\ Subscribe \/ AssignPartition \/ Restart
  /\ IF consumer' = "created"
       THEN /\ clock' = 0 /\ started' = FALSE
            /\ stage' = [t \in Threads |-> "read"]
            /\ until' = [t \in Threads |-> 0]
       ELSE UNCHANGED clockVars

\* The simulator does not stop.
Simulator == (Send \/ Produce \/ PollAndRetry \/ FinishSend) /\ UNCHANGED clockVars

TopicStep ==
  /\ \/ Deliver \/ FailRequest \/ TimeOutMessage
     \/ InitConsumer \/ Consume \/ ConsumeFails \/ RevokePartition \/ AutoCommit
  /\ UNCHANGED clockVars

Next ==
  \/ ConsumeTimeSyncMessage
  \/ \E t \in Threads : SleepFor(t) \/ WakeUp(t)
  \/ ProcessEnds
  \/ Simulator
  \/ TopicStep

Spec == ClockInit /\ [][Next]_vars

\* The simulator goes on sending, librdkafka goes on delivering, threads run.
Fairness ==
  /\ WF_vars(Simulator)
  /\ WF_vars(Deliver /\ UNCHANGED clockVars)
  /\ WF_vars((InitConsumer \/ Consume) /\ UNCHANGED clockVars)
  /\ WF_vars(ProcessEnds)
  /\ WF_vars(ConsumeTimeSyncMessage)
  /\ \A t \in Threads : WF_vars(WakeUp(t))

FairSpec == Spec /\ Fairness

-----------------------------------------------------------------------------
(***************************************************************************)
(* Properties.                                                             *)
(***************************************************************************)

\* While the process runs the clock goes back only for a message that the topic
\* delivers again, or late because a request of it failed: the time steps are sent,
\* queued and consumed in order.
BackOnRepeat ==
  clock' < clock /\ consumer' # "created" =>
    payload \in retried \/ \E i \in 1 .. Len(received) - 1 : received[i] = payload

\* A thread that sleeps until a time that the simulation reaches is woken.
SleepersWake ==
  \A t \in Threads :
    (stage[t] = "asleep" /\ \E k \in 1 .. MaxSends : Timestep[k] >= until[t])
      ~> stage[t] = "read"

=============================================================================
