----------------------------- MODULE KafkaTopic -----------------------------
(***************************************************************************)
(* One Kafka topic with the two wrappers around librdkafka of              *)
(* kafka_clients: a kafka_producer_worker in one service, and a            *)
(* kafka_consumer_worker in the loop that every service runs around it:    *)
(*   subscribe(); while (is_running()) { payload = consume(); ... }        *)
(* Messages are numbered in the order in which send() is called.           *)
(***************************************************************************)
EXTENDS Integers, Sequences, SequencesExt

CONSTANTS
  QueueLimit,  \* queue.buffering.max.messages of librdkafka
  MaxSends,    \* bound: calls of send
  MaxFaults    \* bound: errors of librdkafka and of the network

KafkaAssumption ==
  /\ QueueLimit \in Nat \ {0} /\ MaxSends \in Nat /\ MaxFaults \in Nat

VARIABLES
  producing,  \* _run of the producer
  sender,     \* where send() or stop() is: "idle", "produce", "full", "poll", "flush"
  calls,      \* calls of send so far; the last one is the one in progress
  outq,       \* librdkafka: messages to deliver
  retried,    \* librdkafka: messages of which a request has failed
  reports,    \* librdkafka: messages delivered or failed, awaiting a poll
  log,        \* the broker's partition
  consumer,   \* "created", "ready", "failed", "running", "ended", "exited"
  assigned,   \* the partition is assigned to the consumer
  position,   \* the index in the log that it reads next
  committed,  \* the index where its group goes on; 0: nothing committed
  payload,    \* what consume() returned, being handled; 0: empty
  received,   \* the messages that consume() has returned
  faults

producerVars == <<producing, sender, calls, outq, retried, reports>>
consumerVars == <<consumer, assigned, position, committed, payload, received>>
kafkaVars == <<producerVars, log, consumerVars, faults>>

TypeOK ==
  /\ producing \in BOOLEAN
  /\ sender \in {"idle", "produce", "full", "poll", "flush"}
  /\ calls \in 0 .. MaxSends
  /\ outq \in Seq(1 .. calls) /\ Len(outq) + reports <= QueueLimit
  /\ reports \in Nat /\ retried \subseteq 1 .. calls
  /\ log \in Seq(1 .. calls) /\ received \in Seq(1 .. calls)
  /\ consumer \in {"created", "ready", "failed", "running", "ended", "exited"}
  /\ assigned \in BOOLEAN
  /\ {position, committed} \subseteq 0 .. Len(log) + 1
  /\ payload \in 0 .. calls
  /\ faults \in 0 .. MaxFaults

KafkaInit ==
  /\ producing = TRUE /\ sender = "idle" /\ calls = 0
  /\ outq = <<>> /\ retried = {} /\ reports = 0 /\ log = <<>>
  /\ consumer = "created" /\ assigned = FALSE
  /\ position = 0 /\ committed = 0 /\ payload = 0 /\ received = <<>>
  /\ faults = 0

Fault == faults < MaxFaults /\ faults' = faults + 1

-----------------------------------------------------------------------------
(***************************************************************************)
(* kafka_producer_worker                                                   *)
(***************************************************************************)

Send ==
  /\ producing /\ sender = "idle" /\ calls < MaxSends
  /\ calls' = calls + 1 /\ sender' = "produce"
  /\ UNCHANGED <<producing, outq, retried, reports, log, consumerVars, faults>>

\* send of an empty message only serves the delivery reports.
SendEmpty ==
  /\ producing /\ sender = "idle"
  /\ sender' = "poll"
  /\ UNCHANGED <<producing, calls, outq, retried, reports, log, consumerVars, faults>>

QueueFull == Len(outq) + reports >= QueueLimit

MutantProduce ==
  /\ sender = "produce"
  /\ \/ ~ QueueFull /\ outq' = Append(outq, calls) /\ UNCHANGED <<sender, faults>>
     \/ QueueFull /\ sender' = "full" /\ UNCHANGED <<outq, faults>>
     \/ Fault /\ sender' = "poll" /\ UNCHANGED outq
  /\ UNCHANGED <<producing, calls, retried, reports, log, consumerVars>>

\* One turn of the loop in send.
Produce ==
  /\ sender = "produce"
  /\ \/ ~ QueueFull /\ outq' = Append(outq, calls) /\ sender' = "poll" /\ UNCHANGED faults
     \/ QueueFull /\ sender' = "full" /\ UNCHANGED <<outq, faults>>
     \/ Fault /\ sender' = "poll" /\ UNCHANGED outq
  /\ UNCHANGED <<producing, calls, retried, reports, log, consumerVars>>

MutantPollAndRetry ==
  /\ sender = "full" /\ sender' = "produce"
  /\ UNCHANGED <<producing, calls, outq, retried, reports, log, consumerVars, faults>>

\* The queue is full: poll(1000), and try again.
PollAndRetry ==
  /\ sender = "full"
  /\ reports' = 0 /\ sender' = "produce"
  /\ UNCHANGED <<producing, calls, outq, retried, log, consumerVars, faults>>

\* poll(0) before send returns.
FinishSend ==
  /\ sender = "poll"
  /\ reports' = 0 /\ sender' = "idle"
  /\ UNCHANGED <<producing, calls, outq, retried, log, consumerVars, faults>>

StopProducer ==
  /\ sender = "idle" /\ producing
  /\ producing' = FALSE /\ sender' = "flush"
  /\ UNCHANGED <<calls, outq, retried, reports, log, consumerVars, faults>>

\* flush() ends when nothing is left, or after 10 s.
EndFlush ==
  /\ sender = "flush"
  /\ (outq = <<>> /\ UNCHANGED faults) \/ Fault
  /\ sender' = "idle" /\ reports' = 0
  /\ UNCHANGED <<producing, calls, outq, retried, log, consumerVars>>

(***************************************************************************)
(* librdkafka and the broker (external). The producer leaves the number of *)
(* requests in flight and enable.idempotence as they are: many and false.  *)
(* So requests follow each other without a wait, one of which fails is     *)
(* made again when later ones may have been served, and what the broker    *)
(* took although the answer was lost it takes twice.                       *)
(***************************************************************************)

\* A message is not overtaken unless a request of it has failed.
MayBeNext(i) == \A j \in 1 .. i - 1 : outq[j] \in retried

Deliver ==
  /\ \E i \in 1 .. Len(outq) :
       /\ MayBeNext(i)
       /\ log' = Append(log, outq[i]) /\ outq' = RemoveAt(outq, i) /\ reports' = reports + 1
  /\ UNCHANGED <<producing, sender, calls, retried, consumerVars, faults>>

\* A request fails, on its way or on the way back, and is to be made again.
FailRequest ==
  /\ Fault
  /\ \E i \in 1 .. Len(outq) :
       /\ retried' = retried \cup {outq[i]}
       /\ UNCHANGED log \/ (MayBeNext(i) /\ log' = Append(log, outq[i]))
  /\ UNCHANGED <<producing, sender, calls, outq, reports, consumerVars>>

\* A message is given up.
TimeOutMessage ==
  /\ Fault
  /\ \E i \in 1 .. Len(outq) : outq' = RemoveAt(outq, i) /\ reports' = reports + 1
  /\ UNCHANGED <<producing, sender, calls, retried, log, consumerVars>>

-----------------------------------------------------------------------------
(***************************************************************************)
(* kafka_consumer_worker and the loop around it                            *)
(***************************************************************************)

InitConsumer ==
  /\ consumer = "created"
  /\ \/ consumer' = "ready" /\ UNCHANGED faults
     \/ consumer' = "failed" /\ Fault
  /\ UNCHANGED <<assigned, position, committed, payload, received, log, producerVars>>

\* An error ends the process.
Subscribe ==
  /\ consumer = "ready"
  /\ \/ consumer' = "running" /\ UNCHANGED faults
     \/ consumer' = "exited" /\ Fault
  /\ UNCHANGED <<assigned, position, committed, payload, received, log, producerVars>>

\* rebalance_cb: a new assignment starts at the committed offset, or at the end.
\* When assign fails, the code that logs it dereferences a null pointer.
AssignPartition ==
  /\ consumer = "running" /\ ~ assigned
  /\ \/ /\ assigned' = TRUE
        /\ position' = IF committed = 0 THEN Len(log) + 1 ELSE committed
        /\ UNCHANGED <<consumer, faults>>
     \/ Fault /\ consumer' = "exited" /\ UNCHANGED <<assigned, position>>
  /\ UNCHANGED <<committed, payload, received, log, producerVars>>

RevokePartition ==
  /\ consumer = "running" /\ assigned /\ Fault
  /\ assigned' = FALSE
  /\ UNCHANGED <<consumer, position, committed, payload, received, log, producerVars>>

\* consume returns a message ...
Consume ==
  /\ consumer = "running" /\ payload = 0
  /\ assigned /\ position <= Len(log)
  /\ payload' = log[position] /\ received' = Append(received, log[position])
  /\ position' = position + 1
  /\ UNCHANGED <<consumer, assigned, committed, faults, log, producerVars>>

\* ... or stops the worker on an error that is neither a timeout nor the end of
\* the partition: the loop around it ends, the process goes on.
ConsumeFails ==
  /\ consumer = "running" /\ payload = 0 /\ Fault
  /\ consumer' = "ended" /\ assigned' = FALSE
  /\ UNCHANGED <<position, committed, payload, received, log, producerVars>>

\* The body of the loop, left to the service.
HandlePayload ==
  /\ payload # 0 /\ payload' = 0
  /\ UNCHANGED <<consumer, assigned, position, committed, received, faults, log, producerVars>>

\* librdkafka (external): enable.auto.commit.
AutoCommit ==
  /\ consumer = "running" /\ assigned /\ committed # position
  /\ committed' = position
  /\ UNCHANGED <<consumer, assigned, position, payload, received, faults, log, producerVars>>

\* docker restarts a process that has exited.
Restart ==
  /\ consumer = "exited"
  /\ consumer' = "created" /\ assigned' = FALSE /\ payload' = 0
  /\ UNCHANGED <<position, committed, received, faults, log, producerVars>>

Producer == Send \/ SendEmpty \/ Produce \/ PollAndRetry \/ FinishSend \/ StopProducer \/ EndFlush
ConsumerLoop == InitConsumer \/ Subscribe \/ Consume \/ ConsumeFails \/ HandlePayload

KafkaNext ==
  \/ Producer \/ Deliver \/ FailRequest \/ TimeOutMessage \/ ConsumerLoop
  \/ AssignPartition \/ RevokePartition \/ AutoCommit \/ Restart

KafkaSpec == KafkaInit /\ [][KafkaNext]_kafkaVars

\* What runs goes on: librdkafka delivers or gives up, the threads are scheduled.
KafkaFairness ==
  /\ WF_kafkaVars(Produce) /\ WF_kafkaVars(PollAndRetry) /\ WF_kafkaVars(FinishSend)
  /\ WF_kafkaVars(EndFlush) /\ WF_kafkaVars(Deliver)
  /\ WF_kafkaVars(InitConsumer \/ Subscribe) /\ WF_kafkaVars(AssignPartition)
  /\ WF_kafkaVars(Consume) /\ WF_kafkaVars(HandlePayload) /\ WF_kafkaVars(Restart)

-----------------------------------------------------------------------------
(***************************************************************************)
(* Properties.                                                             *)
(***************************************************************************)

\* A call of send returns: the loop around a full queue ends, because polling
\* serves the reports of what was delivered meanwhile.
SendReturns == sender # "idle" ~> sender = "idle"

\* While the consumer runs, what is in the log is read sooner or later, also
\* after a rebalance.
LogIsRead ==
  \A i \in 1 .. MaxSends :
    (assigned /\ position <= i /\ i <= Len(log)) ~> (position > i \/ ~ assigned)

\* Seen from the two services the topic is a channel that may lose messages and, after
\* a rebalance or a restart, repeat them. Late, or more than once from a place, come
\* only those of which a request failed.
Passed == {log[i] : i \in 1 .. position - 1}

Channel == INSTANCE LossyChannel WITH
  accepted <- calls,
  connected <- assigned,
  passed <- Passed,
  last <- IF received = <<>> THEN 0 ELSE Last(received)

ChannelStep == [Channel!Next]_(Channel!vars)

ChannelSpec == Channel!Init /\ [][ChannelStep]_kafkaVars

=============================================================================
