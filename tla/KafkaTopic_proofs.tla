-------------------------- MODULE KafkaTopic_proofs --------------------------
(***************************************************************************)
(* What the two wrappers of kafka_clients make of a topic, proved for      *)
(* every length of the queue and any number of messages and faults: a      *)
(* channel that may lose messages and repeat them after a rebalance, and   *)
(* that brings late or twice only those of which a request failed.         *)
(***************************************************************************)
EXTENDS KafkaTopic, SequenceTheorems, TLAPS

Increasing(s) == \A i, j \in 1 .. Len(s) : i < j => s[i] < s[j]

Below(s, n) == \A i \in 1 .. Len(s) : s[i] < n

\* In the queue the messages are in the order of their calls of send. One of which no
\* request failed is later than all in the partition, and came there later than all
\* before it. The one being sent is later than all of them.
OrderInv ==
  /\ Increasing(outq)
  /\ \A j \in 1 .. Len(outq) : outq[j] \in retried \/ Below(log, outq[j])
  /\ \A j \in 1 .. Len(log) : log[j] \in retried \/ \A i \in 1 .. j - 1 : log[i] < log[j]
  /\ sender \in {"produce", "full"} =>
       Below(log, calls) /\ Below(outq, calls) /\ calls \notin retried

\* Only a consumer that runs has the partition, and then it has a place in it.
PlaceInv == assigned => consumer = "running" /\ position >= 1

\* A message that is being sent has been counted.
CountedInv == sender \in {"produce", "full"} => calls > 0

-----------------------------------------------------------------------------
(***************************************************************************)
(* Sequences.                                                              *)
(***************************************************************************)

\* RemoveAt leaves out one element and moves those behind it one place up.
LEMMA RemoveAtProperties ==
  ASSUME NEW S, NEW s \in Seq(S), NEW n \in 1 .. Len(s)
  PROVE  /\ RemoveAt(s, n) \in Seq(S)
         /\ Len(RemoveAt(s, n)) = Len(s) - 1
         /\ \A i \in 1 .. Len(s) - 1 :
              RemoveAt(s, n)[i] = IF i < n THEN s[i] ELSE s[i + 1]
  <1> DEFINE before == SubSeq(s, 1, n - 1)
             behind == SubSeq(s, n + 1, Len(s))
  <1>1. Len(s) \in Nat /\ n \in Nat /\ 1 \in Int /\ n - 1 \in Int /\ n + 1 \in Int
    BY LenProperties
  <1>2. \A i \in 1 .. Len(s) : s[i] \in S
    BY ElementOfSeq
  <1>3. /\ before \in Seq(S) /\ Len(before) = n - 1
        /\ \A i \in 1 .. n - 1 : before[i] = s[i]
    <2>1. \A i \in 1 .. n - 1 : s[i] \in S
      BY <1>1, <1>2
    <2> QED
      BY <1>1, <2>1, SubSeqProperties
  <1>4. /\ behind \in Seq(S) /\ Len(behind) = Len(s) - n
        /\ \A i \in 1 .. Len(s) - n : behind[i] = s[n + i]
    <2>1. \A i \in n + 1 .. Len(s) : s[i] \in S
      BY <1>1, <1>2
    <2>2. /\ behind \in Seq(S)
          /\ Len(behind) = IF n + 1 <= Len(s) THEN Len(s) - (n + 1) + 1 ELSE 0
          /\ \A i \in 1 .. Len(s) - (n + 1) + 1 : behind[i] = s[(n + 1) + i - 1]
      BY <1>1, <2>1, SubSeqProperties
    <2> QED
      BY <1>1, <2>2
  <1> HIDE DEF before, behind
  <1>5. /\ before \o behind \in Seq(S)
        /\ Len(before \o behind) = Len(before) + Len(behind)
        /\ \A i \in 1 .. Len(before) + Len(behind) :
             (before \o behind)[i] =
               IF i <= Len(before) THEN before[i] ELSE behind[i - Len(before)]
    BY <1>3, <1>4, ConcatProperties
  <1>6. RemoveAt(s, n) = before \o behind
    BY DEF RemoveAt, before, behind
  <1>7. ASSUME NEW i \in 1 .. Len(s) - 1
        PROVE  (before \o behind)[i] = IF i < n THEN s[i] ELSE s[i + 1]
    BY <1>1, <1>3, <1>4, <1>5
  <1>8. Len(before \o behind) = Len(s) - 1
    BY <1>1, <1>3, <1>4, <1>5
  <1> QED
    BY <1>5, <1>6, <1>7, <1>8
-----------------------------------------------------------------------------
(***************************************************************************)
(* Types, and the place of the consumer.                                   *)
(***************************************************************************)

LEMMA PlaceStep ==
  ASSUME TypeOK, PlaceInv, [KafkaNext]_kafkaVars
  PROVE  PlaceInv'
  <1>0. /\ position \in Nat /\ committed \in Nat /\ Len(log) \in Nat
        /\ committed = 0 \/ committed >= 1
    BY LenProperties DEF TypeOK
  <1>1. CASE AssignPartition
    <2>1. CASE ~ assigned'
      BY <2>1 DEF PlaceInv
    <2>2. CASE assigned'
      <3>1. /\ consumer' = "running"
            /\ position' = IF committed = 0 THEN Len(log) + 1 ELSE committed
        BY <1>1, <2>2 DEF AssignPartition
      <3> QED
        BY <1>0, <3>1 DEF PlaceInv
    <2> QED
      BY <2>1, <2>2
  <1>2. CASE Consume
    BY <1>0, <1>2 DEF Consume, PlaceInv
  <1>3. CASE \/ InitConsumer \/ Subscribe \/ ConsumeFails \/ HandlePayload
             \/ RevokePartition \/ AutoCommit \/ Restart
    BY <1>3 DEF InitConsumer, Subscribe, ConsumeFails, HandlePayload,
                RevokePartition, AutoCommit, Restart, PlaceInv
  <1>4. CASE Producer \/ Deliver \/ FailRequest \/ TimeOutMessage \/ UNCHANGED kafkaVars
    BY <1>4 DEF Producer, Send, SendEmpty, Produce, PollAndRetry, FinishSend,
                StopProducer, EndFlush, Deliver, FailRequest, TimeOutMessage, kafkaVars, consumerVars, PlaceInv
  <1> QED
    BY <1>1, <1>2, <1>3, <1>4 DEF KafkaNext, ConsumerLoop

\* The broker's part of the step of a type: the log grows by a queued message.
LEMMA DeliverType ==
  ASSUME KafkaAssumption, TypeOK, Deliver \/ FailRequest \/ TimeOutMessage
  PROVE  TypeOK'
  <1>0. /\ position \in 0 .. Len(log) + 1 /\ committed \in 0 .. Len(log) + 1
        /\ faults \in 0 .. MaxFaults /\ MaxFaults \in Nat
        /\ Len(outq) + reports <= QueueLimit
    BY DEF TypeOK, KafkaAssumption
  <1>1. PICK i \in 1 .. Len(outq) :
          /\ \/ outq' = RemoveAt(outq, i) /\ reports' = reports + 1
             \/ UNCHANGED <<outq, reports>>
          /\ log' = Append(log, outq[i]) \/ UNCHANGED log
          /\ retried' = retried \cup {outq[i]} \/ UNCHANGED retried
          /\ Fault \/ UNCHANGED faults
    BY DEF Deliver, FailRequest, TimeOutMessage
  <1>2. /\ outq \in Seq(1 .. calls) /\ log \in Seq(1 .. calls) /\ outq[i] \in 1 .. calls
        /\ Len(outq) \in Nat /\ Len(log) \in Nat /\ reports \in Nat /\ QueueLimit \in Nat
    BY ElementOfSeq, LenProperties DEF TypeOK, KafkaAssumption
  <1>3. /\ Append(log, outq[i]) \in Seq(1 .. calls)
        /\ Len(Append(log, outq[i])) = Len(log) + 1
    BY <1>2, AppendProperties
  <1>4. /\ RemoveAt(outq, i) \in Seq(1 .. calls)
        /\ Len(RemoveAt(outq, i)) = Len(outq) - 1
    BY <1>2, RemoveAtProperties
  <1>5. /\ UNCHANGED <<producing, sender, calls, consumer, assigned, position, committed,
                       payload, received>>
    BY DEF Deliver, FailRequest, TimeOutMessage, consumerVars
  <1>6. faults' \in 0 .. MaxFaults
    BY <1>0, <1>1 DEF Fault
  <1>7. outq' \in Seq(1 .. calls) /\ log' \in Seq(1 .. calls)
    BY <1>1, <1>2, <1>3, <1>4
  <1>8. Len(outq') + reports' <= QueueLimit /\ reports' \in Nat
    <2>1. Len(outq) + reports <= QueueLimit
      BY <1>0
    <2>2. \/ Len(outq') = Len(outq) - 1 /\ reports' = reports + 1
          \/ Len(outq') = Len(outq) /\ reports' = reports
      <3>1. \/ outq' = RemoveAt(outq, i) /\ reports' = reports + 1
            \/ UNCHANGED <<outq, reports>>
        BY <1>1
      <3> DEFINE shorter == RemoveAt(outq, i)
      <3>2. Len(shorter) = Len(outq) - 1
        BY <1>4
      <3> HIDE DEF shorter
      <3> QED
        BY <3>1, <3>2 DEF shorter
    <2> QED
      BY <1>2, <2>1, <2>2
  <1>9. {position, committed} \subseteq 0 .. Len(log') + 1
    BY <1>0, <1>1, <1>2, <1>3
  <1>10. retried' \subseteq 1 .. calls
    BY <1>1, <1>2 DEF TypeOK
  <1> QED
    BY <1>5, <1>6, <1>7, <1>8, <1>9, <1>10 DEF TypeOK

LEMMA ProducerType ==
  ASSUME KafkaAssumption, TypeOK, CountedInv, Producer
  PROVE  TypeOK'
  <1>0. /\ outq \in Seq(1 .. calls) /\ log \in Seq(1 .. calls) /\ received \in Seq(1 .. calls)
        /\ Len(outq) \in Nat /\ reports \in Nat /\ calls \in Nat
        /\ MaxSends \in Nat /\ MaxFaults \in Nat /\ QueueLimit \in Nat
    BY LenProperties DEF TypeOK, KafkaAssumption
  <1>1. CASE Send
    <2>1. calls' = calls + 1 /\ calls' \in 0 .. MaxSends /\ 1 .. calls \subseteq 1 .. calls'
      BY <1>0, <1>1 DEF Send
    <2>2. /\ outq \in Seq(1 .. calls') /\ log \in Seq(1 .. calls')
          /\ received \in Seq(1 .. calls')
      BY <1>0, <2>1, SeqMonotonic
    <2>3. payload \in 0 .. calls'
      BY <1>0, <2>1 DEF TypeOK
    <2> QED
      BY <1>1, <2>1, <2>2, <2>3 DEF Send, TypeOK, consumerVars
  <1>2. CASE Produce
    <2>1. CASE ~ QueueFull /\ outq' = Append(outq, calls) /\ sender' = "poll" /\ UNCHANGED faults
      <3>1. calls \in 1 .. calls
        BY <1>0, <1>2 DEF Produce, CountedInv
      <3>2. /\ Append(outq, calls) \in Seq(1 .. calls)
            /\ Len(Append(outq, calls)) = Len(outq) + 1
        BY <1>0, <3>1, AppendProperties
      <3>3. Len(outq') + reports <= QueueLimit
        BY <1>0, <2>1, <3>2 DEF QueueFull
      <3> QED
        BY <1>0, <1>2, <2>1, <3>2, <3>3 DEF Produce, TypeOK, consumerVars
    <2>2. CASE UNCHANGED outq /\ (UNCHANGED faults \/ Fault) /\ sender' \in {"full", "poll"}
      BY <1>0, <1>2, <2>2 DEF Produce, Fault, TypeOK, consumerVars
    <2> QED
      BY <1>2, <2>1, <2>2 DEF Produce
  <1>3. CASE SendEmpty \/ PollAndRetry \/ FinishSend \/ StopProducer \/ EndFlush
    <2>1. /\ UNCHANGED <<calls, outq, retried, log, consumerVars>>
          /\ reports' \in {0, reports}
          /\ producing' \in {producing, FALSE}
          /\ sender' \in {"idle", "produce", "poll", "flush"}
      BY <1>3 DEF SendEmpty, PollAndRetry, FinishSend, StopProducer, EndFlush
    <2>2. faults' \in 0 .. MaxFaults
      <3>1. UNCHANGED faults \/ Fault
        BY <1>3 DEF SendEmpty, PollAndRetry, FinishSend, StopProducer, EndFlush
      <3>2. faults \in 0 .. MaxFaults /\ MaxFaults \in Nat
        BY <1>0 DEF TypeOK, KafkaAssumption
      <3> QED
        BY <3>1, <3>2 DEF Fault
    <2>3. reports' \in Nat /\ Len(outq) + reports' <= QueueLimit
      BY <1>0, <2>1 DEF TypeOK
    <2> QED
      BY <2>1, <2>2, <2>3 DEF TypeOK, consumerVars
  <1> QED
    BY <1>1, <1>2, <1>3 DEF Producer

LEMMA ConsumerType ==
  ASSUME KafkaAssumption, TypeOK, PlaceInv,
         ConsumerLoop \/ AssignPartition \/ RevokePartition \/ AutoCommit \/ Restart
  PROVE  TypeOK'
  <1>0. /\ received \in Seq(1 .. calls) /\ log \in Seq(1 .. calls)
        /\ position \in 0 .. Len(log) + 1 /\ committed \in 0 .. Len(log) + 1
        /\ faults \in 0 .. MaxFaults /\ MaxFaults \in Nat /\ Len(log) \in Nat
        /\ calls \in Nat /\ payload \in 0 .. calls
    BY LenProperties DEF TypeOK, KafkaAssumption
  <1>1. CASE Consume
    <2>1. position \in 1 .. Len(log) /\ position + 1 \in 0 .. Len(log) + 1
      BY <1>0, <1>1 DEF Consume, PlaceInv
    <2>2. log[position] \in 1 .. calls
      BY <1>0, <2>1, ElementOfSeq
    <2>3. Append(received, log[position]) \in Seq(1 .. calls)
      BY <1>0, <2>2, AppendProperties
    <2>4. payload' \in 0 .. calls
      BY <1>0, <1>1, <2>2 DEF Consume
    <2> QED
      BY <1>1, <2>1, <2>3, <2>4 DEF Consume, TypeOK, producerVars
  <1>2. CASE ~ Consume
    <2>1. UNCHANGED <<log, received, producerVars>>
      BY <1>2 DEF ConsumerLoop, InitConsumer, Subscribe, ConsumeFails, HandlePayload,
                  AssignPartition, RevokePartition, AutoCommit, Restart
    <2>2. faults' \in 0 .. MaxFaults
      BY <1>0, <1>2 DEF ConsumerLoop, InitConsumer, Subscribe, ConsumeFails, HandlePayload,
                  AssignPartition, RevokePartition, AutoCommit, Restart, Fault
    <2>3. /\ consumer' \in {"created", "ready", "failed", "running", "ended", "exited"}
          /\ assigned' \in BOOLEAN
      BY <1>2 DEF ConsumerLoop, InitConsumer, Subscribe, ConsumeFails, HandlePayload,
                  AssignPartition, RevokePartition, AutoCommit, Restart, TypeOK
    <2>4. position' \in {position, committed, Len(log) + 1} /\ committed' \in {committed, position}
      BY <1>2 DEF ConsumerLoop, InitConsumer, Subscribe, ConsumeFails, HandlePayload,
                  AssignPartition, RevokePartition, AutoCommit, Restart
    <2>5. position' \in 0 .. Len(log) + 1 /\ committed' \in 0 .. Len(log) + 1
      BY <1>0, <2>4
    <2>6. payload' \in {payload, 0}
      BY <1>2 DEF ConsumerLoop, InitConsumer, Subscribe, ConsumeFails, HandlePayload,
                  AssignPartition, RevokePartition, AutoCommit, Restart
    <2>7. payload' \in 0 .. calls
      BY <1>0, <2>6
    <2> QED
      BY <2>1, <2>2, <2>3, <2>5, <2>7 DEF TypeOK, producerVars
  <1> QED
    BY <1>1, <1>2

LEMMA CountedStep ==
  ASSUME TypeOK, CountedInv, [KafkaNext]_kafkaVars
  PROVE  CountedInv'
  <1>0. calls \in Nat
    BY DEF TypeOK
  <1> QED
    BY <1>0 DEF KafkaNext, Producer, ConsumerLoop, Send, SendEmpty, Produce, PollAndRetry,
                FinishSend, StopProducer, EndFlush, Deliver, FailRequest, TimeOutMessage, InitConsumer, Subscribe, Consume,
                ConsumeFails, HandlePayload, AssignPartition, RevokePartition, AutoCommit,
                Restart, kafkaVars, producerVars, CountedInv

KafkaInv == TypeOK /\ PlaceInv /\ CountedInv

\* Types, and the place that the consumer has while it has the partition, hold for
\* every length of the queue and any faults of the requests (kafka_consumer_worker.cpp:
\* consume, rebalance_cb; kafka_producer_worker.cpp: send, stop).
THEOREM KafkaInvariance == ASSUME KafkaAssumption PROVE KafkaSpec => []KafkaInv
  <1>1. KafkaInit => KafkaInv
    <2> SUFFICES ASSUME KafkaInit PROVE KafkaInv
      OBVIOUS
    <2>1. /\ outq \in Seq(1 .. calls) /\ log \in Seq(1 .. calls) /\ received \in Seq(1 .. calls)
          /\ Len(outq) = 0 /\ Len(log) = 0
      BY EmptySeq DEF KafkaInit
    <2>2. Len(outq) + reports <= QueueLimit /\ reports \in Nat
      BY <2>1 DEF KafkaInit, KafkaAssumption
    <2>3. /\ calls \in 0 .. MaxSends /\ faults \in 0 .. MaxFaults /\ payload \in 0 .. calls
          /\ {position, committed} \subseteq 0 .. Len(log) + 1
      BY <2>1 DEF KafkaInit, KafkaAssumption
    <2>4. PlaceInv /\ CountedInv
      BY DEF KafkaInit, PlaceInv, CountedInv
    <2> QED
      BY <2>1, <2>2, <2>3, <2>4 DEF KafkaInit, KafkaInv, TypeOK
  <1>2. KafkaInv /\ [KafkaNext]_kafkaVars => KafkaInv'
    <2> SUFFICES ASSUME KafkaInv, [KafkaNext]_kafkaVars PROVE TypeOK'
      BY PlaceStep, CountedStep DEF KafkaInv
    <2> USE DEF KafkaInv
    <2>1. CASE Producer
      BY <2>1, ProducerType
    <2>2. CASE Deliver \/ FailRequest \/ TimeOutMessage
      BY <2>2, DeliverType
    <2>3. CASE ConsumerLoop \/ AssignPartition \/ RevokePartition \/ AutoCommit \/ Restart
      BY <2>3, ConsumerType
    <2>4. CASE UNCHANGED kafkaVars
      BY <2>4 DEF kafkaVars, producerVars, consumerVars, TypeOK
    <2> QED
      BY <2>1, <2>2, <2>3, <2>4 DEF KafkaNext
  <1> QED
    BY <1>1, <1>2, PTL DEF KafkaSpec

-----------------------------------------------------------------------------
(***************************************************************************)
(* The order of the messages.                                              *)
(***************************************************************************)

\* Something later than all of a sequence may be appended to it.
LEMMA AppendInOrder ==
  ASSUME NEW S \in SUBSET Nat, NEW s \in Seq(S), NEW n \in S, Increasing(s), Below(s, n)
  PROVE  Increasing(Append(s, n))
  <1>1. Len(s) \in Nat /\ Len(Append(s, n)) = Len(s) + 1
    BY LenProperties, AppendProperties
  <1>2. \A i \in 1 .. Len(s) : Append(s, n)[i] = s[i]
    BY AppendProperties
  <1>3. Append(s, n)[Len(s) + 1] = n
    BY AppendProperties
  <1> QED
    BY <1>1, <1>2, <1>3 DEF Increasing, Below

\* What is given up leaves the rest of the queue in its order.
LEMMA RemoveInOrder ==
  ASSUME NEW S \in SUBSET Nat, NEW s \in Seq(S), NEW n \in 1 .. Len(s), Increasing(s)
  PROVE  /\ Increasing(RemoveAt(s, n))
         /\ \A j \in 1 .. Len(RemoveAt(s, n)) :
              \E k \in 1 .. Len(s) : k # n /\ RemoveAt(s, n)[j] = s[k]
  <1>1. /\ Len(s) \in Nat /\ Len(RemoveAt(s, n)) = Len(s) - 1
        /\ \A i \in 1 .. Len(s) - 1 : RemoveAt(s, n)[i] = IF i < n THEN s[i] ELSE s[i + 1]
    BY LenProperties, RemoveAtProperties
  <1> QED
    BY <1>1 DEF Increasing

\* A message is put behind the partition: as long as it may be, the order stays.
LEMMA DeliveredInOrder ==
  ASSUME KafkaInv, OrderInv, NEW i \in 1 .. Len(outq), MayBeNext(i),
         log' = Append(log, outq[i]), retried \subseteq retried'
  PROVE  /\ \A j \in 1 .. Len(outq) : j # i => outq[j] \in retried' \/ Below(log', outq[j])
         /\ \A j \in 1 .. Len(log') :
              log'[j] \in retried' \/ \A k \in 1 .. j - 1 : log'[k] < log'[j]
  <1>1. /\ outq \in Seq(1 .. calls) /\ log \in Seq(1 .. calls) /\ calls \in Nat
        /\ Len(outq) \in Nat /\ Len(log) \in Nat
        /\ \A j \in 1 .. Len(outq) : outq[j] \in 1 .. calls
    BY LenProperties, ElementOfSeq DEF KafkaInv, TypeOK
  <1>2. /\ Len(log') = Len(log) + 1
        /\ \A j \in 1 .. Len(log) : log'[j] = log[j]
        /\ log'[Len(log) + 1] = outq[i]
    BY <1>1, AppendProperties
  <1>a. \A k \in 1 .. Len(log') : k \in 1 .. Len(log) \/ k = Len(log) + 1
    <2>1. Len(log) \in Nat /\ Len(log') = Len(log) + 1
      BY <1>1, <1>2
    <2> QED
      BY <2>1
  <1>3. ASSUME NEW j \in 1 .. Len(outq), j # i, outq[j] \notin retried'
        PROVE  Below(log', outq[j])
    <2>1. outq[j] \notin retried /\ Below(log, outq[j])
      BY <1>3 DEF OrderInv
    <2>2. i < j
      <3>1. i <= j
        BY <1>1, <2>1 DEF MayBeNext
      <3> QED
        BY <1>1, <1>3, <3>1
    <2>3. outq[i] < outq[j]
      BY <2>2 DEF OrderInv, Increasing
    <2>4. ASSUME NEW k \in 1 .. Len(log') PROVE log'[k] < outq[j]
      <3>1. CASE k \in 1 .. Len(log)
        BY <1>2, <2>1, <3>1 DEF Below
      <3>2. CASE k = Len(log) + 1
        BY <1>2, <2>3, <3>2
      <3> QED
        BY <1>a, <3>1, <3>2
    <2> QED
      BY <2>4 DEF Below
  <1>4. ASSUME NEW j \in 1 .. Len(log'), log'[j] \notin retried', NEW k \in 1 .. j - 1
        PROVE  log'[k] < log'[j]
    <2>1. log'[j] \notin retried
      BY <1>4
    <2>2. CASE j \in 1 .. Len(log)
      <3>1. k \in 1 .. Len(log) /\ log'[k] = log[k] /\ log'[j] = log[j]
        BY <1>1, <1>2, <2>2
      <3> QED
        BY <2>1, <2>2, <3>1 DEF OrderInv
    <2>3. CASE j = Len(log) + 1
      <3>1. k \in 1 .. Len(log) /\ log'[k] = log[k] /\ log'[j] = outq[i]
        BY <1>1, <1>2, <2>3
      <3> QED
        BY <2>1, <3>1 DEF OrderInv, Below
    <2> QED
      BY <1>a, <2>2, <2>3
  <1> QED
    BY <1>3, <1>4

LEMMA OrderStep ==
  ASSUME KafkaAssumption, KafkaInv, OrderInv, [KafkaNext]_kafkaVars
  PROVE  OrderInv'
  <1>0. /\ outq \in Seq(1 .. calls) /\ log \in Seq(1 .. calls)
        /\ Len(outq) \in Nat /\ Len(log) \in Nat /\ calls \in Nat
        /\ \A i \in 1 .. Len(outq) : outq[i] \in 1 .. calls
        /\ \A i \in 1 .. Len(log) : log[i] \in 1 .. calls
        /\ retried \subseteq 1 .. calls
    <2>1. /\ outq \in Seq(1 .. calls) /\ log \in Seq(1 .. calls) /\ calls \in Nat
          /\ retried \subseteq 1 .. calls
      BY DEF KafkaInv, TypeOK
    <2>2. Len(outq) \in Nat /\ Len(log) \in Nat
      BY <2>1, LenProperties
    <2> QED
      BY <2>1, <2>2, ElementOfSeq
  <1>1. CASE Send
    <2>1. /\ UNCHANGED <<outq, log, retried>> /\ calls' = calls + 1
      BY <1>1 DEF Send
    <2> QED
      BY <1>0, <2>1 DEF OrderInv, Below
  <1>2. CASE Produce
    <2>1. CASE ~ QueueFull /\ outq' = Append(outq, calls) /\ sender' = "poll" /\ UNCHANGED faults
      <3>1. /\ calls \in 1 .. calls /\ Below(outq, calls) /\ Below(log, calls)
            /\ UNCHANGED <<log, retried>>
        BY <1>0, <1>2 DEF Produce, KafkaInv, CountedInv, OrderInv
      <3>2. Increasing(outq')
        BY <1>0, <2>1, <3>1, AppendInOrder, 1 .. calls \subseteq Nat DEF OrderInv
      <3>3. /\ Len(outq') = Len(outq) + 1
            /\ \A i \in 1 .. Len(outq) : outq'[i] = outq[i]
            /\ outq'[Len(outq) + 1] = calls
        BY <1>0, <2>1, <3>1, AppendProperties
      <3>4. ASSUME NEW j \in 1 .. Len(outq')
            PROVE  outq'[j] \in retried \/ Below(log, outq'[j])
        <4>1. CASE j \in 1 .. Len(outq)
          BY <3>3, <4>1 DEF OrderInv
        <4>2. CASE j = Len(outq) + 1
          BY <3>1, <3>3, <4>2
        <4>3. j \in 1 .. Len(outq) \/ j = Len(outq) + 1
          <5>1. Len(outq) \in Nat /\ Len(outq') = Len(outq) + 1
            BY <1>0, <3>3
          <5> QED
            BY <5>1
        <4> QED
          BY <4>1, <4>2, <4>3
      <3> QED
        BY <2>1, <3>1, <3>2, <3>4 DEF OrderInv
    <2>2. CASE UNCHANGED outq
      BY <1>2, <2>2 DEF Produce, OrderInv
    <2> QED
      BY <1>2, <2>1, <2>2 DEF Produce
  <1>3. CASE Deliver \/ FailRequest \/ TimeOutMessage
    <2>1. PICK i \in 1 .. Len(outq) :
            /\ \/ outq' = RemoveAt(outq, i) /\ UNCHANGED retried
               \/ UNCHANGED outq /\ retried' = retried \cup {outq[i]}
            /\ UNCHANGED log \/ (MayBeNext(i) /\ log' = Append(log, outq[i]))
            /\ UNCHANGED <<sender, calls>>
      BY <1>3 DEF Deliver, FailRequest, TimeOutMessage
    <2>2. /\ Increasing(outq')
          /\ \A j \in 1 .. Len(outq') :
               \E k \in 1 .. Len(outq) :
                 outq'[j] = outq[k] /\ (k # i \/ outq'[j] \in retried')
      <3>1. CASE outq' = RemoveAt(outq, i)
        <4> DEFINE rest == RemoveAt(outq, i)
        <4>1. /\ Increasing(rest)
              /\ \A j \in 1 .. Len(rest) : \E k \in 1 .. Len(outq) : k # i /\ rest[j] = outq[k]
          BY <1>0, RemoveInOrder, 1 .. calls \subseteq Nat DEF OrderInv
        <4> HIDE DEF rest
        <4>2. outq' = rest
          BY <3>1 DEF rest
        <4> QED
          BY <4>1, <4>2
      <3>2. CASE UNCHANGED outq /\ retried' = retried \cup {outq[i]}
        BY <3>2 DEF OrderInv
      <3> QED
        BY <2>1, <3>1, <3>2
    <2>3. /\ \A j \in 1 .. Len(outq) : j # i => outq[j] \in retried' \/ Below(log', outq[j])
          /\ \A j \in 1 .. Len(log') :
               log'[j] \in retried' \/ \A k \in 1 .. j - 1 : log'[k] < log'[j]
      <3>1. retried \subseteq retried'
        BY <2>1
      <3>2. CASE UNCHANGED log
        BY <3>1, <3>2 DEF OrderInv
      <3>3. CASE MayBeNext(i) /\ log' = Append(log, outq[i])
        BY <3>1, <3>3, DeliveredInOrder
      <3> QED
        BY <2>1, <3>2, <3>3
    <2>4. \A j \in 1 .. Len(outq') : outq'[j] \in retried' \/ Below(log', outq'[j])
      BY <2>2, <2>3
    <2>5. ASSUME sender' \in {"produce", "full"}
          PROVE  Below(log', calls') /\ Below(outq', calls') /\ calls' \notin retried'
      <3>1. Below(log, calls) /\ Below(outq, calls) /\ calls \notin retried /\ calls' = calls
        BY <2>1, <2>5 DEF OrderInv
      <3>2. outq[i] < calls
        BY <3>1 DEF Below
      <3>3. Below(outq', calls)
        BY <2>2, <3>1 DEF Below
      <3>4. Below(log', calls)
        <4>1. CASE log' = Append(log, outq[i])
          <5>1. /\ Len(log') = Len(log) + 1
                /\ \A j \in 1 .. Len(log) : log'[j] = log[j]
                /\ log'[Len(log) + 1] = outq[i]
            BY <1>0, <4>1, AppendProperties
          <5>2. \A k \in 1 .. Len(log') : k \in 1 .. Len(log) \/ k = Len(log) + 1
            BY <1>0, <5>1
          <5> QED
            BY <3>1, <3>2, <5>1, <5>2 DEF Below
        <4> QED
          BY <2>1, <3>1, <4>1
      <3>5. calls \notin retried'
        BY <1>0, <2>1, <3>1, <3>2
      <3> QED
        BY <3>1, <3>3, <3>4, <3>5
    <2> QED
      BY <2>2, <2>3, <2>4, <2>5 DEF OrderInv
  <1>4. CASE UNCHANGED <<outq, retried, log, calls>> /\ (sender' \in {"produce", "full"} =>
                                                          sender \in {"produce", "full"})
    BY <1>4 DEF OrderInv
  <1>5. CASE SendEmpty \/ PollAndRetry \/ FinishSend \/ StopProducer \/ EndFlush
    BY <1>4, <1>5 DEF SendEmpty, PollAndRetry, FinishSend, StopProducer, EndFlush
  <1>6. CASE \/ ConsumerLoop \/ AssignPartition \/ RevokePartition \/ AutoCommit \/ Restart
             \/ UNCHANGED kafkaVars
    BY <1>4, <1>6 DEF ConsumerLoop, InitConsumer, Subscribe, Consume, ConsumeFails,
         HandlePayload, AssignPartition, RevokePartition, AutoCommit, Restart, kafkaVars,
         producerVars
  <1> QED
    BY <1>1, <1>2, <1>3, <1>5, <1>6 DEF KafkaNext, Producer

-----------------------------------------------------------------------------
(***************************************************************************)
(* The refinement.                                                         *)
(***************************************************************************)

\* The last message of the channel that the topic is.
LastReceived == IF received = <<>> THEN 0 ELSE Last(received)

LEMMA PassedType ==
  KafkaInv => Passed \subseteq 1 .. calls
  <1> SUFFICES ASSUME KafkaInv PROVE Passed \subseteq 1 .. calls
    OBVIOUS
  <1>1. /\ log \in Seq(1 .. calls) /\ Len(log) \in Nat /\ position \in 0 .. Len(log) + 1
    BY LenProperties DEF KafkaInv, TypeOK
  <1>2. \A i \in 1 .. position - 1 : i \in 1 .. Len(log)
    BY <1>1
  <1> QED
    BY <1>1, <1>2, ElementOfSeq DEF Passed

\* The log only grows, so that what has been passed depends on the position alone.
LEMMA PassedKept ==
  ASSUME KafkaInv, NEW n, log' \in {log, Append(log, n)}, n \in 1 .. calls,
         UNCHANGED position
  PROVE  UNCHANGED Passed
  <1>1. /\ log \in Seq(1 .. calls) /\ Len(log) \in Nat
        /\ position \in 0 .. Len(log) + 1
    BY LenProperties DEF KafkaInv, TypeOK
  <1>2. \A i \in 1 .. Len(log) : Append(log, n)[i] = log[i]
    BY <1>1, AppendProperties
  <1>3. \A i \in 1 .. position - 1 : i \in 1 .. Len(log)
    BY <1>1
  <1>4. \A i \in 1 .. position - 1 : log'[i] = log[i]
    BY <1>2, <1>3
  <1> QED
    BY <1>4 DEF Passed

\* Every step of the topic is a step of the channel or leaves it as it is.
LEMMA TopicStepIsChannelStep ==
  ASSUME KafkaAssumption, KafkaInv, KafkaInv', OrderInv, [KafkaNext]_kafkaVars
  PROVE  ChannelStep
  <1> DEFINE Same == UNCHANGED <<calls, retried, assigned, Passed, LastReceived>>
  <1>0. /\ log \in Seq(1 .. calls) /\ received \in Seq(1 .. calls)
        /\ Len(log) \in Nat /\ calls \in Nat /\ position \in 0 .. Len(log) + 1
    BY LenProperties DEF KafkaInv, TypeOK
  <1>a. Same => ChannelStep
    BY DEF ChannelStep, Channel!vars, LastReceived
  <1>1. CASE Send
    <2>1. calls' = calls + 1 /\ UNCHANGED <<retried, assigned, Passed, LastReceived>>
      BY <1>1 DEF Send, consumerVars, Passed, LastReceived
    <2>2. Channel!Accept
      BY <2>1 DEF Channel!Accept, LastReceived
    <2> QED
      BY <2>2 DEF ChannelStep, Channel!Next
  <1>2. CASE SendEmpty \/ Produce \/ PollAndRetry \/ FinishSend \/ StopProducer \/ EndFlush
    <2>1. Same
      BY <1>2 DEF SendEmpty, Produce, PollAndRetry, FinishSend, StopProducer, EndFlush,
                  consumerVars, Passed, LastReceived
    <2> QED
      BY <1>a, <2>1
  <1>3. CASE Deliver \/ FailRequest \/ TimeOutMessage
    <2>1. PICK i \in 1 .. Len(outq) :
            /\ log' \in {log, Append(log, outq[i])}
            /\ UNCHANGED retried \/ retried' = retried \cup {outq[i]}
      BY <1>3 DEF Deliver, FailRequest, TimeOutMessage
    <2>2. outq[i] \in 1 .. calls
      BY ElementOfSeq DEF KafkaInv, TypeOK
    <2>3. UNCHANGED <<calls, assigned, position, received>>
      BY <1>3 DEF Deliver, FailRequest, TimeOutMessage, consumerVars
    <2>4. UNCHANGED <<Passed, LastReceived>>
      BY <2>1, <2>2, <2>3, PassedKept DEF LastReceived
    <2>5. CASE outq[i] \in retried \/ UNCHANGED retried
      <3>1. UNCHANGED retried
        BY <2>1, <2>5
      <3> QED
        BY <1>a, <2>3, <2>4, <3>1
    <2>6. CASE outq[i] \notin retried /\ retried' = retried \cup {outq[i]}
      <3>1. \A k \in 1 .. position - 1 : k \in 1 .. Len(log)
        BY <1>0
      <3>2. \A m \in Passed : m < outq[i]
        BY <2>6, <3>1 DEF OrderInv, Below, Passed
      <3>3. Channel!Retry
        BY <2>2, <2>3, <2>4, <2>6, <3>2 DEF Channel!Retry, LastReceived
      <3> QED
        BY <3>3 DEF ChannelStep, Channel!Next
    <2> QED
      BY <2>1, <2>5, <2>6
  <1>4. CASE Consume
    <2>1. position \in 1 .. Len(log) /\ assigned
      BY <1>0, <1>4 DEF Consume, KafkaInv, TypeOK, PlaceInv
    <2>2. log[position] \in 1 .. calls
      BY <1>0, <2>1, ElementOfSeq
    <2>3. Passed' = Passed \cup {log[position]}
      <3>1. log' = log /\ position' = position + 1
        BY <1>4 DEF Consume
      <3>2. 1 .. position' - 1 = (1 .. position - 1) \cup {position}
        BY <1>0, <2>1, <3>1
      <3> QED
        BY <3>1, <3>2 DEF Passed
    <2>4. LastReceived' = log[position]
      <3> DEFINE n == log[position]
      <3>1. n \in 1 .. calls
        BY <2>2
      <3> HIDE DEF n
      <3>r. received \in Seq(1 .. calls)
        BY <1>0
      <3>2. /\ Len(Append(received, n)) = Len(received) + 1
            /\ Append(received, n) # <<>>
            /\ Append(received, n)[Len(received) + 1] = n
        BY <3>1, <3>r, AppendProperties
      <3> QED
        BY <1>4, <3>2 DEF Consume, LastReceived, Last, n
    <2>5. UNCHANGED <<calls, retried, assigned>>
      BY <1>4 DEF Consume, producerVars
    <2>6. CASE log[position] \in retried
      <3>1. Channel!ReceiveRetried
        BY <2>1, <2>3, <2>4, <2>5, <2>6 DEF Channel!ReceiveRetried, LastReceived
      <3> QED
        BY <3>1 DEF ChannelStep, Channel!Next
    <2>7. CASE log[position] \notin retried
      <3>1. \A m \in Passed : m < log[position]
        BY <2>1, <2>7 DEF OrderInv, Passed
      <3>2. Channel!Receive
        BY <2>1, <2>2, <2>3, <2>4, <2>5, <2>7, <3>1 DEF Channel!Receive, LastReceived
      <3> QED
        BY <3>2 DEF ChannelStep, Channel!Next
    <2> QED
      BY <2>6, <2>7
  <1>5. CASE AssignPartition
    <2>1. UNCHANGED <<calls, retried, LastReceived>> /\ ~ assigned
      BY <1>5 DEF AssignPartition, producerVars, LastReceived
    <2>2. CASE assigned' = TRUE
      <3>1. Passed' \subseteq 1 .. calls
        <4>1. KafkaInv' => (Passed \subseteq 1 .. calls)'
          BY PassedType, PTL
        <4> QED
          BY <2>1, <4>1
      <3>2. Channel!Connect
        BY <2>1, <2>2, <3>1 DEF Channel!Connect, LastReceived
      <3> QED
        BY <3>2 DEF ChannelStep, Channel!Next
    <2>3. CASE UNCHANGED <<assigned, position>>
      <3>1. Same
        BY <1>5, <2>1, <2>3 DEF AssignPartition, Passed
      <3> QED
        BY <1>a, <3>1
    <2> QED
      BY <1>5, <2>2, <2>3 DEF AssignPartition
  <1>6. CASE RevokePartition \/ ConsumeFails \/ Restart
    <2>1. UNCHANGED <<calls, retried, Passed, LastReceived>> /\ assigned' = FALSE
      BY <1>6 DEF RevokePartition, ConsumeFails, Restart, producerVars, Passed, LastReceived
    <2>2. CASE assigned
      <3>1. Channel!Disconnect
        BY <2>1, <2>2 DEF Channel!Disconnect, LastReceived
      <3> QED
        BY <3>1 DEF ChannelStep, Channel!Next
    <2>3. CASE ~ assigned
      BY <1>a, <2>1, <2>3 DEF KafkaInv, TypeOK
    <2> QED
      BY <2>2, <2>3
  <1>7. CASE InitConsumer \/ Subscribe \/ HandlePayload \/ AutoCommit \/ UNCHANGED kafkaVars
    <2>1. Same
      BY <1>7 DEF InitConsumer, Subscribe, HandlePayload, AutoCommit, kafkaVars, producerVars,
                  consumerVars, Passed, LastReceived
    <2> QED
      BY <1>a, <2>1
  <1> QED
    BY <1>1, <1>2, <1>3, <1>4, <1>5, <1>6, <1>7 DEF KafkaNext, Producer, ConsumerLoop

\* A topic is a channel that may lose messages, and repeat them after a rebalance or a
\* restart; from one place on, it brings late or twice only messages of which a request
\* failed: for any queue, any number of messages under way and any errors of librdkafka
\* (kafka_producer_worker::send, kafka_consumer_worker::consume).
THEOREM TopicIsAChannel ==
  ASSUME KafkaAssumption
  PROVE  KafkaSpec => ChannelSpec
  <1>1. KafkaInit => OrderInv /\ Channel!Init
    <2> SUFFICES ASSUME KafkaInit PROVE OrderInv /\ Channel!Init
      OBVIOUS
    <2>1. Len(log) = 0 /\ Len(outq) = 0
      BY EmptySeq DEF KafkaInit
    <2>2. 1 .. Len(log) = {} /\ 1 .. Len(outq) = {}
      BY <2>1
    <2>3. OrderInv
      BY <2>2 DEF KafkaInit, OrderInv, Increasing, Below
    <2>4. Passed = {}
      BY DEF KafkaInit, Passed
    <2> QED
      BY <2>3, <2>4 DEF KafkaInit, Channel!Init
  <1>2. KafkaInv /\ OrderInv /\ [KafkaNext]_kafkaVars => OrderInv'
    BY OrderStep
  <1>3. KafkaInv /\ KafkaInv' /\ OrderInv /\ [KafkaNext]_kafkaVars => ChannelStep
    BY TopicStepIsChannelStep
  <1> QED
    BY <1>1, <1>2, <1>3, KafkaInvariance, PTL DEF KafkaSpec, ChannelSpec

=============================================================================
