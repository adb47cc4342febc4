-------------------------- MODULE SensorDataSharing --------------------------
(***************************************************************************)
(* sensor_data_sharing_service: one thread consumes the detections of a    *)
(* sensor into a map, the newest of each object; another publishes what    *)
(* waits in the map as a sensor data sharing message (SDSM), at most once  *)
(* per period. Time is kept as ages: of each detection since its time      *)
(* stamp, and of the last SDSM. The threads are fast: time passes only     *)
(* when neither has something to do.                                       *)
(***************************************************************************)
EXTENDS Integers, SequencesExt, FiniteSetsExt

CONSTANTS
  Objects,      \* object ids
  Simulations,  \* values of simulation mode
  Period,       \* SDSM_PUBLISH_PERIOD_MS
  Fresh,        \* a detection of this age, 500 ms, is skipped
  CountMax,     \* greatest message count, 127
  Capacity,     \* bound: detections on their way
  MaxSends,     \* bound: detections sent
  None

SensorDataSharingAssumption ==
  /\ IsFiniteSet(Objects)
  /\ Simulations \subseteq BOOLEAN
  /\ Period \in Nat \ {0} /\ Fresh \in Nat \ {0} /\ CountMax \in Nat
  /\ Capacity \in Nat /\ MaxSends \in Nat

VARIABLES
  simulation,  \* is_simulation_mode
  topic,     \* detections sent, not yet consumed
  sent,      \* how many were sent
  ahead,     \* a detection that the consumer waits with, until its time comes
  waiting,   \* detected_objects: object -> detection
  since,     \* time since the last SDSM, at most Period
  pc,        \* producer: idle, holding until the period ends, sending, or process ended
  objects,   \* the objects that the producer has taken
  count,     \* _message_count
  drops,     \* metric: Detection Drop Count
  outcome    \* history: detections told, and detections left out of an SDSM

vars == <<simulation, topic, sent, ahead, waiting, since, pc, objects, count, drops, outcome>>

MaxAge == Fresh + Period

\* Detections: a bad one has a proj string that cannot be used, a broken one is
\* no JSON of a detection.
Detection == [object : Objects, age : -1..MaxAge, kind : {"good", "bad", "broken"}]

NoneAssumption == None \notin Detection

-----------------------------------------------------------------------------
\* A sensor sends a detection, a while after its time stamp, or with a clock
\* that is ahead.
Send ==
  /\ sent < MaxSends /\ Len(topic) < Capacity
  /\ \E d \in Detection :
       /\ d.age \in {-1, 0, Fresh - 1}
       /\ topic' = Append(topic, d)
  /\ sent' = sent + 1
  /\ UNCHANGED <<simulation, ahead, waiting, since, pc, objects, count, drops, outcome>>

Dropped == drops' = drops + 1

\* A detection replaces one of the same object that still waits.
Put(d) ==
  /\ waiting' = [waiting EXCEPT ![d.object] = d]
  /\ drops' = IF waiting[d.object] # None THEN drops + 1 ELSE drops

TooOld(d) == d.age >= Fresh

\* A detection of the past is put into the map; one of the future is waited for
\* in simulation and dropped otherwise.
Consume ==
  /\ pc # "ended" /\ ahead = None /\ topic # <<>>
  /\ topic' = Tail(topic)
  /\ LET d == Head(topic) IN
     \/ d.kind = "broken" /\ Dropped /\ UNCHANGED <<ahead, waiting>>
     \/ d.kind # "broken" /\ TooOld(d) /\ Dropped /\ UNCHANGED <<ahead, waiting>>
     \/ d.kind # "broken" /\ d.age < 0 /\ simulation
        /\ ahead' = d /\ UNCHANGED <<waiting, drops>>
     \/ d.kind # "broken" /\ d.age < 0 /\ ~simulation /\ Dropped /\ UNCHANGED <<ahead, waiting>>
     \/ d.kind # "broken" /\ ~TooOld(d) /\ d.age >= 0 /\ Put(d) /\ UNCHANGED ahead
  /\ UNCHANGED <<simulation, sent, since, pc, objects, count, outcome>>

\* The clock has come to the time of the detection that was waited for.
PutAhead ==
  /\ pc # "ended" /\ ahead # None
  /\ ahead.age >= 0
  /\ Put(ahead)
  /\ ahead' = None
  /\ UNCHANGED <<simulation, topic, sent, since, pc, objects, count, outcome>>

-----------------------------------------------------------------------------
Something == \E o \in Objects : waiting[o] # None

\* There is something to publish within the period: the lock is given back
\* until the period has ended.
Hold ==
  /\ pc = "idle" /\ Something /\ since < Period
  /\ pc' = "holding"
  /\ UNCHANGED <<simulation, topic, sent, ahead, waiting, since, objects, count, drops, outcome>>

MutantTake ==
  /\ Something
  /\ pc \in {"idle", "holding"}
  /\ objects' = waiting
  /\ waiting' = [o \in Objects |-> None]
  /\ since' = 0
  /\ pc' = "sending"
  /\ UNCHANGED <<simulation, topic, sent, ahead, count, drops, outcome>>

MutantTakeLater ==
  /\ Something /\ since = Period
  /\ pc = "idle"
  /\ objects' = waiting
  /\ waiting' = [o \in Objects |-> None]
  /\ since' = 0
  /\ pc' = "sending"
  /\ UNCHANGED <<simulation, topic, sent, ahead, count, drops, outcome>>

\* All that waits is taken in one step.
Take ==
  /\ Something /\ since = Period
  /\ pc \in {"idle", "holding"}
  /\ objects' = waiting
  /\ waiting' = [o \in Objects |-> None]
  /\ since' = 0
  /\ pc' = "sending"
  /\ UNCHANGED <<simulation, topic, sent, ahead, count, drops, outcome>>

\* create_sdsm: an object that cannot be transformed is left out.
Told == {o \in Objects : objects[o] # None /\ objects[o].kind = "good"}

NextCount == IF count < CountMax THEN count + 1 ELSE 0

SendSdsm ==
  /\ pc = "sending"
  /\ outcome' = [told |-> outcome.told + Cardinality(Told),
                 leftOut |-> outcome.leftOut
                             + Cardinality({o \in Objects : objects[o] # None} \ Told)]
  /\ objects' = [o \in Objects |-> None]
  /\ count' = NextCount
  /\ pc' = "idle"
  /\ UNCHANGED <<simulation, topic, sent, ahead, waiting, since, drops>>

\* The configuration has no proj string to give when create_sdsm asks for it:
\* nobody catches the exception, and what was taken ends with the process.
EndProcess ==
  /\ pc = "sending"
  /\ pc' = "ended"
  /\ UNCHANGED <<simulation, topic, sent, ahead, waiting, since, objects, count, drops, outcome>>

-----------------------------------------------------------------------------
Older(d) == IF d = None THEN None ELSE [d EXCEPT !.age = Min({@ + 1, MaxAge})]

Busy ==
  \/ pc = "sending"
  \/ Something /\ (pc = "idle" \/ since = Period)
  \/ ahead = None /\ topic # <<>> /\ Head(topic).age <= 0
  \/ ahead # None /\ ahead.age >= 0

Tick ==
  /\ pc # "ended" /\ ~Busy
  /\ topic' = [i \in DOMAIN topic |-> Older(topic[i])]
  /\ ahead' = Older(ahead)
  /\ waiting' = [o \in Objects |-> Older(waiting[o])]
  /\ since' = Min({since + 1, Period})
  /\ UNCHANGED <<simulation, sent, pc, objects, count, drops, outcome>>

Init ==
  /\ simulation \in Simulations
  /\ topic = <<>> /\ sent = 0 /\ ahead = None
  /\ waiting = [o \in Objects |-> None]
  /\ objects = [o \in Objects |-> None]
  /\ since = Period /\ pc = "idle" /\ count = 0 /\ drops = 0
  /\ outcome = [told |-> 0, leftOut |-> 0]

Next == Send \/ Consume \/ PutAhead \/ Hold \/ Take \/ SendSdsm \/ EndProcess \/ Tick

Spec == Init /\ [][Next]_vars

Fairness ==
  /\ WF_vars(Consume) /\ WF_vars(PutAhead)
  /\ WF_vars(Hold) /\ WF_vars(Take) /\ WF_vars(SendSdsm) /\ WF_vars(Tick)

FairSpec == Spec /\ Fairness

-----------------------------------------------------------------------------
\* Every variable has its type, and the producer has objects only from when it takes
\* them to when it has sent them.
TypeOK ==
  /\ simulation \in Simulations
  /\ topic \in Seq(Detection) /\ sent \in 0..MaxSends
  /\ ahead \in Detection \cup {None}
  /\ waiting \in [Objects -> Detection \cup {None}]
  /\ objects \in [Objects -> Detection \cup {None}]
  /\ since \in 0..Period /\ count \in 0..CountMax
  /\ pc \in {"idle", "holding", "sending", "ended"}
  /\ pc \notin {"sending", "ended"} => \A o \in Objects : objects[o] = None

Detections(f) == Cardinality({o \in Objects : f[o] # None})

\* No detection is lost without a trace: each one consumed is counted as
\* dropped, waits, was taken and is being sent (or was, when the process ended),
\* was told or was left out of an SDSM (produce_sdsms takes all in one locked
\* step, so that what comes in while it sends is kept for the next SDSM).
NoneLost ==
  sent - Len(topic) =
    drops + Detections(waiting) + Detections(objects) + outcome.told + outcome.leftOut
    + (IF ahead = None THEN 0 ELSE 1)

\* What is published is younger than the limit of the consumer and one period:
\* within the 1500 ms that _time_measurement_offset may say.
PublishedFresh ==
  \A o \in Objects : objects[o] # None => objects[o].age \in 0..(Fresh - 1 + Period)

\* SDSMs are at least a period apart.
PeriodIsOver == pc # "sending" /\ pc' = "sending" => since = Period

\* What is promised of the messages, at every moment and of every step.
PublishesInTime == [](TypeOK /\ NoneLost /\ PublishedFresh) /\ [][PeriodIsOver]_vars

\* What waits is taken in the end, though newer detections replace it and the
\* clock may have to pass a period first, unless the process ends.
EverythingIsTaken ==
  \A o \in Objects : waiting[o] # None ~> waiting[o] = None \/ pc = "ended"

=============================================================================
