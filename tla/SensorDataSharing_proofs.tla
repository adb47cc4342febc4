---------------------- MODULE SensorDataSharing_proofs ----------------------
(***************************************************************************)
(* The two threads of sensor_data_sharing_service, for any objects, any    *)
(* period and any number of detections: none is lost without a trace, what *)
(* is published is younger than the limit of the consumer and one period,  *)
(* and no two messages are less than a period apart.                       *)
(***************************************************************************)
EXTENDS SensorDataSharing, SequenceTheorems, FiniteSetTheorems, TLAPS

Assumptions == SensorDataSharingAssumption /\ NoneAssumption

\* Only detections of the past, and not too old ones, come into the map, where they
\* grow old only as long as the period lasts.
AgesInv ==
  /\ ahead # None => ahead.age \in {-1, 0}
  /\ \A o \in Objects : waiting[o] # None => waiting[o].age \in 0 .. Fresh - 1 + since

CountersOK ==
  /\ drops \in Nat
  /\ outcome \in [told : Nat, leftOut : Nat]

SharingInv == TypeOK /\ AgesInv /\ CountersOK

-----------------------------------------------------------------------------
(***************************************************************************)
(* Operators.                                                              *)
(***************************************************************************)

\* The smaller of two integers.
LEMMA MinOfTwo ==
  ASSUME NEW a \in Int, NEW b \in Int
  PROVE  Min({a, b}) = IF a <= b THEN a ELSE b
  BY DEF Min

\* A detection grows older by one, and stays a detection.
LEMMA OlderProperties ==
  ASSUME Assumptions, NEW d \in Detection \cup {None}
  PROVE  /\ Older(d) \in Detection \cup {None}
         /\ Older(d) = None <=> d = None
         /\ d # None => Older(d).age = IF d.age < MaxAge THEN d.age + 1 ELSE d.age
  <1>1. CASE d = None
    BY <1>1 DEF Older
  <1>2. CASE d \in Detection
    <2>1. d # None
      BY <1>2 DEF Assumptions, NoneAssumption
    <2>2. d.age \in -1 .. MaxAge /\ MaxAge \in Nat /\ d.age \in Int
      BY <1>2 DEF Detection, MaxAge, Assumptions, SensorDataSharingAssumption
    <2>3. Min({d.age + 1, MaxAge}) = IF d.age < MaxAge THEN d.age + 1 ELSE d.age
      BY <2>2, MinOfTwo
    <2>4. Older(d) = [d EXCEPT !.age = Min({d.age + 1, MaxAge})]
      BY <2>1 DEF Older
    <2>5. Min({d.age + 1, MaxAge}) \in -1 .. MaxAge
      BY <2>2, <2>3
    <2>6. Older(d) \in Detection /\ Older(d).age = Min({d.age + 1, MaxAge})
      BY <1>2, <2>4, <2>5 DEF Detection
    <2> QED
      BY <2>1, <2>3, <2>6 DEF Assumptions, NoneAssumption
  <1> QED
    BY <1>1, <1>2

\* How many detections a map holds.
LEMMA DetectionsType ==
  ASSUME Assumptions, NEW f
  PROVE  /\ IsFiniteSet({o \in Objects : f[o] # None})
         /\ Detections(f) \in Nat
  <1>1. IsFiniteSet({o \in Objects : f[o] # None})
    BY FS_Subset DEF Assumptions, SensorDataSharingAssumption
  <1> QED
    BY <1>1, FS_CardinalityType DEF Detections

LEMMA NoDetections ==
  ASSUME NEW f, \A o \in Objects : f[o] = None
  PROVE  Detections(f) = 0
  <1>1. {o \in Objects : f[o] # None} = {}
    OBVIOUS
  <1> QED
    BY <1>1, FS_EmptySet DEF Detections

\* Putting a detection into the map adds one, or replaces one, which is counted.
LEMMA PutCounts ==
  ASSUME Assumptions, SharingInv, NEW d \in Detection, Put(d)
  PROVE  /\ waiting' \in [Objects -> Detection \cup {None}]
         /\ drops' \in Nat
         /\ drops' + Detections(waiting') = drops + Detections(waiting) + 1
  <1> DEFINE Before == {o \in Objects : waiting[o] # None}
             After == {o \in Objects : waiting'[o] # None}
  <1>1. /\ d.object \in Objects /\ d # None
        /\ waiting \in [Objects -> Detection \cup {None}]
        /\ waiting' = [waiting EXCEPT ![d.object] = d]
        /\ drops' = IF waiting[d.object] # None THEN drops + 1 ELSE drops
        /\ drops \in Nat
    BY DEF Put, SharingInv, TypeOK, CountersOK, Detection, Assumptions, NoneAssumption
  <1>2. After = Before \cup {d.object}
    BY <1>1
  <1>3. IsFiniteSet(Before) /\ Cardinality(Before) \in Nat
    BY DetectionsType DEF Detections
  <1>4. Cardinality(After) = IF d.object \in Before THEN Cardinality(Before)
                                                    ELSE Cardinality(Before) + 1
    BY <1>2, <1>3, FS_AddElement
  <1>5. d.object \in Before <=> waiting[d.object] # None
    BY <1>1
  <1>6. Detections(waiting) = Cardinality(Before) /\ Detections(waiting') = Cardinality(After)
    BY DEF Detections
  <1> HIDE DEF Before, After
  <1>7. waiting' \in [Objects -> Detection \cup {None}]
    BY <1>1
  <1> QED
    BY <1>1, <1>3, <1>4, <1>5, <1>6, <1>7

\* The told ones and those left out of a message are all that was taken.
LEMMA ToldAndLeftOut ==
  ASSUME Assumptions
  PROVE  /\ Cardinality(Told) \in Nat
         /\ Cardinality({o \in Objects : objects[o] # None} \ Told) \in Nat
         /\ Cardinality(Told) + Cardinality({o \in Objects : objects[o] # None} \ Told)
              = Detections(objects)
  <1> DEFINE All == {o \in Objects : objects[o] # None}
  <1>1. IsFiniteSet(All)
    BY DetectionsType
  <1>2. Told \subseteq All
    BY DEF Told
  <1>3. IsFiniteSet(Told) /\ IsFiniteSet(All \ Told)
    BY <1>1, <1>2, FS_Subset
  <1>4. Told \cap (All \ Told) = {} /\ Told \cup (All \ Told) = All
    BY <1>2
  <1>5. Cardinality(All) = Cardinality(Told) + Cardinality(All \ Told)
                             - Cardinality(Told \cap (All \ Told))
    BY <1>3, <1>4, FS_Union
  <1>6. Cardinality(Told) \in Nat /\ Cardinality(All \ Told) \in Nat
    BY <1>3, FS_CardinalityType
  <1>7. Detections(objects) = Cardinality(All)
    BY DEF Detections
  <1>8. Cardinality(Told \cap (All \ Told)) = 0
    BY <1>4, FS_EmptySet
  <1> HIDE DEF All
  <1>9. Cardinality(Told) + Cardinality(All \ Told) = Detections(objects)
    BY <1>5, <1>6, <1>7, <1>8
  <1> QED
    BY <1>6, <1>9 DEF All

-----------------------------------------------------------------------------
(***************************************************************************)
(* The invariant.                                                          *)
(***************************************************************************)

LEMMA ConsumerStep ==
  ASSUME Assumptions, SharingInv, Send \/ Consume \/ PutAhead
  PROVE  SharingInv'
  <1>0. /\ topic \in Seq(Detection) /\ sent \in 0 .. MaxSends /\ MaxSends \in Nat
        /\ ahead \in Detection \cup {None}
        /\ since \in Nat /\ Fresh \in Nat \ {0} /\ drops \in Nat
        /\ None \notin Detection
        /\ waiting \in [Objects -> Detection \cup {None}]
    BY DEF SharingInv, TypeOK, CountersOK, Assumptions, SensorDataSharingAssumption,
           NoneAssumption
  <1>1. UNCHANGED <<simulation, since, pc, objects, count, outcome>>
    BY DEF Send, Consume, PutAhead
  <1>2. ASSUME NEW d \in Detection, Put(d), d.age \in 0 .. Fresh - 1
        PROVE  /\ waiting' \in [Objects -> Detection \cup {None}] /\ drops' \in Nat
               /\ \A o \in Objects : waiting'[o] # None => waiting'[o].age \in 0 .. Fresh - 1 + since
    <2>1. waiting' \in [Objects -> Detection \cup {None}] /\ drops' \in Nat
      BY <1>2, PutCounts
    <2>2. waiting' = [waiting EXCEPT ![d.object] = d]
      BY <1>2 DEF Put
    <2>3. d.age \in 0 .. Fresh - 1 + since
      BY <1>0, <1>2
    <2>4. ASSUME NEW o \in Objects, waiting'[o] # None
          PROVE  waiting'[o].age \in 0 .. Fresh - 1 + since
      <3>1. CASE o = d.object
        BY <1>0, <2>2, <2>3, <3>1
      <3>2. CASE o # d.object
        <4>1. waiting'[o] = waiting[o]
          BY <1>0, <2>2, <3>2
        <4> QED
          BY <2>4, <4>1 DEF SharingInv, AgesInv
      <3> QED
        BY <3>1, <3>2
    <2> QED
      BY <2>1, <2>4
  <1>3. CASE Send
    <2>1. PICK d \in Detection : topic' = Append(topic, d)
      BY <1>3 DEF Send
    <2>2. topic' \in Seq(Detection)
      BY <1>0, <2>1, AppendProperties
    <2>3. sent' \in 0 .. MaxSends /\ UNCHANGED <<ahead, waiting, drops>>
      BY <1>0, <1>3 DEF Send
    <2> QED
      BY <1>1, <2>2, <2>3 DEF SharingInv, TypeOK, AgesInv, CountersOK
  <1>4. CASE Consume
    <2> DEFINE d == Head(topic)
    <2>1. d \in Detection /\ topic' \in Seq(Detection) /\ UNCHANGED sent
      BY <1>0, <1>4, HeadTailProperties DEF Consume
    <2>2. d.age \in Int /\ d.age >= -1
      BY <2>1, <1>0 DEF Detection, MaxAge, Assumptions, SensorDataSharingAssumption
    <2>3. ahead = None
      BY <1>4 DEF Consume
    <2>4. \/ drops' = drops + 1 /\ UNCHANGED <<ahead, waiting>>
          \/ d.age < 0 /\ ahead' = d /\ UNCHANGED <<waiting, drops>>
          \/ ~ TooOld(d) /\ d.age >= 0 /\ Put(d) /\ UNCHANGED ahead
      BY <1>4 DEF Consume, Dropped
    <2> HIDE DEF d
    <2>5. CASE drops' = drops + 1 /\ UNCHANGED <<ahead, waiting>>
      BY <1>0, <1>1, <2>1, <2>5 DEF SharingInv, TypeOK, AgesInv, CountersOK
    <2>6. CASE d.age < 0 /\ ahead' = d /\ UNCHANGED <<waiting, drops>>
      <3>1. ahead' \in Detection /\ ahead'.age \in {-1, 0}
        BY <2>1, <2>2, <2>6
      <3> QED
        BY <1>1, <2>1, <2>6, <3>1 DEF SharingInv, TypeOK, AgesInv, CountersOK
    <2>7. CASE ~ TooOld(d) /\ d.age >= 0 /\ Put(d) /\ UNCHANGED ahead
      <3>1. d.age \in 0 .. Fresh - 1
        BY <1>0, <2>2, <2>7 DEF TooOld
      <3> QED
        BY <1>1, <1>2, <2>1, <2>7, <3>1 DEF SharingInv, TypeOK, AgesInv, CountersOK
    <2> QED
      BY <2>4, <2>5, <2>6, <2>7
  <1>5. CASE PutAhead
    <2>1. ahead \in Detection /\ ahead.age = 0 /\ Put(ahead)
      BY <1>0, <1>5 DEF PutAhead, SharingInv, AgesInv
    <2>2. ahead.age \in 0 .. Fresh - 1
      BY <1>0, <2>1
    <2>3. ahead' = None /\ UNCHANGED <<topic, sent>>
      BY <1>5 DEF PutAhead
    <2> QED
      BY <1>1, <1>2, <2>1, <2>2, <2>3 DEF SharingInv, TypeOK, AgesInv, CountersOK
  <1> QED
    BY <1>3, <1>4, <1>5

LEMMA ProducerStep ==
  ASSUME Assumptions, SharingInv, Hold \/ Take \/ SendSdsm \/ EndProcess
  PROVE  SharingInv'
  <1>0. /\ Period \in Nat \ {0} /\ CountMax \in Nat /\ count \in 0 .. CountMax
    BY DEF SharingInv, TypeOK, Assumptions, SensorDataSharingAssumption
  <1>1. UNCHANGED <<simulation, topic, sent, ahead, drops>>
    BY DEF Hold, Take, SendSdsm, EndProcess
  <1>2. CASE Hold
    BY <1>1, <1>2 DEF Hold, SharingInv, TypeOK, AgesInv, CountersOK
  <1>3. CASE Take
    BY <1>0, <1>1, <1>3 DEF Take, SharingInv, TypeOK, AgesInv, CountersOK
  <1>4. CASE SendSdsm
    <2>1. outcome' \in [told : Nat, leftOut : Nat]
      BY <1>4, ToldAndLeftOut DEF SendSdsm, SharingInv, CountersOK
    <2>2. count' \in 0 .. CountMax
      BY <1>0, <1>4 DEF SendSdsm, NextCount
    <2> QED
      BY <1>1, <1>4, <2>1, <2>2 DEF SendSdsm, SharingInv, TypeOK, AgesInv, CountersOK
  <1>5. CASE EndProcess
    BY <1>1, <1>5 DEF EndProcess, SharingInv, TypeOK, AgesInv, CountersOK
  <1> QED
    BY <1>2, <1>3, <1>4, <1>5

LEMMA TickStep ==
  ASSUME Assumptions, SharingInv, Tick
  PROVE  SharingInv'
  <1>0. /\ Period \in Nat \ {0} /\ since \in 0 .. Period /\ Fresh \in Nat \ {0}
        /\ MaxAge = Fresh + Period
        /\ topic \in Seq(Detection) /\ ahead \in Detection \cup {None}
        /\ waiting \in [Objects -> Detection \cup {None}]
    BY DEF SharingInv, TypeOK, MaxAge, Assumptions, SensorDataSharingAssumption
  <1>1. UNCHANGED <<simulation, sent, pc, objects, count, drops, outcome>>
    BY DEF Tick
  <1>2. topic' \in Seq(Detection)
    <2>1. Len(topic) \in Nat /\ DOMAIN topic = 1 .. Len(topic)
      BY <1>0, LenProperties
    <2>2. \A i \in 1 .. Len(topic) : topic[i] \in Detection
      BY <1>0, ElementOfSeq
    <2>3. \A i \in 1 .. Len(topic) : Older(topic[i]) \in Detection
      BY <2>2, OlderProperties DEF Assumptions, NoneAssumption
    <2>4. topic' = [i \in 1 .. Len(topic) |-> Older(topic[i])]
      BY <2>1 DEF Tick
    <2>5. topic' \in [1 .. Len(topic) -> Detection]
      BY <2>3, <2>4
    <2> QED
      BY <2>1, <2>5, SeqDef
  <1>3. ahead' \in Detection \cup {None} /\ (ahead' # None => ahead'.age \in {-1, 0})
    <2>1. ahead' = Older(ahead)
      BY DEF Tick
    <2>2. ahead # None => ahead.age = -1
      BY DEF Tick, Busy, SharingInv, AgesInv
    <2> QED
      BY <1>0, <2>1, <2>2, OlderProperties
  <1>4. since' = IF since < Period THEN since + 1 ELSE Period
    <2>1. since' = Min({since + 1, Period})
      BY DEF Tick
    <2> QED
      BY <1>0, <2>1, MinOfTwo
  <1>5. since' \in 0 .. Period
    BY <1>0, <1>4
  <1>6. ASSUME NEW o \in Objects
        PROVE  /\ waiting'[o] \in Detection \cup {None}
               /\ waiting'[o] # None => waiting'[o].age \in 0 .. Fresh - 1 + since'
    <2>1. waiting'[o] = Older(waiting[o]) /\ waiting[o] \in Detection \cup {None}
      BY <1>0 DEF Tick
    <2>2. /\ waiting'[o] \in Detection \cup {None}
          /\ waiting'[o] = None <=> waiting[o] = None
          /\ waiting[o] # None =>
               waiting'[o].age = IF waiting[o].age < MaxAge THEN waiting[o].age + 1
                                                            ELSE waiting[o].age
      BY <2>1, OlderProperties
    <2>3. CASE waiting[o] # None
      <3>1. waiting[o].age \in 0 .. Fresh - 1 + since
        BY <2>3 DEF SharingInv, AgesInv
      <3>2. since # Period
        BY <2>3 DEF Tick, Busy, Something
      <3>3. since' = since + 1
        BY <1>0, <1>4, <3>2
      <3>4. waiting'[o].age \in 0 .. Fresh - 1 + since'
        BY <1>0, <2>2, <2>3, <3>1, <3>3
      <3> QED
        BY <2>2, <3>4
    <2> QED
      BY <2>2, <2>3
  <1>7. waiting' \in [Objects -> Detection \cup {None}]
    BY <1>6 DEF Tick
  <1> QED
    BY <1>1, <1>2, <1>3, <1>5, <1>6, <1>7 DEF SharingInv, TypeOK, AgesInv, CountersOK

\* The service keeps its types, and what waits in the map grows no older than the limit
\* of the consumer and the time since the last message.
THEOREM SharingInvariance == ASSUME Assumptions PROVE Spec => []SharingInv
  <1>1. Init => SharingInv
    <2> SUFFICES ASSUME Init PROVE SharingInv
      OBVIOUS
    <2>1. topic \in Seq(Detection) /\ sent \in 0 .. MaxSends /\ count \in 0 .. CountMax
      BY EmptySeq DEF Init, Assumptions, SensorDataSharingAssumption
    <2>2. since \in 0 .. Period
      BY DEF Init, Assumptions, SensorDataSharingAssumption
    <2>3. TypeOK
      BY <2>1, <2>2 DEF Init, TypeOK
    <2> QED
      BY <2>3 DEF Init, SharingInv, AgesInv, CountersOK
  <1>2. SharingInv /\ [Next]_vars => SharingInv'
    <2>1. SharingInv /\ UNCHANGED vars => SharingInv'
      BY DEF vars, SharingInv, TypeOK, AgesInv, CountersOK
    <2> QED
      BY <2>1, ConsumerStep, ProducerStep, TickStep DEF Next
  <1> QED
    BY <1>1, <1>2, PTL DEF Spec

-----------------------------------------------------------------------------
(***************************************************************************)
(* What the service promises.                                              *)
(***************************************************************************)

LEMMA NoneLostStep ==
  ASSUME Assumptions, SharingInv, NoneLost, [Next]_vars
  PROVE  NoneLost'
  <1> DEFINE Ahead == IF ahead = None THEN 0 ELSE 1
             Waits == Detections(waiting)
             Taken == Detections(objects)
             Past == outcome.told + outcome.leftOut
             Seen == drops + Waits
             Gone == Taken + Past
  <1>0. /\ Len(topic) \in Nat /\ sent \in Nat /\ drops \in Nat
        /\ outcome.told \in Nat /\ outcome.leftOut \in Nat
        /\ Waits \in Nat /\ Taken \in Nat /\ Past \in Nat /\ Ahead \in Nat
    <2>1. topic \in Seq(Detection) /\ Len(topic) \in Nat
      BY LenProperties DEF SharingInv, TypeOK
    <2>2. sent \in Nat /\ drops \in Nat /\ outcome.told \in Nat /\ outcome.leftOut \in Nat
      BY DEF SharingInv, TypeOK, CountersOK, Assumptions, SensorDataSharingAssumption
    <2>3. Waits \in Nat /\ Taken \in Nat
      BY DetectionsType
    <2> QED
      BY <2>1, <2>2, <2>3
  <1>c. /\ topic \in Seq(Detection) /\ None \notin Detection
        /\ ahead \in Detection \cup {None}
    BY DEF SharingInv, TypeOK, Assumptions, NoneAssumption
  <1>a. sent - Len(topic) = Seen + Gone + Ahead /\ Seen \in Nat /\ Gone \in Nat
    <2>1. sent - Len(topic) = drops + Waits + Taken + outcome.told + outcome.leftOut + Ahead
      BY DEF NoneLost
    <2> DEFINE told == outcome.told
               leftOut == outcome.leftOut
    <2>2. told \in Nat /\ leftOut \in Nat /\ Past = told + leftOut
      BY <1>0
    <2>3. sent - Len(topic) = drops + Waits + Taken + told + leftOut + Ahead
      BY <2>1
    <2> HIDE DEF told, leftOut, Waits, Taken, Past, Ahead
    <2>4. Gone = Taken + told + leftOut /\ Seen \in Nat /\ Gone \in Nat
      BY <1>0, <2>2
    <2>5. Seen + Gone = drops + Waits + Taken + told + leftOut
      BY <1>0, <2>2, <2>4
    <2> QED
      BY <2>3, <2>4, <2>5
  <1>b. ASSUME /\ sent' \in Int /\ Len(topic') \in Int /\ drops' \in Int /\ Waits' \in Int
               /\ Taken' \in Int /\ outcome'.told \in Int /\ outcome'.leftOut \in Int
               /\ sent' - Len(topic') = Seen' + Gone' + Ahead'
        PROVE  NoneLost'
    <2> DEFINE told == outcome'.told
               leftOut == outcome'.leftOut
    <2>1. /\ Seen' = drops' + Waits' /\ Gone' = Taken' + (told + leftOut)
      OBVIOUS
    <2>2. NoneLost' <=> sent' - Len(topic') = drops' + Waits' + Taken' + told + leftOut + Ahead'
      BY DEF NoneLost
    <2>3. drops' \in Int /\ Waits' \in Int /\ Taken' \in Int /\ told \in Int /\ leftOut \in Int
      BY <1>b
    <2> HIDE DEF told, leftOut, Waits, Taken, Ahead, Seen, Gone
    <2>4. (drops' + Waits') + (Taken' + (told + leftOut))
            = drops' + Waits' + Taken' + told + leftOut
      BY <2>3
    <2>5. Seen' + Gone' = drops' + Waits' + Taken' + told + leftOut
      BY <2>1, <2>4
    <2> QED
      BY <1>b, <2>2, <2>5
  <1>1. CASE Send
    <2>1. PICK d \in Detection : topic' = Append(topic, d)
      BY <1>1 DEF Send
    <2>2. Len(topic') = Len(topic) + 1
      BY <1>c, <2>1, AppendProperties
    <2>3. /\ Waits' = Waits /\ Taken' = Taken /\ Gone' = Gone /\ Ahead' = Ahead
          /\ Seen' = Seen /\ sent' = sent + 1 /\ UNCHANGED <<drops, outcome>>
      BY <1>1 DEF Send
    <2> HIDE DEF Waits, Taken, Past, Ahead, Seen, Gone
    <2>4. sent' - Len(topic') = Seen' + Gone' + Ahead'
      BY <1>0, <1>a, <2>2, <2>3
    <2> QED
      BY <1>0, <1>b, <2>2, <2>3, <2>4
  <1>2. CASE Consume
    <2> DEFINE d == Head(topic)
    <2>1. d \in Detection /\ Len(topic') = Len(topic) - 1 /\ ahead = None
      BY <1>c, <1>2, HeadTailProperties DEF Consume
    <2>2. \/ drops' = drops + 1 /\ UNCHANGED <<ahead, waiting>>
          \/ ahead' = d /\ UNCHANGED <<waiting, drops>>
          \/ Put(d) /\ UNCHANGED ahead
      BY <1>2 DEF Consume, Dropped
    <2>3. UNCHANGED <<sent, objects, outcome>>
      BY <1>2 DEF Consume
    <2> HIDE DEF d
    <2>0. Len(topic') = Len(topic) - 1
      BY <2>1
    <2>5. CASE drops' = drops + 1 /\ UNCHANGED <<ahead, waiting>>
      <3>1. /\ Waits' = Waits /\ Taken' = Taken /\ Gone' = Gone /\ Ahead' = Ahead
            /\ Seen' = Seen + 1
        BY <1>0, <2>3, <2>5
      <3> HIDE DEF Waits, Taken, Past, Ahead, Seen, Gone
      <3> QED
        BY <1>0, <1>a, <1>b, <2>0, <2>3, <2>5, <3>1
    <2>6. CASE ahead' = d /\ UNCHANGED <<waiting, drops>>
      <3>1. /\ Waits' = Waits /\ Taken' = Taken /\ Gone' = Gone /\ Seen' = Seen
            /\ Ahead = 0 /\ Ahead' = 1
        BY <1>c, <2>1, <2>3, <2>6
      <3> HIDE DEF Waits, Taken, Past, Ahead, Seen, Gone
      <3> QED
        BY <1>0, <1>a, <1>b, <2>0, <2>3, <2>6, <3>1
    <2>7. CASE Put(d) /\ UNCHANGED ahead
      <3>1. drops' + Waits' = drops + Waits + 1 /\ drops' \in Nat /\ Waits' \in Nat
        BY <2>1, <2>7, PutCounts, DetectionsType
      <3>2. Taken' = Taken /\ Past' = Past /\ Ahead' = Ahead
        BY <2>3, <2>7
      <3>3. Seen' = Seen + 1 /\ Gone' = Gone
        BY <3>1, <3>2
      <3> HIDE DEF Waits, Taken, Past, Ahead, Seen, Gone
      <3>4. sent' - Len(topic') = Seen' + Gone' + Ahead'
        BY <1>0, <1>a, <2>0, <2>3, <3>2, <3>3
      <3> QED
        BY <1>0, <1>b, <2>0, <2>3, <3>1, <3>2, <3>4
    <2> QED
      BY <2>2, <2>5, <2>6, <2>7
  <1>3. CASE PutAhead
    <2>1. /\ ahead \in Detection /\ Put(ahead) /\ ahead # None /\ ahead' = None
          /\ UNCHANGED <<topic, sent, objects, outcome>>
      BY <1>c, <1>3 DEF PutAhead
    <2>2. drops' + Waits' = drops + Waits + 1 /\ drops' \in Nat /\ Waits' \in Nat
      BY <2>1, PutCounts, DetectionsType
    <2>3. /\ Taken' = Taken /\ Past' = Past /\ Ahead = 1 /\ Ahead' = 0
          /\ sent' = sent /\ Len(topic') = Len(topic) /\ outcome' = outcome
      BY <2>1
    <2>4. Seen' = Seen + 1 /\ Gone' = Gone
      BY <2>2, <2>3
    <2> HIDE DEF Waits, Taken, Past, Ahead, Seen, Gone
    <2>5. sent' - Len(topic') = Seen' + Gone' + Ahead'
      BY <1>0, <1>a, <2>3, <2>4
    <2> QED
      BY <1>0, <1>b, <2>2, <2>3, <2>5
  <1>4. CASE Hold
    BY <1>4 DEF Hold, NoneLost, Detections
  <1>5. CASE Take
    <2>1. /\ objects' = waiting /\ UNCHANGED <<topic, sent, ahead, drops, outcome>>
          /\ \A o \in Objects : waiting'[o] = None /\ objects[o] = None
      BY <1>5 DEF Take, SharingInv, TypeOK
    <2>2. Taken = 0 /\ Waits' = 0
      BY <2>1, NoDetections
    <2>3. /\ Taken' = Waits /\ Past' = Past /\ Ahead' = Ahead /\ drops' = drops
          /\ sent' = sent /\ Len(topic') = Len(topic) /\ outcome' = outcome
      BY <2>1
    <2>4. Seen' + Gone' = Seen + Gone /\ Seen' \in Nat /\ Gone' \in Nat
      BY <1>0, <2>2, <2>3
    <2> HIDE DEF Waits, Taken, Past, Ahead, Seen, Gone
    <2>5. sent' - Len(topic') = Seen' + Gone' + Ahead'
      BY <1>0, <1>a, <2>3, <2>4
    <2> QED
      BY <1>0, <1>b, <2>2, <2>3, <2>5
  <1>6. CASE SendSdsm
    <2> DEFINE told == Cardinality(Told)
               leftOut == Cardinality({o \in Objects : objects[o] # None} \ Told)
    <2>1. /\ outcome' = [told |-> outcome.told + told, leftOut |-> outcome.leftOut + leftOut]
          /\ UNCHANGED <<topic, sent, ahead, waiting, drops>>
          /\ \A o \in Objects : objects'[o] = None
      BY <1>6 DEF SendSdsm
    <2>2. told \in Nat /\ leftOut \in Nat /\ told + leftOut = Detections(objects)
      BY ToldAndLeftOut
    <2> HIDE DEF told, leftOut
    <2>3. /\ Taken' = 0 /\ Waits' = Waits /\ Seen' = Seen /\ Ahead' = Ahead
          /\ sent' = sent /\ Len(topic') = Len(topic) /\ drops' = drops
      BY <2>1, NoDetections
    <2>4. outcome'.told = outcome.told + told /\ outcome'.leftOut = outcome.leftOut + leftOut
      BY <2>1
    <2>5. /\ outcome'.told \in Nat /\ outcome'.leftOut \in Nat
          /\ outcome'.told + outcome'.leftOut = Past + Taken
      <3> DEFINE told0 == outcome.told
                 leftOut0 == outcome.leftOut
      <3>1. told0 \in Nat /\ leftOut0 \in Nat /\ Past = told0 + leftOut0
        BY <1>0
      <3>2. outcome'.told = told0 + told /\ outcome'.leftOut = leftOut0 + leftOut
        BY <2>4
      <3> HIDE DEF told0, leftOut0, Past, Taken
      <3>3. told + leftOut = Taken
        BY <2>2 DEF Taken
      <3> QED
        BY <2>2, <3>1, <3>2, <3>3
    <2>6. Gone' = Gone
      BY <1>0, <2>3, <2>5
    <2> HIDE DEF Waits, Taken, Past, Ahead, Seen, Gone
    <2> QED
      BY <1>0, <1>a, <1>b, <2>3, <2>5, <2>6
  <1>7. CASE Tick
    <2>1. Len(topic') = Len(topic)
      <3>1. topic' = [i \in 1 .. Len(topic) |-> Older(topic[i])]
        BY <1>c, <1>7, LenProperties DEF Tick
      <3>2. SharingInv'
        BY <1>7, TickStep
      <3>3. topic' \in Seq(Detection)
        BY <3>2 DEF SharingInv, TypeOK
      <3> QED
        BY <1>c, <3>1, <3>3, LenProperties
    <2>2. ahead' = None <=> ahead = None
      BY <1>c, <1>7, OlderProperties DEF Tick
    <2>3. \A o \in Objects : waiting'[o] # None <=> waiting[o] # None
      <3> SUFFICES ASSUME NEW o \in Objects PROVE waiting'[o] # None <=> waiting[o] # None
        OBVIOUS
      <3>1. waiting'[o] = Older(waiting[o]) /\ waiting[o] \in Detection \cup {None}
        BY <1>7 DEF Tick, SharingInv, TypeOK
      <3> QED
        BY <3>1, OlderProperties
    <2>4. Waits' = Waits
      BY <2>3 DEF Detections
    <2>5. UNCHANGED <<sent, objects, drops, outcome>>
      BY <1>7 DEF Tick
    <2>6. /\ Taken' = Taken /\ Past' = Past /\ Ahead' = Ahead
          /\ Seen' = Seen /\ Gone' = Gone
      BY <2>2, <2>4, <2>5
    <2> HIDE DEF Waits, Taken, Past, Ahead, Seen, Gone
    <2> QED
      BY <1>0, <1>a, <1>b, <2>1, <2>4, <2>5, <2>6
  <1>8. CASE UNCHANGED vars
    BY <1>8 DEF vars, NoneLost, Detections
  <1>9. CASE EndProcess
    BY <1>9 DEF EndProcess, NoneLost, Detections
  <1> QED
    BY <1>1, <1>2, <1>3, <1>4, <1>5, <1>6, <1>7, <1>8, <1>9 DEF Next

\* No detection is lost without a trace, however many threads' steps lie between taking
\* the map and sending its message.
THEOREM NoneIsLost == ASSUME Assumptions PROVE Spec => []NoneLost
  <1>1. Init => NoneLost
    <2> SUFFICES ASSUME Init PROVE NoneLost
      OBVIOUS
    <2>1. Detections(waiting) = 0 /\ Detections(objects) = 0
      BY NoDetections DEF Init
    <2>2. Len(topic) = 0
      BY EmptySeq DEF Init
    <2>3. /\ sent = 0 /\ drops = 0 /\ ahead = None
          /\ outcome.told = 0 /\ outcome.leftOut = 0
      BY DEF Init
    <2> QED
      BY <2>1, <2>2, <2>3 DEF NoneLost
  <1>2. SharingInv /\ NoneLost /\ [Next]_vars => NoneLost'
    BY NoneLostStep
  <1> QED
    BY <1>1, <1>2, SharingInvariance, PTL DEF Spec

\* What is published is younger than the limit of the consumer and one period.
THEOREM OnlyFreshIsPublished == ASSUME Assumptions PROVE Spec => []PublishedFresh
  <1>1. Init => PublishedFresh
    BY DEF Init, PublishedFresh
  <1>2. SharingInv /\ PublishedFresh /\ [Next]_vars => PublishedFresh'
    <2> SUFFICES ASSUME SharingInv, PublishedFresh, [Next]_vars PROVE PublishedFresh'
      OBVIOUS
    <2>1. CASE Take
      BY <2>1 DEF Take, SharingInv, AgesInv, PublishedFresh
    <2>2. CASE SendSdsm
      BY <2>2 DEF SendSdsm, PublishedFresh
    <2>3. CASE UNCHANGED objects
      BY <2>3 DEF PublishedFresh
    <2> QED
      BY <2>1, <2>2, <2>3 DEF Next, Send, Consume, PutAhead, Hold, EndProcess, Tick, vars
  <1> QED
    BY <1>1, <1>2, SharingInvariance, PTL DEF Spec

\* No message is begun before the period since the last one is over.
LEMMA MessagesAreAPeriodApart == Spec => [][PeriodIsOver]_vars
  <1>1. [Next]_vars => [PeriodIsOver]_vars
    BY DEF Next, Send, Consume, PutAhead, Hold, Take, SendSdsm, EndProcess, Tick,
              PeriodIsOver
  <1> QED
    BY <1>1, PTL DEF Spec

\* SDSMs are published in time (PublishesInTime): no detection is lost without a trace,
\* none published is older than the limit of the consumer and one period, and messages
\* are a period apart.
THEOREM PublishedInTime == ASSUME Assumptions PROVE Spec => PublishesInTime
  <1>1. SharingInv => TypeOK
    BY DEF SharingInv
  <1> QED
    BY <1>1, SharingInvariance, NoneIsLost, OnlyFreshIsPublished, MessagesAreAPeriodApart, PTL
       DEF PublishesInTime

=============================================================================
