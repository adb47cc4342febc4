--------------------------- MODULE AllStopRound ---------------------------
(***************************************************************************)
(* A round of the scheduler, in every situation of up to three vehicles    *)
(* and with granted as any earlier rounds may have left it. a and b come   *)
(* from two lanes and conflict, c follows b in its lane and turns where it *)
(* meets nobody.                                                           *)
(***************************************************************************)
EXTENDS AllStopScheduler, TLC

CONSTANTS a, b, c, A, B, LinkA, LinkB, LinkC

VARIABLES
  situation,  \* the vehicles of the round, in the order of the map
  before,     \* granted before the round
  done        \* the round was made

mcVars == <<granted, schedule, situation, before, done>>

Now == 10

Home == (a :> [entry |-> A, link |-> LinkA]) @@ (b :> [entry |-> B, link |-> LinkB])
        @@ (c :> [entry |-> B, link |-> LinkC])

Clearances == (a :> 4) @@ (b :> 2) @@ (c :> 3)

Vehicle(id, state, dp, st, et, toStopBar, age) ==
  [id |-> id, state |-> state, dp |-> dp, link |-> Home[id].link, entry |-> Home[id].entry,
   lane |-> Home[id].entry, st |-> st, et |-> et, clearance |-> Clearances[id],
   toStopBar |-> toStopBar, distance |-> toStopBar, age |-> age]

Positions == {-1, 1, 3}

\* What the list may say of a vehicle.
Reports(id) ==
  {Vehicle(id, "EV", -1, 0, 0, bar, 0) : bar \in {1, 4}}
  \cup {Vehicle(id, "RDV", dp, 4, 0, 0, 0) : dp \in Positions}
  \cup {Vehicle(id, "DV", dp, 4, et, 0, 0) : dp \in {-1, 1}, et \in {6, 10}}
  \cup {Vehicle(id, "DV", 1, 4, 6, 0, 1), Vehicle(id, "LV", 1, 4, 6, 0, 0)}

Situations ==
  UNION {{list \in [1 .. n -> UNION {Reports(id) : id \in {a, b, c}}] :
            \A i, j \in 1 .. n : i < j => list[i].id # list[j].id} : n \in 0 .. 3}

Init ==
  /\ situation \in Situations
  /\ granted \in SUBSET {v.id : v \in {w \in ToSet(situation) : w.state \in {"RDV", "DV"}}}
  /\ before = granted
  /\ schedule = <<>>
  /\ done = FALSE

Next ==
  /\ ~ done
  /\ done' = TRUE
  /\ ScheduleVehicles(situation, Now)
  /\ UNCHANGED <<situation, before>>

Spec == Init /\ [][Next]_mcVars

-----------------------------------------------------------------------------
Scheduled(v) == \E i \in DOMAIN schedule : schedule[i].id = v.id

Reported(id) == CHOOSE v \in ToSet(situation) : v.id = id

\* Stopped vehicles that this round had to order.
Ordered ==
  {v \in ToSet(situation) : v.state = "RDV" /\ v.id \notin before}

TypeOK ==
  /\ granted \subseteq {a, b, c}
  /\ \A i \in DOMAIN schedule :
       /\ schedule[i].dp = i /\ schedule[i].st <= schedule[i].et
       /\ schedule[i].et <= schedule[i].dt

\* Two vehicles whose links conflict are never in the box together by the plan:
\* the one that is to enter later enters after the other one departed.
ConflictsSeparated ==
  \A i, j \in DOMAIN schedule :
    /\ i < j /\ schedule[j].link \in Conflicting[schedule[i].link]
    /\ schedule[j].state = "EV" \/ Reported(schedule[j].id) \in Ordered
    => schedule[i].dt <= schedule[j].et

\* Access is given in the order of departure: nobody overtakes one that waits.
AccessInOrder ==
  \A i, j \in DOMAIN schedule : i < j /\ schedule[j].access => schedule[i].access

\* The delay of the departure order f of the stopped vehicles.
DelayOf(f) ==
  LET dvs == SelectSeq(schedule, LAMBDA s : Reported(s.id) \notin Ordered /\ s.access)
  IN Delay(Option([k \in DOMAIN f |-> f[k]], dvs, Now))

Chosen == SelectSeq(schedule, LAMBDA s : s.access \/ Reported(s.id) \in Ordered)

AllOrders == {f \in [1 .. Cardinality(Ordered) -> Ordered] :
                \A i, j \in DOMAIN f : i # j => f[i] # f[j]}

ValidOrders ==
  LET departing == {i \in DOMAIN schedule : schedule[i].access /\ Reported(schedule[i].id) \notin Ordered}
  IN {f \in AllOrders : WithinFlexibilityLimit(f, Cardinality(departing) + 1)}

LeastDelay == \A f \in ValidOrders : Delay(Chosen) <= DelayOf(f)

\* Of stopped vehicles with positions of their own the order with the least delay
\* is chosen: no order within the limit is forgotten.
LeastDelayOfRanked ==
  done /\ (\A v, w \in Ordered : v.dp >= 1 /\ (v # w => v.dp # w.dp)) /\ Ordered # {} =>
    LeastDelay

=============================================================================
