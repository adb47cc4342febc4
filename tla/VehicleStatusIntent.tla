------------------------ MODULE VehicleStatusIntent ------------------------
(***************************************************************************)
(* message_services: three threads consume the BSM, the MobilityPath and   *)
(* the MobilityOperation messages of the vehicles; a fourth joins one of   *)
(* each into a vehicle status and intent (VSI) and publishes it. Time is   *)
(* counted in periods of that fourth thread.                               *)
(***************************************************************************)
EXTENDS Integers, SequencesExt, FiniteSetsExt

CONSTANTS
  Vehicles,     \* each is its id, a sequence of digits
  Numbers,      \* step -> the msg_count and sec_mark that its BSM may have, in digits
  Duration,     \* MOBILITY_OPERATION_PATH_MAX_DURATION
  Expire,       \* BSM_MSG_EXPIRE_IN_SEC
  Clean,        \* CLEAN_QUEUE_IN_SECS
  Foreign,      \* whether operations of another strategy come on the topic
  MaxSteps,     \* bound: broadcasts of a vehicle
  MaxTime,      \* bound
  None

VehicleStatusIntentAssumption ==
  /\ Duration \in Nat \ {0} /\ Expire \in Nat /\ Clean \in Nat
  /\ MaxSteps \in Nat /\ MaxTime \in Nat /\ Foreign \in BOOLEAN
  /\ \A v, w \in Vehicles : Len(v) = Len(w)   \* ids are of four bytes
  /\ DOMAIN Numbers = 1..MaxSteps

Steps == 1..MaxSteps
Times == 0..MaxTime

VARIABLES
  steps,    \* broadcasts that each vehicle has made
  bsmTopic, pathTopic, operationTopic, \* sent, not yet consumed
  bsms,     \* bsm_m: key of a BSM -> the BSM and its time of receipt
  paths,    \* mobilitypath_m: key of a path -> the path and its time of receipt
  operations, \* mobilityoperation_v
  now,
  lastClean,  \* prev_msg_expired_timestamp_
  pc,       \* where the joining thread is: sleeping, joining, cleaning, or dead
  joined    \* the VSIs of the last joining, in order

topics == <<bsmTopic, pathTopic, operationTopic>>
stores == <<bsms, paths, operations>>
vars == <<steps, topics, stores, now, lastClean, pc, joined>>

-----------------------------------------------------------------------------
(***************************************************************************)
(* Messages and their keys. An operation of another strategy has no        *)
(* msg_count and no sec_mark among its parameters.                         *)
(***************************************************************************)

Bsm(v, n) == [vehicle |-> v, count |-> n[1], mark |-> n[2]]

Operation(v, k, bsm, t) == [vehicle |-> v, step |-> k, bsm |-> bsm, stamp |-> t]

\* generate_hash_bsm_msg_id: sender, msg_count and sec_mark, one after the
\* other and with nothing between them.
BsmKey(bsm) == bsm.vehicle \o bsm.count \o bsm.mark

MutantPathKey(v, t) == <<v, 0>>

\* generate_hash_sender_timestamp_id: sender, and the time stamp in seconds,
\* which has ten digits until the year 2286: the sender can be read off.
PathKey(v, t) == <<v, t \div Duration>>

\* A vehicle broadcasts its BSM, its path, which may be planned a period
\* before, and the operation that names the BSM.
Broadcast(v) ==
  /\ steps[v] < MaxSteps
  /\ LET k == steps[v] + 1 IN
     /\ steps' = [steps EXCEPT ![v] = k]
     /\ \E n \in Numbers[k] :
          /\ bsmTopic' = Append(bsmTopic, Bsm(v, n))
          /\ operationTopic' = Append(operationTopic, Operation(v, k, Bsm(v, n), now))
     /\ \E planned \in {now, now - 1} \cap Times :
          pathTopic' = Append(pathTopic, [vehicle |-> v, stamp |-> planned])
  /\ UNCHANGED <<stores, now, lastClean, pc, joined>>

\* A vehicle sends an operation of another strategy.
BroadcastForeign(v) ==
  /\ Foreign
  /\ steps[v] < MaxSteps
  /\ steps' = [steps EXCEPT ![v] = @ + 1]
  /\ operationTopic' = Append(operationTopic, Operation(v, steps'[v], None, now))
  /\ UNCHANGED <<bsmTopic, pathTopic, stores, now, lastClean, pc, joined>>

-----------------------------------------------------------------------------
(***************************************************************************)
(* The consumers. The joining holds worker_mtx, the cleaning holds it only *)
(* while it erases: an insertion then races with the iteration, and the    *)
(* process may end.                                                        *)
(***************************************************************************)

MayRace == pc' \in (IF pc = "cleaning" THEN {pc, "dead"} ELSE {pc})

ConsumeBsm ==
  /\ pc # "dead" /\ bsmTopic # <<>>
  /\ bsms' = (BsmKey(Head(bsmTopic)) :> [bsm |-> Head(bsmTopic), at |-> now]) @@ bsms
  /\ bsmTopic' = Tail(bsmTopic)
  /\ MayRace
  /\ UNCHANGED <<steps, pathTopic, operationTopic, paths, operations, now, lastClean, joined>>

\* A path is stored under the second of its own time stamp.
ConsumePath ==
  /\ pc # "dead" /\ pathTopic # <<>>
  /\ LET m == Head(pathTopic) IN
     paths' = (PathKey(m.vehicle, m.stamp) :> [path |-> m, at |-> now]) @@ paths
  /\ pathTopic' = Tail(pathTopic)
  /\ MayRace
  /\ UNCHANGED <<steps, bsmTopic, operationTopic, bsms, operations, now, lastClean, joined>>

ConsumeOperation ==
  /\ pc # "dead" /\ operationTopic # <<>>
  /\ operations' = Append(operations, Head(operationTopic))
  /\ operationTopic' = Tail(operationTopic)
  /\ UNCHANGED <<steps, bsmTopic, pathTopic, bsms, paths, now, lastClean, pc, joined>>

-----------------------------------------------------------------------------
(***************************************************************************)
(* The joining, one operation after the other, on what has been stored.    *)
(* An operation is taken off the list before anything is looked up.        *)
(***************************************************************************)

Without(f, key) == [x \in DOMAIN f \ {key} |-> f[x]]

Window(m) == PathKey(m.vehicle, m.stamp)

HasBsm(s, m) ==
  BsmKey(m.bsm) \in DOMAIN s.bsms /\ now - s.bsms[BsmKey(m.bsm)].at <= Expire

HasPath(s, m) == Window(m) \in DOMAIN s.paths

\* The BSM and the path that were used are erased.
Forget(s, m) ==
  [s EXCEPT !.paths = Without(@, Window(m)), !.bsms = Without(@, BsmKey(m.bsm))]

\* What compose has filled in when the map's geometry fails is published.
Vsi(s, m, whole) ==
  [operation |-> m, bsm |-> s.bsms[BsmKey(m.bsm)].bsm, bsmAt |-> s.bsms[BsmKey(m.bsm)].at,
   path |-> s.paths[Window(m)].path, whole |-> whole]

JoinOne(s, m, whole) ==
  IF ~s.alive \/ m.bsm = None
  THEN [s EXCEPT !.alive = FALSE]   \* std::stol of an empty string throws
  ELSE IF ~HasBsm(s, m) THEN [s EXCEPT !.bsms = Without(@, BsmKey(m.bsm))]
  ELSE IF ~HasPath(s, m) THEN s
  ELSE [Forget(s, m) EXCEPT !.out = Append(@, Vsi(s, m, whole))]

Stores == [bsms |-> bsms, paths |-> paths]

JoinAll(half) ==
  FoldLeftDomain(LAMBDA s, i : JoinOne(s, operations[i], i \notin half),
                 Stores @@ [out |-> <<>>, alive |-> TRUE], operations)

Join ==
  /\ pc = "joining"
  /\ IF operations # <<>> /\ bsms # <<>> /\ paths # <<>>
     THEN \E half \in SUBSET DOMAIN operations :
            LET all == JoinAll(half) IN
            /\ bsms' = all.bsms /\ paths' = all.paths
            /\ operations' = <<>>
            /\ joined' = all.out
            /\ pc' = IF all.alive THEN "cleaning" ELSE "dead"
     ELSE /\ joined' = <<>>
          /\ pc' = "cleaning"
          /\ UNCHANGED stores
  /\ UNCHANGED <<steps, topics, now, lastClean>>

\* Paths and BSMs that are too old are erased; operations never are.
CleanUp ==
  /\ pc = "cleaning"
  /\ IF now - lastClean > Clean
     THEN /\ paths' = [p \in {x \in DOMAIN paths : now - paths[x].at <= Clean} |-> paths[p]]
          /\ bsms' = [b \in {x \in DOMAIN bsms : now - bsms[x].at <= Clean} |-> bsms[b]]
          /\ lastClean' = now
     ELSE UNCHANGED <<paths, bsms, lastClean>>
  /\ pc' = "sleeping"
  /\ UNCHANGED <<steps, topics, operations, now, joined>>

\* The thread sleeps for a period.
Sleep ==
  /\ pc = "sleeping" /\ now < MaxTime
  /\ now' = now + 1
  /\ pc' = "joining"
  /\ joined' = <<>>
  /\ UNCHANGED <<steps, topics, stores, lastClean>>

Init ==
  /\ steps = [v \in Vehicles |-> 0]
  /\ bsmTopic = <<>> /\ pathTopic = <<>> /\ operationTopic = <<>>
  /\ bsms = <<>> /\ paths = <<>> /\ operations = <<>>
  /\ now = 0 /\ lastClean = 0
  /\ pc = "joining"
  /\ joined = <<>>

Next ==
  \/ \E v \in Vehicles : Broadcast(v) \/ BroadcastForeign(v)
  \/ ConsumeBsm \/ ConsumePath \/ ConsumeOperation
  \/ Join \/ CleanUp \/ Sleep

Spec == Init /\ [][Next]_vars

-----------------------------------------------------------------------------
\* Every variable has its type: what is stored is stored under its key.
TypeOK ==
  /\ steps \in [Vehicles -> 0..MaxSteps]
  /\ now \in Times /\ lastClean \in Times
  /\ pc \in {"sleeping", "joining", "cleaning", "dead"}
  /\ \A key \in DOMAIN bsms : key = BsmKey(bsms[key].bsm) /\ bsms[key].at \in Times
  /\ \A key \in DOMAIN paths :
       key = PathKey(paths[key].path.vehicle, paths[key].path.stamp) /\ paths[key].at \in Times
  /\ \A i \in DOMAIN joined : joined[i].operation.step \in Steps

\* A VSI joins an operation with a path of the same vehicle and second and with
\* a BSM of the same vehicle received at most Expire ago; it is the BSM that the
\* operation names, or one whose msg_count and sec_mark have the same digits
\* (run, the two look-ups and the test of expiry).
JoinsWhatBelongs ==
  \A i \in DOMAIN joined :
    LET vsi == joined[i] IN
    /\ vsi.operation.vehicle = vsi.path.vehicle
    /\ vsi.operation.stamp \div Duration = vsi.path.stamp \div Duration
    /\ vsi.operation.vehicle = vsi.bsm.vehicle
    /\ now - vsi.bsmAt <= Expire
    /\ \/ vsi.bsm = vsi.operation.bsm
       \/ vsi.bsm.count \o vsi.bsm.mark = vsi.operation.bsm.count \o vsi.operation.bsm.mark

\* The VSIs of a vehicle are published in the order of its operations, and a
\* BSM or a path is told only once (the list of operations is worked off from
\* its front, and what was used is erased).
InOrderAndOnce ==
  \A i, j \in DOMAIN joined :
    i < j /\ joined[i].operation.vehicle = joined[j].operation.vehicle =>
      /\ joined[i].operation.step < joined[j].operation.step
      /\ joined[i].bsm # joined[j].bsm
      /\ Window(joined[i].operation) # Window(joined[j].operation)

\* An operation whose fresh BSM and path are both stored is told, unless an
\* operation that is told used one of the two: only what was overtaken by the
\* joining is lost (run pops it before it looks for them).
JoinsWhatItCan ==
  pc = "joining" /\ pc' = "cleaning" =>
    \A i \in DOMAIN operations :
      LET m == operations[i] IN
      m.bsm # None /\ HasBsm(Stores, m) /\ HasPath(Stores, m) =>
        \E j \in DOMAIN joined' :
          LET told == joined'[j].operation IN
          Window(told) = Window(m) \/ BsmKey(told.bsm) = BsmKey(m.bsm)

\* While the thread runs, nothing stays stored for more than two times the
\* interval of the clean-up and one period.
StoresForget ==
  pc = "sleeping" =>
    /\ \A key \in DOMAIN bsms : now - bsms[key].at <= 2 * Clean + 1
    /\ \A key \in DOMAIN paths : now - paths[key].at <= 2 * Clean + 1

=============================================================================
