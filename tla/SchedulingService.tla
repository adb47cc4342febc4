-------------------------- MODULE SchedulingService --------------------------
(***************************************************************************)
(* scheduling_service at a signalized intersection, from its start: it     *)
(* asks the intersection model for the lanelets, gives up after some       *)
(* attempts, then runs three threads, of which one consumes vehicles, one  *)
(* the SPaT, and one schedules. A process that ends is started again; one  *)
(* that gave up stays idle.                                                *)
(***************************************************************************)
EXTENDS IntersectionModel

CONSTANTS
  Attempts,   \* int_client_request_attempts
  MaxDeaths   \* bound: times the service may end

SchedulingServiceAssumption == Attempts \in Nat /\ MaxDeaths \in Nat

VARIABLES
  stage,      \* "start", "ask", "wait", "running", "idle"
  attempts,   \* of update_intersection_info, so far
  info,       \* the signal groups of the intersection info, or None
  threads,    \* those that run: "vehicles", "spat", "schedule"
  spat,       \* spat_ptr: "empty" or "known"
  scheduled,  \* what the last round did: "none", "partial" or "all"
  deaths

serviceVars == <<stage, attempts, info, threads, spat, scheduled, deaths>>
vars == <<modelVars, serviceVars>>

Threads == {"vehicles", "spat", "schedule"}

ServiceInit ==
  /\ stage = "start" /\ attempts = 0 /\ info = None
  /\ threads = {} /\ spat = "empty" /\ scheduled = "none" /\ deaths = 0

Init == ModelInit /\ ServiceInit

-----------------------------------------------------------------------------

\* The process ends and the container starts it again.
Die ==
  /\ deaths < MaxDeaths /\ deaths' = deaths + 1
  /\ stage' = "start" /\ attempts' = 0 /\ info' = None
  /\ threads' = {} /\ spat' = "empty" /\ scheduled' = "none"

\* initialize, up to the intersection client: without Kafka it exits.
Initialize ==
  /\ stage = "start" /\ stage' = "ask"
  /\ UNCHANGED <<attempts, info, threads, spat, scheduled, deaths>>

InitializeFails == stage = "start" /\ Die

\* update_intersection_info, the head of its loop.
Ask ==
  /\ stage = "ask"
  /\ stage' = IF attempts < Attempts THEN "wait" ELSE "idle"
  /\ UNCHANGED <<attempts, info, threads, spat, scheduled, deaths>>

\* request_intersection_info gets an answer: config_scheduler, and start.
Answer ==
  /\ stage = "wait" /\ up
  /\ stage' = "running" /\ info' = groups /\ threads' = Threads
  /\ UNCHANGED <<attempts, spat, scheduled, deaths>>

MutantNoAnswer ==
  /\ stage = "wait" /\ stage' = "ask"
  /\ UNCHANGED <<attempts, info, threads, spat, scheduled, deaths>>

\* An error, or nothing for 5 s.
NoAnswer ==
  /\ stage = "wait" /\ stage' = "ask"
  /\ attempts' = attempts + 1
  /\ UNCHANGED <<info, threads, spat, scheduled, deaths>>

-----------------------------------------------------------------------------

\* consume_spat: one that cannot be read leaves none behind.
ConsumeSpat(readable) ==
  /\ "spat" \in threads
  /\ spat' = IF readable THEN "known" ELSE "empty"
  /\ UNCHANGED <<stage, attempts, info, threads, scheduled, deaths>>

\* A consumer or the producer is not running any more, and its thread ends. The
\* others go on; start joins them all and main waits for ever.
ThreadEnds(t) ==
  /\ t \in threads /\ threads' = threads \ {t}
  /\ stage' = IF threads' = {} THEN "idle" ELSE stage
  /\ UNCHANGED <<attempts, info, spat, scheduled, deaths>>

\* schedule_veh, one round, with entering vehicles for every link lanelet. The
\* exception of a SPaT without an intersection is not caught.
ScheduleVehicles ==
  /\ "schedule" \in threads
  /\ IF spat = "empty" /\ \E link \in Links : info[link] # 0
       THEN \/ Die
            \/ /\ \E link \in Links : info[link] = 0
               /\ scheduled' = "partial"
               /\ UNCHANGED <<stage, attempts, info, threads, spat, deaths>>
       ELSE /\ scheduled' = IF \A link \in Links : info[link] # 0 THEN "all" ELSE "partial"
            /\ UNCHANGED <<stage, attempts, info, threads, spat, deaths>>

ServiceStep ==
  \/ Initialize \/ InitializeFails
  \/ Ask \/ Answer \/ NoAnswer
  \/ ScheduleVehicles
  \/ \E readable \in BOOLEAN : ConsumeSpat(readable)
  \/ \E t \in Threads : ThreadEnds(t)

Next ==
  \/ ModelNext /\ UNCHANGED serviceVars
  \/ ServiceStep /\ UNCHANGED modelVars

Spec == Init /\ [][Next]_vars

\* The process runs, the model is restarted, and MAP messages of this intersection come
\* again and again. Threads end and answers fail as they may.
Fairness ==
  /\ WF_vars(Initialize /\ UNCHANGED modelVars)
  /\ WF_vars(Ask /\ UNCHANGED modelVars)
  /\ WF_vars((Answer \/ NoAnswer) /\ UNCHANGED modelVars)
  /\ WF_vars(WriteGroup /\ UNCHANGED serviceVars)
  /\ WF_vars(Restart /\ UNCHANGED serviceVars)
  /\ \A m \in Messages : m.kind = "ours" => SF_vars(ConsumeMap(m) /\ UNCHANGED serviceVars)

FairSpec == Spec /\ Fairness

-----------------------------------------------------------------------------
(***************************************************************************)
(* Properties.                                                             *)
(***************************************************************************)

TypeOK ==
  /\ ModelTypeOK
  /\ stage \in {"start", "ask", "wait", "running", "idle"}
  /\ attempts \in 0 .. Attempts
  /\ info \in [Links -> Nat] \cup {None}
  /\ threads \subseteq Threads /\ (threads # {} => stage = "running")
  /\ spat \in {"empty", "known"} /\ scheduled \in {"none", "partial", "all"}
  /\ deaths \in 0 .. MaxDeaths

\* What the service works with are right groups or none, however the answer raced a
\* MAP message or a restart of the model.
InfoIsRight == info # None => \A link \in Links : info[link] \in {0, Right[link]}

\* The initialization ends, also when the model never answers.
InitializationEnds == (stage = "ask") ~> (stage \in {"running", "idle", "start"})

=============================================================================
