---------------------------- MODULE PlanExchange ----------------------------
(***************************************************************************)
(* The loop between signal_opt_service and tsc_client_service: produce_dpp *)
(* reads the greens of the published SPaT, appends one green to them and   *)
(* publishes the plan; the SPaT thread projects the plan into the SPaT.    *)
(*                                                                         *)
(* produce_dpp reads the SPaT three times in an iteration, unlocked in     *)
(* between: to decide whether to optimize, to generate the candidates, and *)
(* to evaluate them. Its vehicles decide which candidates there are and    *)
(* which is the best; here any may be.                                     *)
(***************************************************************************)
EXTENDS SpatProjection

CONSTANTS
  GreenLengths,   \* the lengths of the greens that the queues ask for
  FutureGroups,   \* desired_future_move_group_count
  TimeToYellow,   \* time_before_yellow_change
  MinToYellow,    \* 200 ms
  SoSleep,        \* so_sleep_time
  MaxSkips,       \* 5
  Prompt,         \* an iteration takes no time, and no SPaT is old
  MaxPlans        \* bound: plans published in a behaviour

ASSUME PlanAssumption ==
  /\ GreenLengths \subseteq Nat /\ FutureGroups \in Nat
  /\ TimeToYellow \in Nat /\ MinToYellow \in Nat /\ SoSleep \in Nat
  /\ MaxSkips \in Nat /\ Prompt \in BOOLEAN
ASSUME MaxPlansAssumption == MaxPlans \in Nat

VARIABLES
  so,       \* "asleep", "generate", "evaluate", or "down": the service ended
  base,     \* base_desired_phase_plan
  count,    \* current_future_move_group_count
  awaited,  \* prev_future_move_group_count while new_dpp_generated, else 0
  skips,    \* sequential_skips_for_missing_dpp
  wake,     \* when the sleep between iterations is over
  planned   \* plans published so far

soVars == <<so, base, count, awaited, skips, wake, planned>>
vars == <<projectionVars, soVars>>

PlanTypeOK ==
  /\ TypeOK
  /\ so \in {"asleep", "generate", "evaluate", "down"}
  /\ base \in Seq(Green)
  /\ {count, awaited, wake, planned} \subseteq Nat
  /\ skips \in 0 .. MaxSkips + 1

PlanInit ==
  /\ Init
  /\ so = "asleep" /\ base = <<>>
  /\ count = 0 /\ awaited = 0 /\ skips = 0 /\ planned = 0
  /\ wake = 0

EndIteration ==
  /\ so' = "asleep" /\ wake' = now + SoSleep
  /\ base' = <<>> /\ count' = 0

MutantReflected(greens) == awaited = 0 \/ Len(greens) >= awaited

\* The plan published last is in the SPaT.
Reflected(greens) == awaited = 0 \/ Len(greens) > awaited

\* The next yellow is near, but not too near.
InWindow(greens) ==
  /\ now <= greens[1].end
  /\ greens[1].end - now <= TimeToYellow
  /\ greens[1].end - now > MinToYellow

\* No SPaT to work with.
SkipUnusableSpat(greens) ==
  /\ greens = Throws \/ greens = <<>>
  /\ EndIteration
  /\ UNCHANGED <<awaited, skips>>

\* After MaxSkips iterations it gives up waiting.
AwaitPlanInSpat(greens) ==
  /\ greens # Throws /\ greens # <<>>
  /\ ~ Reflected(greens)
  /\ skips' = skips + 1
  /\ awaited' = IF skips' > MaxSkips THEN 0 ELSE awaited
  /\ EndIteration

DecideToOptimize(greens) ==
  /\ greens # Throws /\ greens # <<>>
  /\ Reflected(greens)
  /\ awaited' = 0 /\ skips' = 0
  /\ IF InWindow(greens) /\ Len(greens) <= FutureGroups
       THEN so' = "generate" /\ count' = Len(greens) /\ UNCHANGED <<base, wake>>
       ELSE EndIteration

\* An iteration of produce_dpp, up to the call of select_optimal_dpp.
ReadSpat ==
  /\ so = "asleep" /\ now >= wake /\ planned < MaxPlans
  /\ Prompt => pc = "sent"
  /\ LET greens == ConvertSpatToDpp(seen, now) IN
       \/ SkipUnusableSpat(greens)
       \/ AwaitPlanInSpat(greens)
       \/ DecideToOptimize(greens)
  /\ UNCHANGED planned
  /\ UNCHANGED projectionVars

\* generate_desire_phase_plan_list reads the SPaT again.
Generate ==
  LET greens == ConvertSpatToDpp(seen, now) IN
  /\ so = "generate"
  /\ IF greens = Throws \/ greens = <<>> \/ Len(greens) > FutureGroups
       THEN EndIteration
       ELSE so' = "evaluate" /\ base' = greens /\ UNCHANGED <<count, wake>>
  /\ UNCHANGED <<awaited, skips, planned>>
  /\ UNCHANGED projectionVars

MutantCandidates ==
  {Append(base, [groups |-> groups, start |-> Last(base).end,
                 end |-> Last(base).end + length]) :
     groups \in {m \in MoveSets : m \cap Last(base).groups = {}},
     length \in GreenLengths}

\* update_desired_phase_plan_list: one more green after the last one, of signal
\* groups that the last one does not have.
Candidates ==
  LET start == RedEnd(Last(base)) IN
  {Append(base, [groups |-> groups, start |-> start, end |-> start + length]) :
     groups \in {m \in MoveSets : m \cap Last(base).groups = {}},
     length \in GreenLengths}

\* The SPaT, read once more, can take the candidate.
Fits(candidate) == UpdateSpatWithDpp(seen, candidate, now) # Throws

\* No vehicle to plan for, or none that the arbitrator can schedule.
FindNoPlan ==
  /\ so = "evaluate"
  /\ EndIteration
  /\ UNCHANGED <<awaited, skips, planned>>
  /\ UNCHANGED projectionVars

PublishPlan ==
  /\ so = "evaluate"
  /\ \E candidate \in Candidates :
       Fits(candidate) /\ published' = Append(published, candidate)
  /\ awaited' = count
  /\ planned' = planned + 1
  /\ EndIteration
  /\ UNCHANGED skips
  /\ UNCHANGED <<now, spat, seen, dpp, lastGreen, pc>>
  /\ UNCHANGED controllerVars

\* Nobody catches the signal_phase_and_timing_exception of the evaluation.
Terminate ==
  /\ so = "evaluate"
  /\ \E candidate \in Candidates : ~ Fits(candidate)
  /\ so' = "down"
  /\ UNCHANGED <<base, count, awaited, skips, wake, planned>>
  /\ UNCHANGED projectionVars

ProduceDpp == ReadSpat \/ Generate \/ FindNoPlan \/ PublishPlan \/ Terminate

Optimizing == so \in {"generate", "evaluate"}

TscStep ==
  /\ ProjectionNext
  /\ Prompt /\ Optimizing => now' = now
  /\ UNCHANGED soVars

Next == TscStep \/ ProduceDpp

Spec == PlanInit /\ [][Next]_vars

-----------------------------------------------------------------------------
(***************************************************************************)
(* Properties.                                                             *)
(***************************************************************************)

\* Signal groups that may not be green together never are, whatever plans were chosen
\* and however the two services wait for each other; with the types, and with the plan
\* that is projected fitting the lights.
LoopIsSafe == PlanTypeOK /\ PlanFits /\ NoConflictingGreens

\* A plan that is consumed keeps the greens, and their ends, that are left of
\* the plan in effect.
PlansOnlyExtend ==
  [][published # <<>> /\ published' = Tail(published) =>
       LET left == Pruned(dpp) IN
       /\ Len(left) <= Len(dpp')
       /\ \A i \in DOMAIN left :
            \E j \in DOMAIN dpp' : /\ dpp'[j].groups = left[i].groups
                                   /\ dpp'[j].end = left[i].end]_vars

\* A plan that cannot be evaluated costs an iteration, not the service.
SelectionFailureIsContained == so # "down"

=============================================================================
