---------------------------- MODULE PhaseCommands ----------------------------
(***************************************************************************)
(* How tsc_client_service turns a desired phase plan into the timed SNMP   *)
(* HOLD and OMIT commands it sends to the traffic signal controller:       *)
(* control_tsc_state::update_tsc_control_queue and what it calls.          *)
(*                                                                         *)
(* Times are uint64 milliseconds in the code; here they are naturals       *)
(* modulo TimeModulus, so that a subtraction that goes below zero wraps as *)
(* it does in the program.                                                 *)
(***************************************************************************)
EXTENDS Integers, Sequences

CONSTANTS
  PhaseOf,      \* tsc_state's signal_group_2vehiclephase_map_
  TimeModulus   \* 2^64 in the code, 2^w in a model

ASSUME PhaseOfAssumption == PhaseOf \in [DOMAIN PhaseOf -> Nat]
\* map_phase_and_signalgroup turns the map round in which a phase has one signal group.
ASSUME PhasesDistinctAssumption ==
  \A g, h \in DOMAIN PhaseOf : PhaseOf[g] = PhaseOf[h] => g = h
ASSUME TimeModulusAssumption == TimeModulus \in Nat /\ TimeModulus > 1

(***************************************************************************)
(* Data.                                                                   *)
(***************************************************************************)
Time == 0 .. TimeModulus - 1

\* signal_group2green_phase_timing: the groups that are green from start to end.
Event == [groups : SUBSET Nat, start : Time, end : Time]
Plan == Seq(Event)

\* snmp_cmd_struct. The queue built from a plan only holds vehicle holds and
\* omits; "NONE" stands for a control type that run_snmp_cmd_set_request
\* matches with none of its OIDs. val is the set of the bits of set_val_.
Command == [type : {"HOLD", "OMIT", "NONE"}, at : Time, val : SUBSET Nat]

(***************************************************************************)
(* The conversion of phases to the value of an SNMP command.               *)
(***************************************************************************)

\* bitwise_or_phases sets bit phase-1 of a uint8_t: later phases fall off.
BitwiseOrPhases(phases) == phases \cap (1 .. 8)

\* get_phase_number throws for a signal group that is not in the map.
KnownGroups(groups) == groups \subseteq DOMAIN PhaseOf

CreateCommandBySignalGroups(groups, type, time) ==
  [type |-> type, at |-> time,
   val |-> BitwiseOrPhases({PhaseOf[g] : g \in groups \cap DOMAIN PhaseOf})]

CreateResetCommand(type, time) == [type |-> type, at |-> time, val |-> {}]

(***************************************************************************)
(* The queue of commands of a plan.                                        *)
(***************************************************************************)

\* The midpoint of two unsigned times.
Midpoint(from, to) == (from + ((to - from) % TimeModulus) \div 2) % TimeModulus

MutantGroupsToOmit(event) == DOMAIN PhaseOf \cap event.groups

\* The groups to omit are all those that are not in the given event.
GroupsToOmit(event) == DOMAIN PhaseOf \ event.groups

\* The i-th green is prepared for the one after it: in its middle (for the
\* first, in the middle of what is left of it) all the groups that do not come
\* next are omitted, at its end those that come next are held.
OmitTime(plan, i, now) ==
  IF i = 1 THEN Midpoint(now, plan[1].end)
           ELSE Midpoint(plan[i].start, plan[i].end)

OmitCommand(plan, i, now) ==
  IF i = Len(plan)
    THEN CreateResetCommand("OMIT", OmitTime(plan, i, now))
    ELSE CreateCommandBySignalGroups(GroupsToOmit(plan[i + 1]), "OMIT",
                                     OmitTime(plan, i, now))

MutantHoldCommand(plan, i) ==
  CreateCommandBySignalGroups(plan[i].groups, "HOLD", plan[i].end)

HoldCommand(plan, i) ==
  IF i = Len(plan)
    THEN CreateResetCommand("HOLD", plan[i].end)
    ELSE CreateCommandBySignalGroups(plan[i + 1].groups, "HOLD", plan[i].end)

\* The commands in the order in which update_tsc_control_queue pushes them.
Commands(plan, now) ==
  [n \in 1 .. 2 * Len(plan) |->
     IF n % 2 = 1 THEN OmitCommand(plan, (n + 1) \div 2, now)
                  ELSE HoldCommand(plan, n \div 2)]

\* The last two commands of a plan release both registers.
EndsReleased(cmds) ==
  /\ Len(cmds) >= 4
  /\ cmds[Len(cmds) - 1].type = "OMIT" /\ cmds[Len(cmds) - 1].val = {}
  /\ cmds[Len(cmds)].type = "HOLD" /\ cmds[Len(cmds)].val = {}

\* Pushing the n-th command throws when it holds an unknown signal group.
PushThrows(plan, n) ==
  /\ n % 2 = 0
  /\ n < 2 * Len(plan)
  /\ ~ KnownGroups(plan[n \div 2 + 1].groups)

\* The check for repeated signal groups. The loop runs over all the events,
\* but its body always compares the first two.
RepeatsSignalGroup(plan) == plan[1].groups \cap plan[2].groups # {}

=============================================================================
