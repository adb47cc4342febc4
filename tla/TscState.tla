------------------------------ MODULE TscState ------------------------------
(***************************************************************************)
(* tsc_state of tsc_client_service: what initialize() asks the signal      *)
(* controller for, which channel serves which phase, the rings and the     *)
(* timing of each signal group, and the calls it polls later. The          *)
(* controller is external; a GET that it does not answer leaves 0, or no   *)
(* numbers, in the response. Only some of the callers look at the result.  *)
(***************************************************************************)
EXTENDS Integers, Sequences, FiniteSets, TLC, SequencesExt

CONSTANTS
  Configs,   \* configurations of a controller
  Losses,    \* the sets of GETs that may be lost
  CallSets,  \* the sets of phases that may have a call of a kind at once
  MaxPolls   \* bound: polls of the calls

VARIABLES
  config,    \* of the controller
  lost,      \* the GETs of initialize() that are lost
  pc,        \* the next step of initialize(), or "ready", "false", "exit"
  vehicleChannels, pedChannels,
  vehiclePhases,  \* vehicle_phase_2signalgroup_map_
  pedPhases,      \* ped_phase_2signalgroup_map_
  signalGroups,   \* signal_group_2vehiclephase_map_
  rings,          \* active_ring_sequences
  states,         \* signal_group_2tsc_state_map_
  tscConfig,      \* tsc_config_state_ptr_
  calls,          \* vehicle_calls and pedestrian_calls
  asked,          \* of the last poll: the calls that the controller has, the GETs lost
  polls

vars == <<config, lost, pc, vehicleChannels, pedChannels, vehiclePhases, pedPhases,
          signalGroups, rings, states, tscConfig, calls, asked, polls>>

Init ==
  /\ config \in Configs /\ lost \in Losses
  /\ pc = "channels"
  /\ vehicleChannels = {} /\ pedChannels = {}
  /\ vehiclePhases = <<>> /\ pedPhases = <<>> /\ signalGroups = <<>>
  /\ rings = <<>> /\ states = <<>> /\ tscConfig = <<>>
  /\ calls = [vehicle |-> {}, ped |-> {}]
  /\ asked = [vehicle |-> {}, ped |-> {}, missed |-> {}] /\ polls = 0

\* The answer to an ignored GET.
Number(get, value) == IF get \in lost THEN 0 ELSE value
Numbers(get, values) == IF get \in lost THEN <<>> ELSE values

\* A GET whose failure is checked: snmp_client_exception, initialize() fails.
Fail == pc' = "false"
\* monitor_states_exception: initialize() does not catch it, nor does main.
Escape == pc' = "exit"

-----------------------------------------------------------------------------
Channels == 1 .. Len(config.types)

\* get_max_channels, get_channels
GetChannels ==
  /\ pc = "channels"
  /\ IF lost \cap ({<<"channels">>} \cup {<<"type", c>> : c \in Channels}) # {}
     THEN Fail /\ UNCHANGED <<vehicleChannels, pedChannels>>
     ELSE /\ vehicleChannels' = {c \in Channels : config.types[c] = 2}
          /\ pedChannels' = {c \in Channels : config.types[c] = 3}
          /\ pc' = "phases"
  /\ UNCHANGED <<config, lost, vehiclePhases, pedPhases, signalGroups, rings, states,
                 tscConfig, calls, asked, polls>>

Source(c) == Number(<<"source", c>>, config.sources[c])

\* get_phases_associated_with_channel: insert keeps the first channel of a phase.
PhasesOf(channels) ==
  [p \in {Source(c) : c \in channels} |->
    CHOOSE c \in channels : Source(c) = p /\ \A e \in channels : Source(e) = p => c <= e]

GetPhases ==
  /\ pc = "phases"
  /\ IF \E c \in vehicleChannels \cup pedChannels : Source(c) = 0
     THEN Escape /\ UNCHANGED <<vehiclePhases, pedPhases>>
     ELSE /\ vehiclePhases' = PhasesOf(vehicleChannels)
          /\ pedPhases' = PhasesOf(pedChannels)
          /\ pc' = "rings"
  /\ UNCHANGED <<config, lost, vehicleChannels, pedChannels, signalGroups, rings, states,
                 tscConfig, calls, asked, polls>>

\* get_max_rings, get_active_ring_sequences: of each ring the phases that have a
\* vehicle channel; rings without any are left out.
GetRings ==
  LET Ring(r) == SelectSeq(Numbers(<<"sequence", r>>, config.sequences[r]),
                           LAMBDA p : p \in DOMAIN vehiclePhases)
  IN /\ pc = "rings"
     /\ IF <<"rings">> \in lost
        THEN Fail /\ UNCHANGED rings
        ELSE /\ rings' = SelectSeq([r \in DOMAIN config.sequences |-> Ring(r)],
                                   LAMBDA ring : ring # <<>>)
             /\ pc' = "map"
     /\ UNCHANGED <<config, lost, vehicleChannels, pedChannels, vehiclePhases, pedPhases,
                    signalGroups, states, tscConfig, calls, asked, polls>>

InRing(p) == \E r \in DOMAIN rings : p \in ToSet(rings[r])

\* map_phase_and_signalgroup: phases in no ring are forgotten.
MapPhases ==
  /\ pc = "map"
  /\ vehiclePhases' = Restrict(vehiclePhases, {p \in DOMAIN vehiclePhases : InRing(p)})
  /\ signalGroups' = AntiFunction(vehiclePhases')
  /\ pc' = "states"
  /\ UNCHANGED <<config, lost, vehicleChannels, pedChannels, pedPhases, rings, states,
                 tscConfig, calls, asked, polls>>

-----------------------------------------------------------------------------
\* get_following_phases: the ring of the phase, from the phase on.
FollowingPhases(p) ==
  LET ring == rings[CHOOSE r \in DOMAIN rings : p \in ToSet(rings[r])]
      i == CHOOSE j \in DOMAIN ring : ring[j] = p
  IN SubSeq(ring, i, Len(ring)) \o SubSeq(ring, 1, i - 1)

\* get_concurrent_signal_groups: the phases; a phase without a signal group throws.
ConcurrentPhases(p) == ToSet(Numbers(<<"concurrency", p>>, config.concurrent[p])) \ {0}

\* get_min_green, get_yellow_duration, get_red_clearance: seconds and tenths to
\* milliseconds.
GreenOf(p)  == 1000 * Number(<<"green", p>>, config.green[p])
YellowOf(p) == 100 * Number(<<"yellow", p>>, config.yellow[p])
ClearOf(p)  == 100 * Number(<<"clear", p>>, config.clear[p])

GroupState(p) ==
  [phase |-> p, green |-> GreenOf(p), yellow |-> YellowOf(p), clear |-> ClearOf(p),
   sequence |-> FollowingPhases(p),
   concurrent |-> {vehiclePhases[q] : q \in ConcurrentPhases(p)}, red |-> 0]

DefineStates ==
  /\ pc = "states"
  /\ IF \E p \in Range(signalGroups) : ~ (ConcurrentPhases(p) \subseteq DOMAIN vehiclePhases)
     THEN Escape /\ UNCHANGED states
     ELSE /\ states' = [g \in DOMAIN signalGroups |-> GroupState(signalGroups[g])]
          /\ pc' = "reds"
  /\ UNCHANGED <<config, lost, vehicleChannels, pedChannels, vehiclePhases, pedPhases,
                 signalGroups, rings, tscConfig, calls, asked, polls>>

MutantRedDuration(g) ==
  FoldSeq(LAMBDA p, sum :
            LET s == states[vehiclePhases[p]] IN
            sum + (IF p = states[g].phase THEN 0 ELSE s.green + s.yellow + s.clear),
          0, states[g].sequence)

\* get_red_duration: its own clearance, and all of the other phases of the ring.
RedDuration(g) ==
  FoldSeq(LAMBDA p, sum :
            LET s == states[vehiclePhases[p]] IN
            sum + (IF p = states[g].phase THEN 0 ELSE s.green + s.yellow + s.clear),
          states[g].clear, states[g].sequence)

\* ... and define_tsc_config_state.
DefineReds ==
  /\ pc = "reds"
  /\ states' = [g \in DOMAIN states |-> [states[g] EXCEPT !.red = RedDuration(g)]]
  /\ tscConfig' = [g \in DOMAIN states |->
                    [yellow |-> states[g].yellow, clear |-> states[g].clear,
                     concurrent |-> states[g].concurrent]]
  /\ pc' = "ready"
  /\ UNCHANGED <<config, lost, vehicleChannels, pedChannels, vehiclePhases, pedPhases,
                 signalGroups, rings, calls, asked, polls>>

Initialize ==
  \/ GetChannels \/ GetPhases \/ GetRings \/ MapPhases \/ DefineStates \/ DefineReds

-----------------------------------------------------------------------------
PhaseNumbers == DOMAIN config.green

\* poll_vehicle_pedestrian_calls: two GETs of eight phases for each kind of call;
\* a call of a phase without a signal group throws, and the calls stay.
PollCalls(vehicle, ped, missed) ==
  /\ pc = "ready" /\ polls < MaxPolls
  /\ asked' = [vehicle |-> vehicle, ped |-> ped, missed |-> missed]
  /\ LET Heard(kind, phases) == {p \in phases : <<kind, (p - 1) \div 8>> \notin missed}
         heardVehicle == Heard("vehicle", vehicle)
         heardPed == Heard("ped", ped)
     IN calls' = IF heardVehicle \subseteq DOMAIN vehiclePhases /\ heardPed \subseteq DOMAIN pedPhases
                 THEN [vehicle |-> {vehiclePhases[p] : p \in heardVehicle},
                       ped |-> {pedPhases[p] : p \in heardPed}]
                 ELSE calls
  /\ polls' = polls + 1
  /\ UNCHANGED <<config, lost, pc, vehicleChannels, pedChannels, vehiclePhases, pedPhases,
                 signalGroups, rings, states, tscConfig>>

\* initialize() has returned, or the process has ended.
Stop == pc \in {"ready", "false", "exit"} /\ UNCHANGED vars

Next ==
  \/ Initialize
  \/ \E vehicle, ped \in CallSets,
        missed \in SUBSET ({"vehicle", "ped"} \X {0, 1}) : PollCalls(vehicle, ped, missed)
  \/ Stop

Spec == Init /\ [][Next]_vars

-----------------------------------------------------------------------------
TypeOK ==
  /\ config \in Configs /\ lost \in Losses
  /\ pc \in {"channels", "phases", "rings", "map", "states", "reds", "ready", "false", "exit"}
  /\ \A m \in {vehiclePhases, pedPhases} : \A p \in DOMAIN m : p \in Nat /\ m[p] \in Channels
  /\ \A r \in DOMAIN rings : rings[r] # <<>>
  /\ DOMAIN tscConfig \subseteq DOMAIN states

Ready == pc = "ready"

\* Once tsc_state is initialized a phase and its signal group lead to each
\* other, and every signal group has a state and its phase a place in a ring:
\* get_red_duration and the SPaT thread look them up without a check.
MapsInverse ==
  Ready =>
    /\ \A g \in DOMAIN signalGroups : vehiclePhases[signalGroups[g]] = g
    /\ \A p \in DOMAIN vehiclePhases : InRing(p) /\ signalGroups[vehiclePhases[p]] = p
    /\ DOMAIN states = DOMAIN signalGroups
    /\ \A g \in DOMAIN states : states[g].concurrent \subseteq DOMAIN states

\* monitor_tsc_state.h:31: "the total time a phase is predicted to be red before
\* its next green": with it, the signal groups of a ring agree on how long the
\* ring takes to come back to any of them, whatever GETs were lost.
CycleAgreed ==
  Ready =>
    \A r \in DOMAIN rings : \A p, q \in ToSet(rings[r]) :
      LET Cycle(s) == s.green + s.yellow + s.red IN
      Cycle(states[vehiclePhases[p]]) = Cycle(states[vehiclePhases[q]])

\* When tsc_state is initialized no channel is missing, and none is under the
\* wrong phase, because a GET about channels was lost: the signal groups are
\* those that the controller's channels serve, the first one of each phase.
ChannelsAreTheControllers ==
  Ready =>
    LET Serves(c, type, p) == config.types[c] = type /\ config.sources[c] = p
        First(c, type, p) == Serves(c, type, p) /\ \A e \in 1 .. c - 1 : ~ Serves(e, type, p)
    IN /\ \A p \in DOMAIN vehiclePhases : First(vehiclePhases[p], 2, p)
       /\ \A c \in Channels : \A p \in PhaseNumbers :
            First(c, 3, p) => p \in DOMAIN pedPhases /\ pedPhases[p] = c
       /\ lost = {} => \A c \in Channels : \A p \in PhaseNumbers :
            First(c, 2, p) /\ (\E r \in DOMAIN config.sequences : p \in ToSet(config.sequences[r]))
              => c \in DOMAIN states

\* A poll that does not throw reports, as signal groups, calls that the
\* controller has, and all of them when no GET is lost; one that throws leaves
\* the calls of the poll before.
PollsTheController ==
  polls' # polls =>
    LET known == asked'.vehicle \subseteq DOMAIN vehiclePhases
                 /\ asked'.ped \subseteq DOMAIN pedPhases
        Of(groups, map) == {p \in DOMAIN map : map[p] \in groups}
    IN /\ known => Of(calls'.vehicle, vehiclePhases) \subseteq asked'.vehicle
                    /\ Of(calls'.ped, pedPhases) \subseteq asked'.ped
       /\ known /\ asked'.missed = {} =>
            /\ Of(calls'.vehicle, vehiclePhases) = asked'.vehicle
            /\ Of(calls'.ped, pedPhases) = asked'.ped
       /\ ~ known /\ asked'.missed = {} => calls' = calls

=============================================================================
