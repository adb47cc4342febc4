------------------------------ MODULE TscControl ------------------------------
(***************************************************************************)
(* The threads of tsc_client_service that drive the traffic signal         *)
(* controller from the desired phase plan (SPAT_PROJECTION_MODE 1):        *)
(*                                                                         *)
(*   consumer  consume_desired_phase_plan: stores the plan under dpp_mtx   *)
(*             and rebuilds the command queue under snmp_cmd_queue_mtx;    *)
(*   SPaT      produce_spat_json: prunes the same plan under dpp_mtx;      *)
(*   control   control_tsc_phases and set_tsc_hold_and_omit_forceoff_call: *)
(*             reads the queue without the mutex, sleeps until the time of *)
(*             the front command, sends it, and pops it under the mutex.   *)
(*                                                                         *)
(* Every call on the queue is a step of its own. The mutexes are not       *)
(* variables: which thread holds them follows from its control point.      *)
(***************************************************************************)
EXTENDS PhaseCommands

CONSTANTS
  Plans,          \* the plans signal_opt_service may publish
  MaxPlans,       \* bound: payloads consumed in a behaviour
  MaxTime,        \* bound: the clock stops here
  SleepDur,       \* control_tsc_state_sleep_dur_
  TornReads,      \* what front() may return of a queue that is being reset
  SetMayFail,     \* whether an SNMP SET may fail
  LateDelivery    \* whether a plan may be consumed after its first green

ASSUME PlansAssumption == Plans \subseteq Plan
ASSUME BoundsAssumption ==
  MaxPlans \in Nat /\ MaxTime \in Nat /\ SleepDur \in Nat
ASSUME TornReadsAssumption == TornReads \subseteq Command
ASSUME FaultsAssumption == SetMayFail \in BOOLEAN /\ LateDelivery \in BOOLEAN

VARIABLES
  now,        \* the streets clock
  up,         \* the process is running
  consumerPc, \* "consume", "update", "queue" (has dpp_mtx), "push" (has both)
  payload,    \* the plan consumed last
  dpp,        \* monitor_desired_phase_plan's desired_phase_plan_ptr
  queue,      \* tsc_set_command_queue_
  commands,   \* the commands update_tsc_control_queue pushes
  pushed,     \* how many of them it has pushed
  controlPc,  \* control point of the control thread
  current,    \* current_command
  executing,  \* command_to_execute
  wake,       \* when the control thread's sleep ends
  tsc,        \* the controller's HOLD and OMIT registers
  consumed,   \* history: payloads consumed
  raced       \* history: a torn read, or a pop of a command never executed

consumerVars == <<consumerPc, payload, dpp, commands, pushed, consumed>>
controlVars == <<controlPc, current, executing, wake>>
vars == <<now, up, consumerPc, payload, dpp, queue, commands, pushed,
          controlPc, current, executing, wake, tsc, consumed, raced>>

NoCommand == [type |-> "NONE", at |-> 0, val |-> {}]
Registers == {"HOLD", "OMIT"}

MutantNoDppMtx == consumerPc = "push"
MutantNoQueueMtx == FALSE

\* The consumer holds dpp_mtx from the update of the plan to the end of the
\* rebuild, and snmp_cmd_queue_mtx while it rebuilds the queue.
DppMtxHeld == consumerPc \in {"queue", "push"}
QueueMtxHeld == consumerPc = "push"

TypeOK ==
  /\ now \in Nat
  /\ up \in BOOLEAN
  /\ consumerPc \in {"consume", "update", "queue", "push"}
  /\ payload \in Plan
  /\ dpp \in Plan
  /\ queue \in Seq(Command)
  /\ commands \in Seq(Command)
  /\ pushed \in Nat
  /\ controlPc \in {"idle", "entry", "loop", "peek", "sleep", "recheck",
                    "compare", "batch", "front", "set", "pop", "catch",
                    "discard", "ended"}
  /\ current \in Command
  /\ executing \in Command
  /\ wake \in Nat
  /\ tsc \in [Registers -> SUBSET Nat]
  /\ consumed \in Nat
  /\ raced \in BOOLEAN

\* The controller may still hold what an earlier run of the service left.
Init ==
  /\ up = TRUE
  /\ consumerPc = "consume" /\ payload = <<>> /\ dpp = <<>>
  /\ queue = <<>> /\ commands = <<>> /\ pushed = 0
  /\ controlPc = "entry" /\ current = NoCommand /\ executing = NoCommand
  /\ wake = 0
  /\ raced = FALSE
  /\ now = 0
  /\ tsc \in [Registers -> {{}, BitwiseOrPhases({PhaseOf[g] : g \in DOMAIN PhaseOf})}]
  /\ consumed = 0

-----------------------------------------------------------------------------
(***************************************************************************)
(* The environment: the clock, the end of the process and its restart.     *)
(***************************************************************************)

\* Without LateDelivery the commands of a plan are computed before its first
\* green ends.
LastTimeFor(plan) ==
  IF LateDelivery \/ plan = <<>> THEN MaxTime ELSE plan[1].end

Tick ==
  /\ now < MaxTime
  /\ consumerPc \in {"update", "queue"} => now < LastTimeFor(payload)
  /\ now' = now + 1
  /\ UNCHANGED <<up, consumerPc, payload, dpp, queue, commands, pushed,
                 controlPc, current, executing, wake, tsc, consumed, raced>>

\* An exception that leaves a thread's function ends the process.
Terminate == up' = FALSE

\* docker-compose restarts the container; the controller keeps its registers.
Restart ==
  /\ ~ up
  /\ up' = TRUE
  /\ consumerPc' = "consume" /\ payload' = <<>> /\ dpp' = <<>>
  /\ queue' = <<>> /\ commands' = <<>> /\ pushed' = 0
  /\ controlPc' = "entry" /\ current' = NoCommand /\ executing' = NoCommand
  /\ wake' = 0
  /\ raced' = FALSE
  /\ UNCHANGED <<now, tsc, consumed>>

-----------------------------------------------------------------------------
(***************************************************************************)
(* consume_desired_phase_plan.                                             *)
(***************************************************************************)
Consume(plan) ==
  /\ up /\ consumerPc = "consume"
  /\ consumed < MaxPlans
  /\ now <= LastTimeFor(plan)
  /\ payload' = plan
  /\ consumed' = consumed + 1
  /\ consumerPc' = "update"
  /\ UNCHANGED <<now, up, dpp, queue, commands, pushed, tsc, raced>>
  /\ UNCHANGED controlVars

\* update_desired_phase_plan, with dpp_mtx, which is kept.
UpdateDesiredPhasePlan ==
  /\ up /\ consumerPc = "update"
  /\ dpp' = payload
  /\ consumerPc' = "queue"
  /\ UNCHANGED <<now, up, payload, queue, commands, pushed, tsc,
                 consumed, raced>>
  /\ UNCHANGED controlVars

\* fromJson throws and nothing catches it.
UpdateDesiredPhasePlanThrows ==
  /\ up /\ consumerPc = "update"
  /\ Terminate
  /\ dpp' = <<>>
  /\ UNCHANGED <<now, consumerPc, payload, queue, commands, pushed,
                 tsc, consumed, raced>>
  /\ UNCHANGED controlVars

\* update_tsc_control_queue leaves the queue alone.
SkipShortPlan ==
  /\ up /\ consumerPc = "queue"
  /\ Len(dpp) < 2
  /\ consumerPc' = "consume"
  /\ UNCHANGED <<now, up, payload, dpp, queue, commands, pushed, tsc,
                 consumed, raced>>
  /\ UNCHANGED controlVars

RejectRepeatedGroup ==
  /\ up /\ consumerPc = "queue"
  /\ Len(dpp) >= 2 /\ RepeatsSignalGroup(dpp)
  /\ Terminate
  /\ UNCHANGED <<now, queue, tsc, raced>>
  /\ UNCHANGED consumerVars
  /\ UNCHANGED controlVars

MutantResetQueue ==
  /\ up /\ consumerPc = "queue"
  /\ Len(dpp) >= 2 /\ ~ RepeatsSignalGroup(dpp)
  /\ commands' = Commands(dpp, now)
  /\ pushed' = 0
  /\ consumerPc' = "push"
  /\ UNCHANGED <<now, up, payload, dpp, queue, tsc, consumed, raced>>
  /\ UNCHANGED controlVars

\* The assignment of an empty queue, once both mutexes are held.
ResetQueue ==
  /\ up /\ consumerPc = "queue"
  /\ Len(dpp) >= 2 /\ ~ RepeatsSignalGroup(dpp)
  /\ queue' = <<>>
  /\ commands' = Commands(dpp, now)
  /\ pushed' = 0
  /\ consumerPc' = "push"
  /\ UNCHANGED <<now, up, payload, dpp, tsc, consumed, raced>>
  /\ UNCHANGED controlVars

\* One push; the last one is followed by the release of both mutexes.
PushCommand ==
  /\ up /\ consumerPc = "push"
  /\ ~ PushThrows(dpp, pushed + 1)
  /\ queue' = Append(queue, commands[pushed + 1])
  /\ pushed' = pushed + 1
  /\ consumerPc' = IF pushed + 1 = Len(commands) THEN "consume" ELSE "push"
  /\ UNCHANGED <<now, up, payload, dpp, commands, tsc, consumed, raced>>
  /\ UNCHANGED controlVars

\* get_phase_number throws on an unknown signal group.
PushCommandThrows ==
  /\ up /\ consumerPc = "push"
  /\ PushThrows(dpp, pushed + 1)
  /\ Terminate
  /\ UNCHANGED <<now, queue, tsc, raced>>
  /\ UNCHANGED consumerVars
  /\ UNCHANGED controlVars

Consumer ==
  \/ UpdateDesiredPhasePlan \/ UpdateDesiredPhasePlanThrows
  \/ SkipShortPlan \/ RejectRepeatedGroup
  \/ ResetQueue \/ PushCommand \/ PushCommandThrows

-----------------------------------------------------------------------------
(***************************************************************************)
(* produce_spat_json, as far as it touches the plan: the greens that ended *)
(* are pruned from its front, under dpp_mtx.                               *)
(***************************************************************************)

PruneExpiredGreensFromDpp ==
  /\ up
  /\ ~ DppMtxHeld
  /\ \E k \in 1 .. Len(dpp) :
       /\ \A i \in 1 .. k : dpp[i].end <= now
       /\ k < Len(dpp) => now < dpp[k + 1].end
       /\ dpp' = SubSeq(dpp, k + 1, Len(dpp))
  /\ UNCHANGED <<now, up, consumerPc, payload, queue, commands, pushed, tsc,
                 consumed, raced>>
  /\ UNCHANGED controlVars

-----------------------------------------------------------------------------
(***************************************************************************)
(* control_tsc_phases and set_tsc_hold_and_omit_forceoff_call.             *)
(***************************************************************************)

\* What front() returns. Of an empty queue it reads freed memory.
FrontOfQueue == IF queue = <<>> THEN TornReads ELSE {Head(queue)}

\* A step of the control thread that changes no more than its control point.
Goto(from, to) ==
  /\ up /\ controlPc = from
  /\ controlPc' = to
  /\ UNCHANGED <<now, up, queue, tsc, current, executing>>
  /\ UNCHANGED consumerVars

\* Such a step on the outcome of an unlocked queue.empty().
OnEmpty(from, ifEmpty, ifNot) ==
  /\ Goto(from, IF queue = <<>> THEN ifEmpty ELSE ifNot)
  /\ UNCHANGED <<wake, raced>>

\* The while (true) of control_tsc_phases: the sleep between two calls.
StartCall ==
  /\ now >= wake
  /\ Goto("idle", "entry")
  /\ UNCHANGED <<wake, raced>>

\* An SNMP SET that succeeds writes the register; one that fails may have been
\* lost or only its answer.
Written(cmd) ==
  IF cmd.type \in Registers THEN [tsc EXCEPT ![cmd.type] = cmd.val] ELSE tsc

\* run_clear_all_snmp_commands, whose results are ignored, on a queue that is
\* not empty.
RunClearAll ==
  /\ up /\ controlPc = "entry"
  /\ IF queue = <<>>
       THEN UNCHANGED tsc
       ELSE \E cleared \in SUBSET Registers :
              /\ SetMayFail \/ cleared = Registers
              /\ tsc' = [r \in Registers |-> IF r \in cleared THEN {} ELSE tsc[r]]
  /\ controlPc' = "loop"
  /\ UNCHANGED <<now, up, queue, current, executing, wake, raced>>
  /\ UNCHANGED consumerVars

MutantIdleUntil == now - SleepDur

\* The sleep between two calls; the bound of the clock cuts it short.
IdleUntil ==
  IF now + SleepDur <= MaxTime THEN now + SleepDur ELSE MaxTime

LoopTest ==
  /\ Goto("loop", IF queue = <<>> THEN "idle" ELSE "peek")
  /\ wake' = IF queue = <<>> THEN IdleUntil ELSE wake
  /\ UNCHANGED raced

MutantIsExpired(cmd) == FALSE

\* duration is the unsigned difference, read as a signed number.
IsExpired(cmd) ==
  2 * ((cmd.at - now) % TimeModulus) >= TimeModulus

\* current_command = front(); throw if its time has passed, else sleep.
PeekFront ==
  /\ up /\ controlPc = "peek"
  /\ \E front \in FrontOfQueue :
       /\ current' = front
       /\ IF IsExpired(front)
            THEN controlPc' = "catch" /\ UNCHANGED wake
            ELSE /\ controlPc' = "sleep"
                 /\ wake' = now + ((front.at - now) % TimeModulus)
  /\ raced' = (raced \/ queue = <<>>)
  /\ UNCHANGED <<now, up, queue, executing, tsc>>
  /\ UNCHANGED consumerVars

WakeUp ==
  /\ now >= wake
  /\ Goto("sleep", "recheck")
  /\ UNCHANGED <<wake, raced>>

\* After the sleep: leave when the queue is empty or has another front.
RecheckEmpty ==
  /\ Goto("recheck", IF queue = <<>> THEN "idle" ELSE "compare")
  /\ wake' = IF queue = <<>> THEN IdleUntil ELSE wake
  /\ UNCHANGED raced

CompareFront ==
  \E front \in FrontOfQueue :
    /\ Goto("compare", IF front = current THEN "batch" ELSE "idle")
    /\ wake' = IF front = current THEN wake ELSE IdleUntil
    /\ raced' = (raced \/ queue = <<>>)

BatchTest == OnEmpty("batch", "loop", "front")

MutantReadFront ==
  /\ up /\ controlPc = "front"
  /\ executing' \in FrontOfQueue
  /\ controlPc' = "set"
  /\ raced' = (raced \/ queue = <<>>)
  /\ UNCHANGED <<now, up, queue, current, wake, tsc>>
  /\ UNCHANGED consumerVars

\* command_to_execute = front(); it is sent if it has the time of the current.
ReadFront ==
  /\ up /\ controlPc = "front"
  /\ \E front \in FrontOfQueue :
       /\ executing' = front
       /\ controlPc' = IF front.at = current.at THEN "set" ELSE "loop"
  /\ raced' = (raced \/ queue = <<>>)
  /\ UNCHANGED <<now, up, queue, current, wake, tsc>>
  /\ UNCHANGED consumerVars

\* run_snmp_cmd_set_request.
RunSet ==
  /\ up /\ controlPc = "set"
  /\ \/ /\ tsc' = Written(executing)
        /\ controlPc' = "pop"
     \/ /\ SetMayFail /\ executing.type \in Registers
        /\ tsc' \in {tsc, Written(executing)}
        /\ controlPc' = "catch"
  /\ UNCHANGED <<now, up, queue, current, executing, wake, raced>>
  /\ UNCHANGED consumerVars

\* pop(), with snmp_cmd_queue_mtx.
Pop(from, to) ==
  /\ up /\ controlPc = from
  /\ ~ QueueMtxHeld
  /\ queue' = Tail(queue)
  /\ controlPc' = to
  /\ raced' = (raced \/ (from = "pop" /\ Head(queue) # executing))
  /\ UNCHANGED <<now, up, current, executing, wake, tsc>>
  /\ UNCHANGED consumerVars

PopExecuted == Pop("pop", "batch")

\* The handler of control_tsc_state_exception, after which the thread ends.
CatchTest == OnEmpty("catch", "ended", "discard")

MutantDiscardFront == Pop("discard", "idle")

DiscardFront == Pop("discard", "ended")

\* A read of freed memory may also end the process.
TornReadCrash ==
  /\ up /\ controlPc \in {"peek", "compare", "front", "discard"}
  /\ queue = <<>>
  /\ Terminate
  /\ UNCHANGED <<now, queue, tsc, raced>>
  /\ UNCHANGED consumerVars
  /\ UNCHANGED controlVars

Control ==
  \/ StartCall \/ RunClearAll \/ LoopTest \/ PeekFront \/ WakeUp
  \/ RecheckEmpty \/ CompareFront \/ BatchTest \/ ReadFront \/ RunSet
  \/ PopExecuted \/ CatchTest \/ DiscardFront

-----------------------------------------------------------------------------
Next ==
  \/ Tick \/ Restart
  \/ \E plan \in Plans : Consume(plan)
  \/ Consumer
  \/ PruneExpiredGreensFromDpp
  \/ Control \/ TornReadCrash

Spec == Init /\ [][Next]_vars

\* The threads keep running and the clock keeps advancing.
FairSpec ==
  Spec /\ WF_vars(Tick) /\ WF_vars(Consumer) /\ WF_vars(Control)

-----------------------------------------------------------------------------
(***************************************************************************)
(* Safety.                                                                 *)
(***************************************************************************)

\* A plan has been turned into commands since the process started.
Built == commands # <<>>

\* Once the commands of a plan are used up by a control thread that is still
\* alive, the controller is left with nothing held and nothing omitted, however
\* plans replaced each other meanwhile: the commands that release the
\* registers are never among those that a replacement makes the thread lose.
DrainedMeansReleased ==
  up /\ Built /\ ~ QueueMtxHeld /\ queue = <<>> /\ controlPc # "ended"
    => tsc = [r \in Registers |-> {}]

\* The control thread decides to pop long before it has the mutex; when it gets
\* it there is a command to pop (pop() of an empty queue is undefined).
PopFindsACommand ==
  up /\ controlPc \in {"pop", "discard"} /\ ~ QueueMtxHeld => queue # <<>>

\* The queue never mixes the commands of two plans: it is what is left of the
\* commands of the last plan with two events or more, and all of them while
\* the consumer pushes.
QueueIsTailOfPlan ==
  IF QueueMtxHeld
    THEN queue = SubSeq(commands, 1, pushed)
    ELSE queue = SubSeq(commands, Len(commands) - Len(queue) + 1, Len(commands))

\* The commands are computed from the plan as it was consumed, although the
\* SPaT thread prunes the very same object.
QueueBuiltFromWholePlan == QueueMtxHeld => dpp = payload

\* No command is sent before its time, whatever the thread read from the queue.
NeverEarly == up /\ controlPc = "set" => executing.at <= now

\* The controller is never told to hold a phase that it is told to omit, unless
\* a replacement of the queue made the thread lose a command.
HeldPhasesNotOmitted ==
  up /\ ~ raced /\ controlPc = "pop" /\ executing.type = "HOLD"
    => tsc["HOLD"] \cap tsc["OMIT"] = {}

\* While it waits for a command of the plan in the queue, the control thread
\* does not sleep past the end of that plan.
NeverSleepsBeyondPlan ==
  up /\ controlPc = "sleep" /\ Built /\ current \in {commands[i] : i \in 1 .. Len(commands)}
    => wake <= commands[Len(commands)].at

(***************************************************************************)
(* The inductive invariant of TscControl_proofs, in named parts.           *)
(***************************************************************************)

CommandsInv == commands = <<>> \/ EndsReleased(commands)

\* The queue and the commands agree, element by element.
QueueInv ==
  IF QueueMtxHeld
    THEN /\ Len(queue) = pushed
         /\ pushed < Len(commands)
         /\ \A i \in 1 .. Len(queue) : queue[i] = commands[i]
    ELSE /\ Len(queue) <= Len(commands)
         /\ \A i \in 1 .. Len(queue) :
              queue[i] = commands[Len(commands) - Len(queue) + i]

\* From the update of the plan to the release of dpp_mtx.
DppInv == DppMtxHeld => dpp = payload

\* Once the control thread has seen the queue not empty, only the consumer can
\* empty it, and when it releases the mutex it is not empty again.
FrontInv ==
  /\ controlPc \in {"peek", "compare", "front", "set", "pop", "catch", "discard"}
  /\ ~ QueueMtxHeld
  => queue # <<>>

\* The command about to be sent may be of a replaced plan, but not when one of
\* the last two of the plan is at the front: a new plan has at least four.
ExecutingInv ==
  controlPc = "set" /\ ~ QueueMtxHeld /\ Len(queue) <= 2
    => executing = queue[1]

\* As the last two commands leave the queue the registers are released.
ReleaseInv ==
  Built /\ ~ QueueMtxHeld /\ controlPc # "ended" =>
    /\ Len(queue) = 0 => tsc["HOLD"] = {}
    /\ Len(queue) <= 1 => tsc["OMIT"] = {}
    /\ controlPc = "pop" /\ Len(queue) = 1 => tsc["HOLD"] = {}
    /\ controlPc = "pop" /\ Len(queue) = 2 => tsc["OMIT"] = {}

\* After its sleep the thread is past the time of the command it slept for.
ClockInv ==
  /\ controlPc = "sleep" => current.at <= wake
  /\ controlPc \in {"recheck", "compare", "batch", "front", "set", "pop"}
       => current.at <= now
  /\ controlPc = "set" => executing.at <= now

IInv ==
  /\ TypeOK /\ CommandsInv /\ QueueInv /\ DppInv /\ FrontInv
  /\ ExecutingInv /\ ReleaseInv /\ ClockInv

\* OMIT and HOLD alternate, and a HOLD has no phase of the OMIT before it.
AlternatesInv ==
  \A n \in 1 .. Len(commands) :
    /\ commands[n].type = IF n % 2 = 1 THEN "OMIT" ELSE "HOLD"
    /\ n % 2 = 0 => commands[n - 1].val \cap commands[n].val = {}

FrontIsHold == queue # <<>> /\ queue[1].type = "HOLD"

\* A HOLD that is next, or under way, is preceded in the register by its OMIT.
HoldInv ==
  ~ raced /\ controlPc # "ended" =>
    /\ FrontIsHold => tsc["OMIT"] \cap queue[1].val = {}
    /\ FrontIsHold /\ controlPc \in {"set", "pop"} => executing = queue[1]
    /\ controlPc \in {"set", "pop"} /\ executing.type = "HOLD"
         => tsc["OMIT"] \cap executing.val = {}
    /\ controlPc = "pop" /\ executing.type \in Registers
         => tsc[executing.type] = executing.val

\* A plan whose greens follow each other.
InOrder(plan) ==
  /\ \A i \in 1 .. Len(plan) : plan[i].start <= plan[i].end
  /\ \A i, j \in 1 .. Len(plan) : i <= j => plan[i].end <= plan[j].end

\* The consumer has a plan in order whose first green has not ended.
InTimeInv ==
  /\ now <= MaxTime
  /\ InOrder(payload)
  /\ consumerPc \in {"update", "queue"} /\ payload # <<>> => now <= payload[1].end

\* The last command of a plan is the latest.
LastIsLatestInv ==
  \A n \in 1 .. Len(commands) : commands[n].at <= commands[Len(commands)].at

\* A thread that sleeps does so until the time of a command.
SleepInv == controlPc = "sleep" => wake = current.at

(***************************************************************************)
(* Liveness.                                                               *)
(***************************************************************************)

\* A phase that the service holds is released, or the control thread or the
\* process has ended.
HeldPhasesAreReleased ==
  (up /\ Built /\ tsc["HOLD"] # {})
    ~> (tsc["HOLD"] = {} \/ controlPc = "ended" \/ ~ up)

(***************************************************************************)
(* What the documentation and the comments say.                            *)
(***************************************************************************)

\* "SNMP command Queue has no update nor has been cleared, pop the existing
\* front command" (tsc_service.cpp:396): a pop after a SET removes the command
\* that was sent.
PopRemovesExecuted ==
  [][controlPc = "pop" /\ controlPc' = "batch" => Head(queue) = executing]_vars

=============================================================================
