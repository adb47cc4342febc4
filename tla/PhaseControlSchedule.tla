------------------------- MODULE PhaseControlSchedule -------------------------
(***************************************************************************)
(* A phase control schedule of MMITSS: the message, the SNMP commands that *)
(* streets_snmp_cmd_converter makes of it, the queue of tsc_client_service *)
(* that update_tsc_control_queue replaces or clears, and the control       *)
(* thread that executes the queue, step by step: the queue is replaced     *)
(* under snmp_cmd_queue_mtx, which the thread takes only to pop, and a SET *)
(* can be lost. A register of the controller is the set of phases whose    *)
(* bits are set. No step waits for another but by its guard, so each may   *)
(* take time.                                                              *)
(***************************************************************************)
EXTENDS Integers, Sequences, FiniteSetsExt

CONSTANTS
  Schedules,   \* the values of "Schedule" that are arrays of commands
  SleepDur,    \* control_tsc_state_sleep_dur_
  MaxMessages, \* bound: messages in a behaviour
  MaxFailures,   \* bound: SETs, or rounds of clears, that are lost
  MaxTime      \* bound: the clock stops here

\* COMMAND_TYPE in the order of its values, which orders the maps.
CommandTypes == <<"call_veh", "call_ped", "forceoff", "hold", "omit_veh", "omit_ped">>
Types == {CommandTypes[i] : i \in DOMAIN CommandTypes}

\* The order of the pushes of step 4.
PushOrder == <<"hold", "forceoff", "omit_veh", "omit_ped", "call_ped", "call_veh">>

ScheduleCommand == [type : Types, phase : Nat \ {0}, start : Nat, end : Nat]
Command == [type : Types, at : Nat, val : SUBSET (1..8)]
SchedulesAssumption ==
  /\ Schedules \subseteq Seq(ScheduleCommand)
  /\ {SleepDur, MaxMessages, MaxFailures, MaxTime} \subseteq Nat

VARIABLES
  commands,      \* the commands of the schedule held
  isClear,       \* is_clear_current_schedule
  queue,         \* tsc_set_command_queue_
  controlThread, \* the next step of the control thread
  command,       \* current_command
  executing,     \* command_to_execute
  wake,          \* when the thread's sleep ends
  tsc,           \* the registers of the controller
  clock,         \* the streets clock
  received,      \* history: messages
  failures,        \* history: requests lost
  fresh,         \* history: the command under way was read from the queue held now
  old            \* history: the registers that the schedule held need not have set

threadVars == <<controlThread, command, executing, wake>>
scheduleVars == <<commands, isClear, queue, threadVars, tsc, clock, received, failures, fresh,
                  old>>

NoCommand == [type |-> "hold", at |-> 0, val |-> {}]
AllClear == [t \in Types |-> {}]

-----------------------------------------------------------------------------
(***************************************************************************)
(* streets_snmp_cmd_converter. Values are uint8_t: a phase above 8 has no  *)
(* bit.                                                                    *)
(***************************************************************************)

BitwiseOr(val, cmds, which) == {p \in 1..8 : p \in val \/ \E i \in which : cmds[i].phase = p}

\* A phase that ends twice is back.
BitwiseXor(val, cmds, which) ==
  LET Odd(p) == Cardinality({i \in which : cmds[i].phase = p}) % 2 = 1
  IN {p \in 1..8 : (p \in val) # Odd(p)}

\* The inner maps: the commands of a type that start, or end, at a time.
Starting(cmds, t, time) == {i \in DOMAIN cmds : cmds[i].type = t /\ cmds[i].start = time}
Ending(cmds, t, time) == {i \in DOMAIN cmds : cmds[i].type = t /\ cmds[i].end = time}

\* Steps 4 and 1.2: one command for each of the types, one type after the other.
Pushed(out, order, types, time, vals) ==
  LET pushed[n \in 0 .. Len(order)] ==
        IF n = 0 THEN out
        ELSE IF order[n] \in types
             THEN Append(pushed[n - 1],
                         [type |-> order[n], at |-> time, val |-> vals[order[n]]])
             ELSE pushed[n - 1]
  IN pushed[Len(order)]

\* Steps 1.2 and 5: at an end, the phases that end, and a command for each type that
\* ends.
AtEnd(cmds, acc, time) ==
  LET types == {t \in Types : Ending(cmds, t, time) # {}}
      vals == [t \in Types |-> BitwiseXor(acc.vals[t], cmds, Ending(cmds, t, time))]
  IN [vals |-> vals, out |-> Pushed(acc.out, CommandTypes, types, time, vals)]

MutantNoStep3(cmds, acc, time) ==
  LET types == {t \in Types : Starting(cmds, t, time) # {}}
      vals == [t \in Types |-> BitwiseOr(acc.vals[t], cmds, Starting(cmds, t, time))]
  IN [vals |-> vals, out |-> Pushed(acc.out, PushOrder, types, time, vals)]

\* Steps 2 to 4: at a start, the phases that start, those that end at the same time,
\* and a command for each type that starts.
AtStart(cmds, acc, time) ==
  LET types == {t \in Types : Starting(cmds, t, time) # {}}
      vals == [t \in Types |->
                 BitwiseXor(BitwiseOr(acc.vals[t], cmds, Starting(cmds, t, time)),
                            cmds, Ending(cmds, t, time))]
  IN [vals |-> vals, out |-> Pushed(acc.out, PushOrder, types, time, vals)]

\* The maps hold the times in their order, and before a start the code goes through
\* the ends since the start before (step 1.1): so one instant comes after the other.
AtTime(cmds, acc, time) ==
  IF \E i \in DOMAIN cmds : cmds[i].start = time THEN AtStart(cmds, acc, time)
  ELSE IF \E i \in DOMAIN cmds : cmds[i].end = time THEN AtEnd(cmds, acc, time)
  ELSE acc

\* The first instant when all commands have ended.
AllEnded(cmds) == Max({0} \cup {cmds[i].end + 1 : i \in DOMAIN cmds})

\* create_snmp_cmds_by_phase_control_schedule, for commands that start before they end.
SnmpCmds(cmds) ==
  LET converted[time \in 0 .. AllEnded(cmds)] ==
        IF time = 0 THEN [vals |-> AllClear, out |-> <<>>]
                    ELSE AtTime(cmds, converted[time - 1], time - 1)
  IN converted[AllEnded(cmds)].out

-----------------------------------------------------------------------------
ControlSteps == {"idle", "loop", "sleep", "batch", "set", "pop", "caught", "discard", "ended",
                 "undefined"}

ScheduleTypeOK ==
  /\ commands \in Seq(ScheduleCommand) /\ isClear \in BOOLEAN
  /\ queue \in Seq(Command) /\ command \in Command /\ executing \in Command
  /\ controlThread \in ControlSteps
  /\ tsc \in [Types -> SUBSET (1..8)]
  /\ {wake, clock, received, failures} \subseteq Nat /\ fresh \in BOOLEAN /\ old \subseteq Types

ScheduleInit ==
  /\ commands = <<>> /\ isClear = FALSE /\ queue = <<>>
  /\ controlThread = "idle" /\ command = NoCommand /\ executing = NoCommand /\ wake = 0
  /\ tsc = AllClear
  /\ clock = 0 /\ received = 0 /\ failures = 0 /\ fresh = FALSE /\ old = {}

\* The registers that have phases.
NotClear == {t \in Types : tsc[t] # {}}

\* run_clear_all_snmp_commands: nobody looks at which of the requests fail.
ClearAll(kept) ==
  /\ tsc' = [t \in Types |-> IF t \in kept THEN tsc[t] ELSE {}]
  /\ IF kept = {} THEN UNCHANGED failures
                  ELSE failures < MaxFailures /\ failures' = failures + 1
  /\ old' = kept

\* The points where the thread looks at the queue without the lock.
Looks ==
  \/ controlThread \in {"loop", "batch", "caught", "discard"}
  \/ controlThread \in {"idle", "sleep"} /\ wake <= clock

\* std::swap of the queue: whoever looks at it meanwhile may do anything.
Swap(q) ==
  /\ queue' = q /\ fresh' = FALSE
  /\ \/ UNCHANGED controlThread
     \/ Looks /\ controlThread' = "undefined"

Receive ==
  /\ received < MaxMessages
  /\ received' = received + 1
  /\ UNCHANGED <<command, executing, wake, clock>>

\* Commands, none of which starts after its end: their queue. What the registers have
\* is of earlier schedules.
ConsumeCommands(msg) ==
  /\ Receive
  /\ \A i \in DOMAIN msg : msg[i].start <= msg[i].end
  /\ commands' = msg /\ isClear' = FALSE
  /\ Swap(SnmpCmds(msg)) /\ old' = NotClear
  /\ UNCHANGED <<tsc, failures>>

\* A clear schedule: the controller is cleared, then the queue.
ConsumeClear(kept) ==
  /\ Receive
  /\ commands' = <<>> /\ isClear' = TRUE
  /\ ClearAll(kept) /\ Swap(<<>>)

\* Every other message: fromJson throws before it changes anything.
ConsumeMalformed ==
  /\ Receive
  /\ UNCHANGED <<commands, isClear, queue, controlThread, tsc, failures, fresh, old>>

-----------------------------------------------------------------------------
(***************************************************************************)
(* control_tsc_phases and set_tsc_hold_and_omit_forceoff_call.             *)
(***************************************************************************)
At(step) == controlThread = step /\ UNCHANGED <<commands, isClear, clock, received>>

Goto(step) == controlThread' = step

\* The call returns, and the thread sleeps.
Return == Goto("idle") /\ wake' = clock + SleepDur

\* A call with commands in the queue clears the controller first.
Enter(kept) ==
  /\ At("idle") /\ wake <= clock /\ queue # <<>>
  /\ ClearAll(kept)
  /\ Goto("loop")
  /\ UNCHANGED <<queue, command, executing, wake, fresh>>

\* A call without commands does not, though they may be there when it tests again.
EnterEmpty ==
  /\ At("idle") /\ wake <= clock /\ queue = <<>>
  /\ Goto("loop")
  /\ UNCHANGED <<queue, command, executing, wake, tsc, failures, fresh, old>>

\* The loop is over when there are no commands; an expired one is an exception.
LoopTest ==
  /\ At("loop")
  /\ IF queue = <<>>
     THEN Return /\ UNCHANGED <<command, fresh>>
     ELSE /\ command' = Head(queue) /\ fresh' = TRUE
          /\ IF Head(queue).at < clock
             THEN Goto("caught") /\ UNCHANGED wake
             ELSE Goto("sleep") /\ wake' = Head(queue).at
  /\ UNCHANGED <<queue, executing, tsc, failures, old>>

\* After the sleep: the queue was cleared, its front is another command, or on with it.
WakeUp ==
  /\ At("sleep") /\ wake <= clock
  /\ IF queue = <<>> \/ Head(queue) # command
     THEN Return
     ELSE Goto("batch") /\ UNCHANGED wake
  /\ UNCHANGED <<queue, command, executing, tsc, failures, fresh, old>>

\* The inner loop goes on while the front has the time of the command.
BatchTest ==
  /\ At("batch")
  /\ IF queue # <<>> /\ Head(queue).at = command.at
     THEN executing' = Head(queue) /\ fresh' = TRUE /\ Goto("set")
     ELSE Goto("loop") /\ UNCHANGED <<executing, fresh>>
  /\ UNCHANGED <<queue, command, wake, tsc, failures, old>>

\* run_snmp_cmd_set_request. The command may be one of a queue that is gone.
RunSet ==
  LET done == [tsc EXCEPT ![executing.type] = executing.val]
  IN /\ At("set")
     /\ \/ /\ tsc' = done
           /\ old' = IF fresh THEN old \ {executing.type} ELSE old \cup {executing.type}
           /\ Goto("pop") /\ UNCHANGED failures
        \* The request or its answer is lost.
        \/ /\ failures < MaxFailures /\ failures' = failures + 1
           /\ tsc' \in {tsc, done}
           /\ old' = old \cup {executing.type}
           /\ Goto("caught")
     /\ UNCHANGED <<queue, command, executing, wake, fresh>>

\* Under the lock the front goes, whatever it is now.
PopExecuted ==
  /\ At("pop")
  /\ IF queue = <<>>
     THEN Goto("undefined") /\ UNCHANGED <<queue, old>>
     ELSE /\ queue' = Tail(queue) /\ Goto("batch")
          /\ old' = IF fresh THEN old ELSE old \cup {Head(queue).type}
  /\ UNCHANGED <<command, executing, wake, tsc, failures, fresh>>

\* The handler of control_tsc_phases, after which the thread ends.
CatchTest ==
  /\ At("caught")
  /\ Goto(IF queue = <<>> THEN "ended" ELSE "discard")
  /\ UNCHANGED <<queue, command, executing, wake, tsc, failures, fresh, old>>

DiscardFront ==
  /\ At("discard")
  /\ IF queue = <<>>
     THEN Goto("undefined") /\ UNCHANGED <<queue, old>>
     ELSE /\ queue' = Tail(queue) /\ Goto("ended")
          /\ old' = old \cup {Head(queue).type}
  /\ UNCHANGED <<command, executing, wake, tsc, failures, fresh>>

Tick ==
  /\ clock < MaxTime
  /\ clock' = clock + 1
  /\ UNCHANGED <<commands, isClear, queue, threadVars, tsc, received, failures, fresh, old>>

ControlThread ==
  \/ \E kept \in SUBSET NotClear : Enter(kept)
  \/ EnterEmpty \/ LoopTest \/ WakeUp \/ BatchTest \/ RunSet \/ PopExecuted
  \/ CatchTest \/ DiscardFront

ScheduleNext ==
  \/ received < MaxMessages /\ \E msg \in Schedules : ConsumeCommands(msg)
  \/ received < MaxMessages /\ \E kept \in SUBSET NotClear : ConsumeClear(kept)
  \/ ConsumeMalformed
  \/ ControlThread \/ Tick

ScheduleSpec == ScheduleInit /\ [][ScheduleNext]_scheduleVars

-----------------------------------------------------------------------------
\* What the properties ask of a schedule: no two commands of one type and phase share an
\* instant, and a type that ends when another type starts starts again itself. Without
\* either the controller is left with phases held or omitted (README, Divergences).
Apart(cmds) ==
  \A i, j \in DOMAIN cmds :
    i # j /\ cmds[i].type = cmds[j].type /\ cmds[i].phase = cmds[j].phase
    => cmds[i].end < cmds[j].start \/ cmds[j].end < cmds[i].start

EndsAlone(cmds) ==
  \A i, j \in DOMAIN cmds :
    cmds[i].end = cmds[j].start =>
      \E k \in DOMAIN cmds : cmds[k].type = cmds[i].type /\ cmds[k].start = cmds[i].end

ObeyableAssumption ==
  /\ SchedulesAssumption
  /\ \A cmds \in Schedules :
       (\A i \in DOMAIN cmds : cmds[i].start <= cmds[i].end) => Apart(cmds) /\ EndsAlone(cmds)

\* The reference: the phases whose commands of a type have started and have not
\* ended at a time.
Active(cmds, t, time) ==
  {p \in 1..8 : \E i \in DOMAIN cmds : /\ cmds[i].type = t /\ cmds[i].phase = p
                                       /\ cmds[i].start <= time /\ time < cmds[i].end}

\* The thread is done with everything before now: it sleeps before the front
\* command, or there is none.
Following ==
  /\ wake > clock
  /\ \/ controlThread = "sleep" /\ queue # <<>> /\ command = Head(queue)
     \/ controlThread = "idle" /\ queue = <<>>

\* The queue is in the order of time, whatever the schedule is: the control
\* thread would throw at a command that is earlier than the one before it.
QueueInOrder == \A i, j \in DOMAIN queue : i < j => queue[i].at <= queue[j].at

\* The controller has, at every time that the thread keeps up with, exactly the phases
\* that the schedule asks for: nothing is left held or omitted after its end, nothing is
\* released early. It has them in every register but the old ones: those neither cleared
\* nor set since the schedule came, those whose clear was lost, those that a command of
\* an earlier queue went to, and those whose command was popped in the place of such a
\* one, each until the next command of the schedule for it
\* (create_snmp_cmds_by_phase_control_schedule, set_tsc_hold_and_omit_forceoff_call).
AsScheduled == Following => \A t \in Types \ old : tsc[t] = Active(commands, t, clock)

\* A clear schedule leaves no command, and no register with phases unless its clear
\* was lost or the thread was about to set it, until another schedule comes.
ClearStays == isClear => queue = <<>> /\ \A t \in Types \ old : tsc[t] = {}

\* The queue made of a schedule is in the order of time, the controller does what the
\* schedule asks for, no earlier and no longer, and a clear schedule leaves no control
\* until the next one.
ScheduleIsObeyed == ScheduleTypeOK /\ QueueInOrder /\ AsScheduled /\ ClearStays

==============================================================================
