-------------------------- MODULE TscControl_proofs ---------------------------
(***************************************************************************)
(* What is proved of TscControl for every signal group map, every set of   *)
(* plans, every bound, every outcome of the SNMP requests and every value  *)
(* that a torn read may return.                                            *)
(*                                                                         *)
(* IInv is inductive; each of its parts is preserved by a lemma of its     *)
(* own, with a step for every action that touches what the part is about.  *)
(***************************************************************************)
EXTENDS TscControl, SequenceTheorems, TLAPS

-----------------------------------------------------------------------------
(***************************************************************************)
(* The commands that PhaseCommands builds from a plan.                     *)
(***************************************************************************)

\* A mask has bits of phases 1 to 8 only, so it is a set of naturals.
LEMMA MaskType ==
  ASSUME NEW phases
  PROVE  BitwiseOrPhases(phases) \in SUBSET Nat
  BY DEF BitwiseOrPhases

\* The unsigned difference of two times is a time.
LEMMA DifferenceType ==
  ASSUME NEW a \in Int
  PROVE  /\ a % TimeModulus \in Time
         /\ a % TimeModulus \in Nat
  BY TimeModulusAssumption DEF Time

LEMMA MidpointType ==
  ASSUME NEW from \in Nat, NEW to \in Nat
  PROVE  Midpoint(from, to) \in Time
  <1> DEFINE gap == (to - from) % TimeModulus
  <1>1. gap \in Nat
    BY DifferenceType
  <1>2. gap \div 2 \in Nat
    BY <1>1
  <1> HIDE DEF gap
  <1>3. from + (gap \div 2) \in Int
    BY <1>2
  <1> QED
    BY <1>3, DifferenceType DEF Midpoint, gap

\* An unsigned difference of two times in order is their difference.
LEMMA DifferenceInOrder ==
  ASSUME NEW a \in Time, NEW b \in Nat, b <= a
  PROVE  (a - b) % TimeModulus = a - b
  <1>1. a - b \in 0 .. TimeModulus - 1
    BY TimeModulusAssumption DEF Time
  <1> QED
    BY <1>1, TimeModulusAssumption

LEMMA OmitTimeType ==
  ASSUME NEW plan \in Plan, NEW i \in 1 .. Len(plan), NEW time \in Nat
  PROVE  OmitTime(plan, i, time) \in Time
  <1>1. plan[i] \in Event /\ plan[1] \in Event
    BY ElementOfSeq DEF Plan
  <1>2. /\ plan[i].start \in Nat /\ plan[i].end \in Nat
        /\ plan[1].end \in Nat
    BY <1>1 DEF Event, Time
  <1> QED
    BY <1>2, MidpointType DEF OmitTime

LEMMA CommandByGroupsType ==
  ASSUME NEW groups, NEW type \in {"HOLD", "OMIT"}, NEW time \in Time
  PROVE  CreateCommandBySignalGroups(groups, type, time) \in Command
  BY MaskType DEF CreateCommandBySignalGroups, Command

LEMMA ResetCommandType ==
  ASSUME NEW type \in {"HOLD", "OMIT"}, NEW time \in Time
  PROVE  CreateResetCommand(type, time) \in Command
  BY DEF CreateResetCommand, Command

LEMMA OmitCommandType ==
  ASSUME NEW plan \in Plan, NEW i \in 1 .. Len(plan), NEW time \in Nat
  PROVE  OmitCommand(plan, i, time) \in Command
  BY OmitTimeType, CommandByGroupsType, ResetCommandType DEF OmitCommand

LEMMA HoldCommandType ==
  ASSUME NEW plan \in Plan, NEW i \in 1 .. Len(plan)
  PROVE  HoldCommand(plan, i) \in Command
  <1>1. plan[i] \in Event
    BY ElementOfSeq DEF Plan
  <1>2. plan[i].end \in Time
    BY <1>1 DEF Event
  <1> QED
    BY <1>2, CommandByGroupsType, ResetCommandType DEF HoldCommand

\* A plan becomes two commands for each of its greens.
LEMMA CommandsType ==
  ASSUME NEW plan \in Plan, NEW time \in Nat
  PROVE  /\ Commands(plan, time) \in Seq(Command)
         /\ Len(Commands(plan, time)) = 2 * Len(plan)
  <1> DEFINE n == 2 * Len(plan)
             cmds == Commands(plan, time)
  <1>1. Len(plan) \in Nat
    BY LenProperties DEF Plan
  <1>2. ASSUME NEW k \in 1 .. n
        PROVE  cmds[k] \in Command
    <2>1. CASE k % 2 = 1
      <3>1. (k + 1) \div 2 \in 1 .. Len(plan)
        BY <1>1, <2>1
      <3> QED
        BY <2>1, <3>1, OmitCommandType DEF Commands
    <2>2. CASE k % 2 # 1
      <3>1. k \div 2 \in 1 .. Len(plan)
        BY <1>1, <2>2
      <3> QED
        BY <2>2, <3>1, HoldCommandType DEF Commands
    <2> QED
      BY <2>1, <2>2
  <1>3. cmds \in [1 .. n -> Command]
    BY <1>2 DEF Commands
  <1>4. n \in Nat
    BY <1>1
  <1> QED
    BY <1>3, <1>4

\* What the commands of a plan are, by their places.
LEMMA CommandAt ==
  ASSUME NEW plan \in Plan, NEW time \in Nat, NEW i \in 1 .. Len(plan)
  PROVE  /\ Commands(plan, time)[2 * i - 1] = OmitCommand(plan, i, time)
         /\ Commands(plan, time)[2 * i] = HoldCommand(plan, i)
  <1>1. Len(plan) \in Nat
    BY LenProperties DEF Plan
  <1>2. /\ 2 * i - 1 \in 1 .. 2 * Len(plan) /\ 2 * i \in 1 .. 2 * Len(plan)
        /\ (2 * i - 1) % 2 = 1 /\ (2 * i) % 2 # 1
        /\ (2 * i - 1 + 1) \div 2 = i /\ (2 * i) \div 2 = i
    BY <1>1
  <1> QED
    BY <1>2 DEF Commands

\* The phases that are held at the end of a green are none of those omitted before.
LEMMA HeldNotOmitted ==
  ASSUME NEW plan \in Plan, NEW time \in Nat, NEW i \in 1 .. Len(plan)
  PROVE  /\ OmitCommand(plan, i, time).type = "OMIT"
         /\ HoldCommand(plan, i).type = "HOLD"
         /\ OmitCommand(plan, i, time).val \cap HoldCommand(plan, i).val = {}
  <1> USE DEF OmitCommand, HoldCommand, CreateResetCommand, CreateCommandBySignalGroups
  <1>1. CASE i = Len(plan)
    BY <1>1
  <1>2. CASE i # Len(plan)
    BY <1>2, PhasesDistinctAssumption DEF GroupsToOmit, BitwiseOrPhases
  <1> QED
    BY <1>1, <1>2

\* OMIT and HOLD alternate, and a HOLD has no phase of the OMIT before it.
LEMMA CommandsAlternate ==
  ASSUME NEW plan \in Plan, NEW time \in Nat, NEW n \in 1 .. 2 * Len(plan)
  PROVE  /\ Commands(plan, time)[n].type = IF n % 2 = 1 THEN "OMIT" ELSE "HOLD"
         /\ n % 2 = 0 => Commands(plan, time)[n - 1].val \cap Commands(plan, time)[n].val = {}
  <1>1. Len(plan) \in Nat
    BY LenProperties DEF Plan
  <1>2. CASE n % 2 = 1
    <2>1. PICK i \in 1 .. Len(plan) : n = 2 * i - 1
      <3>1. (n + 1) \div 2 \in 1 .. Len(plan) /\ n = 2 * ((n + 1) \div 2) - 1
        BY <1>1, <1>2
      <3> QED
        BY <3>1
    <2> QED
      BY <1>2, <2>1, CommandAt, HeldNotOmitted
  <1>3. CASE n % 2 # 1
    <2>1. PICK i \in 1 .. Len(plan) : n = 2 * i
      <3>1. n \div 2 \in 1 .. Len(plan) /\ n = 2 * (n \div 2)
        BY <1>1, <1>3
      <3> QED
        BY <3>1
    <2> QED
      BY <1>3, <2>1, CommandAt, HeldNotOmitted
  <1> QED
    BY <1>2, <1>3

\* The commands of a plan of two greens or more end with an OMIT and a HOLD
\* that clear their registers, whatever the plan holds and omits before.
THEOREM PlansEndReleased ==
  ASSUME NEW plan \in Plan, NEW time \in Nat, Len(plan) >= 2
  PROVE  EndsReleased(Commands(plan, time))
  <1> DEFINE n == 2 * Len(plan)
             cmds == Commands(plan, time)
  <1>1. Len(plan) \in Nat
    BY LenProperties DEF Plan
  <1>2. Len(cmds) = n /\ n >= 4
    BY <1>1, CommandsType
  <1>3. cmds[n] = HoldCommand(plan, Len(plan))
    <2>1. n \in 1 .. n /\ n % 2 # 1 /\ n \div 2 = Len(plan)
      BY <1>1
    <2> QED
      BY <2>1 DEF Commands
  <1>4. cmds[n - 1] = OmitCommand(plan, Len(plan), time)
    <2>1. n - 1 \in 1 .. n /\ (n - 1) % 2 = 1 /\ (n - 1 + 1) \div 2 = Len(plan)
      BY <1>1
    <2> QED
      BY <2>1 DEF Commands
  <1> HIDE DEF cmds
  <1>5. cmds[n].type = "HOLD" /\ cmds[n].val = {}
    BY <1>3 DEF HoldCommand, CreateResetCommand
  <1>6. cmds[n - 1].type = "OMIT" /\ cmds[n - 1].val = {}
    BY <1>4 DEF OmitCommand, CreateResetCommand
  <1> QED
    BY <1>2, <1>5, <1>6 DEF EndsReleased, cmds

-----------------------------------------------------------------------------
(***************************************************************************)
(* The threads.                                                            *)
(***************************************************************************)

LEMMA NoCommandType == NoCommand \in Command
  BY TimeModulusAssumption DEF NoCommand, Command, Time

LEMMA TornReadType ==
  ASSUME TypeOK, NEW front \in FrontOfQueue
  PROVE  front \in Command
  <1>1. CASE queue = <<>>
    BY <1>1, TornReadsAssumption DEF FrontOfQueue
  <1>2. CASE queue # <<>>
    BY <1>2, HeadTailProperties DEF FrontOfQueue, TypeOK
  <1> QED
    BY <1>1, <1>2

\* Of a queue with an element, front() returns that element.
LEMMA FrontOfNonEmpty ==
  ASSUME TypeOK, queue # <<>>, NEW front \in FrontOfQueue
  PROVE  front = queue[1] /\ Len(queue) \in Nat \ {0}
  BY EmptySeq DEF FrontOfQueue, TypeOK

\* A SET writes the register of its command and no other.
LEMMA WrittenType ==
  ASSUME TypeOK, NEW cmd \in Command
  PROVE  Written(cmd) \in [Registers -> SUBSET Nat]
  BY DEF TypeOK, Written, Registers, Command

LEMMA IdleUntilType ==
  ASSUME TypeOK
  PROVE  IdleUntil \in Nat
  BY BoundsAssumption DEF IdleUntil, TypeOK

-----------------------------------------------------------------------------
LEMMA InitIInv == Init => IInv
  <1> SUFFICES ASSUME Init PROVE IInv
    OBVIOUS
  <1>1. <<>> \in Plan /\ <<>> \in Seq(Command)
    BY EmptySeq DEF Plan
  <1>2. tsc \in [Registers -> SUBSET Nat]
    BY MaskType DEF Init
  <1>3. TypeOK
    BY <1>1, <1>2, NoCommandType DEF Init, TypeOK
  <1>4. CommandsInv /\ DppInv /\ FrontInv /\ ExecutingInv /\ ReleaseInv /\ ClockInv
    BY DEF Init, CommandsInv, DppInv, FrontInv, ExecutingInv, ReleaseInv,
           ClockInv, Built
  <1>5. QueueInv
    <2>1. Len(queue) = 0 /\ Len(commands) = 0 /\ ~ QueueMtxHeld
      BY EmptySeq DEF Init, QueueMtxHeld
    <2>2. 1 .. Len(queue) = {}
      BY <2>1
    <2> QED
      BY <2>1, <2>2 DEF QueueInv
  <1> QED
    BY <1>3, <1>4, <1>5 DEF IInv

-----------------------------------------------------------------------------
LEMMA TypeStep == IInv /\ [Next]_vars => TypeOK'
  <1> SUFFICES ASSUME TypeOK, QueueInv, FrontInv, [Next]_vars PROVE TypeOK'
    BY DEF IInv
  <1> USE DEF TypeOK
  <1>0. CASE UNCHANGED vars
    BY <1>0 DEF vars
  <1>1. CASE Tick
    BY <1>1 DEF Tick
  <1>2. CASE Restart
    BY <1>2, EmptySeq, NoCommandType DEF Restart, Plan
  <1>3. ASSUME NEW plan \in Plans, Consume(plan) PROVE TypeOK'
    BY <1>3, PlansAssumption DEF Consume, controlVars
  <1>4. CASE UpdateDesiredPhasePlan
    BY <1>4 DEF UpdateDesiredPhasePlan, controlVars
  <1>5. CASE UpdateDesiredPhasePlanThrows
    BY <1>5, EmptySeq DEF UpdateDesiredPhasePlanThrows, Terminate, controlVars, Plan
  <1>6. CASE SkipShortPlan
    BY <1>6 DEF SkipShortPlan, controlVars
  <1>7. CASE RejectRepeatedGroup
    BY <1>7 DEF RejectRepeatedGroup, Terminate, consumerVars, controlVars
  <1>8. CASE ResetQueue
    BY <1>8, CommandsType, EmptySeq DEF ResetQueue, controlVars
  <1>9. CASE PushCommand
    <2>1. pushed + 1 \in 1 .. Len(commands)
      BY <1>9, LenProperties DEF PushCommand, QueueInv, QueueMtxHeld
    <2>2. commands[pushed + 1] \in Command
      BY <2>1, ElementOfSeq
    <2> QED
      BY <1>9, <2>2 DEF PushCommand, controlVars
  <1>10. CASE PushCommandThrows
    BY <1>10 DEF PushCommandThrows, Terminate, consumerVars, controlVars
  <1>11. CASE PruneExpiredGreensFromDpp
    <2>1. PICK k \in 1 .. Len(dpp) : dpp' = SubSeq(dpp, k + 1, Len(dpp))
      BY <1>11 DEF PruneExpiredGreensFromDpp
    <2>2. \A i \in k + 1 .. Len(dpp) : dpp[i] \in Event
      BY <2>1, LenProperties, ElementOfSeq DEF Plan
    <2>3. dpp' \in Plan
      BY <2>1, <2>2, LenProperties, SubSeqProperties DEF Plan
    <2> QED
      BY <1>11, <2>3 DEF PruneExpiredGreensFromDpp, controlVars
  <1>12. CASE StartCall
    BY <1>12 DEF StartCall, Goto, consumerVars
  <1>13. CASE RunClearAll
    <2>1. tsc' \in [Registers -> SUBSET Nat]
      BY <1>13 DEF RunClearAll
    <2> QED
      BY <1>13, <2>1 DEF RunClearAll, consumerVars
  <1>14. CASE LoopTest
    BY <1>14, IdleUntilType DEF LoopTest, Goto, consumerVars
  <1>15. CASE PeekFront
    <2>1. PICK front \in FrontOfQueue :
            /\ current' = front
            /\ IF IsExpired(front)
                 THEN controlPc' = "catch" /\ UNCHANGED wake
                 ELSE /\ controlPc' = "sleep"
                      /\ wake' = now + ((front.at - now) % TimeModulus)
      BY <1>15 DEF PeekFront
    <2>2. front \in Command
      BY TornReadType
    <2>3. front.at - now \in Int
      BY <2>2 DEF Command, Time
    <2>4. (front.at - now) % TimeModulus \in Nat
      BY <2>3, DifferenceType
    <2>5. wake' \in Nat /\ controlPc' \in {"catch", "sleep"}
      BY <2>1, <2>4
    <2> QED
      BY <1>15, <2>1, <2>2, <2>5 DEF PeekFront, consumerVars
  <1>16. CASE WakeUp
    BY <1>16 DEF WakeUp, Goto, consumerVars
  <1>17. CASE RecheckEmpty
    BY <1>17, IdleUntilType DEF RecheckEmpty, Goto, consumerVars
  <1>18. CASE CompareFront
    BY <1>18, IdleUntilType DEF CompareFront, Goto, consumerVars
  <1>19. CASE BatchTest
    BY <1>19 DEF BatchTest, OnEmpty, Goto, consumerVars
  <1>20. CASE ReadFront
    BY <1>20, TornReadType DEF ReadFront, consumerVars
  <1>21. CASE RunSet
    BY <1>21, WrittenType DEF RunSet, consumerVars
  <1>22. CASE PopExecuted \/ DiscardFront
    <2>1. queue # <<>>
      BY <1>22 DEF PopExecuted, DiscardFront, Pop, FrontInv
    <2>2. Tail(queue) \in Seq(Command)
      BY <2>1, HeadTailProperties
    <2> QED
      BY <1>22, <2>2 DEF PopExecuted, DiscardFront, Pop, consumerVars
  <1>23. CASE CatchTest
    BY <1>23 DEF CatchTest, OnEmpty, Goto, consumerVars
  <1>24. CASE TornReadCrash
    BY <1>24 DEF TornReadCrash, Terminate, consumerVars, controlVars
  <1> QED
    BY <1>0, <1>1, <1>2, <1>3, <1>4, <1>5, <1>6, <1>7, <1>8, <1>9, <1>10,
       <1>11, <1>12, <1>13, <1>14, <1>15, <1>16, <1>17, <1>18, <1>19, <1>20,
       <1>21, <1>22, <1>23, <1>24
       DEF Next, Consumer, Control

-----------------------------------------------------------------------------
(***************************************************************************)
(* Which steps touch the queue.                                            *)
(***************************************************************************)
LEMMA QueueFrame ==
  [Next]_vars => \/ /\ UNCHANGED <<queue, commands, pushed>>
                    /\ QueueMtxHeld' <=> QueueMtxHeld
                 \/ Restart \/ ResetQueue \/ PushCommand
                 \/ PopExecuted \/ DiscardFront
  <1> DEFINE Frame == /\ UNCHANGED <<queue, commands, pushed>>
                      /\ QueueMtxHeld' <=> QueueMtxHeld
  <1> SUFFICES ASSUME [Next]_vars,
                      ~ Restart, ~ ResetQueue, ~ PushCommand,
                      ~ PopExecuted, ~ DiscardFront
               PROVE  Frame
    OBVIOUS
  <1> USE DEF QueueMtxHeld
  <1>1. CASE UNCHANGED vars \/ Tick
    BY <1>1 DEF vars, Tick
  <1>2. ASSUME NEW plan \in Plans, Consume(plan) PROVE Frame
    BY <1>2 DEF Consume
  <1>3. CASE \/ UpdateDesiredPhasePlan \/ UpdateDesiredPhasePlanThrows
             \/ SkipShortPlan \/ RejectRepeatedGroup \/ PushCommandThrows
    BY <1>3 DEF UpdateDesiredPhasePlan, UpdateDesiredPhasePlanThrows,
                SkipShortPlan, RejectRepeatedGroup, PushCommandThrows, consumerVars
  <1>4. CASE PruneExpiredGreensFromDpp \/ TornReadCrash
    BY <1>4 DEF PruneExpiredGreensFromDpp, TornReadCrash, consumerVars
  <1>5. CASE \/ StartCall \/ RunClearAll \/ LoopTest \/ PeekFront \/ WakeUp
             \/ RecheckEmpty \/ CompareFront
    BY <1>5 DEF StartCall, RunClearAll, LoopTest, PeekFront, WakeUp,
                RecheckEmpty, CompareFront, Goto, consumerVars
  <1>6. CASE BatchTest \/ ReadFront \/ RunSet \/ CatchTest
    BY <1>6 DEF BatchTest, ReadFront, RunSet, CatchTest, OnEmpty, Goto, consumerVars
  <1> QED
    BY <1>1, <1>2, <1>3, <1>4, <1>5, <1>6 DEF Next, Consumer, Control

LEMMA PopStep ==
  ASSUME IInv, PopExecuted \/ DiscardFront
  PROVE  /\ ~ QueueMtxHeld /\ ~ QueueMtxHeld'
         /\ commands' = commands
         /\ Len(queue) \in Nat \ {0}
         /\ Len(queue') = Len(queue) - 1
         /\ \A i \in 1 .. Len(queue') : queue'[i] = queue[i + 1]
         /\ UNCHANGED <<now, tsc, current>>
  <1>1. ~ QueueMtxHeld /\ ~ QueueMtxHeld' /\ queue # <<>>
    BY DEF PopExecuted, DiscardFront, Pop, QueueMtxHeld, consumerVars, IInv, FrontInv
  <1>2. queue' = Tail(queue) /\ UNCHANGED <<commands, now, tsc, current>>
    BY DEF PopExecuted, DiscardFront, Pop, consumerVars
  <1>3. queue \in Seq(Command)
    BY DEF IInv, TypeOK
  <1> QED
    BY <1>1, <1>2, <1>3, HeadTailProperties, EmptySeq

LEMMA PushStep ==
  ASSUME IInv, PushCommand
  PROVE  /\ QueueMtxHeld
         /\ Len(queue') = pushed' /\ pushed' = pushed + 1
         /\ Len(queue') \in 1 .. Len(commands)
         /\ \A i \in 1 .. Len(queue') : queue'[i] = commands[i]
         /\ QueueMtxHeld' <=> Len(queue') < Len(commands)
         /\ UNCHANGED <<commands, tsc, controlPc, now>>
  <1>1. QueueMtxHeld
    BY DEF PushCommand, QueueMtxHeld
  <1>2. /\ Len(queue) = pushed /\ pushed < Len(commands)
        /\ \A i \in 1 .. Len(queue) : queue[i] = commands[i]
    BY <1>1 DEF IInv, QueueInv
  <1>3. queue \in Seq(Command) /\ pushed \in Nat /\ Len(commands) \in Nat
    BY LenProperties DEF IInv, TypeOK
  <1>4. /\ queue' = Append(queue, commands[pushed + 1])
        /\ pushed' = pushed + 1
        /\ UNCHANGED <<commands, tsc, controlPc, now>>
        /\ consumerPc' = IF pushed + 1 = Len(commands) THEN "consume" ELSE "push"
    BY DEF PushCommand, controlVars
  <1>5. commands[pushed + 1] \in Command
    BY <1>2, <1>3, ElementOfSeq DEF IInv, TypeOK
  <1>6. /\ Len(queue') = pushed + 1
        /\ \A i \in 1 .. Len(queue) : queue'[i] = queue[i]
        /\ queue'[pushed + 1] = commands[pushed + 1]
    BY <1>2, <1>3, <1>4, <1>5, AppendProperties
  <1>7. \A i \in 1 .. pushed + 1 : queue'[i] = commands[i]
    BY <1>2, <1>3, <1>6
  <1>8. QueueMtxHeld' <=> pushed + 1 < Len(commands)
    BY <1>2, <1>3, <1>4 DEF QueueMtxHeld
  <1> QED
    BY <1>1, <1>2, <1>3, <1>4, <1>6, <1>7, <1>8

LEMMA ResetStep ==
  ASSUME IInv, ResetQueue
  PROVE  /\ QueueMtxHeld'
         /\ queue' = <<>> /\ pushed' = 0
         /\ EndsReleased(commands')
  <1>1. dpp \in Plan /\ now \in Nat /\ Len(dpp) >= 2
    BY DEF IInv, TypeOK, ResetQueue
  <1> QED
    BY <1>1, PlansEndReleased DEF ResetQueue, QueueMtxHeld

LEMMA CommandsStep == IInv /\ [Next]_vars => CommandsInv'
  <1> SUFFICES ASSUME IInv, [Next]_vars PROVE CommandsInv'
    OBVIOUS
  <1>1. CASE ResetQueue
    BY <1>1, ResetStep DEF CommandsInv
  <1>2. CASE Restart
    BY <1>2 DEF Restart, CommandsInv
  <1>3. CASE UNCHANGED commands
    BY <1>3 DEF IInv, CommandsInv
  <1> QED
    BY <1>1, <1>2, <1>3, QueueFrame, PopStep, PushStep

LEMMA QueueStep == IInv /\ [Next]_vars => QueueInv'
  <1> SUFFICES ASSUME IInv, [Next]_vars PROVE QueueInv'
    OBVIOUS
  <1>0. queue \in Seq(Command) /\ Len(commands) \in Nat
    BY LenProperties DEF IInv, TypeOK
  <1>1. CASE UNCHANGED <<queue, commands, pushed>> /\ (QueueMtxHeld' <=> QueueMtxHeld)
    BY <1>1 DEF IInv, QueueInv
  <1>2. CASE Restart
    <2>1. Len(queue') = 0 /\ Len(commands') = 0 /\ ~ QueueMtxHeld'
      BY <1>2, EmptySeq DEF Restart, QueueMtxHeld
    <2>2. 1 .. Len(queue') = {}
      BY <2>1
    <2> QED
      BY <2>1, <2>2 DEF QueueInv
  <1>3. CASE ResetQueue
    <2>1. /\ QueueMtxHeld' /\ Len(queue') = 0 /\ pushed' = 0
          /\ Len(commands') >= 4
      BY <1>3, ResetStep, EmptySeq DEF EndsReleased
    <2>2. 1 .. Len(queue') = {}
      BY <2>1
    <2> QED
      BY <2>1, <2>2 DEF QueueInv
  <1>4. CASE PushCommand
    <2>1. CASE QueueMtxHeld'
      BY <1>4, <2>1, PushStep DEF QueueInv
    <2>2. CASE ~ QueueMtxHeld'
      <3>1. Len(queue') = Len(commands') /\ Len(queue') \in Nat
        BY <1>0, <1>4, <2>2, PushStep
      <3>2. \A i \in 1 .. Len(queue') :
              queue'[i] = commands'[Len(commands') - Len(queue') + i]
        BY <1>4, <3>1, PushStep
      <3> QED
        BY <2>2, <3>1, <3>2 DEF QueueInv
    <2> QED
      BY <2>1, <2>2
  <1>5. CASE PopExecuted \/ DiscardFront
    <2>1. /\ Len(queue) <= Len(commands)
          /\ \A i \in 1 .. Len(queue) :
               queue[i] = commands[Len(commands) - Len(queue) + i]
      BY <1>5, PopStep DEF IInv, QueueInv
    <2>2. /\ ~ QueueMtxHeld' /\ commands' = commands
          /\ Len(queue) \in Nat \ {0} /\ Len(queue') = Len(queue) - 1
          /\ \A i \in 1 .. Len(queue') : queue'[i] = queue[i + 1]
      BY <1>5, PopStep
    <2>3. \A i \in 1 .. Len(queue') :
            queue'[i] = commands[Len(commands) - Len(queue) + (i + 1)]
      BY <2>1, <2>2
    <2>4. \A i \in 1 .. Len(queue') :
            queue'[i] = commands[Len(commands) - Len(queue') + i]
      BY <1>0, <2>2, <2>3
    <2> QED
      BY <1>0, <2>1, <2>2, <2>4 DEF QueueInv
  <1> QED
    BY <1>1, <1>2, <1>3, <1>4, <1>5, QueueFrame

LEMMA DppStep == IInv /\ [Next]_vars => DppInv'
  <1> SUFFICES ASSUME DppInv, [Next]_vars PROVE DppInv'
    BY DEF IInv
  <1> USE DEF DppInv, DppMtxHeld
  <1>1. CASE UNCHANGED vars \/ Tick
    BY <1>1 DEF vars, Tick
  <1>2. CASE Restart
    BY <1>2 DEF Restart
  <1>3. ASSUME NEW plan \in Plans, Consume(plan) PROVE DppInv'
    BY <1>3 DEF Consume
  <1>4. CASE \/ UpdateDesiredPhasePlan \/ UpdateDesiredPhasePlanThrows
             \/ SkipShortPlan \/ RejectRepeatedGroup
    BY <1>4 DEF UpdateDesiredPhasePlan, UpdateDesiredPhasePlanThrows,
                SkipShortPlan, RejectRepeatedGroup, consumerVars
  <1>5. CASE ResetQueue \/ PushCommand \/ PushCommandThrows
    BY <1>5 DEF ResetQueue, PushCommand, PushCommandThrows, consumerVars
  <1>6. CASE PruneExpiredGreensFromDpp
    BY <1>6 DEF PruneExpiredGreensFromDpp
  <1>7. CASE TornReadCrash
    BY <1>7 DEF TornReadCrash, consumerVars
  <1>8. CASE \/ StartCall \/ RunClearAll \/ LoopTest \/ PeekFront \/ WakeUp
             \/ RecheckEmpty \/ CompareFront
    BY <1>8 DEF StartCall, RunClearAll, LoopTest, PeekFront, WakeUp,
                RecheckEmpty, CompareFront, Goto, consumerVars
  <1>9. CASE \/ BatchTest \/ ReadFront \/ RunSet \/ CatchTest
             \/ PopExecuted \/ DiscardFront
    BY <1>9 DEF BatchTest, ReadFront, RunSet, CatchTest, PopExecuted,
                DiscardFront, Pop, OnEmpty, Goto, consumerVars
  <1> QED
    BY <1>1, <1>2, <1>3, <1>4, <1>5, <1>6, <1>7, <1>8, <1>9
       DEF Next, Consumer, Control

-----------------------------------------------------------------------------
(***************************************************************************)
(* Which steps touch the control thread and the controller.                *)
(***************************************************************************)
LEMMA ControlFrame ==
  [Next]_vars => \/ UNCHANGED <<controlPc, current, executing, wake, tsc>>
                 \/ Restart \/ Control
  <1> SUFFICES ASSUME [Next]_vars, ~ Restart, ~ Control
               PROVE  UNCHANGED <<controlPc, current, executing, wake, tsc>>
    OBVIOUS
  <1>1. CASE UNCHANGED vars \/ Tick
    BY <1>1 DEF vars, Tick
  <1>2. ASSUME NEW plan \in Plans, Consume(plan)
        PROVE  UNCHANGED <<controlPc, current, executing, wake, tsc>>
    BY <1>2 DEF Consume, controlVars
  <1>3. CASE Consumer
    BY <1>3 DEF Consumer, UpdateDesiredPhasePlan, UpdateDesiredPhasePlanThrows,
                SkipShortPlan, RejectRepeatedGroup, ResetQueue, PushCommand,
                PushCommandThrows, controlVars
  <1>4. CASE PruneExpiredGreensFromDpp \/ TornReadCrash
    BY <1>4 DEF PruneExpiredGreensFromDpp, TornReadCrash, controlVars
  <1> QED
    BY <1>1, <1>2, <1>3, <1>4 DEF Next

\* The clock does not go back; only Tick and Restart do not keep it.
LEMMA ClockFrame == IInv /\ [Next]_vars => now' \in Nat /\ now' >= now
  <1> SUFFICES ASSUME now \in Nat, [Next]_vars PROVE now' = now \/ now' = now + 1
    BY DEF IInv, TypeOK
  <1>1. CASE UNCHANGED vars \/ Tick \/ Restart
    BY <1>1 DEF vars, Tick, Restart
  <1>2. ASSUME NEW plan \in Plans, Consume(plan) PROVE now' = now
    BY <1>2 DEF Consume
  <1>3. CASE Consumer
    BY <1>3 DEF Consumer, UpdateDesiredPhasePlan, UpdateDesiredPhasePlanThrows,
                SkipShortPlan, RejectRepeatedGroup, ResetQueue, PushCommand,
                PushCommandThrows
  <1>4. CASE PruneExpiredGreensFromDpp \/ TornReadCrash
    BY <1>4 DEF PruneExpiredGreensFromDpp, TornReadCrash
  <1>5. CASE Control
    BY <1>5 DEF Control, StartCall, RunClearAll, LoopTest, PeekFront, WakeUp,
                RecheckEmpty, CompareFront, BatchTest, ReadFront, RunSet,
                CatchTest, PopExecuted, DiscardFront, Pop, OnEmpty, Goto
  <1> QED
    BY <1>1, <1>2, <1>3, <1>4, <1>5 DEF Next

LEMMA FrontStep == IInv /\ [Next]_vars => FrontInv'
  <1> SUFFICES ASSUME IInv, [Next]_vars PROVE FrontInv'
    OBVIOUS
  <1>1. CASE Restart
    BY <1>1 DEF Restart, FrontInv
  <1>2. CASE ResetQueue
    BY <1>2, ResetStep DEF FrontInv
  <1>3. CASE PushCommand
    <2>1. Len(queue') # 0
      BY <1>3, PushStep, LenProperties DEF IInv, TypeOK
    <2> QED
      BY <2>1, EmptySeq DEF FrontInv
  <1>4. CASE PopExecuted \/ DiscardFront
    BY <1>4 DEF PopExecuted, DiscardFront, Pop, FrontInv
  <1>5. CASE UNCHANGED queue /\ (QueueMtxHeld' <=> QueueMtxHeld)
    <2>1. CASE UNCHANGED controlPc
      BY <1>5, <2>1 DEF IInv, FrontInv
    <2>2. CASE Control
      <3>1. CASE PopExecuted \/ DiscardFront
        BY <3>1 DEF PopExecuted, DiscardFront, Pop, FrontInv
      <3>2. CASE \/ StartCall \/ RunClearAll \/ LoopTest \/ PeekFront \/ WakeUp
                 \/ RecheckEmpty \/ CompareFront
        BY <1>5, <3>2 DEF StartCall, RunClearAll, LoopTest, PeekFront, WakeUp,
                          RecheckEmpty, CompareFront, Goto, FrontInv, IInv
      <3>3. CASE BatchTest \/ ReadFront \/ RunSet \/ CatchTest
        BY <1>5, <3>3 DEF BatchTest, ReadFront, RunSet, CatchTest, OnEmpty, Goto,
                          FrontInv, IInv
      <3> QED
        BY <2>2, <3>1, <3>2, <3>3 DEF Control
    <2> QED
      BY <1>1, <2>1, <2>2, ControlFrame
  <1> QED
    BY <1>1, <1>2, <1>3, <1>4, <1>5, QueueFrame

LEMMA ExecutingStep == IInv /\ [Next]_vars => ExecutingInv'
  <1> SUFFICES ASSUME IInv, [Next]_vars PROVE ExecutingInv'
    OBVIOUS
  <1>1. CASE Restart
    BY <1>1 DEF Restart, ExecutingInv
  <1>2. CASE ResetQueue
    BY <1>2, ResetStep DEF ExecutingInv
  <1>3. CASE PushCommand
    <2>1. EndsReleased(commands)
      BY <1>3, PushStep, EmptySeq DEF IInv, CommandsInv
    <2>2. ~ QueueMtxHeld' => Len(queue') > 2
      BY <1>3, <2>1, PushStep, LenProperties DEF EndsReleased, IInv, TypeOK
    <2>3. Len(queue') \in Nat
      BY <1>3, PushStep
    <2> QED
      BY <2>2, <2>3 DEF ExecutingInv
  <1>4. CASE PopExecuted \/ DiscardFront
    BY <1>4 DEF PopExecuted, DiscardFront, Pop, ExecutingInv
  <1>5. CASE UNCHANGED queue /\ (QueueMtxHeld' <=> QueueMtxHeld)
    <2>1. CASE UNCHANGED <<controlPc, executing>>
      BY <1>5, <2>1 DEF IInv, ExecutingInv
    <2>2. CASE ReadFront
      <3>1. ~ QueueMtxHeld => queue # <<>>
        BY <2>2 DEF ReadFront, IInv, FrontInv
      <3>2. executing' \in FrontOfQueue
        BY <2>2 DEF ReadFront
      <3>3. ~ QueueMtxHeld => executing' = queue[1]
        BY <3>1, <3>2, FrontOfNonEmpty DEF IInv
      <3> QED
        BY <1>5, <3>3 DEF ExecutingInv
    <2>3. CASE Control /\ ~ ReadFront
      BY <2>3 DEF Control, StartCall, RunClearAll, LoopTest, PeekFront, WakeUp,
                  RecheckEmpty, CompareFront, BatchTest, RunSet, CatchTest,
                  PopExecuted, DiscardFront, Pop, OnEmpty, Goto, ExecutingInv
    <2> QED
      BY <1>1, <2>1, <2>2, <2>3, ControlFrame
  <1> QED
    BY <1>1, <1>2, <1>3, <1>4, <1>5, QueueFrame

\* The last two commands in the queue are the two that release the registers.
LEMMA FrontReleases ==
  ASSUME IInv, Built, ~ QueueMtxHeld
  PROVE  /\ Len(queue) = 1 => queue[1].type = "HOLD" /\ queue[1].val = {}
         /\ Len(queue) = 2 => queue[1].type = "OMIT" /\ queue[1].val = {}
  <1>1. EndsReleased(commands)
    BY DEF IInv, CommandsInv, Built
  <1>2. \A i \in 1 .. Len(queue) : queue[i] = commands[Len(commands) - Len(queue) + i]
    BY DEF IInv, QueueInv
  <1>3. Len(commands) \in Nat
    BY LenProperties DEF IInv, TypeOK
  <1>4. Len(queue) = 1 => queue[1] = commands[Len(commands)]
    BY <1>2, <1>3
  <1>5. Len(queue) = 2 => queue[1] = commands[Len(commands) - 1]
    BY <1>2, <1>3
  <1> QED
    BY <1>1, <1>4, <1>5 DEF EndsReleased

LEMMA ReleaseStep == IInv /\ [Next]_vars => ReleaseInv'
  <1> SUFFICES ASSUME IInv, [Next]_vars PROVE ReleaseInv'
    OBVIOUS
  <1>0. /\ Len(queue) \in Nat /\ executing \in Command
        /\ tsc \in [Registers -> SUBSET Nat]
    BY LenProperties DEF IInv, TypeOK
  <1>1. CASE Restart
    BY <1>1 DEF Restart, ReleaseInv, Built
  <1>2. CASE ResetQueue
    BY <1>2, ResetStep DEF ReleaseInv
  <1>3. CASE PushCommand
    <2>1. EndsReleased(commands)
      BY <1>3, PushStep, EmptySeq DEF IInv, CommandsInv
    <2>2. Len(queue') \in Nat /\ (~ QueueMtxHeld' => Len(queue') > 2)
      BY <1>3, <2>1, PushStep, LenProperties DEF EndsReleased, IInv, TypeOK
    <2>3. PICK n \in Nat : n = Len(queue')
      BY <2>2
    <2>4. ~ QueueMtxHeld' => n # 0 /\ n # 1 /\ n # 2 /\ ~ (n <= 1)
      BY <2>2, <2>3
    <2> QED
      BY <2>3, <2>4 DEF ReleaseInv
  <1>4. CASE PopExecuted
    <2>1. controlPc = "pop" /\ controlPc' = "batch"
      BY <1>4 DEF PopExecuted, Pop
    <2>2. /\ ~ QueueMtxHeld /\ UNCHANGED <<commands, tsc>>
          /\ Len(queue) \in Nat \ {0} /\ Len(queue') = Len(queue) - 1
      BY <1>4, PopStep
    <2>3. Built => /\ Len(queue) = 1 => tsc["HOLD"] = {} /\ tsc["OMIT"] = {}
                   /\ Len(queue) = 2 => tsc["OMIT"] = {}
      BY <2>1, <2>2 DEF IInv, ReleaseInv
    <2> QED
      BY <2>1, <2>2, <2>3 DEF ReleaseInv, Built
  <1>5. CASE DiscardFront
    BY <1>5 DEF DiscardFront, Pop, ReleaseInv
  <1>6. CASE UNCHANGED <<queue, commands>> /\ (QueueMtxHeld' <=> QueueMtxHeld)
    <2>1. CASE UNCHANGED <<controlPc, tsc>>
      BY <1>6, <2>1 DEF IInv, ReleaseInv, Built
    <2>2. CASE RunClearAll
      <3>1. /\ controlPc = "entry" /\ controlPc' = "loop"
            /\ \A r \in Registers : tsc'[r] = {} \/ tsc'[r] = tsc[r]
        BY <1>0, <2>2 DEF RunClearAll
      <3> QED
        BY <1>6, <3>1 DEF IInv, ReleaseInv, Built, Registers
    <2>3. CASE RunSet
      <3> SUFFICES ASSUME Built, ~ QueueMtxHeld PROVE ReleaseInv'
        BY <1>6 DEF ReleaseInv, Built
      <3>1. /\ controlPc = "set" /\ controlPc' \in {"pop", "catch"}
            /\ tsc' = tsc \/ tsc' = Written(executing)
            /\ controlPc' = "pop" => tsc' = Written(executing)
        BY <2>3 DEF RunSet
      <3>2. Len(queue) # 0
        BY <3>1, EmptySeq DEF IInv, FrontInv, TypeOK
      <3>3. CASE Len(queue) = 1
        <4>1. executing.type = "HOLD" /\ executing.val = {}
          BY <3>1, <3>3, FrontReleases DEF IInv, ExecutingInv
        <4>2. /\ Written(executing)["HOLD"] = {}
              /\ Written(executing)["OMIT"] = tsc["OMIT"]
          BY <1>0, <4>1 DEF Written, Registers
        <4>3. tsc["OMIT"] = {}
          BY <3>1, <3>3 DEF IInv, ReleaseInv
        <4> QED
          BY <1>6, <3>1, <3>3, <4>2, <4>3 DEF ReleaseInv
      <3>4. CASE Len(queue) = 2
        <4>1. executing.type = "OMIT" /\ executing.val = {}
          BY <3>1, <3>4, FrontReleases DEF IInv, ExecutingInv
        <4>2. Written(executing)["OMIT"] = {}
          BY <1>0, <4>1 DEF Written, Registers
        <4> QED
          BY <1>6, <3>1, <3>4, <4>2 DEF ReleaseInv
      <3>5. CASE Len(queue) # 1 /\ Len(queue) # 2
        <4>1. PICK n \in Nat : n = Len(queue)
          BY <1>0
        <4>2. n # 0 /\ n # 1 /\ n # 2 /\ ~ (n <= 1)
          BY <3>2, <3>5, <4>1
        <4> QED
          BY <1>6, <4>1, <4>2 DEF ReleaseInv
      <3> QED
        BY <3>3, <3>4, <3>5
    <2>4. CASE \/ StartCall \/ LoopTest \/ PeekFront \/ WakeUp
               \/ RecheckEmpty \/ CompareFront
      <3>1. tsc' = tsc /\ controlPc # "ended" /\ controlPc' # "pop"
        BY <2>4 DEF StartCall, LoopTest, PeekFront, WakeUp, RecheckEmpty,
                    CompareFront, Goto
      <3> QED
        BY <1>6, <3>1 DEF IInv, ReleaseInv, Built
    <2>5. CASE BatchTest \/ ReadFront \/ CatchTest
      <3>1. tsc' = tsc /\ controlPc # "ended" /\ controlPc' # "pop"
        BY <2>5 DEF BatchTest, ReadFront, CatchTest, OnEmpty, Goto
      <3> QED
        BY <1>6, <3>1 DEF IInv, ReleaseInv, Built
    <2> QED
      BY <1>1, <1>4, <1>5, <2>1, <2>2, <2>3, <2>4, <2>5, ControlFrame DEF Control
  <1> QED
    BY <1>1, <1>2, <1>3, <1>4, <1>5, <1>6, QueueFrame

LEMMA ClockStep == IInv /\ [Next]_vars => ClockInv'
  <1> SUFFICES ASSUME IInv, [Next]_vars PROVE ClockInv'
    OBVIOUS
  <1>0. /\ now \in Nat /\ now' \in Nat /\ now' >= now /\ wake \in Nat
        /\ current.at \in Nat /\ executing.at \in Nat
    BY ClockFrame DEF IInv, TypeOK, Command, Time
  <1>1. CASE Restart
    BY <1>1 DEF Restart, ClockInv
  <1>2. CASE UNCHANGED <<controlPc, current, executing, wake>>
    BY <1>0, <1>2 DEF IInv, ClockInv
  <1>3. CASE PeekFront
    <2>1. PICK front \in FrontOfQueue :
            /\ current' = front
            /\ IF IsExpired(front)
                 THEN controlPc' = "catch"
                 ELSE /\ controlPc' = "sleep"
                      /\ wake' = now + ((front.at - now) % TimeModulus)
      BY <1>3 DEF PeekFront
    <2>2. front.at \in Time /\ front.at \in Nat
      BY TornReadType DEF IInv, Command, Time
    <2>3. front.at <= now + ((front.at - now) % TimeModulus)
      <3>1. CASE now <= front.at
        <4>1. (front.at - now) % TimeModulus = front.at - now
          BY <1>0, <2>2, <3>1, DifferenceInOrder
        <4> QED
          BY <1>0, <2>2, <4>1
      <3>2. CASE now > front.at
        <4>1. (front.at - now) % TimeModulus \in Nat
          BY <1>0, <2>2, DifferenceType
        <4> QED
          BY <1>0, <2>2, <3>2, <4>1
      <3> QED
        BY <1>0, <2>2, <3>1, <3>2
    <2> QED
      BY <2>1, <2>3 DEF ClockInv
  <1>4. CASE WakeUp \/ CompareFront \/ RecheckEmpty
    BY <1>0, <1>4 DEF WakeUp, CompareFront, RecheckEmpty, Goto, IInv, ClockInv
  <1>5. CASE BatchTest \/ RunSet \/ PopExecuted
    BY <1>0, <1>5 DEF BatchTest, RunSet, PopExecuted, Pop, OnEmpty, Goto,
                      IInv, ClockInv
  <1>6. CASE ReadFront
    BY <1>0, <1>6 DEF ReadFront, IInv, ClockInv
  <1>7. CASE \/ StartCall \/ RunClearAll \/ LoopTest \/ CatchTest \/ DiscardFront
    BY <1>7 DEF StartCall, RunClearAll, LoopTest, CatchTest, DiscardFront, Pop,
                OnEmpty, Goto, ClockInv
  <1> QED
    BY <1>1, <1>2, <1>3, <1>4, <1>5, <1>6, <1>7, ControlFrame DEF Control

-----------------------------------------------------------------------------
\* IInv holds in every state the service reaches.
THEOREM Invariance == Spec => []IInv
  <1>1. Init => IInv
    BY InitIInv
  <1>2. IInv /\ [Next]_vars => IInv'
    BY TypeStep, CommandsStep, QueueStep, DppStep, FrontStep, ExecutingStep,
       ReleaseStep, ClockStep DEF IInv
  <1> QED
    BY <1>1, <1>2, PTL DEF Spec

\* Every variable keeps its type, whatever a torn read returns.
THEOREM TypeCorrect == Spec => []TypeOK
  <1>1. IInv => TypeOK
    BY DEF IInv
  <1> QED
    BY <1>1, Invariance, PTL

\* set_tsc_hold_and_omit_forceoff_call never pops an empty queue, although it
\* decides to pop without the mutex.
THEOREM PopIsSafe == Spec => []PopFindsACommand
  <1>1. IInv => PopFindsACommand
    BY DEF IInv, FrontInv, PopFindsACommand
  <1> QED
    BY <1>1, Invariance, PTL

\* update_tsc_control_queue works on the plan as it was consumed.
THEOREM BuiltFromWholePlan == Spec => []QueueBuiltFromWholePlan
  <1>1. IInv => QueueBuiltFromWholePlan
    BY DEF IInv, DppInv, DppMtxHeld, QueueMtxHeld, QueueBuiltFromWholePlan
  <1> QED
    BY <1>1, Invariance, PTL

\* No HOLD or OMIT reaches the controller before its time.
THEOREM CommandsNeverEarly == Spec => []NeverEarly
  <1>1. IInv => NeverEarly
    BY DEF IInv, ClockInv, NeverEarly
  <1> QED
    BY <1>1, Invariance, PTL

\* The queue is what is left of one plan's commands.
THEOREM QueueIsOnePlans == Spec => []QueueIsTailOfPlan
  <1>1. ASSUME IInv PROVE QueueIsTailOfPlan
    <2>1. /\ queue \in Seq(Command) /\ commands \in Seq(Command)
          /\ Len(queue) \in Nat /\ Len(commands) \in Nat
      BY <1>1, LenProperties DEF IInv, TypeOK
    <2>2. CASE QueueMtxHeld
      <3> DEFINE sub == SubSeq(commands, 1, pushed)
      <3>1. /\ Len(queue) = pushed /\ pushed < Len(commands)
            /\ \A i \in 1 .. Len(queue) : queue[i] = commands[i]
        BY <1>1, <2>2 DEF IInv, QueueInv
      <3>2. \A i \in 1 .. pushed : commands[i] \in Command
        BY <2>1, <3>1, ElementOfSeq
      <3>3. /\ sub \in Seq(Command)
            /\ Len(sub) = pushed
            /\ \A i \in 1 .. pushed : sub[i] = commands[i]
        BY <2>1, <3>1, <3>2, SubSeqProperties
      <3> HIDE DEF sub
      <3>4. queue = sub
        BY <2>1, <3>1, <3>3, SeqEqual
      <3> QED
        BY <2>2, <3>4 DEF QueueIsTailOfPlan, sub
    <2>3. CASE ~ QueueMtxHeld
      <3> DEFINE m == Len(commands) - Len(queue) + 1
                 sub == SubSeq(commands, m, Len(commands))
      <3>1. /\ Len(queue) <= Len(commands)
            /\ \A i \in 1 .. Len(queue) :
                 queue[i] = commands[Len(commands) - Len(queue) + i]
        BY <1>1, <2>3 DEF IInv, QueueInv
      <3>2. \A i \in m .. Len(commands) : commands[i] \in Command
        BY <2>1, <3>1, ElementOfSeq
      <3>3. /\ sub \in Seq(Command)
            /\ Len(sub) = IF m <= Len(commands) THEN Len(commands) - m + 1 ELSE 0
            /\ \A i \in 1 .. Len(commands) - m + 1 : sub[i] = commands[m + i - 1]
        BY <2>1, <3>1, <3>2, SubSeqProperties
      <3> HIDE DEF sub
      <3>4. /\ Len(sub) = Len(queue)
            /\ \A i \in 1 .. Len(queue) : queue[i] = sub[i]
        BY <2>1, <3>1, <3>3
      <3>5. queue = sub
        BY <2>1, <3>3, <3>4, SeqEqual
      <3> QED
        BY <2>3, <3>5 DEF QueueIsTailOfPlan, sub
    <2> QED
      BY <2>2, <2>3
  <1> QED
    BY <1>1, Invariance, PTL

\* A queue that runs empty leaves the controller with nothing held or omitted.
THEOREM QueueDrainsReleased == Spec => []DrainedMeansReleased
  <1>1. ASSUME IInv PROVE DrainedMeansReleased
    <2> SUFFICES ASSUME Built, ~ QueueMtxHeld, queue = <<>>, controlPc # "ended"
                 PROVE  tsc = [r \in Registers |-> {}]
      BY DEF DrainedMeansReleased
    <2>1. tsc["HOLD"] = {} /\ tsc["OMIT"] = {}
      BY <1>1, EmptySeq DEF IInv, ReleaseInv
    <2> QED
      BY <1>1, <2>1 DEF IInv, TypeOK, Registers
  <1> QED
    BY <1>1, Invariance, PTL

-----------------------------------------------------------------------------
(***************************************************************************)
(* What is held and what is omitted.                                       *)
(***************************************************************************)
LEMMA AlternatesStep == IInv /\ AlternatesInv /\ [Next]_vars => AlternatesInv'
  <1> SUFFICES ASSUME IInv, AlternatesInv, [Next]_vars PROVE AlternatesInv'
    OBVIOUS
  <1>1. CASE ResetQueue
    <2>1. dpp \in Plan /\ now \in Nat /\ commands' = Commands(dpp, now)
      BY <1>1 DEF IInv, TypeOK, ResetQueue
    <2>2. Len(Commands(dpp, now)) = 2 * Len(dpp)
      BY <2>1, CommandsType
    <2> QED
      BY <2>1, <2>2, CommandsAlternate DEF AlternatesInv
  <1>2. CASE Restart
    <2>1. 1 .. Len(commands') = {}
      BY <1>2, EmptySeq DEF Restart
    <2> QED
      BY <2>1 DEF AlternatesInv
  <1>3. CASE UNCHANGED commands
    BY <1>3 DEF AlternatesInv
  <1> QED
    BY <1>1, <1>2, <1>3, QueueFrame, PopStep, PushStep

\* The front of the queue while the consumer pushes is the first OMIT of the plan.
LEMMA PushedFrontIsOmit ==
  ASSUME IInv, AlternatesInv, PushCommand
  PROVE  ~ FrontIsHold'
  <1>1. Len(commands) \in Nat /\ 1 \in 1 .. Len(commands) /\ 1 \in 1 .. Len(queue')
    BY PushStep, LenProperties DEF IInv, TypeOK
  <1>2. queue'[1] = commands[1] /\ commands[1].type = "OMIT"
    BY <1>1, PushStep DEF AlternatesInv
  <1> QED
    BY <1>2 DEF FrontIsHold

\* Behind an OMIT that is popped there is the HOLD that goes with it.
LEMMA PoppedBeforeHold ==
  ASSUME IInv, AlternatesInv, PopExecuted, FrontIsHold'
  PROVE  /\ queue[1] = Head(queue) /\ queue[1].type = "OMIT"
         /\ queue[1].val \cap queue'[1].val = {}
  <1>1. /\ ~ QueueMtxHeld
        /\ Len(queue) \in Nat \ {0} /\ Len(queue') = Len(queue) - 1
        /\ \A i \in 1 .. Len(queue') : queue'[i] = queue[i + 1]
    BY PopStep
  <1>2. queue' \in Seq(Command) /\ queue' # <<>>
    BY TypeStep DEF FrontIsHold, TypeOK, Next, Control
  <1>3. Len(queue') \in Nat \ {0}
    BY <1>2, EmptySeq, LenProperties
  <1>4. /\ Len(queue) <= Len(commands) /\ Len(commands) \in Nat
        /\ \A i \in 1 .. Len(queue) : queue[i] = commands[Len(commands) - Len(queue) + i]
    BY <1>1, LenProperties DEF IInv, QueueInv, TypeOK
  <1> DEFINE k == Len(commands) - Len(queue) + 2
  <1>5. k \in 1 .. Len(commands) /\ k - 1 \in 1 .. Len(commands)
    BY <1>1, <1>3, <1>4
  <1>6. queue'[1] = commands[k] /\ queue[1] = commands[k - 1]
    BY <1>1, <1>3, <1>4
  <1>7. commands[k].type = "HOLD"
    BY <1>6 DEF FrontIsHold
  <1> HIDE DEF k
  <1>8. k % 2 # 1
    BY <1>5, <1>7 DEF AlternatesInv
  <1>9. Head(queue) = queue[1]
    BY <1>1 DEF IInv, TypeOK
  <1>10. k % 2 = 0 /\ (k - 1) % 2 = 1
    BY <1>4, <1>5, <1>8
  <1> QED
    BY <1>5, <1>6, <1>9, <1>10 DEF AlternatesInv

\* Only the restart of the process forgets a race.
LEMMA RacedFrame ==
  ASSUME [Next]_vars, ~ Restart, ~ raced'
  PROVE  ~ raced
  <1>1. CASE UNCHANGED vars \/ Tick
    BY <1>1 DEF vars, Tick
  <1>2. ASSUME NEW plan \in Plans, Consume(plan) PROVE ~ raced
    BY <1>2 DEF Consume
  <1>3. CASE Consumer
    BY <1>3 DEF Consumer, UpdateDesiredPhasePlan, UpdateDesiredPhasePlanThrows,
                SkipShortPlan, RejectRepeatedGroup, ResetQueue, PushCommand,
                PushCommandThrows
  <1>4. CASE PruneExpiredGreensFromDpp \/ TornReadCrash
    BY <1>4 DEF PruneExpiredGreensFromDpp, TornReadCrash
  <1>5. CASE Control
    BY <1>5 DEF Control, StartCall, RunClearAll, LoopTest, PeekFront, WakeUp,
                RecheckEmpty, CompareFront, BatchTest, ReadFront, RunSet,
                CatchTest, PopExecuted, DiscardFront, Pop, OnEmpty, Goto
  <1> QED
    BY <1>1, <1>2, <1>3, <1>4, <1>5 DEF Next

LEMMA HoldStep == IInv /\ AlternatesInv /\ HoldInv /\ [Next]_vars => HoldInv'
  <1> SUFFICES ASSUME IInv, AlternatesInv, HoldInv, [Next]_vars, ~ raced', controlPc' # "ended"
               PROVE  HoldInv'
    BY DEF HoldInv
  <1>0. /\ executing \in Command /\ tsc \in [Registers -> SUBSET Nat]
        /\ raced \in BOOLEAN
    BY DEF IInv, TypeOK
  <1>1. CASE Restart
    BY <1>1 DEF Restart, HoldInv, FrontIsHold
  <1> SUFFICES ASSUME ~ Restart PROVE HoldInv'
    BY <1>1
  <1>a. ~ raced
    BY RacedFrame
  <1>2. CASE ResetQueue
    BY <1>2, ResetStep DEF HoldInv, FrontIsHold, ResetQueue, controlVars
  <1>3. CASE PushCommand
    BY <1>3, PushedFrontIsOmit DEF HoldInv, PushCommand, controlVars
  <1>4. CASE DiscardFront
    BY <1>4 DEF DiscardFront, Pop
  <1>5. CASE PopExecuted
    <2>1. /\ controlPc = "pop" /\ controlPc' = "batch" /\ ~ raced /\ tsc' = tsc
          /\ Head(queue) = executing
      BY <1>5 DEF PopExecuted, Pop
    <2>2. ASSUME FrontIsHold' PROVE tsc["OMIT"] \cap queue'[1].val = {}
      BY <1>5, <2>1, <2>2, PoppedBeforeHold DEF HoldInv, Registers
    <2> QED
      BY <2>1, <2>2 DEF HoldInv
  <1>6. CASE UNCHANGED queue
    <2>1. FrontIsHold' <=> FrontIsHold
      BY <1>6 DEF FrontIsHold
    <2>2. CASE UNCHANGED <<controlPc, current, executing, wake, tsc>>
      BY <1>6, <1>a, <2>1, <2>2 DEF HoldInv
    <2>3. CASE RunClearAll
      <3>1. /\ controlPc' = "loop" /\ controlPc = "entry" /\ ~ raced
            /\ tsc'["OMIT"] \subseteq tsc["OMIT"]
        BY <1>0, <2>3 DEF RunClearAll, Registers
      <3> QED
        BY <1>6, <2>1, <3>1 DEF HoldInv
    <2>4. CASE ReadFront
      <3>1. /\ controlPc = "front" /\ controlPc' \in {"set", "loop"} /\ tsc' = tsc
            /\ ~ raced /\ queue # <<>>
            /\ executing' \in FrontOfQueue
        BY <2>4 DEF ReadFront
      <3>2. executing' = queue[1]
        BY <3>1, FrontOfNonEmpty DEF IInv
      <3> QED
        BY <1>6, <2>1, <3>1, <3>2 DEF HoldInv, FrontIsHold
    <2>5. CASE RunSet
      <3>1. /\ controlPc = "set" /\ controlPc' \in {"pop", "catch"} /\ ~ raced
            /\ executing' = executing
            /\ tsc' = tsc \/ tsc' = Written(executing)
            /\ controlPc' = "pop" => tsc' = Written(executing)
        BY <2>5 DEF RunSet
      <3>2. executing.type # "OMIT" => Written(executing)["OMIT"] = tsc["OMIT"]
        BY <1>0 DEF Written, Registers
      <3>3. executing.type \in Registers => Written(executing)[executing.type] = executing.val
        BY <1>0 DEF Written
      <3>4. FrontIsHold => executing = queue[1] /\ executing.type = "HOLD"
        BY <3>1 DEF HoldInv, FrontIsHold
      <3> QED
        BY <1>6, <2>1, <3>1, <3>2, <3>3, <3>4 DEF HoldInv
    <2>6. CASE \/ StartCall \/ LoopTest \/ PeekFront \/ WakeUp
               \/ RecheckEmpty \/ CompareFront \/ BatchTest \/ CatchTest
      <3>1. tsc' = tsc /\ controlPc # "ended" /\ controlPc' \notin {"set", "pop"}
        BY <2>6 DEF StartCall, LoopTest, PeekFront, WakeUp, RecheckEmpty,
                    CompareFront, BatchTest, CatchTest, OnEmpty, Goto
      <3> QED
        BY <1>6, <1>a, <2>1, <3>1 DEF HoldInv
    <2> QED
      BY <1>1, <1>4, <1>5, <2>2, <2>3, <2>4, <2>5, <2>6, ControlFrame DEF Control
  <1> QED
    BY <1>1, <1>2, <1>3, <1>4, <1>5, <1>6, QueueFrame

\* The controller is never told to hold a phase that it is told to omit, unless a
\* replacement of the queue made the control thread lose a command.
THEOREM HeldIsNotOmitted == Spec => []HeldPhasesNotOmitted
  <1>1. Init => AlternatesInv /\ HoldInv
    <2> SUFFICES ASSUME Init PROVE AlternatesInv /\ HoldInv
      OBVIOUS
    <2>1. Len(commands) = 0
      BY EmptySeq DEF Init
    <2>2. 1 .. Len(commands) = {}
      BY <2>1
    <2> QED
      BY <2>2 DEF Init, AlternatesInv, HoldInv, FrontIsHold
  <1>2. IInv /\ HoldInv => HeldPhasesNotOmitted
    <2> SUFFICES ASSUME IInv, HoldInv, HeldPhasesNotOmitted!1
                 PROVE  tsc["HOLD"] \cap tsc["OMIT"] = {}
      BY DEF HeldPhasesNotOmitted
    <2> QED
      BY DEF HoldInv, Registers
  <1> QED
    BY <1>1, <1>2, Invariance, AlternatesStep, HoldStep, PTL DEF Spec

-----------------------------------------------------------------------------
(***************************************************************************)
(* How long the control thread sleeps.                                     *)
(***************************************************************************)

\* The middle of two times in order is not after the second.
LEMMA MidpointInOrder ==
  ASSUME NEW from \in Nat, NEW to \in Time, from <= to
  PROVE  Midpoint(from, to) <= to
  <1> DEFINE gap == (to - from) % TimeModulus
  <1>1. gap = to - from /\ to \in Nat /\ gap \in Nat
    BY DifferenceInOrder DEF Time
  <1> HIDE DEF gap
  <1>2. from + (gap \div 2) \in 0 .. to
    BY <1>1
  <1>3. (from + (gap \div 2)) % TimeModulus = from + (gap \div 2)
    BY <1>2, TimeModulusAssumption DEF Time
  <1> QED
    BY <1>2, <1>3 DEF Midpoint, gap

\* The last command of a plan in order is the latest, when the first green has not
\* ended at the time the commands are made.
LEMMA LastIsLatest ==
  ASSUME NEW plan \in Plan, NEW now0 \in Nat, Len(plan) >= 2, InOrder(plan),
         now0 <= plan[1].end, NEW n \in 1 .. 2 * Len(plan)
  PROVE  Commands(plan, now0)[n].at <= Commands(plan, now0)[2 * Len(plan)].at
  <1>1. /\ Len(plan) \in Nat
        /\ \A i \in 1 .. Len(plan) : plan[i].start \in Nat /\ plan[i].end \in Time
    <2>1. Len(plan) \in Nat
      BY LenProperties DEF Plan
    <2>2. ASSUME NEW i \in 1 .. Len(plan) PROVE plan[i] \in Event
      BY ElementOfSeq DEF Plan
    <2> QED
      BY <2>1, <2>2 DEF Event, Time
  <1>0. ASSUME NEW i \in 1 .. Len(plan)
        PROVE  OmitCommand(plan, i, now0).at \in Nat
    <2>1. OmitCommand(plan, i, now0) \in Command
      BY OmitCommandType
    <2> QED
      BY <2>1 DEF Command, Time
  <1> USE DEF HoldCommand, OmitCommand, CreateResetCommand, CreateCommandBySignalGroups
  <1>2. ASSUME NEW i \in 1 .. Len(plan)
        PROVE  /\ HoldCommand(plan, i).at = plan[i].end
               /\ OmitCommand(plan, i, now0).at <= plan[i].end
    <2>1. HoldCommand(plan, i).at = plan[i].end
      OBVIOUS
    <2>2. OmitCommand(plan, i, now0).at = OmitTime(plan, i, now0)
      OBVIOUS
    <2>3. OmitTime(plan, i, now0) <= plan[i].end
      BY <1>1, MidpointInOrder DEF OmitTime, InOrder
    <2> QED
      BY <2>1, <2>2, <2>3
  <1>3. Commands(plan, now0)[2 * Len(plan)].at = plan[Len(plan)].end
    <2>1. Len(plan) \in 1 .. Len(plan)
      BY <1>1
    <2>2. Commands(plan, now0)[2 * Len(plan)] = HoldCommand(plan, Len(plan))
      BY <2>1, CommandAt
    <2> QED
      BY <1>2, <2>1, <2>2
  <1>4. ASSUME NEW i \in 1 .. Len(plan)
        PROVE  plan[i].end <= plan[Len(plan)].end
    BY <1>1 DEF InOrder
  <1>5. PICK i \in 1 .. Len(plan) : n = 2 * i - 1 \/ n = 2 * i
    <2>1. (n + 1) \div 2 \in 1 .. Len(plan)
          /\ (n = 2 * ((n + 1) \div 2) - 1 \/ n = 2 * ((n + 1) \div 2))
      BY <1>1
    <2> QED
      BY <2>1
  <1>6. plan[i].end \in Nat /\ plan[Len(plan)].end \in Nat
    BY <1>1 DEF Time
  <1>7. OmitCommand(plan, i, now0).at \in Nat
    BY <1>0
  <1>8. \/ Commands(plan, now0)[n].at = OmitCommand(plan, i, now0).at
        \/ Commands(plan, now0)[n].at = plan[i].end
    <2>1. HoldCommand(plan, i).at = plan[i].end
      BY <1>2
    <2> HIDE DEF HoldCommand, OmitCommand
    <2>2. /\ Commands(plan, now0)[2 * i - 1] = OmitCommand(plan, i, now0)
          /\ Commands(plan, now0)[2 * i] = HoldCommand(plan, i)
      BY CommandAt
    <2>3. CASE n = 2 * i - 1
      BY <2>2, <2>3
    <2>4. CASE n = 2 * i
      BY <2>1, <2>2, <2>4
    <2> QED
      BY <1>5, <2>3, <2>4
  <1> HIDE DEF HoldCommand, OmitCommand
  <1> QED
    BY <1>2, <1>3, <1>4, <1>6, <1>7, <1>8

\* The conditions under which the service is used as its documentation has it.
InTime ==
  /\ ~ LateDelivery
  /\ \A plan \in Plans : InOrder(plan)
  /\ 2 * MaxTime < TimeModulus

LEMMA EmptyPlanInOrder == InOrder(<<>>)
  <1>1. 1 .. Len(<<>>) = {}
    OBVIOUS
  <1> QED
    BY <1>1 DEF InOrder

LEMMA InTimeStep ==
  ASSUME InTime, IInv, InTimeInv, [Next]_vars
  PROVE  InTimeInv'
  <1>0. /\ now \in Nat /\ MaxTime \in Nat
        /\ payload # <<>> => payload[1].end \in Nat
    <2>1. payload # <<>> => payload[1] \in Event
      BY EmptySeq, ElementOfSeq, LenProperties DEF IInv, TypeOK, Plan
    <2> QED
      BY <2>1, BoundsAssumption DEF IInv, TypeOK, Event, Time
  <1>1. CASE UNCHANGED vars
    BY <1>1 DEF vars, InTimeInv
  <1>2. CASE Tick
    BY <1>0, <1>2 DEF Tick, InTimeInv, LastTimeFor, InTime
  <1>3. CASE Restart
    BY <1>3, EmptyPlanInOrder DEF Restart, InTimeInv
  <1>4. ASSUME NEW plan \in Plans, Consume(plan) PROVE InTimeInv'
    BY <1>4 DEF Consume, InTimeInv, LastTimeFor, InTime
  <1>5. CASE Consumer
    BY <1>5 DEF Consumer, UpdateDesiredPhasePlan, UpdateDesiredPhasePlanThrows,
                SkipShortPlan, RejectRepeatedGroup, ResetQueue, PushCommand,
                PushCommandThrows, consumerVars, InTimeInv
  <1>6. CASE PruneExpiredGreensFromDpp \/ TornReadCrash
    BY <1>6 DEF PruneExpiredGreensFromDpp, TornReadCrash, consumerVars, InTimeInv
  <1>7. CASE Control
    BY <1>7 DEF Control, StartCall, RunClearAll, LoopTest, PeekFront, WakeUp,
                RecheckEmpty, CompareFront, BatchTest, ReadFront, RunSet,
                CatchTest, PopExecuted, DiscardFront, Pop, OnEmpty, Goto,
                consumerVars, InTimeInv
  <1> QED
    BY <1>1, <1>2, <1>3, <1>4, <1>5, <1>6, <1>7 DEF Next

LEMMA LastIsLatestStep ==
  ASSUME InTime, IInv, InTimeInv, LastIsLatestInv, [Next]_vars
  PROVE  LastIsLatestInv'
  <1>1. CASE ResetQueue
    <2>1. /\ dpp \in Plan /\ now \in Nat /\ commands' = Commands(dpp, now)
          /\ Len(dpp) >= 2 /\ dpp = payload /\ consumerPc = "queue"
      BY <1>1 DEF IInv, TypeOK, ResetQueue, DppInv, DppMtxHeld
    <2>2. dpp # <<>>
      BY <2>1, EmptySeq DEF Plan
    <2>3. InOrder(dpp) /\ now <= dpp[1].end
      BY <2>1, <2>2 DEF InTimeInv
    <2>4. Len(Commands(dpp, now)) = 2 * Len(dpp)
      BY <2>1, CommandsType
    <2> QED
      BY <2>1, <2>3, <2>4, LastIsLatest DEF LastIsLatestInv
  <1>2. CASE Restart
    <2>1. Len(commands') = 0
      BY <1>2, EmptySeq DEF Restart
    <2>2. 1 .. Len(commands') = {}
      BY <2>1
    <2> QED
      BY <2>2 DEF LastIsLatestInv
  <1>3. CASE UNCHANGED commands
    BY <1>3 DEF LastIsLatestInv
  <1> QED
    BY <1>1, <1>2, <1>3, QueueFrame, PopStep, PushStep

LEMMA SleepStep ==
  ASSUME InTime, IInv, InTimeInv, SleepInv, [Next]_vars
  PROVE  SleepInv'
  <1>1. CASE Restart
    BY <1>1 DEF Restart, SleepInv
  <1>2. CASE UNCHANGED <<controlPc, current, executing, wake, tsc>>
    BY <1>2 DEF SleepInv
  <1>3. CASE PeekFront
    <2>1. PICK front \in FrontOfQueue :
            /\ current' = front
            /\ IF IsExpired(front)
                 THEN controlPc' = "catch"
                 ELSE /\ controlPc' = "sleep"
                      /\ wake' = now + ((front.at - now) % TimeModulus)
      BY <1>3 DEF PeekFront
    <2>2. /\ front.at \in Time /\ front.at \in Nat /\ now \in Nat
          /\ now <= MaxTime /\ 2 * MaxTime < TimeModulus
          /\ TimeModulus \in Nat /\ MaxTime \in Nat
      BY TornReadType, TimeModulusAssumption, BoundsAssumption
         DEF IInv, TypeOK, Command, Time, InTime, InTimeInv
    <2>3. CASE now <= front.at
      <3>1. (front.at - now) % TimeModulus = front.at - now
        BY <2>2, <2>3, DifferenceInOrder
      <3> QED
        BY <2>1, <2>2, <3>1 DEF SleepInv
    <2>4. CASE now > front.at
      <3>1. (front.at - now) % TimeModulus = front.at - now + TimeModulus
        BY <2>2, <2>4
      <3>2. IsExpired(front)
        BY <2>2, <2>4, <3>1 DEF IsExpired
      <3> QED
        BY <2>1, <3>2 DEF SleepInv
    <2> QED
      BY <2>2, <2>3, <2>4
  <1>4. CASE Control /\ ~ PeekFront
    BY <1>4 DEF Control, StartCall, RunClearAll, LoopTest, WakeUp,
                RecheckEmpty, CompareFront, BatchTest, ReadFront, RunSet,
                CatchTest, PopExecuted, DiscardFront, Pop, OnEmpty, Goto, SleepInv
  <1> QED
    BY <1>1, <1>2, <1>3, <1>4, ControlFrame

\* When plans are in order and consumed before their first green ends, and the clock has
\* not run through half of its range, the control thread never sleeps past the end of
\* the plan whose commands it waits for.
THEOREM SleepsWithinPlan ==
  ASSUME InTime
  PROVE  Spec => []NeverSleepsBeyondPlan
  <1> DEFINE Inv == InTimeInv /\ LastIsLatestInv /\ SleepInv
  <1>1. Init => Inv
    <2> SUFFICES ASSUME Init PROVE Inv
      OBVIOUS
    <2>1. Len(commands) = 0
      BY EmptySeq DEF Init
    <2>2. 1 .. Len(commands) = {}
      BY <2>1
    <2>3. 0 <= MaxTime
      BY BoundsAssumption
    <2>4. InTimeInv
      BY <2>3, EmptyPlanInOrder DEF Init, InTimeInv
    <2>5. LastIsLatestInv
      BY <2>2 DEF LastIsLatestInv
    <2>6. SleepInv
      BY DEF Init, SleepInv
    <2> QED
      BY <2>4, <2>5, <2>6
  <1>2. IInv /\ Inv /\ [Next]_vars => Inv'
    BY InTimeStep, LastIsLatestStep, SleepStep
  <1>3. IInv /\ Inv => NeverSleepsBeyondPlan
    BY DEF LastIsLatestInv, SleepInv, NeverSleepsBeyondPlan
  <1> HIDE DEF Inv
  <1> QED
    BY <1>1, <1>2, <1>3, Invariance, PTL DEF Spec

=============================================================================
