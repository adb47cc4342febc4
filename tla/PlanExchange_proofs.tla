-------------------------- MODULE PlanExchange_proofs --------------------------
(***************************************************************************)
(* What the SPaT shows and what the plans contain, for any intersection,   *)
(* any yellow and red times, any queues and any bounds: the events of a    *)
(* signal group leave no gap, every message has its type, and a plan that  *)
(* fits the lights is projected without conflicting greens.                *)
(*                                                                         *)
(* The loops of the code over events, greens and movement groups are       *)
(* recursive functions. For each, a lemma states the equations that its    *)
(* recursion solves, and an induction over the natural numbers (Climb)     *)
(* what that means for its value.                                          *)
(***************************************************************************)
EXTENDS PlanExchange, SequenceTheorems, WellFoundedInduction, TLAPS

-----------------------------------------------------------------------------
(***************************************************************************)
(* Induction and recursion.                                                *)
(***************************************************************************)

\* A set of natural numbers that is not empty has a least element.
LEMMA LeastElement ==
  ASSUME NEW S \in SUBSET Nat, S # {}
  PROVE  \E x \in S : \A y \in S : x <= y
<1> DEFINE Less == {ss \in Nat \X Nat : ss[1] < ss[2]}
<1>1. IsWellFoundedOn(Less, Nat)
  BY NatLessThanWellFounded DEF OpToRel
<1>2. PICK x \in S : \A y \in S : ~ (<<y, x>> \in Less)
  BY <1>1, WFMin
<1>3. \A y \in S : y < x => <<y, x>> \in Less
  OBVIOUS
<1>4. \A y \in S : y \in Nat /\ ~ (y < x)
  BY <1>2, <1>3
<1>5. \A y \in S : x <= y
  BY <1>4
<1> QED
  BY <1>5

\* Induction up to N, for a set in place of a predicate.
LEMMA Climb ==
  ASSUME NEW N \in Nat, NEW I, 0 \in I, \A n \in 1 .. N : n - 1 \in I => n \in I
  PROVE  N \in I
<1> SUFFICES ASSUME N \notin I PROVE FALSE
  OBVIOUS
<1> DEFINE Missed == {n \in 0 .. N : n \notin I}
<1>1. PICK n \in Missed : \A m \in Missed : n <= m
  <2>1. Missed \in SUBSET Nat /\ N \in Missed
    OBVIOUS
  <2> QED
    BY <2>1, LeastElement
<1>2. n \in 1 .. N /\ n - 1 \in 0 .. N /\ n - 1 \notin Missed
  BY <1>1
<1> QED
  BY <1>1, <1>2

\* The equations of Kept.
LEMMA KeptRecursion ==
  ASSUME NEW list, Len(list) \in Nat, NEW places
  PROVE  \E f : /\ Kept(list, places) = f[Len(list)]
                /\ f[0] = <<>>
                /\ \A n \in 1 .. Len(list) : f[n] = IF n \in places THEN Append(f[n - 1], list[n]) ELSE f[n - 1]
<1> DEFINE N == Len(list)
           Body(n, before) == IF n \in places THEN Append(before, list[n]) ELSE before
           Solves(f, m) == f = [n \in 0 .. m |-> IF n = 0 THEN <<>> ELSE Body(n, f[n - 1])]
           Solved == {m \in Nat : \E f : Solves(f, m)}
           F == CHOOSE f : Solves(f, N)
<1>1. Kept(list, places) = F[N]
  BY DEF Kept
<1> HIDE DEF Body
<1>2. 0 \in Solved
  <2> DEFINE f == [n \in 0 .. 0 |-> <<>>]
  <2>1. Solves(f, 0)
    OBVIOUS
  <2> QED
    BY <2>1
<1>3. ASSUME NEW m \in 1 .. N, m - 1 \in Solved PROVE m \in Solved
  <2>1. PICK f : Solves(f, m - 1)
    BY <1>3
  <2> DEFINE g == [n \in 0 .. m |-> IF n = 0 THEN <<>> ELSE Body(n, f[n - 1])]
  <2>2. \A n \in 0 .. m - 1 : f[n] = IF n = 0 THEN <<>> ELSE Body(n, f[n - 1])
    BY <2>1
  <2>3. \A n \in 0 .. m - 1 : n \in 0 .. m
    OBVIOUS
  <2>4. \A n \in 0 .. m - 1 : g[n] = f[n]
    BY <2>2, <2>3
  <2>5. \A n \in 0 .. m : n # 0 => n - 1 \in 0 .. m - 1
    OBVIOUS
  <2>6. \A n \in 0 .. m : n # 0 => g[n - 1] = f[n - 1]
    BY <2>4, <2>5
  <2>7. \A n \in 0 .. m :
          g[n] = IF n = 0 THEN <<>> ELSE Body(n, g[n - 1])
    BY <2>6
  <2>8. g = [n \in 0 .. m |-> g[n]]
    OBVIOUS
  <2> HIDE DEF g
  <2>9. Solves(g, m)
    BY <2>7, <2>8
  <2> QED
    BY <2>9
<1>4. N \in Solved
  <2> HIDE DEF Solved
  <2>1. N \in Nat /\ \A m \in 1 .. N : m - 1 \in Solved => m \in Solved
    BY <1>3
  <2> HIDE DEF N
  <2> QED
    BY <1>2, <2>1, Climb
<1>5. Solves(F, N)
  BY <1>4
<1> HIDE DEF F
<1>6. F[0] = <<>> /\ \A n \in 1 .. N : F[n] = Body(n, F[n - 1])
  BY <1>5
<1> QED
  BY <1>1, <1>6 DEF Body

\* The equations of PlannedEvents.
LEMMA PlannedRecursion ==
  ASSUME NEW group, NEW current, NEW plan, NEW time, Len(plan) - 1 \in Nat
  PROVE  \E f : /\ PlannedEvents(group, current, plan, time) = f[Len(plan) - 1]
                /\ f[0] = FirstDesiredGreen(group, current, plan[1], time)
                /\ \A n \in 1 .. Len(plan) - 1 : f[n] = NextDesiredGreen(group, f[n - 1], plan[n + 1], time)
<1> DEFINE N == Len(plan) - 1
           Body(n, before) == NextDesiredGreen(group, before, plan[n + 1], time)
           Solves(f, m) == f = [n \in 0 .. m |-> IF n = 0 THEN FirstDesiredGreen(group, current, plan[1], time) ELSE Body(n, f[n - 1])]
           Solved == {m \in Nat : \E f : Solves(f, m)}
           F == CHOOSE f : Solves(f, N)
<1>1. PlannedEvents(group, current, plan, time) = F[N]
  BY DEF PlannedEvents
<1> HIDE DEF Body
<1>2. 0 \in Solved
  <2> DEFINE f == [n \in 0 .. 0 |-> FirstDesiredGreen(group, current, plan[1], time)]
  <2>1. Solves(f, 0)
    OBVIOUS
  <2> QED
    BY <2>1
<1>3. ASSUME NEW m \in 1 .. N, m - 1 \in Solved PROVE m \in Solved
  <2>1. PICK f : Solves(f, m - 1)
    BY <1>3
  <2> DEFINE g == [n \in 0 .. m |-> IF n = 0 THEN FirstDesiredGreen(group, current, plan[1], time) ELSE Body(n, f[n - 1])]
  <2>2. \A n \in 0 .. m - 1 : f[n] = IF n = 0 THEN FirstDesiredGreen(group, current, plan[1], time) ELSE Body(n, f[n - 1])
    BY <2>1
  <2>3. \A n \in 0 .. m - 1 : n \in 0 .. m
    OBVIOUS
  <2>4. \A n \in 0 .. m - 1 : g[n] = f[n]
    BY <2>2, <2>3
  <2>5. \A n \in 0 .. m : n # 0 => n - 1 \in 0 .. m - 1
    OBVIOUS
  <2>6. \A n \in 0 .. m : n # 0 => g[n - 1] = f[n - 1]
    BY <2>4, <2>5
  <2>7. \A n \in 0 .. m :
          g[n] = IF n = 0 THEN FirstDesiredGreen(group, current, plan[1], time) ELSE Body(n, g[n - 1])
    BY <2>6
  <2>8. g = [n \in 0 .. m |-> g[n]]
    OBVIOUS
  <2> HIDE DEF g
  <2>9. Solves(g, m)
    BY <2>7, <2>8
  <2> QED
    BY <2>9
<1>4. N \in Solved
  <2> HIDE DEF Solved
  <2>1. N \in Nat /\ \A m \in 1 .. N : m - 1 \in Solved => m \in Solved
    BY <1>3
  <2> HIDE DEF N
  <2> QED
    BY <1>2, <2>1, Climb
<1>5. Solves(F, N)
  BY <1>4
<1> HIDE DEF F
<1>6. F[0] = FirstDesiredGreen(group, current, plan[1], time) /\ \A n \in 1 .. N : F[n] = Body(n, F[n - 1])
  BY <1>5
<1> QED
  BY <1>1, <1>6 DEF Body

\* The equations of InsertGreens.
LEMMA InsertRecursion ==
  ASSUME NEW plan, NEW greens, Len(greens) \in Nat, plan # Throws, greens # Throws
  PROVE  \E f : /\ InsertGreens(plan, greens) = f[Len(greens)]
                /\ f[0] = plan
                /\ \A n \in 1 .. Len(greens) : f[n] = InsertGreen(f[n - 1], greens[n])
<1> DEFINE N == Len(greens)
           Body(n, before) == InsertGreen(before, greens[n])
           Solves(f, m) == f = [n \in 0 .. m |-> IF n = 0 THEN plan ELSE Body(n, f[n - 1])]
           Solved == {m \in Nat : \E f : Solves(f, m)}
           F == CHOOSE f : Solves(f, N)
<1>1. InsertGreens(plan, greens) = F[N]
  BY DEF InsertGreens
<1> HIDE DEF Body
<1>2. 0 \in Solved
  <2> DEFINE f == [n \in 0 .. 0 |-> plan]
  <2>1. Solves(f, 0)
    OBVIOUS
  <2> QED
    BY <2>1
<1>3. ASSUME NEW m \in 1 .. N, m - 1 \in Solved PROVE m \in Solved
  <2>1. PICK f : Solves(f, m - 1)
    BY <1>3
  <2> DEFINE g == [n \in 0 .. m |-> IF n = 0 THEN plan ELSE Body(n, f[n - 1])]
  <2>2. \A n \in 0 .. m - 1 : f[n] = IF n = 0 THEN plan ELSE Body(n, f[n - 1])
    BY <2>1
  <2>3. \A n \in 0 .. m - 1 : n \in 0 .. m
    OBVIOUS
  <2>4. \A n \in 0 .. m - 1 : g[n] = f[n]
    BY <2>2, <2>3
  <2>5. \A n \in 0 .. m : n # 0 => n - 1 \in 0 .. m - 1
    OBVIOUS
  <2>6. \A n \in 0 .. m : n # 0 => g[n - 1] = f[n - 1]
    BY <2>4, <2>5
  <2>7. \A n \in 0 .. m :
          g[n] = IF n = 0 THEN plan ELSE Body(n, g[n - 1])
    BY <2>6
  <2>8. g = [n \in 0 .. m |-> g[n]]
    OBVIOUS
  <2> HIDE DEF g
  <2>9. Solves(g, m)
    BY <2>7, <2>8
  <2> QED
    BY <2>9
<1>4. N \in Solved
  <2> HIDE DEF Solved
  <2>1. N \in Nat /\ \A m \in 1 .. N : m - 1 \in Solved => m \in Solved
    BY <1>3
  <2> HIDE DEF N
  <2> QED
    BY <1>2, <2>1, Climb
<1>5. Solves(F, N)
  BY <1>4
<1> HIDE DEF F
<1>6. F[0] = plan /\ \A n \in 1 .. N : F[n] = Body(n, F[n - 1])
  BY <1>5
<1> QED
  BY <1>1, <1>6 DEF Body

\* The equations of ConvertSpatToDpp.
LEMMA ConvertRecursion ==
  ASSUME NEW movements, NEW time, Len(MoveGroups) \in Nat
  PROVE  \E f : /\ ConvertSpatToDpp(movements, time) = f[Len(MoveGroups)]
                /\ f[0] = <<>>
                /\ \A n \in 1 .. Len(MoveGroups) : f[n] = InsertGreens(f[n - 1], MovementGroupGreens(movements, MoveGroups[n], time))
<1> DEFINE N == Len(MoveGroups)
           Body(n, before) == InsertGreens(before, MovementGroupGreens(movements, MoveGroups[n], time))
           Solves(f, m) == f = [n \in 0 .. m |-> IF n = 0 THEN <<>> ELSE Body(n, f[n - 1])]
           Solved == {m \in Nat : \E f : Solves(f, m)}
           F == CHOOSE f : Solves(f, N)
<1>1. ConvertSpatToDpp(movements, time) = F[N]
  BY DEF ConvertSpatToDpp
<1> HIDE DEF Body
<1>2. 0 \in Solved
  <2> DEFINE f == [n \in 0 .. 0 |-> <<>>]
  <2>1. Solves(f, 0)
    OBVIOUS
  <2> QED
    BY <2>1
<1>3. ASSUME NEW m \in 1 .. N, m - 1 \in Solved PROVE m \in Solved
  <2>1. PICK f : Solves(f, m - 1)
    BY <1>3
  <2> DEFINE g == [n \in 0 .. m |-> IF n = 0 THEN <<>> ELSE Body(n, f[n - 1])]
  <2>2. \A n \in 0 .. m - 1 : f[n] = IF n = 0 THEN <<>> ELSE Body(n, f[n - 1])
    BY <2>1
  <2>3. \A n \in 0 .. m - 1 : n \in 0 .. m
    OBVIOUS
  <2>4. \A n \in 0 .. m - 1 : g[n] = f[n]
    BY <2>2, <2>3
  <2>5. \A n \in 0 .. m : n # 0 => n - 1 \in 0 .. m - 1
    OBVIOUS
  <2>6. \A n \in 0 .. m : n # 0 => g[n - 1] = f[n - 1]
    BY <2>4, <2>5
  <2>7. \A n \in 0 .. m :
          g[n] = IF n = 0 THEN <<>> ELSE Body(n, g[n - 1])
    BY <2>6
  <2>8. g = [n \in 0 .. m |-> g[n]]
    OBVIOUS
  <2> HIDE DEF g
  <2>9. Solves(g, m)
    BY <2>7, <2>8
  <2> QED
    BY <2>9
<1>4. N \in Solved
  <2> HIDE DEF Solved
  <2>1. N \in Nat /\ \A m \in 1 .. N : m - 1 \in Solved => m \in Solved
    BY <1>3
  <2> HIDE DEF N
  <2> QED
    BY <1>2, <2>1, Climb
<1>5. Solves(F, N)
  BY <1>4
<1> HIDE DEF F
<1>6. F[0] = <<>> /\ \A n \in 1 .. N : F[n] = Body(n, F[n - 1])
  BY <1>5
<1> QED
  BY <1>1, <1>6 DEF Body

-----------------------------------------------------------------------------
(***************************************************************************)
(* Marks.                                                                  *)
(***************************************************************************)

\* Division by a natural number keeps the order.
LEMMA DivisionInOrder ==
  ASSUME NEW x \in Nat, NEW y \in Nat, NEW d \in Nat \ {0}, x <= y
  PROVE  x \div d \in Nat /\ y \div d \in Nat /\ x \div d <= y \div d
OBVIOUS

\* The hour has begun, and is one of the natural numbers.
LEMMA HourType ==
  ASSUME NEW time \in Nat
  PROVE  HourStart(time) \in Nat /\ HourStart(time) <= time
BY HourAssumption DEF HourStart

\* The last mark of the hour; an unset one is beyond it.
LEMMA LastMarkType == LastMark \in Nat /\ UnsetMark = LastMark + 1
BY HourAssumption DEF LastMark, UnsetMark

\* A mark is a tenth of the hour.
LEMMA MarkOfEpochType ==
  ASSUME NEW time \in Nat, NEW when \in Nat
  PROVE  MarkOfEpoch(when, time) \in Mark
<1> DEFINE H == HourStart(time)
<1>1. H \in Nat
  BY HourType
<1>2. CASE H > when
  BY <1>1, <1>2, LastMarkType DEF MarkOfEpoch, Mark
<1>3. CASE H <= when
  <2>1. when - H \in Nat /\ TenthMs \in Nat \ {0}
    BY <1>1, <1>3, HourAssumption
  <2>2. (when - H) \div TenthMs \in Nat
    BY <2>1, DivisionInOrder
  <2> QED
    BY <2>2, LastMarkType DEF MarkOfEpoch, Mark
<1> QED
  BY <1>1, <1>2, <1>3

\* Later times have later marks, those beyond the hour the last one.
LEMMA MarksInOrder ==
  ASSUME NEW time \in Nat, NEW earlier \in Nat, NEW later \in Nat, earlier <= later
  PROVE  MarkOfEpoch(earlier, time) <= MarkOfEpoch(later, time)
<1> DEFINE H == HourStart(time)
<1>1. H \in Nat
  BY HourType
<1>2. MarkOfEpoch(later, time) \in Nat
  BY MarkOfEpochType, LastMarkType DEF Mark
<1>3. CASE H > earlier
  BY <1>2, <1>3 DEF MarkOfEpoch
<1>4. CASE H <= earlier
  <2>1. /\ earlier - H \in Nat /\ later - H \in Nat /\ earlier - H <= later - H
        /\ TenthMs \in Nat \ {0} /\ ~ (H > earlier) /\ ~ (H > later)
    BY <1>1, <1>4, HourAssumption
  <2>2. /\ (earlier - H) \div TenthMs \in Nat /\ (later - H) \div TenthMs \in Nat
        /\ (earlier - H) \div TenthMs <= (later - H) \div TenthMs
    BY <2>1, DivisionInOrder
  <2> DEFINE e == (earlier - H) \div TenthMs
             l == (later - H) \div TenthMs
  <2>3. /\ MarkOfEpoch(earlier, time) = IF e >= LastMark THEN LastMark ELSE e
        /\ MarkOfEpoch(later, time) = IF l >= LastMark THEN LastMark ELSE l
    BY <2>1 DEF MarkOfEpoch
  <2> HIDE DEF e, l
  <2>4. e \in Nat /\ l \in Nat /\ e <= l
    BY <2>2 DEF e, l
  <2> QED
    BY <2>3, <2>4, LastMarkType
<1> QED
  BY <1>1, <1>3, <1>4

\* The present as a mark.
LEMMA MarkOfNowType ==
  ASSUME NEW time \in Nat
  PROVE  MarkOfOffset(0, time) \in Mark
<1>1. time % HourMs \in Nat /\ time % HourMs <= HourMs /\ HourMs \in Nat /\ TenthMs \in Nat \ {0}
  BY HourAssumption
<1>2. (time % HourMs) \div TenthMs \in Nat /\ (time % HourMs) \div TenthMs <= HourMs \div TenthMs
  BY <1>1, DivisionInOrder
<1>3. MarkOfOffset(0, time) = (time % HourMs) \div TenthMs
  BY <1>1 DEF MarkOfOffset
<1> QED
  BY <1>2, <1>3, LastMarkType DEF Mark, LastMark

\* A mark read back is a time.
LEMMA EpochOfMarkType ==
  ASSUME NEW time \in Nat, NEW mark \in Mark
  PROVE  EpochOfMark(mark, time) \in Nat
<1>1. HourStart(time) \in Nat /\ mark \in Nat /\ TenthMs \in Nat
  BY HourType, LastMarkType, HourAssumption DEF Mark
<1> QED
  BY <1>1 DEF EpochOfMark

-----------------------------------------------------------------------------
(***************************************************************************)
(* Signal groups and greens.                                               *)
(***************************************************************************)

\* Two signal groups, or one.
Pairs == {{g, h} : g, h \in SignalGroups}

\* The greens of plans; those of the plans that are sent are of movement groups.
PairGreen == [groups : Pairs, start : Nat, end : Nat]
MoveGreen == [groups : MoveSets, start : Nat, end : Nat]

\* Signal groups are positive: 0 stands for none.
LEMMA GroupsType ==
  /\ \A g \in SignalGroups : g \in Nat \ {0}
  /\ \A pair \in SignalGroups \X (SignalGroups \cup {0}) :
       /\ pair[1] \in SignalGroups
       /\ pair[2] \in SignalGroups \/ pair[2] = 0
       /\ {pair[1], pair[2]} \ {0} =
            IF pair[2] = 0 THEN {pair[1]} ELSE {pair[1], pair[2]}
BY GroupsAssumption DEF SignalGroups

\* A movement group has two signal groups or one.
LEMMA MoveSetsArePairs == MoveSets \subseteq Pairs
<1> SUFFICES ASSUME NEW i \in DOMAIN MoveGroups
             PROVE  {MoveGroups[i][1], MoveGroups[i][2]} \ {0} \in Pairs
  BY DEF MoveSets
<1>1. MoveGroups[i] \in SignalGroups \X (SignalGroups \cup {0})
  BY GroupsAssumption
<1>2. CASE MoveGroups[i][2] = 0
  <2>1. {MoveGroups[i][1], MoveGroups[i][2]} \ {0} = {MoveGroups[i][1], MoveGroups[i][1]}
    BY <1>1, <1>2, GroupsType
  <2> QED
    BY <1>1, <2>1, GroupsType DEF Pairs
<1>3. CASE MoveGroups[i][2] # 0
  <2>1. {MoveGroups[i][1], MoveGroups[i][2]} \ {0} = {MoveGroups[i][1], MoveGroups[i][2]}
    BY <1>1, <1>3, GroupsType
  <2> QED
    BY <1>1, <1>3, <2>1, GroupsType DEF Pairs
<1> QED
  BY <1>2, <1>3

\* What is a green of a movement group is a green.
LEMMA GreensAreTyped ==
  /\ MoveGreen \subseteq PairGreen
  /\ PairGreen \subseteq Green
  /\ Seq(MoveGreen) \subseteq Seq(PairGreen)
  /\ Seq(MoveGreen) \subseteq Seq(Green)
<1>1. Pairs \subseteq SUBSET SignalGroups
  BY DEF Pairs
<1>2. MoveGreen \subseteq PairGreen
  BY MoveSetsArePairs DEF MoveGreen, PairGreen
<1>3. PairGreen \subseteq Green
  BY <1>1 DEF PairGreen, Green
<1>4. \A S, T : S \subseteq T => Seq(S) \subseteq Seq(T)
  OBVIOUS
<1> QED
  BY <1>2, <1>3, <1>4

\* The yellow is a part of the clearance.
LEMMA ClearanceType ==
  ASSUME NEW g \in SignalGroups
  PROVE  Yellow[g] \in Nat /\ RedClear[g] \in Nat /\ ClearanceOf(g) \in Nat /\ Yellow[g] <= ClearanceOf(g)
<1>1. Yellow[g] \in Nat /\ RedClear[g] \in Nat
  BY ClearanceAssumption
<1> QED
  BY <1>1 DEF ClearanceOf

\* The clearance that counts is of one of the groups, and no other is longer.
LEMMA LongestClearanceType ==
  ASSUME NEW groups \in Pairs
  PROVE  /\ LongestClearance(groups) \in groups
         /\ \A h \in groups : ClearanceOf(LongestClearance(groups)) >= ClearanceOf(h)
<1>1. PICK g \in SignalGroups, h \in SignalGroups : groups = {g, h}
  BY DEF Pairs
<1>2. ClearanceOf(g) \in Nat /\ ClearanceOf(h) \in Nat
  BY ClearanceType
<1>3. \E x \in groups : \A y \in groups : ClearanceOf(x) >= ClearanceOf(y)
  BY <1>1, <1>2
<1> QED
  BY <1>3 DEF LongestClearance

\* When yellow and red end after a green.
LEMMA ClearanceEnds ==
  ASSUME NEW green \in PairGreen
  PROVE  /\ YellowEnd(green) \in Nat /\ RedEnd(green) \in Nat
         /\ green.end <= YellowEnd(green) /\ YellowEnd(green) <= RedEnd(green)
<1>1. green.groups \in Pairs /\ green.end \in Nat
  BY DEF PairGreen
<1>2. LongestClearance(green.groups) \in SignalGroups
  BY <1>1, LongestClearanceType DEF Pairs
<1> DEFINE g == LongestClearance(green.groups)
<1>3. Yellow[g] \in Nat /\ ClearanceOf(g) \in Nat /\ Yellow[g] <= ClearanceOf(g)
  BY <1>2, ClearanceType
<1>4. YellowEnd(green) = green.end + Yellow[g] /\ RedEnd(green) = green.end + ClearanceOf(g)
  BY DEF YellowEnd, RedEnd
<1> HIDE DEF g
<1> QED
  BY <1>1, <1>3, <1>4

-----------------------------------------------------------------------------
(***************************************************************************)
(* The events of a signal group under a plan.                              *)
(***************************************************************************)

\* Events that follow each other without a gap.
Contiguous(events) == \A i \in 1 .. Len(events) - 1 : events[i].end = events[i + 1].start

Events == {events \in Seq(MovementEvent) : events # <<>> /\ Contiguous(events)}

\* The first event of signal group g is the current one, and ends as the plan says.
Continues(event, g, current, plan, time) ==
  /\ event.state = current.state /\ event.start = current.start
  /\ event.state \in {"green", "yellow", "red"}
  /\ event.state = "green" =>
       g \in plan[1].groups /\ event.end = MarkOfEpoch(plan[1].end, time)
  /\ event.state = "yellow" =>
       event.end = MarkOfEpoch(EpochOfMark(current.start, time) + Yellow[g], time)

\* A later event is the green or the yellow of one of the first n greens, or red.
Planned(event, g, plan, n, time) ==
  \/ event.state = "red"
  \/ \E k \in 1 .. n :
       /\ g \in plan[k].groups
       /\ \/ /\ event.state = "green"
             /\ event.start = MarkOfEpoch(plan[k].start, time)
             /\ event.end = MarkOfEpoch(plan[k].end, time)
          \/ /\ event.state = "yellow"
             /\ event.start = MarkOfEpoch(plan[k].end, time)
             /\ event.end = MarkOfEpoch(YellowEnd(plan[k]), time)

Follow(events, g, current, plan, n, time) ==
  /\ events \in Events
  /\ Continues(events[1], g, current, plan, time)
  /\ \A i \in 2 .. Len(events) : Planned(events[i], g, plan, n, time)

\* An event between two times has their marks.
LEMMA NewEventType ==
  ASSUME NEW state \in PhaseStates, NEW from \in Nat, NEW to \in Nat, NEW time \in Nat
  PROVE  /\ NewEvent(state, from, to, time) \in MovementEvent
         /\ NewEvent(state, from, to, time).state = state
         /\ NewEvent(state, from, to, time).start = MarkOfEpoch(from, time)
         /\ NewEvent(state, from, to, time).end = MarkOfEpoch(to, time)
BY MarkOfEpochType DEF NewEvent, MovementEvent

\* So for the two events that end a green.
LEMMA YellowType ==
  ASSUME NEW from \in Nat, NEW to \in Nat, NEW time \in Nat
  PROVE  LET yellow == NewEvent("yellow", from, to, time)
         IN /\ yellow \in MovementEvent /\ yellow.state = "yellow"
            /\ yellow.start = MarkOfEpoch(from, time) /\ yellow.end = MarkOfEpoch(to, time)
<1>1. "yellow" \in PhaseStates
  BY DEF PhaseStates
<1> QED
  BY <1>1, NewEventType

LEMMA RedType ==
  ASSUME NEW from \in Nat, NEW to \in Nat, NEW time \in Nat
  PROVE  LET red == NewEvent("red", from, to, time)
         IN /\ red \in MovementEvent /\ red.state = "red"
            /\ red.start = MarkOfEpoch(from, time) /\ red.end = MarkOfEpoch(to, time)
<1>1. "red" \in PhaseStates
  BY DEF PhaseStates
<1> QED
  BY <1>1, NewEventType

\* The yellow and the red after a green.
LEMMA YellowAndRedType ==
  ASSUME NEW green \in PairGreen, NEW time \in Nat
  PROVE  LET yellow == NewEvent("yellow", green.end, YellowEnd(green), time)
             red == NewEvent("red", YellowEnd(green), RedEnd(green), time)
         IN /\ YellowAndRed(green, time) = <<yellow, red>>
            /\ yellow \in MovementEvent /\ yellow.state = "yellow"
            /\ yellow.start = MarkOfEpoch(green.end, time)
            /\ yellow.end = MarkOfEpoch(YellowEnd(green), time)
            /\ red \in MovementEvent /\ red.state = "red" /\ red.start = yellow.end
<1>1. green.end \in Nat /\ YellowEnd(green) \in Nat /\ RedEnd(green) \in Nat
  BY ClearanceEnds DEF PairGreen
<1>2. "yellow" \in PhaseStates /\ "red" \in PhaseStates
  BY DEF PhaseStates
<1> DEFINE from == green.end
           over == YellowEnd(green)
           clear == RedEnd(green)
           yellow == NewEvent("yellow", from, over, time)
           red == NewEvent("red", over, clear, time)
<1>3. YellowAndRed(green, time) = <<yellow, red>>
  BY DEF YellowAndRed
<1>4. from \in Nat /\ over \in Nat /\ clear \in Nat
  BY <1>1
<1> HIDE DEF from, over, clear
<1>5. /\ yellow \in MovementEvent /\ yellow.state = "yellow"
      /\ yellow.start = MarkOfEpoch(from, time)
      /\ yellow.end = MarkOfEpoch(over, time)
  BY <1>4, YellowType
<1>6. /\ red \in MovementEvent /\ red.state = "red"
      /\ red.start = MarkOfEpoch(over, time)
  BY <1>4, RedType
<1> HIDE DEF yellow, red
<1>7. red.start = yellow.end
  BY <1>5, <1>6
<1> QED
  BY <1>3, <1>5, <1>6, <1>7 DEF from, over, clear, yellow, red

\* The last event gets an end, and nothing else changes.
LEMMA WithEndType ==
  ASSUME NEW events \in Events, NEW to \in Nat, NEW time \in Nat
  PROVE  /\ WithEnd(events, to, time) \in Events
         /\ Len(WithEnd(events, to, time)) = Len(events)
         /\ \A i \in 1 .. Len(events) - 1 : WithEnd(events, to, time)[i] = events[i]
         /\ WithEnd(events, to, time)[Len(events)].state = events[Len(events)].state
         /\ WithEnd(events, to, time)[Len(events)].start = events[Len(events)].start
         /\ WithEnd(events, to, time)[Len(events)].end = MarkOfEpoch(to, time)
<1> DEFINE n == Len(events)
           w == WithEnd(events, to, time)
           m == MarkOfEpoch(to, time)
<1>1. /\ events \in Seq(MovementEvent) /\ n \in Nat /\ n >= 1
      /\ \A i \in 1 .. n - 1 : events[i].end = events[i + 1].start
  BY DEF Events, Contiguous
<1>2. m \in Mark
  BY MarkOfEpochType
<1>3. w = [events EXCEPT ![n] = [events[n] EXCEPT !.end = m]]
  BY DEF WithEnd
<1> HIDE DEF m, w
<1>4. events[n] \in MovementEvent
  BY <1>1
<1>5. /\ [events[n] EXCEPT !.end = m] \in MovementEvent
      /\ [events[n] EXCEPT !.end = m].state = events[n].state
      /\ [events[n] EXCEPT !.end = m].start = events[n].start
      /\ [events[n] EXCEPT !.end = m].end = m
  BY <1>2, <1>4 DEF MovementEvent
<1> DEFINE e == [events[n] EXCEPT !.end = m]
<1> HIDE DEF e
<1>6. e \in MovementEvent /\ w = [events EXCEPT ![n] = e]
  BY <1>3, <1>5 DEF e
<1>7. /\ w \in Seq(MovementEvent) /\ Len(w) = n /\ w[n] = e
      /\ \A i \in 1 .. n - 1 : w[i] = events[i]
  BY <1>1, <1>6
<1>8. e.state = events[n].state /\ e.start = events[n].start /\ e.end = m
  BY <1>5 DEF e
<1>9. \A i \in 1 .. n - 1 : w[i].end = w[i + 1].start
  <2>1. \A i \in 1 .. n - 1 : w[i].end = events[i + 1].start
    BY <1>1, <1>7
  <2>2. \A i \in 1 .. n - 1 : i + 1 \in 1 .. n - 1 \/ i + 1 = n
    BY <1>1
  <2>3. \A i \in 1 .. n - 1 : w[i + 1].start = events[i + 1].start
    BY <1>7, <1>8, <2>2
  <2> QED
    BY <2>1, <2>3
<1>10. w \in Events
  BY <1>1, <1>7, <1>9 DEF Events, Contiguous
<1> QED
  BY <1>7, <1>8, <1>10 DEF w, m

\* Two lists of events, the second beginning when the first ends.
LEMMA Joined ==
  ASSUME NEW a \in Events, NEW b \in Events, a[Len(a)].end = b[1].start
  PROVE  /\ a \o b \in Events
         /\ Len(a \o b) = Len(a) + Len(b)
         /\ \A i \in 1 .. Len(a) : (a \o b)[i] = a[i]
         /\ \A i \in 1 .. Len(b) : (a \o b)[Len(a) + i] = b[i]
<1> DEFINE m == Len(a)
           n == Len(b)
           c == a \o b
<1>1. /\ a \in Seq(MovementEvent) /\ m \in Nat /\ m >= 1
      /\ b \in Seq(MovementEvent) /\ n \in Nat /\ n >= 1
      /\ \A i \in 1 .. m - 1 : a[i].end = a[i + 1].start
      /\ \A i \in 1 .. n - 1 : b[i].end = b[i + 1].start
  BY DEF Events, Contiguous
<1>2. /\ c \in Seq(MovementEvent) /\ Len(c) = m + n
      /\ \A i \in 1 .. m : c[i] = a[i]
      /\ \A i \in 1 .. n : c[m + i] = b[i]
  BY <1>1
<1> HIDE DEF c, m, n
<1>3. ASSUME NEW i \in 1 .. (m + n) - 1 PROVE c[i].end = c[i + 1].start
  <2>1. CASE i \in 1 .. m - 1
    <3>1. i \in 1 .. m /\ i + 1 \in 1 .. m
      BY <1>1, <2>1
    <3> QED
      BY <1>1, <1>2, <2>1, <3>1
  <2>2. CASE i = m
    <3>1. m \in 1 .. m /\ 1 \in 1 .. n
      BY <1>1
    <3>2. c[m] = a[m] /\ c[m + 1] = b[1]
      BY <1>2, <3>1
    <3> QED
      BY <2>2, <3>2 DEF m
  <2>3. CASE i > m
    <3>1. PICK j \in 1 .. n - 1 : i = m + j
      <4>1. i - m \in 1 .. n - 1 /\ i = m + (i - m)
        BY <1>1, <2>3
      <4> QED
        BY <4>1
    <3>2. j \in 1 .. n /\ j + 1 \in 1 .. n /\ i + 1 = m + (j + 1)
      BY <1>1, <3>1
    <3>3. c[i] = b[j] /\ c[i + 1] = b[j + 1]
      BY <1>2, <3>1, <3>2
    <3> QED
      BY <1>1, <3>3
  <2> QED
    BY <1>1, <2>1, <2>2, <2>3
<1>4. c \in Events
  BY <1>1, <1>2, <1>3 DEF Events, Contiguous
<1> QED
  BY <1>2, <1>4 DEF c, m, n

\* The events that follow a single one.
LEMMA JoinedToOne ==
  ASSUME NEW a \in Events, NEW b \in Events, NEW k \in Nat, Len(a) = 1, Len(b) = k,
         a[1].end = b[1].start
  PROVE  /\ a \o b \in Events
         /\ Len(a \o b) = k + 1
         /\ (a \o b)[1] = a[1]
         /\ \A i \in 1 .. k : (a \o b)[1 + i] = b[i]
<1>1. a[Len(a)].end = b[1].start
  OBVIOUS
<1>2. /\ a \o b \in Events
      /\ Len(a \o b) = Len(a) + Len(b)
      /\ \A i \in 1 .. Len(a) : (a \o b)[i] = a[i]
      /\ \A i \in 1 .. Len(b) : (a \o b)[Len(a) + i] = b[i]
  BY <1>1, Joined
<1> DEFINE c == a \o b
<1> HIDE DEF c
<1>3. /\ c \in Events /\ Len(c) = 1 + k
      /\ \A i \in 1 .. 1 : c[i] = a[i]
      /\ \A i \in 1 .. k : c[1 + i] = b[i]
  BY <1>2 DEF c
<1>4. c \in Events /\ Len(c) = k + 1 /\ c[1] = a[1] /\ \A i \in 1 .. k : c[1 + i] = b[i]
  BY <1>3
<1> QED
  BY <1>4 DEF c

\* One event is a list of events.
LEMMA OneEvent ==
  ASSUME NEW e \in MovementEvent
  PROVE  <<e>> \in Events /\ Len(<<e>>) = 1 /\ <<e>>[1] = e
BY DEF Events, Contiguous

\* The events of the green, yellow and red of a green.
LEMMA GreenYellowRedType ==
  ASSUME NEW green \in PairGreen, NEW time \in Nat,
         NEW g \in green.groups, NEW plan, NEW n \in Nat \ {0}, plan[n] = green
  PROVE  /\ YellowAndRed(green, time) \in Events /\ Len(YellowAndRed(green, time)) = 2
         /\ YellowAndRed(green, time)[1].start = MarkOfEpoch(green.end, time)
         /\ GreenYellowRed(green, time) \in Events /\ Len(GreenYellowRed(green, time)) = 3
         /\ GreenYellowRed(green, time)[1].start = MarkOfEpoch(green.start, time)
         /\ \A i \in 1 .. 2 : Planned(YellowAndRed(green, time)[i], g, plan, n, time)
         /\ \A i \in 1 .. 3 : Planned(GreenYellowRed(green, time)[i], g, plan, n, time)
         /\ YellowAndRed(green, time)[2].state = "red"
         /\ GreenYellowRed(green, time)[3].state = "red"
<1> DEFINE first == NewEvent("green", green.start, green.end, time)
           yellow == NewEvent("yellow", green.end, YellowEnd(green), time)
           red == NewEvent("red", YellowEnd(green), RedEnd(green), time)
<1>1. /\ YellowAndRed(green, time) = <<yellow, red>>
      /\ yellow \in MovementEvent /\ yellow.state = "yellow"
      /\ yellow.start = MarkOfEpoch(green.end, time)
      /\ yellow.end = MarkOfEpoch(YellowEnd(green), time)
      /\ red \in MovementEvent /\ red.state = "red" /\ red.start = yellow.end
  BY YellowAndRedType
<1>2. /\ first \in MovementEvent /\ first.state = "green"
      /\ first.start = MarkOfEpoch(green.start, time)
      /\ first.end = MarkOfEpoch(green.end, time)
  <2>1. green.start \in Nat /\ green.end \in Nat /\ "green" \in PhaseStates
    BY DEF PairGreen, PhaseStates
  <2> QED
    BY <2>1, NewEventType
<1>3. GreenYellowRed(green, time) = <<first>> \o YellowAndRed(green, time)
  BY DEF GreenYellowRed
<1> HIDE DEF first, yellow, red
<1>4. /\ Len(YellowAndRed(green, time)) = 2
      /\ YellowAndRed(green, time)[1] = yellow /\ YellowAndRed(green, time)[2] = red
  BY <1>1
<1>5. YellowAndRed(green, time) \in Events
  <2> DEFINE l == <<yellow, red>>
  <2>1. l \in Seq(MovementEvent) /\ Len(l) = 2 /\ l # <<>> /\ l[1].end = l[2].start
    BY <1>1
  <2> HIDE DEF l
  <2>2. \A i \in 1 .. Len(l) - 1 : l[i].end = l[i + 1].start
    BY <2>1
  <2>3. l \in Events
    BY <2>1, <2>2 DEF Events, Contiguous
  <2> QED
    BY <1>1, <2>3 DEF l
<1>6. /\ GreenYellowRed(green, time) \in Events /\ Len(GreenYellowRed(green, time)) = 3
      /\ GreenYellowRed(green, time)[1] = first /\ GreenYellowRed(green, time)[2] = yellow
      /\ GreenYellowRed(green, time)[3] = red
  <2> DEFINE a == <<first>>
             b == YellowAndRed(green, time)
  <2>1. /\ a \in Events /\ Len(a) = 1 /\ a[1] = first
        /\ b \in Events /\ Len(b) = 2 /\ b[1] = yellow /\ b[2] = red
        /\ GreenYellowRed(green, time) = a \o b
    BY <1>2, <1>3, <1>4, <1>5, OneEvent
  <2> HIDE DEF a, b
  <2>2. a[Len(a)].end = b[1].start
    BY <1>1, <1>2, <2>1
  <2>3. /\ a \o b \in Events /\ Len(a \o b) = Len(a) + Len(b)
        /\ \A i \in 1 .. Len(a) : (a \o b)[i] = a[i]
        /\ \A i \in 1 .. Len(b) : (a \o b)[Len(a) + i] = b[i]
    BY <2>1, <2>2, Joined
  <2>4. /\ Len(a \o b) = 3 /\ (a \o b)[1] = a[1]
        /\ (a \o b)[1 + 1] = b[1] /\ (a \o b)[1 + 2] = b[2]
    BY <2>1, <2>3
  <2> QED
    BY <2>1, <2>3, <2>4
<1>7. /\ Planned(first, g, plan, n, time)
      /\ Planned(yellow, g, plan, n, time)
      /\ Planned(red, g, plan, n, time)
  <2>1. n \in 1 .. n
    OBVIOUS
  <2>2. Planned(first, g, plan, n, time)
    BY <1>2, <2>1 DEF Planned
  <2>3. Planned(yellow, g, plan, n, time)
    BY <1>1, <2>1 DEF Planned
  <2>4. Planned(red, g, plan, n, time)
    BY <1>1 DEF Planned
  <2> QED
    BY <2>2, <2>3, <2>4
<1>8. /\ \A i \in 1 .. 2 : Planned(YellowAndRed(green, time)[i], g, plan, n, time)
      /\ \A i \in 1 .. 3 : Planned(GreenYellowRed(green, time)[i], g, plan, n, time)
  <2>1. \A i \in 1 .. 2 : i = 1 \/ i = 2
    OBVIOUS
  <2>2. \A i \in 1 .. 3 : i = 1 \/ i = 2 \/ i = 3
    OBVIOUS
  <2>3. ASSUME NEW i \in 1 .. 2 PROVE Planned(YellowAndRed(green, time)[i], g, plan, n, time)
    BY <1>4, <1>7, <2>1
  <2>4. ASSUME NEW i \in 1 .. 3 PROVE Planned(GreenYellowRed(green, time)[i], g, plan, n, time)
    BY <1>6, <1>7, <2>2
  <2> QED
    BY <2>3, <2>4
<1>9. /\ Len(YellowAndRed(green, time)) = 2 /\ Len(GreenYellowRed(green, time)) = 3
      /\ YellowAndRed(green, time)[1].start = MarkOfEpoch(green.end, time)
      /\ GreenYellowRed(green, time)[1].start = MarkOfEpoch(green.start, time)
      /\ YellowAndRed(green, time)[2].state = "red"
      /\ GreenYellowRed(green, time)[3].state = "red"
  BY <1>1, <1>2, <1>4, <1>6
<1> QED
  BY <1>5, <1>6, <1>8, <1>9

\* The events under the first green continue the current one.
LEMMA FirstGreenFollows ==
  ASSUME NEW g \in SignalGroups, NEW current \in MovementEvent,
         NEW plan \in Seq(PairGreen), plan # <<>>, NEW time \in Nat,
         FirstDesiredGreen(g, current, plan[1], time) # Throws
  PROVE  Follow(FirstDesiredGreen(g, current, plan[1], time), g, current, plan, 1, time)
<1> DEFINE green == plan[1]
           events == FirstDesiredGreen(g, current, green, time)
<1>1. /\ green \in PairGreen /\ green.start \in Nat /\ green.end \in Nat
      /\ RedEnd(green) \in Nat
  <2>1. green \in PairGreen
    OBVIOUS
  <2> HIDE DEF green
  <2> QED
    BY <2>1, ClearanceEnds DEF PairGreen
<1>2. <<current>> \in Events /\ Len(<<current>>) = 1 /\ <<current>>[1] = current
  BY OneEvent
<1> DEFINE Ended(to) == WithEnd(<<current>>, to, time)
<1>3. ASSUME NEW to \in Nat
      PROVE  /\ Ended(to) \in Events /\ Len(Ended(to)) = 1
             /\ Ended(to)[1].state = current.state /\ Ended(to)[1].start = current.start
             /\ Ended(to)[1].end = MarkOfEpoch(to, time)
  BY <1>2, WithEndType
<1> HIDE DEF Ended
<1>4. CASE g \in green.groups /\ current.state = "green"
  <2> DEFINE rest == YellowAndRed(green, time)
             first == Ended(green.end)
  <2>1. events = first \o rest
    BY <1>4 DEF FirstDesiredGreen, Ended
  <2>2. /\ first \in Events /\ Len(first) = 1
        /\ first[1].state = current.state /\ first[1].start = current.start
        /\ first[1].end = MarkOfEpoch(green.end, time)
    BY <1>1, <1>3
  <2>3. /\ rest \in Events /\ Len(rest) = 2 /\ rest[1].start = MarkOfEpoch(green.end, time)
        /\ \A i \in 1 .. 2 : Planned(rest[i], g, plan, 1, time)
    <3>1. green \in PairGreen /\ g \in green.groups /\ 1 \in Nat \ {0} /\ plan[1] = green
      BY <1>1, <1>4
    <3> HIDE DEF green
    <3> QED
      BY <3>1, GreenYellowRedType
  <2> HIDE DEF first, rest, events, green
  <2>4. /\ events \in Events /\ Len(events) = 3 /\ events[1] = first[1]
        /\ \A i \in 1 .. 2 : events[1 + i] = rest[i]
    <3>1. first[1].end = rest[1].start /\ Len(rest) = 2 /\ 2 \in Nat
      BY <2>2, <2>3
    <3>2. /\ first \o rest \in Events /\ Len(first \o rest) = 2 + 1
          /\ (first \o rest)[1] = first[1]
          /\ \A i \in 1 .. 2 : (first \o rest)[1 + i] = rest[i]
      BY <2>2, <2>3, <3>1, JoinedToOne
    <3> QED
      BY <2>1, <3>2
  <2>5. \A i \in 2 .. 3 : i - 1 \in 1 .. 2 /\ i = 1 + (i - 1)
    OBVIOUS
  <2>6. \A i \in 2 .. 3 : Planned(events[i], g, plan, 1, time)
    BY <2>3, <2>4, <2>5
  <2>7. Continues(events[1], g, current, plan, time)
    BY <1>4, <2>2, <2>4 DEF Continues, green
  <2> QED
    BY <2>4, <2>6, <2>7 DEF Follow, events, green
<1>5. CASE g \in green.groups /\ current.state = "red"
  <2> DEFINE rest == GreenYellowRed(green, time)
             first == Ended(green.start)
  <2>1. events = first \o rest
    BY <1>5 DEF FirstDesiredGreen, Ended
  <2>2. /\ first \in Events /\ Len(first) = 1
        /\ first[1].state = current.state /\ first[1].start = current.start
        /\ first[1].end = MarkOfEpoch(green.start, time)
    BY <1>1, <1>3
  <2>3. /\ rest \in Events /\ Len(rest) = 3 /\ rest[1].start = MarkOfEpoch(green.start, time)
        /\ \A i \in 1 .. 3 : Planned(rest[i], g, plan, 1, time)
    <3>1. green \in PairGreen /\ g \in green.groups /\ 1 \in Nat \ {0} /\ plan[1] = green
      BY <1>1, <1>5
    <3> HIDE DEF green
    <3> QED
      BY <3>1, GreenYellowRedType
  <2> HIDE DEF first, rest, events, green
  <2>4. /\ events \in Events /\ Len(events) = 4 /\ events[1] = first[1]
        /\ \A i \in 1 .. 3 : events[1 + i] = rest[i]
    <3>1. first[1].end = rest[1].start /\ Len(rest) = 3 /\ 3 \in Nat
      BY <2>2, <2>3
    <3>2. /\ first \o rest \in Events /\ Len(first \o rest) = 3 + 1
          /\ (first \o rest)[1] = first[1]
          /\ \A i \in 1 .. 3 : (first \o rest)[1 + i] = rest[i]
      BY <2>2, <2>3, <3>1, JoinedToOne
    <3> QED
      BY <2>1, <3>2
  <2>5. \A i \in 2 .. 4 : i - 1 \in 1 .. 3 /\ i = 1 + (i - 1)
    OBVIOUS
  <2>6. \A i \in 2 .. 4 : Planned(events[i], g, plan, 1, time)
    BY <2>3, <2>4, <2>5
  <2>7. Continues(events[1], g, current, plan, time)
    BY <1>5, <2>2, <2>4 DEF Continues
  <2> QED
    BY <2>4, <2>6, <2>7 DEF Follow, events, green
<1>6. CASE g \notin green.groups /\ current.state = "red"
  <2> DEFINE first == Ended(RedEnd(green))
  <2>1. events = first
    BY <1>6 DEF FirstDesiredGreen, Ended
  <2>2. /\ first \in Events /\ Len(first) = 1
        /\ first[1].state = current.state /\ first[1].start = current.start
    BY <1>1, <1>3
  <2> HIDE DEF first, events, green
  <2>3. Continues(events[1], g, current, plan, time)
    BY <1>6, <2>1, <2>2 DEF Continues
  <2> QED
    BY <2>1, <2>2, <2>3 DEF Follow, events, green
<1>7. CASE g \notin green.groups /\ current.state = "yellow"
  <2> DEFINE over == EpochOfMark(current.start, time) + Yellow[g]
             first == Ended(over)
             red == NewEvent("red", over, RedEnd(green), time)
  <2>1. over \in Nat
    <3>1. EpochOfMark(current.start, time) \in Nat /\ Yellow[g] \in Nat
      BY EpochOfMarkType, ClearanceType DEF MovementEvent
    <3> QED
      BY <3>1
  <2>2. events = Append(first, red)
    BY <1>7 DEF FirstDesiredGreen, Ended
  <2>3. /\ first \in Events /\ Len(first) = 1
        /\ first[1].state = current.state /\ first[1].start = current.start
        /\ first[1].end = MarkOfEpoch(over, time)
    BY <1>3, <2>1
  <2>4. /\ red \in MovementEvent /\ red.state = "red"
        /\ red.start = MarkOfEpoch(over, time)
    <3> DEFINE to == RedEnd(green)
    <3>1. over \in Nat /\ to \in Nat /\ red = NewEvent("red", over, to, time)
      BY <1>1, <2>1
    <3> HIDE DEF over, to, red, first, events
    <3> QED
      BY <3>1, RedType
  <2> DEFINE last == MarkOfEpoch(over, time)
  <2>5. Continues(first[1], g, current, plan, time)
    BY <1>7, <2>3 DEF Continues
  <2> HIDE DEF first, events, green, red, over
  <2>6. <<red>> \in Events /\ Len(<<red>>) = 1 /\ <<red>>[1] = red
    BY <2>4, OneEvent
  <2>7. Append(first, red) = first \o <<red>>
    BY <2>3, <2>4 DEF Events
  <2>8. /\ events \in Events /\ Len(events) = 2 /\ events[1] = first[1] /\ events[2] = red
    <3>1. first[Len(first)].end = <<red>>[1].start
      BY <2>3, <2>4
    <3> DEFINE b == <<red>>
    <3>2. b \in Events /\ Len(b) = 1 /\ b[1] = red /\ first[Len(first)].end = b[1].start
      BY <2>6, <3>1
    <3>3. events = first \o b
      BY <2>2, <2>7
    <3> HIDE DEF b
    <3>4. /\ events \in Events /\ Len(events) = 2
          /\ \A i \in 1 .. 1 : events[i] = first[i]
          /\ \A i \in 1 .. 1 : events[1 + i] = b[i]
      BY <2>3, <3>2, <3>3, Joined
    <3> QED
      BY <3>2, <3>4
  <2>9. \A i \in 2 .. 2 : Planned(events[i], g, plan, 1, time)
    BY <2>4, <2>8 DEF Planned
  <2> QED
    BY <2>5, <2>8, <2>9 DEF Follow, events, green
<1>8. \/ g \in green.groups /\ current.state \in {"green", "red"}
      \/ g \notin green.groups /\ current.state \in {"yellow", "red"}
  BY DEF FirstDesiredGreen
<1> QED
  BY <1>4, <1>5, <1>6, <1>7, <1>8

\* The last event, which is red, gets an end: the events still follow.
LEMMA EndedFollows ==
  ASSUME NEW g, NEW current, NEW plan, NEW n \in Nat, NEW time \in Nat, NEW to \in Nat,
         NEW events, Follow(events, g, current, plan, n, time),
         events[Len(events)].state = "red"
  PROVE  Follow(WithEnd(events, to, time), g, current, plan, n + 1, time)
<1> DEFINE w == WithEnd(events, to, time)
           m == Len(events)
<1>1. /\ events \in Events /\ m \in Nat /\ m >= 1
      /\ Continues(events[1], g, current, plan, time)
      /\ \A i \in 2 .. m : Planned(events[i], g, plan, n, time)
  BY DEF Follow, Events
<1>2. /\ w \in Events /\ Len(w) = m
      /\ \A i \in 1 .. m - 1 : w[i] = events[i]
      /\ w[m].state = "red" /\ w[m].start = events[m].start
  BY <1>1, WithEndType
<1> HIDE DEF w
<1>3. Continues(w[1], g, current, plan, time)
  <2>1. CASE m = 1
    BY <1>1, <1>2, <2>1 DEF Continues
  <2>2. CASE m # 1
    <3>1. 1 \in 1 .. m - 1
      <4> HIDE DEF m
      <4> QED
        BY <1>1, <2>2
    <3> QED
      BY <1>1, <1>2, <3>1
  <2> QED
    BY <2>1, <2>2
<1>4. ASSUME NEW i \in 2 .. m PROVE Planned(w[i], g, plan, n + 1, time)
  <2>1. CASE i = m
    BY <1>2, <2>1 DEF Planned
  <2>2. CASE i # m
    <3>1. w[i] = events[i] /\ Planned(events[i], g, plan, n, time)
      BY <1>1, <1>2, <2>2
    <3>2. \A k \in 1 .. n : k \in 1 .. n + 1
      OBVIOUS
    <3> QED
      BY <3>1, <3>2 DEF Planned
  <2> QED
    BY <2>1, <2>2
<1> QED
  BY <1>2, <1>3, <1>4 DEF Follow, w

\* What one more green adds.
LEMMA NextGreenFollows ==
  ASSUME NEW g, NEW current, NEW plan \in Seq(PairGreen), NEW n \in 1 .. Len(plan) - 1,
         NEW time \in Nat, NEW events, Follow(events, g, current, plan, n, time),
         NextDesiredGreen(g, events, plan[n + 1], time) # Throws
  PROVE  Follow(NextDesiredGreen(g, events, plan[n + 1], time), g, current, plan, n + 1, time)
<1> DEFINE green == plan[n + 1]
           result == NextDesiredGreen(g, events, green, time)
<1>1. /\ green \in PairGreen /\ green.start \in Nat /\ RedEnd(green) \in Nat
  <2>1. green \in PairGreen
    OBVIOUS
  <2> HIDE DEF green
  <2> QED
    BY <2>1, ClearanceEnds DEF PairGreen
<1>2. events \in Events /\ Len(events) \in Nat /\ Len(events) >= 1
  BY DEF Follow, Events
<1>3. ~ (events = Throws \/ Last(events).state # "red")
  BY DEF NextDesiredGreen
<1>4. events[Len(events)].state = "red"
  BY <1>3 DEF Last
<1>5. n \in Nat /\ n + 1 \in Nat \ {0}
  OBVIOUS
<1> HIDE DEF green, result
<1>6. CASE g \in green.groups
  <2> DEFINE w == WithEnd(events, green.start, time)
             rest == GreenYellowRed(green, time)
             m == Len(events)
  <2>1. result = w \o rest
    BY <1>3, <1>6 DEF NextDesiredGreen, result
  <2>2. Follow(w, g, current, plan, n + 1, time)
    BY <1>1, <1>4, <1>5, EndedFollows
  <2>3. Len(w) = m /\ w[m].end = MarkOfEpoch(green.start, time)
    BY <1>1, <1>2, WithEndType
  <2>4. /\ rest \in Events /\ Len(rest) = 3 /\ rest[1].start = MarkOfEpoch(green.start, time)
        /\ \A i \in 1 .. 3 : Planned(rest[i], g, plan, n + 1, time)
    <3>1. plan[n + 1] = green
      BY DEF green
    <3> QED
      BY <1>1, <1>5, <1>6, <3>1, GreenYellowRedType
  <2>5. /\ w \in Events /\ Continues(w[1], g, current, plan, time)
        /\ \A i \in 2 .. m : Planned(w[i], g, plan, n + 1, time)
    BY <2>2, <2>3 DEF Follow
  <2> HIDE DEF w, rest
  <2>6. w[Len(w)].end = rest[1].start
    BY <2>3, <2>4
  <2>7. /\ result \in Events /\ Len(result) = m + 3
        /\ \A i \in 1 .. m : result[i] = w[i]
        /\ \A i \in 1 .. 3 : result[m + i] = rest[i]
    <3>1. /\ w \o rest \in Events /\ Len(w \o rest) = Len(w) + Len(rest)
          /\ \A i \in 1 .. Len(w) : (w \o rest)[i] = w[i]
          /\ \A i \in 1 .. Len(rest) : (w \o rest)[Len(w) + i] = rest[i]
      BY <2>4, <2>5, <2>6, Joined
    <3>2. Len(w) = m /\ Len(rest) = 3
      BY <2>3, <2>4
    <3> QED
      BY <2>1, <3>1, <3>2
  <2>8. m \in Nat /\ m >= 1
    BY <1>2
  <2> HIDE DEF m
  <2>9. ASSUME NEW i \in 2 .. m + 3 PROVE Planned(result[i], g, plan, n + 1, time)
    <3>1. CASE i <= m
      <4>1. i \in 1 .. m /\ i \in 2 .. m
        BY <2>8, <3>1
      <4> QED
        BY <2>5, <2>7, <4>1
    <3>2. CASE i > m
      <4>1. i - m \in 1 .. 3 /\ i = m + (i - m)
        BY <2>8, <3>2
      <4>2. result[i] = rest[i - m]
        BY <2>7, <4>1
      <4> QED
        BY <2>4, <4>1, <4>2
    <3> QED
      BY <2>8, <3>1, <3>2
  <2>10. Continues(result[1], g, current, plan, time)
    <3>1. 1 \in 1 .. m
      BY <2>8
    <3> QED
      BY <2>5, <2>7, <3>1
  <2> QED
    BY <2>7, <2>9, <2>10 DEF Follow, result, green
<1>7. CASE g \notin green.groups
  <2>1. result = WithEnd(events, RedEnd(green), time)
    BY <1>3, <1>7 DEF NextDesiredGreen, result
  <2>2. Follow(WithEnd(events, RedEnd(green), time), g, current, plan, n + 1, time)
    BY <1>1, <1>4, <1>5, EndedFollows
  <2> QED
    BY <2>1, <2>2 DEF result, green
<1> QED
  BY <1>6, <1>7

\* The events under a plan follow the current one, the greens of the plan and each other.
LEMMA PlannedEventsFollow ==
  ASSUME NEW g \in SignalGroups, NEW current \in MovementEvent,
         NEW plan \in Seq(PairGreen), plan # <<>>, NEW time \in Nat,
         PlannedEvents(g, current, plan, time) # Throws
  PROVE  Follow(PlannedEvents(g, current, plan, time), g, current, plan, Len(plan), time)
<1> DEFINE N == Len(plan) - 1
<1>1. N \in Nat /\ N + 1 = Len(plan)
  OBVIOUS
<1>2. PICK f : /\ PlannedEvents(g, current, plan, time) = f[Len(plan) - 1]
               /\ f[0] = FirstDesiredGreen(g, current, plan[1], time)
               /\ \A n \in 1 .. Len(plan) - 1 :
                    f[n] = NextDesiredGreen(g, f[n - 1], plan[n + 1], time)
  <2>1. Len(plan) - 1 \in Nat
    OBVIOUS
  <2> QED
    BY <2>1, PlannedRecursion
<1> HIDE DEF N
<1> DEFINE I == {n \in 0 .. N : f[n] = Throws \/ Follow(f[n], g, current, plan, n + 1, time)}
<1>3. 0 \in I
  <2>1. f[0] = Throws \/ Follow(f[0], g, current, plan, 1, time)
    BY <1>2, FirstGreenFollows
  <2> QED
    BY <1>1, <2>1
<1>4. ASSUME NEW n \in 1 .. N, n - 1 \in I PROVE n \in I
  <2>1. f[n] = NextDesiredGreen(g, f[n - 1], plan[n + 1], time)
    BY <1>2 DEF N
  <2>2. n \in 1 .. Len(plan) - 1 /\ (n - 1) + 1 = n
    BY <1>1
  <2>3. f[n - 1] = Throws \/ Follow(f[n - 1], g, current, plan, n, time)
    BY <1>4, <2>2
  <2>4. CASE f[n - 1] = Throws
    <3>1. f[n] = Throws /\ n \in 0 .. N
      BY <2>1, <2>4 DEF NextDesiredGreen
    <3> QED
      BY <3>1
  <2>5. CASE f[n - 1] # Throws
    <3>1. f[n] = Throws \/ Follow(f[n], g, current, plan, n + 1, time)
      BY <2>1, <2>2, <2>3, <2>5, NextGreenFollows
    <3>2. n \in 0 .. N
      OBVIOUS
    <3> QED
      BY <3>1, <3>2
  <2> QED
    BY <2>4, <2>5
<1>5. N \in I
  <2> HIDE DEF I
  <2>1. N \in Nat /\ \A n \in 1 .. N : n - 1 \in I => n \in I
    BY <1>1, <1>4
  <2> QED
    BY <1>3, <2>1, Climb
<1> QED
  BY <1>1, <1>2, <1>5

\* A SPaT that a plan was written into.
LEMMA UpdatedSpat ==
  ASSUME NEW movements \in Movements, \A g \in SignalGroups : movements[g] # <<>>,
         NEW plan \in Seq(PairGreen), plan # <<>>, NEW time \in Nat,
         UpdateSpatWithDpp(movements, plan, time) # Throws
  PROVE  /\ UpdateSpatWithDpp(movements, plan, time) \in [SignalGroups -> Events]
         /\ \A g \in SignalGroups :
              Follow(UpdateSpatWithDpp(movements, plan, time)[g], g, movements[g][1],
                     plan, Len(plan), time)
<1> DEFINE updated == [g \in SignalGroups |-> PlannedEvents(g, movements[g][1], plan, time)]
<1>1. /\ \A g \in SignalGroups : updated[g] # Throws
      /\ UpdateSpatWithDpp(movements, plan, time) = updated
  BY DEF UpdateSpatWithDpp
<1>2. ASSUME NEW g \in SignalGroups
      PROVE  Follow(updated[g], g, movements[g][1], plan, Len(plan), time)
  <2>1. movements[g][1] \in MovementEvent
    <3>1. movements[g] \in Seq(MovementEvent) /\ movements[g] # <<>>
      BY DEF Movements
    <3> QED
      BY <3>1
  <2>2. updated[g] = PlannedEvents(g, movements[g][1], plan, time)
    OBVIOUS
  <2> QED
    BY <1>1, <2>1, <2>2, PlannedEventsFollow
<1>3. \A g \in SignalGroups : updated[g] \in Events
  BY <1>2 DEF Follow
<1>4. updated \in [SignalGroups -> Events]
  BY <1>3
<1> QED
  BY <1>1, <1>2, <1>4

\* What Append does to a list of any elements.
LEMMA AppendToList ==
  ASSUME NEW S, NEW list \in Seq(S), NEW x \in S
  PROVE  /\ Append(list, x) \in Seq(S)
         /\ Len(Append(list, x)) = Len(list) + 1
         /\ \A i \in 1 .. Len(list) : Append(list, x)[i] = list[i]
         /\ Append(list, x)[Len(list) + 1] = x
         /\ ToSet(Append(list, x)) = ToSet(list) \cup {x}
BY DEF ToSet

\* Kept keeps the elements at the places, and no other.
LEMMA KeptElements ==
  ASSUME NEW S, NEW list \in Seq(S), NEW places \in SUBSET DOMAIN list
  PROVE  /\ Kept(list, places) \in Seq(S)
         /\ ToSet(Kept(list, places)) = {list[i] : i \in places}
<1>1. PICK f : /\ Kept(list, places) = f[Len(list)]
               /\ f[0] = <<>>
               /\ \A n \in 1 .. Len(list) :
                    f[n] = IF n \in places THEN Append(f[n - 1], list[n]) ELSE f[n - 1]
  BY KeptRecursion
<1> DEFINE Chosen(n) == {list[i] : i \in places \cap 1 .. n}
           I == {n \in 0 .. Len(list) : f[n] \in Seq(S) /\ ToSet(f[n]) = Chosen(n)}
<1>2. 0 \in I
  <2>1. ToSet(<<>>) = {} /\ Chosen(0) = {} /\ <<>> \in Seq(S)
    BY DEF ToSet
  <2> HIDE DEF Chosen
  <2>2. f[0] = <<>> /\ 0 \in 0 .. Len(list)
    BY <1>1
  <2> QED
    BY <2>1, <2>2
<1>3. ASSUME NEW n \in 1 .. Len(list), n - 1 \in I PROVE n \in I
  <2>1. list[n] \in S
    OBVIOUS
  <2>2. n \in places => Chosen(n) = Chosen(n - 1) \cup {list[n]}
    OBVIOUS
  <2>3. n \notin places => Chosen(n) = Chosen(n - 1)
    OBVIOUS
  <2> HIDE DEF Chosen
  <2>4. f[n - 1] \in Seq(S) /\ ToSet(f[n - 1]) = Chosen(n - 1)
    BY <1>3
  <2>5. f[n] = IF n \in places THEN Append(f[n - 1], list[n]) ELSE f[n - 1]
    BY <1>1
  <2>6. CASE n \in places
    <3>1. f[n] \in Seq(S) /\ ToSet(f[n]) = ToSet(f[n - 1]) \cup {list[n]}
      BY <2>1, <2>4, <2>5, <2>6, AppendToList
    <3>2. ToSet(f[n]) = Chosen(n)
      BY <2>2, <2>4, <2>6, <3>1
    <3> QED
      BY <3>1, <3>2
  <2>7. CASE n \notin places
    BY <2>3, <2>4, <2>5, <2>7
  <2> QED
    BY <2>6, <2>7
<1>4. Len(list) \in I
  <2> HIDE DEF I
  <2>1. Len(list) \in Nat /\ \A n \in 1 .. Len(list) : n - 1 \in I => n \in I
    BY <1>3
  <2> QED
    BY <1>2, <2>1, Climb
<1>5. Chosen(Len(list)) = {list[i] : i \in places}
  OBVIOUS
<1> HIDE DEF Chosen
<1> QED
  BY <1>1, <1>4, <1>5

-----------------------------------------------------------------------------
(***************************************************************************)
(* The greens that are read from a SPaT.                                   *)
(***************************************************************************)

\* The greens read back for a movement group are its greens.
LEMMA GreensOfType ==
  ASSUME NEW movements \in Movements, NEW g \in SignalGroups, NEW groups \in MoveSets,
         NEW time \in Nat
  PROVE  GreensOf(movements, g, groups, time) \in Seq(MoveGreen)
<1> DEFINE places == {i \in DOMAIN movements[g] : movements[g][i].state = "green"}
           green == Kept(movements[g], places)
<1>1. movements[g] \in Seq(MovementEvent) /\ places \in SUBSET DOMAIN movements[g]
  BY DEF Movements
<1>2. green \in Seq(MovementEvent)
  BY <1>1, KeptElements
<1>3. GreensOf(movements, g, groups, time) =
        [i \in DOMAIN green |-> [groups |-> groups,
                                 start |-> EpochOfMark(green[i].start, time),
                                 end |-> EpochOfMark(green[i].end, time)]]
  BY DEF GreensOf
<1> HIDE DEF green
<1>4. ASSUME NEW i \in DOMAIN green
      PROVE  [groups |-> groups, start |-> EpochOfMark(green[i].start, time),
              end |-> EpochOfMark(green[i].end, time)] \in MoveGreen
  <2>1. green[i] \in MovementEvent
    BY <1>2
  <2>2. green[i].start \in Mark /\ green[i].end \in Mark
    BY <2>1 DEF MovementEvent
  <2> QED
    BY <2>2, EpochOfMarkType DEF MoveGreen
<1> QED
  BY <1>2, <1>3, <1>4

\* The groups of an entry of the table make a movement group.
LEMMA MoveGroupType ==
  ASSUME NEW i \in 1 .. Len(MoveGroups)
  PROVE  /\ MoveGroups[i][1] \in SignalGroups
         /\ MoveGroups[i][2] = 0 => {MoveGroups[i][1]} \in MoveSets
         /\ MoveGroups[i][2] # 0 =>
              /\ MoveGroups[i][2] \in SignalGroups
              /\ {MoveGroups[i][1], MoveGroups[i][2]} \in MoveSets
<1>1. MoveGroups[i] \in SignalGroups \X (SignalGroups \cup {0}) /\ i \in DOMAIN MoveGroups
  BY GroupsAssumption
<1>2. {MoveGroups[i][1], MoveGroups[i][2]} \ {0} \in MoveSets
  BY <1>1 DEF MoveSets
<1> QED
  BY <1>1, <1>2, GroupsType

\* So are those of any entry of the table.
LEMMA MovementGroupGreensType ==
  ASSUME NEW movements \in Movements, NEW i \in 1 .. Len(MoveGroups), NEW time \in Nat
  PROVE  LET greens == MovementGroupGreens(movements, MoveGroups[i], time)
         IN greens # Throws => greens \in Seq(MoveGreen)
<1> DEFINE pair == MoveGroups[i]
<1>1. CASE pair[2] = 0
  <2>1. GreensOf(movements, pair[1], {pair[1]}, time) \in Seq(MoveGreen)
    BY <1>1, MoveGroupType, GreensOfType
  <2> QED
    BY <1>1, <2>1 DEF MovementGroupGreens
<1>2. CASE pair[2] # 0
  <2> DEFINE first == GreensOf(movements, pair[1], {pair[1], pair[2]}, time)
             second == [j \in DOMAIN movements[pair[2]] |->
                          [green |-> movements[pair[2]][j].state = "green",
                           start |-> EpochOfMark(movements[pair[2]][j].start, time),
                           end |-> EpochOfMark(movements[pair[2]][j].end, time)]]
             Matches(a, j) == second[j].green /\ SamePeriod(second[j], a)
             Searched(a, j) == \A k \in 1 .. j - 1 : second[k].start <= a.start /\ ~ Matches(a, k)
             shared == {k \in DOMAIN first : \E j \in DOMAIN second :
                          Searched(first[k], j) /\ Matches(first[k], j)}
  <2>1. first \in Seq(MoveGreen)
    BY <1>2, MoveGroupType, GreensOfType
  <2>2. shared \in SUBSET DOMAIN first
    OBVIOUS
  <2>3. \/ PairGreens(movements, pair, time) = Throws
        \/ PairGreens(movements, pair, time) = Kept(first, shared)
    BY DEF PairGreens
  <2> HIDE DEF first, shared, pair
  <2>4. Kept(first, shared) \in Seq(MoveGreen)
    BY <2>1, <2>2, KeptElements
  <2> QED
    BY <1>2, <2>3, <2>4 DEF MovementGroupGreens, pair
<1> QED
  BY <1>1, <1>2

\* Inserting a green gives a plan, unless it throws.
LEMMA InsertGreenType ==
  ASSUME NEW plan \in Seq(MoveGreen), NEW green \in MoveGreen,
         InsertGreen(plan, green) # Throws
  PROVE  InsertGreen(plan, green) \in Seq(MoveGreen)
<1> DEFINE later == {i \in DOMAIN plan : green.end < plan[i].start}
           place == IF later = {} THEN Len(plan) + 1
                    ELSE CHOOSE i \in later : \A j \in later : i <= j
<1>1. InsertGreen(plan, green) = InsertAt(plan, place, green)
  BY DEF InsertGreen
<1>2. place \in 1 .. Len(plan) + 1
  <2>1. CASE later = {}
    BY <2>1
  <2>2. CASE later # {}
    <3>1. later \in SUBSET Nat
      OBVIOUS
    <3>2. \E i \in later : \A j \in later : i <= j
      <4> HIDE DEF later
      <4> QED
        BY <2>2, <3>1, LeastElement
    <3>3. place \in later
      <4> HIDE DEF later
      <4> QED
        BY <2>2, <3>2
    <3> QED
      BY <3>3
  <2> QED
    BY <2>1, <2>2
<1> HIDE DEF place
<1>3. SubSeq(plan, 1, place - 1) \in Seq(MoveGreen)
  BY <1>2
<1>4. SubSeq(plan, place, Len(plan)) \in Seq(MoveGreen)
  BY <1>2
<1>5. SubSeq(plan, 1, place - 1) \o <<green>> \o SubSeq(plan, place, Len(plan)) \in Seq(MoveGreen)
  BY <1>3, <1>4
<1> QED
  BY <1>1, <1>5 DEF InsertAt

\* So does inserting several, one by one.
LEMMA InsertGreensType ==
  ASSUME NEW plan \in Seq(MoveGreen), NEW greens \in Seq(MoveGreen),
         InsertGreens(plan, greens) # Throws
  PROVE  InsertGreens(plan, greens) \in Seq(MoveGreen)
<1> DEFINE N == Len(greens)
<1>1. plan # Throws /\ greens # Throws
  BY DEF InsertGreens
<1>2. PICK f : /\ InsertGreens(plan, greens) = f[Len(greens)]
               /\ f[0] = plan
               /\ \A n \in 1 .. Len(greens) : f[n] = InsertGreen(f[n - 1], greens[n])
  <2>1. Len(greens) \in Nat
    OBVIOUS
  <2> QED
    BY <1>1, <2>1, InsertRecursion
<1> DEFINE I == {n \in 0 .. N : f[n] = Throws \/ f[n] \in Seq(MoveGreen)}
<1>3. 0 \in I
  BY <1>2
<1>4. ASSUME NEW n \in 1 .. N, n - 1 \in I PROVE n \in I
  <2>1. f[n] = InsertGreen(f[n - 1], greens[n]) /\ greens[n] \in MoveGreen
    BY <1>2
  <2>2. n \in 0 .. N
    OBVIOUS
  <2>3. CASE f[n - 1] = Throws
    <3>1. f[n] = Throws
      BY <2>1, <2>3 DEF InsertGreen
    <3> QED
      BY <2>2, <3>1
  <2>4. CASE f[n - 1] # Throws
    <3>1. f[n] = Throws \/ f[n] \in Seq(MoveGreen)
      BY <1>4, <2>1, <2>4, InsertGreenType
    <3> QED
      BY <2>2, <3>1
  <2> QED
    BY <2>3, <2>4
<1>5. N \in I
  <2> HIDE DEF I
  <2>1. N \in Nat /\ \A n \in 1 .. N : n - 1 \in I => n \in I
    BY <1>4
  <2> HIDE DEF N
  <2> QED
    BY <1>3, <2>1, Climb
<1> QED
  BY <1>2, <1>5

\* What is read from a SPaT is a plan of movement groups.
LEMMA ReadPlanType ==
  ASSUME NEW movements \in Movements, NEW time \in Nat,
         ConvertSpatToDpp(movements, time) # Throws
  PROVE  ConvertSpatToDpp(movements, time) \in Seq(MoveGreen)
<1> DEFINE N == Len(MoveGroups)
           Greens(n) == MovementGroupGreens(movements, MoveGroups[n], time)
<1>1. N \in Nat
  BY GroupsAssumption
<1>2. PICK f : /\ ConvertSpatToDpp(movements, time) = f[Len(MoveGroups)]
               /\ f[0] = <<>>
               /\ \A n \in 1 .. Len(MoveGroups) : f[n] = InsertGreens(f[n - 1], Greens(n))
  BY <1>1, ConvertRecursion
<1>3. \A n \in 1 .. N : Greens(n) = Throws \/ Greens(n) \in Seq(MoveGreen)
  BY MovementGroupGreensType
<1> HIDE DEF Greens
<1> DEFINE I == {n \in 0 .. N : f[n] = Throws \/ f[n] \in Seq(MoveGreen)}
<1>4. 0 \in I
  <2>1. f[0] \in Seq(MoveGreen) /\ 0 \in 0 .. N
    BY <1>1, <1>2
  <2> QED
    BY <2>1
<1>5. ASSUME NEW n \in 1 .. N, n - 1 \in I PROVE n \in I
  <2>1. f[n] = InsertGreens(f[n - 1], Greens(n))
    BY <1>2
  <2>2. n \in 0 .. N
    BY <1>1
  <2>3. CASE f[n - 1] = Throws \/ Greens(n) = Throws
    <3>1. f[n] = Throws
      BY <2>1, <2>3 DEF InsertGreens
    <3> QED
      BY <2>2, <3>1
  <2>4. CASE f[n - 1] # Throws /\ Greens(n) # Throws
    <3>1. f[n] = Throws \/ f[n] \in Seq(MoveGreen)
      BY <1>3, <1>5, <2>1, <2>4, InsertGreensType
    <3> QED
      BY <2>2, <3>1
  <2> QED
    BY <2>3, <2>4
<1>6. N \in I
  <2> HIDE DEF I
  <2>1. N \in Nat /\ \A n \in 1 .. N : n - 1 \in I => n \in I
    BY <1>1, <1>5
  <2> HIDE DEF N
  <2> QED
    BY <1>4, <2>1, Climb
<1> QED
  BY <1>2, <1>6

-----------------------------------------------------------------------------
(***************************************************************************)
(* The invariant: what the variables hold, that a SPaT that is about to be *)
(* projected has an event of every signal group, whose lights are those of *)
(* one movement group, and how far the producer is when it has a plan.     *)
(***************************************************************************)

\* The plans under way are of movement groups.
PlansInv ==
  dpp \in Seq(MoveGreen) /\ published \in Seq(Seq(MoveGreen)) /\ base \in Seq(MoveGreen)

\* The lights that a projection starts from.
LightsInv ==
  pc = "project" =>
    /\ \A g \in SignalGroups : spat[g] # <<>>
    /\ \E m \in MoveSets : \A g \in SignalGroups : spat[g][1].state # "red" => g \in m

\* The producer has a plan when it evaluates, and has not waited longer than it may.
ProducerInv ==
  /\ so = "evaluate" => base # <<>>
  /\ Optimizing => skips = 0
  /\ awaited # 0 => skips <= MaxSkips

LoopInv == PlanTypeOK /\ PlansInv /\ LightsInv /\ ProducerInv /\ EventsContiguous

\* It holds before the first SPaT and the first plan.
LEMMA LoopInit == PlanInit => LoopInv
<1> SUFFICES ASSUME PlanInit PROVE LoopInv
  OBVIOUS
<1>1. MaxSkips \in Nat
  BY PlanAssumption
<1>2. /\ spat \in Movements /\ seen \in Movements /\ \A g \in SignalGroups : seen[g] = <<>>
  BY DEF PlanInit, Init, Movements
<1>3. dpp \in Seq(Green) /\ published \in Seq(Seq(Green)) /\ lastGreen \in Seq(SignalGroups)
      /\ base \in Seq(Green)
  BY DEF PlanInit, Init
<1>4. PlanTypeOK
  BY <1>1, <1>2, <1>3 DEF PlanTypeOK, TypeOK, PlanInit, Init
<1>5. PlansInv
  BY DEF PlansInv, PlanInit, Init
<1>6. LightsInv /\ ProducerInv
  BY <1>1 DEF LightsInv, ProducerInv, PlanInit, Init, Optimizing
<1>7. EventsContiguous
  BY <1>2 DEF EventsContiguous
<1> QED
  BY <1>4, <1>5, <1>6, <1>7 DEF LoopInv

\* What the controller and the clock do changes neither SPaT nor plans.
LEMMA ControllerKeeps ==
  ASSUME LoopInv, BeginChange \/ EndChange \/ Tick, UNCHANGED soVars
  PROVE  LoopInv'
<1> USE DEF LoopInv
<1>1. /\ spat' = spat /\ seen' = seen /\ dpp' = dpp /\ lastGreen' = lastGreen
      /\ published' = published /\ (pc' = pc \/ pc' = "receive")
      /\ so' = so /\ base' = base /\ count' = count /\ awaited' = awaited
      /\ skips' = skips /\ wake' = wake /\ planned' = planned
  BY DEF BeginChange, EndChange, Tick, soVars
<1>2. /\ now' \in Nat /\ since' \in Nat /\ stage' \in {"green", "change"}
      /\ serving' \in MoveSets /\ next' \in MoveSets
  <2>1. /\ now \in Nat /\ since \in Nat /\ stage \in {"green", "change"}
        /\ serving \in MoveSets /\ next \in MoveSets
    BY DEF PlanTypeOK, TypeOK
  <2>2. CASE BeginChange
    <3>1. NextAllowed \subseteq MoveSets
      <4>1. Free => NextAllowed \subseteq MoveSets
        BY DEF NextAllowed
      <4>2. ASSUME ~ Free PROVE NextAllowed \subseteq MoveSets
        <5>1. dpp \in Seq(MoveGreen) /\ dpp # <<>> /\ ChangeDue
          BY <2>2, <4>2 DEF PlansInv, Free, BeginChange
        <5>2. dpp[1] \in MoveGreen
          BY <5>1
        <5>3. CASE dpp[1].groups # serving
          BY <4>2, <5>2, <5>3 DEF NextAllowed, MoveGreen
        <5>4. CASE dpp[1].groups = serving
          <6>1. Len(dpp) # 1
            BY <4>2, <5>1, <5>4 DEF Free, ChangeDue
          <6>2. 2 \in 1 .. Len(dpp)
            <7> DEFINE n == Len(dpp)
            <7>1. n \in Nat /\ n # 0 /\ n # 1
              BY <5>1, <6>1
            <7> HIDE DEF n
            <7>2. 2 \in 1 .. n
              BY <7>1
            <7> QED
              BY <7>2 DEF n
          <6>3. dpp[2] \in MoveGreen
            BY <5>1, <6>2
          <6> QED
            BY <4>2, <5>4, <6>3 DEF NextAllowed, MoveGreen
        <5> QED
          BY <5>3, <5>4
      <4> QED
        BY <4>1, <4>2
    <3> QED
      BY <2>1, <2>2, <3>1 DEF BeginChange
  <2>3. CASE EndChange
    BY <2>1, <2>3 DEF EndChange
  <2>4. CASE Tick
    BY <2>1, <2>4 DEF Tick, controllerVars
  <2> QED
    BY <2>2, <2>3, <2>4
<1>3. PlanTypeOK'
  BY <1>1, <1>2 DEF PlanTypeOK, TypeOK
<1>4. PlansInv' /\ ProducerInv' /\ EventsContiguous'
  BY <1>1 DEF PlansInv, ProducerInv, EventsContiguous, Optimizing
<1>5. LightsInv'
  BY <1>1 DEF LightsInv
<1> QED
  BY <1>3, <1>4, <1>5

\* Only a group that is served is not red.
LEMMA LightType ==
  ASSUME NEW g \in SignalGroups
  PROVE  Light(g) \in PhaseStates /\ (Light(g) # "red" => g \in serving)
BY DEF Light, PhaseStates

\* A SPaT that was received has one event of each signal group, of the lights.
LEMMA ReceiveKeeps ==
  ASSUME LoopInv, ReceiveSpat, UNCHANGED soVars
  PROVE  LoopInv'
<1> USE DEF LoopInv
<1>1. PICK left \in [SignalGroups -> Indeterminate] :
        spat' = [g \in SignalGroups |->
                   <<CurrentEvent(g, IF spat[g] # <<>> THEN spat[g][1]
                                     ELSE [state |-> left[g], start |-> UnsetMark,
                                           end |-> UnsetMark])>>]
  BY DEF ReceiveSpat
<1>2. now \in Nat /\ spat \in Movements
  BY DEF PlanTypeOK, TypeOK
<1>3. ASSUME NEW g \in SignalGroups
      PROVE  /\ spat'[g] \in Seq(MovementEvent) /\ spat'[g] # <<>>
             /\ spat'[g][1].state = Light(g)
  <2> DEFINE current == IF spat[g] # <<>> THEN spat[g][1]
                        ELSE [state |-> left[g], start |-> UnsetMark, end |-> UnsetMark]
             event == CurrentEvent(g, current)
  <2>1. current.start \in Mark
    <3>1. CASE spat[g] # <<>>
      <4>1. spat[g][1] \in MovementEvent
        BY <1>2, <3>1 DEF Movements
      <4> QED
        BY <3>1, <4>1 DEF MovementEvent
    <3>2. CASE spat[g] = <<>>
      BY <3>2, LastMarkType DEF Mark
    <3> QED
      BY <3>1, <3>2
  <2> HIDE DEF current
  <2>2. event \in MovementEvent /\ event.state = Light(g)
    BY <1>2, <2>1, MarkOfNowType, LightType DEF CurrentEvent, MovementEvent
  <2>3. spat'[g] = <<event>>
    BY <1>1 DEF current
  <2> HIDE DEF event
  <2> QED
    BY <2>2, <2>3
<1>4. spat' \in Movements
  <2>1. spat' = [g \in SignalGroups |-> spat'[g]]
    BY <1>1
  <2> QED
    BY <1>3, <2>1 DEF Movements
<1>5. /\ UNCHANGED <<now, seen, dpp, lastGreen, published, stage, serving, since, next>>
      /\ pc' \in {"project", "failed"}
      /\ so' = so /\ base' = base /\ count' = count /\ awaited' = awaited
      /\ skips' = skips /\ wake' = wake /\ planned' = planned
  BY DEF ReceiveSpat, controllerVars, soVars
<1>6. PlanTypeOK'
  BY <1>4, <1>5 DEF PlanTypeOK, TypeOK
<1>7. PlansInv' /\ ProducerInv' /\ EventsContiguous'
  BY <1>5 DEF PlansInv, ProducerInv, EventsContiguous, Optimizing
<1>8. LightsInv'
  <2>1. serving \in MoveSets
    BY DEF PlanTypeOK, TypeOK
  <2>2. \A g \in SignalGroups : spat'[g][1].state # "red" => g \in serving
    BY <1>3, LightType
  <2> QED
    BY <1>3, <2>1, <2>2 DEF LightsInv
<1> QED
  BY <1>6, <1>7, <1>8

-----------------------------------------------------------------------------
(***************************************************************************)
(* A projection.                                                           *)
(***************************************************************************)

\* Publishing what a plan makes of the SPaT, or nothing.
LEMMA PublishKeeps ==
  ASSUME LoopInv, pc = "project", NEW plan \in Seq(PairGreen), plan # <<>>,
         NEW events, events \in {Throws, UpdateSpatWithDpp(spat, plan, now)}, Publish(events),
         dpp' \in Seq(MoveGreen), lastGreen' \in Seq(SignalGroups), UNCHANGED soVars
  PROVE  LoopInv'
<1> USE DEF LoopInv
<1>1. /\ UNCHANGED <<now, published, stage, serving, since, next>>
      /\ pc' \in {"sent", "failed"}
      /\ so' = so /\ base' = base /\ count' = count /\ awaited' = awaited
      /\ skips' = skips /\ wake' = wake /\ planned' = planned
  BY DEF Publish, controllerVars, soVars
<1>2. spat \in Movements /\ seen \in Movements /\ now \in Nat
  BY DEF PlanTypeOK, TypeOK
<1>3. spat' \in Movements /\ seen' \in Movements /\ EventsContiguous'
  <2>1. CASE events = Throws
    <3>1. spat' = spat /\ seen' = seen
      BY <2>1 DEF Publish
    <3> QED
      BY <1>2, <3>1 DEF EventsContiguous
  <2>2. CASE events # Throws
    <3>1. /\ events = UpdateSpatWithDpp(spat, plan, now) /\ spat' = events /\ seen' = events
      BY <2>2 DEF Publish
    <3>2. \A g \in SignalGroups : spat[g] # <<>>
      BY DEF LightsInv
    <3>3. events \in [SignalGroups -> Events]
      BY <1>2, <2>2, <3>1, <3>2, UpdatedSpat
    <3>4. events \in Movements
      BY <3>3 DEF Movements, Events
    <3>5. \A g \in SignalGroups : \A i \in 1 .. Len(events[g]) - 1 :
            events[g][i].end = events[g][i + 1].start
      BY <3>3 DEF Events, Contiguous
    <3> QED
      BY <3>1, <3>4, <3>5 DEF EventsContiguous
  <2> QED
    BY <2>1, <2>2
<1>4. dpp' \in Seq(Green)
  BY GreensAreTyped
<1>5. PlanTypeOK'
  BY <1>1, <1>3, <1>4 DEF PlanTypeOK, TypeOK
<1>6. PlansInv' /\ ProducerInv' /\ LightsInv'
  BY <1>1 DEF PlansInv, ProducerInv, LightsInv, Optimizing
<1> QED
  BY <1>3, <1>5, <1>6

\* What is left of a plan is a part of it.
LEMMA PrunedType ==
  ASSUME NEW plan \in Seq(MoveGreen)
  PROVE  Pruned(plan) \in Seq(MoveGreen)
<1> DEFINE live == {i \in DOMAIN plan : now < plan[i].end}
           from == CHOOSE i \in live : \A j \in live : i <= j
<1>1. CASE live = {}
  BY <1>1 DEF Pruned
<1>2. CASE live # {}
  <2>1. Pruned(plan) = SubSeq(plan, from, Len(plan))
    BY <1>2 DEF Pruned
  <2>2. live \in SUBSET Nat
    OBVIOUS
  <2>3. from \in live
    <3> HIDE DEF live
    <3>1. \E i \in live : \A j \in live : i <= j
      BY <1>2, <2>2, LeastElement
    <3> QED
      BY <3>1
  <2>4. from \in 1 .. Len(plan)
    BY <2>3
  <2> HIDE DEF from
  <2> QED
    BY <2>1, <2>4
<1> QED
  BY <1>1, <1>2

\* The projection of the plan in effect.
LEMMA ProjectPlanKeeps ==
  ASSUME LoopInv, ProjectPlan, UNCHANGED soVars
  PROVE  LoopInv'
<1>1. dpp \in Seq(MoveGreen) /\ lastGreen \in Seq(SignalGroups)
  BY DEF LoopInv, PlansInv, PlanTypeOK, TypeOK
<1> DEFINE plan == Pruned(dpp)
<1>2. plan \in Seq(MoveGreen)
  BY <1>1, PrunedType
<1>3. plan \in Seq(PairGreen)
  BY <1>2, GreensAreTyped
<1>4. /\ pc = "project" /\ plan # <<>> /\ dpp' = plan /\ lastGreen' = lastGreen
      /\ Publish(UpdateSpatWithDpp(spat, plan, now))
  BY DEF ProjectPlan
<1> HIDE DEF plan
<1> QED
  BY <1>1, <1>2, <1>3, <1>4, PublishKeeps

\* Some groups in the order of the SPaT.
LEMMA InStateType ==
  ASSUME NEW state
  PROVE  /\ InState(state) \in Seq(SignalGroups)
         /\ \A i \in DOMAIN InState(state) : spat[InState(state)[i]][1].state = state
         /\ \A g \in SignalGroups : spat[g][1].state = state =>
              \E i \in DOMAIN InState(state) : InState(state)[i] = g
<1> DEFINE places == {i \in DOMAIN Order : spat[Order[i]][1].state = state}
<1>1. Order \in Seq(SignalGroups) /\ places \in SUBSET DOMAIN Order
  BY GroupsAssumption DEF SignalGroups
<1>2. InState(state) = Kept(Order, places)
  BY DEF InState
<1>3. /\ Kept(Order, places) \in Seq(SignalGroups)
      /\ ToSet(Kept(Order, places)) = {Order[i] : i \in places}
  BY <1>1, KeptElements
<1>4. ASSUME NEW i \in DOMAIN InState(state) PROVE spat[InState(state)[i]][1].state = state
  <2>1. InState(state)[i] \in ToSet(Kept(Order, places))
    BY <1>2 DEF ToSet
  <2> QED
    BY <1>3, <2>1
<1>5. ASSUME NEW g \in SignalGroups, spat[g][1].state = state
      PROVE  \E i \in DOMAIN InState(state) : InState(state)[i] = g
  <2>1. g \in {Order[i] : i \in places}
    BY <1>5 DEF SignalGroups
  <2>2. g \in ToSet(InState(state))
    BY <1>2, <1>3, <2>1
  <2> QED
    BY <2>2 DEF ToSet
<1> QED
  BY <1>2, <1>3, <1>4, <1>5

\* The groups that were green last.
LEMMA UpdatedLastGreenType ==
  ASSUME NEW groups \in Seq(SignalGroups), lastGreen \in Seq(SignalGroups)
  PROVE  UpdatedLastGreen(groups) \in Seq(SignalGroups)
BY DEF UpdatedLastGreen

\* The longest of some times is one of them.
LEMMA LongestIsOne ==
  ASSUME NEW times \in SUBSET Nat, \E t \in times : \A u \in times : u <= t
  PROVE  Longest(times) \in Nat /\ \A u \in times : u <= Longest(times)
BY DEF Longest

\* Of the times of a list there is a longest.
LEMMA LongestOfList ==
  ASSUME NEW N \in Nat \ {0}, NEW f \in [1 .. N -> Nat]
  PROVE  LET times == {f[i] : i \in 1 .. N}
         IN Longest(times) \in Nat /\ \A i \in 1 .. N : f[i] <= Longest(times)
<1> DEFINE M == N - 1
           I == {n \in 0 .. M : \E i \in 1 .. n + 1 : \A j \in 1 .. n + 1 : f[j] <= f[i]}
<1>1. M \in Nat /\ N = M + 1
  OBVIOUS
<1> HIDE DEF M
<1>2. 0 \in I
  <2>1. 1 \in 1 .. 0 + 1 /\ \A j \in 1 .. 0 + 1 : f[j] <= f[1]
    BY <1>1
  <2> QED
    BY <1>1, <2>1
<1>3. ASSUME NEW n \in 1 .. M, n - 1 \in I PROVE n \in I
  <2>1. PICK i \in 1 .. (n - 1) + 1 : \A j \in 1 .. (n - 1) + 1 : f[j] <= f[i]
    BY <1>3
  <2>2. /\ i \in 1 .. n + 1 /\ n + 1 \in 1 .. n + 1 /\ n \in 0 .. M
        /\ \A j \in 1 .. n + 1 : j = n + 1 \/ j \in 1 .. (n - 1) + 1
    BY <1>1
  <2>3. \A j \in 1 .. n + 1 : f[j] \in Nat
    BY <1>1
  <2>4. CASE f[n + 1] <= f[i]
    <3>1. \A j \in 1 .. n + 1 : f[j] <= f[i]
      BY <2>1, <2>2, <2>4
    <3> QED
      BY <2>2, <3>1
  <2>5. CASE f[n + 1] > f[i]
    <3>1. ASSUME NEW j \in 1 .. n + 1 PROVE f[j] <= f[n + 1]
      <4>1. f[j] \in Nat /\ f[n + 1] \in Nat /\ f[i] \in Nat
        BY <2>2, <2>3
      <4>2. j = n + 1 \/ f[j] <= f[i]
        BY <2>1, <2>2
      <4> QED
        BY <2>5, <4>1, <4>2
    <3> QED
      BY <2>2, <3>1
  <2> QED
    BY <2>2, <2>3, <2>4, <2>5
<1>4. M \in I
  <2> HIDE DEF I
  <2>1. M \in Nat /\ \A n \in 1 .. M : n - 1 \in I => n \in I
    BY <1>1, <1>3
  <2> QED
    BY <1>2, <2>1, Climb
<1>5. PICK i \in 1 .. N : \A j \in 1 .. N : f[j] <= f[i]
  BY <1>1, <1>4
<1> DEFINE times == {f[j] : j \in 1 .. N}
<1>6. times \in SUBSET Nat /\ f[i] \in times /\ \A u \in times : u <= f[i]
  BY <1>5
<1>7. \A j \in 1 .. N : f[j] \in times
  OBVIOUS
<1> HIDE DEF times
<1>8. Longest(times) \in Nat /\ \A u \in times : u <= Longest(times)
  BY <1>6, LongestIsOne
<1>9. Longest(times) \in Nat /\ \A j \in 1 .. N : f[j] <= Longest(times)
  BY <1>7, <1>8
<1> QED
  BY <1>9 DEF times

\* A plan of one green.
LEMMA OneGreenType ==
  ASSUME NEW groups \in Pairs, NEW from \in Nat, NEW to \in Nat
  PROVE  /\ OneGreen(groups, from, to) \in Seq(PairGreen)
         /\ OneGreen(groups, from, to) # <<>> /\ Len(OneGreen(groups, from, to)) = 1
         /\ OneGreen(groups, from, to)[1] = [groups |-> groups, start |-> from, end |-> to]
BY DEF OneGreen, PairGreen

\* A current event starts at some time.
LEMMA CurrentStart ==
  ASSUME LoopInv, pc = "project", NEW g \in SignalGroups
  PROVE  /\ spat[g] \in Seq(MovementEvent) /\ spat[g] # <<>> /\ spat[g][1] \in MovementEvent
         /\ EpochOfMark(spat[g][1].start, now) \in Nat
<1>1. now \in Nat /\ spat[g] \in Seq(MovementEvent) /\ spat[g] # <<>>
  BY DEF LoopInv, LightsInv, PlanTypeOK, TypeOK, Movements
<1>2. spat[g][1] \in MovementEvent
  BY <1>1
<1> QED
  BY <1>1, <1>2, EpochOfMarkType DEF MovementEvent

\* The plan of the current green: of one or two signal groups that are green.
LEMMA CurrentGreenType ==
  ASSUME LoopInv, pc = "project", InState("green") # <<>>, Len(InState("green")) <= 2
  PROVE  LET groups == InState("green")
             start == EpochOfMark(spat[Head(groups)][1].start, now)
             plan == OneGreen({groups[i] : i \in DOMAIN groups}, start,
                              start + MinGreen[Head(groups)])
         IN /\ plan \in Seq(PairGreen) /\ plan # <<>> /\ Len(plan) = 1
            /\ \A g \in SignalGroups : spat[g][1].state = "green" => g \in plan[1].groups
            /\ \A g \in plan[1].groups : spat[g][1].state = "green"
<1> DEFINE groups == InState("green")
           set == {groups[i] : i \in DOMAIN groups}
           start == EpochOfMark(spat[Head(groups)][1].start, now)
           end == start + MinGreen[Head(groups)]
<1>1. /\ groups \in Seq(SignalGroups) /\ groups # <<>> /\ Len(groups) <= 2
      /\ \A i \in DOMAIN groups : spat[groups[i]][1].state = "green"
      /\ \A g \in SignalGroups : spat[g][1].state = "green" =>
           \E i \in DOMAIN groups : groups[i] = g
  BY InStateType
<1> HIDE DEF groups
<1>2. Head(groups) \in SignalGroups
  BY <1>1
<1>3. start \in Nat /\ end \in Nat
  <2>1. start \in Nat
    BY <1>2, CurrentStart
  <2>2. MinGreen[Head(groups)] \in Nat
    BY <1>2, MinGreenAssumption
  <2> HIDE DEF start
  <2> QED
    BY <2>1, <2>2
<1>4. set \in Pairs
  <2> DEFINE n == Len(groups)
  <2>1. n = 1 \/ n = 2
    <3>1. n \in Nat /\ n # 0 /\ n <= 2
      BY <1>1
    <3> HIDE DEF n
    <3> QED
      BY <3>1
  <2>2. CASE n = 1
    <3>1. DOMAIN groups = {1} /\ groups[1] \in SignalGroups
      BY <1>1, <2>2
    <3>2. set = {groups[1], groups[1]}
      BY <3>1
    <3> QED
      BY <3>1, <3>2 DEF Pairs
  <2>3. CASE n = 2
    <3>1. DOMAIN groups = {1, 2} /\ groups[1] \in SignalGroups /\ groups[2] \in SignalGroups
      BY <1>1, <2>3
    <3>2. set = {groups[1], groups[2]}
      BY <3>1
    <3> QED
      BY <3>1, <3>2 DEF Pairs
  <2> QED
    BY <2>1, <2>2, <2>3
<1>5. /\ \A g \in SignalGroups : spat[g][1].state = "green" => g \in set
      /\ \A g \in set : spat[g][1].state = "green"
  BY <1>1
<1> HIDE DEF set, start, end
<1> DEFINE plan == OneGreen(set, start, end)
<1>6. /\ plan \in Seq(PairGreen) /\ plan # <<>> /\ Len(plan) = 1
      /\ plan[1] = [groups |-> set, start |-> start, end |-> end]
  BY <1>3, <1>4, OneGreenType
<1>7. plan[1].groups = set
  BY <1>6
<1> HIDE DEF plan
<1>8. /\ plan \in Seq(PairGreen) /\ plan # <<>> /\ Len(plan) = 1
      /\ \A g \in SignalGroups : spat[g][1].state = "green" => g \in plan[1].groups
      /\ \A g \in plan[1].groups : spat[g][1].state = "green"
  BY <1>5, <1>6, <1>7
<1> QED
  BY <1>8 DEF plan, set, start, end, groups

\* The projection of the current green (fix_upcoming_yell_red).
LEMMA ProjectCurrentGreenKeeps ==
  ASSUME LoopInv, ProjectCurrentGreen, UNCHANGED soVars
  PROVE  LoopInv'
<1> DEFINE groups == InState("green")
           start == EpochOfMark(spat[Head(groups)][1].start, now)
           plan == OneGreen({groups[i] : i \in DOMAIN groups}, start,
                            start + MinGreen[Head(groups)])
           events == IF Len(groups) > 2 THEN Throws ELSE UpdateSpatWithDpp(spat, plan, now)
<1>1. /\ pc = "project" /\ groups # <<>> /\ dpp' = <<>> /\ Publish(events)
      /\ lastGreen' = UpdatedLastGreen(groups)
  BY DEF ProjectCurrentGreen
<1>2. groups \in Seq(SignalGroups) /\ Len(groups) \in Nat
  BY InStateType
<1>3. lastGreen \in Seq(SignalGroups)
  BY DEF LoopInv, PlanTypeOK, TypeOK
<1>4. lastGreen' \in Seq(SignalGroups) /\ dpp' \in Seq(MoveGreen)
  BY <1>1, <1>2, <1>3, UpdatedLastGreenType
<1>5. CASE Len(groups) <= 2
  <2>1. plan \in Seq(PairGreen) /\ plan # <<>>
    BY <1>1, <1>5, CurrentGreenType
  <2>2. events \in {Throws, UpdateSpatWithDpp(spat, plan, now)}
    OBVIOUS
  <2> HIDE DEF events, plan
  <2> QED
    BY <1>1, <1>4, <2>1, <2>2, PublishKeeps
<1>6. CASE Len(groups) > 2
  <2>1. events = Throws
    BY <1>6
  <2>2. PICK g \in SignalGroups : TRUE
    BY <1>1, <1>2
  <2> DEFINE any == OneGreen({g, g}, 0, 0)
  <2>3. any \in Seq(PairGreen) /\ any # <<>>
    <3>1. {g, g} \in Pairs /\ 0 \in Nat
      BY DEF Pairs
    <3> QED
      BY <3>1, OneGreenType
  <2>4. events \in {Throws, UpdateSpatWithDpp(spat, any, now)}
    BY <2>1
  <2> HIDE DEF events, any
  <2> QED
    BY <1>1, <1>4, <2>3, <2>4, PublishKeeps
<1> QED
  BY <1>2, <1>5, <1>6

\* The plan of the next green: when it starts is after the clearance of the yellows.
LEMMA NextGreenType ==
  ASSUME LoopInv, pc = "project", NEW groups \in MoveSets, NEW start \in Nat
  PROVE  /\ NextGreen(groups, start) \in Seq(PairGreen)
         /\ NextGreen(groups, start) # <<>> /\ Len(NextGreen(groups, start)) = 1
         /\ NextGreen(groups, start)[1].groups = groups
         /\ NextGreen(groups, start)[1].start = start
<1> DEFINE times == {MinGreen[g] : g \in groups}
           end == start + Longest(times)
<1>1. PICK g \in SignalGroups, h \in SignalGroups : groups = {g, h}
  BY MoveSetsArePairs DEF Pairs
<1>2. times = {MinGreen[g], MinGreen[h]} /\ MinGreen[g] \in Nat /\ MinGreen[h] \in Nat
  BY <1>1, MinGreenAssumption
<1> HIDE DEF times
<1>3. times \in SUBSET Nat /\ \E t \in times : \A u \in times : u <= t
  BY <1>2
<1>4. Longest(times) \in Nat
  BY <1>3, LongestIsOne
<1>5. end \in Nat
  BY <1>4
<1>6. NextGreen(groups, start) = OneGreen(groups, start, end)
  BY DEF NextGreen, times
<1> HIDE DEF end
<1>7. groups \in Pairs
  BY MoveSetsArePairs
<1> DEFINE plan == OneGreen(groups, start, end)
<1>8. /\ plan \in Seq(PairGreen) /\ plan # <<>> /\ Len(plan) = 1
      /\ plan[1] = [groups |-> groups, start |-> start, end |-> end]
  BY <1>5, <1>7, OneGreenType
<1> HIDE DEF plan
<1>9. plan[1].groups = groups /\ plan[1].start = start
  BY <1>8
<1> QED
  BY <1>6, <1>8, <1>9 DEF plan

\* The end of yellow and red of the signal groups in yellow.
LEMMA StartAfterYellowType ==
  ASSUME LoopInv, pc = "project", InState("yellow") # <<>>
  PROVE  LET start == StartAfterYellow(InState("yellow"))
         IN /\ start \in Nat
            /\ \A g \in SignalGroups : spat[g][1].state = "yellow" =>
                 EpochOfMark(spat[g][1].start, now) + Yellow[g] <= start
<1> DEFINE groups == InState("yellow")
           N == Len(groups)
           f == [i \in 1 .. N |->
                   EpochOfMark(spat[groups[i]][1].start, now) + ClearanceOf(groups[i])]
           start == StartAfterYellow(groups)
<1>1. /\ groups \in Seq(SignalGroups) /\ groups # <<>>
      /\ \A g \in SignalGroups : spat[g][1].state = "yellow" =>
           \E i \in DOMAIN groups : groups[i] = g
  BY InStateType
<1> HIDE DEF groups
<1>2. N \in Nat \ {0} /\ DOMAIN groups = 1 .. N
  BY <1>1
<1> HIDE DEF N
<1>3. ASSUME NEW g \in SignalGroups
      PROVE  /\ EpochOfMark(spat[g][1].start, now) \in Nat
             /\ ClearanceOf(g) \in Nat /\ Yellow[g] \in Nat /\ Yellow[g] <= ClearanceOf(g)
  BY CurrentStart, ClearanceType
<1>4. ASSUME NEW i \in 1 .. N
      PROVE  EpochOfMark(spat[groups[i]][1].start, now) + ClearanceOf(groups[i]) \in Nat
  <2>1. groups[i] \in SignalGroups
    BY <1>1, <1>2
  <2> QED
    BY <1>3, <2>1
<1>5. f \in [1 .. N -> Nat]
  BY <1>4
<1>6. start = Longest({f[i] : i \in 1 .. N})
  <2>1. {f[i] : i \in 1 .. N} =
          {EpochOfMark(spat[groups[i]][1].start, now) + ClearanceOf(groups[i]) : i \in 1 .. N}
    OBVIOUS
  <2> HIDE DEF f
  <2> QED
    BY <1>2, <2>1 DEF StartAfterYellow
<1>7. start \in Nat /\ \A i \in 1 .. N : f[i] <= start
  <2> HIDE DEF f, start
  <2> QED
    BY <1>2, <1>5, <1>6, LongestOfList
<1>8. ASSUME NEW g \in SignalGroups, spat[g][1].state = "yellow"
      PROVE  EpochOfMark(spat[g][1].start, now) + Yellow[g] <= start
  <2>1. PICK i \in 1 .. N : groups[i] = g
    BY <1>1, <1>2, <1>8
  <2>2. f[i] = EpochOfMark(spat[g][1].start, now) + ClearanceOf(g)
    BY <2>1
  <2>3. f[i] <= start /\ start \in Nat
    BY <1>7
  <2> DEFINE from == EpochOfMark(spat[g][1].start, now)
  <2>4. from \in Nat /\ ClearanceOf(g) \in Nat /\ Yellow[g] \in Nat /\ Yellow[g] <= ClearanceOf(g)
    BY <1>3
  <2>5. from + ClearanceOf(g) <= start
    BY <2>2, <2>3
  <2> HIDE DEF from, start, f
  <2>6. from + Yellow[g] <= start
    BY <2>3, <2>4, <2>5
  <2> QED
    BY <2>6 DEF from
<1> QED
  BY <1>7, <1>8 DEF groups

\* The end of red of those that were green last.
LEMMA RedClearanceEndsType ==
  ASSUME LoopInv, pc = "project", lastGreen # <<>>
  PROVE  Last(RedClearanceEnds) \in Nat
<1> DEFINE places == {i \in DOMAIN Order : Order[i] \in {Head(lastGreen), Last(lastGreen)}}
           groups == Kept(Order, places)
<1>1. lastGreen \in Seq(SignalGroups)
  BY DEF LoopInv, PlanTypeOK, TypeOK
<1>2. Order \in Seq(SignalGroups) /\ places \in SUBSET DOMAIN Order /\ places # {}
  <2>1. Head(lastGreen) \in SignalGroups
    BY <1>1
  <2>2. PICK i \in DOMAIN Order : Order[i] = Head(lastGreen)
    BY <2>1 DEF SignalGroups
  <2> QED
    BY <2>2, GroupsAssumption DEF SignalGroups
<1>3. groups \in Seq(SignalGroups) /\ ToSet(groups) = {Order[i] : i \in places}
  BY <1>2, KeptElements
<1>4. groups # <<>>
  <2>1. ToSet(groups) # {}
    BY <1>2, <1>3
  <2> QED
    BY <2>1 DEF ToSet
<1>5. RedClearanceEnds = [i \in DOMAIN groups |->
        EpochOfMark(spat[groups[i]][1].start, now) + RedClear[groups[i]]]
  BY DEF RedClearanceEnds
<1> HIDE DEF groups
<1>6. ASSUME NEW i \in DOMAIN groups
      PROVE  EpochOfMark(spat[groups[i]][1].start, now) + RedClear[groups[i]] \in Nat
  <2>1. groups[i] \in SignalGroups
    BY <1>3
  <2> DEFINE g == groups[i]
  <2> HIDE DEF g
  <2>2. EpochOfMark(spat[g][1].start, now) \in Nat /\ RedClear[g] \in Nat
    BY <2>1, CurrentStart, ClearanceType DEF g
  <2> QED
    BY <2>2 DEF g
<1>7. RedClearanceEnds \in Seq(Nat) /\ RedClearanceEnds # <<>>
  BY <1>3, <1>4, <1>5, <1>6
<1> HIDE DEF RedClearanceEnds
<1> QED
  BY <1>7 DEF Last

\* The projection of the next green (fix_upcoming_green).
LEMMA ProjectNextGreenKeeps ==
  ASSUME LoopInv, ProjectNextGreen, UNCHANGED soVars
  PROVE  LoopInv'
<1> DEFINE yellow == InState("yellow")
           ends == RedClearanceEnds
           NoStart == yellow = <<>> /\ (lastGreen = <<>> \/ \E i \in DOMAIN ends : ends[i] < now)
           start == IF yellow # <<>> THEN StartAfterYellow(yellow) ELSE Last(ends)
           Published(groups) == IF groups = {} \/ NoStart THEN Throws
                                ELSE UpdateSpatWithDpp(spat, NextGreen(groups, start), now)
<1>1. /\ pc = "project" /\ dpp' = <<>>
      /\ lastGreen' = IF yellow = <<>> THEN lastGreen ELSE UpdatedLastGreen(yellow)
  BY DEF ProjectNextGreen
<1>2. PICK groups \in PhaseNext : Publish(Published(groups))
  BY DEF ProjectNextGreen
<1>3. /\ lastGreen \in Seq(SignalGroups) /\ serving \in MoveSets /\ next \in MoveSets
  BY DEF LoopInv, PlanTypeOK, TypeOK
<1>4. yellow \in Seq(SignalGroups)
  BY InStateType
<1>5. lastGreen' \in Seq(SignalGroups) /\ dpp' \in Seq(MoveGreen)
  BY <1>1, <1>3, <1>4, UpdatedLastGreenType
<1>6. ~ NoStart => start \in Nat
  BY <1>1, StartAfterYellowType, RedClearanceEndsType
<1>7. groups = {} \/ groups \in MoveSets
  BY <1>2, <1>3 DEF PhaseNext
<1>8. CASE groups = {} \/ NoStart
  <2>1. Published(groups) = Throws
    BY <1>8
  <2> DEFINE any == NextGreen(serving, 0)
  <2>2. any \in Seq(PairGreen) /\ any # <<>>
    BY <1>1, <1>3, NextGreenType
  <2>3. Published(groups) \in {Throws, UpdateSpatWithDpp(spat, any, now)}
    BY <2>1
  <2> HIDE DEF any, Published
  <2> QED
    BY <1>1, <1>2, <1>5, <2>2, <2>3, PublishKeeps
<1>9. CASE ~ (groups = {} \/ NoStart)
  <2> DEFINE plan == NextGreen(groups, start)
  <2>1. Published(groups) \in {Throws, UpdateSpatWithDpp(spat, plan, now)}
    OBVIOUS
  <2>2. plan \in Seq(PairGreen) /\ plan # <<>>
    <3>1. groups \in MoveSets /\ start \in Nat
      BY <1>6, <1>7, <1>9
    <3> HIDE DEF start
    <3> QED
      BY <1>1, <3>1, NextGreenType
  <2> HIDE DEF plan, Published
  <2> QED
    BY <1>1, <1>2, <1>5, <2>1, <2>2, PublishKeeps
<1> QED
  BY <1>8, <1>9

\* A plan that is consumed was published.
LEMMA ConsumeKeeps ==
  ASSUME LoopInv, UpdateDesiredPhasePlan, UNCHANGED soVars
  PROVE  LoopInv'
<1> USE DEF LoopInv
<1>1. /\ UNCHANGED <<now, spat, seen, lastGreen, pc, stage, serving, since, next>>
      /\ so' = so /\ base' = base /\ count' = count /\ awaited' = awaited
      /\ skips' = skips /\ wake' = wake /\ planned' = planned
  BY DEF UpdateDesiredPhasePlan, controllerVars, soVars
<1>2. published # <<>> /\ dpp' = Head(published) /\ published' = Tail(published)
  BY DEF UpdateDesiredPhasePlan
<1>3. /\ published \in Seq(Seq(MoveGreen)) /\ base \in Seq(MoveGreen)
      /\ published \in Seq(Seq(Green))
  BY DEF PlansInv, PlanTypeOK, TypeOK
<1>4. /\ dpp' \in Seq(MoveGreen) /\ published' \in Seq(Seq(MoveGreen))
      /\ published' \in Seq(Seq(Green))
  <2>1. Head(published) \in Seq(MoveGreen) /\ Tail(published) \in Seq(Seq(MoveGreen))
    BY <1>2, <1>3
  <2>2. Tail(published) \in Seq(Seq(Green))
    BY <1>2, <1>3
  <2> QED
    BY <1>2, <2>1, <2>2
<1>5. dpp' \in Seq(Green)
  BY <1>4, GreensAreTyped
<1>6. PlanTypeOK'
  BY <1>1, <1>4, <1>5 DEF PlanTypeOK, TypeOK
<1>7. PlansInv' /\ ProducerInv' /\ EventsContiguous' /\ LightsInv'
  BY <1>1, <1>4 DEF PlansInv, ProducerInv, EventsContiguous, LightsInv, Optimizing
<1> QED
  BY <1>6, <1>7

-----------------------------------------------------------------------------
(***************************************************************************)
(* The producer.                                                           *)
(***************************************************************************)

\* A step of the producer that publishes no plan.
LEMMA ProducerFrame ==
  ASSUME LoopInv, UNCHANGED projectionVars,
         so' \in {"asleep", "generate", "evaluate", "down"},
         base' \in Seq(MoveGreen), {count', awaited', wake', planned'} \subseteq Nat,
         skips' \in 0 .. MaxSkips + 1, ProducerInv'
  PROVE  LoopInv'
<1> USE DEF LoopInv
<1>1. /\ now' = now /\ stage' = stage /\ serving' = serving /\ since' = since /\ next' = next
      /\ spat' = spat /\ seen' = seen /\ dpp' = dpp /\ lastGreen' = lastGreen
      /\ published' = published /\ pc' = pc
  BY DEF projectionVars
<1>2. base' \in Seq(Green)
  BY GreensAreTyped
<1>3. PlanTypeOK'
  BY <1>1, <1>2 DEF PlanTypeOK, TypeOK
<1>4. PlansInv' /\ LightsInv' /\ EventsContiguous'
  BY <1>1 DEF PlansInv, LightsInv, EventsContiguous
<1> QED
  BY <1>3, <1>4

\* The producer goes to sleep.
LEMMA EndIterationType ==
  ASSUME LoopInv, EndIteration
  PROVE  /\ so' = "asleep" /\ base' = <<>> /\ base' \in Seq(MoveGreen)
         /\ count' \in Nat /\ wake' \in Nat
<1>1. now \in Nat /\ SoSleep \in Nat
  BY PlanAssumption DEF LoopInv, PlanTypeOK, TypeOK
<1> QED
  BY <1>1 DEF EndIteration

\* The producer reads the SPaT and decides whether to optimize.
LEMMA ReadSpatKeeps ==
  ASSUME LoopInv, ReadSpat
  PROVE  LoopInv'
<1> DEFINE greens == ConvertSpatToDpp(seen, now)
<1>1. /\ SkipUnusableSpat(greens) \/ AwaitPlanInSpat(greens) \/ DecideToOptimize(greens)
      /\ planned' = planned /\ UNCHANGED projectionVars
  BY DEF ReadSpat
<1>2. /\ now \in Nat /\ seen \in Movements /\ base \in Seq(MoveGreen)
      /\ count \in Nat /\ awaited \in Nat /\ wake \in Nat /\ planned \in Nat
      /\ skips \in 0 .. MaxSkips + 1 /\ MaxSkips \in Nat
      /\ (awaited # 0 => skips <= MaxSkips)
      /\ so = "asleep"
  BY PlanAssumption DEF LoopInv, PlansInv, PlanTypeOK, TypeOK, ProducerInv, ReadSpat
<1>3. greens = Throws \/ greens \in Seq(MoveGreen)
  BY <1>2, ReadPlanType
<1> HIDE DEF greens
<1>4. CASE SkipUnusableSpat(greens)
  <2>1. EndIteration /\ awaited' = awaited /\ skips' = skips
    BY <1>4 DEF SkipUnusableSpat
  <2>2. /\ so' = "asleep" /\ base' = <<>> /\ base' \in Seq(MoveGreen)
        /\ count' \in Nat /\ wake' \in Nat
    BY <2>1, EndIterationType
  <2>3. ProducerInv'
    BY <1>2, <2>1, <2>2 DEF ProducerInv, Optimizing
  <2> QED
    BY <1>1, <1>2, <2>1, <2>2, <2>3, ProducerFrame
<1>5. CASE AwaitPlanInSpat(greens)
  <2>1. /\ EndIteration /\ awaited # 0 /\ skips' = skips + 1
        /\ awaited' = IF skips' > MaxSkips THEN 0 ELSE awaited
    BY <1>5 DEF AwaitPlanInSpat, Reflected
  <2>2. /\ so' = "asleep" /\ base' = <<>> /\ base' \in Seq(MoveGreen)
        /\ count' \in Nat /\ wake' \in Nat
    BY <2>1, EndIterationType
  <2>3. skips' \in 0 .. MaxSkips + 1 /\ awaited' \in Nat /\ (awaited' # 0 => skips' <= MaxSkips)
    BY <1>2, <2>1
  <2>4. ProducerInv'
    BY <2>2, <2>3 DEF ProducerInv, Optimizing
  <2> QED
    BY <1>1, <1>2, <2>2, <2>3, <2>4, ProducerFrame
<1>6. CASE DecideToOptimize(greens)
  <2>1. awaited' = 0 /\ skips' = 0 /\ greens \in Seq(MoveGreen)
    BY <1>3, <1>6 DEF DecideToOptimize
  <2>2. \/ EndIteration
        \/ so' = "generate" /\ count' = Len(greens) /\ base' = base /\ wake' = wake
    BY <1>6 DEF DecideToOptimize
  <2>3. /\ so' \in {"asleep", "generate"} /\ base' \in Seq(MoveGreen)
        /\ count' \in Nat /\ wake' \in Nat
    BY <1>2, <2>1, <2>2, EndIterationType
  <2>4. 0 \in 0 .. MaxSkips + 1 /\ awaited' \in Nat
    BY <1>2, <2>1
  <2>5. ProducerInv'
    BY <2>1, <2>3 DEF ProducerInv
  <2> QED
    BY <1>1, <1>2, <2>1, <2>3, <2>4, <2>5, ProducerFrame
<1> QED
  BY <1>1, <1>4, <1>5, <1>6

\* It reads the SPaT again for the greens that candidates extend.
LEMMA GenerateKeeps ==
  ASSUME LoopInv, Generate
  PROVE  LoopInv'
<1> DEFINE greens == ConvertSpatToDpp(seen, now)
<1>1. /\ now \in Nat /\ seen \in Movements /\ base \in Seq(MoveGreen)
      /\ count \in Nat /\ awaited \in Nat /\ wake \in Nat /\ planned \in Nat
      /\ skips \in 0 .. MaxSkips + 1 /\ MaxSkips \in Nat /\ skips = 0
      /\ so = "generate"
  BY PlanAssumption DEF LoopInv, PlansInv, PlanTypeOK, TypeOK, ProducerInv, Optimizing, Generate
<1>2. greens = Throws \/ greens \in Seq(MoveGreen)
  BY <1>1, ReadPlanType
<1>3. /\ UNCHANGED projectionVars
      /\ awaited' = awaited /\ skips' = skips /\ planned' = planned
      /\ \/ EndIteration
         \/ /\ greens # Throws /\ greens # <<>>
            /\ so' = "evaluate" /\ base' = greens /\ count' = count /\ wake' = wake
  BY DEF Generate
<1> HIDE DEF greens
<1>4. /\ so' \in {"asleep", "evaluate"} /\ base' \in Seq(MoveGreen)
      /\ so' = "evaluate" => base' # <<>>
      /\ count' \in Nat /\ wake' \in Nat
  BY <1>1, <1>2, <1>3, EndIterationType
<1>5. ProducerInv'
  BY <1>1, <1>3, <1>4 DEF ProducerInv
<1> QED
  BY <1>1, <1>3, <1>4, <1>5, ProducerFrame

\* No candidate is chosen, or the process ends.
LEMMA FindNoPlanKeeps ==
  ASSUME LoopInv, FindNoPlan \/ Terminate
  PROVE  LoopInv'
<1>1. /\ base \in Seq(MoveGreen)
      /\ count \in Nat /\ awaited \in Nat /\ wake \in Nat /\ planned \in Nat
      /\ skips \in 0 .. MaxSkips + 1 /\ MaxSkips \in Nat /\ skips = 0
  BY PlanAssumption
     DEF LoopInv, PlansInv, PlanTypeOK, TypeOK, ProducerInv, Optimizing, FindNoPlan, Terminate
<1>2. /\ UNCHANGED projectionVars
      /\ awaited' = awaited /\ skips' = skips /\ planned' = planned
      /\ \/ EndIteration
         \/ so' = "down" /\ base' = base /\ count' = count /\ wake' = wake
  BY DEF FindNoPlan, Terminate
<1>3. /\ so' \in {"asleep", "down"} /\ base' \in Seq(MoveGreen)
      /\ count' \in Nat /\ wake' \in Nat
  BY <1>1, <1>2, EndIterationType
<1>4. ProducerInv'
  BY <1>1, <1>2, <1>3 DEF ProducerInv
<1> QED
  BY <1>1, <1>2, <1>3, <1>4, ProducerFrame

\* A candidate is a plan.
LEMMA CandidateType ==
  ASSUME LoopInv, so = "evaluate", NEW candidate \in Candidates
  PROVE  candidate \in Seq(MoveGreen)
<1>1. base \in Seq(MoveGreen) /\ base # <<>>
  BY DEF LoopInv, PlansInv, ProducerInv
<1>2. Last(base) \in PairGreen
  BY <1>1, GreensAreTyped DEF Last
<1> DEFINE start == RedEnd(Last(base))
<1>3. start \in Nat
  BY <1>2, ClearanceEnds
<1>4. PICK groups \in MoveSets, length \in GreenLengths :
        candidate = Append(base, [groups |-> groups, start |-> start, end |-> start + length])
  BY DEF Candidates
<1> HIDE DEF start
<1>5. [groups |-> groups, start |-> start, end |-> start + length] \in MoveGreen
  <2>1. start + length \in Nat
    BY <1>3, PlanAssumption
  <2> QED
    BY <1>3, <2>1 DEF MoveGreen
<1> QED
  BY <1>1, <1>4, <1>5

\* A candidate is published.
LEMMA PublishPlanKeeps ==
  ASSUME LoopInv, PublishPlan
  PROVE  LoopInv'
<1> USE DEF LoopInv
<1>1. PICK candidate \in Candidates : published' = Append(published, candidate)
  BY DEF PublishPlan
<1>2. candidate \in Seq(MoveGreen) /\ candidate \in Seq(Green)
  BY CandidateType, GreensAreTyped DEF PublishPlan
<1>3. /\ UNCHANGED <<now, spat, seen, dpp, lastGreen, pc, stage, serving, since, next>>
      /\ awaited' = count /\ planned' = planned + 1 /\ skips' = skips
      /\ EndIteration
  BY DEF PublishPlan, controllerVars
<1>4. /\ count \in Nat /\ planned \in Nat /\ skips = 0 /\ skips \in 0 .. MaxSkips + 1
      /\ MaxSkips \in Nat
  BY PlanAssumption DEF PlanTypeOK, ProducerInv, Optimizing, PublishPlan
<1>5. /\ so' = "asleep" /\ base' = <<>> /\ base' \in Seq(MoveGreen)
      /\ count' \in Nat /\ wake' \in Nat
  BY <1>3, EndIterationType
<1>6. published' \in Seq(Seq(MoveGreen)) /\ published' \in Seq(Seq(Green))
  <2>1. published \in Seq(Seq(MoveGreen)) /\ published \in Seq(Seq(Green))
    BY DEF PlansInv, PlanTypeOK, TypeOK
  <2> DEFINE M == Seq(MoveGreen)
             G == Seq(Green)
  <2> HIDE DEF M, G
  <2>2. published \in Seq(M) /\ published \in Seq(G) /\ candidate \in M /\ candidate \in G
    BY <1>2, <2>1 DEF M, G
  <2>3. Append(published, candidate) \in Seq(M) /\ Append(published, candidate) \in Seq(G)
    BY <2>2
  <2> QED
    BY <1>1, <2>3 DEF M, G
<1>7. PlanTypeOK'
  <2>1. base' \in Seq(Green)
    BY <1>5
  <2>2. awaited' \in Nat /\ planned' \in Nat
    BY <1>3, <1>4
  <2> QED
    BY <1>3, <1>4, <1>5, <1>6, <2>1, <2>2 DEF PlanTypeOK, TypeOK
<1>8. PlansInv' /\ LightsInv' /\ EventsContiguous'
  BY <1>3, <1>5, <1>6 DEF PlansInv, LightsInv, EventsContiguous
<1>9. ProducerInv'
  BY <1>3, <1>4, <1>5 DEF ProducerInv, Optimizing
<1> QED
  BY <1>7, <1>8, <1>9

-----------------------------------------------------------------------------
(***************************************************************************)
(* The theorems.                                                           *)
(***************************************************************************)

\* Every step of the two services, the controller and the clock.
LEMMA LoopStep == LoopInv /\ [Next]_vars => LoopInv'
<1> SUFFICES ASSUME LoopInv, [Next]_vars PROVE LoopInv'
  OBVIOUS
<1>1. CASE TscStep
  <2>1. UNCHANGED soVars /\ ProjectionNext
    BY <1>1 DEF TscStep
  <2>2. CASE BeginChange \/ EndChange \/ Tick
    BY <2>1, <2>2, ControllerKeeps
  <2>3. CASE ReceiveSpat
    BY <2>1, <2>3, ReceiveKeeps
  <2>4. CASE ProjectPlan
    BY <2>1, <2>4, ProjectPlanKeeps
  <2>5. CASE ProjectCurrentGreen
    BY <2>1, <2>5, ProjectCurrentGreenKeeps
  <2>6. CASE ProjectNextGreen
    BY <2>1, <2>6, ProjectNextGreenKeeps
  <2>7. CASE UpdateDesiredPhasePlan
    BY <2>1, <2>7, ConsumeKeeps
  <2> QED
    BY <2>1, <2>2, <2>3, <2>4, <2>5, <2>6, <2>7 DEF ProjectionNext, Project
<1>2. CASE ProduceDpp
  BY <1>2, ReadSpatKeeps, GenerateKeeps, FindNoPlanKeeps, PublishPlanKeeps DEF ProduceDpp
<1>3. CASE UNCHANGED vars
  <2>1. /\ now' = now /\ stage' = stage /\ serving' = serving /\ since' = since /\ next' = next
        /\ spat' = spat /\ seen' = seen /\ dpp' = dpp /\ lastGreen' = lastGreen
        /\ published' = published /\ pc' = pc
        /\ so' = so /\ base' = base /\ count' = count /\ awaited' = awaited
        /\ skips' = skips /\ wake' = wake /\ planned' = planned
    BY <1>3 DEF vars, projectionVars, soVars
  <2> QED
    BY <2>1 DEF LoopInv, PlanTypeOK, TypeOK, PlansInv, LightsInv, ProducerInv, EventsContiguous,
                Optimizing
<1> QED
  BY <1>1, <1>2, <1>3 DEF Next

\* The loop never leaves its invariant: what is published, planned and awaited has its
\* type, the events of every signal group follow each other without a gap, a projection starts
\* from lights of one movement group, and an evaluation has a plan
\* (produce_spat_json, produce_dpp).
THEOREM LoopInvariance == Spec => []LoopInv
<1>1. PlanInit => LoopInv
  BY LoopInit
<1>2. LoopInv /\ [Next]_vars => LoopInv'
  BY LoopStep
<1> QED
  BY <1>1, <1>2, PTL DEF Spec

\* In every SPaT that is published the events of a signal group follow each other
\* without a gap, whatever the plans are and however old the SPaT is that they were made
\* from (spat::update_spat_with_candidate_dpp).
THEOREM NoGapInSpat == Spec => []EventsContiguous
<1>1. LoopInv => EventsContiguous
  BY DEF LoopInv
<1> QED
  BY <1>1, LoopInvariance, PTL

-----------------------------------------------------------------------------
(***************************************************************************)
(* No conflicting greens.                                                  *)
(***************************************************************************)

\* A plan whose greens are of one movement group each, follow each other's clearance, and
\* wait for the yellow that is shown to a conflicting signal group.
FitsTheLights(plan) ==
  /\ \A i \in DOMAIN plan : \E m \in MoveSets : plan[i].groups \subseteq m
  /\ \A i, j \in DOMAIN plan : i < j =>
       RedEnd(plan[i]) <= plan[j].start /\ plan[j].start <= plan[j].end
  /\ \A i \in DOMAIN plan : \A g \in plan[i].groups, h \in SignalGroups :
       Conflicting(g, h) /\ spat[h][1].state = "yellow" =>
         EpochOfMark(spat[h][1].start, now) + Yellow[h] <= plan[i].start

\* One of two events is over when the other one begins.
Apart(a, b) == a.end <= b.start \/ b.end <= a.start

\* The green or yellow of a green of the plan, as marks.
LEMMA PlannedTimes ==
  ASSUME NEW plan \in Seq(PairGreen), NEW k \in DOMAIN plan, NEW time \in Nat,
         plan[k].start <= plan[k].end
  PROVE  LET start == MarkOfEpoch(plan[k].start, time)
             end == MarkOfEpoch(plan[k].end, time)
             clear == MarkOfEpoch(RedEnd(plan[k]), time)
         IN /\ start \in Nat /\ end \in Nat /\ clear \in Nat
            /\ MarkOfEpoch(YellowEnd(plan[k]), time) \in Nat
            /\ start <= end /\ end <= clear /\ MarkOfEpoch(YellowEnd(plan[k]), time) <= clear
<1> DEFINE green == plan[k]
<1>1. green \in PairGreen /\ green.start <= green.end
  OBVIOUS
<1> HIDE DEF green
<1>2. /\ green.start \in Nat /\ green.end \in Nat
      /\ YellowEnd(green) \in Nat /\ RedEnd(green) \in Nat
      /\ green.end <= YellowEnd(green) /\ YellowEnd(green) <= RedEnd(green)
      /\ green.end <= RedEnd(green)
  BY <1>1, ClearanceEnds DEF PairGreen
<1>3. \A t \in Nat : MarkOfEpoch(t, time) \in Nat
  <2>1. Mark \subseteq Nat
    BY LastMarkType DEF Mark
  <2> QED
    BY <2>1, MarkOfEpochType
<1>4. /\ MarkOfEpoch(green.start, time) <= MarkOfEpoch(green.end, time)
      /\ MarkOfEpoch(green.end, time) <= MarkOfEpoch(RedEnd(green), time)
      /\ MarkOfEpoch(YellowEnd(green), time) <= MarkOfEpoch(RedEnd(green), time)
  BY <1>1, <1>2, MarksInOrder
<1> QED
  BY <1>2, <1>3, <1>4 DEF green

\* The end of clearance of one green, and the start of a later one, as marks.
LEMMA ClearedInTime ==
  ASSUME NEW plan \in Seq(PairGreen), NEW k \in DOMAIN plan, NEW l \in DOMAIN plan,
         NEW time \in Nat, RedEnd(plan[k]) <= plan[l].start
  PROVE  /\ MarkOfEpoch(plan[k].end, time) \in Nat /\ MarkOfEpoch(plan[l].start, time) \in Nat
         /\ MarkOfEpoch(YellowEnd(plan[k]), time) \in Nat
         /\ MarkOfEpoch(plan[k].end, time) <= MarkOfEpoch(plan[l].start, time)
         /\ MarkOfEpoch(YellowEnd(plan[k]), time) <= MarkOfEpoch(plan[l].start, time)
<1> DEFINE first == plan[k]
           second == plan[l]
<1>1. first \in PairGreen /\ second \in PairGreen /\ RedEnd(first) <= second.start
  OBVIOUS
<1> HIDE DEF first, second
<1>2. /\ second.start \in Nat /\ first.end \in Nat
      /\ YellowEnd(first) \in Nat /\ RedEnd(first) \in Nat
      /\ first.end <= YellowEnd(first) /\ YellowEnd(first) <= RedEnd(first)
  BY <1>1, ClearanceEnds DEF PairGreen
<1>3. first.end <= second.start /\ YellowEnd(first) <= second.start
  BY <1>1, <1>2
<1>4. \A t \in Nat : MarkOfEpoch(t, time) \in Nat
  <2>1. Mark \subseteq Nat
    BY LastMarkType DEF Mark
  <2> QED
    BY <2>1, MarkOfEpochType
<1> QED
  BY <1>2, <1>3, <1>4, MarksInOrder DEF first, second

\* A plan that fits the lights makes a SPaT without conflicting greens.
LEMMA FittingIsSafe ==
  ASSUME LoopInv, pc = "project", NEW plan \in Seq(PairGreen), plan # <<>>,
         UpdateSpatWithDpp(spat, plan, now) # Throws, FitsTheLights(plan),
         NEW g \in SignalGroups, NEW h \in SignalGroups, Conflicting(g, h),
         NEW i \in DOMAIN UpdateSpatWithDpp(spat, plan, now)[g],
         NEW j \in DOMAIN UpdateSpatWithDpp(spat, plan, now)[h],
         UpdateSpatWithDpp(spat, plan, now)[g][i].state = "green",
         UpdateSpatWithDpp(spat, plan, now)[h][j].state \in {"green", "yellow"}
  PROVE  Apart(UpdateSpatWithDpp(spat, plan, now)[g][i], UpdateSpatWithDpp(spat, plan, now)[h][j])
<1> DEFINE events == UpdateSpatWithDpp(spat, plan, now)
           a == events[g][i]
           b == events[h][j]
           n == Len(plan)
           M(time) == MarkOfEpoch(time, now)
<1>1. /\ now \in Nat /\ spat \in Movements /\ \A x \in SignalGroups : spat[x] # <<>>
      /\ n \in Nat /\ n >= 1 /\ DOMAIN plan = 1 .. n
  BY DEF LoopInv, PlanTypeOK, TypeOK, LightsInv
<1>2. /\ Follow(events[g], g, spat[g][1], plan, n, now)
      /\ Follow(events[h], h, spat[h][1], plan, n, now)
  BY <1>1, UpdatedSpat
<1>3. /\ i \in 1 .. Len(events[g]) /\ j \in 1 .. Len(events[h])
  BY <1>2 DEF Follow, Events
<1>4. a.state = "green" /\ b.state \in {"green", "yellow"}
  OBVIOUS
<1>5. IF i = 1 THEN Continues(a, g, spat[g][1], plan, now) ELSE Planned(a, g, plan, n, now)
  BY <1>2, <1>3 DEF Follow
<1>6. IF j = 1 THEN Continues(b, h, spat[h][1], plan, now) ELSE Planned(b, h, plan, n, now)
  BY <1>2, <1>3 DEF Follow
<1> HIDE DEF a, b, n
\* They are not in one green of the plan, nor do their lights show together.
<1>7. \A k \in 1 .. n : ~ (g \in plan[k].groups /\ h \in plan[k].groups)
  <2> SUFFICES ASSUME NEW k \in 1 .. n, g \in plan[k].groups, h \in plan[k].groups PROVE FALSE
    OBVIOUS
  <2>1. PICK m \in MoveSets : plan[k].groups \subseteq m
    BY <1>1 DEF FitsTheLights
  <2> QED
    BY <2>1 DEF Conflicting
<1>8. ~ (spat[g][1].state # "red" /\ spat[h][1].state # "red")
  <2> SUFFICES ASSUME spat[g][1].state # "red", spat[h][1].state # "red" PROVE FALSE
    OBVIOUS
  <2>1. PICK m \in MoveSets : \A x \in SignalGroups : spat[x][1].state # "red" => x \in m
    BY DEF LoopInv, LightsInv
  <2> QED
    BY <2>1 DEF Conflicting
\* The green of g: the current one, or that of a green of the plan.
<1>9. CASE i = 1
  <2>1. /\ spat[g][1].state = "green" /\ g \in plan[1].groups /\ a.end = M(plan[1].end)
    BY <1>4, <1>5, <1>9 DEF Continues
  <2>2. j # 1
    BY <1>4, <1>6, <1>8, <2>1 DEF Continues
  <2>3. PICK l \in 1 .. n :
          /\ h \in plan[l].groups
          /\ \/ b.start = M(plan[l].start)
             \/ b.state = "yellow" /\ b.start = M(plan[l].end)
    BY <1>4, <1>6, <2>2 DEF Planned
  <2>4. 1 \in 1 .. n /\ 1 < l
    BY <1>1, <1>7, <2>1, <2>3
  <2>5. RedEnd(plan[1]) <= plan[l].start /\ plan[l].start <= plan[l].end
    BY <1>1, <2>4 DEF FitsTheLights
  <2>6. /\ M(plan[1].end) \in Nat /\ M(plan[l].start) \in Nat
        /\ M(plan[1].end) <= M(plan[l].start)
    BY <1>1, <2>4, <2>5, ClearedInTime
  <2>7. M(plan[l].end) \in Nat /\ M(plan[l].start) <= M(plan[l].end)
    BY <1>1, <2>5, PlannedTimes
  <2> HIDE DEF M
  <2>8. a.end <= b.start
    BY <2>1, <2>3, <2>6, <2>7
  <2> QED
    BY <2>8 DEF Apart, a, b
<1>10. CASE i # 1
  <2>1. PICK k \in 1 .. n :
          g \in plan[k].groups /\ a.start = M(plan[k].start) /\ a.end = M(plan[k].end)
    BY <1>4, <1>5, <1>10 DEF Planned
  <2>2. CASE j = 1 /\ b.state = "green"
    <3>1. h \in plan[1].groups /\ b.end = M(plan[1].end)
      BY <1>6, <2>2 DEF Continues
    <3>2. 1 \in 1 .. n /\ 1 < k
      BY <1>1, <1>7, <2>1, <3>1
    <3>3. RedEnd(plan[1]) <= plan[k].start
      BY <1>1, <3>2 DEF FitsTheLights
    <3>4. M(plan[1].end) <= M(plan[k].start)
      BY <1>1, <3>2, <3>3, ClearedInTime
    <3> HIDE DEF M
    <3>5. b.end <= a.start
      BY <2>1, <3>1, <3>4
    <3> QED
      BY <3>5 DEF Apart, a, b
  <2>3. CASE j = 1 /\ b.state = "yellow"
    <3> DEFINE over == EpochOfMark(spat[h][1].start, now) + Yellow[h]
    <3>1. b.end = M(over) /\ spat[h][1].state = "yellow"
      BY <1>6, <2>3 DEF Continues
    <3>2. over <= plan[k].start
      BY <1>1, <2>1, <3>1 DEF FitsTheLights
    <3>3. over \in Nat /\ plan[k].start \in Nat
      <4>1. EpochOfMark(spat[h][1].start, now) \in Nat /\ Yellow[h] \in Nat
        BY CurrentStart, ClearanceType
      <4>2. plan[k] \in PairGreen
        BY <1>1
      <4> QED
        BY <4>1, <4>2 DEF PairGreen
    <3> HIDE DEF over
    <3>4. M(over) <= M(plan[k].start)
      BY <1>1, <3>2, <3>3, MarksInOrder
    <3> HIDE DEF M
    <3>5. b.end <= a.start
      BY <2>1, <3>1, <3>4
    <3> QED
      BY <3>5 DEF Apart, a, b
  <2>4. CASE j # 1
    <3>1. PICK l \in 1 .. n :
            /\ h \in plan[l].groups
            /\ \/ b.start = M(plan[l].start) /\ b.end = M(plan[l].end)
               \/ b.start = M(plan[l].end) /\ b.end = M(YellowEnd(plan[l]))
      BY <1>4, <1>6, <2>4 DEF Planned
    <3>2. k < l \/ l < k
      BY <1>1, <1>7, <2>1, <3>1
    <3>3. CASE k < l
      <4>1. RedEnd(plan[k]) <= plan[l].start /\ plan[l].start <= plan[l].end
        BY <1>1, <3>3 DEF FitsTheLights
      <4>2. /\ M(plan[k].end) \in Nat /\ M(plan[l].start) \in Nat
            /\ M(plan[k].end) <= M(plan[l].start)
        BY <1>1, <4>1, ClearedInTime
      <4>3. M(plan[l].end) \in Nat /\ M(plan[l].start) <= M(plan[l].end)
        BY <1>1, <4>1, PlannedTimes
      <4> HIDE DEF M
      <4>4. a.end <= b.start
        BY <2>1, <3>1, <4>2, <4>3
      <4> QED
        BY <4>4 DEF Apart, a, b
    <3>4. CASE l < k
      <4>1. RedEnd(plan[l]) <= plan[k].start
        BY <1>1, <3>4 DEF FitsTheLights
      <4>2. /\ M(plan[l].end) <= M(plan[k].start)
            /\ M(YellowEnd(plan[l])) <= M(plan[k].start)
        BY <1>1, <4>1, ClearedInTime
      <4> HIDE DEF M
      <4>3. b.end <= a.start
        BY <2>1, <3>1, <4>2
      <4> QED
        BY <4>3 DEF Apart, a, b
    <3> QED
      BY <3>2, <3>3, <3>4
  <2> QED
    BY <1>4, <2>2, <2>3, <2>4
<1> QED
  BY <1>9, <1>10

\* Publishing what such a plan makes of the SPaT, or nothing.
LEMMA PublishIsSafe ==
  ASSUME LoopInv, NoConflictingGreens, pc = "project",
         NEW plan \in Seq(PairGreen), plan # <<>>, FitsTheLights(plan),
         NEW events, events \in {Throws, UpdateSpatWithDpp(spat, plan, now)}, Publish(events)
  PROVE  NoConflictingGreens'
<1>1. CASE events = Throws
  <2>1. seen' = seen
    BY <1>1 DEF Publish
  <2> QED
    BY <2>1 DEF NoConflictingGreens, Conflicting
<1>2. CASE events # Throws
  <2>1. seen' = events /\ events = UpdateSpatWithDpp(spat, plan, now)
    BY <1>2 DEF Publish
  <2>2. ASSUME NEW g \in SignalGroups, NEW h \in SignalGroups, Conflicting(g, h),
               NEW i \in DOMAIN events[g], NEW j \in DOMAIN events[h],
               events[g][i].state = "green", events[h][j].state \in {"green", "yellow"}
        PROVE  events[g][i].end <= events[h][j].start \/ events[h][j].end <= events[g][i].start
    BY <1>2, <2>1, <2>2, FittingIsSafe DEF Apart
  <2> QED
    BY <2>1, <2>2 DEF NoConflictingGreens, Conflicting
<1> QED
  BY <1>1, <1>2

\* A plan that fits, projected.
LEMMA ProjectPlanIsSafe ==
  ASSUME LoopInv, PlanFits, NoConflictingGreens, ProjectPlan
  PROVE  NoConflictingGreens'
<1> DEFINE plan == Pruned(dpp)
<1>1. /\ pc = "project" /\ plan # <<>> /\ Publish(UpdateSpatWithDpp(spat, plan, now))
  BY DEF ProjectPlan
<1>2. plan \in Seq(PairGreen)
  BY PrunedType, GreensAreTyped DEF LoopInv, PlansInv
<1>3. FitsTheLights(plan)
  <2>1. /\ \A i \in DOMAIN plan : plan[i].groups \in MoveSets /\ plan[i].start <= plan[i].end
        /\ \A i, j \in DOMAIN plan : i < j => RedEnd(plan[i]) <= plan[j].start
        /\ \A i \in DOMAIN plan : \A g \in plan[i].groups, h \in SignalGroups :
             Conflicting(g, h) /\ spat[h][1].state = "yellow" =>
               EpochOfMark(spat[h][1].start, now) + Yellow[h] <= plan[i].start
    BY <1>1 DEF PlanFits
  <2> HIDE DEF plan
  <2> QED
    BY <2>1 DEF FitsTheLights
<1>4. UpdateSpatWithDpp(spat, plan, now) \in {Throws, UpdateSpatWithDpp(spat, plan, now)}
  OBVIOUS
<1> HIDE DEF plan
<1> QED
  BY <1>1, <1>2, <1>3, <1>4, PublishIsSafe

\* A plan of one green.
LEMMA OneGreenFits ==
  ASSUME NEW plan \in Seq(PairGreen), Len(plan) = 1,
         \E m \in MoveSets : plan[1].groups \subseteq m,
         \A g \in plan[1].groups, h \in SignalGroups :
           Conflicting(g, h) /\ spat[h][1].state = "yellow" =>
             EpochOfMark(spat[h][1].start, now) + Yellow[h] <= plan[1].start
  PROVE  FitsTheLights(plan)
<1>1. \A i \in DOMAIN plan : i = 1
  OBVIOUS
<1> QED
  BY <1>1 DEF FitsTheLights

\* The current green and the yellows are of one movement group.
LEMMA ProjectCurrentGreenIsSafe ==
  ASSUME LoopInv, NoConflictingGreens, ProjectCurrentGreen
  PROVE  NoConflictingGreens'
<1> DEFINE groups == InState("green")
           start == EpochOfMark(spat[Head(groups)][1].start, now)
           plan == OneGreen({groups[i] : i \in DOMAIN groups}, start,
                            start + MinGreen[Head(groups)])
           events == IF Len(groups) > 2 THEN Throws ELSE UpdateSpatWithDpp(spat, plan, now)
<1>1. pc = "project" /\ groups # <<>> /\ Publish(events)
  BY DEF ProjectCurrentGreen
<1>2. Len(groups) \in Nat
  BY InStateType
<1>3. CASE Len(groups) > 2
  <2>1. seen' = seen
    BY <1>1, <1>3 DEF Publish
  <2> QED
    BY <2>1 DEF NoConflictingGreens, Conflicting
<1>4. CASE Len(groups) <= 2
  <2>1. /\ plan \in Seq(PairGreen) /\ plan # <<>> /\ Len(plan) = 1
        /\ \A g \in plan[1].groups : spat[g][1].state = "green"
    BY <1>1, <1>4, CurrentGreenType
  <2>2. events \in {Throws, UpdateSpatWithDpp(spat, plan, now)}
    OBVIOUS
  <2> HIDE DEF events, plan
  <2>3. PICK m \in MoveSets : \A x \in SignalGroups : spat[x][1].state # "red" => x \in m
    BY <1>1 DEF LoopInv, LightsInv
  <2>4. plan[1].groups \subseteq SignalGroups
    <3>1. plan[1] \in PairGreen
      BY <2>1
    <3> QED
      BY <3>1 DEF PairGreen, Pairs
  <2>5. plan[1].groups \subseteq m
    BY <2>1, <2>3, <2>4
  <2>6. \A g \in plan[1].groups, h \in SignalGroups :
          ~ (Conflicting(g, h) /\ spat[h][1].state = "yellow")
    BY <2>3, <2>5 DEF Conflicting
  <2>7. FitsTheLights(plan)
    BY <2>1, <2>5, <2>6, OneGreenFits
  <2> QED
    BY <1>1, <2>1, <2>2, <2>7, PublishIsSafe
<1> QED
  BY <1>2, <1>3, <1>4

\* The next green waits for the yellows.
LEMMA ProjectNextGreenIsSafe ==
  ASSUME LoopInv, NoConflictingGreens, ProjectNextGreen
  PROVE  NoConflictingGreens'
<1> DEFINE yellow == InState("yellow")
           ends == RedClearanceEnds
           NoStart == yellow = <<>> /\ (lastGreen = <<>> \/ \E i \in DOMAIN ends : ends[i] < now)
           start == IF yellow # <<>> THEN StartAfterYellow(yellow) ELSE Last(ends)
           Published(groups) == IF groups = {} \/ NoStart THEN Throws
                                ELSE UpdateSpatWithDpp(spat, NextGreen(groups, start), now)
<1>1. pc = "project"
  BY DEF ProjectNextGreen
<1>2. PICK groups \in PhaseNext : Publish(Published(groups))
  BY DEF ProjectNextGreen
<1>3. groups = {} \/ groups \in MoveSets
  BY <1>2 DEF PhaseNext, LoopInv, PlanTypeOK, TypeOK
<1>4. CASE groups = {} \/ NoStart
  <2>1. seen' = seen
    BY <1>2, <1>4 DEF Publish
  <2> QED
    BY <2>1 DEF NoConflictingGreens, Conflicting
<1>5. CASE ~ (groups = {} \/ NoStart)
  <2>1. start \in Nat
    BY <1>1, <1>5, StartAfterYellowType, RedClearanceEndsType
  <2>2. \A h \in SignalGroups : spat[h][1].state = "yellow" =>
          EpochOfMark(spat[h][1].start, now) + Yellow[h] <= start
    <3>1. CASE yellow # <<>>
      BY <1>1, <3>1, StartAfterYellowType
    <3>2. CASE yellow = <<>>
      <4>1. \A h \in SignalGroups : spat[h][1].state # "yellow"
        BY <3>2, InStateType
      <4> QED
        BY <4>1
    <3> QED
      BY <3>1, <3>2
  <2> DEFINE plan == NextGreen(groups, start)
  <2>3. Published(groups) \in {Throws, UpdateSpatWithDpp(spat, plan, now)}
    OBVIOUS
  <2>4. groups \in MoveSets
    BY <1>3, <1>5
  <2> HIDE DEF start
  <2>5. /\ plan \in Seq(PairGreen) /\ plan # <<>> /\ Len(plan) = 1
        /\ plan[1].groups = groups /\ plan[1].start = start
    BY <1>1, <2>1, <2>4, NextGreenType
  <2> HIDE DEF plan, Published
  <2>6. FitsTheLights(plan)
    BY <2>2, <2>4, <2>5, OneGreenFits
  <2> QED
    BY <1>1, <1>2, <2>3, <2>5, <2>6, PublishIsSafe
<1> QED
  BY <1>4, <1>5

\* Every step, while the plan in effect fits the lights.
LEMMA SafeStep ==
  LoopInv /\ PlanFits /\ NoConflictingGreens /\ [Next]_vars => NoConflictingGreens'
<1> SUFFICES ASSUME LoopInv, PlanFits, NoConflictingGreens, [Next]_vars
             PROVE  NoConflictingGreens'
  OBVIOUS
<1>1. \/ ProjectPlan \/ ProjectCurrentGreen \/ ProjectNextGreen
      \/ seen' = seen
  BY DEF Next, TscStep, ProjectionNext, Project, ProduceDpp, BeginChange, EndChange, Tick,
         ReceiveSpat, UpdateDesiredPhasePlan, ReadSpat, Generate, FindNoPlan, PublishPlan,
         Terminate, vars, projectionVars
<1>2. CASE seen' = seen
  BY <1>2 DEF NoConflictingGreens, Conflicting
<1> QED
  BY <1>1, <1>2, ProjectPlanIsSafe, ProjectCurrentGreenIsSafe, ProjectNextGreenIsSafe

\* As long as the plan in effect fits the lights, no SPaT that is published gives green to a
\* signal group while a conflicting one has green or yellow, and all messages have
\* their types: the projections of the controller's own timing fit by themselves
\* (spat::update_spat_with_candidate_dpp, fix_upcoming_green, fix_upcoming_yell_red).
THEOREM FittingPlansAreSafe == Spec /\ []PlanFits => []LoopIsSafe
<1>1. PlanInit => NoConflictingGreens
  BY DEF PlanInit, Init, NoConflictingGreens
<1>2. LoopInv /\ PlanFits /\ NoConflictingGreens /\ [Next]_vars => NoConflictingGreens'
  BY SafeStep
<1>3. Spec => []LoopInv
  BY LoopInvariance
<1>4. LoopInv /\ PlanFits /\ NoConflictingGreens => LoopIsSafe
  BY DEF LoopInv, LoopIsSafe
<1> QED
  BY <1>1, <1>2, <1>3, <1>4, PTL DEF Spec

=============================================================================
