-------------------- MODULE SignalizedIntersection_proofs --------------------
(***************************************************************************)
(* A signalized intersection is safe: whoever follows the schedules enters *)
(* on green, as old as the SPaT and the schedule may be, the box belongs   *)
(* to one signal group at a time, and who is scheduled in a lane keeps the *)
(* headway.                                                                *)
(*                                                                         *)
(* The proof is by the invariant SignalInv. A schedule says of each        *)
(* entering vehicle when it is to enter, and that is well within a green   *)
(* (WellWithin) at every time at which the schedule may be acted on; what  *)
(* a vehicle holds is taken from a schedule; and who is in the box entered *)
(* it then. The rest is arithmetic of the time line.                       *)
(***************************************************************************)
EXTENDS SignalizedIntersection, FiniteSetTheorems, WellFoundedInduction, TLAPS

-----------------------------------------------------------------------------
(***************************************************************************)
(* The invariant.                                                          *)
(***************************************************************************)

\* At time t a vehicle of group g may enter.
WellWithin(g, t) ==
  /\ g \in Groups
  /\ \E i \in DOMAIN Timeline[g] :
       /\ Timeline[g][i].state = "green"
       /\ FirstEntry(Timeline[g][i]) <= t /\ t <= LastEntry(Timeline[g][i])

\* So it may whenever it acts on the entering time et of a schedule made at time made.
RightTime(g, et, made) ==
  \A t \in made .. made + ScheduleAge : et - Ahead <= t /\ t <= et => WellWithin(g, t)

SpatInv == spat = SpatAt(spatAt) /\ now - spatAt <= SpatAge

ScheduleInv ==
  \A i \in DOMAIN schedule :
    schedule[i].state = "EV" => RightTime(Group(schedule[i].id), schedule[i].et, scheduleAt)

HeldInv ==
  /\ held \in [Vehicles -> [et : Nat, age : Nat]]
  /\ \A v \in Vehicles :
       held[v].age <= ScheduleAge =>
         held[v].age <= now /\ RightTime(Group(v), held[v].et, now - held[v].age)

BoxInv ==
  \A v \in Vehicles :
    stage[v] = "box" =>
      /\ left[v] \in 1 .. Clearance
      /\ entered[v] + Clearance = now + left[v]
      /\ WellWithin(Group(v), entered[v])

SignalInv == TypeOK /\ KeepsHeadway /\ SpatInv /\ ScheduleInv /\ HeldInv /\ BoxInv

-----------------------------------------------------------------------------
(***************************************************************************)
(* Numbers.                                                                *)
(***************************************************************************)

\* A set of natural numbers that is not empty has a least element.
LEMMA LeastElement ==
  ASSUME NEW S \in SUBSET Nat, S # {}
  PROVE  Min(S) \in S /\ \A y \in S : Min(S) <= y
<1> DEFINE Less == {ss \in Nat \X Nat : ss[1] < ss[2]}
<1>1. IsWellFoundedOn(Less, Nat)
  BY NatLessThanWellFounded DEF OpToRel
<1>2. PICK x \in S : \A y \in S : ~ (<<y, x>> \in Less)
  BY <1>1, WFMin
<1>3. \A y \in S : y < x => <<y, x>> \in Less
  OBVIOUS
<1>4. \A y \in S : y \in Nat /\ ~ (y < x)
  BY <1>2, <1>3
<1>5. \E z \in S : \A y \in S : z <= y
  BY <1>4
<1> QED
  BY <1>5 DEF Min

\* Induction up to N, for a set in place of a predicate.
LEMMA Climb ==
  ASSUME NEW N \in Nat, NEW I, 0 \in I, \A n \in 1 .. N : n - 1 \in I => n \in I
  PROVE  N \in I
<1> SUFFICES ASSUME N \notin I PROVE FALSE
  OBVIOUS
<1> DEFINE Missed == {n \in 0 .. N : n \notin I}
           n == Min(Missed)
<1>1. n \in Missed /\ \A m \in Missed : n <= m
  <2>1. Missed \in SUBSET Nat /\ N \in Missed
    OBVIOUS
  <2> HIDE DEF Missed
  <2> QED
    BY <2>1, LeastElement
<1> HIDE DEF n
<1>2. n \in 1 .. N /\ n - 1 \in 0 .. N /\ n - 1 \notin Missed
  BY <1>1
<1> QED
  BY <1>1, <1>2

\* The greatest of two and of three numbers.
LEMMA MaxOfTwo ==
  ASSUME NEW a \in Nat, NEW b \in Nat
  PROVE  Max({a, b}) \in {a, b} /\ Max({a, b}) \in Nat /\ Max({a, b}) >= a /\ Max({a, b}) >= b
<1>1. \E x \in {a, b} : \A y \in {a, b} : x >= y
  BY SMT
<1>2. Max({a, b}) \in {a, b} /\ \A y \in {a, b} : Max({a, b}) >= y
  BY <1>1 DEF Max
<1> QED
  BY <1>2

LEMMA MaxOfThree ==
  ASSUME NEW a \in Nat, NEW b \in Nat, NEW c \in Nat
  PROVE  /\ Max({a, b, c}) \in {a, b, c} /\ Max({a, b, c}) \in Nat
         /\ Max({a, b, c}) >= a /\ Max({a, b, c}) >= b /\ Max({a, b, c}) >= c
<1>1. \E x \in {a, b, c} : \A y \in {a, b, c} : x >= y
  BY SMT
<1>2. Max({a, b, c}) \in {a, b, c} /\ \A y \in {a, b, c} : Max({a, b, c}) >= y
  BY <1>1 DEF Max
<1> QED
  BY <1>2

-----------------------------------------------------------------------------
(***************************************************************************)
(* Marks. Within the hour a mark is the time cut to a tenth.               *)
(***************************************************************************)

\* Division by a natural number cuts off less than that number.
LEMMA DivisionCuts ==
  ASSUME NEW x \in Nat, NEW d \in Nat \ {0}
  PROVE  /\ x \div d \in Nat
         /\ (x \div d) * d <= x /\ x < (x \div d) * d + d
OBVIOUS

\* The hour is that in which the clock begins.
LEMMA FirstHour ==
  ASSUME NEW time \in Nat, time < HourMs
  PROVE  HourStart(time) = 0
BY HourAssumption DEF HourStart

\* The hour has so many tenths.
LEMMA LastMarkTenths == LastMark \in Nat /\ LastMark * TenthMs = HourMs
BY HourAssumption, DivisionCuts DEF LastMark

\* Reading a mark back loses less than a tenth of a second.
LEMMA MarkReadBack ==
  ASSUME NEW time \in 0 .. HourMs, NEW sent \in Nat, NEW read \in Nat,
         sent < HourMs, read < HourMs
  PROVE  LET back == EpochOfMark(MarkOfEpoch(time, sent), read)
         IN back \in Nat /\ back <= time /\ time <= back + TenthMs - 1
<1> DEFINE tenths == time \div TenthMs
<1>1. HourStart(sent) = 0 /\ HourStart(read) = 0
  BY FirstHour
<1>2. time \in Nat /\ TenthMs \in Nat \ {0} /\ HourMs \in Nat
  BY HourAssumption
<1>3. tenths \in Nat /\ tenths * TenthMs <= time /\ time < tenths * TenthMs + TenthMs
  BY <1>2, DivisionCuts
<1>4. MarkOfEpoch(time, sent) = IF tenths >= LastMark THEN LastMark ELSE tenths
  BY <1>1, <1>2 DEF MarkOfEpoch
<1> HIDE DEF tenths
<1> DEFINE mark == MarkOfEpoch(time, sent)
           back == EpochOfMark(mark, read)
<1>5. back = mark * TenthMs
  <2>1. mark \in Nat
    BY <1>3, <1>4, LastMarkTenths
  <2> QED
    BY <1>1, <1>2, <2>1 DEF EpochOfMark
<1>6. CASE tenths >= LastMark
  <2>1. back = HourMs
    BY <1>4, <1>5, <1>6, LastMarkTenths
  <2>2. tenths * TenthMs >= LastMark * TenthMs
    BY <1>2, <1>3, <1>6, LastMarkTenths
  <2> QED
    BY <1>2, <1>3, <2>1, <2>2, LastMarkTenths
<1>7. CASE tenths < LastMark
  <2>1. back = tenths * TenthMs
    BY <1>3, <1>4, <1>5, <1>7, LastMarkTenths
  <2>2. tenths * TenthMs \in Nat
    BY <1>2, <1>3
  <2> QED
    BY <1>2, <1>3, <2>1, <2>2
<1> QED
  BY <1>3, <1>6, <1>7, LastMarkTenths

-----------------------------------------------------------------------------
(***************************************************************************)
(* The time line of a signal group, and what a SPaT announces of it.       *)
(***************************************************************************)

\* The constants are numbers.
LEMMA NumbersType ==
  ASSUME SignalAssumption
  PROVE  /\ Headway \in Nat /\ Clearance \in Nat /\ Announced \in Nat /\ MaxTime \in Nat
         /\ SpatAge \in Nat /\ ScheduleAge \in Nat /\ Ahead \in Nat
         /\ InitialGreenBuffer \in Nat /\ FinalGreenBuffer \in Nat
         /\ HourMs \in Nat \ {0} /\ TenthMs \in Nat \ {0} /\ MaxTime < HourMs
         /\ Clearance >= 1 /\ Announced >= 1
         /\ InitialGreenBuffer >= SpatAge + ScheduleAge + Ahead + TenthMs - 1
BY HourAssumption DEF SignalAssumption, RoutesAssumption, TimelineAssumption, BufferAssumption,
   SignalizedAssumption, IntersectionAssumption

\* A time line has events, the last of which the clock does not reach.
LEMMA TimelineType ==
  ASSUME SignalAssumption, NEW g \in Groups
  PROVE  /\ Len(Timeline[g]) \in Nat \ {0} /\ DOMAIN Timeline[g] = 1 .. Len(Timeline[g])
         /\ MaxTime < Timeline[g][Len(Timeline[g])].end
         /\ \A i \in 1 .. Len(Timeline[g]) :
              /\ Timeline[g][i].start \in 0 .. HourMs /\ Timeline[g][i].end \in 0 .. HourMs
              /\ Timeline[g][i].start < Timeline[g][i].end
         /\ \A i, j \in 1 .. Len(Timeline[g]) :
              i < j => Timeline[g][i].end <= Timeline[g][j].start
<1> DEFINE line == Timeline[g]
           Event == [state : STRING, start : 0 .. HourMs, end : 0 .. HourMs]
<1>1. /\ line \in Seq(Event) /\ line # <<>> /\ MaxTime < Last(line).end
      /\ \A i \in DOMAIN line : line[i].start < line[i].end
      /\ \A i, j \in DOMAIN line : i < j => line[i].end <= line[j].start
  BY DEF SignalAssumption, TimelineAssumption
<1> HIDE DEF line
<1>2. Len(line) \in Nat \ {0} /\ DOMAIN line = 1 .. Len(line)
  BY <1>1
<1>3. \A i \in 1 .. Len(line) :
        line[i].start \in 0 .. HourMs /\ line[i].end \in 0 .. HourMs
  <2> HIDE DEF Event
  <2>1. \A i \in 1 .. Len(line) : line[i] \in Event
    BY <1>1
  <2> QED
    BY <2>1 DEF Event
<1>4. MaxTime < line[Len(line)].end
  BY <1>1 DEF Last
<1> QED
  BY <1>1, <1>2, <1>3, <1>4 DEF line

\* The current event is the first that has not ended.
LEMMA CurrentEvent ==
  ASSUME SignalAssumption, NEW g \in Groups, NEW t \in 0 .. MaxTime
  PROVE  /\ Current(g, t) \in 1 .. Len(Timeline[g])
         /\ t < Timeline[g][Current(g, t)].end
         /\ \A i \in 1 .. Len(Timeline[g]) : t < Timeline[g][i].end => Current(g, t) <= i
<1> DEFINE open == {i \in DOMAIN Timeline[g] : t < Timeline[g][i].end}
<1>1. open \in SUBSET Nat
  BY TimelineType
<1>2. Len(Timeline[g]) \in open
  <2>1. /\ Len(Timeline[g]) \in DOMAIN Timeline[g]
        /\ Timeline[g][Len(Timeline[g])].end \in Nat
        /\ MaxTime < Timeline[g][Len(Timeline[g])].end
    BY TimelineType
  <2>2. MaxTime \in Nat
    BY NumbersType
  <2> QED
    BY <2>1, <2>2
<1>3. Current(g, t) = Min(open)
  BY DEF Current
<1>4. \A i \in 1 .. Len(Timeline[g]) : t < Timeline[g][i].end <=> i \in open
  BY TimelineType
<1>5. open \subseteq 1 .. Len(Timeline[g])
  BY TimelineType
<1> HIDE DEF open
<1>6. Min(open) \in open /\ \A y \in open : Min(open) <= y
  BY <1>1, <1>2, LeastElement
<1> QED
  BY <1>3, <1>4, <1>5, <1>6

\* A vehicle that enters well within a green enters on green.
LEMMA GreenNow ==
  ASSUME SignalAssumption, NEW g \in Groups, NEW t \in 0 .. MaxTime, WellWithin(g, t)
  PROVE  Timeline[g][Current(g, t)].state = "green"
<1> DEFINE n == Len(Timeline[g])
           c == Current(g, t)
<1>1. PICK i \in DOMAIN Timeline[g] :
        /\ Timeline[g][i].state = "green"
        /\ FirstEntry(Timeline[g][i]) <= t /\ t <= LastEntry(Timeline[g][i])
  BY DEF WellWithin
<1>2. /\ i \in 1 .. n /\ n \in Nat
      /\ Timeline[g][i].start \in Nat /\ Timeline[g][i].end \in Nat
  BY TimelineType
<1>3. Timeline[g][i].start <= t /\ t < Timeline[g][i].end
  <2> DEFINE e == Timeline[g][i]
  <2>1. /\ e.start + InitialGreenBuffer - Ahead - (TenthMs - 1) <= t
        /\ t <= e.end - FinalGreenBuffer - 1
    BY <1>1 DEF FirstEntry, LastEntry
  <2>2. e.start \in Nat /\ e.end \in Nat /\ t \in Int
    BY <1>2
  <2> HIDE DEF e
  <2>3. e.start <= t /\ t < e.end
    BY <2>1, <2>2, NumbersType
  <2> QED
    BY <2>3 DEF e
<1>4. c \in 1 .. n /\ c <= i /\ t < Timeline[g][c].end
  BY <1>2, <1>3, CurrentEvent
<1>5. c < i => Timeline[g][c].end <= Timeline[g][i].start
  BY <1>2, <1>4, TimelineType
<1>6. Timeline[g][c].end \in Nat
  BY <1>4, TimelineType
<1> HIDE DEF c, n
<1>7. c = i
  BY <1>2, <1>3, <1>4, <1>5, <1>6
<1> QED
  BY <1>1, <1>7 DEF c

\* A SPaT announces events of the time line, at least one, that have not ended.
LEMMA AnnouncedEvents ==
  ASSUME SignalAssumption, NEW g \in Groups, NEW sent \in 0 .. MaxTime
  PROVE  \E n \in Nat \ {0} :
           /\ DOMAIN EventsAhead(g, sent) = 1 .. n /\ Len(EventsAhead(g, sent)) = n
           /\ \A i \in 1 .. n : \E j \in 1 .. Len(Timeline[g]) :
                /\ EventsAhead(g, sent)[i] = Marked(Timeline[g][j], sent)
                /\ sent < Timeline[g][j].end
<1> DEFINE N == Len(Timeline[g])
           first == Current(g, sent)
           last == Min({first + Announced - 1, N})
           n == last - first + 1
<1>1. first \in 1 .. N /\ N \in Nat /\ sent < Timeline[g][first].end
  BY CurrentEvent, TimelineType
<1>2. EventsAhead(g, sent) = [i \in 1 .. n |-> Marked(Timeline[g][first + i - 1], sent)]
  BY DEF EventsAhead
<1> HIDE DEF first, N
<1>3. last \in first .. N
  <2> DEFINE S == {first + Announced - 1, N}
  <2>1. S \in SUBSET Nat /\ S # {} /\ first + Announced - 1 >= first
    BY <1>1, NumbersType
  <2>2. Min(S) \in S /\ \A y \in S : Min(S) <= y
    BY <2>1, LeastElement
  <2> QED
    BY <1>1, <2>1, <2>2
<1> HIDE DEF last
<1>4. n \in Nat \ {0} /\ \A i \in 1 .. n : first + i - 1 \in first .. N
  BY <1>1, <1>3
<1>5. \A j \in first .. N : sent < Timeline[g][j].end
  <2> SUFFICES ASSUME NEW j \in first .. N, j # first PROVE sent < Timeline[g][j].end
    BY <1>1
  <2>1. j \in 1 .. N /\ first < j
    BY <1>1
  <2>2. Timeline[g][first].end <= Timeline[g][j].start
    BY <1>1, <2>1, TimelineType DEF N
  <2>3. /\ Timeline[g][j].start < Timeline[g][j].end
        /\ Timeline[g][j].start \in Nat /\ Timeline[g][j].end \in Nat
        /\ Timeline[g][first].end \in Nat /\ sent \in Nat
    BY <1>1, <2>1, TimelineType DEF N
  <2> QED
    BY <1>1, <2>2, <2>3
<1> HIDE DEF n
<1>6. DOMAIN EventsAhead(g, sent) = 1 .. n /\ Len(EventsAhead(g, sent)) = n
  BY <1>2, <1>4
<1>7. ASSUME NEW i \in 1 .. n
      PROVE  \E j \in 1 .. N : /\ EventsAhead(g, sent)[i] = Marked(Timeline[g][j], sent)
                               /\ sent < Timeline[g][j].end
  <2>1. first + i - 1 \in 1 .. N /\ sent < Timeline[g][first + i - 1].end
    BY <1>1, <1>4, <1>5
  <2>2. EventsAhead(g, sent)[i] = Marked(Timeline[g][first + i - 1], sent)
    BY <1>2
  <2> QED
    BY <2>1, <2>2
<1> QED
  BY <1>4, <1>6, <1>7 DEF N

-----------------------------------------------------------------------------
(***************************************************************************)
(* Entering times.                                                         *)
(***************************************************************************)

\* What the scheduler reads of an event is less than a tenth too early.
LEMMA MarkedEvent ==
  ASSUME SignalAssumption, NEW g \in Groups, NEW j \in 1 .. Len(Timeline[g]),
         NEW sent \in 0 .. MaxTime, NEW made \in 0 .. MaxTime
  PROVE  LET e == Timeline[g][j]
             start == EpochOfMark(Marked(e, sent).start, made)
             end == EpochOfMark(Marked(e, sent).end, made)
         IN /\ Marked(e, sent).state = e.state
            /\ e.start \in Nat /\ e.end \in Nat /\ start \in Nat /\ end \in Nat
            /\ e.start <= start + TenthMs - 1 /\ e.end <= end + TenthMs - 1 /\ end <= e.end
<1> DEFINE e == Timeline[g][j]
           start == EpochOfMark(MarkOfEpoch(e.start, sent), made)
           end == EpochOfMark(MarkOfEpoch(e.end, sent), made)
<1>1. e.start \in 0 .. HourMs /\ e.end \in 0 .. HourMs
  BY TimelineType
<1>2. sent \in Nat /\ made \in Nat /\ sent < HourMs /\ made < HourMs
  <2>1. MaxTime \in Nat /\ HourMs \in Nat /\ MaxTime < HourMs
    BY NumbersType
  <2> QED
    BY <2>1
<1> HIDE DEF e
<1>3. start \in Nat /\ start <= e.start /\ e.start <= start + TenthMs - 1
  BY <1>1, <1>2, MarkReadBack
<1>4. end \in Nat /\ end <= e.end /\ e.end <= end + TenthMs - 1
  BY <1>1, <1>2, MarkReadBack
<1>5. e.start \in Nat /\ e.end \in Nat
  BY <1>1
<1>6. /\ Marked(e, sent).state = e.state
      /\ Marked(e, sent).start = MarkOfEpoch(e.start, sent)
      /\ Marked(e, sent).end = MarkOfEpoch(e.end, sent)
  BY DEF Marked
<1> QED
  BY <1>3, <1>4, <1>5, <1>6 DEF e

\* Behind the last event that was announced, it is too late for a schedule of this age.
LEMMA BeyondTheSchedule ==
  ASSUME SignalAssumption,
         NEW sent \in Nat, NEW made \in Nat, made - sent <= SpatAge,
         NEW last \in Nat, sent < last, NEW end \in Nat, last <= end + TenthMs - 1,
         NEW et \in Nat, et >= end + InitialGreenBuffer,
         NEW t \in made .. made + ScheduleAge
  PROVE  ~ (et - Ahead <= t)
<1>1. /\ SpatAge \in Nat /\ ScheduleAge \in Nat /\ Ahead \in Nat
      /\ InitialGreenBuffer \in Nat /\ TenthMs \in Nat
      /\ InitialGreenBuffer >= SpatAge + ScheduleAge + Ahead + TenthMs - 1
  BY NumbersType
<1>2. t \in Nat /\ t <= made + ScheduleAge
  BY <1>1
<1>3. t <= sent + SpatAge + ScheduleAge
  BY <1>1, <1>2
<1>4. et > sent - (TenthMs - 1) + InitialGreenBuffer
  BY <1>1
<1> QED
  BY <1>1, <1>2, <1>3, <1>4

\* Who enters at the time read from a green, or as far ahead of it as may be, is within it.
LEMMA WithinTheGreen ==
  ASSUME SignalAssumption,
         NEW e, e.start \in Nat, e.end \in Nat, NEW start \in Nat, NEW end \in Nat,
         e.start <= start + TenthMs - 1, end <= e.end,
         NEW et \in Nat, et >= start + InitialGreenBuffer, et < end - FinalGreenBuffer,
         NEW t \in Int, et - Ahead <= t, t <= et
  PROVE  FirstEntry(e) <= t /\ t <= LastEntry(e)
<1>1. /\ Ahead \in Nat /\ InitialGreenBuffer \in Nat /\ FinalGreenBuffer \in Nat
      /\ TenthMs \in Nat
  BY NumbersType
<1> DEFINE from == e.start
           to == e.end
<1>2. /\ from \in Nat /\ to \in Nat
      /\ from <= start + TenthMs - 1 /\ end <= to
  OBVIOUS
<1> HIDE DEF from, to
<1>3. from + InitialGreenBuffer - Ahead - (TenthMs - 1) <= t
  BY <1>1, <1>2
<1>4. t <= to - FinalGreenBuffer - 1
  BY <1>1, <1>2
<1> QED
  BY <1>3, <1>4 DEF FirstEntry, LastEntry, from, to

\* The entering time that is estimated from an announcement is right.
LEMMA EstimateIsRight ==
  ASSUME SignalAssumption, NEW g \in Groups,
         NEW sent \in 0 .. MaxTime, NEW made \in 0 .. MaxTime, made - sent <= SpatAge,
         NEW veh, veh.eet \in Nat, NEW available \in Nat,
         NEW et, et = EstimateEt(veh, EventsAhead(g, sent), available, made)
  PROVE  et \in Nat /\ et >= available /\ RightTime(g, et, made)
<1> DEFINE events == EventsAhead(g, sent)
           Et(event) == Max({available, veh.eet, EntersFrom(event, made)})
           greens == {i \in DOMAIN events : Fits(Et(events[i]), events[i], made)}
           beyond == EpochOfMark(Last(events).end, made) + InitialGreenBuffer
<1>0. /\ sent \in Nat /\ made \in Nat /\ InitialGreenBuffer \in Nat
      /\ \A t \in made .. made + ScheduleAge : t \in Int
  <2>1. MaxTime \in Nat /\ ScheduleAge \in Nat /\ InitialGreenBuffer \in Nat
    BY NumbersType
  <2> QED
    BY <2>1
<1>1. PICK n \in Nat \ {0} :
        /\ DOMAIN events = 1 .. n /\ Len(events) = n
        /\ \A i \in 1 .. n : \E j \in 1 .. Len(Timeline[g]) :
             events[i] = Marked(Timeline[g][j], sent) /\ sent < Timeline[g][j].end
  BY AnnouncedEvents
<1>2. et = IF greens = {} THEN Max({available, veh.eet, beyond}) ELSE Et(events[Min(greens)])
  BY DEF EstimateEt
<1>3. greens \subseteq 1 .. n /\ \A i \in greens : Fits(Et(events[i]), events[i], made)
  BY <1>1
<1> HIDE DEF events, greens
<1>4. CASE greens = {}
  <2>1. PICK j \in 1 .. Len(Timeline[g]) :
          events[n] = Marked(Timeline[g][j], sent) /\ sent < Timeline[g][j].end
    BY <1>1
  <2> DEFINE end == EpochOfMark(Marked(Timeline[g][j], sent).end, made)
  <2>2. beyond = end + InitialGreenBuffer
    BY <1>1, <2>1 DEF Last
  <2>3. end \in Nat /\ Timeline[g][j].end \in Nat /\ Timeline[g][j].end <= end + TenthMs - 1
    BY MarkedEvent
  <2> HIDE DEF beyond, end
  <2>4. beyond \in Nat
    <3>1. end \in Nat /\ InitialGreenBuffer \in Nat
      BY <1>0, <2>3
    <3> QED
      BY <2>2, <3>1
  <2>5. et = Max({available, veh.eet, beyond})
    BY <1>2, <1>4
  <2>6. et \in Nat /\ et >= available /\ et >= beyond
    <3> DEFINE eet == veh.eet
    <3>1. eet \in Nat /\ et = Max({available, eet, beyond})
      BY <2>5
    <3> HIDE DEF eet
    <3> QED
      BY <2>4, <3>1, MaxOfThree
  <2>7. ASSUME NEW t \in made .. made + ScheduleAge PROVE ~ (et - Ahead <= t)
    <3> DEFINE last == Timeline[g][j].end
    <3>1. sent < last /\ last <= end + TenthMs - 1 /\ last \in Nat /\ end \in Nat
      BY <2>1, <2>3
    <3> HIDE DEF last
    <3>2. et >= end + InitialGreenBuffer /\ et \in Nat
      BY <2>2, <2>6
    <3> QED
      BY <1>0, <3>1, <3>2, BeyondTheSchedule
  <2> QED
    BY <2>6, <2>7 DEF RightTime
<1>5. CASE greens # {}
  <2>1. Min(greens) \in greens
    BY <1>3, <1>5, LeastElement
  <2>2. PICK i \in 1 .. n : i = Min(greens)
    BY <1>3, <2>1
  <2>3. PICK j \in 1 .. Len(Timeline[g]) : events[i] = Marked(Timeline[g][j], sent)
    BY <1>1
  <2> DEFINE e == Timeline[g][j]
             start == EpochOfMark(Marked(e, sent).start, made)
             end == EpochOfMark(Marked(e, sent).end, made)
             from == EntersFrom(Marked(e, sent), made)
  <2>4. /\ Marked(e, sent).state = e.state
        /\ e.start \in Nat /\ e.end \in Nat /\ start \in Nat /\ end \in Nat
        /\ e.start <= start + TenthMs - 1 /\ end <= e.end
    BY MarkedEvent
  <2>5. from = start + InitialGreenBuffer
    BY DEF EntersFrom
  <2>6. et = Max({available, veh.eet, from})
    BY <1>2, <1>5, <2>2, <2>3
  <2>7. e.state = "green" /\ et < end - FinalGreenBuffer
    <3>1. Fits(Et(events[i]), events[i], made) /\ Et(events[i]) = et
      BY <1>2, <1>3, <1>5, <2>1, <2>2
    <3> QED
      BY <2>3, <2>4, <3>1 DEF Fits
  <2>8. j \in DOMAIN Timeline[g]
    BY TimelineType
  <2> HIDE DEF e, start, end, from
  <2>9. from \in Nat
    <3>1. start \in Nat /\ InitialGreenBuffer \in Nat
      BY <1>0, <2>4
    <3> QED
      BY <2>5, <3>1
  <2>10. et \in Nat /\ et >= available /\ et >= from
    <3> DEFINE eet == veh.eet
    <3>1. eet \in Nat /\ et = Max({available, eet, from})
      BY <2>6
    <3> HIDE DEF eet
    <3> QED
      BY <2>9, <3>1, MaxOfThree
  <2>11. ASSUME NEW t \in made .. made + ScheduleAge, et - Ahead <= t, t <= et
         PROVE  WellWithin(g, t)
    <3>1. t \in Int /\ et \in Nat /\ et >= start + InitialGreenBuffer
      BY <1>0, <2>5, <2>10
    <3>2. FirstEntry(e) <= t /\ t <= LastEntry(e)
      BY <2>4, <2>7, <2>11, <3>1, WithinTheGreen
    <3> QED
      BY <2>7, <2>8, <3>2 DEF WellWithin, e
  <2> QED
    BY <2>10, <2>11 DEF RightTime
<1> QED
  BY <1>4, <1>5

-----------------------------------------------------------------------------
(***************************************************************************)
(* The vehicles of a lane.                                                 *)
(***************************************************************************)

\* Who precedes the n-th entering vehicle of a lane.
PrecedingIn(sched, n, lane, schedules) ==
  IF n = 1 THEN PrecedingDv(lane, schedules) ELSE <<sched[n - 1]>>

\* The equation of LaneSchedule.
LEMMA LaneRecursion ==
  ASSUME NEW lane, NEW evs, NEW events, NEW schedules, NEW made,
         NEW N \in Nat, BeforeStranger(evs) = 1 .. N,
         NEW f, f = LaneSchedule(lane, evs, events, schedules, made)
  PROVE  /\ f = [n \in 1 .. N |-> f[n]]
         /\ \A n \in 1 .. N :
              f[n] = ScheduleEv(evs[n], events, PrecedingIn(f, n, lane, schedules), made)
<1> DEFINE Body(e, n) == ScheduleEv(evs[n], events, PrecedingIn(e, n, lane, schedules), made)
           Solves(e, m) == e = [n \in 1 .. m |-> Body(e, n)]
           Solved == {m \in Nat : \E e : Solves(e, m)}
           F == CHOOSE e : Solves(e, N)
<1>1. f = F
  BY DEF LaneSchedule, PrecedingIn
<1> HIDE DEF Body
<1>2. 0 \in Solved
  <2> DEFINE e == [n \in 1 .. 0 |-> 0]
  <2>1. Solves(e, 0)
    OBVIOUS
  <2> QED
    BY <2>1
<1>3. ASSUME NEW m \in 1 .. N, m - 1 \in Solved PROVE m \in Solved
  <2>1. PICK e : Solves(e, m - 1)
    BY <1>3
  <2> DEFINE g == [n \in 1 .. m |-> Body(e, n)]
  <2>2. \A n \in 1 .. m - 1 : e[n] = Body(e, n)
    BY <2>1
  <2>3. \A n \in 1 .. m - 1 : n \in 1 .. m
    OBVIOUS
  <2>4. \A n \in 1 .. m - 1 : g[n] = e[n]
    BY <2>2, <2>3
  <2>5. \A n \in 1 .. m : n # 1 => n - 1 \in 1 .. m - 1
    OBVIOUS
  <2>6. \A n \in 1 .. m : n # 1 => g[n - 1] = e[n - 1]
    BY <2>4, <2>5
  <2>7. \A n \in 1 .. m : g[n] = Body(g, n)
    <3> SUFFICES ASSUME NEW n \in 1 .. m PROVE Body(e, n) = Body(g, n)
      OBVIOUS
    <3>1. PrecedingIn(e, n, lane, schedules) = PrecedingIn(g, n, lane, schedules)
      BY <2>6 DEF PrecedingIn
    <3> QED
      BY <3>1 DEF Body
  <2>8. g = [n \in 1 .. m |-> g[n]]
    OBVIOUS
  <2> HIDE DEF g
  <2>9. Solves(g, m)
    BY <2>7, <2>8
  <2> QED
    BY <2>9
<1>4. N \in Solved
  <2> HIDE DEF Solved
  <2>1. N \in Nat /\ \A m \in 1 .. N : m - 1 \in Solved => m \in Solved
    BY <1>3
  <2> QED
    BY <1>2, <2>1, Climb
<1>5. Solves(F, N)
  BY <1>4
<1> HIDE DEF F
<1>6. /\ F = [n \in 1 .. N |-> F[n]]
      /\ \A n \in 1 .. N : F[n] = Body(F, n)
  BY <1>5
<1> QED
  BY <1>1, <1>6 DEF Body

\* An entering vehicle enters when it may, at the earliest the headway behind who precedes it.
LEMMA OneEntry ==
  ASSUME SignalAssumption, NEW g \in Groups,
         NEW sent \in 0 .. MaxTime, NEW made \in 0 .. MaxTime, made - sent <= SpatAge,
         NEW veh, veh.eet \in Nat, veh.headway = Headway,
         NEW preceding, preceding = <<>> \/ preceding[1].et \in Nat,
         NEW entry, entry = ScheduleEv(veh, EventsAhead(g, sent), preceding, made)
  PROVE  /\ entry.id = veh.id /\ entry.state = "EV"
         /\ entry.lane = veh.lane /\ entry.link = veh.link /\ entry.eet = veh.eet
         /\ entry.et \in Nat /\ RightTime(g, entry.et, made)
         /\ entry.dt = entry.et + veh.clearance
         /\ preceding # <<>> => entry.et >= preceding[1].et + Headway
<1> DEFINE available == FirstAvailable(veh, preceding, made)
           et == EstimateEt(veh, EventsAhead(g, sent), available, made)
<1>0. made \in Nat /\ Headway \in Nat
  <2>1. MaxTime \in Nat /\ Headway \in Nat
    BY NumbersType
  <2> QED
    BY <2>1
<1>1. available \in Nat /\ (preceding # <<>> => available >= preceding[1].et + Headway)
  <2>1. CASE preceding = <<>>
    BY <1>0, <2>1 DEF FirstAvailable
  <2>2. CASE preceding # <<>>
    <3> DEFINE behind == preceding[1].et + Headway
    <3>1. behind \in Nat
      BY <1>0, <2>2
    <3>2. available = Max({made, behind})
      BY <2>2 DEF FirstAvailable
    <3> HIDE DEF behind, available
    <3>3. available \in Nat /\ available >= behind
      BY <1>0, <3>1, <3>2, MaxOfTwo
    <3> QED
      BY <3>3 DEF behind
  <2> QED
    BY <2>1, <2>2
<1> HIDE DEF available
<1>2. et \in Nat /\ et >= available /\ RightTime(g, et, made)
  BY <1>1, EstimateIsRight
<1>3. /\ entry.id = veh.id /\ entry.state = "EV"
      /\ entry.lane = veh.lane /\ entry.link = veh.link /\ entry.eet = veh.eet
      /\ entry.et = et /\ entry.dt = et + veh.clearance
  BY DEF ScheduleEv, available
<1> HIDE DEF et
<1>4. preceding # <<>> => et >= preceding[1].et + Headway
  BY <1>0, <1>1, <1>2
<1> QED
  BY <1>2, <1>3, <1>4

\* Who is scheduled in a lane enters when it may, the headway behind everyone ahead of it.
LEMMA LaneInOrder ==
  ASSUME SignalAssumption, NEW g \in Groups,
         NEW sent \in 0 .. MaxTime, NEW made \in 0 .. MaxTime, made - sent <= SpatAge,
         NEW lane, NEW evs, NEW schedules, NEW N \in Nat, BeforeStranger(evs) = 1 .. N,
         \A n \in 1 .. N : evs[n].eet \in Nat /\ evs[n].headway = Headway,
         PrecedingDv(lane, schedules) = <<>> \/ PrecedingDv(lane, schedules)[1].et \in Nat,
         NEW f, f = LaneSchedule(lane, evs, EventsAhead(g, sent), schedules, made)
  PROVE  /\ f = [n \in 1 .. N |-> f[n]]
         /\ \A n \in 1 .. N :
              /\ f[n] = ScheduleEv(evs[n], EventsAhead(g, sent),
                          PrecedingIn(f, n, lane, schedules), made)
              /\ f[n].id = evs[n].id /\ f[n].state = "EV"
              /\ f[n].lane = evs[n].lane /\ f[n].link = evs[n].link
              /\ f[n].eet = evs[n].eet /\ f[n].dt = f[n].et + evs[n].clearance
              /\ f[n].et \in Nat /\ RightTime(g, f[n].et, made)
         /\ \A i, j \in 1 .. N : i < j => f[j].et >= f[i].et + Headway
<1> DEFINE events == EventsAhead(g, sent)
           Before(n) == PrecedingIn(f, n, lane, schedules)
<1>f. f = LaneSchedule(lane, evs, events, schedules, made)
  OBVIOUS
<1> HIDE DEF events
<1>1. /\ f = [n \in 1 .. N |-> f[n]]
      /\ \A n \in 1 .. N : f[n] = ScheduleEv(evs[n], events, Before(n), made)
  BY <1>f, LaneRecursion
<1> DEFINE Entry(n) ==
             /\ f[n].id = evs[n].id /\ f[n].state = "EV"
             /\ f[n].lane = evs[n].lane /\ f[n].link = evs[n].link
             /\ f[n].eet = evs[n].eet /\ f[n].dt = f[n].et + evs[n].clearance
             /\ f[n].et \in Nat /\ RightTime(g, f[n].et, made)
           I == {n \in 0 .. N : /\ \A i \in 1 .. n : Entry(i)
                                /\ \A i, j \in 1 .. n : i < j => f[j].et >= f[i].et + Headway}
<1>2. 0 \in I
  OBVIOUS
<1>3. ASSUME NEW n \in 1 .. N, n - 1 \in I PROVE n \in I
  <2>1. Before(n) = <<>> \/ Before(n)[1].et \in Nat
    <3>1. CASE n = 1
      BY <3>1 DEF PrecedingIn
    <3>2. CASE n # 1
      <4>1. n - 1 \in 1 .. n - 1
        BY <3>2
      <4>2. f[n - 1].et \in Nat
        BY <1>3, <4>1
      <4> QED
        BY <3>2, <4>2 DEF PrecedingIn
    <3> QED
      BY <3>1, <3>2
  <2>2. f[n] = ScheduleEv(evs[n], events, Before(n), made)
    BY <1>1
  <2> DEFINE before == Before(n)
             entry == f[n]
             veh == evs[n]
  <2>3. n # 1 => before = <<f[n - 1]>> /\ before # <<>> /\ before[1] = f[n - 1]
    BY DEF PrecedingIn
  <2>4. veh.eet \in Nat /\ veh.headway = Headway
    OBVIOUS
  <2> HIDE DEF before, entry, veh
  <2>5. /\ entry.id = veh.id /\ entry.state = "EV"
        /\ entry.lane = veh.lane /\ entry.link = veh.link /\ entry.eet = veh.eet
        /\ entry.et \in Nat /\ RightTime(g, entry.et, made)
        /\ entry.dt = entry.et + veh.clearance
        /\ before # <<>> => entry.et >= before[1].et + Headway
    <3>1. before = <<>> \/ before[1].et \in Nat
      BY <2>1 DEF before
    <3>2. entry = ScheduleEv(veh, EventsAhead(g, sent), before, made)
      BY <2>2 DEF before, entry, veh, events
    <3> QED
      BY <2>4, <3>1, <3>2, OneEntry
  <2>6. Entry(n)
    BY <2>5 DEF entry, veh
  <2>7. n # 1 => f[n].et >= f[n - 1].et + Headway
    BY <2>3, <2>5 DEF entry
  <2> HIDE DEF Before
  <2>8. \A i \in 1 .. n - 1 : Entry(i)
    BY <1>3
  <2>9. ASSUME NEW i \in 1 .. n - 1 PROVE f[n].et >= f[i].et + Headway
    <3> DEFINE a == f[i].et
               b == f[n - 1].et
               c == f[n].et
    <3>1. n - 1 \in 1 .. n - 1 /\ n # 1
      OBVIOUS
    <3>2. a \in Nat /\ b \in Nat /\ c \in Nat /\ Headway \in Nat
      BY <2>6, <2>8, <3>1, NumbersType
    <3>3. c >= b + Headway
      BY <2>7, <3>1
    <3>4. i = n - 1 \/ b >= a + Headway
      BY <1>3, <3>1
    <3>5. i = n - 1 => a = b
      OBVIOUS
    <3> HIDE DEF a, b, c
    <3>6. c >= a + Headway
      BY <3>2, <3>3, <3>4, <3>5
    <3> QED
      BY <3>6 DEF a, c
  <2> HIDE DEF Entry
  <2>10. \A i \in 1 .. n : i \in 1 .. n - 1 \/ i = n
    OBVIOUS
  <2>11. \A i \in 1 .. n : Entry(i)
    BY <2>6, <2>8, <2>10
  <2>12. ASSUME NEW i \in 1 .. n, NEW j \in 1 .. n, i < j PROVE f[j].et >= f[i].et + Headway
    <3>1. i \in 1 .. n - 1
      BY <2>12
    <3>2. CASE j = n
      BY <2>9, <3>1, <3>2
    <3>3. CASE j # n
      <4>1. j \in 1 .. n - 1
        BY <3>3
      <4> QED
        BY <1>3, <2>12, <3>1, <4>1
    <3> QED
      BY <3>2, <3>3
  <2>13. n \in 0 .. N
    OBVIOUS
  <2> QED
    BY <2>11, <2>12, <2>13
<1>4. N \in I
  <2> HIDE DEF I
  <2>1. N \in Nat /\ \A n \in 1 .. N : n - 1 \in I => n \in I
    BY <1>3
  <2> QED
    BY <1>2, <2>1, Climb
<1> HIDE DEF Before
<1>5. \A n \in 1 .. N : Entry(n)
  BY <1>4
<1>6. \A i, j \in 1 .. N : i < j => f[j].et >= f[i].et + Headway
  BY <1>4
<1> QED
  BY <1>1, <1>5, <1>6 DEF events, Before

-----------------------------------------------------------------------------
(***************************************************************************)
(* A round of the scheduler.                                               *)
(***************************************************************************)

\* What a round has made when the entering vehicles of some lanes are scheduled: whoever is
\* in it is there once, either in the box or entering from one of these lanes, when it may.
SoundRound(list, done) ==
  /\ list \in Seq(Scheduled)
  /\ \A i, j \in DOMAIN list : list[i].id = list[j].id => i = j
  /\ \A i \in DOMAIN list :
       \/ list[i].state = "DV" /\ stage[list[i].id] = "box"
       \/ /\ list[i].state = "EV" /\ stage[list[i].id] = "lane"
          /\ list[i].lane = Route[list[i].id].lane /\ list[i].lane \in done
          /\ RightTime(Group(list[i].id), list[i].et, now)
  /\ \A i, j \in DOMAIN list :
       i < j /\ list[i].lane = list[j].lane /\ list[i].state = "EV"
         => list[j].et >= list[i].et + Headway

\* A list of a finite set has each of its elements in one place.
LEMMA ListOfSet ==
  ASSUME NEW S, IsFiniteSet(S), NEW list \in SetToSeqs(S)
  PROVE  \E n \in Nat : /\ list \in [1 .. n -> S] /\ list \in Seq(S) /\ Len(list) = n
                        /\ \A i, j \in 1 .. n : list[i] = list[j] => i = j
<1> DEFINE n == Cardinality(S)
<1>1. n \in Nat
  BY FS_CardinalityType
<1>2. list \in [1 .. n -> S] /\ \A i, j \in 1 .. n : i # j => list[i] # list[j]
  BY DEF SetToSeqs
<1> HIDE DEF n
<1> QED
  BY <1>1, <1>2

\* What the list says of some of the vehicles is finite.
LEMMA ListedFinite ==
  ASSUME SignalAssumption, NEW S \in SUBSET Vehicles
  PROVE  IsFiniteSet({Listed(v) : v \in S})
<1> DEFINE f == [v \in S |-> Listed(v)]
           T == {Listed(v) : v \in S}
<1>1. IsFiniteSet(S)
  BY FS_Subset DEF SignalAssumption, RoutesAssumption
<1>2. f \in Surjection(S, T)
  BY DEF Surjection
<1> HIDE DEF f
<1> QED
  BY <1>1, <1>2, FS_Surjection

\* What the list says of a vehicle that is present.
LEMMA ListedType ==
  ASSUME SignalAssumption, TypeOK, NEW v \in Vehicles
  PROVE  /\ Listed(v).id = v /\ Listed(v).lane = Route[v].lane /\ Listed(v).link = Route[v].link
         /\ Route[v].lane \in Lanes /\ Route[v].link \in Links
         /\ Route[v].link \in Connecting[Route[v].lane]
         /\ Listed(v).eet \in Nat /\ Listed(v).et \in Nat /\ Listed(v).clearance \in Nat
         /\ Listed(v).headway = Headway
         /\ now \in 0 .. MaxTime /\ now \in Nat
<1>1. /\ Route \in [Vehicles -> [lane : Lanes, link : Nat]]
      /\ Connecting \in [Lanes -> SUBSET Links]
      /\ Route[v].link \in Connecting[Route[v].lane]
  BY DEF SignalAssumption, RoutesAssumption, SignalizedAssumption, IntersectionAssumption
<1>2. Route[v].lane \in Lanes /\ Route[v].link \in Links
  BY <1>1
<1>3. MaxTime \in Nat /\ Clearance \in Nat
  BY NumbersType
<1>4. now \in 0 .. MaxTime /\ left[v] \in Nat /\ entered[v] \in Nat
  BY DEF TypeOK
<1>5. now \in Nat
  BY <1>3, <1>4
<1> QED
  BY <1>1, <1>2, <1>3, <1>4, <1>5 DEF Listed

\* The list knows the link of everyone.
LEMMA NoStranger ==
  ASSUME SignalAssumption, TypeOK, NEW S \in SUBSET Vehicles,
         NEW list \in SetToSeqs({Listed(v) : v \in S})
  PROVE  \E n \in Nat : \E who \in [1 .. n -> S] :
           /\ BeforeStranger(list) = 1 .. n
           /\ \A i \in 1 .. n : list[i] = Listed(who[i])
           /\ \A i, j \in 1 .. n : who[i] = who[j] => i = j
<1> DEFINE T == {Listed(v) : v \in S}
<1>1. IsFiniteSet(T)
  BY ListedFinite
<1> HIDE DEF T
<1>2. PICK n \in Nat : /\ list \in [1 .. n -> T]
                       /\ \A i, j \in 1 .. n : list[i] = list[j] => i = j
  <2>1. list \in SetToSeqs(T)
    BY DEF T
  <2> QED
    BY <1>1, <2>1, ListOfSet
<1>3. \A i \in 1 .. n : \E v \in S : list[i] = Listed(v)
  BY <1>2 DEF T
<1> DEFINE who == [i \in 1 .. n |-> CHOOSE v \in S : list[i] = Listed(v)]
<1>4. \A i \in 1 .. n : who[i] \in S /\ list[i] = Listed(who[i])
  BY <1>3
<1>5. who \in [1 .. n -> S]
  BY <1>4
<1> HIDE DEF who
<1>6. \A i, j \in 1 .. n : who[i] = who[j] => i = j
  <2> SUFFICES ASSUME NEW i \in 1 .. n, NEW j \in 1 .. n, who[i] = who[j] PROVE i = j
    OBVIOUS
  <2>1. list[i] = Listed(who[i]) /\ list[j] = Listed(who[j])
    BY <1>4
  <2>2. list[i] = list[j]
    BY <2>1
  <2> QED
    BY <1>2, <2>2
<1>7. BeforeStranger(list) = 1 .. n
  <2>1. \A i \in 1 .. n : list[i].link \in Links
    <3> TAKE i \in 1 .. n
    <3>1. who[i] \in Vehicles
      BY <1>5
    <3> QED
      BY <1>4, <3>1, ListedType
  <2>2. DOMAIN list = 1 .. n
    BY <1>2
  <2>3. Strangers(list) = {}
    BY <2>1, <2>2 DEF Strangers
  <2> QED
    BY <2>2, <2>3 DEF BeforeStranger
<1> QED
  BY <1>4, <1>5, <1>6, <1>7

\* The departing vehicles.
LEMMA DvsAreSound ==
  ASSUME SignalAssumption, TypeOK, NEW dvs \in SetToSeqs({Listed(v) : v \in Dvs})
  PROVE  SoundRound(ScheduleDvs(dvs, now).schedules, {})
<1>1. Dvs \in SUBSET Vehicles
  BY DEF Dvs
<1>2. PICK n \in Nat : \E who \in [1 .. n -> Dvs] :
        /\ BeforeStranger(dvs) = 1 .. n
        /\ \A i \in 1 .. n : dvs[i] = Listed(who[i])
        /\ \A i, j \in 1 .. n : who[i] = who[j] => i = j
  BY <1>1, NoStranger
<1>who. PICK who \in [1 .. n -> Dvs] :
        /\ BeforeStranger(dvs) = 1 .. n
        /\ \A i \in 1 .. n : dvs[i] = Listed(who[i])
        /\ \A i, j \in 1 .. n : who[i] = who[j] => i = j
  BY <1>2
<1> DEFINE list == [i \in 1 .. n |-> ScheduleDv(dvs[i], now)]
<1>3. ScheduleDvs(dvs, now).schedules = list
  BY <1>who DEF ScheduleDvs, Round
<1>4. \A i \in 1 .. n : list[i] = ScheduleDv(dvs[i], now)
  OBVIOUS
<1>5. DOMAIN list = 1 .. n /\ list = [i \in 1 .. n |-> list[i]]
  OBVIOUS
<1> HIDE DEF list
<1>6. ASSUME NEW i \in 1 .. n
      PROVE  /\ list[i] \in Scheduled /\ list[i].id = who[i]
             /\ list[i].state = "DV" /\ stage[who[i]] = "box"
  <2> DEFINE v == who[i]
             veh == Listed(v)
  <2>1. v \in Vehicles /\ stage[v] = "box"
    BY <1>who DEF Dvs
  <2>2. list[i] = ScheduleDv(veh, now)
    BY <1>who, <1>4
  <2> HIDE DEF v
  <2>3. /\ veh.id = v /\ veh.lane \in Lanes /\ veh.link \in Links
        /\ veh.et \in Nat /\ veh.clearance \in Nat /\ now \in Nat
    BY <2>1, ListedType
  <2> HIDE DEF veh
  <2>4. ScheduleDv(veh, now) \in Scheduled
    BY <2>1, <2>3 DEF ScheduleDv, Scheduled
  <2>5. ScheduleDv(veh, now).id = v /\ ScheduleDv(veh, now).state = "DV"
    BY <2>3 DEF ScheduleDv
  <2> QED
    BY <2>1, <2>2, <2>4, <2>5 DEF v
<1>7. list \in Seq(Scheduled)
  BY <1>5, <1>6
<1>8. \A i, j \in 1 .. n : list[i].id = list[j].id => i = j
  BY <1>who, <1>6
<1>9. \A i \in 1 .. n : list[i].state = "DV" /\ list[i].state # "EV" /\ stage[list[i].id] = "box"
  BY <1>6
<1> QED
  BY <1>3, <1>5, <1>7, <1>8, <1>9 DEF SoundRound

\* A lane with entering vehicles has one signal group, that of these vehicles.
LEMMA MovementOfLane ==
  ASSUME SignalAssumption, TypeOK, NEW lane \in LanesWithEvs, NEW t,
         MovementEvents(lane, SpatAt(t)) # Throws
  PROVE  \E g \in Groups : /\ MovementEvents(lane, SpatAt(t)) = EventsAhead(g, t)
                           /\ \A v \in EvsIn(lane) : Group(v) = g
<1> DEFINE groups == {GroupOf[link] : link \in Connecting[lane]}
           group == CHOOSE g \in groups : TRUE
<1>1. groups = {group} /\ group \in Groups /\ MovementEvents(lane, SpatAt(t)) = SpatAt(t)[group]
  BY DEF MovementEvents, SpatAt
<1>2. SpatAt(t)[group] = EventsAhead(group, t)
  BY <1>1 DEF SpatAt
<1>3. ASSUME NEW v \in EvsIn(lane) PROVE Group(v) = group
  <2>1. v \in Vehicles /\ Route[v].lane = lane
    BY DEF EvsIn
  <2>2. Route[v].link \in Connecting[lane]
    BY <2>1, ListedType
  <2>3. Group(v) \in groups
    BY <2>2 DEF Group
  <2> QED
    BY <1>1, <2>3
<1> QED
  BY <1>1, <1>2, <1>3

\* Who precedes the entering vehicles of a lane is scheduled already.
LEMMA PrecedingDvScheduled ==
  ASSUME NEW list \in Seq(Scheduled), NEW lane
  PROVE  PrecedingDv(lane, list) = <<>> \/ PrecedingDv(lane, list)[1].et \in Nat
<1> DEFINE dvs == {i \in DOMAIN list : list[i].lane = lane /\ list[i].state = "DV"}
           first == {i \in dvs : \A j \in dvs : list[i].et <= list[j].et}
<1>1. dvs \in SUBSET Nat /\ \A i \in dvs : list[i].et \in Nat
  <2>1. \A i \in DOMAIN list : list[i] \in Scheduled /\ i \in Nat
    OBVIOUS
  <2> QED
    BY <2>1 DEF Scheduled
<1>2. PrecedingDv(lane, list) = IF dvs = {} THEN <<>> ELSE <<list[Min(first)]>>
  BY DEF PrecedingDv
<1> HIDE DEF dvs
<1>3. CASE dvs = {}
  BY <1>2, <1>3
<1>4. CASE dvs # {}
  <2> DEFINE times == {list[i].et : i \in dvs}
  <2>1. times \in SUBSET Nat /\ times # {}
    BY <1>1, <1>4
  <2>2. \A i \in dvs : list[i].et \in times
    OBVIOUS
  <2>3. \A x \in times : \E i \in dvs : x = list[i].et
    OBVIOUS
  <2> HIDE DEF times
  <2>4. Min(times) \in times /\ \A x \in times : Min(times) <= x
    BY <2>1, LeastElement
  <2>5. first # {}
    BY <2>2, <2>3, <2>4
  <2>6. first \in SUBSET dvs
    OBVIOUS
  <2> HIDE DEF first
  <2>7. Min(first) \in first
    BY <1>1, <2>5, <2>6, LeastElement
  <2>8. list[Min(first)].et \in Nat
    BY <1>1, <2>6, <2>7
  <2> QED
    BY <1>2, <1>4, <2>8
<1> QED
  BY <1>3, <1>4

\* The places of two lists joined.
LEMMA Joined ==
  ASSUME NEW S, NEW a \in Seq(S), NEW b \in Seq(S)
  PROVE  /\ a \o b \in Seq(S) /\ Len(a) \in Nat /\ Len(b) \in Nat
         /\ DOMAIN a = 1 .. Len(a) /\ DOMAIN b = 1 .. Len(b)
         /\ DOMAIN (a \o b) = 1 .. Len(a) + Len(b)
         /\ \A i \in 1 .. Len(a) : (a \o b)[i] = a[i]
         /\ \A i \in 1 .. Len(a) + Len(b) :
              i \in 1 .. Len(a) \/ (i - Len(a) \in 1 .. Len(b) /\ (a \o b)[i] = b[i - Len(a)])
OBVIOUS

\* What a round made stays sound when further lanes are scheduled.
LEMMA SoundForMore ==
  ASSUME NEW list, NEW done, NEW more, SoundRound(list, done), done \subseteq more
  PROVE  SoundRound(list, more)
BY DEF SoundRound

\* A round remains sound when the entering vehicles of a lane are scheduled.
LEMMA LaneIsSound ==
  ASSUME SignalAssumption, TypeOK, SpatInv,
         NEW lane \in LanesWithEvs, NEW done, lane \notin done,
         NEW evs \in OrdersOfEvs(lane), NEW list, SoundRound(list, done),
         MovementEvents(lane, spat) # Throws
  PROVE  SoundRound(list \o LaneSchedule(lane, evs, MovementEvents(lane, spat), list, now),
                    done \cup {lane})
<1>1. /\ spat = SpatAt(spatAt) /\ now \in 0 .. MaxTime /\ spatAt \in 0 .. MaxTime
      /\ now - spatAt <= SpatAge
  <2>1. MaxTime \in Nat
    BY NumbersType
  <2> QED
    BY <2>1 DEF TypeOK, SpatInv
<1>2. PICK g \in Groups : /\ MovementEvents(lane, spat) = EventsAhead(g, spatAt)
                          /\ \A v \in EvsIn(lane) : Group(v) = g
  BY <1>1, MovementOfLane
<1>3. EvsIn(lane) \in SUBSET Vehicles /\ evs \in SetToSeqs({Listed(v) : v \in EvsIn(lane)})
  BY DEF EvsIn, OrdersOfEvs, ByDistance
<1>4. PICK n \in Nat : \E who \in [1 .. n -> EvsIn(lane)] :
        /\ BeforeStranger(evs) = 1 .. n
        /\ \A i \in 1 .. n : evs[i] = Listed(who[i])
        /\ \A i, j \in 1 .. n : who[i] = who[j] => i = j
  BY <1>3, NoStranger
<1>5. PICK who \in [1 .. n -> EvsIn(lane)] :
        /\ BeforeStranger(evs) = 1 .. n
        /\ \A i \in 1 .. n : evs[i] = Listed(who[i])
        /\ \A i, j \in 1 .. n : who[i] = who[j] => i = j
  BY <1>4
<1>6. ASSUME NEW i \in 1 .. n
      PROVE  /\ evs[i].id = who[i] /\ who[i] \in Vehicles /\ stage[who[i]] = "lane"
             /\ evs[i].lane = lane /\ lane \in Lanes /\ Route[who[i]].lane = lane
             /\ Group(who[i]) = g /\ evs[i].link \in Links
             /\ evs[i].eet \in Nat /\ evs[i].clearance \in Nat /\ evs[i].headway = Headway
  <2>1. who[i] \in EvsIn(lane) /\ evs[i] = Listed(who[i])
    BY <1>5
  <2>2. who[i] \in Vehicles /\ stage[who[i]] = "lane" /\ Route[who[i]].lane = lane
    BY <2>1 DEF EvsIn
  <2> QED
    BY <1>2, <2>1, <2>2, ListedType
<1>7. list \in Seq(Scheduled)
  BY DEF SoundRound
<1>8. PrecedingDv(lane, list) = <<>> \/ PrecedingDv(lane, list)[1].et \in Nat
  BY <1>7, PrecedingDvScheduled
<1>f. PICK f : f = LaneSchedule(lane, evs, EventsAhead(g, spatAt), list, now)
  OBVIOUS
<1>9. /\ f = [i \in 1 .. n |-> f[i]]
      /\ \A i \in 1 .. n :
           /\ f[i] = ScheduleEv(evs[i], EventsAhead(g, spatAt),
                       PrecedingIn(f, i, lane, list), now)
           /\ f[i].id = evs[i].id /\ f[i].state = "EV"
           /\ f[i].lane = evs[i].lane /\ f[i].link = evs[i].link
           /\ f[i].eet = evs[i].eet /\ f[i].dt = f[i].et + evs[i].clearance
           /\ f[i].et \in Nat /\ RightTime(g, f[i].et, now)
      /\ \A i, j \in 1 .. n : i < j => f[j].et >= f[i].et + Headway
  <2>1. \A i \in 1 .. n : evs[i].eet \in Nat /\ evs[i].headway = Headway
    BY <1>6
  <2>2. BeforeStranger(evs) = 1 .. n
    BY <1>5
  <2> QED
    BY <1>1, <1>8, <1>f, <2>1, <2>2, LaneInOrder
<1>10. ASSUME NEW i \in 1 .. n
       PROVE  /\ f[i] \in Scheduled /\ f[i].id = who[i]
              /\ f[i].state = "EV" /\ f[i].lane = lane /\ RightTime(g, f[i].et, now)
  <2> DEFINE before == PrecedingIn(f, i, lane, list)
             entry == f[i]
             veh == evs[i]
  <2>1. entry = ScheduleEv(veh, EventsAhead(g, spatAt), before, now)
    BY <1>9
  <2>2. /\ entry.id = who[i] /\ entry.state = "EV" /\ entry.lane = lane
        /\ entry.link \in Links /\ entry.eet \in Nat /\ entry.et \in Nat
        /\ entry.dt = entry.et + veh.clearance /\ veh.clearance \in Nat
        /\ RightTime(g, entry.et, now) /\ who[i] \in Vehicles /\ lane \in Lanes
    <3>1. /\ entry.id = veh.id /\ entry.state = "EV" /\ entry.lane = veh.lane
          /\ entry.link = veh.link /\ entry.eet = veh.eet
          /\ entry.dt = entry.et + veh.clearance
          /\ entry.et \in Nat /\ RightTime(g, entry.et, now)
      BY <1>9
    <3>2. /\ veh.id = who[i] /\ veh.lane = lane /\ veh.link \in Links /\ veh.eet \in Nat
          /\ veh.clearance \in Nat /\ who[i] \in Vehicles /\ lane \in Lanes
      BY <1>6
    <3> HIDE DEF entry, veh
    <3> QED
      BY <3>1, <3>2
  <2> HIDE DEF before, entry, veh
  <2>3. entry = [id |-> entry.id, state |-> entry.state, lane |-> entry.lane,
                 link |-> entry.link, eet |-> entry.eet, et |-> entry.et, dt |-> entry.dt]
    BY <2>1 DEF ScheduleEv
  <2>4. entry.dt \in Nat
    BY <2>2
  <2>5. entry \in Scheduled
    BY <2>2, <2>3, <2>4 DEF Scheduled
  <2> QED
    BY <2>2, <2>5 DEF entry
<1>11. f \in Seq(Scheduled) /\ Len(f) = n
  BY <1>9, <1>10
<1> DEFINE joined == list \o f
           m == Len(list)
<1>12. /\ joined \in Seq(Scheduled) /\ m \in Nat
       /\ DOMAIN list = 1 .. m /\ DOMAIN joined = 1 .. m + n
       /\ \A i \in 1 .. m : joined[i] = list[i]
       /\ \A i \in 1 .. m + n :
            i \in 1 .. m \/ (i - m \in 1 .. n /\ joined[i] = f[i - m])
  BY <1>7, <1>11, Joined
<1>13. LaneSchedule(lane, evs, MovementEvents(lane, spat), list, now) = f
  BY <1>2, <1>f
<1> HIDE DEF joined, m
<1>14. /\ \A i, j \in 1 .. m : list[i].id = list[j].id => i = j
       /\ \A i \in 1 .. m :
            \/ list[i].state = "DV" /\ stage[list[i].id] = "box"
            \/ /\ list[i].state = "EV" /\ stage[list[i].id] = "lane"
               /\ list[i].lane = Route[list[i].id].lane /\ list[i].lane \in done
               /\ RightTime(Group(list[i].id), list[i].et, now)
       /\ \A i, j \in 1 .. m :
            i < j /\ list[i].lane = list[j].lane /\ list[i].state = "EV"
              => list[j].et >= list[i].et + Headway
  BY <1>12 DEF SoundRound
<1>15. \A i \in 1 .. m, j \in 1 .. n : list[i].id # f[j].id
  <2> SUFFICES ASSUME NEW i \in 1 .. m, NEW j \in 1 .. n, list[i].id = f[j].id PROVE FALSE
    OBVIOUS
  <2>1. list[i].id = who[j] /\ stage[who[j]] = "lane" /\ Route[who[j]].lane = lane
    BY <1>6, <1>10
  <2> QED
    BY <1>14, <2>1
<1>16. \A i, j \in 1 .. n : f[i].id = f[j].id => i = j
  BY <1>5, <1>10
<1>17. ASSUME NEW i \in 1 .. m + n, NEW j \in 1 .. m + n, joined[i].id = joined[j].id
       PROVE  i = j
  <2>1. CASE i \in 1 .. m /\ j \in 1 .. m
    BY <1>12, <1>14, <1>17, <2>1
  <2>2. CASE i \in 1 .. m /\ j \notin 1 .. m
    BY <1>12, <1>15, <1>17, <2>2
  <2>3. CASE i \notin 1 .. m /\ j \in 1 .. m
    BY <1>12, <1>15, <1>17, <2>3
  <2>4. CASE i \notin 1 .. m /\ j \notin 1 .. m
    <3>1. i - m \in 1 .. n /\ j - m \in 1 .. n /\ joined[i] = f[i - m] /\ joined[j] = f[j - m]
      BY <1>12, <2>4
    <3>2. i - m = j - m
      BY <1>16, <1>17, <3>1
    <3> QED
      BY <1>12, <3>2
  <2> QED
    BY <2>1, <2>2, <2>3, <2>4
<1>18. ASSUME NEW i \in 1 .. m + n
       PROVE  \/ joined[i].state = "DV" /\ stage[joined[i].id] = "box"
              \/ /\ joined[i].state = "EV" /\ stage[joined[i].id] = "lane"
                 /\ joined[i].lane = Route[joined[i].id].lane
                 /\ joined[i].lane \in done \cup {lane}
                 /\ RightTime(Group(joined[i].id), joined[i].et, now)
  <2>1. CASE i \in 1 .. m
    BY <1>12, <1>14, <2>1
  <2>2. CASE i \notin 1 .. m
    <3>1. i - m \in 1 .. n /\ joined[i] = f[i - m]
      BY <1>12, <2>2
    <3>2. /\ joined[i].id = who[i - m] /\ joined[i].state = "EV" /\ joined[i].lane = lane
          /\ RightTime(g, joined[i].et, now)
      BY <1>10, <3>1
    <3>3. stage[who[i - m]] = "lane" /\ Route[who[i - m]].lane = lane /\ Group(who[i - m]) = g
      BY <1>6, <3>1
    <3> QED
      BY <3>2, <3>3
  <2> QED
    BY <2>1, <2>2
<1>19. ASSUME NEW i \in 1 .. m + n, NEW j \in 1 .. m + n, i < j,
              joined[i].lane = joined[j].lane, joined[i].state = "EV"
       PROVE  joined[j].et >= joined[i].et + Headway
  <2>1. CASE j \in 1 .. m
    <3>1. i \in 1 .. m
      BY <1>12, <1>19, <2>1
    <3> QED
      BY <1>12, <1>14, <1>19, <2>1, <3>1
  <2>2. CASE i \in 1 .. m /\ j \notin 1 .. m
    <3>1. joined[i] = list[i] /\ joined[j].lane = lane
      <4>1. j - m \in 1 .. n /\ joined[j] = f[j - m]
        BY <1>12, <2>2
      <4>2. f[j - m].lane = lane
        BY <1>10, <4>1
      <4> QED
        BY <1>12, <2>2, <4>1, <4>2
    <3>2. list[i].lane \in done
      BY <1>14, <1>19, <2>2, <3>1
    <3> QED
      BY <1>19, <3>1, <3>2
  <2>3. CASE i \notin 1 .. m /\ j \notin 1 .. m
    <3>1. i - m \in 1 .. n /\ j - m \in 1 .. n /\ joined[i] = f[i - m] /\ joined[j] = f[j - m]
      BY <1>12, <2>3
    <3>2. i - m < j - m
      BY <1>12, <1>19
    <3> QED
      BY <1>9, <3>1, <3>2
  <2> QED
    BY <2>1, <2>2, <2>3
<1>20. SoundRound(joined, done \cup {lane})
  BY <1>12, <1>17, <1>18, <1>19 DEF SoundRound
<1> QED
  BY <1>13, <1>20 DEF joined

\* The function by which ScheduleVehicles is defined: what the round made lane by lane.
LaneByLane(dvs, evs, lanes, known, made) ==
  CHOOSE f : f = [n \in 0 .. Len(lanes) |->
                    IF n = 0 THEN ScheduleDvs(dvs, made)
                    ELSE ScheduleLane(f[n - 1], lanes[n], evs[lanes[n]], known, made)]

\* Its equations.
LEMMA RoundRecursion ==
  ASSUME NEW dvs, NEW evs, NEW lanes, Len(lanes) \in Nat, NEW known, NEW made,
         NEW f, f = LaneByLane(dvs, evs, lanes, known, made)
  PROVE  /\ ScheduleVehicles(dvs, evs, lanes, known, made) = f[Len(lanes)]
         /\ f[0] = ScheduleDvs(dvs, made)
         /\ \A n \in 1 .. Len(lanes) :
              f[n] = ScheduleLane(f[n - 1], lanes[n], evs[lanes[n]], known, made)
<1> DEFINE N == Len(lanes)
           first == ScheduleDvs(dvs, made)
           Body(n, before) == ScheduleLane(before, lanes[n], evs[lanes[n]], known, made)
           Solves(e, m) == e = [n \in 0 .. m |-> IF n = 0 THEN first ELSE Body(n, e[n - 1])]
           Solved == {m \in Nat : \E e : Solves(e, m)}
           F == CHOOSE e : Solves(e, N)
<1>1. ScheduleVehicles(dvs, evs, lanes, known, made) = F[N] /\ f = F
  BY DEF ScheduleVehicles, LaneByLane
<1> HIDE DEF Body, first
<1>2. 0 \in Solved
  <2> DEFINE e == [n \in 0 .. 0 |-> first]
  <2>1. Solves(e, 0)
    OBVIOUS
  <2> QED
    BY <2>1
<1>3. ASSUME NEW m \in 1 .. N, m - 1 \in Solved PROVE m \in Solved
  <2>1. PICK e : Solves(e, m - 1)
    BY <1>3
  <2> DEFINE g == [n \in 0 .. m |-> IF n = 0 THEN first ELSE Body(n, e[n - 1])]
  <2>2. \A n \in 0 .. m - 1 : e[n] = IF n = 0 THEN first ELSE Body(n, e[n - 1])
    BY <2>1
  <2>3. \A n \in 0 .. m - 1 : n \in 0 .. m
    OBVIOUS
  <2>4. \A n \in 0 .. m - 1 : g[n] = e[n]
    BY <2>2, <2>3
  <2>5. \A n \in 0 .. m : n # 0 => n - 1 \in 0 .. m - 1
    OBVIOUS
  <2>6. \A n \in 0 .. m : n # 0 => g[n - 1] = e[n - 1]
    BY <2>4, <2>5
  <2>7. \A n \in 0 .. m : g[n] = IF n = 0 THEN first ELSE Body(n, g[n - 1])
    BY <2>6
  <2>8. g = [n \in 0 .. m |-> g[n]]
    OBVIOUS
  <2> HIDE DEF g
  <2>9. Solves(g, m)
    BY <2>7, <2>8
  <2> QED
    BY <2>9
<1>4. N \in Solved
  <2> HIDE DEF Solved
  <2>1. N \in Nat /\ \A m \in 1 .. N : m - 1 \in Solved => m \in Solved
    BY <1>3
  <2> HIDE DEF N
  <2> QED
    BY <1>2, <2>1, Climb
<1>5. Solves(F, N)
  BY <1>4
<1> HIDE DEF F
<1>6. F[0] = first /\ \A n \in 1 .. N : F[n] = Body(n, F[n - 1])
  BY <1>5
<1> QED
  BY <1>1, <1>6 DEF Body, first

\* What a round makes, whether it ended with an exception or not.
LEMMA RoundIsSound ==
  ASSUME SignalAssumption, TypeOK, SpatInv,
         NEW dvs \in SetToSeqs({Listed(v) : v \in Dvs}), NEW lanes \in SetToSeqs(LanesWithEvs),
         NEW evs, \A lane \in LanesWithEvs : evs[lane] \in OrdersOfEvs(lane)
  PROVE  SoundRound(ScheduleVehicles(dvs, evs, lanes, spat, now).schedules, Lanes)
<1>1. PICK N \in Nat : /\ lanes \in [1 .. N -> LanesWithEvs] /\ Len(lanes) = N
                       /\ \A i, j \in 1 .. N : lanes[i] = lanes[j] => i = j
  <2>1. IsFiniteSet(LanesWithEvs)
    <3>1. LanesWithEvs \in SUBSET Lanes /\ IsFiniteSet(Lanes)
      BY DEF LanesWithEvs, SignalAssumption, RoutesAssumption
    <3> QED
      BY <3>1, FS_Subset
  <2> QED
    BY <2>1, ListOfSet
<1>f. PICK f : f = LaneByLane(dvs, evs, lanes, spat, now)
  OBVIOUS
<1>2. /\ ScheduleVehicles(dvs, evs, lanes, spat, now) = f[N]
      /\ f[0] = ScheduleDvs(dvs, now)
      /\ \A n \in 1 .. N : f[n] = ScheduleLane(f[n - 1], lanes[n], evs[lanes[n]], spat, now)
  <2>1. Len(lanes) \in Nat
    BY <1>1
  <2>2. /\ ScheduleVehicles(dvs, evs, lanes, spat, now) = f[Len(lanes)]
        /\ f[0] = ScheduleDvs(dvs, now)
        /\ \A n \in 1 .. Len(lanes) :
             f[n] = ScheduleLane(f[n - 1], lanes[n], evs[lanes[n]], spat, now)
    BY <1>f, <2>1, RoundRecursion
  <2> QED
    BY <1>1, <2>2
<1> DEFINE done(n) == {lanes[i] : i \in 1 .. n}
           I == {n \in 0 .. N : SoundRound(f[n].schedules, done(n))}
<1>3. 0 \in I
  <2>1. done(0) = {}
    OBVIOUS
  <2> HIDE DEF done
  <2>2. SoundRound(f[0].schedules, done(0))
    BY <1>2, <2>1, DvsAreSound
  <2> QED
    BY <1>1, <2>2
<1>4. ASSUME NEW n \in 1 .. N, n - 1 \in I PROVE n \in I
  <2> DEFINE lane == lanes[n]
             before == f[n - 1]
             events == MovementEvents(lane, spat)
  <2>1. lane \in LanesWithEvs
    BY <1>1
  <2>2. lane \notin done(n - 1)
    BY <1>1
  <2>3. done(n) = done(n - 1) \cup {lane}
    <3>1. \A i \in 1 .. n : i \in 1 .. n - 1 \/ i = n
      OBVIOUS
    <3>2. \A i \in 1 .. n - 1 : i \in 1 .. n
      OBVIOUS
    <3> QED
      BY <3>1, <3>2
  <2>4. SoundRound(before.schedules, done(n - 1))
    BY <1>4
  <2>5. f[n] = ScheduleLane(before, lane, evs[lane], spat, now)
    BY <1>2
  <2>6. evs[lane] \in OrdersOfEvs(lane)
    BY <2>1
  <2> HIDE DEF done, before, lane
  <2>7. CASE before.failed \/ events = Throws
    <3>1. f[n].schedules = before.schedules
      BY <2>5, <2>7 DEF ScheduleLane, Round
    <3>2. SoundRound(before.schedules, done(n))
      BY <2>3, <2>4, SoundForMore
    <3> QED
      BY <3>1, <3>2
  <2>8. CASE ~ (before.failed \/ events = Throws)
    <3>1. f[n].schedules
            = before.schedules \o LaneSchedule(lane, evs[lane], events, before.schedules, now)
      <4> DEFINE block == LaneSchedule(lane, evs[lane], events, before.schedules, now)
                 failed == Strangers(evs[lane]) # {}
      <4>1. f[n] = Round(before.schedules \o block, failed)
        BY <2>5, <2>8 DEF ScheduleLane
      <4> HIDE DEF block, failed
      <4>2. Round(before.schedules \o block, failed).schedules = before.schedules \o block
        BY DEF Round
      <4> QED
        BY <4>1, <4>2 DEF block
    <3>2. SoundRound(f[n].schedules, done(n))
      BY <2>1, <2>2, <2>3, <2>4, <2>6, <2>8, <3>1, LaneIsSound
    <3> QED
      BY <3>2
  <2> QED
    BY <2>7, <2>8
<1>5. N \in I
  <2> HIDE DEF I
  <2>1. N \in Nat /\ \A n \in 1 .. N : n - 1 \in I => n \in I
    BY <1>4
  <2> QED
    BY <1>3, <2>1, Climb
<1>6. done(N) \subseteq Lanes
  BY <1>1 DEF LanesWithEvs
<1> HIDE DEF done
<1> QED
  BY <1>2, <1>5, <1>6, SoundForMore

-----------------------------------------------------------------------------
(***************************************************************************)
(* The invariant holds.                                                    *)
(***************************************************************************)

\* The lesser of two numbers.
LEMMA MinOfTwo ==
  ASSUME NEW a \in Nat, NEW b \in Nat
  PROVE  Min({a, b}) \in {a, b} /\ Min({a, b}) \in Nat /\ Min({a, b}) <= a /\ Min({a, b}) <= b
<1> DEFINE S == {a, b}
<1>1. S \in SUBSET Nat /\ S # {}
  OBVIOUS
<1>2. Min(S) \in S /\ \A y \in S : Min(S) <= y
  BY <1>1, LeastElement
<1> QED
  BY <1>1, <1>2

\* At first no vehicle is scheduled, and none holds a time that it would act on.
LEMMA SignalInit == SignalAssumption /\ Init => SignalInv
<1> SUFFICES ASSUME SignalAssumption, Init PROVE SignalInv
  OBVIOUS
<1>1. MaxTime \in Nat /\ SpatAge \in Nat /\ ScheduleAge \in Nat
  BY NumbersType
<1>2. now = 0 /\ spatAt = 0 /\ scheduleAt = 0 /\ schedule = <<>> /\ spat = SpatAt(0)
  BY DEF Init
<1>3. schedule \in Seq(Scheduled) /\ DOMAIN schedule = {}
  BY <1>2
<1>4. TypeOK
  <2>1. Distance \in [Vehicles -> Nat]
    BY DEF SignalAssumption, RoutesAssumption, IntersectionAssumption
  <2>2. DOMAIN spat = Groups
    BY <1>2 DEF SpatAt
  <2> QED
    BY <1>1, <1>2, <1>3, <2>1, <2>2 DEF Init, TypeOK
<1>5. KeepsHeadway /\ ScheduleInv
  BY <1>3 DEF KeepsHeadway, ScheduleInv
<1>6. SpatInv
  BY <1>1, <1>2 DEF SpatInv
<1>7. HeldInv
  <2>1. Nothing \in [et : Nat, age : Nat] /\ ~ (Nothing.age <= ScheduleAge)
    BY <1>1 DEF Nothing
  <2> QED
    BY <2>1 DEF Init, HeldInv
<1>8. BoxInv
  BY DEF Init, BoxInv
<1> QED
  BY <1>4, <1>5, <1>6, <1>7, <1>8 DEF SignalInv

\* A new SPaT is of this moment.
LEMMA SignalConsumeSpat ==
  ASSUME SignalAssumption, SignalInv, ConsumeSpat PROVE SignalInv'
<1>1. MaxTime \in Nat /\ SpatAge \in Nat /\ now \in 0 .. MaxTime
  BY NumbersType DEF SignalInv, TypeOK
<1>2. /\ spat' = SpatAt(now) /\ spatAt' = now
      /\ UNCHANGED <<now, schedule, scheduleAt, stage, left, entered, held>>
  BY DEF ConsumeSpat, vehicleVars
<1>3. TypeOK'
  <2>1. DOMAIN spat' = Groups
    BY <1>2 DEF SpatAt
  <2> QED
    BY <1>1, <1>2, <2>1 DEF SignalInv, TypeOK
<1>4. SpatInv'
  BY <1>1, <1>2 DEF SpatInv
<1>5. KeepsHeadway' /\ ScheduleInv' /\ HeldInv' /\ BoxInv'
  BY <1>2 DEF SignalInv, KeepsHeadway, ScheduleInv, HeldInv, BoxInv
<1> QED
  BY <1>3, <1>4, <1>5 DEF SignalInv

\* A new schedule is that of a sound round.
LEMMA SignalSchedule ==
  ASSUME SignalAssumption, SignalInv, Schedule PROVE SignalInv'
<1>1. TypeOK /\ SpatInv
  BY DEF SignalInv
<1>2. PICK dvs \in SetToSeqs({Listed(v) : v \in Dvs}), lanes \in SetToSeqs(LanesWithEvs),
           evs \in [LanesWithEvs -> UNION {OrdersOfEvs(lane) : lane \in LanesWithEvs}] :
        /\ \A lane \in LanesWithEvs : evs[lane] \in OrdersOfEvs(lane)
        /\ schedule' = ScheduleVehicles(dvs, evs, lanes, spat, now).schedules
  BY DEF Schedule
<1>3. /\ scheduleAt' = now
      /\ UNCHANGED <<now, spat, spatAt, stage, left, entered, held>>
  BY DEF Schedule, vehicleVars
<1>4. SoundRound(schedule', Lanes)
  BY <1>1, <1>2, RoundIsSound
<1>5. now \in 0 .. MaxTime /\ MaxTime \in Nat
  BY NumbersType DEF SignalInv, TypeOK
<1>6. TypeOK'
  BY <1>1, <1>3, <1>4, <1>5 DEF TypeOK, SoundRound
<1>7. KeepsHeadway'
  BY <1>4 DEF KeepsHeadway, SoundRound
<1>8. ScheduleInv'
  BY <1>3, <1>4 DEF ScheduleInv, SoundRound
<1>9. SpatInv' /\ HeldInv' /\ BoxInv'
  BY <1>3 DEF SignalInv, SpatInv, HeldInv, BoxInv
<1> QED
  BY <1>6, <1>7, <1>8, <1>9 DEF SignalInv

\* A vehicle receives a time of the schedule, as old as this is.
LEMMA SignalReceive ==
  ASSUME SignalAssumption, SignalInv, NEW v \in Vehicles, Receive(v) PROVE SignalInv'
<1>1. PICK i \in DOMAIN schedule :
        /\ schedule[i].id = v /\ schedule[i].state = "EV"
        /\ held' = [held EXCEPT ![v] = [et |-> schedule[i].et, age |-> now - scheduleAt]]
  BY DEF Receive
<1>2. UNCHANGED <<now, spat, spatAt, schedule, scheduleAt, stage, left, entered>>
  BY DEF Receive, vehicleVars
<1>3. /\ MaxTime \in Nat /\ now \in 0 .. MaxTime /\ scheduleAt \in 0 .. now
      /\ schedule \in Seq(Scheduled) /\ held \in [Vehicles -> [et : Nat, age : Nat]]
  BY NumbersType DEF SignalInv, TypeOK, HeldInv
<1>4. TypeOK' /\ KeepsHeadway' /\ SpatInv' /\ ScheduleInv' /\ BoxInv'
  BY <1>2 DEF SignalInv, TypeOK, KeepsHeadway, SpatInv, ScheduleInv, BoxInv
<1>5. schedule[i].et \in Nat
  <2>1. schedule[i] \in Scheduled
    BY <1>3
  <2> QED
    BY <2>1 DEF Scheduled
<1>6. /\ now - scheduleAt \in Nat /\ now - scheduleAt <= now
      /\ now - (now - scheduleAt) = scheduleAt
  BY <1>3
<1>7. RightTime(Group(v), schedule[i].et, scheduleAt)
  BY <1>1 DEF SignalInv, ScheduleInv
<1>8. HeldInv'
  <2>1. held' \in [Vehicles -> [et : Nat, age : Nat]]
    BY <1>1, <1>3, <1>5, <1>6
  <2>2. ASSUME NEW w \in Vehicles, held'[w].age <= ScheduleAge
        PROVE  held'[w].age <= now /\ RightTime(Group(w), held'[w].et, now - held'[w].age)
    <3>1. CASE w = v
      <4>1. held'[w].et = schedule[i].et /\ held'[w].age = now - scheduleAt
        BY <1>1, <1>3, <3>1
      <4> QED
        BY <1>6, <1>7, <3>1, <4>1
    <3>2. CASE w # v
      <4>1. held'[w] = held[w]
        BY <1>1, <1>3, <3>2
      <4> QED
        BY <2>2, <4>1 DEF SignalInv, HeldInv
    <3> QED
      BY <3>1, <3>2
  <2> QED
    BY <1>2, <2>1, <2>2 DEF HeldInv
<1> QED
  BY <1>4, <1>8 DEF SignalInv

\* A vehicle that enters does so well within a green.
LEMMA EntersWellWithin ==
  ASSUME SignalAssumption, SignalInv, NEW v \in Vehicles, Enter(v)
  PROVE  WellWithin(Group(v), now)
<1>1. /\ held[v].age <= ScheduleAge /\ held[v].et - Ahead <= now /\ now <= held[v].et
  BY DEF Enter
<1>2. /\ held[v].age \in Nat /\ now \in Nat /\ ScheduleAge \in Nat
  <2>1. MaxTime \in Nat /\ now \in 0 .. MaxTime /\ ScheduleAge \in Nat
    BY NumbersType DEF SignalInv, TypeOK
  <2> QED
    BY <2>1 DEF SignalInv, HeldInv
<1>3. held[v].age <= now /\ RightTime(Group(v), held[v].et, now - held[v].age)
  BY <1>1 DEF SignalInv, HeldInv
<1>4. now \in now - held[v].age .. now - held[v].age + ScheduleAge
  BY <1>1, <1>2, <1>3
<1> QED
  BY <1>1, <1>3, <1>4 DEF RightTime

\* It has the box before it, and holds no time any more.
LEMMA SignalEnter ==
  ASSUME SignalAssumption, SignalInv, NEW v \in Vehicles, Enter(v) PROVE SignalInv'
<1>1. /\ stage' = [stage EXCEPT ![v] = "box"] /\ left' = [left EXCEPT ![v] = Clearance]
      /\ entered' = [entered EXCEPT ![v] = now] /\ held' = [held EXCEPT ![v] = Nothing]
      /\ UNCHANGED <<now, spat, spatAt, schedule, scheduleAt>>
  BY DEF Enter
<1>2. /\ MaxTime \in Nat /\ now \in 0 .. MaxTime /\ Clearance \in Nat /\ Clearance >= 1
      /\ ScheduleAge \in Nat
  BY NumbersType DEF SignalInv, TypeOK
<1>3. /\ stage \in [Vehicles -> {"lane", "box", "left"}]
      /\ left \in [Vehicles -> Nat] /\ entered \in [Vehicles -> Nat]
      /\ held \in [Vehicles -> [et : Nat, age : Nat]]
  BY DEF SignalInv, TypeOK, HeldInv
<1>4. TypeOK'
  <2>1. /\ stage' \in [Vehicles -> {"lane", "box", "left"}]
        /\ left' \in [Vehicles -> Nat] /\ entered' \in [Vehicles -> Nat]
    BY <1>1, <1>2, <1>3
  <2> QED
    BY <1>1, <2>1 DEF SignalInv, TypeOK
<1>5. KeepsHeadway' /\ SpatInv' /\ ScheduleInv'
  BY <1>1 DEF SignalInv, KeepsHeadway, SpatInv, ScheduleInv
<1>6. HeldInv'
  <2>1. Nothing \in [et : Nat, age : Nat] /\ ~ (Nothing.age <= ScheduleAge)
    BY <1>2 DEF Nothing
  <2>2. held' \in [Vehicles -> [et : Nat, age : Nat]]
    BY <1>1, <1>3, <2>1
  <2>3. ASSUME NEW w \in Vehicles, held'[w].age <= ScheduleAge
        PROVE  held'[w].age <= now /\ RightTime(Group(w), held'[w].et, now - held'[w].age)
    <3>1. w # v
      BY <1>1, <1>3, <2>1, <2>3
    <3>2. held'[w] = held[w]
      BY <1>1, <1>3, <3>1
    <3> QED
      BY <2>3, <3>2 DEF SignalInv, HeldInv
  <2> QED
    BY <1>1, <2>2, <2>3 DEF HeldInv
<1>7. BoxInv'
  <2> SUFFICES ASSUME NEW w \in Vehicles, stage'[w] = "box"
               PROVE  /\ left'[w] \in 1 .. Clearance
                      /\ entered'[w] + Clearance = now + left'[w]
                      /\ WellWithin(Group(w), entered'[w])
    BY <1>1 DEF BoxInv
  <2>1. CASE w = v
    <3>1. left'[w] = Clearance /\ entered'[w] = now
      BY <1>1, <1>3, <2>1
    <3>2. Clearance \in 1 .. Clearance
      BY <1>2
    <3> QED
      BY <2>1, <3>1, <3>2, EntersWellWithin
  <2>2. CASE w # v
    <3>1. stage'[w] = stage[w] /\ left'[w] = left[w] /\ entered'[w] = entered[w]
      BY <1>1, <1>3, <2>2
    <3> QED
      BY <3>1 DEF SignalInv, BoxInv
  <2> QED
    BY <2>1, <2>2
<1> QED
  BY <1>4, <1>5, <1>6, <1>7 DEF SignalInv

\* A tick makes what is known a tick older and moves the vehicles of the box on.
LEMMA SignalTick ==
  ASSUME SignalAssumption, SignalInv, Tick PROVE SignalInv'
<1>1. PICK moving \in SUBSET {v \in Vehicles : stage[v] = "lane" /\ left[v] > 0 /\ Free(v)} :
        left' = [v \in Vehicles |->
                   IF v \in moving \/ stage[v] = "box" THEN left[v] - 1 ELSE left[v]]
  BY DEF Tick
<1>2. /\ now < MaxTime /\ now - spatAt < SpatAge /\ now' = now + 1
      /\ stage' = [v \in Vehicles |->
                     IF stage[v] = "box" /\ left[v] <= 1 THEN "left" ELSE stage[v]]
      /\ held' = [v \in Vehicles |-> [held[v] EXCEPT !.age = Min({@ + 1, ScheduleAge + 1})]]
      /\ UNCHANGED <<spat, spatAt, schedule, scheduleAt, entered>>
  BY DEF Tick
<1>3. /\ MaxTime \in Nat /\ SpatAge \in Nat /\ ScheduleAge \in Nat /\ Clearance \in Nat
      /\ now \in 0 .. MaxTime /\ spatAt \in 0 .. now /\ scheduleAt \in 0 .. now
  BY NumbersType DEF SignalInv, TypeOK
<1>4. /\ stage \in [Vehicles -> {"lane", "box", "left"}]
      /\ left \in [Vehicles -> Nat] /\ entered \in [Vehicles -> Nat]
      /\ held \in [Vehicles -> [et : Nat, age : Nat]]
  BY DEF SignalInv, TypeOK, HeldInv
<1>5. \A v \in Vehicles :
        stage[v] = "box" =>
          /\ left[v] \in 1 .. Clearance /\ entered[v] + Clearance = now + left[v]
          /\ WellWithin(Group(v), entered[v])
  BY DEF SignalInv, BoxInv
<1>6. TypeOK'
  <2>1. stage' \in [Vehicles -> {"lane", "box", "left"}]
    BY <1>2, <1>4
  <2>2. \A v \in Vehicles : v \in moving => left[v] > 0
    OBVIOUS
  <2>3. ASSUME NEW v \in Vehicles PROVE left'[v] \in Nat
    <3>1. left[v] \in Nat /\ (stage[v] = "box" => left[v] \in 1 .. Clearance)
      BY <1>4, <1>5
    <3>2. left'[v] = IF v \in moving \/ stage[v] = "box" THEN left[v] - 1 ELSE left[v]
      BY <1>1
    <3> QED
      BY <1>3, <2>2, <3>1, <3>2
  <2>4. left' \in [Vehicles -> Nat]
    BY <1>1, <2>3
  <2>5. now' \in 0 .. MaxTime /\ spatAt' \in 0 .. now' /\ scheduleAt' \in 0 .. now'
    BY <1>2, <1>3
  <2> QED
    BY <1>2, <2>1, <2>4, <2>5 DEF SignalInv, TypeOK
<1>7. KeepsHeadway' /\ ScheduleInv'
  BY <1>2 DEF SignalInv, KeepsHeadway, ScheduleInv
<1>8. SpatInv'
  <2>1. now' - spatAt <= SpatAge
    BY <1>2, <1>3
  <2> QED
    BY <1>2, <2>1 DEF SignalInv, SpatInv
<1>9. HeldInv'
  <2>1. ASSUME NEW v \in Vehicles
        PROVE  /\ held'[v] \in [et : Nat, age : Nat]
               /\ held'[v].age <= ScheduleAge =>
                    held'[v].age <= now' /\ RightTime(Group(v), held'[v].et, now' - held'[v].age)
    <3> DEFINE age == held[v].age
               older == Min({age + 1, ScheduleAge + 1})
    <3>1. held[v] \in [et : Nat, age : Nat] /\ age \in Nat
      BY <1>4
    <3>2. /\ older \in {age + 1, ScheduleAge + 1} /\ older \in Nat
          /\ older <= age + 1 /\ older <= ScheduleAge + 1
      BY <1>3, <3>1, MinOfTwo
    <3> HIDE DEF older
    <3>3. held'[v] = [held[v] EXCEPT !.age = older]
      BY <1>2 DEF older
    <3>4. /\ held'[v] \in [et : Nat, age : Nat]
          /\ held'[v].et = held[v].et /\ held'[v].age = older
      BY <3>1, <3>2, <3>3
    <3>5. ASSUME older <= ScheduleAge
          PROVE  older <= now' /\ RightTime(Group(v), held[v].et, now' - older)
      <4>1. older = age + 1 /\ age <= ScheduleAge
        BY <1>3, <3>1, <3>2, <3>5
      <4>2. age <= now /\ RightTime(Group(v), held[v].et, now - age)
        BY <4>1 DEF SignalInv, HeldInv
      <4>3. older <= now' /\ now' - older = now - age
        BY <1>2, <1>3, <3>1, <4>1, <4>2
      <4> QED
        BY <4>2, <4>3
    <3> QED
      BY <3>4, <3>5
  <2>2. held' \in [Vehicles -> [et : Nat, age : Nat]]
    <3>1. DOMAIN held' = Vehicles /\ held' = [v \in Vehicles |-> held'[v]]
      BY <1>2
    <3> QED
      BY <2>1, <3>1
  <2> QED
    BY <2>1, <2>2 DEF HeldInv
<1>10. BoxInv'
  <2> SUFFICES ASSUME NEW v \in Vehicles, stage'[v] = "box"
               PROVE  /\ left'[v] \in 1 .. Clearance
                      /\ entered'[v] + Clearance = now' + left'[v]
                      /\ WellWithin(Group(v), entered'[v])
    BY DEF BoxInv
  <2>1. stage[v] = "box" /\ ~ (left[v] <= 1)
    BY <1>2
  <2>2. left'[v] = left[v] - 1
    BY <1>1, <2>1
  <2>3. /\ left[v] \in 1 .. Clearance /\ entered[v] + Clearance = now + left[v]
        /\ WellWithin(Group(v), entered[v]) /\ entered[v] \in Nat
    BY <1>4, <1>5, <2>1
  <2>4. left'[v] \in 1 .. Clearance
    BY <1>3, <2>1, <2>2, <2>3
  <2>5. entered[v] + Clearance = now' + left'[v]
    BY <1>2, <1>3, <2>2, <2>3
  <2> QED
    BY <1>2, <2>3, <2>4, <2>5
<1> QED
  BY <1>6, <1>7, <1>8, <1>9, <1>10 DEF SignalInv

\* Every step keeps the invariant.
LEMMA SignalStep == SignalAssumption /\ SignalInv /\ [Next]_vars => SignalInv'
<1> SUFFICES ASSUME SignalAssumption, SignalInv, [Next]_vars PROVE SignalInv'
  OBVIOUS
<1>1. CASE ConsumeSpat
  BY <1>1, SignalConsumeSpat
<1>2. CASE Schedule
  BY <1>2, SignalSchedule
<1>3. CASE Tick
  BY <1>3, SignalTick
<1>4. CASE \E v \in Vehicles : Receive(v) \/ Enter(v)
  BY <1>4, SignalReceive, SignalEnter
<1>5. CASE UNCHANGED vars
  <2>1. UNCHANGED <<now, spat, spatAt, schedule, scheduleAt, stage, left, entered, held>>
    BY <1>5 DEF vars, vehicleVars
  <2> QED
    BY <2>1 DEF SignalInv, TypeOK, KeepsHeadway, SpatInv, ScheduleInv, HeldInv, BoxInv
<1> QED
  BY <1>1, <1>2, <1>3, <1>4, <1>5 DEF Next

\* What the scheduler, its threads and the vehicles know and do is as SignalInv says: the
\* types of TypeOK, the headway in every schedule, and times that are right for as long as
\* a vehicle may act on them.
THEOREM SignalInvariance ==
  ASSUME SignalAssumption
  PROVE  Spec => []SignalInv
<1>1. Init => SignalInv
  BY SignalInit
<1>2. SignalInv /\ [Next]_vars => SignalInv'
  BY SignalStep
<1> QED
  BY <1>1, <1>2, PTL DEF Spec

-----------------------------------------------------------------------------
(***************************************************************************)
(* What it promises.                                                       *)
(***************************************************************************)

\* Vehicles that entered well within greens of two groups are not in the box together.
LEMMA BoxIsOfOneGroup == SignalAssumption /\ SignalInv => BoxOfOneGroup
<1> SUFFICES ASSUME SignalAssumption, SignalInv,
                    NEW v \in Vehicles, NEW w \in Vehicles, stage[v] = "box", stage[w] = "box",
                    Group(v) # Group(w)
             PROVE  FALSE
  BY DEF BoxOfOneGroup
<1> DEFINE g == Group(v)
           h == Group(w)
<1>1. /\ left[v] \in 1 .. Clearance /\ entered[v] + Clearance = now + left[v]
      /\ WellWithin(g, entered[v]) /\ entered[v] \in Nat
      /\ left[w] \in 1 .. Clearance /\ entered[w] + Clearance = now + left[w]
      /\ WellWithin(h, entered[w]) /\ entered[w] \in Nat
  BY DEF SignalInv, BoxInv, TypeOK
<1> HIDE DEF g, h
<1>2. g \in Groups /\ h \in Groups /\ g # h
  BY <1>1 DEF WellWithin, g, h
<1>3. PICK i \in DOMAIN Timeline[g] :
        /\ Timeline[g][i].state = "green"
        /\ FirstEntry(Timeline[g][i]) <= entered[v] /\ entered[v] <= LastEntry(Timeline[g][i])
  BY <1>1 DEF WellWithin
<1>4. PICK j \in DOMAIN Timeline[h] :
        /\ Timeline[h][j].state = "green"
        /\ FirstEntry(Timeline[h][j]) <= entered[w] /\ entered[w] <= LastEntry(Timeline[h][j])
  BY <1>1 DEF WellWithin
<1>5. \/ FirstEntry(Timeline[h][j]) >= LastEntry(Timeline[g][i]) + Clearance
      \/ FirstEntry(Timeline[g][i]) >= LastEntry(Timeline[h][j]) + Clearance
  BY <1>2, <1>3, <1>4 DEF SignalAssumption, ClearanceAssumption
<1> DEFINE a == Timeline[g][i]
           b == Timeline[h][j]
<1>6. a.start \in Nat /\ a.end \in Nat /\ b.start \in Nat /\ b.end \in Nat
  BY <1>2, TimelineType
<1>7. /\ Clearance \in Nat /\ InitialGreenBuffer \in Nat /\ FinalGreenBuffer \in Nat
      /\ Ahead \in Nat /\ TenthMs \in Nat
  BY NumbersType
<1> HIDE DEF a, b
<1>8. /\ FirstEntry(a) \in Int /\ LastEntry(a) \in Int
      /\ FirstEntry(b) \in Int /\ LastEntry(b) \in Int
  BY <1>6, <1>7 DEF FirstEntry, LastEntry
<1>9. now \in Nat
  <2>1. MaxTime \in Nat /\ now \in 0 .. MaxTime
    BY NumbersType DEF SignalInv, TypeOK
  <2> QED
    BY <2>1
<1>10. entered[v] < entered[w] + Clearance /\ entered[w] < entered[v] + Clearance
  <2> DEFINE ev == entered[v]
             ew == entered[w]
             lv == left[v]
             lw == left[w]
  <2>1. /\ lv \in 1 .. Clearance /\ ev + Clearance = now + lv /\ ev \in Nat
        /\ lw \in 1 .. Clearance /\ ew + Clearance = now + lw /\ ew \in Nat
    BY <1>1
  <2> HIDE DEF ev, ew, lv, lw
  <2>2. ev < ew + Clearance /\ ew < ev + Clearance
    BY <1>7, <1>9, <2>1
  <2> QED
    BY <2>2 DEF ev, ew
<1>11. CASE FirstEntry(b) >= LastEntry(a) + Clearance
  <2>1. entered[w] >= entered[v] + Clearance
    BY <1>1, <1>3, <1>4, <1>7, <1>8, <1>11 DEF a, b
  <2> QED
    BY <1>1, <1>7, <1>10, <2>1
<1>12. CASE FirstEntry(a) >= LastEntry(b) + Clearance
  <2>1. entered[v] >= entered[w] + Clearance
    BY <1>1, <1>3, <1>4, <1>7, <1>8, <1>12 DEF a, b
  <2> QED
    BY <1>1, <1>7, <1>10, <2>1
<1> QED
  BY <1>5, <1>11, <1>12 DEF a, b

\* The box belongs to one signal group at a time, and every schedule keeps the headway, as
\* old as the SPaT and the schedules may be.
THEOREM BoxStaysSafe ==
  ASSUME SignalAssumption
  PROVE  Spec => []BoxIsSafe
<1>1. SignalInv => BoxIsSafe
  BY BoxIsOfOneGroup DEF SignalInv, BoxIsSafe
<1> QED
  BY <1>1, SignalInvariance, PTL

\* Whoever enters on the time it was told, as old as it may be, enters on green.
LEMMA StepEntersOnGreen == SignalAssumption /\ SignalInv /\ [Next]_vars => EntryOnGreen
<1> SUFFICES ASSUME SignalAssumption, SignalInv, [Next]_vars,
                    NEW v \in Vehicles, stage'[v] = "box", stage[v] = "lane"
             PROVE  IsGreen(Group(v))
  BY DEF EntryOnGreen
<1>1. stage \in [Vehicles -> {"lane", "box", "left"}]
  BY DEF SignalInv, TypeOK
<1>2. CASE ConsumeSpat \/ Schedule \/ UNCHANGED vars
  BY <1>2 DEF ConsumeSpat, Schedule, vars, vehicleVars
<1>3. CASE Tick
  <2>1. stage'[v] = IF stage[v] = "box" /\ left[v] <= 1 THEN "left" ELSE stage[v]
    BY <1>3 DEF Tick
  <2> QED
    BY <2>1
<1>4. ASSUME NEW w \in Vehicles, Receive(w) PROVE FALSE
  BY <1>4 DEF Receive, vehicleVars
<1>5. ASSUME NEW w \in Vehicles, Enter(w) PROVE IsGreen(Group(v))
  <2>1. stage' = [stage EXCEPT ![w] = "box"]
    BY <1>5 DEF Enter
  <2>2. w = v
    BY <1>1, <2>1
  <2>3. WellWithin(Group(v), now)
    BY <1>5, <2>2, EntersWellWithin
  <2>4. Group(v) \in Groups /\ now \in 0 .. MaxTime
    <3>1. now \in 0 .. MaxTime
      BY DEF SignalInv, TypeOK
    <3> QED
      BY <2>3, <3>1 DEF WellWithin
  <2> QED
    BY <2>3, <2>4, GreenNow DEF IsGreen
<1> QED
  BY <1>2, <1>3, <1>4, <1>5 DEF Next

\* A vehicle that follows the schedules enters on green.
THEOREM FollowersEnterOnGreen ==
  ASSUME SignalAssumption
  PROVE  Spec => EntersOnGreen
<1>1. SignalInv /\ [Next]_vars => EntryOnGreen
  BY StepEntersOnGreen
<1> QED
  BY <1>1, SignalInvariance, PTL DEF Spec, EntersOnGreen

=============================================================================
