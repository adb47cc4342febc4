--------------------- MODULE AllStopIntersection_proofs ---------------------
(***************************************************************************)
(* The all-way stop as a whole is safe: of any number of vehicles that     *)
(* each come once, no two whose links conflict are in the box together,    *)
(* whatever updates are lost, doubled or late, as long as a listed vehicle *)
(* at the bar or in the box is heard in time.                              *)
(*                                                                         *)
(* First, what one round of the scheduler does with any list of vehicles:  *)
(* whom it lets in (theorem RoundLetsInSafely) and what it plans (theorem  *)
(* RoundKeepsThemApart), from the operators of AllStopScheduler, which are *)
(* recursive functions over the places of a sequence. Then the             *)
(* whole, by the invariant CrossingInv: a step around the schedule neither *)
(* lets anybody in nor makes the scheduler forget who was let in (Calm),   *)
(* and a pass of the scheduler is as RoundLetsInSafely says.               *)
(*                                                                         *)
(* Last, the list of vehicles by itself, at a signal too: it is never      *)
(* ahead of a vehicle and never goes back, by the invariant TrackInv.      *)
(***************************************************************************)
EXTENDS AllStopIntersection, FiniteSetTheorems, WellFoundedInduction, TLAPS

-----------------------------------------------------------------------------
(***************************************************************************)
(* Induction, and the least and greatest of a set of places.               *)
(***************************************************************************)

\* A set of natural numbers that is not empty has a least element.
LEMMA LeastElement ==
  ASSUME NEW S \in SUBSET Nat, S # {}
  PROVE  \E x \in S : \A y \in S : x <= y
<1> DEFINE Less == {ss \in Nat \X Nat : ss[1] < ss[2]}
<1>1. IsWellFoundedOn(Less, Nat)
  BY NatLessThanWellFounded DEF OpToRel
<1>2. PICK x \in S : \A y \in S : ~ (<<y, x>> \in Less)
  BY <1>1, WFMin
<1>3. \A y \in S : y < x => <<y, x>> \in Less
  OBVIOUS
<1>4. \A y \in S : y \in Nat /\ ~ (y < x)
  BY <1>2, <1>3
<1>5. \A y \in S : x <= y
  BY <1>4
<1> QED
  BY <1>5

\* Induction up to N, for a set in place of a predicate.
LEMMA Climb ==
  ASSUME NEW N \in Nat, NEW I, 0 \in I, \A n \in 1 .. N : n - 1 \in I => n \in I
  PROVE  N \in I
<1> SUFFICES ASSUME N \notin I PROVE FALSE
  OBVIOUS
<1> DEFINE Missed == {n \in 0 .. N : n \notin I}
<1>1. PICK n \in Missed : \A m \in Missed : n <= m
  <2>1. Missed \in SUBSET Nat /\ N \in Missed
    OBVIOUS
  <2> QED
    BY <2>1, LeastElement
<1>2. n \in 1 .. N /\ n - 1 \in 0 .. N /\ n - 1 \notin Missed
  BY <1>1
<1> QED
  BY <1>1, <1>2

\* The least of some places is one of them.
LEMMA MinIsOne ==
  ASSUME NEW S \in SUBSET Nat, S # {}
  PROVE  Min(S) \in S
BY LeastElement DEF Min

\* So is the greatest of some places of a list.
LEMMA MaxIsOne ==
  ASSUME NEW N \in Nat, NEW S \in SUBSET (1 .. N), S # {}
  PROVE  Max(S) \in S
<1> DEFINE FromTheEnd == {n \in Nat : n <= N /\ N - n \in S}
<1>1. FromTheEnd # {}
  <2>1. PICK x \in S : TRUE
    OBVIOUS
  <2>2. N - x \in FromTheEnd
    BY <2>1
  <2> QED
    BY <2>2
<1>2. PICK n \in FromTheEnd : \A m \in FromTheEnd : n <= m
  BY <1>1, LeastElement
<1>3. N - n \in S /\ \A y \in S : N - y \in FromTheEnd
  BY <1>2
<1>4. \A y \in S : N - n >= y
  BY <1>2, <1>3
<1> QED
  BY <1>3, <1>4 DEF Max

-----------------------------------------------------------------------------
(***************************************************************************)
(* Lists.                                                                  *)
(***************************************************************************)

\* What Append does to a list of any elements.
LEMMA AppendToList ==
  ASSUME NEW S, NEW list \in Seq(S), NEW x \in S
  PROVE  /\ Append(list, x) \in Seq(S)
         /\ Len(Append(list, x)) = Len(list) + 1
         /\ \A i \in 1 .. Len(list) : Append(list, x)[i] = list[i]
         /\ Append(list, x)[Len(list) + 1] = x
         /\ ToSet(Append(list, x)) = ToSet(list) \cup {x}
BY DEF ToSet

\* The equations of Kept.
LEMMA KeptRecursion ==
  ASSUME NEW list, Len(list) \in Nat, NEW places
  PROVE  \E f : /\ Kept(list, places) = f[Len(list)]
                /\ f[0] = <<>>
                /\ \A n \in 1 .. Len(list) : f[n] = IF n \in places THEN Append(f[n - 1], list[n]) ELSE f[n - 1]
<1> DEFINE N == Len(list)
           Body(n, before) == IF n \in places THEN Append(before, list[n]) ELSE before
           Solves(f, m) == f = [n \in 0 .. m |-> IF n = 0 THEN <<>> ELSE Body(n, f[n - 1])]
           Solved == {m \in Nat : \E f : Solves(f, m)}
           F == CHOOSE f : Solves(f, N)
<1>1. Kept(list, places) = F[N]
  BY DEF Kept
<1> HIDE DEF Body
<1>2. 0 \in Solved
  <2> DEFINE f == [n \in 0 .. 0 |-> <<>>]
  <2>1. Solves(f, 0)
    OBVIOUS
  <2> QED
    BY <2>1
<1>3. ASSUME NEW m \in 1 .. N, m - 1 \in Solved PROVE m \in Solved
  <2>1. PICK f : Solves(f, m - 1)
    BY <1>3
  <2> DEFINE g == [n \in 0 .. m |-> IF n = 0 THEN <<>> ELSE Body(n, f[n - 1])]
  <2>2. \A n \in 0 .. m - 1 : f[n] = IF n = 0 THEN <<>> ELSE Body(n, f[n - 1])
    BY <2>1
  <2>3. \A n \in 0 .. m - 1 : n \in 0 .. m
    OBVIOUS
  <2>4. \A n \in 0 .. m - 1 : g[n] = f[n]
    BY <2>2, <2>3
  <2>5. \A n \in 0 .. m : n # 0 => n - 1 \in 0 .. m - 1
    OBVIOUS
  <2>6. \A n \in 0 .. m : n # 0 => g[n - 1] = f[n - 1]
    BY <2>4, <2>5
  <2>7. \A n \in 0 .. m :
          g[n] = IF n = 0 THEN <<>> ELSE Body(n, g[n - 1])
    BY <2>6
  <2>8. g = [n \in 0 .. m |-> g[n]]
    OBVIOUS
  <2> HIDE DEF g
  <2>9. Solves(g, m)
    BY <2>7, <2>8
  <2> QED
    BY <2>9
<1>4. N \in Solved
  <2> HIDE DEF Solved
  <2>1. N \in Nat /\ \A m \in 1 .. N : m - 1 \in Solved => m \in Solved
    BY <1>3
  <2> HIDE DEF N
  <2> QED
    BY <1>2, <2>1, Climb
<1>5. Solves(F, N)
  BY <1>4
<1> HIDE DEF F
<1>6. F[0] = <<>> /\ \A n \in 1 .. N : F[n] = Body(n, F[n - 1])
  BY <1>5
<1> QED
  BY <1>1, <1>6 DEF Body

\* Kept keeps the elements at the places, and no other.
LEMMA KeptElements ==
  ASSUME NEW S, NEW list \in Seq(S), NEW places \in SUBSET DOMAIN list
  PROVE  /\ Kept(list, places) \in Seq(S)
         /\ ToSet(Kept(list, places)) = {list[i] : i \in places}
<1>1. PICK f : /\ Kept(list, places) = f[Len(list)]
               /\ f[0] = <<>>
               /\ \A n \in 1 .. Len(list) :
                    f[n] = IF n \in places THEN Append(f[n - 1], list[n]) ELSE f[n - 1]
  BY KeptRecursion
<1> DEFINE Chosen(n) == {list[i] : i \in places \cap 1 .. n}
           I == {n \in 0 .. Len(list) : f[n] \in Seq(S) /\ ToSet(f[n]) = Chosen(n)}
<1>2. 0 \in I
  <2>1. ToSet(<<>>) = {} /\ Chosen(0) = {} /\ <<>> \in Seq(S)
    BY DEF ToSet
  <2> HIDE DEF Chosen
  <2>2. f[0] = <<>> /\ 0 \in 0 .. Len(list)
    BY <1>1
  <2> QED
    BY <2>1, <2>2
<1>3. ASSUME NEW n \in 1 .. Len(list), n - 1 \in I PROVE n \in I
  <2>1. list[n] \in S
    OBVIOUS
  <2>2. n \in places => Chosen(n) = Chosen(n - 1) \cup {list[n]}
    OBVIOUS
  <2>3. n \notin places => Chosen(n) = Chosen(n - 1)
    OBVIOUS
  <2> HIDE DEF Chosen
  <2>4. f[n - 1] \in Seq(S) /\ ToSet(f[n - 1]) = Chosen(n - 1)
    BY <1>3
  <2>5. f[n] = IF n \in places THEN Append(f[n - 1], list[n]) ELSE f[n - 1]
    BY <1>1
  <2>6. CASE n \in places
    <3>1. f[n] \in Seq(S) /\ ToSet(f[n]) = ToSet(f[n - 1]) \cup {list[n]}
      BY <2>1, <2>4, <2>5, <2>6, AppendToList
    <3>2. ToSet(f[n]) = Chosen(n)
      BY <2>2, <2>4, <2>6, <3>1
    <3> QED
      BY <3>1, <3>2
  <2>7. CASE n \notin places
    BY <2>3, <2>4, <2>5, <2>7
  <2> QED
    BY <2>6, <2>7
<1>4. Len(list) \in I
  <2> HIDE DEF I
  <2>1. Len(list) \in Nat /\ \A n \in 1 .. Len(list) : n - 1 \in I => n \in I
    BY <1>3
  <2> QED
    BY <1>2, <2>1, Climb
<1>5. Chosen(Len(list)) = {list[i] : i \in places}
  OBVIOUS
<1> HIDE DEF Chosen
<1> QED
  BY <1>1, <1>4, <1>5

\* An element is put somewhere in the list, or behind it.
LEMMA PlaceIsInList ==
  ASSUME NEW S, NEW list \in Seq(S), NEW after \in SUBSET DOMAIN list
  PROVE  Place(list, after) \in 1 .. Len(list) + 1
<1>1. CASE after = {}
  BY <1>1 DEF Place
<1>2. CASE after # {}
  <2>1. Min(after) \in after
    BY <1>2, MinIsOne
  <2> QED
    BY <1>2, <2>1 DEF Place
<1> QED
  BY <1>1, <1>2

\* Inserting adds the element, wherever it goes.
LEMMA InsertedElements ==
  ASSUME NEW S, NEW list \in Seq(S), NEW x \in S, NEW p \in 1 .. Len(list) + 1
  PROVE  /\ InsertAt(list, p, x) \in Seq(S) /\ Len(InsertAt(list, p, x)) = Len(list) + 1
         /\ ToSet(InsertAt(list, p, x)) = ToSet(list) \cup {x}
<1> DEFINE head == SubSeq(list, 1, p - 1)
           tail == SubSeq(list, p, Len(list))
           new == head \o <<x>> \o tail
<1>1. InsertAt(list, p, x) = new
  BY DEF InsertAt
<1>2. p \in 1 .. Len(list) + 1
  OBVIOUS
<1>3. /\ head \in Seq(S) /\ Len(head) = p - 1
      /\ \A i \in 1 .. p - 1 : head[i] = list[i]
  BY <1>2
<1>4. /\ tail \in Seq(S) /\ Len(tail) = Len(list) - p + 1
      /\ \A i \in 1 .. Len(list) - p + 1 : tail[i] = list[p + i - 1]
  BY <1>2
<1> HIDE DEF head, tail
<1> DEFINE mid == head \o <<x>>
<1>5. /\ mid \in Seq(S) /\ Len(mid) = p
      /\ mid[p] = x /\ \A i \in 1 .. p - 1 : mid[i] = list[i]
  <2>1. <<x>> \in Seq(S) /\ Len(<<x>>) = 1 /\ <<x>>[1] = x
    OBVIOUS
  <2> DEFINE one == <<x>>
  <2> HIDE DEF one
  <2>2. /\ head \o one \in Seq(S) /\ Len(head \o one) = p
        /\ (head \o one)[p] = one[1]
        /\ \A i \in 1 .. p - 1 : (head \o one)[i] = head[i]
    BY <1>2, <1>3, <2>1 DEF one
  <2> QED
    BY <1>3, <2>1, <2>2 DEF one
<1> HIDE DEF mid
<1>6. /\ mid \o tail \in Seq(S) /\ Len(mid \o tail) = Len(list) + 1
      /\ \A i \in 1 .. p : (mid \o tail)[i] = mid[i]
      /\ \A i \in p + 1 .. Len(list) + 1 : (mid \o tail)[i] = tail[i - p]
  BY <1>2, <1>4, <1>5
<1>7. new = mid \o tail
  BY DEF mid
<1> HIDE DEF new
<1>8. new \in Seq(S) /\ Len(new) = Len(list) + 1 /\ new[p] = x
  BY <1>2, <1>5, <1>6, <1>7
<1>9. \A i \in 1 .. p - 1 : new[i] = list[i]
  BY <1>2, <1>5, <1>6, <1>7
<1>10. \A i \in p + 1 .. Len(list) + 1 : new[i] = list[i - 1]
  <2> SUFFICES ASSUME NEW i \in p + 1 .. Len(list) + 1 PROVE new[i] = list[i - 1]
    OBVIOUS
  <2>1. i - p \in 1 .. Len(list) - p + 1 /\ p + (i - p) - 1 = i - 1
    BY <1>2
  <2>2. new[i] = tail[i - p]
    BY <1>6, <1>7
  <2>3. tail[i - p] = list[p + (i - p) - 1]
    BY <1>4, <2>1
  <2> QED
    BY <2>1, <2>2, <2>3
<1>11. ToSet(new) \subseteq ToSet(list) \cup {x}
  <2> SUFFICES ASSUME NEW i \in 1 .. Len(list) + 1 PROVE new[i] \in ToSet(list) \cup {x}
    BY <1>8 DEF ToSet
  <2>1. CASE i < p
    <3>1. i \in 1 .. Len(list) /\ new[i] = list[i]
      BY <1>2, <1>9, <2>1
    <3> QED
      BY <3>1 DEF ToSet
  <2>2. CASE i = p
    BY <1>8, <2>2
  <2>3. CASE i > p
    <3>1. i - 1 \in 1 .. Len(list) /\ new[i] = list[i - 1]
      BY <1>2, <1>10, <2>3
    <3> QED
      BY <3>1 DEF ToSet
  <2> QED
    BY <1>2, <2>1, <2>2, <2>3
<1>12. ToSet(list) \subseteq ToSet(new)
  <2> SUFFICES ASSUME NEW i \in 1 .. Len(list) PROVE \E j \in 1 .. Len(list) + 1 : new[j] = list[i]
    BY <1>8 DEF ToSet
  <2>1. CASE i < p
    <3>1. i \in 1 .. Len(list) + 1 /\ new[i] = list[i]
      BY <1>2, <1>9, <2>1
    <3> QED
      BY <3>1
  <2>2. CASE i >= p
    <3>1. i + 1 \in p + 1 .. Len(list) + 1 /\ i + 1 \in 1 .. Len(list) + 1 /\ (i + 1) - 1 = i
      BY <1>2, <2>2
    <3> QED
      BY <1>10, <3>1
  <2> QED
    BY <1>2, <2>1, <2>2
<1>13. x \in ToSet(new)
  BY <1>2, <1>8 DEF ToSet
<1> QED
  BY <1>1, <1>8, <1>11, <1>12, <1>13

\* The sorts insert, each in its own order.
LEMMA InsertElements ==
  ASSUME NEW S, NEW list \in Seq(S), NEW x \in S
  PROVE  /\ InsertByPosition(list, x) \in Seq(S)
         /\ ToSet(InsertByPosition(list, x)) = ToSet(list) \cup {x}
<1> DEFINE p == Place(list, {i \in DOMAIN list : DeparturePositionBefore(x, list[i])})
<1>1. InsertByPosition(list, x) = InsertAt(list, p, x)
  BY DEF InsertByPosition
<1>2. p \in 1 .. Len(list) + 1
  BY PlaceIsInList
<1> HIDE DEF p
<1> QED
  BY <1>1, <1>2, InsertedElements

LEMMA InsertByDistanceIsList ==
  ASSUME NEW S, NEW list \in Seq(S), NEW x \in S
  PROVE  /\ InsertByDistance(list, x) \in Seq(S)
         /\ Len(InsertByDistance(list, x)) = Len(list) + 1
<1> DEFINE p == Place(list, {i \in DOMAIN list : DistanceBefore(x, list[i])})
<1>1. InsertByDistance(list, x) = InsertAt(list, p, x)
  BY DEF InsertByDistance
<1>2. p \in 1 .. Len(list) + 1
  BY PlaceIsInList
<1> HIDE DEF p
<1> QED
  BY <1>1, <1>2, InsertedElements

\* The equations of SortedByPosition.
LEMMA SortedRecursion ==
  ASSUME NEW list, Len(list) \in Nat
  PROVE  \E f : /\ SortedByPosition(list) = f[Len(list)]
                /\ f[0] = <<>>
                /\ \A n \in 1 .. Len(list) : f[n] = InsertByPosition(f[n - 1], list[n])
<1> DEFINE N == Len(list)
           Body(n, before) == InsertByPosition(before, list[n])
           Solves(f, m) == f = [n \in 0 .. m |-> IF n = 0 THEN <<>> ELSE Body(n, f[n - 1])]
           Solved == {m \in Nat : \E f : Solves(f, m)}
           F == CHOOSE f : Solves(f, N)
<1>1. SortedByPosition(list) = F[N]
  BY DEF SortedByPosition
<1> HIDE DEF Body
<1>2. 0 \in Solved
  <2> DEFINE f == [n \in 0 .. 0 |-> <<>>]
  <2>1. Solves(f, 0)
    OBVIOUS
  <2> QED
    BY <2>1
<1>3. ASSUME NEW m \in 1 .. N, m - 1 \in Solved PROVE m \in Solved
  <2>1. PICK f : Solves(f, m - 1)
    BY <1>3
  <2> DEFINE g == [n \in 0 .. m |-> IF n = 0 THEN <<>> ELSE Body(n, f[n - 1])]
  <2>2. \A n \in 0 .. m - 1 : f[n] = IF n = 0 THEN <<>> ELSE Body(n, f[n - 1])
    BY <2>1
  <2>3. \A n \in 0 .. m - 1 : n \in 0 .. m
    OBVIOUS
  <2>4. \A n \in 0 .. m - 1 : g[n] = f[n]
    BY <2>2, <2>3
  <2>5. \A n \in 0 .. m : n # 0 => n - 1 \in 0 .. m - 1
    OBVIOUS
  <2>6. \A n \in 0 .. m : n # 0 => g[n - 1] = f[n - 1]
    BY <2>4, <2>5
  <2>7. \A n \in 0 .. m :
          g[n] = IF n = 0 THEN <<>> ELSE Body(n, g[n - 1])
    BY <2>6
  <2>8. g = [n \in 0 .. m |-> g[n]]
    OBVIOUS
  <2> HIDE DEF g
  <2>9. Solves(g, m)
    BY <2>7, <2>8
  <2> QED
    BY <2>9
<1>4. N \in Solved
  <2> HIDE DEF Solved
  <2>1. N \in Nat /\ \A m \in 1 .. N : m - 1 \in Solved => m \in Solved
    BY <1>3
  <2> HIDE DEF N
  <2> QED
    BY <1>2, <2>1, Climb
<1>5. Solves(F, N)
  BY <1>4
<1> HIDE DEF F
<1>6. F[0] = <<>> /\ \A n \in 1 .. N : F[n] = Body(n, F[n - 1])
  BY <1>5
<1> QED
  BY <1>1, <1>6 DEF Body

\* Sorting by position loses and adds no element.
LEMMA SortedElements ==
  ASSUME NEW S, NEW list \in Seq(S)
  PROVE  /\ SortedByPosition(list) \in Seq(S)
         /\ ToSet(SortedByPosition(list)) = ToSet(list)
<1>1. PICK f : /\ SortedByPosition(list) = f[Len(list)]
               /\ f[0] = <<>>
               /\ \A n \in 1 .. Len(list) : f[n] = InsertByPosition(f[n - 1], list[n])
  BY SortedRecursion
<1> DEFINE First(n) == {list[i] : i \in 1 .. n}
           I == {n \in 0 .. Len(list) : f[n] \in Seq(S) /\ ToSet(f[n]) = First(n)}
<1>2. 0 \in I
  <2>1. ToSet(<<>>) = {} /\ First(0) = {} /\ <<>> \in Seq(S)
    BY DEF ToSet
  <2> HIDE DEF First
  <2>2. f[0] = <<>> /\ 0 \in 0 .. Len(list)
    BY <1>1
  <2> QED
    BY <2>1, <2>2
<1>3. ASSUME NEW n \in 1 .. Len(list), n - 1 \in I PROVE n \in I
  <2>1. list[n] \in S
    OBVIOUS
  <2>2. First(n) = First(n - 1) \cup {list[n]}
    OBVIOUS
  <2> HIDE DEF First
  <2>3. f[n - 1] \in Seq(S) /\ ToSet(f[n - 1]) = First(n - 1)
    BY <1>3
  <2>4. f[n] = InsertByPosition(f[n - 1], list[n])
    BY <1>1
  <2>5. f[n] \in Seq(S) /\ ToSet(f[n]) = First(n - 1) \cup {list[n]}
    BY <2>1, <2>3, <2>4, InsertElements
  <2>6. ToSet(f[n]) = First(n)
    BY <2>2, <2>5
  <2> QED
    BY <2>5, <2>6
<1>4. Len(list) \in I
  <2> HIDE DEF I
  <2>1. Len(list) \in Nat /\ \A n \in 1 .. Len(list) : n - 1 \in I => n \in I
    BY <1>3
  <2> QED
    BY <1>2, <2>1, Climb
<1>5. First(Len(list)) = ToSet(list)
  BY DEF ToSet
<1> HIDE DEF First
<1> QED
  BY <1>1, <1>4, <1>5

\* The equations of SortedByDistance.
LEMMA DistanceRecursion ==
  ASSUME NEW list, Len(list) \in Nat
  PROVE  \E f : /\ SortedByDistance(list) = f[Len(list)]
                /\ f[0] = <<>>
                /\ \A n \in 1 .. Len(list) : f[n] = InsertByDistance(f[n - 1], list[n])
<1> DEFINE N == Len(list)
           Body(n, before) == InsertByDistance(before, list[n])
           Solves(f, m) == f = [n \in 0 .. m |-> IF n = 0 THEN <<>> ELSE Body(n, f[n - 1])]
           Solved == {m \in Nat : \E f : Solves(f, m)}
           F == CHOOSE f : Solves(f, N)
<1>1. SortedByDistance(list) = F[N]
  BY DEF SortedByDistance
<1> HIDE DEF Body
<1>2. 0 \in Solved
  <2> DEFINE f == [n \in 0 .. 0 |-> <<>>]
  <2>1. Solves(f, 0)
    OBVIOUS
  <2> QED
    BY <2>1
<1>3. ASSUME NEW m \in 1 .. N, m - 1 \in Solved PROVE m \in Solved
  <2>1. PICK f : Solves(f, m - 1)
    BY <1>3
  <2> DEFINE g == [n \in 0 .. m |-> IF n = 0 THEN <<>> ELSE Body(n, f[n - 1])]
  <2>2. \A n \in 0 .. m - 1 : f[n] = IF n = 0 THEN <<>> ELSE Body(n, f[n - 1])
    BY <2>1
  <2>3. \A n \in 0 .. m - 1 : n \in 0 .. m
    OBVIOUS
  <2>4. \A n \in 0 .. m - 1 : g[n] = f[n]
    BY <2>2, <2>3
  <2>5. \A n \in 0 .. m : n # 0 => n - 1 \in 0 .. m - 1
    OBVIOUS
  <2>6. \A n \in 0 .. m : n # 0 => g[n - 1] = f[n - 1]
    BY <2>4, <2>5
  <2>7. \A n \in 0 .. m :
          g[n] = IF n = 0 THEN <<>> ELSE Body(n, g[n - 1])
    BY <2>6
  <2>8. g = [n \in 0 .. m |-> g[n]]
    OBVIOUS
  <2> HIDE DEF g
  <2>9. Solves(g, m)
    BY <2>7, <2>8
  <2> QED
    BY <2>9
<1>4. N \in Solved
  <2> HIDE DEF Solved
  <2>1. N \in Nat /\ \A m \in 1 .. N : m - 1 \in Solved => m \in Solved
    BY <1>3
  <2> HIDE DEF N
  <2> QED
    BY <1>2, <2>1, Climb
<1>5. Solves(F, N)
  BY <1>4
<1> HIDE DEF F
<1>6. F[0] = <<>> /\ \A n \in 1 .. N : F[n] = Body(n, F[n - 1])
  BY <1>5
<1> QED
  BY <1>1, <1>6 DEF Body

\* Sorting by distance makes a list that is as long.
LEMMA SortedByDistanceIsList ==
  ASSUME NEW S, NEW list \in Seq(S)
  PROVE  SortedByDistance(list) \in Seq(S) /\ Len(SortedByDistance(list)) = Len(list)
<1>1. PICK f : /\ SortedByDistance(list) = f[Len(list)]
               /\ f[0] = <<>>
               /\ \A n \in 1 .. Len(list) : f[n] = InsertByDistance(f[n - 1], list[n])
  BY DistanceRecursion
<1> DEFINE I == {n \in 0 .. Len(list) : f[n] \in Seq(S) /\ Len(f[n]) = n}
<1>2. 0 \in I
  <2>1. <<>> \in Seq(S) /\ Len(<<>>) = 0 /\ 0 \in 0 .. Len(list)
    OBVIOUS
  <2> QED
    BY <1>1, <2>1
<1>3. ASSUME NEW n \in 1 .. Len(list), n - 1 \in I PROVE n \in I
  <2>1. list[n] \in S /\ f[n - 1] \in Seq(S) /\ Len(f[n - 1]) = n - 1
    BY <1>3
  <2>2. f[n] = InsertByDistance(f[n - 1], list[n])
    BY <1>1
  <2> DEFINE before == f[n - 1]
             x == list[n]
  <2>3. before \in Seq(S) /\ x \in S /\ Len(before) = n - 1 /\ f[n] = InsertByDistance(before, x)
    BY <2>1, <2>2
  <2> HIDE DEF before, x
  <2>4. f[n] \in Seq(S) /\ Len(f[n]) = Len(before) + 1
    BY <2>3, InsertByDistanceIsList
  <2> QED
    BY <2>3, <2>4
<1>4. Len(list) \in I
  <2> HIDE DEF I
  <2>1. Len(list) \in Nat /\ \A n \in 1 .. Len(list) : n - 1 \in I => n \in I
    BY <1>3
  <2> QED
    BY <1>2, <2>1, Climb
<1> QED
  BY <1>1, <1>4

\* The next permutation is a list of the same elements, or << >>.
LEMMA NextPermutationElements ==
  ASSUME NEW S, NEW list \in Seq(S)
  PROVE  NextPermutation(list) \in Seq(S)
<1> DEFINE rises == {i \in 1 .. Len(list) - 1 : DeparturePositionBefore(list[i], list[i + 1])}
           i == Max(rises)
           behind == {k \in i + 1 .. Len(list) : DeparturePositionBefore(list[i], list[k])}
           j == Max(behind)
           swapped == [list EXCEPT ![i] = list[j], ![j] = list[i]]
           head == SubSeq(swapped, 1, i)
           tail == SubSeq(swapped, i + 1, Len(list))
<1>1. CASE rises = {}
  BY <1>1 DEF NextPermutation
<1>2. CASE rises # {}
  <2>1. rises \subseteq 1 .. Len(list)
    OBVIOUS
  <2>2. i \in rises
    <3>1. Len(list) \in Nat /\ rises \in SUBSET (1 .. Len(list))
      BY <2>1
    <3> HIDE DEF rises
    <3> QED
      BY <1>2, <3>1, MaxIsOne
  <2>3. i \in 1 .. Len(list) - 1 /\ DeparturePositionBefore(list[i], list[i + 1])
    BY <2>2
  <2>4. NextPermutation(list) = head \o Reverse(tail)
    BY <1>2 DEF NextPermutation
  <2> HIDE DEF i
  <2>5. i + 1 \in behind /\ behind \subseteq 1 .. Len(list)
    BY <2>3
  <2>6. j \in 1 .. Len(list)
    <3>1. Len(list) \in Nat /\ behind \in SUBSET (1 .. Len(list)) /\ behind # {}
      BY <2>5
    <3> HIDE DEF behind
    <3>2. j \in behind
      BY <3>1, MaxIsOne
    <3> QED
      BY <3>1, <3>2
  <2> HIDE DEF j
  <2>7. swapped \in Seq(S) /\ Len(swapped) = Len(list)
    BY <2>3, <2>6
  <2> HIDE DEF swapped
  <2>8. head \in Seq(S) /\ tail \in Seq(S)
    BY <2>3, <2>7
  <2> HIDE DEF head, tail
  <2>9. Reverse(tail) \in Seq(S)
    BY <2>8 DEF Reverse
  <2> QED
    BY <2>4, <2>8, <2>9
<1> QED
  BY <1>1, <1>2

\* The equations of Factorial.
LEMMA FactorialRecursion ==
  ASSUME NEW number \in Nat
  PROVE  \E f : /\ Factorial(number) = f[number]
                /\ f[0] = 1
                /\ \A n \in 1 .. number : f[n] = n * f[n - 1]
<1> DEFINE N == number
           Body(n, before) == n * before
           Solves(f, m) == f = [n \in 0 .. m |-> IF n = 0 THEN 1 ELSE Body(n, f[n - 1])]
           Solved == {m \in Nat : \E f : Solves(f, m)}
           F == CHOOSE f : Solves(f, N)
<1>1. Factorial(number) = F[N]
  BY DEF Factorial
<1> HIDE DEF Body
<1>2. 0 \in Solved
  <2> DEFINE f == [n \in 0 .. 0 |-> 1]
  <2>1. Solves(f, 0)
    OBVIOUS
  <2> QED
    BY <2>1
<1>3. ASSUME NEW m \in 1 .. N, m - 1 \in Solved PROVE m \in Solved
  <2>1. PICK f : Solves(f, m - 1)
    BY <1>3
  <2> DEFINE g == [n \in 0 .. m |-> IF n = 0 THEN 1 ELSE Body(n, f[n - 1])]
  <2>2. \A n \in 0 .. m - 1 : f[n] = IF n = 0 THEN 1 ELSE Body(n, f[n - 1])
    BY <2>1
  <2>3. \A n \in 0 .. m - 1 : n \in 0 .. m
    OBVIOUS
  <2>4. \A n \in 0 .. m - 1 : g[n] = f[n]
    BY <2>2, <2>3
  <2>5. \A n \in 0 .. m : n # 0 => n - 1 \in 0 .. m - 1
    OBVIOUS
  <2>6. \A n \in 0 .. m : n # 0 => g[n - 1] = f[n - 1]
    BY <2>4, <2>5
  <2>7. \A n \in 0 .. m :
          g[n] = IF n = 0 THEN 1 ELSE Body(n, g[n - 1])
    BY <2>6
  <2>8. g = [n \in 0 .. m |-> g[n]]
    OBVIOUS
  <2> HIDE DEF g
  <2>9. Solves(g, m)
    BY <2>7, <2>8
  <2> QED
    BY <2>9
<1>4. N \in Solved
  <2> HIDE DEF Solved
  <2>1. N \in Nat /\ \A m \in 1 .. N : m - 1 \in Solved => m \in Solved
    BY <1>3
  <2> HIDE DEF N
  <2> QED
    BY <1>2, <2>1, Climb
<1>5. Solves(F, N)
  BY <1>4
<1> HIDE DEF F
<1>6. F[0] = 1 /\ \A n \in 1 .. N : F[n] = Body(n, F[n - 1])
  BY <1>5
<1> QED
  BY <1>1, <1>6 DEF Body

\* A factorial is a positive number.
LEMMA FactorialIsPositive ==
  ASSUME NEW number \in Nat
  PROVE  Factorial(number) \in Nat \ {0}
<1>1. PICK f : /\ Factorial(number) = f[number]
               /\ f[0] = 1
               /\ \A n \in 1 .. number : f[n] = n * f[n - 1]
  BY FactorialRecursion
<1> DEFINE I == {n \in 0 .. number : f[n] \in Nat \ {0}}
<1>2. 0 \in I
  BY <1>1
<1>3. ASSUME NEW n \in 1 .. number, n - 1 \in I PROVE n \in I
  <2>1. \A x, y \in Nat \ {0} : x * y \in Nat \ {0}
    OBVIOUS
  <2> QED
    BY <1>1, <1>3, <2>1
<1>4. number \in I
  <2> HIDE DEF I
  <2>1. \A n \in 1 .. number : n - 1 \in I => n \in I
    BY <1>3
  <2> QED
    BY <1>2, <2>1, Climb
<1> QED
  BY <1>1, <1>4

\* The equations of DepartureOrders.
LEMMA OrdersRecursion ==
  ASSUME NEW list, Factorial(Len(list)) - 1 \in Nat
  PROVE  \E f : /\ DepartureOrders(list) = f[Factorial(Len(list)) - 1]
                /\ f[0] = <<list>>
                /\ \A n \in 1 .. Factorial(Len(list)) - 1 : f[n] = IF NextPermutation(Last(f[n - 1])) = <<>> THEN f[n - 1] ELSE Append(f[n - 1], NextPermutation(Last(f[n - 1])))
<1> DEFINE N == Factorial(Len(list)) - 1
           Body(n, before) == IF NextPermutation(Last(before)) = <<>> THEN before ELSE Append(before, NextPermutation(Last(before)))
           Solves(f, m) == f = [n \in 0 .. m |-> IF n = 0 THEN <<list>> ELSE Body(n, f[n - 1])]
           Solved == {m \in Nat : \E f : Solves(f, m)}
           F == CHOOSE f : Solves(f, N)
<1>1. DepartureOrders(list) = F[N]
  BY DEF DepartureOrders
<1> HIDE DEF Body
<1>2. 0 \in Solved
  <2> DEFINE f == [n \in 0 .. 0 |-> <<list>>]
  <2>1. Solves(f, 0)
    OBVIOUS
  <2> QED
    BY <2>1
<1>3. ASSUME NEW m \in 1 .. N, m - 1 \in Solved PROVE m \in Solved
  <2>1. PICK f : Solves(f, m - 1)
    BY <1>3
  <2> DEFINE g == [n \in 0 .. m |-> IF n = 0 THEN <<list>> ELSE Body(n, f[n - 1])]
  <2>2. \A n \in 0 .. m - 1 : f[n] = IF n = 0 THEN <<list>> ELSE Body(n, f[n - 1])
    BY <2>1
  <2>3. \A n \in 0 .. m - 1 : n \in 0 .. m
    OBVIOUS
  <2>4. \A n \in 0 .. m - 1 : g[n] = f[n]
    BY <2>2, <2>3
  <2>5. \A n \in 0 .. m : n # 0 => n - 1 \in 0 .. m - 1
    OBVIOUS
  <2>6. \A n \in 0 .. m : n # 0 => g[n - 1] = f[n - 1]
    BY <2>4, <2>5
  <2>7. \A n \in 0 .. m :
          g[n] = IF n = 0 THEN <<list>> ELSE Body(n, g[n - 1])
    BY <2>6
  <2>8. g = [n \in 0 .. m |-> g[n]]
    OBVIOUS
  <2> HIDE DEF g
  <2>9. Solves(g, m)
    BY <2>7, <2>8
  <2> QED
    BY <2>9
<1>4. N \in Solved
  <2> HIDE DEF Solved
  <2>1. N \in Nat /\ \A m \in 1 .. N : m - 1 \in Solved => m \in Solved
    BY <1>3
  <2> HIDE DEF N
  <2> QED
    BY <1>2, <2>1, Climb
<1>5. Solves(F, N)
  BY <1>4
<1> HIDE DEF F
<1>6. F[0] = <<list>> /\ \A n \in 1 .. N : F[n] = Body(n, F[n - 1])
  BY <1>5
<1> QED
  BY <1>1, <1>6 DEF Body

\* The departure orders are lists of the given vehicles.
LEMMA OrdersElements ==
  ASSUME NEW S, NEW list \in Seq(S)
  PROVE  DepartureOrders(list) \in Seq(Seq(S))
<1> DEFINE N == Factorial(Len(list)) - 1
<1>1. N \in Nat
  <2>1. Len(list) \in Nat
    OBVIOUS
  <2> QED
    BY <2>1, FactorialIsPositive
<1>2. PICK f : /\ DepartureOrders(list) = f[N]
               /\ f[0] = <<list>>
               /\ \A n \in 1 .. N :
                    f[n] = IF NextPermutation(Last(f[n - 1])) = <<>> THEN f[n - 1]
                           ELSE Append(f[n - 1], NextPermutation(Last(f[n - 1])))
  BY <1>1, OrdersRecursion
<1> HIDE DEF N
<1> DEFINE I == {n \in 0 .. N : f[n] \in Seq(Seq(S)) /\ f[n] # <<>>}
<1>3. 0 \in I
  <2>1. f[0] = <<list>> /\ <<list>> \in Seq(Seq(S)) /\ <<list>> # <<>> /\ 0 \in 0 .. N
    BY <1>1, <1>2
  <2> QED
    BY <2>1
<1>4. ASSUME NEW n \in 1 .. N, n - 1 \in I PROVE n \in I
  <2>1. f[n - 1] \in Seq(Seq(S)) /\ f[n - 1] # <<>>
    BY <1>4
  <2>2. Last(f[n - 1]) \in Seq(S)
    BY <2>1 DEF Last
  <2> DEFINE next == NextPermutation(Last(f[n - 1]))
  <2>3. next \in Seq(S)
    BY <2>2, NextPermutationElements
  <2>4. f[n] = IF next = <<>> THEN f[n - 1] ELSE Append(f[n - 1], next)
    BY <1>2
  <2> HIDE DEF next
  <2>5. CASE next = <<>>
    BY <2>1, <2>4, <2>5
  <2>6. CASE next # <<>>
    <3>1. f[n] \in Seq(Seq(S)) /\ Len(f[n]) = Len(f[n - 1]) + 1 /\ Len(f[n - 1]) \in Nat
      BY <2>1, <2>3, <2>4, <2>6, AppendToList
    <3>2. f[n] # <<>>
      BY <3>1
    <3> QED
      BY <3>1, <3>2
  <2> QED
    BY <2>5, <2>6
<1>5. N \in I
  <2> HIDE DEF I
  <2>1. \A n \in 1 .. N : n - 1 \in I => n \in I
    BY <1>4
  <2> QED
    BY <1>1, <1>3, <2>1, Climb
<1> QED
  BY <1>2, <1>5

-----------------------------------------------------------------------------
(***************************************************************************)
(* Schedules. Of their entries only the id, the link and the access count. *)
(***************************************************************************)

\* A sequence, of whatever elements.
IsList(list) == list \in Seq(ToSet(list))

\* What Append does to a list whose elements are of any kind.
LEMMA AppendToAny ==
  ASSUME NEW list, IsList(list), NEW x
  PROVE  /\ IsList(Append(list, x))
         /\ Len(list) \in Nat /\ DOMAIN list = 1 .. Len(list)
         /\ Len(Append(list, x)) = Len(list) + 1
         /\ \A i \in 1 .. Len(list) : Append(list, x)[i] = list[i]
         /\ Append(list, x)[Len(list) + 1] = x
<1> DEFINE S == ToSet(list) \cup {x}
<1>1. list \in Seq(ToSet(list)) /\ ToSet(list) \subseteq S /\ x \in S
  BY DEF IsList
<1> HIDE DEF S
<1>2. list \in Seq(S)
  BY <1>1
<1>3. Append(list, x) \in Seq(S) /\ ToSet(Append(list, x)) = ToSet(list) \cup {x}
  BY <1>1, <1>2, AppendToList
<1>4. IsList(Append(list, x))
  BY <1>3 DEF IsList, S
<1> QED
  BY <1>1, <1>2, <1>4, AppendToList

\* The entries that a round adds to a schedule for vehicles of S: who gets access does
\* not conflict with anybody that is scheduled before.
Continues(list, scheduled, S) ==
  /\ IsList(list) /\ Len(scheduled) <= Len(list)
  /\ \A i \in 1 .. Len(scheduled) : list[i] = scheduled[i]
  /\ \A k \in Len(scheduled) + 1 .. Len(list) : \E veh \in S :
       /\ list[k].id = veh.id /\ list[k].link = veh.link /\ list[k].access \in BOOLEAN
       /\ list[k].access => \A i \in 1 .. k - 1 : list[i].link \notin Conflicting[veh.link]

\* A stopped vehicle gets access only if it conflicts with nobody before it.
LEMMA ConsideredRdv ==
  ASSUME NEW option, NEW veh, NEW now
  PROVE  \E s : /\ ConsiderRdv(option, veh, now) = Append(option, s)
                /\ s.id = veh.id /\ s.link = veh.link /\ s.access \in BOOLEAN
                /\ s.access =>
                     \A i \in DOMAIN option : option[i].link \notin Conflicting[veh.link]
<1> DEFINE latest == LatestConflicting(veh.link, option)
           waits == Entry(veh, "RDV", veh.st, veh.st, Max({latest[1].dt, Last(option).et}),
                          NextPosition(option), FALSE)
           enters == Entry(veh, "DV", veh.st, veh.st, now, NextPosition(option), TRUE)
           holds == Entry(veh, "RDV", veh.st, veh.st, Last(option).et,
                          NextPosition(option), FALSE)
           s == CASE latest # <<>> -> waits
                  [] latest = <<>> /\ (option = <<>> \/ Last(option).access) -> enters
                  [] OTHER -> holds
<1>1. ConsiderRdv(option, veh, now) = Append(option, s)
  BY DEF ConsiderRdv
<1>2. /\ waits.id = veh.id /\ waits.link = veh.link /\ waits.access = FALSE
      /\ enters.id = veh.id /\ enters.link = veh.link /\ enters.access = TRUE
      /\ holds.id = veh.id /\ holds.link = veh.link /\ holds.access = FALSE
  BY DEF Entry
<1>3. latest = <<>> => \A i \in DOMAIN option : option[i].link \notin Conflicting[veh.link]
  BY DEF LatestConflicting
<1> HIDE DEF latest, waits, enters, holds
<1>4. s = waits \/ (s = enters /\ latest = <<>>) \/ s = holds
  OBVIOUS
<1> HIDE DEF s
<1>5. s.id = veh.id /\ s.link = veh.link /\ s.access \in BOOLEAN
  BY <1>2, <1>4
<1>6. s.access => \A i \in DOMAIN option : option[i].link \notin Conflicting[veh.link]
  BY <1>2, <1>3, <1>4
<1> QED
  BY <1>1, <1>5, <1>6

\* The equations of Option.
LEMMA OptionRecursion ==
  ASSUME NEW order, Len(order) \in Nat, NEW scheduled, NEW now
  PROVE  \E f : /\ Option(order, scheduled, now) = f[Len(order)]
                /\ f[0] = scheduled
                /\ \A n \in 1 .. Len(order) : f[n] = ConsiderRdv(f[n - 1], order[n], now)
<1> DEFINE N == Len(order)
           Body(n, before) == ConsiderRdv(before, order[n], now)
           Solves(f, m) == f = [n \in 0 .. m |-> IF n = 0 THEN scheduled ELSE Body(n, f[n - 1])]
           Solved == {m \in Nat : \E f : Solves(f, m)}
           F == CHOOSE f : Solves(f, N)
<1>1. Option(order, scheduled, now) = F[N]
  BY DEF Option
<1> HIDE DEF Body
<1>2. 0 \in Solved
  <2> DEFINE f == [n \in 0 .. 0 |-> scheduled]
  <2>1. Solves(f, 0)
    OBVIOUS
  <2> QED
    BY <2>1
<1>3. ASSUME NEW m \in 1 .. N, m - 1 \in Solved PROVE m \in Solved
  <2>1. PICK f : Solves(f, m - 1)
    BY <1>3
  <2> DEFINE g == [n \in 0 .. m |-> IF n = 0 THEN scheduled ELSE Body(n, f[n - 1])]
  <2>2. \A n \in 0 .. m - 1 : f[n] = IF n = 0 THEN scheduled ELSE Body(n, f[n - 1])
    BY <2>1
  <2>3. \A n \in 0 .. m - 1 : n \in 0 .. m
    OBVIOUS
  <2>4. \A n \in 0 .. m - 1 : g[n] = f[n]
    BY <2>2, <2>3
  <2>5. \A n \in 0 .. m : n # 0 => n - 1 \in 0 .. m - 1
    OBVIOUS
  <2>6. \A n \in 0 .. m : n # 0 => g[n - 1] = f[n - 1]
    BY <2>4, <2>5
  <2>7. \A n \in 0 .. m :
          g[n] = IF n = 0 THEN scheduled ELSE Body(n, g[n - 1])
    BY <2>6
  <2>8. g = [n \in 0 .. m |-> g[n]]
    OBVIOUS
  <2> HIDE DEF g
  <2>9. Solves(g, m)
    BY <2>7, <2>8
  <2> QED
    BY <2>9
<1>4. N \in Solved
  <2> HIDE DEF Solved
  <2>1. N \in Nat /\ \A m \in 1 .. N : m - 1 \in Solved => m \in Solved
    BY <1>3
  <2> HIDE DEF N
  <2> QED
    BY <1>2, <2>1, Climb
<1>5. Solves(F, N)
  BY <1>4
<1> HIDE DEF F
<1>6. F[0] = scheduled /\ \A n \in 1 .. N : F[n] = Body(n, F[n - 1])
  BY <1>5
<1> QED
  BY <1>1, <1>6 DEF Body

\* An option continues the schedule for the vehicles that it orders.
LEMMA OptionContinues ==
  ASSUME NEW S, NEW order \in Seq(S), NEW scheduled, IsList(scheduled), NEW now
  PROVE  Continues(Option(order, scheduled, now), scheduled, S)
<1>1. PICK f : /\ Option(order, scheduled, now) = f[Len(order)]
               /\ f[0] = scheduled
               /\ \A n \in 1 .. Len(order) : f[n] = ConsiderRdv(f[n - 1], order[n], now)
  <2>1. Len(order) \in Nat
    OBVIOUS
  <2> QED
    BY <2>1, OptionRecursion
<1>2. Len(scheduled) \in Nat
  BY DEF IsList
<1> DEFINE I == {n \in 0 .. Len(order) : Continues(f[n], scheduled, S)}
<1>3. 0 \in I
  BY <1>1, <1>2 DEF Continues
<1>4. ASSUME NEW n \in 1 .. Len(order), n - 1 \in I PROVE n \in I
  <2> DEFINE o == f[n - 1]
             veh == order[n]
  <2>1. Continues(o, scheduled, S) /\ veh \in S
    BY <1>4
  <2>2. f[n] = ConsiderRdv(o, veh, now)
    BY <1>1
  <2> HIDE DEF o, veh
  <2>3. PICK s : /\ f[n] = Append(o, s)
                 /\ s.id = veh.id /\ s.link = veh.link /\ s.access \in BOOLEAN
                 /\ s.access => \A i \in DOMAIN o : o[i].link \notin Conflicting[veh.link]
    BY <2>2, ConsideredRdv
  <2>4. /\ IsList(f[n]) /\ Len(o) \in Nat /\ DOMAIN o = 1 .. Len(o)
        /\ Len(f[n]) = Len(o) + 1
        /\ \A i \in 1 .. Len(o) : f[n][i] = o[i]
        /\ f[n][Len(o) + 1] = s
    BY <2>1, <2>3, AppendToAny DEF Continues
  <2>5. Len(scheduled) <= Len(f[n]) /\ \A i \in 1 .. Len(scheduled) : f[n][i] = scheduled[i]
    BY <1>2, <2>1, <2>4 DEF Continues
  <2>6. ASSUME NEW k \in Len(scheduled) + 1 .. Len(f[n])
        PROVE  \E v \in S :
                 /\ f[n][k].id = v.id /\ f[n][k].link = v.link /\ f[n][k].access \in BOOLEAN
                 /\ f[n][k].access =>
                      \A i \in 1 .. k - 1 : f[n][i].link \notin Conflicting[v.link]
    <3>1. CASE k <= Len(o)
      <4>1. k \in Len(scheduled) + 1 .. Len(o) /\ f[n][k] = o[k]
        BY <1>2, <2>4, <3>1
      <4>2. \A i \in 1 .. k - 1 : f[n][i] = o[i]
        BY <1>2, <2>4, <3>1
      <4> QED
        BY <2>1, <4>1, <4>2 DEF Continues
    <3>2. CASE k = Len(o) + 1
      <4>1. \A i \in 1 .. k - 1 : i \in DOMAIN o /\ f[n][i] = o[i]
        BY <2>4, <3>2
      <4>2. f[n][k] = s
        BY <2>4, <3>2
      <4> QED
        BY <2>1, <2>3, <4>1, <4>2
    <3> QED
      BY <1>2, <2>4, <3>1, <3>2
  <2>7. Continues(f[n], scheduled, S)
    BY <2>4, <2>5, <2>6 DEF Continues
  <2> QED
    BY <2>7
<1>5. Len(order) \in I
  <2> HIDE DEF I
  <2>1. Len(order) \in Nat /\ \A n \in 1 .. Len(order) : n - 1 \in I => n \in I
    BY <1>4
  <2> QED
    BY <1>3, <2>1, Climb
<1> QED
  BY <1>1, <1>5

\* The equations of BestOption.
LEMMA BestRecursion ==
  ASSUME NEW options, Len(options) \in Nat
  PROVE  \E f : /\ BestOption(options) = f[Len(options)]
                /\ f[0] = options[1]
                /\ \A n \in 1 .. Len(options) : f[n] = IF Delay(options[n]) < Delay(f[n - 1]) THEN options[n] ELSE f[n - 1]
<1> DEFINE N == Len(options)
           Body(n, before) == IF Delay(options[n]) < Delay(before) THEN options[n] ELSE before
           Solves(f, m) == f = [n \in 0 .. m |-> IF n = 0 THEN options[1] ELSE Body(n, f[n - 1])]
           Solved == {m \in Nat : \E f : Solves(f, m)}
           F == CHOOSE f : Solves(f, N)
<1>1. BestOption(options) = F[N]
  BY DEF BestOption
<1> HIDE DEF Body
<1>2. 0 \in Solved
  <2> DEFINE f == [n \in 0 .. 0 |-> options[1]]
  <2>1. Solves(f, 0)
    OBVIOUS
  <2> QED
    BY <2>1
<1>3. ASSUME NEW m \in 1 .. N, m - 1 \in Solved PROVE m \in Solved
  <2>1. PICK f : Solves(f, m - 1)
    BY <1>3
  <2> DEFINE g == [n \in 0 .. m |-> IF n = 0 THEN options[1] ELSE Body(n, f[n - 1])]
  <2>2. \A n \in 0 .. m - 1 : f[n] = IF n = 0 THEN options[1] ELSE Body(n, f[n - 1])
    BY <2>1
  <2>3. \A n \in 0 .. m - 1 : n \in 0 .. m
    OBVIOUS
  <2>4. \A n \in 0 .. m - 1 : g[n] = f[n]
    BY <2>2, <2>3
  <2>5. \A n \in 0 .. m : n # 0 => n - 1 \in 0 .. m - 1
    OBVIOUS
  <2>6. \A n \in 0 .. m : n # 0 => g[n - 1] = f[n - 1]
    BY <2>4, <2>5
  <2>7. \A n \in 0 .. m :
          g[n] = IF n = 0 THEN options[1] ELSE Body(n, g[n - 1])
    BY <2>6
  <2>8. g = [n \in 0 .. m |-> g[n]]
    OBVIOUS
  <2> HIDE DEF g
  <2>9. Solves(g, m)
    BY <2>7, <2>8
  <2> QED
    BY <2>9
<1>4. N \in Solved
  <2> HIDE DEF Solved
  <2>1. N \in Nat /\ \A m \in 1 .. N : m - 1 \in Solved => m \in Solved
    BY <1>3
  <2> HIDE DEF N
  <2> QED
    BY <1>2, <2>1, Climb
<1>5. Solves(F, N)
  BY <1>4
<1> HIDE DEF F
<1>6. F[0] = options[1] /\ \A n \in 1 .. N : F[n] = Body(n, F[n - 1])
  BY <1>5
<1> QED
  BY <1>1, <1>6 DEF Body

\* The equations of Delay.
LEMMA DelayRecursion ==
  ASSUME NEW schedules, Len(schedules) \in Nat
  PROVE  \E f : /\ Delay(schedules) = f[Len(schedules)]
                /\ f[0] = 0
                /\ \A n \in 1 .. Len(schedules) : f[n] = f[n - 1] + (schedules[n].et - schedules[n].st)
<1> DEFINE N == Len(schedules)
           Body(n, before) == before + (schedules[n].et - schedules[n].st)
           Solves(f, m) == f = [n \in 0 .. m |-> IF n = 0 THEN 0 ELSE Body(n, f[n - 1])]
           Solved == {m \in Nat : \E f : Solves(f, m)}
           F == CHOOSE f : Solves(f, N)
<1>1. Delay(schedules) = F[N]
  BY DEF Delay
<1> HIDE DEF Body
<1>2. 0 \in Solved
  <2> DEFINE f == [n \in 0 .. 0 |-> 0]
  <2>1. Solves(f, 0)
    OBVIOUS
  <2> QED
    BY <2>1
<1>3. ASSUME NEW m \in 1 .. N, m - 1 \in Solved PROVE m \in Solved
  <2>1. PICK f : Solves(f, m - 1)
    BY <1>3
  <2> DEFINE g == [n \in 0 .. m |-> IF n = 0 THEN 0 ELSE Body(n, f[n - 1])]
  <2>2. \A n \in 0 .. m - 1 : f[n] = IF n = 0 THEN 0 ELSE Body(n, f[n - 1])
    BY <2>1
  <2>3. \A n \in 0 .. m - 1 : n \in 0 .. m
    OBVIOUS
  <2>4. \A n \in 0 .. m - 1 : g[n] = f[n]
    BY <2>2, <2>3
  <2>5. \A n \in 0 .. m : n # 0 => n - 1 \in 0 .. m - 1
    OBVIOUS
  <2>6. \A n \in 0 .. m : n # 0 => g[n - 1] = f[n - 1]
    BY <2>4, <2>5
  <2>7. \A n \in 0 .. m :
          g[n] = IF n = 0 THEN 0 ELSE Body(n, g[n - 1])
    BY <2>6
  <2>8. g = [n \in 0 .. m |-> g[n]]
    OBVIOUS
  <2> HIDE DEF g
  <2>9. Solves(g, m)
    BY <2>7, <2>8
  <2> QED
    BY <2>9
<1>4. N \in Solved
  <2> HIDE DEF Solved
  <2>1. N \in Nat /\ \A m \in 1 .. N : m - 1 \in Solved => m \in Solved
    BY <1>3
  <2> HIDE DEF N
  <2> QED
    BY <1>2, <2>1, Climb
<1>5. Solves(F, N)
  BY <1>4
<1> HIDE DEF F
<1>6. F[0] = 0 /\ \A n \in 1 .. N : F[n] = Body(n, F[n - 1])
  BY <1>5
<1> QED
  BY <1>1, <1>6 DEF Body

\* The best option is one of the options.
LEMMA BestIsOne ==
  ASSUME NEW S, NEW options \in Seq(S), options # <<>>
  PROVE  BestOption(options) \in S
<1>1. PICK f : /\ BestOption(options) = f[Len(options)]
               /\ f[0] = options[1]
               /\ \A n \in 1 .. Len(options) :
                    f[n] = IF Delay(options[n]) < Delay(f[n - 1]) THEN options[n] ELSE f[n - 1]
  <2>1. Len(options) \in Nat
    OBVIOUS
  <2> QED
    BY <2>1, BestRecursion
<1> DEFINE I == {n \in 0 .. Len(options) : f[n] \in S}
<1>2. 0 \in I
  BY <1>1
<1>3. ASSUME NEW n \in 1 .. Len(options), n - 1 \in I PROVE n \in I
  <2>1. options[n] \in S /\ f[n - 1] \in S
    BY <1>3
  <2>2. f[n] = options[n] \/ f[n] = f[n - 1]
    BY <1>1
  <2> QED
    BY <2>1, <2>2
<1>4. Len(options) \in I
  <2> HIDE DEF I
  <2>1. Len(options) \in Nat /\ \A n \in 1 .. Len(options) : n - 1 \in I => n \in I
    BY <1>3
  <2> QED
    BY <1>2, <2>1, Climb
<1> QED
  BY <1>1, <1>4

\* A schedule in which the given vehicles, and no others, have access.
LetsIn(departing, vehs) ==
  /\ IsList(departing)
  /\ \A i \in 1 .. Len(departing) : \E veh \in vehs :
       /\ departing[i].id = veh.id /\ departing[i].link = veh.link
       /\ departing[i].access = TRUE
  /\ \A veh \in vehs : \E i \in 1 .. Len(departing) : departing[i].link = veh.link

\* The schedule of the departing vehicles has an entry for each, with access.
LEMMA DvsHaveAccess ==
  ASSUME NEW S, NEW dvs \in Seq(S), NEW waiting, NEW now
  PROVE  LetsIn(ScheduleDvs(dvs, waiting, now), ToSet(dvs))
<1> DEFINE sorted == SortedByPosition(dvs)
           Departing(veh, i) ==
             [Entry(veh, veh.state, veh.st, veh.st,
                    IF veh.id \in waiting THEN now ELSE veh.et, i, TRUE)
                EXCEPT !.dt = now + veh.clearance]
           departing == [i \in DOMAIN sorted |-> Departing(sorted[i], i)]
<1>1. ScheduleDvs(dvs, waiting, now) = departing
  BY DEF ScheduleDvs
<1>2. sorted \in Seq(S) /\ ToSet(sorted) = ToSet(dvs)
  BY SortedElements
<1> HIDE DEF sorted
<1>3. \A veh, i : /\ Departing(veh, i).id = veh.id /\ Departing(veh, i).link = veh.link
                  /\ Departing(veh, i).access = TRUE
  BY DEF Entry
<1> HIDE DEF Departing
<1>4. /\ IsList(departing) /\ Len(departing) = Len(sorted)
      /\ DOMAIN sorted = 1 .. Len(departing)
      /\ \A i \in 1 .. Len(departing) : departing[i] = Departing(sorted[i], i)
  <2>1. Len(sorted) \in Nat /\ DOMAIN sorted = 1 .. Len(sorted)
    BY <1>2
  <2>2. \A i \in 1 .. Len(sorted) : departing[i] \in ToSet(departing)
    BY <2>1 DEF ToSet
  <2>3. departing \in Seq(ToSet(departing)) /\ Len(departing) = Len(sorted)
    BY <2>1, <2>2
  <2> QED
    BY <2>1, <2>3 DEF IsList
<1> HIDE DEF departing
<1>5. ASSUME NEW i \in 1 .. Len(departing)
      PROVE  \E veh \in ToSet(dvs) :
               /\ departing[i].id = veh.id /\ departing[i].link = veh.link
               /\ departing[i].access = TRUE
  <2>1. sorted[i] \in ToSet(dvs)
    BY <1>2, <1>4 DEF ToSet
  <2> QED
    BY <1>3, <1>4, <2>1
<1>6. ASSUME NEW veh \in ToSet(dvs)
      PROVE  \E i \in 1 .. Len(departing) : departing[i].link = veh.link
  <2>1. PICK i \in 1 .. Len(departing) : sorted[i] = veh
    BY <1>2, <1>4 DEF ToSet
  <2> QED
    BY <1>3, <1>4, <2>1
<1> QED
  BY <1>1, <1>4, <1>5, <1>6 DEF LetsIn

\* The options continue the schedule for the stopped vehicles.
LEMMA OptionsContinue ==
  ASSUME NEW S, NEW rdvs \in Seq(S), NEW scheduled, IsList(scheduled), NEW now
  PROVE  LET options == Options(rdvs, scheduled, now) IN
         /\ IsList(options)
         /\ \A option \in ToSet(options) : Continues(option, scheduled, S)
<1> DEFINE orders == DepartureOrders(SortedByPosition(rdvs))
           within == {k \in DOMAIN orders :
                        WithinFlexibilityLimit(orders[k], NextPosition(scheduled))}
           valid == Kept(orders, within)
           options == [k \in DOMAIN valid |-> Option(valid[k], scheduled, now)]
<1>1. Options(rdvs, scheduled, now) = options
  BY DEF Options
<1>2. orders \in Seq(Seq(S))
  BY SortedElements, OrdersElements
<1> HIDE DEF orders
<1>3. within \in SUBSET DOMAIN orders
  OBVIOUS
<1> HIDE DEF within
<1>4. valid \in Seq(Seq(S))
  BY <1>2, <1>3, KeptElements
<1> HIDE DEF valid
<1>5. \A k \in DOMAIN valid : Continues(options[k], scheduled, S)
  BY <1>4, OptionContinues
<1>6. IsList(options) /\ DOMAIN options = DOMAIN valid
  <2>1. Len(valid) \in Nat /\ DOMAIN valid = 1 .. Len(valid)
    BY <1>4
  <2>2. \A k \in 1 .. Len(valid) : options[k] \in ToSet(options)
    BY <2>1 DEF ToSet
  <2> QED
    BY <2>1, <2>2 DEF IsList
<1> HIDE DEF options
<1>7. \A option \in ToSet(options) : Continues(option, scheduled, S)
  BY <1>5, <1>6 DEF ToSet
<1> QED
  BY <1>1, <1>6, <1>7

\* An entering vehicle is put behind the schedule, without access.
LEMMA NextEvWaits ==
  ASSUME NEW todo, NEW now
  PROVE  \E s : /\ ScheduleNextEv(todo, now).schedules = Append(todo.schedules, s)
                /\ s.access = FALSE
<1> DEFINE evs == todo.evs
           first == {i \in DOMAIN evs : \A j \in 1 .. i - 1 : evs[j].entry # evs[i].entry}
           St(i) == StopTime(evs[i], todo.preceding, now)
           veh == evs[Min({i \in first : \A j \in first : St(i) <= St(j)})]
           st == St(Min({i \in first : \A j \in first : St(i) <= St(j)}))
           s == Entry(veh, "EV", EarliestStop(veh, now), st, EnterTime(veh, st, todo.schedules),
                      NextPosition(todo.schedules), FALSE)
<1>1. ScheduleNextEv(todo, now).schedules = Append(todo.schedules, s)
  BY DEF ScheduleNextEv
<1>2. s.access = FALSE
  BY DEF Entry
<1> HIDE DEF s
<1> QED
  BY <1>1, <1>2

\* The equations of ScheduleEvs.
LEMMA EvsRecursion ==
  ASSUME NEW evs, Len(evs) \in Nat, NEW scheduled, NEW now
  PROVE  \E f : /\ ScheduleEvs(evs, scheduled, now) = f[Len(evs)].schedules
                /\ f[0].schedules = scheduled /\ f[0].evs = SortedByDistance(evs)
                /\ f[0].preceding = PrecedingAtFirst(scheduled, now)
                /\ \A n \in 1 .. Len(evs) : f[n] = ScheduleNextEv(f[n - 1], now)
<1> DEFINE N == Len(evs)
           Base == [evs |-> SortedByDistance(evs), schedules |-> scheduled,
                    preceding |-> PrecedingAtFirst(scheduled, now)]
           Body(n, before) == ScheduleNextEv(before, now)
           Solves(f, m) == f = [n \in 0 .. m |-> IF n = 0 THEN Base ELSE Body(n, f[n - 1])]
           Solved == {m \in Nat : \E f : Solves(f, m)}
           F == CHOOSE f : Solves(f, N)
<1>1. ScheduleEvs(evs, scheduled, now) = F[N].schedules
  BY DEF ScheduleEvs
<1>0. /\ Base.schedules = scheduled /\ Base.evs = SortedByDistance(evs)
      /\ Base.preceding = PrecedingAtFirst(scheduled, now)
  OBVIOUS
<1> HIDE DEF Body, Base
<1>2. 0 \in Solved
  <2> DEFINE f == [n \in 0 .. 0 |-> Base]
  <2>1. Solves(f, 0)
    OBVIOUS
  <2> QED
    BY <2>1
<1>3. ASSUME NEW m \in 1 .. N, m - 1 \in Solved PROVE m \in Solved
  <2>1. PICK f : Solves(f, m - 1)
    BY <1>3
  <2> DEFINE g == [n \in 0 .. m |-> IF n = 0 THEN Base ELSE Body(n, f[n - 1])]
  <2>2. \A n \in 0 .. m - 1 : f[n] = IF n = 0 THEN Base ELSE Body(n, f[n - 1])
    BY <2>1
  <2>3. \A n \in 0 .. m - 1 : n \in 0 .. m
    OBVIOUS
  <2>4. \A n \in 0 .. m - 1 : g[n] = f[n]
    BY <2>2, <2>3
  <2>5. \A n \in 0 .. m : n # 0 => n - 1 \in 0 .. m - 1
    OBVIOUS
  <2>6. \A n \in 0 .. m : n # 0 => g[n - 1] = f[n - 1]
    BY <2>4, <2>5
  <2>7. \A n \in 0 .. m :
          g[n] = IF n = 0 THEN Base ELSE Body(n, g[n - 1])
    BY <2>6
  <2>8. g = [n \in 0 .. m |-> g[n]]
    OBVIOUS
  <2> HIDE DEF g
  <2>9. Solves(g, m)
    BY <2>7, <2>8
  <2> QED
    BY <2>9
<1>4. N \in Solved
  <2> HIDE DEF Solved
  <2>1. N \in Nat /\ \A m \in 1 .. N : m - 1 \in Solved => m \in Solved
    BY <1>3
  <2> HIDE DEF N
  <2> QED
    BY <1>2, <2>1, Climb
<1>5. Solves(F, N)
  BY <1>4
<1> HIDE DEF F
<1>6. F[0] = Base /\ \A n \in 1 .. N : F[n] = Body(n, F[n - 1])
  BY <1>5
<1> QED
  BY <1>0, <1>1, <1>6 DEF Body

\* A schedule that adds entries without access to another one.
AddsWaiting(all, scheduled) ==
  /\ IsList(all)
  /\ Len(scheduled) <= Len(all)
  /\ \A i \in 1 .. Len(scheduled) : all[i] = scheduled[i]
  /\ \A i \in Len(scheduled) + 1 .. Len(all) : all[i].access = FALSE

\* The entering vehicles come after the schedule so far, without access.
LEMMA EvsWait ==
  ASSUME NEW S, NEW evs \in Seq(S), NEW scheduled, IsList(scheduled), NEW now
  PROVE  AddsWaiting(ScheduleEvs(evs, scheduled, now), scheduled)
<1>1. PICK f : /\ ScheduleEvs(evs, scheduled, now) = f[Len(evs)].schedules
               /\ f[0].schedules = scheduled
               /\ \A n \in 1 .. Len(evs) : f[n] = ScheduleNextEv(f[n - 1], now)
  <2>1. Len(evs) \in Nat
    OBVIOUS
  <2> QED
    BY <2>1, EvsRecursion
<1> DEFINE I == {n \in 0 .. Len(evs) : AddsWaiting(f[n].schedules, scheduled)}
<1>2. Len(scheduled) \in Nat
  BY DEF IsList
<1>3. 0 \in I
  BY <1>1, <1>2 DEF AddsWaiting
<1>4. ASSUME NEW n \in 1 .. Len(evs), n - 1 \in I PROVE n \in I
  <2> DEFINE o == f[n - 1].schedules
             all == f[n].schedules
  <2>1. AddsWaiting(o, scheduled)
    BY <1>4
  <2>2. PICK s : all = Append(o, s) /\ s.access = FALSE
    <3>1. f[n] = ScheduleNextEv(f[n - 1], now)
      BY <1>1
    <3>2. PICK s : /\ ScheduleNextEv(f[n - 1], now).schedules = Append(f[n - 1].schedules, s)
                   /\ s.access = FALSE
      BY NextEvWaits
    <3> QED
      BY <3>1, <3>2
  <2> HIDE DEF o, all
  <2>3. /\ IsList(all) /\ Len(o) \in Nat /\ Len(all) = Len(o) + 1
        /\ \A i \in 1 .. Len(o) : all[i] = o[i]
        /\ all[Len(o) + 1] = s
    BY <2>1, <2>2, AppendToAny DEF AddsWaiting
  <2>4. AddsWaiting(all, scheduled)
    BY <1>2, <2>1, <2>2, <2>3 DEF AddsWaiting
  <2> QED
    BY <2>4 DEF all
<1>5. Len(evs) \in I
  <2> HIDE DEF I
  <2>1. Len(evs) \in Nat /\ \A n \in 1 .. Len(evs) : n - 1 \in I => n \in I
    BY <1>4
  <2> QED
    BY <1>3, <2>1, Climb
<1> QED
  BY <1>1, <1>5

-----------------------------------------------------------------------------
(***************************************************************************)
(* A round.                                                                *)
(***************************************************************************)

\* The vehicles whose updates are recent enough to be considered.
Heard(list) == {veh \in ToSet(list) : 0 <= veh.age /\ veh.age <= StaleAfter}

\* Those among them that depart, that wait for access, and that confirmed it.
DepartingOf(list) == {veh \in Heard(list) : Departs(veh)}
WaitingOf(list) == {veh \in Heard(list) : veh.state = "RDV" /\ ~ Departs(veh)}
ConfirmedOf(list) == {veh.id : veh \in {v \in Heard(list) : v.state = "DV"}}

\* Those that the round lets in.
LetInBy(list, round) == {veh \in WaitingOf(list) : veh.id \in round.granted}

Compatible(v, w) == v.link \notin Conflicting[w.link] \/ w.link \notin Conflicting[v.link]

\* What a round of the scheduler does to the grants, and who has access by its schedule.
RoundIsSafe(list, round) ==
  /\ granted \ ConfirmedOf(list) \subseteq round.granted
  /\ round.granted \subseteq granted \cup {veh.id : veh \in WaitingOf(list)}
  /\ IsList(round.schedule)
  /\ \A i \in 1 .. Len(round.schedule) : round.schedule[i].access =>
       round.schedule[i].id \in {veh.id : veh \in DepartingOf(list) \cup LetInBy(list, round)}
  /\ \A v \in LetInBy(list, round), w \in DepartingOf(list) \cup LetInBy(list, round) :
       v # w => Compatible(v, w)

\* Of the vehicles of a list each has an id of its own.
HaveOwnIds(list) == \A v, w \in ToSet(list) : v.id = w.id => v = w

\* The lists that a round makes of its vehicles.
LEMMA ListsOfRound ==
  ASSUME NEW S, NEW list \in Seq(S)
  PROVE  LET considered == Considered(list)
             places == DOMAIN considered
             dvs == Kept(considered, {i \in places : Departs(considered[i])})
             rdvs == Kept(considered, {i \in places : considered[i].state = "RDV"
                                                       /\ ~ Departs(considered[i])})
             evs == Kept(considered, {i \in places : considered[i].state = "EV"})
         IN /\ ToSet(considered) = Heard(list)
            /\ dvs \in Seq(S) /\ ToSet(dvs) = DepartingOf(list)
            /\ rdvs \in Seq(S) /\ ToSet(rdvs) = WaitingOf(list)
            /\ evs \in Seq(S)
<1> DEFINE fresh == {i \in DOMAIN list : 0 <= list[i].age /\ list[i].age <= StaleAfter}
           considered == Considered(list)
           places == DOMAIN considered
           dvAt == {i \in places : Departs(considered[i])}
           rdvAt == {i \in places : considered[i].state = "RDV" /\ ~ Departs(considered[i])}
           evAt == {i \in places : considered[i].state = "EV"}
<1>1. considered \in Seq(S) /\ ToSet(considered) = {list[i] : i \in fresh}
  <2>1. considered = Kept(list, fresh) /\ fresh \in SUBSET DOMAIN list
    BY DEF Considered
  <2> HIDE DEF considered, fresh
  <2> QED
    BY <2>1, KeptElements
<1>2. {list[i] : i \in fresh} = Heard(list)
  BY DEF Heard, ToSet
<1>3. ToSet(considered) = {considered[i] : i \in places}
  BY DEF ToSet
<1> HIDE DEF considered, fresh
<1>4. Kept(considered, dvAt) \in Seq(S) /\ ToSet(Kept(considered, dvAt)) = DepartingOf(list)
  <2>1. dvAt \in SUBSET places
    OBVIOUS
  <2>2. {considered[i] : i \in dvAt} = {veh \in ToSet(considered) : Departs(veh)}
    BY <1>3
  <2> HIDE DEF dvAt
  <2> QED
    BY <1>1, <1>2, <2>1, <2>2, KeptElements DEF DepartingOf
<1>5. Kept(considered, rdvAt) \in Seq(S) /\ ToSet(Kept(considered, rdvAt)) = WaitingOf(list)
  <2>1. rdvAt \in SUBSET places
    OBVIOUS
  <2>2. {considered[i] : i \in rdvAt}
          = {veh \in ToSet(considered) : veh.state = "RDV" /\ ~ Departs(veh)}
    BY <1>3
  <2> HIDE DEF rdvAt
  <2> QED
    BY <1>1, <1>2, <2>1, <2>2, KeptElements DEF WaitingOf
<1>6. Kept(considered, evAt) \in Seq(S)
  <2>1. evAt \in SUBSET places
    OBVIOUS
  <2> HIDE DEF evAt
  <2> QED
    BY <1>1, <2>1, KeptElements
<1> QED
  BY <1>1, <1>2, <1>4, <1>5, <1>6 DEF considered

\* In every round, whatever vehicles were granted access before: a grant is taken back
\* only from who confirmed it; access has who departs or is let in; and who is let in
\* conflicts neither with a departing vehicle nor with another one that is let in
\* (schedule_dvs, schedule_rdvs, schedule_evs and schedule_vehicles together).
THEOREM RoundLetsInSafely ==
  ASSUME NEW S, NEW list \in Seq(S), HaveOwnIds(list), NEW now
  PROVE  RoundIsSafe(list, Round(list, now))
<1> DEFINE considered == Considered(list)
           places == DOMAIN considered
           dvs == Kept(considered, {i \in places : Departs(considered[i])})
           rdvs == Kept(considered,
                        {i \in places : considered[i].state = "RDV" /\ ~ Departs(considered[i])})
           evs == Kept(considered, {i \in places : considered[i].state = "EV"})
           confirmed == {veh.id : veh \in {v \in ToSet(considered) : v.state = "DV"}}
           departing == ScheduleDvs(dvs, granted \ confirmed, now)
           options == Options(rdvs, departing, now)
           stopped == IF rdvs = <<>> THEN departing ELSE BestOption(options)
           entering == {s \in ToSet(stopped) :
                          s.access /\ s.id \in {v.id : v \in ToSet(rdvs)}}
           all == ScheduleEvs(evs, stopped, now)
           round == Round(list, now)
<1>1. round = IF rdvs # <<>> /\ options = <<>>
                THEN [schedule |-> departing, granted |-> granted \ confirmed]
                ELSE [schedule |-> all,
                      granted |-> (granted \ confirmed) \cup {s.id : s \in entering}]
  BY DEF Round
<1>2. /\ confirmed = ConfirmedOf(list)
      /\ dvs \in Seq(S) /\ ToSet(dvs) = DepartingOf(list)
      /\ rdvs \in Seq(S) /\ ToSet(rdvs) = WaitingOf(list)
      /\ evs \in Seq(S)
  BY ListsOfRound DEF ConfirmedOf
<1>3. /\ DepartingOf(list) \subseteq ToSet(list) /\ WaitingOf(list) \subseteq ToSet(list)
      /\ \A v \in WaitingOf(list) : ~ Departs(v) /\ v.id \notin granted
      /\ \A v \in DepartingOf(list) : Departs(v)
  BY DEF DepartingOf, WaitingOf, Heard, Departs
<1>4. \A v \in WaitingOf(list), w \in DepartingOf(list) : v.id # w.id
  BY <1>3 DEF HaveOwnIds
<1> HIDE DEF dvs, rdvs, evs, confirmed
<1>5. /\ IsList(departing)
      /\ \A i \in 1 .. Len(departing) : \E veh \in DepartingOf(list) :
           /\ departing[i].id = veh.id /\ departing[i].link = veh.link
           /\ departing[i].access = TRUE
      /\ \A veh \in DepartingOf(list) :
           \E i \in 1 .. Len(departing) : departing[i].link = veh.link
  <2>1. LetsIn(departing, ToSet(dvs))
    BY <1>2, DvsHaveAccess
  <2> HIDE DEF departing
  <2> QED
    BY <1>2, <2>1 DEF LetsIn
<1> HIDE DEF departing
<1>6. Len(departing) \in Nat /\ Continues(departing, departing, WaitingOf(list))
  BY <1>5 DEF Continues, IsList
<1>7. CASE rdvs # <<>> /\ options = <<>>
  <2>1. round.schedule = departing /\ round.granted = granted \ ConfirmedOf(list)
    BY <1>1, <1>2, <1>7
  <2> HIDE DEF round
  <2>2. LetInBy(list, round) = {}
    BY <1>3, <2>1 DEF LetInBy
  <2>3. \A i \in 1 .. Len(departing) :
          departing[i].id \in {veh.id : veh \in DepartingOf(list) \cup LetInBy(list, round)}
    BY <1>5
  <2> QED
    BY <1>5, <2>1, <2>2, <2>3 DEF RoundIsSafe, round
<1>8. CASE ~ (rdvs # <<>> /\ options = <<>>)
  <2>1. Continues(stopped, departing, WaitingOf(list))
    <3>1. CASE rdvs = <<>>
      BY <1>6, <3>1
    <3>2. CASE rdvs # <<>>
      <4>1. rdvs \in Seq(ToSet(rdvs))
        BY <1>2 DEF ToSet
      <4>2. /\ IsList(options)
            /\ \A option \in ToSet(options) : Continues(option, departing, WaitingOf(list))
        BY <1>2, <1>5, <4>1, OptionsContinue
      <4> HIDE DEF options
      <4>3. BestOption(options) \in ToSet(options)
        BY <1>8, <3>2, <4>2, BestIsOne DEF IsList
      <4> QED
        BY <3>2, <4>2, <4>3
    <3> QED
      BY <3>1, <3>2
  <2>2. round.schedule = all
    BY <1>1, <1>8
  <2>3. round.granted = (granted \ ConfirmedOf(list)) \cup {s.id : s \in entering}
    BY <1>1, <1>2, <1>8
  <2> HIDE DEF round, options, stopped
  <2>4. IsList(stopped) /\ Len(stopped) \in Nat /\ DOMAIN stopped = 1 .. Len(stopped)
    BY <2>1 DEF Continues, IsList
  <2>5. /\ IsList(all) /\ Len(stopped) <= Len(all) /\ Len(all) \in Nat
        /\ \A i \in 1 .. Len(stopped) : all[i] = stopped[i]
        /\ \A i \in Len(stopped) + 1 .. Len(all) : all[i].access = FALSE
    <3>1. AddsWaiting(all, stopped)
      BY <1>2, <2>4, EvsWait
    <3> QED
      BY <3>1 DEF AddsWaiting, IsList
  <2> HIDE DEF all
  <2>6. entering = {s \in ToSet(stopped) : s.access /\ s.id \in {v.id : v \in WaitingOf(list)}}
    BY <1>2
  <2> HIDE DEF entering
  <2>7. round.granted \subseteq granted \cup {veh.id : veh \in WaitingOf(list)}
    BY <2>3, <2>6
  \* The entry of a vehicle that is let in, and who comes before it.
  <2>8. ASSUME NEW v \in LetInBy(list, round)
        PROVE  \E k \in Len(departing) + 1 .. Len(stopped) :
                 /\ stopped[k].id = v.id /\ stopped[k].link = v.link
                 /\ \A i \in 1 .. k - 1 : stopped[i].link \notin Conflicting[v.link]
    <3>1. v \in WaitingOf(list) /\ v.id \in {s.id : s \in entering}
      BY <1>3, <2>3 DEF LetInBy
    <3>2. PICK k \in 1 .. Len(stopped) : stopped[k].access /\ stopped[k].id = v.id
      BY <2>4, <2>6, <3>1 DEF ToSet
    <3>3. k > Len(departing)
      <4> SUFFICES ASSUME k <= Len(departing) PROVE FALSE
        BY <1>6
      <4>1. k \in 1 .. Len(departing) /\ stopped[k] = departing[k]
        BY <1>6, <2>1 DEF Continues
      <4>2. PICK w \in DepartingOf(list) : departing[k].id = w.id
        BY <1>5, <4>1
      <4> QED
        BY <1>4, <3>1, <3>2, <4>1, <4>2
    <3>4. k \in Len(departing) + 1 .. Len(stopped)
      BY <1>6, <2>4, <3>3
    <3>5. PICK w \in WaitingOf(list) :
            /\ stopped[k].id = w.id /\ stopped[k].link = w.link
            /\ stopped[k].access =>
                 \A i \in 1 .. k - 1 : stopped[i].link \notin Conflicting[w.link]
      BY <2>1, <3>4 DEF Continues
    <3>6. w = v
      BY <1>3, <3>1, <3>2, <3>5 DEF HaveOwnIds
    <3> QED
      BY <3>2, <3>4, <3>5, <3>6
  <2>9. ASSUME NEW v \in LetInBy(list, round), NEW w \in DepartingOf(list)
        PROVE  w.link \notin Conflicting[v.link]
    <3>1. PICK k \in Len(departing) + 1 .. Len(stopped) :
            \A i \in 1 .. k - 1 : stopped[i].link \notin Conflicting[v.link]
      BY <2>8
    <3>2. PICK i \in 1 .. Len(departing) : departing[i].link = w.link
      BY <1>5
    <3>3. i \in 1 .. k - 1 /\ stopped[i] = departing[i]
      BY <1>6, <2>1, <2>4 DEF Continues
    <3> QED
      BY <3>1, <3>2, <3>3
  <2>10. ASSUME NEW v \in LetInBy(list, round), NEW w \in LetInBy(list, round), v # w
         PROVE  Compatible(v, w)
    <3>1. PICK k \in Len(departing) + 1 .. Len(stopped) :
            /\ stopped[k].id = v.id /\ stopped[k].link = v.link
            /\ \A i \in 1 .. k - 1 : stopped[i].link \notin Conflicting[v.link]
      BY <2>8
    <3>2. PICK l \in Len(departing) + 1 .. Len(stopped) :
            /\ stopped[l].id = w.id /\ stopped[l].link = w.link
            /\ \A i \in 1 .. l - 1 : stopped[i].link \notin Conflicting[w.link]
      BY <2>8
    <3>3. v.id # w.id
      BY <1>3, <2>10 DEF LetInBy, HaveOwnIds
    <3>4. k < l \/ l < k
      BY <1>6, <2>4, <3>1, <3>2, <3>3
    <3>5. CASE k < l
      <4>1. k \in 1 .. l - 1
        BY <1>6, <2>4, <3>5
      <4> QED
        BY <3>1, <3>2, <4>1 DEF Compatible
    <3>6. CASE l < k
      <4>1. l \in 1 .. k - 1
        BY <1>6, <2>4, <3>6
      <4> QED
        BY <3>1, <3>2, <4>1 DEF Compatible
    <3> QED
      BY <3>4, <3>5, <3>6
  <2>11. ASSUME NEW i \in 1 .. Len(all), all[i].access
         PROVE  all[i].id \in {veh.id : veh \in DepartingOf(list) \cup LetInBy(list, round)}
    <3>1. i \in 1 .. Len(stopped) /\ all[i] = stopped[i]
      <4>1. CASE i > Len(stopped)
        BY <2>4, <2>5, <2>11, <4>1
      <4>2. CASE i <= Len(stopped)
        BY <2>4, <2>5, <4>2
      <4> QED
        BY <2>4, <2>5, <4>1, <4>2
    <3>2. CASE i <= Len(departing)
      <4>1. i \in 1 .. Len(departing) /\ stopped[i] = departing[i]
        BY <1>6, <2>1, <3>1, <3>2 DEF Continues
      <4> QED
        BY <1>5, <3>1, <4>1
    <3>3. CASE i > Len(departing)
      <4>1. i \in Len(departing) + 1 .. Len(stopped)
        BY <1>6, <2>4, <3>1, <3>3
      <4>2. PICK v \in WaitingOf(list) : stopped[i].id = v.id
        BY <2>1, <4>1 DEF Continues
      <4>3. stopped[i] \in entering
        BY <2>4, <2>6, <2>11, <3>1, <4>2 DEF ToSet
      <4>4. v \in LetInBy(list, round)
        BY <2>3, <4>2, <4>3 DEF LetInBy
      <4> QED
        BY <3>1, <4>2, <4>4
    <3> QED
      BY <1>6, <2>4, <3>1, <3>2, <3>3
  <2>12. granted \ ConfirmedOf(list) \subseteq round.granted
    BY <2>3
  <2>13. \A v \in LetInBy(list, round), w \in DepartingOf(list) \cup LetInBy(list, round) :
           v # w => Compatible(v, w)
    BY <2>9, <2>10 DEF Compatible
  <2>14. RoundIsSafe(list, round)
    BY <2>2, <2>5, <2>7, <2>11, <2>12, <2>13 DEF RoundIsSafe
  <2> QED
    BY <2>14 DEF round
<1> QED
  BY <1>7, <1>8

-----------------------------------------------------------------------------
(***************************************************************************)
(* The plan of a round, as a whole: its positions, its times and its       *)
(* order, from the entries that each kind of vehicle adds to it.           *)
(***************************************************************************)

\* The times of a vehicle are numbers.
HasTimes(veh) ==
  veh.st \in Int /\ veh.et \in Int /\ veh.clearance \in Int /\ veh.toStopBar \in Int

\* Access is given in the order of departure.
InTurn(list) == \A i, j \in 1 .. Len(list) : i < j /\ list[j].access => list[i].access

\* A schedule whose places are its departure positions.
WellFormed(list) ==
  /\ IsList(list)
  /\ \A i \in 1 .. Len(list) :
       /\ list[i].dp = i
       /\ list[i].st \in Int /\ list[i].et \in Int /\ list[i].dt \in Int
       /\ list[i].access \in BOOLEAN

\* What is planned behind the schedule enters after everybody departed that it meets.
Planned(list, scheduled) ==
  /\ WellFormed(list) /\ InTurn(list)
  /\ Len(scheduled) \in Nat /\ Len(scheduled) <= Len(list)
  /\ \A i \in 1 .. Len(scheduled) : list[i] = scheduled[i]
  /\ \A j \in Len(scheduled) + 1 .. Len(list) : \A i \in 1 .. j - 1 :
       list[i].link \in Conflicting[list[j].link] => list[i].dt <= list[j].et

\* Of some places one has the least number.
LEMMA LeastOfPlaces ==
  ASSUME NEW N \in Nat, NEW T \in SUBSET (1 .. N), T # {}, NEW g, \A i \in T : g[i] \in Int
  PROVE  \E m \in T : \A i \in T : g[m] <= g[i]
<1> DEFINE Upto(n) == {i \in T : i <= n}
           HasLeast(P) == \E m \in P : \A i \in P : g[m] <= g[i]
           I == {n \in 0 .. N : Upto(n) = {} \/ HasLeast(Upto(n))}
<1>0. \A i \in T : i \in 1 .. N
  OBVIOUS
<1>1. 0 \in I
  <2>1. \A i \in T : ~ (i <= 0)
    BY <1>0
  <2>2. Upto(0) = {}
    BY <2>1
  <2> HIDE DEF Upto
  <2>3. 0 \in 0 .. N
    OBVIOUS
  <2> QED
    BY <2>2, <2>3
<1>2. ASSUME NEW n \in 1 .. N, n - 1 \in I PROVE n \in I
  <2>0. \A i \in 1 .. N : i <= n <=> i <= n - 1 \/ i = n
    OBVIOUS
  <2>1. Upto(n) = Upto(n - 1) \cup (IF n \in T THEN {n} ELSE {})
    BY <1>0, <2>0
  <2>2. Upto(n) \subseteq T
    OBVIOUS
  <2>3. Upto(n - 1) = {} \/ HasLeast(Upto(n - 1))
    BY <1>2
  <2> HIDE DEF Upto
  <2>4. CASE n \notin T
    BY <2>1, <2>3, <2>4
  <2>5. CASE n \in T /\ Upto(n - 1) = {}
    BY <2>1, <2>5
  <2>6. CASE n \in T /\ HasLeast(Upto(n - 1))
    <3>1. PICK m \in Upto(n - 1) : \A i \in Upto(n - 1) : g[m] <= g[i]
      BY <2>6
    <3>2. m \in T /\ g[m] \in Int /\ g[n] \in Int /\ \A i \in Upto(n - 1) : g[i] \in Int
      BY <2>1, <2>2, <2>6, <3>1
    <3>3. CASE g[m] <= g[n]
      BY <2>1, <2>6, <3>1, <3>2, <3>3
    <3>4. CASE ~ (g[m] <= g[n])
      <4>1. \A i \in Upto(n) : g[n] <= g[i]
        BY <2>1, <2>6, <3>1, <3>2, <3>4
      <4> QED
        BY <2>1, <2>6, <4>1
    <3> QED
      BY <3>3, <3>4
  <2>7. Upto(n) = {} \/ HasLeast(Upto(n))
    BY <2>3, <2>4, <2>5, <2>6
  <2> QED
    BY <2>7
<1>3. N \in I
  <2> HIDE DEF I
  <2> QED
    BY <1>1, <1>2, Climb
<1>4. Upto(N) = T
  <2>1. \A i \in T : i <= N
    BY <1>0
  <2> QED
    BY <2>1
<1> QED
  BY <1>3, <1>4

\* The later of two times.
LEMMA LaterTime ==
  ASSUME NEW x \in Int, NEW y \in Int
  PROVE  Max({x, y}) \in Int /\ x <= Max({x, y}) /\ y <= Max({x, y})
<1>1. CASE x >= y
  <2>1. \A z \in {x, y} : x >= z
    BY <1>1
  <2> QED
    BY <2>1 DEF Max
<1>2. CASE x < y
  <2>1. \A z \in {x, y} : y >= z
    BY <1>2
  <2> QED
    BY <2>1 DEF Max
<1> QED
  BY <1>1, <1>2

\* get_latest_conflicting finds a schedule with the latest departure, if any conflicts.
LEMMA LatestConflictingIsLatest ==
  ASSUME NEW list, WellFormed(list), NEW link
  PROVE  \/ /\ LatestConflicting(link, list) = <<>>
            /\ \A i \in 1 .. Len(list) : list[i].link \notin Conflicting[link]
         \/ \E m \in 1 .. Len(list) :
              /\ LatestConflicting(link, list) = <<list[m]>>
              /\ \A i \in 1 .. Len(list) :
                   list[i].link \in Conflicting[link] => list[i].dt <= list[m].dt
<1> DEFINE conflicts == {i \in DOMAIN list : list[i].link \in Conflicting[link]}
           latest == {i \in conflicts : \A j \in conflicts : list[j].dt <= list[i].dt}
<1>1. LatestConflicting(link, list) = IF conflicts = {} THEN <<>> ELSE <<list[Min(latest)]>>
  BY DEF LatestConflicting
<1>2. Len(list) \in Nat /\ DOMAIN list = 1 .. Len(list) /\ conflicts \in SUBSET (1 .. Len(list))
  BY DEF WellFormed, IsList
<1>3. \A i \in conflicts : list[i].dt \in Int
  BY <1>2 DEF WellFormed
<1>4. CASE conflicts = {}
  BY <1>1, <1>2, <1>4
<1>5. CASE conflicts # {}
  <2> DEFINE g == [i \in conflicts |-> - list[i].dt]
  <2>1. \A i \in conflicts : g[i] \in Int /\ g[i] = - list[i].dt
    BY <1>3
  <2> HIDE DEF g, conflicts
  <2>2. PICK m \in conflicts : \A i \in conflicts : g[m] <= g[i]
    BY <1>2, <1>5, <2>1, LeastOfPlaces
  <2>3. \A i \in conflicts : list[i].dt <= list[m].dt
    BY <1>3, <2>1, <2>2
  <2>4. m \in latest
    BY <2>2, <2>3
  <2>6. latest \in SUBSET Nat
    <3>1. latest \subseteq conflicts
      OBVIOUS
    <3> HIDE DEF latest
    <3>2. \A n \in 1 .. Len(list) : n \in Nat
      OBVIOUS
    <3> QED
      BY <1>2, <3>1, <3>2
  <2>5. Min(latest) \in latest
    BY <2>4, <2>6, MinIsOne
  <2> QED
    BY <1>1, <1>2, <1>5, <2>5 DEF conflicts
<1> QED
  BY <1>4, <1>5

\* The next position is the next place.
LEMMA NextPositionIsNext ==
  ASSUME NEW list, WellFormed(list)
  PROVE  /\ NextPosition(list) = Len(list) + 1 /\ Len(list) \in Nat
         /\ list = <<>> <=> Len(list) = 0
         /\ list # <<>> => Len(list) \in 1 .. Len(list) /\ Last(list) = list[Len(list)]
<1>1. list \in Seq(ToSet(list))
  BY DEF WellFormed, IsList
<1>2. Len(list) \in Nat /\ (list = <<>> <=> Len(list) = 0)
  BY <1>1
<1>3. list # <<>> => Len(list) \in 1 .. Len(list) /\ Last(list) = list[Len(list)]
  BY <1>2 DEF Last
<1>4. list # <<>> => Last(list).dp = Len(list)
  BY <1>2, <1>3 DEF WellFormed
<1> QED
  BY <1>2, <1>3, <1>4 DEF NextPosition

\* An entry that is put behind the plan.
LEMMA PlanGrows ==
  ASSUME NEW list, NEW scheduled, Planned(list, scheduled), NEW s,
         s.dp = Len(list) + 1, s.st \in Int, s.et \in Int, s.dt \in Int, s.access \in BOOLEAN,
         s.access => \A i \in 1 .. Len(list) : list[i].access,
         \A i \in 1 .. Len(list) : list[i].link \in Conflicting[s.link] => list[i].dt <= s.et
  PROVE  Planned(Append(list, s), scheduled)
<1> DEFINE new == Append(list, s)
<1>1. /\ IsList(new) /\ Len(list) \in Nat /\ Len(new) = Len(list) + 1
      /\ \A i \in 1 .. Len(list) : new[i] = list[i]
      /\ new[Len(list) + 1] = s
  BY AppendToAny DEF Planned, WellFormed
<1> HIDE DEF new
<1>2. \A i \in 1 .. Len(new) : i \in 1 .. Len(list) \/ i = Len(new)
  BY <1>1
<1>3. new[Len(new)] = s
  BY <1>1
<1>4. WellFormed(new)
  <2> SUFFICES ASSUME NEW i \in 1 .. Len(new)
               PROVE  /\ new[i].dp = i
                      /\ new[i].st \in Int /\ new[i].et \in Int /\ new[i].dt \in Int
                      /\ new[i].access \in BOOLEAN
    BY <1>1 DEF WellFormed
  <2>1. CASE i \in 1 .. Len(list)
    BY <1>1, <2>1 DEF Planned, WellFormed
  <2>2. CASE i = Len(new)
    BY <1>1, <1>3, <2>2
  <2> QED
    BY <1>2, <2>1, <2>2
<1>5. InTurn(new)
  <2> SUFFICES ASSUME NEW i \in 1 .. Len(new), NEW j \in 1 .. Len(new), i < j, new[j].access
               PROVE  new[i].access
    BY DEF InTurn
  <2>1. i \in 1 .. Len(list) /\ new[i] = list[i]
    BY <1>1
  <2>2. CASE j \in 1 .. Len(list)
    BY <1>1, <2>1, <2>2 DEF Planned, InTurn
  <2>3. CASE j = Len(new)
    BY <1>3, <2>1, <2>3
  <2> QED
    BY <1>2, <2>2, <2>3
<1>6. ASSUME NEW j \in Len(scheduled) + 1 .. Len(new), NEW i \in 1 .. j - 1,
             new[i].link \in Conflicting[new[j].link]
      PROVE  new[i].dt <= new[j].et
  <2>1. Len(scheduled) \in Nat
    BY DEF Planned
  <2>2. i \in 1 .. Len(list) /\ new[i] = list[i]
    BY <1>1, <2>1
  <2>3. CASE j <= Len(list)
    <3>1. j \in Len(scheduled) + 1 .. Len(list) /\ new[j] = list[j]
      BY <1>1, <2>1, <2>3
    <3> QED
      BY <1>6, <2>2, <3>1 DEF Planned
  <2>4. CASE j = Len(new)
    BY <1>3, <1>6, <2>2, <2>4
  <2>5. Len(new) \in Nat /\ \A k \in 1 .. Len(list) : k <= Len(list)
    BY <1>1
  <2>6. j \in 1 .. Len(new)
    BY <2>1, <2>5
  <2>7. j <= Len(list) \/ j = Len(new)
    BY <1>2, <2>5, <2>6
  <2> QED
    BY <2>3, <2>4, <2>7
<1>7. /\ Len(scheduled) \in Nat /\ Len(scheduled) <= Len(new)
      /\ \A i \in 1 .. Len(scheduled) : new[i] = scheduled[i]
  BY <1>1 DEF Planned
<1> QED
  BY <1>4, <1>5, <1>6, <1>7 DEF Planned, new

\* A stopped vehicle is put behind the plan: it waits for everybody that it meets, and
\* enters now only when nobody before it has to wait.
LEMMA RdvIsPlanned ==
  ASSUME NEW option, NEW scheduled, Planned(option, scheduled), NEW veh, HasTimes(veh),
         NEW now \in Int
  PROVE  Planned(ConsiderRdv(option, veh, now), scheduled)
<1> DEFINE latest == LatestConflicting(veh.link, option)
           waits == Entry(veh, "RDV", veh.st, veh.st, Max({latest[1].dt, Last(option).et}),
                          NextPosition(option), FALSE)
           enters == Entry(veh, "DV", veh.st, veh.st, now, NextPosition(option), TRUE)
           holds == Entry(veh, "RDV", veh.st, veh.st, Last(option).et,
                          NextPosition(option), FALSE)
           s == CASE latest # <<>> -> waits
                  [] latest = <<>> /\ (option = <<>> \/ Last(option).access) -> enters
                  [] OTHER -> holds
<1>1. ConsiderRdv(option, veh, now) = Append(option, s)
  BY DEF ConsiderRdv
<1>2. /\ waits.st = veh.st /\ waits.link = veh.link /\ waits.access = FALSE /\ waits.dp = NextPosition(option)
      /\ waits.et = Max({latest[1].dt, Last(option).et})
      /\ waits.dt = Max({latest[1].dt, Last(option).et}) + veh.clearance
  BY DEF Entry
<1>3. /\ enters.st = veh.st /\ enters.link = veh.link /\ enters.access = TRUE /\ enters.dp = NextPosition(option)
      /\ enters.et = now /\ enters.dt = now + veh.clearance
  BY DEF Entry
<1>4. /\ holds.st = veh.st /\ holds.link = veh.link /\ holds.access = FALSE /\ holds.dp = NextPosition(option)
      /\ holds.et = Last(option).et /\ holds.dt = Last(option).et + veh.clearance
  BY DEF Entry
<1>5. WellFormed(option) /\ InTurn(option) /\ veh.clearance \in Int /\ veh.st \in Int
  BY DEF Planned, HasTimes
<1>6. /\ NextPosition(option) = Len(option) + 1 /\ Len(option) \in Nat
      /\ option = <<>> <=> Len(option) = 0
      /\ option # <<>> => Len(option) \in 1 .. Len(option) /\ Last(option) = option[Len(option)]
  BY <1>5, NextPositionIsNext
<1>7. \/ /\ latest = <<>>
         /\ \A i \in 1 .. Len(option) : option[i].link \notin Conflicting[veh.link]
      \/ \E m \in 1 .. Len(option) :
           /\ latest = <<option[m]>>
           /\ \A i \in 1 .. Len(option) :
                option[i].link \in Conflicting[veh.link] => option[i].dt <= option[m].dt
  BY <1>5, LatestConflictingIsLatest
<1> HIDE DEF latest, waits, enters, holds
<1>8. /\ latest # <<>> => s = waits
      /\ latest = <<>> /\ (option = <<>> \/ Last(option).access) => s = enters
      /\ latest = <<>> /\ ~ (option = <<>> \/ Last(option).access) => s = holds
  OBVIOUS
<1> HIDE DEF s
<1>9. CASE latest # <<>>
  <2>1. PICK m \in 1 .. Len(option) :
          /\ latest = <<option[m]>>
          /\ \A i \in 1 .. Len(option) :
               option[i].link \in Conflicting[veh.link] => option[i].dt <= option[m].dt
    BY <1>7, <1>9
  <2>2. /\ option[m].dt \in Int /\ Last(option).et \in Int /\ latest[1] = option[m]
        /\ \A i \in 1 .. Len(option) : option[i].dt \in Int
    BY <1>5, <1>6, <2>1 DEF WellFormed
  <2>3. /\ s.et \in Int /\ option[m].dt <= s.et
        /\ s.dt = s.et + veh.clearance
    BY <1>2, <1>8, <1>9, <2>2, LaterTime
  <2>4. \A i \in 1 .. Len(option) :
          option[i].link \in Conflicting[veh.link] => option[i].dt <= s.et
    BY <2>1, <2>2, <2>3
  <2>5. /\ s.dp = Len(option) + 1 /\ s.access = FALSE /\ s.link = veh.link
        /\ s.dt \in Int /\ s.st \in Int
    BY <1>2, <1>5, <1>6, <1>8, <1>9, <2>3
  <2> QED
    BY <1>1, <2>3, <2>4, <2>5, PlanGrows
<1>10. CASE latest = <<>> /\ (option = <<>> \/ Last(option).access)
  <2>1. \A i \in 1 .. Len(option) : option[i].access
    <3>1. CASE option = <<>>
      BY <1>6, <3>1
    <3>2. CASE option # <<>>
      <4> SUFFICES ASSUME NEW i \in 1 .. Len(option) PROVE option[i].access
        OBVIOUS
      <4>1. Len(option) \in 1 .. Len(option) /\ option[Len(option)].access
        BY <1>6, <1>10, <3>2
      <4>2. i < Len(option) \/ i = Len(option)
        BY <1>6
      <4> QED
        BY <1>5, <4>1, <4>2 DEF InTurn
    <3> QED
      BY <3>1, <3>2
  <2>2. \A i \in 1 .. Len(option) : option[i].link \notin Conflicting[veh.link]
    BY <1>7, <1>10
  <2>3. /\ s.et = now /\ s.dt = now + veh.clearance /\ s.dp = Len(option) + 1
        /\ s.access = TRUE /\ s.link = veh.link /\ s.st = veh.st
    BY <1>3, <1>6, <1>8, <1>10
  <2>4. s.st \in Int /\ s.et \in Int /\ s.dt \in Int
    BY <1>5, <2>3
  <2> QED
    BY <1>1, <2>1, <2>2, <2>3, <2>4, PlanGrows
<1>11. CASE latest = <<>> /\ ~ (option = <<>> \/ Last(option).access)
  <2>1. \A i \in 1 .. Len(option) : option[i].link \notin Conflicting[veh.link]
    BY <1>7, <1>11
  <2>2. Last(option).et \in Int
    BY <1>5, <1>6, <1>11 DEF WellFormed
  <2>3. /\ s.et = Last(option).et /\ s.dt = Last(option).et + veh.clearance
        /\ s.dp = Len(option) + 1 /\ s.access = FALSE /\ s.link = veh.link /\ s.st = veh.st
    BY <1>4, <1>6, <1>8, <1>11
  <2>4. s.st \in Int /\ s.et \in Int /\ s.dt \in Int
    BY <1>5, <2>2, <2>3
  <2> QED
    BY <1>1, <2>1, <2>3, <2>4, PlanGrows
<1> QED
  BY <1>9, <1>10, <1>11

LEMMA OptionIsPlanned ==
  ASSUME NEW S, \A veh \in S : HasTimes(veh), NEW order \in Seq(S), NEW now \in Int,
         NEW scheduled, Planned(scheduled, scheduled)
  PROVE  Planned(Option(order, scheduled, now), scheduled)
<1>1. PICK f : /\ Option(order, scheduled, now) = f[Len(order)]
               /\ f[0] = scheduled
               /\ \A n \in 1 .. Len(order) : f[n] = ConsiderRdv(f[n - 1], order[n], now)
  <2>1. Len(order) \in Nat
    OBVIOUS
  <2> QED
    BY <2>1, OptionRecursion
<1> DEFINE I == {n \in 0 .. Len(order) : Planned(f[n], scheduled)}
<1>2. 0 \in I
  BY <1>1
<1>3. ASSUME NEW n \in 1 .. Len(order), n - 1 \in I PROVE n \in I
  <2>1. Planned(f[n - 1], scheduled) /\ f[n] = ConsiderRdv(f[n - 1], order[n], now)
    BY <1>1, <1>3
  <2>2. HasTimes(order[n])
    OBVIOUS
  <2> QED
    BY <2>1, <2>2, RdvIsPlanned
<1>4. Len(order) \in I
  <2> HIDE DEF I
  <2>1. Len(order) \in Nat /\ \A n \in 1 .. Len(order) : n - 1 \in I => n \in I
    BY <1>3
  <2> QED
    BY <1>2, <2>1, Climb
<1> QED
  BY <1>1, <1>4

LEMMA OptionsArePlanned ==
  ASSUME NEW S, \A veh \in S : HasTimes(veh), NEW rdvs \in Seq(S), NEW now \in Int,
         NEW scheduled, Planned(scheduled, scheduled)
  PROVE  LET options == Options(rdvs, scheduled, now) IN
         IsList(options) /\ \A option \in ToSet(options) : Planned(option, scheduled)
<1> DEFINE orders == DepartureOrders(SortedByPosition(rdvs))
           within == {k \in DOMAIN orders :
                        WithinFlexibilityLimit(orders[k], NextPosition(scheduled))}
           valid == Kept(orders, within)
           options == [k \in DOMAIN valid |-> Option(valid[k], scheduled, now)]
<1>1. Options(rdvs, scheduled, now) = options
  BY DEF Options
<1>2. orders \in Seq(Seq(S))
  BY SortedElements, OrdersElements
<1> HIDE DEF orders
<1>3. within \in SUBSET DOMAIN orders
  OBVIOUS
<1> HIDE DEF within
<1>4. valid \in Seq(Seq(S))
  BY <1>2, <1>3, KeptElements
<1> HIDE DEF valid
<1>5. ASSUME NEW k \in DOMAIN valid
      PROVE  Planned(options[k], scheduled)
  <2>1. valid[k] \in Seq(S)
    BY <1>4
  <2>2. Planned(Option(valid[k], scheduled, now), scheduled)
    BY <2>1, OptionIsPlanned
  <2> QED
    BY <2>2
<1>6. IsList(options) /\ DOMAIN options = DOMAIN valid
  <2>1. Len(valid) \in Nat /\ DOMAIN valid = 1 .. Len(valid)
    BY <1>4
  <2>2. \A k \in 1 .. Len(valid) : options[k] \in ToSet(options)
    BY <2>1 DEF ToSet
  <2> QED
    BY <2>1, <2>2 DEF IsList
<1> HIDE DEF options
<1>7. \A option \in ToSet(options) : Planned(option, scheduled)
  BY <1>5, <1>6 DEF ToSet
<1> QED
  BY <1>1, <1>6, <1>7

\* What is still to be scheduled, of the entering vehicles, and who is ahead of them.
Todo(todo, S, n) ==
  /\ todo.evs \in Seq(S) /\ Len(todo.evs) = n
  /\ \A lane \in DOMAIN todo.preceding : todo.preceding[lane].et \in Int

\* The entering vehicle that stops first is put behind the plan, after all that it meets.
LEMMA NextEvIsPlanned ==
  ASSUME AllStopAssumption, NEW S, \A veh \in S : HasTimes(veh), NEW now \in Int,
         NEW n \in Nat \ {0}, NEW todo, Todo(todo, S, n),
         NEW scheduled, Planned(todo.schedules, scheduled)
  PROVE  /\ Planned(ScheduleNextEv(todo, now).schedules, scheduled)
         /\ Todo(ScheduleNextEv(todo, now), S, n - 1)
<1> DEFINE evs == todo.evs
           first == {i \in DOMAIN evs : \A j \in 1 .. i - 1 : evs[j].entry # evs[i].entry}
           St(i) == StopTime(evs[i], todo.preceding, now)
           soonest == {i \in first : \A j \in first : St(i) <= St(j)}
           next == Min(soonest)
           veh == evs[next]
           et == EnterTime(veh, St(next), todo.schedules)
           sched == Entry(veh, "EV", EarliestStop(veh, now), St(next), et,
                          NextPosition(todo.schedules), FALSE)
           after == ScheduleNextEv(todo, now)
<1>1. /\ after.evs = RemoveAt(evs, next) /\ after.schedules = Append(todo.schedules, sched)
      /\ after.preceding = [lane \in DOMAIN todo.preceding \cup {veh.entry} |->
                              IF lane = veh.entry THEN sched ELSE todo.preceding[lane]]
  BY DEF ScheduleNextEv
<1>2. /\ evs \in Seq(S) /\ Len(evs) = n /\ DOMAIN evs = 1 .. n
      /\ \A i \in 1 .. n : evs[i] \in S
  BY DEF Todo
<1>3. \A i \in 1 .. n : St(i) \in Int
  <2> SUFFICES ASSUME NEW i \in 1 .. n PROVE StopTime(evs[i], todo.preceding, now) \in Int
    OBVIOUS
  <2>1. EarliestStop(evs[i], now) \in Int
    BY <1>2 DEF EarliestStop, TimeToStopBar, HasTimes
  <2>2. CASE evs[i].lane \in DOMAIN todo.preceding
    <3>1. todo.preceding[evs[i].lane].et + EnteringTimeBuffer \in Int
      BY <2>2 DEF Todo, AllStopAssumption
    <3> QED
      BY <2>1, <2>2, <3>1, LaterTime DEF StopTime
  <2>3. CASE evs[i].lane \notin DOMAIN todo.preceding
    BY <2>1, <2>3 DEF StopTime
  <2> QED
    BY <2>2, <2>3
<1>4. first \in SUBSET (1 .. n) /\ first # {}
  <2>1. 1 \in first
    BY <1>2
  <2> QED
    BY <1>2, <2>1
<1> HIDE DEF first, St, after, sched, et, veh
<1>5. next \in 1 .. n
  <2> DEFINE g == [i \in first |-> St(i)]
  <2>1. \A i \in first : g[i] \in Int /\ g[i] = St(i)
    BY <1>3, <1>4
  <2> HIDE DEF g
  <2>2. PICK m \in first : \A i \in first : g[m] <= g[i]
    BY <1>4, <2>1, LeastOfPlaces
  <2>3. m \in soonest
    BY <2>1, <2>2
  <2>4. soonest \subseteq first
    OBVIOUS
  <2> HIDE DEF soonest
  <2>5. soonest \in SUBSET Nat
    BY <1>4, <2>4
  <2>6. Min(soonest) \in soonest
    BY <2>3, <2>5, MinIsOne
  <2> QED
    BY <1>4, <2>4, <2>6
<1> HIDE DEF next
<1>6. veh \in S /\ HasTimes(veh) /\ St(next) \in Int
  BY <1>2, <1>3, <1>5 DEF veh
<1>7. WellFormed(todo.schedules)
  BY DEF Planned
<1>8. /\ NextPosition(todo.schedules) = Len(todo.schedules) + 1
      /\ sched.dp = NextPosition(todo.schedules) /\ sched.link = veh.link
      /\ sched.et = et /\ sched.dt = et + veh.clearance /\ sched.access = FALSE
      /\ sched.st = St(next)
  BY <1>7, NextPositionIsNext DEF sched, Entry
<1>9. /\ et \in Int
      /\ \A i \in 1 .. Len(todo.schedules) :
           todo.schedules[i].link \in Conflicting[veh.link] => todo.schedules[i].dt <= et
  <2> DEFINE list == todo.schedules
             latest == LatestConflicting(veh.link, list)
  <2>1. et = IF latest = <<>> THEN St(next) ELSE Max({latest[1].dt, St(next)})
    BY DEF et, EnterTime
  <2>2. \/ /\ latest = <<>>
           /\ \A i \in 1 .. Len(list) : list[i].link \notin Conflicting[veh.link]
        \/ \E m \in 1 .. Len(list) :
             /\ latest = <<list[m]>>
             /\ \A i \in 1 .. Len(list) :
                  list[i].link \in Conflicting[veh.link] => list[i].dt <= list[m].dt
    BY <1>7, LatestConflictingIsLatest
  <2> HIDE DEF latest
  <2>3. CASE latest = <<>>
    <3>1. \A i \in 1 .. Len(list) : list[i].link \notin Conflicting[veh.link]
      BY <2>2, <2>3
    <3> QED
      BY <1>6, <2>1, <2>3, <3>1
  <2>4. CASE latest # <<>>
    <3>1. PICK m \in 1 .. Len(list) :
            /\ latest = <<list[m]>>
            /\ \A i \in 1 .. Len(list) :
                 list[i].link \in Conflicting[veh.link] => list[i].dt <= list[m].dt
      BY <2>2, <2>4
    <3>2. latest[1].dt = list[m].dt /\ \A i \in 1 .. Len(list) : list[i].dt \in Int
      BY <1>7, <3>1 DEF WellFormed
    <3>3. et \in Int /\ list[m].dt <= et
      BY <1>6, <2>1, <2>4, <3>2, LaterTime
    <3> QED
      BY <3>1, <3>2, <3>3
  <2> QED
    BY <2>3, <2>4
<1>10. Planned(after.schedules, scheduled)
  <2>1. sched.st \in Int /\ sched.et \in Int /\ sched.dt \in Int
    BY <1>6, <1>8, <1>9 DEF HasTimes
  <2>2. \A i \in 1 .. Len(todo.schedules) :
          todo.schedules[i].link \in Conflicting[sched.link] => todo.schedules[i].dt <= sched.et
    BY <1>8, <1>9
  <2>3. sched.dp = Len(todo.schedules) + 1 /\ sched.access \in BOOLEAN /\ ~ sched.access
    BY <1>8
  <2>4. Planned(Append(todo.schedules, sched), scheduled)
    BY <2>1, <2>2, <2>3, PlanGrows
  <2> QED
    BY <1>1, <2>4
<1>11. after.evs \in Seq(S) /\ Len(after.evs) = n - 1
  <2> DEFINE head == SubSeq(evs, 1, next - 1)
             tail == SubSeq(evs, next + 1, Len(evs))
  <2>1. after.evs = head \o tail
    BY <1>1 DEF RemoveAt
  <2>2. /\ head \in Seq(S) /\ Len(head) = next - 1
        /\ tail \in Seq(S) /\ Len(tail) = n - next
    BY <1>2, <1>5
  <2> HIDE DEF head, tail
  <2>3. head \o tail \in Seq(S) /\ Len(head \o tail) = Len(head) + Len(tail)
    BY <2>2
  <2>4. Len(head) + Len(tail) = n - 1
    BY <1>5, <2>2
  <2> QED
    BY <2>1, <2>3, <2>4
<1>12. \A lane \in DOMAIN after.preceding : after.preceding[lane].et \in Int
  BY <1>1, <1>8, <1>9 DEF Todo
<1> QED
  BY <1>10, <1>11, <1>12 DEF Todo, after

LEMMA EvsArePlanned ==
  ASSUME AllStopAssumption, NEW S, \A veh \in S : HasTimes(veh), NEW now \in Int,
         NEW evs \in Seq(S), NEW stopped, NEW scheduled, Planned(stopped, scheduled)
  PROVE  Planned(ScheduleEvs(evs, stopped, now), scheduled)
<1>1. PICK f : /\ ScheduleEvs(evs, stopped, now) = f[Len(evs)].schedules
               /\ f[0].schedules = stopped /\ f[0].evs = SortedByDistance(evs)
               /\ f[0].preceding = PrecedingAtFirst(stopped, now)
               /\ \A n \in 1 .. Len(evs) : f[n] = ScheduleNextEv(f[n - 1], now)
  <2>1. Len(evs) \in Nat
    OBVIOUS
  <2> QED
    BY <2>1, EvsRecursion
<1> DEFINE N == Len(evs)
           I == {n \in 0 .. N : Planned(f[n].schedules, scheduled) /\ Todo(f[n], S, N - n)}
<1>2. 0 \in I
  <2>1. SortedByDistance(evs) \in Seq(S) /\ Len(SortedByDistance(evs)) = N
    BY SortedByDistanceIsList
  <2>2. \A lane \in DOMAIN f[0].preceding : f[0].preceding[lane].et \in Int
    <3> DEFINE JustEnters(s) ==
                 s.state = "DV" /\ s.et >= now /\ s.et - now <= EnteringTimeBuffer
               ahead == {i \in DOMAIN stopped :
                           stopped[i].state = "RDV" \/ JustEnters(stopped[i])}
    <3>1. f[0].preceding = [lane \in IF ahead = {} THEN {} ELSE Lanes |-> stopped[Min(ahead)]]
      BY <1>1 DEF PrecedingAtFirst
    <3>2. /\ DOMAIN stopped = 1 .. Len(stopped)
          /\ \A i \in 1 .. Len(stopped) : stopped[i].et \in Int
      BY DEF Planned, WellFormed, IsList
    <3>3. ahead \subseteq 1 .. Len(stopped)
      BY <3>2
    <3> HIDE DEF ahead
    <3>4. ahead # {} => Min(ahead) \in 1 .. Len(stopped)
      <4>1. ahead \in SUBSET Nat
        <5>1. \A n \in 1 .. Len(stopped) : n \in Nat
          BY DEF Planned, WellFormed, IsList
        <5> QED
          BY <3>3, <5>1
      <4> QED
        BY <3>3, <4>1, MinIsOne
    <3> QED
      BY <3>1, <3>2, <3>4
  <2>3. N \in Nat /\ N - 0 = N /\ 0 \in 0 .. N
    OBVIOUS
  <2> QED
    BY <1>1, <2>1, <2>2, <2>3 DEF Todo
<1>3. ASSUME NEW n \in 1 .. N, n - 1 \in I PROVE n \in I
  <2>1. /\ Planned(f[n - 1].schedules, scheduled) /\ Todo(f[n - 1], S, N - (n - 1))
        /\ f[n] = ScheduleNextEv(f[n - 1], now)
    BY <1>1, <1>3
  <2>2. N - (n - 1) \in Nat \ {0} /\ N - (n - 1) - 1 = N - n
    OBVIOUS
  <2> HIDE DEF N
  <2>3. Planned(f[n].schedules, scheduled) /\ Todo(f[n], S, N - n)
    BY <2>1, <2>2, NextEvIsPlanned
  <2> QED
    BY <2>3
<1>4. N \in I
  <2> HIDE DEF I
  <2>1. N \in Nat /\ \A n \in 1 .. N : n - 1 \in I => n \in I
    BY <1>3
  <2> HIDE DEF N
  <2> QED
    BY <1>2, <2>1, Climb
<1> QED
  BY <1>1, <1>4

\* The departing vehicles are in the plan one after the other, with access.
LEMMA DvsArePlanned ==
  ASSUME NEW S, \A veh \in S : HasTimes(veh), NEW now \in Int,
         NEW dvs \in Seq(S), NEW waiting
  PROVE  LET departing == ScheduleDvs(dvs, waiting, now) IN
         /\ Planned(departing, departing)
         /\ \A i \in 1 .. Len(departing) : departing[i].id \in {veh.id : veh \in ToSet(dvs)}
<1> DEFINE sorted == SortedByPosition(dvs)
           Et(veh) == IF veh.id \in waiting THEN now ELSE veh.et
           Departing(veh, i) ==
             [Entry(veh, veh.state, veh.st, veh.st, Et(veh), i, TRUE)
                EXCEPT !.dt = now + veh.clearance]
           departing == [i \in DOMAIN sorted |-> Departing(sorted[i], i)]
<1>1. ScheduleDvs(dvs, waiting, now) = departing
  BY DEF ScheduleDvs
<1>2. sorted \in Seq(S) /\ ToSet(sorted) = ToSet(dvs)
  BY SortedElements
<1> HIDE DEF sorted
<1>3. \A veh, i : /\ Departing(veh, i).id = veh.id /\ Departing(veh, i).access = TRUE
                  /\ Departing(veh, i).dp = i /\ Departing(veh, i).et = Et(veh)
                  /\ Departing(veh, i).dt = now + veh.clearance /\ Departing(veh, i).st = veh.st
  BY DEF Entry
<1> HIDE DEF Departing
<1>4. Len(sorted) \in Nat /\ DOMAIN sorted = 1 .. Len(sorted)
  BY <1>2
<1>5. /\ IsList(departing) /\ Len(departing) = Len(sorted)
      /\ \A i \in 1 .. Len(departing) : departing[i] = Departing(sorted[i], i)
  <2>1. \A i \in 1 .. Len(sorted) : departing[i] \in ToSet(departing)
    BY <1>4 DEF ToSet
  <2>2. departing \in Seq(ToSet(departing)) /\ Len(departing) = Len(sorted)
    BY <1>4, <2>1
  <2> QED
    BY <1>4, <2>2 DEF IsList
<1> HIDE DEF departing
<1>6. \A i \in 1 .. Len(departing) : sorted[i] \in S /\ sorted[i] \in ToSet(dvs)
  <2>1. \A i \in 1 .. Len(sorted) : sorted[i] \in S /\ sorted[i] \in ToSet(sorted)
    BY <1>2, <1>4 DEF ToSet
  <2> QED
    BY <1>2, <1>5, <2>1
<1>7. ASSUME NEW i \in 1 .. Len(departing)
      PROVE  /\ departing[i].dp = i /\ departing[i].st \in Int
             /\ departing[i].et \in Int /\ departing[i].dt \in Int
             /\ departing[i].access = TRUE
             /\ departing[i].id \in {veh.id : veh \in ToSet(dvs)}
  <2>1. HasTimes(sorted[i])
    BY <1>6
  <2>2. Et(sorted[i]) \in Int /\ now + sorted[i].clearance \in Int /\ sorted[i].st \in Int
    BY <2>1 DEF HasTimes
  <2> HIDE DEF Et
  <2> QED
    BY <1>3, <1>5, <1>6, <2>2
<1>8. Planned(departing, departing)
  <2>1. Len(departing) \in Nat /\ Len(departing) + 1 .. Len(departing) = {}
    BY <1>4, <1>5
  <2>2. WellFormed(departing) /\ InTurn(departing)
    BY <1>5, <1>7 DEF WellFormed, InTurn
  <2> QED
    BY <2>1, <2>2 DEF Planned
<1> QED
  BY <1>1, <1>7, <1>8

\* In every plan, whatever vehicles the list holds and whatever was granted before: the
\* places are the departure positions; nobody gets access before one that waits ahead of
\* it; and who is not departing yet enters only after everybody planned before it that
\* it meets is out of the box (schedule_dvs, schedule_rdvs, schedule_evs).
THEOREM RoundKeepsThemApart ==
  ASSUME AllStopAssumption, NEW S, \A veh \in S : HasTimes(veh),
         NEW list \in Seq(S), NEW now \in Int
  PROVE  LET plan == Round(list, now).schedule IN
         /\ \A i \in 1 .. Len(plan) : plan[i].dp = i
         /\ \A i, j \in 1 .. Len(plan) :
              i < j /\ plan[j].access => plan[i].access
         /\ \A i, j \in 1 .. Len(plan) :
              /\ i < j /\ plan[i].link \in Conflicting[plan[j].link]
              /\ plan[j].id \notin {veh.id : veh \in DepartingOf(list)}
              => plan[i].dt <= plan[j].et
<1> DEFINE considered == Considered(list)
           places == DOMAIN considered
           dvs == Kept(considered, {i \in places : Departs(considered[i])})
           rdvs == Kept(considered,
                        {i \in places : considered[i].state = "RDV" /\ ~ Departs(considered[i])})
           evs == Kept(considered, {i \in places : considered[i].state = "EV"})
           confirmed == {veh.id : veh \in {v \in ToSet(considered) : v.state = "DV"}}
           departing == ScheduleDvs(dvs, granted \ confirmed, now)
           options == Options(rdvs, departing, now)
           stopped == IF rdvs = <<>> THEN departing ELSE BestOption(options)
           entering == {s \in ToSet(stopped) :
                          s.access /\ s.id \in {v.id : v \in ToSet(rdvs)}}
           all == ScheduleEvs(evs, stopped, now)
           plan == Round(list, now).schedule
<1>1. plan = IF rdvs # <<>> /\ options = <<>> THEN departing ELSE all
  <2>1. Round(list, now) = IF rdvs # <<>> /\ options = <<>>
                THEN [schedule |-> departing, granted |-> granted \ confirmed]
                ELSE [schedule |-> all,
                      granted |-> (granted \ confirmed) \cup {s.id : s \in entering}]
    BY DEF Round
  <2> HIDE DEF departing, options, all, entering, confirmed, rdvs
  <2> QED
    BY <2>1
<1>2. /\ dvs \in Seq(S) /\ ToSet(dvs) = DepartingOf(list)
      /\ rdvs \in Seq(S) /\ evs \in Seq(S)
  BY ListsOfRound
<1> HIDE DEF plan, dvs, rdvs, evs, confirmed
<1>3. /\ Planned(departing, departing)
      /\ \A i \in 1 .. Len(departing) : departing[i].id \in {veh.id : veh \in DepartingOf(list)}
  BY <1>2, DvsArePlanned
<1> HIDE DEF departing
<1>4. Planned(plan, departing)
  <2>1. CASE rdvs # <<>> /\ options = <<>>
    BY <1>1, <1>3, <2>1
  <2>2. CASE ~ (rdvs # <<>> /\ options = <<>>)
    <3>1. Planned(stopped, departing)
      <4>1. CASE rdvs = <<>>
        BY <1>3, <4>1
      <4>2. CASE rdvs # <<>>
        <5>1. /\ IsList(options)
              /\ \A option \in ToSet(options) : Planned(option, departing)
          BY <1>2, <1>3, OptionsArePlanned
        <5> HIDE DEF options
        <5>2. BestOption(options) \in ToSet(options)
          BY <2>2, <4>2, <5>1, BestIsOne DEF IsList
        <5> QED
          BY <4>2, <5>1, <5>2
      <4> QED
        BY <4>1, <4>2
    <3> HIDE DEF stopped, options
    <3>2. Planned(all, departing)
      BY <1>2, <3>1, EvsArePlanned
    <3> HIDE DEF all
    <3> QED
      BY <1>1, <2>2, <3>2
  <2> QED
    BY <2>1, <2>2
<1>5. ASSUME NEW i \in 1 .. Len(plan), NEW j \in 1 .. Len(plan), i < j,
             plan[i].link \in Conflicting[plan[j].link],
             plan[j].id \notin {veh.id : veh \in DepartingOf(list)}
      PROVE  plan[i].dt <= plan[j].et
  <2>1. Len(departing) \in Nat /\ Len(plan) \in Nat
    BY <1>4 DEF Planned, WellFormed, IsList
  <2>2. j > Len(departing)
    <3> SUFFICES ASSUME j <= Len(departing) PROVE FALSE
      BY <2>1
    <3>1. j \in 1 .. Len(departing) /\ plan[j] = departing[j]
      BY <1>4, <2>1 DEF Planned
    <3> QED
      BY <1>3, <1>5, <3>1
  <2>3. j \in Len(departing) + 1 .. Len(plan) /\ i \in 1 .. j - 1
    BY <1>5, <2>1, <2>2
  <2> QED
    BY <1>4, <1>5, <2>3 DEF Planned
<1>6. \A i \in 1 .. Len(plan) : plan[i].dp = i
  BY <1>4 DEF Planned, WellFormed
<1>7. InTurn(plan)
  BY <1>4 DEF Planned
<1> QED
  BY <1>5, <1>6, <1>7 DEF plan, InTurn

\* The delay of a plan is a number.
LEMMA DelayIsNumber ==
  ASSUME NEW list, WellFormed(list)
  PROVE  Delay(list) \in Int
<1>1. Len(list) \in Nat
  BY DEF WellFormed, IsList
<1>2. PICK f : /\ Delay(list) = f[Len(list)]
               /\ f[0] = 0
               /\ \A n \in 1 .. Len(list) : f[n] = f[n - 1] + (list[n].et - list[n].st)
  BY <1>1, DelayRecursion
<1> DEFINE I == {n \in 0 .. Len(list) : f[n] \in Int}
<1>3. 0 \in I
  BY <1>1, <1>2
<1>4. ASSUME NEW n \in 1 .. Len(list), n - 1 \in I PROVE n \in I
  <2>1. list[n].et \in Int /\ list[n].st \in Int /\ f[n - 1] \in Int
    BY <1>4 DEF WellFormed
  <2>2. f[n - 1] + (list[n].et - list[n].st) \in Int
    BY <2>1
  <2>3. n \in 0 .. Len(list)
    BY <1>1
  <2> QED
    BY <1>2, <2>2, <2>3
<1>5. Len(list) \in I
  <2> HIDE DEF I
  <2>1. \A n \in 1 .. Len(list) : n - 1 \in I => n \in I
    BY <1>4
  <2> QED
    BY <1>1, <1>3, <2>1, Climb
<1> QED
  BY <1>2, <1>5

\* No option has less delay than the best one.
LEMMA BestIsLeast ==
  ASSUME NEW S, NEW options \in Seq(S), options # <<>>, \A option \in S : Delay(option) \in Int
  PROVE  \A k \in 1 .. Len(options) : Delay(BestOption(options)) <= Delay(options[k])
<1>1. Len(options) \in Nat /\ \A k \in 1 .. Len(options) : options[k] \in S
  OBVIOUS
<1>2. PICK f : /\ BestOption(options) = f[Len(options)]
               /\ f[0] = options[1]
               /\ \A n \in 1 .. Len(options) :
                    f[n] = IF Delay(options[n]) < Delay(f[n - 1]) THEN options[n] ELSE f[n - 1]
  BY <1>1, BestRecursion
<1> DEFINE LeastOf(n) == \A k \in 1 .. n : Delay(f[n]) <= Delay(options[k])
           I == {n \in 0 .. Len(options) : f[n] \in S /\ LeastOf(n)}
<1>3. 0 \in I
  BY <1>1, <1>2
<1>4. ASSUME NEW n \in 1 .. Len(options), n - 1 \in I PROVE n \in I
  <2> DEFINE before == f[n - 1]
  <2>1. /\ before \in S /\ options[n] \in S /\ n \in 0 .. Len(options)
        /\ \A k \in 1 .. n - 1 : Delay(before) <= Delay(options[k])
    BY <1>1, <1>4
  <2>2. f[n] = IF Delay(options[n]) < Delay(before) THEN options[n] ELSE before
    BY <1>2
  <2> HIDE DEF before
  <2>3. /\ Delay(before) \in Int /\ Delay(options[n]) \in Int
        /\ \A k \in 1 .. Len(options) : Delay(options[k]) \in Int
    BY <1>1, <2>1
  <2>4. /\ f[n] \in S /\ Delay(f[n]) \in Int
        /\ Delay(f[n]) <= Delay(options[n]) /\ Delay(f[n]) <= Delay(before)
    <3>1. CASE Delay(options[n]) < Delay(before)
      <4>1. f[n] = options[n]
        BY <2>2, <3>1
      <4> QED
        BY <2>1, <2>3, <3>1, <4>1
    <3>2. CASE ~ (Delay(options[n]) < Delay(before))
      <4>1. f[n] = before
        BY <2>2, <3>2
      <4> QED
        BY <2>1, <2>3, <3>2, <4>1
    <3> QED
      BY <3>1, <3>2
  <2>5. ASSUME NEW k \in 1 .. n PROVE Delay(f[n]) <= Delay(options[k])
    <3>1. CASE k = n
      BY <2>4, <3>1
    <3>2. CASE k # n
      <4>1. k \in 1 .. n - 1 /\ k \in 1 .. Len(options)
        BY <1>1, <3>2
      <4>2. Delay(before) <= Delay(options[k]) /\ Delay(options[k]) \in Int
        BY <2>1, <2>3, <4>1
      <4> QED
        BY <2>3, <2>4, <4>2
    <3> QED
      BY <3>1, <3>2
  <2> QED
    BY <2>1, <2>4, <2>5
<1>5. Len(options) \in I
  <2> HIDE DEF I
  <2>1. \A n \in 1 .. Len(options) : n - 1 \in I => n \in I
    BY <1>4
  <2> QED
    BY <1>1, <1>3, <2>1, Climb
<1> QED
  BY <1>2, <1>5

\* The departing vehicles of a round as it schedules them, and the orders of those that
\* wait that it chooses from.
Departures(list, now) ==
  LET considered == Considered(list)
      confirmed == {veh.id : veh \in {v \in ToSet(considered) : v.state = "DV"}}
  IN ScheduleDvs(Kept(considered, {i \in DOMAIN considered : Departs(considered[i])}),
                 granted \ confirmed, now)

RdvOptions(list, now) ==
  LET considered == Considered(list)
      waiting == {i \in DOMAIN considered :
                    considered[i].state = "RDV" /\ ~ Departs(considered[i])}
  IN Options(Kept(considered, waiting), Departures(list, now), now)

\* When vehicles wait and an order of them is within the flexibility limit, the plan
\* begins with an order of these that has no more delay than any other one
\* (schedule_rdvs, get_delay).
THEOREM LeastDelayIsChosen ==
  ASSUME AllStopAssumption, NEW S, \A veh \in S : HasTimes(veh),
         NEW list \in Seq(S), NEW now \in Int,
         WaitingOf(list) # {}, RdvOptions(list, now) # <<>>
  PROVE  LET plan == Round(list, now).schedule
             choices == RdvOptions(list, now)
         IN \E k \in 1 .. Len(choices) :
              /\ \A i \in 1 .. Len(choices[k]) : plan[i] = choices[k][i]
              /\ Len(choices[k]) <= Len(plan)
              /\ \A m \in 1 .. Len(choices) : Delay(choices[k]) <= Delay(choices[m])
<1> DEFINE considered == Considered(list)
           places == DOMAIN considered
           dvs == Kept(considered, {i \in places : Departs(considered[i])})
           rdvs == Kept(considered,
                        {i \in places : considered[i].state = "RDV" /\ ~ Departs(considered[i])})
           evs == Kept(considered, {i \in places : considered[i].state = "EV"})
           confirmed == {veh.id : veh \in {v \in ToSet(considered) : v.state = "DV"}}
           departing == ScheduleDvs(dvs, granted \ confirmed, now)
           options == Options(rdvs, departing, now)
           stopped == IF rdvs = <<>> THEN departing ELSE BestOption(options)
           entering == {s \in ToSet(stopped) :
                          s.access /\ s.id \in {v.id : v \in ToSet(rdvs)}}
           all == ScheduleEvs(evs, stopped, now)
           plan == Round(list, now).schedule
<1>1. plan = IF rdvs # <<>> /\ options = <<>> THEN departing ELSE all
  <2>1. Round(list, now) = IF rdvs # <<>> /\ options = <<>>
                THEN [schedule |-> departing, granted |-> granted \ confirmed]
                ELSE [schedule |-> all,
                      granted |-> (granted \ confirmed) \cup {s.id : s \in entering}]
    BY DEF Round
  <2> HIDE DEF departing, options, all, entering, confirmed, rdvs
  <2> QED
    BY <2>1
<1>2. RdvOptions(list, now) = options
  BY DEF RdvOptions, Departures
<1>3. /\ dvs \in Seq(S) /\ evs \in Seq(S)
      /\ rdvs \in Seq(S) /\ ToSet(rdvs) = WaitingOf(list)
  BY ListsOfRound
<1> HIDE DEF plan, dvs, rdvs, evs, confirmed
<1>4. rdvs # <<>> /\ options # <<>>
  <2>1. ToSet(<<>>) = {}
    BY DEF ToSet
  <2> HIDE DEF options
  <2> QED
    BY <1>2, <1>3, <2>1
<1>5. Planned(departing, departing)
  BY <1>3, DvsArePlanned
<1> HIDE DEF departing
<1>6. /\ IsList(options)
      /\ \A option \in ToSet(options) : Planned(option, departing)
  BY <1>3, <1>5, OptionsArePlanned
<1> HIDE DEF options
<1>7. plan = ScheduleEvs(evs, BestOption(options), now)
  BY <1>1, <1>4
<1>8. options \in Seq(ToSet(options))
  BY <1>6 DEF IsList
<1>9. PICK k \in 1 .. Len(options) : BestOption(options) = options[k]
  <2>1. BestOption(options) \in ToSet(options)
    BY <1>4, <1>8, BestIsOne
  <2>2. DOMAIN options = 1 .. Len(options)
    BY <1>8
  <2> QED
    BY <2>1, <2>2 DEF ToSet
<1>10. WellFormed(options[k]) /\ InTurn(options[k])
  <2>1. options[k] \in ToSet(options)
    BY <1>4, <1>8, <1>9, BestIsOne
  <2> QED
    BY <1>6, <2>1 DEF Planned
<1>11. Planned(options[k], options[k])
  <2>1. Len(options[k]) \in Nat /\ Len(options[k]) + 1 .. Len(options[k]) = {}
    BY <1>10 DEF WellFormed, IsList
  <2> QED
    BY <1>10, <2>1 DEF Planned
<1>12. Planned(plan, options[k])
  BY <1>3, <1>7, <1>9, <1>11, EvsArePlanned
<1>13. \A m \in 1 .. Len(options) : Delay(options[k]) <= Delay(options[m])
  <2>1. \A option \in ToSet(options) : Delay(option) \in Int
    BY <1>6, DelayIsNumber DEF Planned
  <2> QED
    BY <1>4, <1>8, <1>9, <2>1, BestIsLeast
<1> QED
  BY <1>2, <1>12, <1>13 DEF plan, Planned

-----------------------------------------------------------------------------

\* What the theorem takes for granted: the constants are what the modules assume of
\* them; vehicles come once; a listed vehicle at the bar or in the box is heard in time,
\* and is not purged sooner than it becomes stale; and of two links that conflict each
\* is in the other's list (get_conflict_lanelets_info intersects centerlines).
CrossingAssumption ==
  /\ VehicleListAssumption /\ AllStopAssumption /\ AllStopIntersectionAssumption
  /\ MaxTrips = 1 /\ Timely /\ StaleAfter <= Timeout
  /\ \A v, w \in Vehicles : w \in Conflicting[v] => v \in Conflicting[w]

-----------------------------------------------------------------------------
(***************************************************************************)
(* Types, as far as the proof needs them.                                  *)
(***************************************************************************)

ListShape ==
  /\ IsFiniteSet(DOMAIN vehicles) /\ DOMAIN vehicles \subseteq Vehicles
  /\ \A v \in DOMAIN vehicles :
       {"age", "state"} \subseteq DOMAIN vehicles[v] /\ vehicles[v].age \in Ages

TripShape ==
  /\ pos \in [Vehicles -> Positions] /\ DOMAIN access = Vehicles
  /\ trips \in [Vehicles -> {0, 1}]

UpdateFields == {"id", "age", "lane", "stopped", "access", "valid"}

UpdateShape ==
  \A m \in updates : UpdateFields \subseteq DOMAIN m /\ m.id \in Vehicles /\ m.age \in Ages

Shape == ListShape /\ TripShape /\ UpdateShape

LEMMA InitIsShaped ==
  ASSUME CrossingAssumption, Init
  PROVE  Shape /\ CrossingInv
<1>1. ListShape
  <2>1. DOMAIN vehicles = {}
    BY DEF Init, TrackingInit
  <2> QED
    BY <2>1, FS_EmptySet DEF ListShape
<1>2. TripShape
  BY DEF Init, TrackingInit, TripShape, Positions
<1>3. UpdateShape
  BY DEF Init, TrackingInit, UpdateShape
<1>4. AccessInv
  BY DEF Init, TrackingInit, AccessInv, ToldToEnter, IsListed
<1>5. SightInv
  BY DEF Init, TrackingInit, SightInv, SeenStopped, SeenLeaving, IsListed
<1>6. TripInv
  BY DEF Init, TrackingInit, TripInv
<1>7. ClaimsInv
  BY DEF Init, TrackingInit, ClaimsInv, Claims, AtTheBar
<1> QED
  BY <1>1, <1>2, <1>3, <1>4, <1>5, <1>6, <1>7 DEF Shape, CrossingInv

-----------------------------------------------------------------------------
(***************************************************************************)
(* The steps around the schedule.                                          *)
(***************************************************************************)

\* Nobody is told to enter, and who departs departs until it passed.
Calm ==
  \A v \in Vehicles :
    /\ ToldToEnter(v)' => ToldToEnter(v)
    /\ Claims(v)' => Claims(v)
    /\ Claims(v) => Claims(v)' \/ Passed(v)'
    /\ Passed(v) => Passed(v)'

LEMMA CalmKeeps ==
  ASSUME AccessInv, ClaimsInv, Calm
  PROVE  AccessInv' /\ ClaimsInv'
<1>1. AccessInv'
  BY DEF AccessInv, Calm
<1>2. ClaimsInv'
  BY DEF ClaimsInv, Calm
<1> QED
  BY <1>1, <1>2

\* A vehicle comes: there was nothing to be known of it.
LEMMA ArriveKeeps ==
  ASSUME CrossingAssumption, Shape, CrossingInv, NEW v \in Vehicles, Arrive(v),
         UNCHANGED schedulerVars
  PROVE  Calm /\ Shape' /\ SightInv' /\ TripInv'
<1> USE DEF CrossingAssumption, Shape, CrossingInv
<1>1. /\ pos[v] = "away" /\ pos' = [pos EXCEPT ![v] = "approach"]
      /\ trips[v] = 0 /\ trips' = [trips EXCEPT ![v] = 1]
      /\ access' = [access EXCEPT ![v] = FALSE]
      /\ UNCHANGED <<vehicles, updates, granted, schedule>>
  <2>1. /\ pos[v] = "away" /\ pos' = [pos EXCEPT ![v] = "approach"]
        /\ access' = [access EXCEPT ![v] = FALSE]
        /\ UNCHANGED <<vehicles, updates, granted, schedule>>
    BY DEF Arrive, Move, schedulerVars
  <2>2. trips[v] < 1 /\ trips' = [trips EXCEPT ![v] = trips[v] + 1]
    BY DEF Arrive
  <2>3. trips[v] = 0
    <3>1. trips[v] \in {0, 1}
      BY DEF TripShape
    <3> QED
      BY <2>2, <3>1
  <2> QED
    BY <2>1, <2>2, <2>3
<1>2. ~ ToldToEnter(v) /\ ~ SeenStopped(v) /\ ~ SeenLeaving(v) /\ ~ Claims(v) /\ ~ Passed(v)
  BY <1>1 DEF AccessInv, SightInv, Claims, AtTheBar, Passed
<1>3. Shape'
  BY <1>1 DEF ListShape, TripShape, UpdateShape, Positions
<1>4. \A w \in Vehicles : /\ SeenStopped(w)' = SeenStopped(w)
                          /\ SeenLeaving(w)' = SeenLeaving(w)
  BY <1>1 DEF SeenStopped, SeenLeaving, IsListed
<1>5. \A w \in Vehicles : w # v => pos'[w] = pos[w] /\ trips'[w] = trips[w] /\ access'[w] = access[w]
  BY <1>1 DEF TripShape
<1>6. pos'[v] = "approach" /\ trips'[v] = 1 /\ access'[v] = FALSE
  BY <1>1 DEF TripShape
<1>7. \A w \in Vehicles : ToldToEnter(w)' => ToldToEnter(w)
  BY <1>1, <1>5, <1>6 DEF ToldToEnter, IsListed
<1>8. \A w \in Vehicles : /\ Claims(w)' => Claims(w)
                          /\ Claims(w) => Claims(w)' \/ Passed(w)'
  BY <1>1, <1>2, <1>5, <1>6 DEF Claims, AtTheBar, IsListed
<1>9. \A w \in Vehicles : Passed(w) => Passed(w)'
  BY <1>2, <1>5 DEF Passed
<1>10. SightInv'
  BY <1>2, <1>4, <1>5, <1>9 DEF SightInv, AtTheBar
<1>11. TripInv'
  BY <1>5, <1>6 DEF TripInv
<1> QED
  BY <1>3, <1>7, <1>8, <1>9, <1>10, <1>11 DEF Calm

\* A vehicle drives on: to the bar, where it stays until it knows that it may enter;
\* whoever leaves the box has passed.
LEMMA DriveKeeps ==
  ASSUME CrossingAssumption, Shape, CrossingInv, NEW v \in Vehicles, Drive(v),
         UNCHANGED schedulerVars
  PROVE  Calm /\ Shape' /\ SightInv' /\ TripInv'
<1> USE DEF CrossingAssumption, Shape, CrossingInv
<1>1. UNCHANGED <<vehicles, access, trips, updates, granted, schedule>>
  BY DEF Drive, schedulerVars
<1>2. PICK from \in Positions, to \in Positions :
        /\ pos[v] = from /\ pos' = [pos EXCEPT ![v] = to]
        /\ \/ from = "approach" /\ to = "bar"
           \/ from = "bar" /\ to = "box" /\ access[v]
           \/ from = "box" /\ to = "left"
           \/ from = "left" /\ to = "away"
  BY DEF Drive, Enter, Move, AllStopIntersectionAssumption, Positions
<1>3. pos'[v] = to /\ \A w \in Vehicles : w # v => pos'[w] = pos[w]
  BY <1>2 DEF TripShape
<1>4. trips[v] = MaxTrips
  BY <1>2 DEF TripInv
<1>5. Shape'
  BY <1>1, <1>2 DEF ListShape, TripShape, UpdateShape
<1>6. \A w \in Vehicles : /\ SeenStopped(w)' = SeenStopped(w)
                          /\ SeenLeaving(w)' = SeenLeaving(w)
                          /\ ToldToEnter(w)' = ToldToEnter(w)
                          /\ \A states : IsListed(w, states)' = IsListed(w, states)
  BY <1>1 DEF SeenStopped, SeenLeaving, ToldToEnter, IsListed
<1>7. \A w \in Vehicles : Passed(w) => Passed(w)'
  BY <1>1, <1>2, <1>3, <1>4 DEF Passed
<1>8. \A w \in Vehicles : AtTheBar(w) => AtTheBar(w)' \/ Passed(w)'
  BY <1>2, <1>3 DEF AtTheBar, Passed
<1>9. \A w \in Vehicles : Claims(w)' => Claims(w)
  <2> SUFFICES ASSUME NEW w \in Vehicles, Claims(w)'
               PROVE  Claims(w)
    OBVIOUS
  <2>1. ToldToEnter(w)
    BY <1>1 DEF Claims, ToldToEnter, IsListed
  <2>2. ~ Passed(w)
    BY <1>7 DEF Claims, AtTheBar, Passed
  <2> QED
    BY <2>1, <2>2 DEF AccessInv
<1>10. \A w \in Vehicles : Claims(w) => Claims(w)' \/ Passed(w)'
  BY <1>1, <1>8 DEF Claims, IsListed
<1>11. SightInv'
  BY <1>6, <1>7, <1>8 DEF SightInv
<1>12. TripInv'
  BY <1>1, <1>2, <1>3, <1>4 DEF TripInv
<1> QED
  BY <1>5, <1>6, <1>7, <1>9, <1>10, <1>11, <1>12 DEF Calm

\* Claiming to depart is to be told to enter: where no vehicle moves, it is enough that
\* nobody is told so, and that nobody who departs is forgotten.
LEMMA StandingStillIsCalm ==
  ASSUME AccessInv, UNCHANGED <<pos, trips>>,
         \A w \in Vehicles : ToldToEnter(w)' => ToldToEnter(w),
         \A w \in Vehicles : Claims(w) => Claims(w)'
  PROVE  Calm
<1>1. \A w \in Vehicles : Passed(w)' = Passed(w)
  BY DEF Passed
<1>2. \A w \in Vehicles : Claims(w)' => Claims(w)
  <2> SUFFICES ASSUME NEW w \in Vehicles, Claims(w)'
               PROVE  Claims(w)
    OBVIOUS
  <2>1. ToldToEnter(w)'
    BY DEF Claims, ToldToEnter, IsListed
  <2>2. ~ Passed(w)
    BY DEF Claims, AtTheBar, Passed
  <2> QED
    BY <2>1, <2>2 DEF AccessInv
<1> QED
  BY <1>1, <1>2 DEF Calm

\* An update says no more than its vehicle knows, and is where it says it is.
LEMMA SendKeeps ==
  ASSUME CrossingAssumption, Shape, CrossingInv, NEW v \in Vehicles, Send(v),
         UNCHANGED schedulerVars
  PROVE  Calm /\ Shape' /\ SightInv' /\ TripInv'
<1> USE DEF CrossingAssumption, Shape, CrossingInv
<1>1. UNCHANGED <<vehicles, pos, access, trips, granted, schedule>> /\ pos[v] # "away"
  BY DEF Send, schedulerVars
<1>2. PICK valid \in BOOLEAN :
        updates' = updates \cup
          {[id |-> v, age |-> 0, lane |-> LaneAt(pos[v]), stopped |-> pos[v] = "bar",
            access |-> access[v], dp |-> dp[v], valid |-> valid]}
  BY DEF Send
<1> DEFINE u == [id |-> v, age |-> 0, lane |-> LaneAt(pos[v]), stopped |-> pos[v] = "bar",
                 access |-> access[v], dp |-> dp[v], valid |-> valid]
<1>3. /\ UpdateFields \subseteq DOMAIN u /\ u.id = v /\ u.age = 0 /\ u.access = access[v]
      /\ u.stopped = (pos[v] = "bar") /\ u.lane = LaneAt(pos[v])
  BY DEF UpdateFields
<1>4. u.lane = "exit" => pos[v] = "left"
  BY <1>1, <1>3 DEF LaneAt, TripShape, Positions
<1>5. updates' = updates \cup {u}
  BY <1>2
<1> HIDE DEF u
<1>6. Shape'
  <2>1. 0 \in Ages
    BY DEF Ages, VehicleListAssumption
  <2> QED
    BY <1>1, <1>3, <1>5, <2>1 DEF ListShape, TripShape, UpdateShape
<1>7. \A w \in Vehicles : ToldToEnter(w)' => ToldToEnter(w)
  BY <1>1, <1>3, <1>5 DEF ToldToEnter, IsListed
<1>8. Calm
  BY <1>1, <1>7, StandingStillIsCalm DEF Claims, AtTheBar, IsListed
<1>9. SightInv'
  <2> SUFFICES ASSUME NEW w \in Vehicles
               PROVE  /\ SeenStopped(w)' => (AtTheBar(w) \/ Passed(w))'
                      /\ SeenLeaving(w)' => Passed(w)'
    BY DEF SightInv
  <2>1. Passed(w)' = Passed(w) /\ AtTheBar(w)' = AtTheBar(w)
    BY <1>1 DEF Passed, AtTheBar
  <2>2. SeenStopped(w)' => SeenStopped(w) \/ AtTheBar(w)
    BY <1>1, <1>3, <1>5 DEF SeenStopped, IsListed, AtTheBar
  <2>3. SeenLeaving(w)' => SeenLeaving(w) \/ Passed(w)
    BY <1>1, <1>3, <1>4, <1>5 DEF SeenLeaving, IsListed, Passed
  <2> QED
    BY <2>1, <2>2, <2>3 DEF SightInv
<1>10. TripInv'
  BY <1>1 DEF TripInv
<1> QED
  BY <1>6, <1>8, <1>9, <1>10

\* An update is lost.
LEMMA LoseKeeps ==
  ASSUME CrossingAssumption, Shape, CrossingInv, NEW m \in updates, Lose(m),
         UNCHANGED schedulerVars
  PROVE  Calm /\ Shape' /\ SightInv' /\ TripInv'
<1> USE DEF CrossingAssumption, Shape, CrossingInv
<1>1. UNCHANGED <<vehicles, pos, access, trips, granted, schedule>> /\ updates' \subseteq updates
  BY DEF Lose, schedulerVars
<1>2. Shape'
  BY <1>1 DEF ListShape, TripShape, UpdateShape
<1>3. \A w \in Vehicles : ToldToEnter(w)' => ToldToEnter(w)
  BY <1>1 DEF ToldToEnter, IsListed
<1>4. Calm
  BY <1>1, <1>3, StandingStillIsCalm DEF Claims, AtTheBar, IsListed
<1>5. SightInv'
  BY <1>1 DEF SightInv, SeenStopped, SeenLeaving, IsListed, AtTheBar, Passed
<1>6. TripInv'
  BY <1>1 DEF TripInv
<1> QED
  BY <1>2, <1>4, <1>5, <1>6

\* A vehicle that waits takes its entry of the schedule.
LEMMA ReceiveKeeps ==
  ASSUME CrossingAssumption, Shape, CrossingInv, NEW v \in Vehicles, Receive(v)
  PROVE  Calm /\ Shape' /\ SightInv' /\ TripInv'
<1> USE DEF CrossingAssumption, Shape, CrossingInv
<1>1. PICK i \in DOMAIN schedule :
        /\ schedule[i].id = v /\ pos[v] \in {"approach", "bar"}
        /\ access' = [access EXCEPT ![v] = schedule[i].access]
        /\ UNCHANGED <<vehicles, pos, trips, updates, granted, schedule>>
  BY DEF Receive, schedulerVars
<1>2. /\ access'[v] = schedule[i].access
      /\ \A w \in Vehicles : w # v => access'[w] = access[w]
  BY <1>1 DEF TripShape
<1>3. Shape'
  BY <1>1 DEF ListShape, TripShape, UpdateShape
<1>4. \A w \in Vehicles : ToldToEnter(w)' => ToldToEnter(w)
  BY <1>1, <1>2 DEF ToldToEnter, IsListed
<1>5. Calm
  BY <1>1, <1>4, StandingStillIsCalm DEF Claims, AtTheBar, IsListed
<1>6. SightInv'
  BY <1>1 DEF SightInv, SeenStopped, SeenLeaving, IsListed, AtTheBar, Passed
<1>7. TripInv'
  BY <1>1, <1>2 DEF TripInv
<1> QED
  BY <1>3, <1>5, <1>6, <1>7

\* The clock: who is at the bar or in the box was heard in time, and is not stale yet.
LEMMA TimePasses ==
  ASSUME CrossingAssumption, Shape, CrossingInv, PassTime
  PROVE  Calm /\ Shape' /\ SightInv' /\ TripInv'
<1> USE DEF CrossingAssumption, Shape, CrossingInv
<1>1. /\ UNCHANGED <<pos, access, trips, granted, schedule>>
      /\ vehicles' = [v \in DOMAIN vehicles |-> [vehicles[v] EXCEPT !.age = Older(vehicles[v].age)]]
      /\ updates' = {[m EXCEPT !.age = Older(m.age)] : m \in updates}
      /\ \A v \in Vehicles : HeardInTime(v)
  BY DEF PassTime, Tick, ListGrowsOld, schedulerVars
<1>2. Timeout \in Nat /\ StaleAfter \in Nat
  BY DEF VehicleListAssumption, AllStopAssumption
<1>3. \A age \in Ages : Older(age) \in Ages /\ (age < StaleAfter => Older(age) <= StaleAfter)
  BY <1>2 DEF Ages, Older
<1>4. /\ DOMAIN vehicles' = DOMAIN vehicles
      /\ \A v \in DOMAIN vehicles :
           /\ DOMAIN vehicles'[v] = DOMAIN vehicles[v]
           /\ vehicles'[v].age = Older(vehicles[v].age)
           /\ vehicles'[v].state = vehicles[v].state
  BY <1>1 DEF ListShape
<1>5. \A u \in updates' : \E m \in updates :
        /\ DOMAIN u = DOMAIN m /\ u.age = Older(m.age) /\ u.id = m.id
        /\ u.lane = m.lane /\ u.stopped = m.stopped /\ u.access = m.access
  <2> DEFINE Aged(m) == [m EXCEPT !.age = Older(m.age)]
  <2>1. \A m \in updates :
          /\ DOMAIN Aged(m) = DOMAIN m /\ Aged(m).age = Older(m.age) /\ Aged(m).id = m.id
          /\ Aged(m).lane = m.lane /\ Aged(m).stopped = m.stopped
          /\ Aged(m).access = m.access
    BY DEF UpdateShape, UpdateFields
  <2>2. updates' = {Aged(m) : m \in updates}
    BY <1>1
  <2> HIDE DEF Aged
  <2> QED
    BY <2>1, <2>2
<1>6. Shape'
  <2>1. ListShape'
    BY <1>3, <1>4 DEF ListShape
  <2>2. UpdateShape'
    <3> SUFFICES ASSUME NEW u \in updates'
                 PROVE  UpdateFields \subseteq DOMAIN u /\ u.id \in Vehicles /\ u.age \in Ages
      BY DEF UpdateShape
    <3> QED
      BY <1>3, <1>5 DEF UpdateShape
  <2> QED
    BY <1>1, <2>1, <2>2 DEF TripShape
<1>7. \A w \in Vehicles : \A states : IsListed(w, states)' = IsListed(w, states)
  BY <1>4 DEF IsListed
<1>8. \A w \in Vehicles : ToldToEnter(w)' => ToldToEnter(w)
  BY <1>1, <1>5, <1>7 DEF ToldToEnter
<1>9. \A w \in Vehicles : Claims(w) => Claims(w)'
  <2> SUFFICES ASSUME NEW w \in Vehicles, Claims(w)
               PROVE  Claims(w)'
    OBVIOUS
  <2>1. w \in DOMAIN vehicles /\ AtTheBar(w)
    BY DEF Claims, IsListed
  <2>2. vehicles[w].age < StaleAfter
    BY <1>1, <2>1 DEF HeardInTime, AtTheBar
  <2>3. vehicles'[w].age <= StaleAfter
    BY <1>3, <1>4, <2>1, <2>2 DEF ListShape
  <2>4. AtTheBar(w)'
    BY <1>1, <2>1 DEF AtTheBar
  <2> QED
    BY <1>1, <1>7, <2>3, <2>4 DEF Claims
<1>10. Calm
  BY <1>1, <1>8, <1>9, StandingStillIsCalm
<1>11. SightInv'
  <2> SUFFICES ASSUME NEW w \in Vehicles
               PROVE  /\ SeenStopped(w)' => (AtTheBar(w) \/ Passed(w))'
                      /\ SeenLeaving(w)' => Passed(w)'
    BY DEF SightInv
  <2>1. Passed(w)' = Passed(w) /\ AtTheBar(w)' = AtTheBar(w)
    BY <1>1 DEF Passed, AtTheBar
  <2>2. (SeenStopped(w)' => SeenStopped(w)) /\ (SeenLeaving(w)' => SeenLeaving(w))
    BY <1>5, <1>7 DEF SeenStopped, SeenLeaving
  <2> QED
    BY <2>1, <2>2 DEF SightInv
<1>12. TripInv'
  BY <1>1 DEF TripInv
<1> QED
  BY <1>6, <1>10, <1>11, <1>12

\* purge_old_vehicles leaves everybody who is not stale.
LEMMA PurgedList ==
  ASSUME CrossingAssumption, ListShape
  PROVE  /\ DOMAIN Purged(vehicles) = {w \in DOMAIN vehicles : vehicles[w].age <= Timeout}
         /\ \A w \in DOMAIN Purged(vehicles) : Purged(vehicles)[w] = vehicles[w]
         /\ IsFiniteSet(DOMAIN Purged(vehicles))
         /\ \A w \in Vehicles : Claims(w) => w \in DOMAIN Purged(vehicles)
<1>1. /\ DOMAIN Purged(vehicles) = {w \in DOMAIN vehicles : vehicles[w].age <= Timeout}
      /\ \A w \in DOMAIN Purged(vehicles) : Purged(vehicles)[w] = vehicles[w]
  BY DEF Purged
<1>2. IsFiniteSet(DOMAIN Purged(vehicles))
  BY <1>1, FS_Subset DEF ListShape
<1>3. ASSUME NEW w \in Vehicles, Claims(w)
      PROVE  w \in DOMAIN Purged(vehicles)
  <2>1. w \in DOMAIN vehicles /\ vehicles[w].age <= StaleAfter
    BY <1>3 DEF Claims, IsListed
  <2>2. vehicles[w].age \in Int /\ StaleAfter \in Int /\ Timeout \in Int
    BY <2>1 DEF ListShape, Ages, CrossingAssumption, AllStopAssumption, VehicleListAssumption
  <2> QED
    BY <1>1, <2>1, <2>2 DEF CrossingAssumption
<1> QED
  BY <1>1, <1>2, <1>3

\* The list takes an update, or leaves it; it learns of a vehicle only what its update
\* says, a state at a time.
LEMMA DeliverKeeps ==
  ASSUME CrossingAssumption, Shape, CrossingInv, NEW m \in updates, Deliver(m),
         UNCHANGED schedulerVars
  PROVE  Calm /\ Shape' /\ SightInv' /\ TripInv'
<1> USE DEF CrossingAssumption, Shape, CrossingInv
<1> DEFINE list == Purged(vehicles)
<1>1. /\ UNCHANGED <<pos, access, trips, granted, schedule>> /\ updates' \subseteq updates
      /\ vehicles' = IF Accepted(list, m)
                       THEN [v \in DOMAIN list \cup {m.id} |->
                               IF v = m.id THEN Processed(list, m) ELSE list[v]]
                       ELSE list
  BY DEF Deliver, ProcessUpdate, schedulerVars
<1>2. /\ DOMAIN list \subseteq DOMAIN vehicles /\ IsFiniteSet(DOMAIN list)
      /\ \A w \in DOMAIN list : list[w] = vehicles[w]
      /\ \A w \in Vehicles : Claims(w) => w \in DOMAIN list
  BY PurgedList
<1>3. m.id \in Vehicles /\ m.age \in Ages
  BY DEF UpdateShape
<1> DEFINE old == IF m.id \in DOMAIN list THEN vehicles[m.id].state ELSE "ND"
           new == Processed(list, m)
<1>4. /\ {"age", "state"} \subseteq DOMAIN new /\ new.age = m.age
      /\ new.state = AllStopState(old, m)
  BY <1>2 DEF Processed, NextState, AllStopIntersectionAssumption
<1> HIDE DEF new, list
<1>5. \/ vehicles' = list
      \/ /\ DOMAIN vehicles' = DOMAIN list \cup {m.id} /\ vehicles'[m.id] = new
         /\ \A w \in DOMAIN list : w # m.id => vehicles'[w] = list[w]
         /\ m.id \in DOMAIN list => m.age < list[m.id].age
  BY <1>1 DEF Accepted, new
<1>6. Shape'
  <2>1. ListShape'
    <3>1. CASE vehicles' = list
      BY <1>2, <3>1 DEF ListShape
    <3>2. CASE vehicles' # list
      <4>1. IsFiniteSet(DOMAIN list \cup {m.id})
        BY <1>2, FS_AddElement
      <4> QED
        BY <1>2, <1>3, <1>4, <1>5, <3>2, <4>1 DEF ListShape
    <3> QED
      BY <3>1, <3>2
  <2> QED
    BY <1>1, <2>1 DEF TripShape, UpdateShape
\* What the list knew, or learns now.
<1>7. ASSUME NEW w \in Vehicles, NEW s, w \in DOMAIN vehicles', vehicles'[w].state = s
      PROVE  \/ w \in DOMAIN vehicles /\ vehicles[w].state = s
             \/ w = m.id /\ s = AllStopState(old, m)
  BY <1>2, <1>4, <1>5, <1>7
<1>8. old = "ND" \/ (m.id \in DOMAIN vehicles /\ vehicles[m.id].state = old)
  BY <1>2
<1>9. /\ AllStopState(old, m) = "RDV" => old = "RDV" \/ (old = "EV" /\ m.stopped)
      /\ AllStopState(old, m) = "DV" => old = "DV" \/ (old = "RDV" /\ m.access)
      /\ AllStopState(old, m) = "LV" => old = "LV" \/ (old = "DV" /\ m.lane = "exit")
  BY DEF AllStopState
<1> HIDE DEF old
<1>10. \A w \in Vehicles : IsListed(w, {"DV"})' => IsListed(w, {"DV"}) \/ (w = m.id /\ m.access)
  BY <1>7, <1>8, <1>9 DEF IsListed
<1>11. \A w \in Vehicles : ToldToEnter(w)' => ToldToEnter(w)
  BY <1>1, <1>10 DEF ToldToEnter
<1>12. \A w \in Vehicles : SeenStopped(w)' => SeenStopped(w)
  <2>1. \A w \in Vehicles : IsListed(w, {"RDV", "DV"})'
          => IsListed(w, {"RDV", "DV"}) \/ (w = m.id /\ m.stopped)
    BY <1>7, <1>8, <1>9 DEF IsListed
  <2> QED
    BY <1>1, <2>1 DEF SeenStopped
<1>13. \A w \in Vehicles : SeenLeaving(w)' => SeenLeaving(w)
  <2>1. \A w \in Vehicles : IsListed(w, {"LV"})'
          => IsListed(w, {"LV"}) \/ (w = m.id /\ m.lane = "exit")
    BY <1>7, <1>8, <1>9 DEF IsListed
  <2> QED
    BY <1>1, <2>1 DEF SeenLeaving
<1>14. ASSUME NEW w \in Vehicles, Claims(w)
       PROVE  Claims(w)'
  <2>1. /\ AtTheBar(w) /\ w \in DOMAIN list
        /\ vehicles[w].state = "DV" \/ (vehicles[w].state = "RDV" /\ w \in granted)
        /\ vehicles[w].age <= StaleAfter
    BY <1>2, <1>14 DEF Claims, IsListed
  <2>2. AtTheBar(w)'
    BY <1>1, <2>1 DEF AtTheBar
  <2>3. CASE vehicles' = list \/ w # m.id
    <3>1. w \in DOMAIN vehicles' /\ vehicles'[w] = vehicles[w]
      BY <1>2, <1>5, <2>1, <2>3
    <3> QED
      BY <1>1, <2>1, <2>2, <3>1 DEF Claims, IsListed
  <2>4. CASE vehicles' # list /\ w = m.id
    <3>1. ~ Passed(w)
      BY <2>1 DEF AtTheBar, Passed
    <3>2. m.lane # "exit"
      BY <2>4, <3>1 DEF SightInv, SeenLeaving
    <3>3. old = vehicles[w].state
      BY <2>1, <2>4 DEF old
    <3>4. new.state = "DV" \/ (new.state = "RDV" /\ w \in granted)
      BY <1>4, <2>1, <3>2, <3>3 DEF AllStopState
    <3>5. new.age <= StaleAfter
      <4>1. m.age < vehicles[w].age
        BY <1>2, <1>5, <2>1, <2>4
      <4>2. m.age \in Int /\ vehicles[w].age \in Int /\ StaleAfter \in Int
        BY <1>2, <1>3, <2>1 DEF ListShape, Ages, AllStopAssumption
      <4> QED
        BY <1>4, <2>1, <4>1, <4>2
    <3>6. w \in DOMAIN vehicles' /\ vehicles'[w] = new
      BY <1>5, <2>4
    <3> QED
      BY <1>1, <2>2, <3>4, <3>5, <3>6 DEF Claims, IsListed
  <2> QED
    BY <2>3, <2>4
<1>15. Calm
  BY <1>1, <1>11, <1>14, StandingStillIsCalm
<1>16. SightInv'
  <2>1. \A w \in Vehicles : Passed(w)' = Passed(w) /\ AtTheBar(w)' = AtTheBar(w)
    BY <1>1 DEF Passed, AtTheBar
  <2> QED
    BY <1>12, <1>13, <2>1 DEF SightInv
<1>17. TripInv'
  BY <1>1 DEF TripInv
<1> QED
  BY <1>6, <1>15, <1>16, <1>17

-----------------------------------------------------------------------------
(***************************************************************************)
(* A pass of the scheduling thread.                                        *)
(***************************************************************************)

\* An order of a finite set has each of its elements once.
LEMMA EachOnce ==
  ASSUME NEW S, IsFiniteSet(S), NEW order \in SetToSeqs(S)
  PROVE  /\ DOMAIN order = 1 .. Cardinality(S) /\ Cardinality(S) \in Nat
         /\ \A i \in DOMAIN order : order[i] \in S
         /\ \A x \in S : \E i \in DOMAIN order : order[i] = x
<1> DEFINE n == Cardinality(S)
<1>1. n \in Nat
  BY FS_CardinalityType
<1>2. order \in [1 .. n -> S] /\ \A i, j \in 1 .. n : i # j => order[i] # order[j]
  BY DEF SetToSeqs
<1> HIDE DEF n
<1>3. order \in Injection(1 .. n, S)
  BY <1>2 DEF Injection, IsInjective
<1>4. Cardinality(1 .. n) = n
  BY <1>1, FS_Interval
<1>5. order \in Surjection(1 .. n, S)
  BY <1>3, <1>4, FS_Injection DEF n
<1>6. \A x \in S : \E i \in 1 .. n : order[i] = x
  BY <1>5 DEF Surjection
<1> QED
  BY <1>1, <1>2, <1>6 DEF n

\* What the scheduler reads: every listed vehicle, once.
LEMMA ReadsTheList ==
  ASSUME NEW list, IsFiniteSet(DOMAIN list), NEW order \in SetToSeqs(DOMAIN list)
  PROVE  LET all == {Listed(list, v) : v \in DOMAIN list}
             read == [i \in DOMAIN order |-> Listed(list, order[i])]
         IN read \in Seq(all) /\ ToSet(read) = all /\ HaveOwnIds(read)
<1> DEFINE all == {Listed(list, v) : v \in DOMAIN list}
           read == [i \in DOMAIN order |-> Listed(list, order[i])]
           n == Cardinality(DOMAIN list)
<1>1. /\ DOMAIN order = 1 .. n /\ n \in Nat
      /\ \A i \in DOMAIN order : order[i] \in DOMAIN list
      /\ \A x \in DOMAIN list : \E i \in DOMAIN order : order[i] = x
  BY EachOnce
<1> HIDE DEF n
<1>2. \A i \in 1 .. n : Listed(list, order[i]) \in all
  BY <1>1
<1>3. \A veh \in all : \E i \in 1 .. n : veh = Listed(list, order[i])
  BY <1>1
<1>4. \A v, w \in all : v.id = w.id => v = w
  <2>1. \A v : Listed(list, v).id = v
    BY DEF Listed
  <2> QED
    BY <2>1
<1> HIDE DEF all
<1>5. read = [i \in 1 .. n |-> Listed(list, order[i])]
  BY <1>1
<1>6. read \in Seq(all)
  BY <1>1, <1>2, <1>5
<1>7. ToSet(read) = all
  BY <1>2, <1>3, <1>5 DEF ToSet
<1> QED
  BY <1>4, <1>6, <1>7 DEF HaveOwnIds, all

\* Nobody who departs is forgotten by a round, and whom it lets in stands at the bar and
\* conflicts with nobody who departs.
LEMMA ScheduleKeeps ==
  ASSUME CrossingAssumption, Shape, CrossingInv, Schedule
  PROVE  Shape' /\ CrossingInv'
<1> USE DEF CrossingAssumption, Shape, CrossingInv
<1> DEFINE list == Purged(vehicles)
           all == {Listed(list, v) : v \in DOMAIN list}
<1>1. PICK order \in SetToSeqs(DOMAIN list) :
        ScheduleVehicles([i \in DOMAIN order |-> Listed(list, order[i])], 1)
  BY DEF Schedule
<1> DEFINE read == [i \in DOMAIN order |-> Listed(list, order[i])]
           round == Round(read, 1)
<1>2. /\ UNCHANGED <<pos, access, trips, updates>> /\ vehicles' = list
      /\ schedule' = round.schedule /\ granted' = round.granted
  BY <1>1 DEF Schedule, GetVehicles, ScheduleVehicles
<1>3. /\ DOMAIN list = {w \in DOMAIN vehicles : vehicles[w].age <= Timeout}
      /\ \A w \in DOMAIN list : list[w] = vehicles[w]
      /\ IsFiniteSet(DOMAIN list)
      /\ \A w \in Vehicles : Claims(w) => w \in DOMAIN list
  BY PurgedList
<1> HIDE DEF list
<1>4. read \in Seq(all) /\ ToSet(read) = all /\ HaveOwnIds(read)
  BY <1>3, ReadsTheList
<1>5. \A w : /\ Listed(list, w).id = w /\ Listed(list, w).link = w
            /\ Listed(list, w).state = list[w].state /\ Listed(list, w).age = list[w].age
  BY DEF Listed
<1> HIDE DEF read, round
<1>6. RoundIsSafe(read, round)
  BY <1>4, RoundLetsInSafely DEF round
<1> DEFINE Veh(w) == Listed(list, w)
<1>7. Heard(read) = {veh \in all : 0 <= veh.age /\ veh.age <= StaleAfter}
  BY <1>4 DEF Heard
<1>8. \A w \in DOMAIN list : w \in Vehicles /\ 0 <= list[w].age
  <2> SUFFICES ASSUME NEW w \in DOMAIN list
               PROVE  w \in Vehicles /\ 0 <= list[w].age
    OBVIOUS
  <2>1. w \in Vehicles /\ list[w].age \in Ages
    BY <1>3 DEF ListShape
  <2>2. \A age \in Ages : 0 <= age
    BY DEF Ages, VehicleListAssumption
  <2> QED
    BY <2>1, <2>2
<1>9. \A w \in DOMAIN list : Veh(w) \in Heard(read) <=> list[w].age <= StaleAfter
  BY <1>5, <1>7, <1>8
<1>10. \A veh \in Heard(read) : veh.id \in DOMAIN list /\ veh = Veh(veh.id)
  BY <1>5, <1>7
<1> HIDE DEF all, Veh
<1>11. \A w \in DOMAIN list :
         Veh(w) \in DepartingOf(read)
           <=> /\ list[w].age <= StaleAfter
               /\ list[w].state = "DV" \/ (list[w].state = "RDV" /\ w \in granted)
  BY <1>5, <1>9 DEF DepartingOf, Departs, Veh
<1>12. \A w \in DOMAIN list :
         Veh(w) \in WaitingOf(read)
           <=> list[w].age <= StaleAfter /\ list[w].state = "RDV" /\ w \notin granted
  BY <1>5, <1>9 DEF WaitingOf, Departs, Veh
<1>13. \A w \in ConfirmedOf(read) : w \in DOMAIN list /\ list[w].state = "DV"
  BY <1>5, <1>10 DEF ConfirmedOf, Veh
<1>14. \A w \in Vehicles : Passed(w)' = Passed(w) /\ AtTheBar(w)' = AtTheBar(w)
  BY <1>2 DEF Passed, AtTheBar
<1>15. \A w \in Vehicles : \A states : IsListed(w, states)' => IsListed(w, states)
  BY <1>2, <1>3 DEF IsListed
<1>16. ASSUME NEW w \in Vehicles, Claims(w)
       PROVE  Claims(w)'
  <2>1. /\ AtTheBar(w) /\ w \in DOMAIN list /\ list[w].age <= StaleAfter
        /\ list[w].state = "DV" \/ (list[w].state = "RDV" /\ w \in granted)
    BY <1>3, <1>16 DEF Claims, IsListed
  <2>2. list[w].state = "RDV" => w \notin ConfirmedOf(read)
    BY <1>13
  <2>3. list[w].state = "DV" \/ (list[w].state = "RDV" /\ w \in granted')
    BY <1>2, <1>6, <2>1, <2>2 DEF RoundIsSafe
  <2> QED
    BY <1>2, <1>14, <2>1, <2>3 DEF Claims, IsListed
\* Whom the round lets in stopped.
<1>17. ASSUME NEW w \in DOMAIN list, Veh(w) \in WaitingOf(read), w \in granted'
       PROVE  Claims(w)' \/ Passed(w)'
  <2>1. w \in Vehicles /\ list[w].age <= StaleAfter /\ list[w].state = "RDV"
    BY <1>8, <1>12, <1>17
  <2>2. SeenStopped(w)
    BY <1>3, <2>1 DEF SeenStopped, IsListed
  <2>3. AtTheBar(w) \/ Passed(w)
    BY <2>1, <2>2 DEF SightInv
  <2> QED
    BY <1>2, <1>14, <1>17, <2>1, <2>3 DEF Claims, IsListed
<1>18. \A w \in granted' : w \in granted \/ (w \in DOMAIN list /\ Veh(w) \in WaitingOf(read))
  <2>1. granted' \subseteq granted \cup {veh.id : veh \in WaitingOf(read)}
    BY <1>2, <1>6 DEF RoundIsSafe
  <2>2. \A veh \in WaitingOf(read) : veh.id \in DOMAIN list /\ veh = Veh(veh.id)
    BY <1>10 DEF WaitingOf
  <2> QED
    BY <2>1, <2>2
<1>19. AccessInv'
  <2> SUFFICES ASSUME NEW w \in Vehicles, ToldToEnter(w)'
               PROVE  Claims(w)' \/ Passed(w)'
    BY DEF AccessInv
  <2>1. CASE ToldToEnter(w)
    BY <1>14, <1>16, <2>1 DEF AccessInv
  <2>2. CASE w \in granted'
    BY <1>17, <1>18, <2>1, <2>2 DEF ToldToEnter
  <2>3. ASSUME NEW i \in DOMAIN schedule', schedule'[i].id = w, schedule'[i].access
        PROVE  Claims(w)' \/ Passed(w)'
    <3>1. w \in {veh.id : veh \in DepartingOf(read) \cup LetInBy(read, round)}
      BY <1>2, <1>6, <2>3 DEF RoundIsSafe, IsList
    <3>2. PICK veh \in DepartingOf(read) \cup LetInBy(read, round) : w = veh.id
      BY <3>1
    <3>3. w \in DOMAIN list /\ veh = Veh(w)
      BY <1>10, <3>2 DEF DepartingOf, LetInBy, WaitingOf
    <3>4. CASE veh \in DepartingOf(read)
      <4>1. list[w].state = "DV" \/ w \in granted
        BY <1>11, <3>3, <3>4
      <4>2. ToldToEnter(w)
        BY <1>3, <3>3, <4>1 DEF ToldToEnter, IsListed
      <4> QED
        BY <2>1, <4>2
    <3>5. CASE veh \in LetInBy(read, round)
      BY <1>2, <1>17, <3>2, <3>3, <3>5 DEF LetInBy
    <3> QED
      BY <3>4, <3>5
  <2>4. CASE access'[w] \/ IsListed(w, {"DV"})' \/ (\E m \in updates' : m.id = w /\ m.access)
    BY <1>2, <1>15, <2>1, <2>4 DEF ToldToEnter
  <2> QED
    BY <2>2, <2>3, <2>4 DEF ToldToEnter
\* Who departs after the round departed before, or is let in.
<1>20. ASSUME NEW w \in Vehicles, Claims(w)'
       PROVE  /\ w \in DOMAIN list
              /\ \/ Claims(w) /\ Veh(w) \in DepartingOf(read)
                 \/ Veh(w) \in LetInBy(read, round)
  <2>1. /\ AtTheBar(w) /\ w \in DOMAIN list /\ list[w].age <= StaleAfter
        /\ list[w].state = "DV" \/ (list[w].state = "RDV" /\ w \in granted')
    BY <1>2, <1>14, <1>20 DEF Claims, IsListed
  <2>2. CASE list[w].state = "DV" \/ (list[w].state = "RDV" /\ w \in granted)
    BY <1>3, <1>11, <2>1, <2>2 DEF Claims, IsListed
  <2>3. CASE list[w].state = "RDV" /\ w \notin granted
    BY <1>2, <1>5, <1>12, <2>1, <2>3 DEF LetInBy, Veh
  <2> QED
    BY <2>1, <2>2, <2>3
<1>21. ClaimsInv'
  <2> SUFFICES ASSUME NEW v \in Vehicles, NEW w \in Vehicles, v # w, Claims(v)', Claims(w)'
               PROVE  w \notin Conflicting[v]
    BY DEF ClaimsInv
  <2>1. Veh(v) # Veh(w) /\ Veh(v).link = v /\ Veh(w).link = w
    BY <1>5 DEF Veh
  <2>2. CASE Claims(v) /\ Claims(w)
    BY <2>2 DEF ClaimsInv
  <2>3. CASE Veh(v) \in LetInBy(read, round) \/ Veh(w) \in LetInBy(read, round)
    <3>1. Compatible(Veh(v), Veh(w)) \/ Compatible(Veh(w), Veh(v))
      BY <1>6, <1>20, <2>1, <2>3 DEF RoundIsSafe
    <3>2. v \notin Conflicting[w] \/ w \notin Conflicting[v]
      BY <2>1, <3>1 DEF Compatible
    <3> QED
      BY <3>2
  <2> QED
    BY <1>20, <2>2, <2>3
<1>22. SightInv'
  BY <1>2, <1>14, <1>15 DEF SightInv, SeenStopped, SeenLeaving
<1>23. TripInv'
  BY <1>2 DEF TripInv
<1>24. Shape'
  BY <1>2, <1>3 DEF ListShape, TripShape, UpdateShape
<1> QED
  BY <1>19, <1>21, <1>22, <1>23, <1>24

-----------------------------------------------------------------------------
(***************************************************************************)
(* All steps together.                                                     *)
(***************************************************************************)

\* What everybody knows of a vehicle is behind what it does, and those who may be in the
\* box together do not conflict: the inductive invariant of the all-way stop.
THEOREM CrossingInvariance ==
  ASSUME CrossingAssumption
  PROVE  IntersectionSpec => [](Shape /\ CrossingInv)
<1>1. Init => Shape /\ CrossingInv
  BY InitIsShaped
<1>2. ASSUME Shape /\ CrossingInv, [IntersectionNext]_vars
      PROVE  (Shape /\ CrossingInv)'
  <2>1. ASSUME Calm /\ Shape' /\ SightInv' /\ TripInv'
        PROVE  (Shape /\ CrossingInv)'
    BY <1>2, <2>1, CalmKeeps DEF CrossingInv
  <2>2. ASSUME VehicleStep, UNCHANGED schedulerVars
        PROVE  (Shape /\ CrossingInv)'
    <3>1. ASSUME NEW v \in Vehicles, Arrive(v)
          PROVE  (Shape /\ CrossingInv)'
      BY <1>2, <2>1, <2>2, <3>1, ArriveKeeps
    <3>2. ASSUME NEW v \in Vehicles, Drive(v)
          PROVE  (Shape /\ CrossingInv)'
      BY <1>2, <2>1, <2>2, <3>2, DriveKeeps
    <3>3. ASSUME NEW v \in Vehicles, Send(v)
          PROVE  (Shape /\ CrossingInv)'
      BY <1>2, <2>1, <2>2, <3>3, SendKeeps
    <3>4. ASSUME NEW m \in updates, Deliver(m)
          PROVE  (Shape /\ CrossingInv)'
      BY <1>2, <2>1, <2>2, <3>4, DeliverKeeps
    <3>5. ASSUME NEW m \in updates, Lose(m)
          PROVE  (Shape /\ CrossingInv)'
      BY <1>2, <2>1, <2>2, <3>5, LoseKeeps
    <3> QED
      BY <2>2, <3>1, <3>2, <3>3, <3>4, <3>5 DEF VehicleStep
  <2>3. ASSUME PassTime
        PROVE  (Shape /\ CrossingInv)'
    BY <1>2, <2>1, <2>3, TimePasses
  <2>4. ASSUME NEW v \in Vehicles, Receive(v)
        PROVE  (Shape /\ CrossingInv)'
    BY <1>2, <2>1, <2>4, ReceiveKeeps
  <2>5. ASSUME Schedule
        PROVE  (Shape /\ CrossingInv)'
    BY <1>2, <2>5, ScheduleKeeps
  <2>6. CASE UNCHANGED vars
    BY <1>2, <2>6 DEF vars, trackingVars, schedulerVars, Shape, ListShape, TripShape, UpdateShape,
       CrossingInv, AccessInv, SightInv, TripInv, ClaimsInv, ToldToEnter, SeenStopped, SeenLeaving,
       Claims, Passed, AtTheBar, IsListed
  <2> QED
    BY <1>2, <2>2, <2>3, <2>4, <2>5, <2>6 DEF IntersectionNext, AroundTheSchedule
<1> QED
  BY <1>1, <1>2, PTL DEF IntersectionSpec

\* Of vehicles whose links conflict never two are in the box together, however many
\* vehicles come and whatever updates are lost, doubled or late (the whole way from
\* update_vehicle_state over schedule_vehicles to the vehicle that enters).
THEOREM NobodyMeetsInTheBox ==
  ASSUME CrossingAssumption
  PROVE  IntersectionSpec => []NoConflictInBox
<1>1. Shape /\ CrossingInv => NoConflictInBox
  <2> SUFFICES ASSUME CrossingInv, NEW v \in Vehicles, NEW w \in Vehicles, v # w,
                      pos[v] = "box", w \in Conflicting[v], pos[w] = "box"
               PROVE  FALSE
    BY DEF NoConflictInBox
  <2>1. \A u \in {v, w} : Claims(u)
    BY DEF CrossingInv, TripInv, AccessInv, ToldToEnter, Passed
  <2> QED
    BY <2>1 DEF CrossingInv, ClaimsInv
<1> QED
  BY <1>1, CrossingInvariance, PTL

-----------------------------------------------------------------------------
(***************************************************************************)
(* The list of vehicles by itself, at both kinds of intersection: whoever  *)
(* lets vehicles in, and however the updates come, it follows a vehicle    *)
(* and is never ahead of it.                                               *)
(***************************************************************************)

\* What the theorems assume: vehicles come once.
TrackingAssumption == VehicleListAssumption /\ InFlight \in Nat /\ MaxTrips = 1

\* Who is not away is on its trip.
OnTripInv == \A v \in Vehicles : pos[v] # "away" => trips[v] = 1

\* What an update says was true of the vehicle, which only went on since.
NewsInv ==
  \A m \in updates :
    /\ trips[m.id] = 1
    /\ Rank(m.lane) <= Rank(LaneAt(pos[m.id]))
    /\ m.stopped => pos[m.id] # "approach"
    /\ m.access => access[m.id]

\* The list is not ahead of the vehicle in its lane.
BehindInv ==
  \A v \in DOMAIN vehicles :
    trips[v] = 1 /\ Rank(vehicles[v].lane) <= Rank(LaneAt(pos[v]))

\* Of two updates of a vehicle the younger one is from no earlier lane, and so is an
\* update that is younger than what is listed.
OrderInv ==
  /\ \A m, n \in updates :
       m.id = n.id /\ m.age < n.age => Rank(n.lane) <= Rank(m.lane)
  /\ \A m \in updates :
       m.id \in DOMAIN vehicles /\ m.age < vehicles[m.id].age
       => Rank(vehicles[m.id].lane) <= Rank(m.lane)

\* At a signal, who is approaching is on its entry lane.
DepartingInv == IntersectionType = "signalized_intersection" => BoxMeansDeparting

TrackInv ==
  /\ TypeOK /\ IsFiniteSet(updates)
  /\ OnTripInv /\ NewsInv /\ BehindInv /\ OrderInv
  /\ NeverAheadOfTheVehicle /\ DepartingInv

\* Lanes and states have a place in the order of a trip.
LEMMA RankIsNumber ==
  /\ \A p : Rank(p) \in 0 .. 4
  /\ \A p \in Positions : LaneAt(p) \in LaneKinds
  /\ Rank("entry") = 0 /\ Rank("link") = 1 /\ Rank("exit") = 2
BY DEF Rank, LaneAt, Positions, LaneKinds

\* No update makes the state of a vehicle an earlier one.
LEMMA StatesGoOn ==
  ASSUME NEW s \in States, NEW m
  PROVE  NextState(s, m) \in States /\ Rank(s) <= Rank(NextState(s, m))
<1>1. NextState(s, m) = s \/ <<s, NextState(s, m)>> \in
        {<<"ND", "EV">>, <<"EV", "RDV">>, <<"EV", "DV">>, <<"RDV", "DV">>, <<"DV", "LV">>}
  BY DEF NextState, SignalizedState, AllStopState, States
<1>2. CASE NextState(s, m) = s
  BY <1>2, RankIsNumber
<1>3. CASE NextState(s, m) # s
  BY <1>1, <1>3 DEF Rank, States
<1> QED
  BY <1>2, <1>3

LEMMA TrackingBegins ==
  ASSUME TrackingAssumption, TrackingInit
  PROVE  TrackInv
<1>1. TypeOK
  <2>1. VehicleListOK
    BY DEF TrackingInit, VehicleListOK
  <2>2. pos \in [Vehicles -> Positions]
    BY DEF TrackingInit, Positions
  <2>3. access \in [Vehicles -> BOOLEAN]
    BY DEF TrackingInit
  <2>4. dp \in [Vehicles -> Int] /\ trips \in [Vehicles -> 0 .. MaxTrips]
    BY DEF TrackingInit, TrackingAssumption
  <2>5. updates \subseteq Update /\ Cardinality(updates) <= InFlight
    BY FS_EmptySet DEF TrackingInit, TrackingAssumption
  <2> QED
    BY <2>1, <2>2, <2>3, <2>4, <2>5 DEF TypeOK
<1>2. /\ updates = {} /\ DOMAIN vehicles = {} /\ \A v \in Vehicles : pos[v] = "away"
  BY DEF TrackingInit
<1> QED
  BY <1>1, <1>2, FS_EmptySet
     DEF TrackInv, OnTripInv, NewsInv, BehindInv, OrderInv, NeverAheadOfTheVehicle,
         DepartingInv, BoxMeansDeparting

\* What the parts of the invariant say of types, for steps to start from.
LEMMA TrackingTypes ==
  ASSUME TrackingAssumption, TypeOK
  PROVE  /\ Timeout \in Nat /\ InFlight \in Nat /\ MaxTrips = 1
         /\ DOMAIN vehicles \subseteq Vehicles
         /\ \A v \in DOMAIN vehicles :
              /\ vehicles[v] \in Vehicle /\ vehicles[v].age \in Ages
              /\ vehicles[v].lane \in LaneKinds /\ vehicles[v].state \in States
         /\ pos \in [Vehicles -> Positions]
         /\ trips \in [Vehicles -> {0, 1}]
         /\ \A m \in updates :
              /\ m \in Update /\ m.id \in Vehicles /\ m.age \in Ages /\ m.lane \in LaneKinds
<1>1. 0 .. 1 = {0, 1}
  OBVIOUS
<1> QED
  BY <1>1 DEF TrackingAssumption, VehicleListAssumption, TypeOK, VehicleListOK, Vehicle, Update

\* When the list keeps what it says of the vehicles that it keeps, it goes on.
LEMMA ListThatStands ==
  ASSUME \A v \in DOMAIN vehicles \cap DOMAIN vehicles' :
           vehicles'[v].lane = vehicles[v].lane /\ vehicles'[v].state = vehicles[v].state
  PROVE  GoesOn
<1>1. DOMAIN Purged(vehicles) \subseteq DOMAIN vehicles
  BY DEF Purged
<1> QED
  BY <1>1, RankIsNumber DEF GoesOn

-----------------------------------------------------------------------------

\* The vehicles go on, and neither the list nor an update changes.
LEMMA VehiclesGoOn ==
  ASSUME TrackingAssumption, TrackInv, UNCHANGED <<vehicles, updates>>,
         pos' \in [Vehicles -> Positions], access' \in [Vehicles -> BOOLEAN],
         dp' \in [Vehicles -> Int], trips' \in [Vehicles -> {0, 1}],
         \A v \in Vehicles : pos'[v] # "away" => trips'[v] = 1,
         \A v \in Vehicles :
           trips[v] = 1 =>
             /\ trips'[v] = 1
             /\ Rank(LaneAt(pos[v])) <= Rank(LaneAt(pos'[v]))
             /\ pos[v] # "approach" => pos'[v] # "approach"
             /\ pos[v] \in {"left", "away"} => pos'[v] \in {"left", "away"}
             /\ access[v] => access'[v]
  PROVE  TrackInv' /\ GoesOn
<1>1. /\ DOMAIN vehicles \subseteq Vehicles
      /\ \A v \in DOMAIN vehicles : vehicles[v].lane \in LaneKinds
      /\ \A m \in updates : m.id \in Vehicles /\ m.lane \in LaneKinds
      /\ MaxTrips = 1
  BY TrackingTypes DEF TrackInv
<1>2. TypeOK'
  <2>1. VehicleListOK'
    BY DEF TrackInv, TypeOK, VehicleListOK
  <2>2. 0 .. MaxTrips = {0, 1}
    BY <1>1
  <2>3. trips' \in [Vehicles -> 0 .. MaxTrips]
    BY <2>2
  <2> QED
    BY <2>1, <2>3 DEF TypeOK, TrackInv
<1>3. NewsInv'
  <2> SUFFICES ASSUME NEW m \in updates
               PROVE  /\ trips'[m.id] = 1
                      /\ Rank(m.lane) <= Rank(LaneAt(pos'[m.id]))
                      /\ m.stopped => pos'[m.id] # "approach"
                      /\ m.access => access'[m.id]
    BY DEF NewsInv
  <2>1. /\ m.id \in Vehicles /\ trips[m.id] = 1
        /\ Rank(m.lane) <= Rank(LaneAt(pos[m.id]))
        /\ m.stopped => pos[m.id] # "approach"
        /\ m.access => access[m.id]
    BY <1>1 DEF TrackInv, NewsInv
  <2>2. Rank(m.lane) <= Rank(LaneAt(pos'[m.id]))
    BY <2>1, RankIsNumber
  <2> QED
    BY <2>1, <2>2
<1>4. BehindInv'
  <2> SUFFICES ASSUME NEW v \in DOMAIN vehicles
               PROVE  trips'[v] = 1 /\ Rank(vehicles[v].lane) <= Rank(LaneAt(pos'[v]))
    BY DEF BehindInv
  <2>1. /\ v \in Vehicles /\ trips[v] = 1
        /\ Rank(vehicles[v].lane) <= Rank(LaneAt(pos[v]))
    BY <1>1 DEF TrackInv, BehindInv
  <2> QED
    BY <2>1, RankIsNumber
<1>5. NeverAheadOfTheVehicle'
  <2> SUFFICES ASSUME NEW v \in DOMAIN vehicles
               PROVE  /\ vehicles[v].state = "RDV" => pos'[v] # "approach"
                      /\ vehicles[v].state = "DV" =>
                           \/ access'[v]
                           \/ IntersectionType = "signalized_intersection" /\ pos'[v] # "approach"
                      /\ vehicles[v].state = "LV" => pos'[v] \in {"left", "away"}
    BY DEF NeverAheadOfTheVehicle
  <2>1. v \in Vehicles /\ trips[v] = 1
    BY <1>1 DEF TrackInv, BehindInv
  <2>2. /\ vehicles[v].state = "RDV" => pos[v] # "approach"
        /\ vehicles[v].state = "DV" =>
             \/ access[v]
             \/ IntersectionType = "signalized_intersection" /\ pos[v] # "approach"
        /\ vehicles[v].state = "LV" => pos[v] \in {"left", "away"}
    BY <1>1 DEF TrackInv, NeverAheadOfTheVehicle
  <2> QED
    BY <2>1, <2>2
<1>6. OnTripInv' /\ OrderInv' /\ DepartingInv' /\ IsFiniteSet(updates')
  BY DEF TrackInv, OnTripInv, OrderInv, DepartingInv, BoxMeansDeparting
<1> QED
  BY <1>2, <1>3, <1>4, <1>5, <1>6, ListThatStands DEF TrackInv

LEMMA ArrivalIsTracked ==
  ASSUME TrackingAssumption, TrackInv, NEW v \in Vehicles, Arrive(v)
  PROVE  TrackInv' /\ GoesOn
<1>1. /\ pos \in [Vehicles -> Positions] /\ trips \in [Vehicles -> {0, 1}] /\ MaxTrips = 1
      /\ access \in [Vehicles -> BOOLEAN] /\ dp \in [Vehicles -> Int]
  BY TrackingTypes DEF TrackInv, TypeOK
<1>2. /\ trips[v] < MaxTrips /\ pos' = [pos EXCEPT ![v] = "approach"]
      /\ trips' = [trips EXCEPT ![v] = trips[v] + 1]
      /\ access' = [access EXCEPT ![v] = FALSE] /\ dp' = [dp EXCEPT ![v] = -1]
      /\ UNCHANGED <<vehicles, updates>>
  BY DEF Arrive, Move
<1>3. trips[v] = 0
  BY <1>1, <1>2
<1>4. trips' \in [Vehicles -> {0, 1}] /\ trips'[v] = 1
  BY <1>1, <1>2, <1>3
<1>5. /\ pos' \in [Vehicles -> Positions] /\ access' \in [Vehicles -> BOOLEAN]
      /\ dp' \in [Vehicles -> Int]
  BY <1>1, <1>2 DEF Positions
<1>6. \A w \in Vehicles :
        w # v => trips'[w] = trips[w] /\ pos'[w] = pos[w] /\ access'[w] = access[w]
  BY <1>1, <1>2
<1>7. \A w \in Vehicles : pos'[w] # "away" => trips'[w] = 1
  BY <1>4, <1>6 DEF TrackInv, OnTripInv
<1>8. \A w \in Vehicles : trips[w] = 1 => w # v
  BY <1>3
<1> QED
  BY <1>2, <1>4, <1>5, <1>6, <1>7, <1>8, RankIsNumber, VehiclesGoOn

LEMMA DrivingIsTracked ==
  ASSUME TrackingAssumption, TrackInv, NEW v \in Vehicles, Drive(v)
  PROVE  TrackInv' /\ GoesOn
<1>1. /\ pos \in [Vehicles -> Positions] /\ trips \in [Vehicles -> {0, 1}]
      /\ access \in [Vehicles -> BOOLEAN] /\ dp \in [Vehicles -> Int]
  BY TrackingTypes DEF TrackInv, TypeOK
<1>2. UNCHANGED <<vehicles, access, dp, trips, updates>>
  BY DEF Drive
<1>3. PICK from, to \in Positions :
        /\ <<from, to>> \in {<<"approach", "box">>, <<"approach", "bar">>, <<"bar", "box">>,
                             <<"box", "left">>, <<"left", "away">>}
        /\ pos[v] = from /\ pos' = [pos EXCEPT ![v] = to]
  BY DEF Drive, Enter, Move, Positions
<1>4. /\ pos' \in [Vehicles -> Positions] /\ pos'[v] = to
      /\ \A w \in Vehicles : w # v => pos'[w] = pos[w]
  BY <1>1, <1>3
<1>5. /\ Rank(LaneAt(from)) <= Rank(LaneAt(to)) /\ from # "away" /\ to # "approach"
      /\ from \in {"left", "away"} => to \in {"left", "away"}
  BY <1>3 DEF Rank, LaneAt
<1>6. \A w \in Vehicles : pos'[w] # "away" => trips'[w] = 1
  BY <1>2, <1>3, <1>4, <1>5 DEF TrackInv, OnTripInv
<1>7. \A w \in Vehicles :
        /\ Rank(LaneAt(pos[w])) <= Rank(LaneAt(pos'[w]))
        /\ pos[w] # "approach" => pos'[w] # "approach"
        /\ pos[w] \in {"left", "away"} => pos'[w] \in {"left", "away"}
  BY <1>3, <1>4, <1>5, RankIsNumber
<1> QED
  BY <1>1, <1>2, <1>4, <1>6, <1>7, VehiclesGoOn

LEMMA LettingInIsTracked ==
  ASSUME TrackingAssumption, TrackInv, NEW v \in Vehicles, LetIn(v)
  PROVE  TrackInv' /\ GoesOn
<1>1. /\ pos \in [Vehicles -> Positions] /\ trips \in [Vehicles -> {0, 1}]
      /\ access \in [Vehicles -> BOOLEAN] /\ dp \in [Vehicles -> Int]
  BY TrackingTypes DEF TrackInv, TypeOK
<1>2. access' = [access EXCEPT ![v] = TRUE] /\ UNCHANGED <<vehicles, pos, dp, trips, updates>>
  BY DEF LetIn
<1>3. access' \in [Vehicles -> BOOLEAN] /\ \A w \in Vehicles : access[w] => access'[w]
  BY <1>1, <1>2
<1>4. \A w \in Vehicles : pos'[w] # "away" => trips'[w] = 1
  BY <1>2 DEF TrackInv, OnTripInv
<1> QED
  BY <1>1, <1>2, <1>3, <1>4, RankIsNumber, VehiclesGoOn

-----------------------------------------------------------------------------

LEMMA SendingIsTracked ==
  ASSUME TrackingAssumption, TrackInv, NEW v \in Vehicles, Send(v)
  PROVE  TrackInv' /\ GoesOn
<1>1. /\ pos \in [Vehicles -> Positions] /\ trips \in [Vehicles -> {0, 1}]
      /\ Timeout \in Nat /\ InFlight \in Nat
      /\ \A w \in DOMAIN vehicles : w \in Vehicles /\ vehicles[w].lane \in LaneKinds
      /\ \A m \in updates : m.id \in Vehicles /\ m.age \in Ages /\ m.lane \in LaneKinds
  BY TrackingTypes DEF TrackInv
<1>2. PICK valid \in BOOLEAN :
        updates' = updates \cup
          {[id |-> v, age |-> 0, lane |-> LaneAt(pos[v]), stopped |-> pos[v] = "bar",
            access |-> access[v], dp |-> dp[v], valid |-> valid]}
  BY DEF Send
<1> DEFINE news == [id |-> v, age |-> 0, lane |-> LaneAt(pos[v]), stopped |-> pos[v] = "bar",
                    access |-> access[v], dp |-> dp[v], valid |-> valid]
<1>3. /\ news.id = v /\ news.age = 0 /\ news.lane = LaneAt(pos[v])
      /\ news.stopped <=> pos[v] = "bar"
      /\ news.access <=> access[v]
  OBVIOUS
<1>4. news \in Update
  <2>1. access[v] \in BOOLEAN /\ dp[v] \in Int
    BY DEF TrackInv, TypeOK
  <2>2. LaneAt(pos[v]) \in LaneKinds /\ 0 \in Ages
    BY <1>1, RankIsNumber DEF Ages
  <2>3. (pos[v] = "bar") \in BOOLEAN
    OBVIOUS
  <2> QED
    BY <2>1, <2>2, <2>3 DEF Update
<1>5. /\ UNCHANGED <<vehicles, pos, access, dp, trips>> /\ updates' = updates \cup {news}
      /\ pos[v] # "away" /\ Cardinality(updates) < InFlight
  BY <1>2 DEF Send
<1> HIDE DEF news
<1>6. TypeOK' /\ IsFiniteSet(updates')
  <2>1. /\ IsFiniteSet(updates')
        /\ Cardinality(updates') = IF news \in updates THEN Cardinality(updates)
                                   ELSE Cardinality(updates) + 1
    BY <1>5, FS_AddElement DEF TrackInv
  <2>2. Cardinality(updates) \in Nat
    BY FS_CardinalityType DEF TrackInv
  <2>3. Cardinality(updates') <= InFlight
    BY <1>1, <1>5, <2>1, <2>2
  <2>4. updates' \subseteq Update
    BY <1>4, <1>5 DEF TrackInv, TypeOK
  <2>5. VehicleListOK'
    BY <1>5 DEF TrackInv, TypeOK, VehicleListOK
  <2> QED
    BY <1>5, <2>1, <2>3, <2>4, <2>5 DEF TrackInv, TypeOK
<1>7. trips[v] = 1
  BY <1>5 DEF TrackInv, OnTripInv
<1>8. NewsInv'
  <2> SUFFICES ASSUME NEW m \in updates'
               PROVE  /\ trips[m.id] = 1
                      /\ Rank(m.lane) <= Rank(LaneAt(pos[m.id]))
                      /\ m.stopped => pos[m.id] # "approach"
                      /\ m.access => access[m.id]
    BY <1>5 DEF NewsInv
  <2>1. CASE m \in updates
    BY <2>1 DEF TrackInv, NewsInv
  <2>2. CASE m = news
    BY <1>3, <1>7, <2>2, RankIsNumber
  <2> QED
    BY <1>5, <2>1, <2>2
<1>9. OrderInv'
  <2>1. ASSUME NEW m \in updates', NEW n \in updates', m.id = n.id, m.age < n.age
        PROVE  Rank(n.lane) <= Rank(m.lane)
    <3>1. CASE m \in updates /\ n \in updates
      BY <2>1, <3>1 DEF TrackInv, OrderInv
    <3>2. CASE m = news /\ n \in updates
      BY <1>3, <2>1, <3>2 DEF TrackInv, NewsInv
    <3>3. CASE n = news
      <4>1. m.age \in Nat
        BY <1>1, <1>3, <1>5 DEF Ages
      <4> QED
        BY <1>3, <2>1, <3>3, <4>1
    <3> QED
      BY <1>5, <3>1, <3>2, <3>3
  <2>2. ASSUME NEW m \in updates', m.id \in DOMAIN vehicles, m.age < vehicles[m.id].age
        PROVE  Rank(vehicles[m.id].lane) <= Rank(m.lane)
    <3>1. CASE m \in updates
      BY <2>2, <3>1 DEF TrackInv, OrderInv
    <3>2. CASE m = news
      BY <1>3, <2>2, <3>2 DEF TrackInv, BehindInv
    <3> QED
      BY <1>5, <3>1, <3>2
  <2> QED
    BY <1>5, <2>1, <2>2 DEF OrderInv
<1>10. OnTripInv' /\ BehindInv' /\ NeverAheadOfTheVehicle' /\ DepartingInv'
  BY <1>5 DEF TrackInv, OnTripInv, BehindInv, NeverAheadOfTheVehicle, DepartingInv,
              BoxMeansDeparting
<1> QED
  BY <1>5, <1>6, <1>8, <1>9, <1>10, ListThatStands DEF TrackInv

\* A vehicle may leave the list, and an update may get lost.
LEMMA ForgettingIsTracked ==
  ASSUME TrackingAssumption, TrackInv, UNCHANGED <<pos, access, dp, trips>>,
         updates' \subseteq updates, DOMAIN vehicles' \subseteq DOMAIN vehicles,
         \A v \in DOMAIN vehicles' : vehicles'[v] = vehicles[v]
  PROVE  TrackInv' /\ GoesOn
<1>1. TypeOK' /\ IsFiniteSet(updates')
  <2>1. IsFiniteSet(updates') /\ Cardinality(updates') <= Cardinality(updates)
    BY FS_Subset DEF TrackInv
  <2>2. Cardinality(updates) \in Nat /\ Cardinality(updates') \in Nat /\ InFlight \in Nat
    BY <2>1, FS_CardinalityType DEF TrackInv, TrackingAssumption
  <2>3. updates' \subseteq Update /\ Cardinality(updates') <= InFlight
    BY <2>1, <2>2 DEF TrackInv, TypeOK
  <2>4. VehicleListOK'
    BY DEF TrackInv, TypeOK, VehicleListOK
  <2> QED
    BY <2>1, <2>3, <2>4 DEF TrackInv, TypeOK
<1>2. OnTripInv' /\ NewsInv'
  BY DEF TrackInv, OnTripInv, NewsInv
<1>3. BehindInv' /\ DepartingInv'
  BY DEF TrackInv, BehindInv, DepartingInv, BoxMeansDeparting
<1>4. OrderInv'
  BY DEF TrackInv, OrderInv
<1>5. NeverAheadOfTheVehicle'
  BY DEF TrackInv, NeverAheadOfTheVehicle
<1> QED
  BY <1>1, <1>2, <1>3, <1>4, <1>5, ListThatStands DEF TrackInv

LEMMA PurgedIsShorter ==
  /\ DOMAIN Purged(vehicles) \subseteq DOMAIN vehicles
  /\ \A v \in DOMAIN Purged(vehicles) : Purged(vehicles)[v] = vehicles[v]
BY DEF Purged

LEMMA LosingIsTracked ==
  ASSUME TrackingAssumption, TrackInv, NEW m \in updates, Lose(m)
  PROVE  TrackInv' /\ GoesOn
BY ForgettingIsTracked DEF Lose

LEMMA ReadingIsTracked ==
  ASSUME TrackingAssumption, TrackInv, Read
  PROVE  TrackInv' /\ GoesOn
BY ForgettingIsTracked, PurgedIsShorter DEF Read, GetVehicles

\* The list and the updates grow old together.
LEMMA TimeIsTracked ==
  ASSUME TrackingAssumption, TrackInv, Tick
  PROVE  TrackInv' /\ GoesOn
<1>1. /\ Timeout \in Nat /\ InFlight \in Nat
      /\ \A v \in DOMAIN vehicles : v \in Vehicles /\ vehicles[v] \in Vehicle
      /\ \A m \in updates : m \in Update
  BY TrackingTypes DEF TrackInv
<1> DEFINE AgedUpdate(m) == [m EXCEPT !.age = Older(m.age)]
<1>2. /\ UNCHANGED <<pos, access, dp, trips>>
      /\ vehicles' = [v \in DOMAIN vehicles |-> [vehicles[v] EXCEPT !.age = Older(vehicles[v].age)]]
      /\ updates' = {AgedUpdate(m) : m \in updates}
  BY DEF Tick, ListGrowsOld
<1>3. \A age \in Ages : Older(age) \in Ages
  BY <1>1 DEF Ages, Older
<1>4. \A age, other \in Ages : Older(age) < Older(other) => age < other
  BY <1>1 DEF Ages, Older
<1>5. \A m \in Update :
        /\ AgedUpdate(m) \in Update /\ AgedUpdate(m).id = m.id
        /\ AgedUpdate(m).age = Older(m.age) /\ AgedUpdate(m).lane = m.lane
        /\ AgedUpdate(m).stopped = m.stopped /\ AgedUpdate(m).access = m.access
  BY <1>3 DEF Update
<1>6. /\ DOMAIN vehicles' = DOMAIN vehicles
      /\ \A v \in DOMAIN vehicles :
           /\ vehicles'[v] \in Vehicle /\ vehicles'[v].age = Older(vehicles[v].age)
           /\ vehicles'[v].lane = vehicles[v].lane /\ vehicles'[v].state = vehicles[v].state
  BY <1>1, <1>2, <1>3 DEF Vehicle
<1> HIDE DEF AgedUpdate
<1>7. \A u \in updates' : \E m \in updates :
        /\ u \in Update /\ m \in Update /\ u.id = m.id /\ u.age = Older(m.age)
        /\ u.lane = m.lane /\ u.stopped = m.stopped /\ u.access = m.access
  BY <1>1, <1>2, <1>5
<1>8. TypeOK' /\ IsFiniteSet(updates')
  <2> DEFINE F == [m \in updates |-> AgedUpdate(m)]
  <2>1. F \in Surjection(updates, updates')
    BY <1>2 DEF Surjection
  <2>2. IsFiniteSet(updates') /\ Cardinality(updates') <= Cardinality(updates)
    BY <2>1, FS_Surjection DEF TrackInv
  <2>3. Cardinality(updates) \in Nat /\ Cardinality(updates') \in Nat
    BY <2>2, FS_CardinalityType DEF TrackInv
  <2>4. Cardinality(updates') <= InFlight
    BY <1>1, <2>2, <2>3 DEF TrackInv, TypeOK
  <2>5. updates' \subseteq Update
    BY <1>7
  <2>6. VehicleListOK'
    BY <1>1, <1>6 DEF VehicleListOK
  <2> QED
    BY <1>2, <2>2, <2>4, <2>5, <2>6 DEF TrackInv, TypeOK
<1>9. NewsInv'
  <2> SUFFICES ASSUME NEW u \in updates'
               PROVE  /\ trips[u.id] = 1
                      /\ Rank(u.lane) <= Rank(LaneAt(pos[u.id]))
                      /\ u.stopped => pos[u.id] # "approach"
                      /\ u.access => access[u.id]
    BY <1>2 DEF NewsInv
  <2> QED
    BY <1>7 DEF TrackInv, NewsInv
<1>10. OrderInv'
  <2>1. ASSUME NEW u \in updates', NEW w \in updates', u.id = w.id, u.age < w.age
        PROVE  Rank(w.lane) <= Rank(u.lane)
    <3>1. PICK m \in updates : m \in Update /\ u.id = m.id /\ u.age = Older(m.age) /\ u.lane = m.lane
      BY <1>7
    <3>2. PICK n \in updates : n \in Update /\ w.id = n.id /\ w.age = Older(n.age) /\ w.lane = n.lane
      BY <1>7
    <3>3. m.age < n.age
      BY <1>4, <2>1, <3>1, <3>2 DEF Update
    <3> QED
      BY <2>1, <3>1, <3>2, <3>3 DEF TrackInv, OrderInv
  <2>2. ASSUME NEW u \in updates', u.id \in DOMAIN vehicles', u.age < vehicles'[u.id].age
        PROVE  Rank(vehicles'[u.id].lane) <= Rank(u.lane)
    <3>1. PICK m \in updates : m \in Update /\ u.id = m.id /\ u.age = Older(m.age) /\ u.lane = m.lane
      BY <1>7
    <3>2. m.id \in DOMAIN vehicles /\ vehicles[m.id].age \in Ages /\ m.age \in Ages
      BY <1>1, <1>6, <2>2, <3>1 DEF Update, Vehicle
    <3>3. m.age < vehicles[m.id].age
      BY <1>4, <1>6, <2>2, <3>1, <3>2
    <3> QED
      BY <1>6, <3>1, <3>2, <3>3 DEF TrackInv, OrderInv
  <2> QED
    BY <2>1, <2>2 DEF OrderInv
<1>11. OnTripInv' /\ BehindInv' /\ DepartingInv'
  BY <1>2, <1>6 DEF TrackInv, OnTripInv, BehindInv, DepartingInv, BoxMeansDeparting
<1>12. NeverAheadOfTheVehicle'
  BY <1>2, <1>6 DEF TrackInv, NeverAheadOfTheVehicle
<1> QED
  BY <1>6, <1>8, <1>9, <1>10, <1>11, <1>12, ListThatStands DEF TrackInv

\* The list learns of a vehicle what its update says, a state at a time.
LEMMA DeliveryIsTracked ==
  ASSUME TrackingAssumption, TrackInv, NEW m \in updates, Deliver(m)
  PROVE  TrackInv' /\ GoesOn
<1> DEFINE list == Purged(vehicles)
           new == Processed(list, m)
           old == IF m.id \in DOMAIN list THEN list[m.id].state ELSE "ND"
<1>1. UNCHANGED <<pos, access, dp, trips>> /\ updates' \subseteq updates
  BY DEF Deliver
<1>2. vehicles' = IF Accepted(list, m)
                    THEN [v \in DOMAIN list \cup {m.id} |-> IF v = m.id THEN new ELSE list[v]]
                    ELSE list
  BY DEF Deliver, ProcessUpdate
<1>3. /\ DOMAIN list \subseteq DOMAIN vehicles
      /\ \A v \in DOMAIN list : list[v] = vehicles[v]
  BY PurgedIsShorter
<1>4. /\ \A v \in DOMAIN vehicles :
           /\ v \in Vehicles /\ vehicles[v] \in Vehicle /\ vehicles[v].state \in States
           /\ vehicles[v].lane \in LaneKinds
      /\ m \in Update /\ m.id \in Vehicles /\ m.lane \in LaneKinds
  BY TrackingTypes DEF TrackInv
<1>5. old \in States
  BY <1>3, <1>4 DEF States
<1>6. /\ new.age = m.age /\ new.lane = m.lane /\ new.state = NextState(old, m)
      /\ new \in Vehicle
  BY <1>4, <1>5, StatesGoOn DEF Processed, Vehicle, Update
<1>7. Accepted(list, m) /\ m.id \in DOMAIN list => m.age < list[m.id].age
  BY DEF Accepted
<1> HIDE DEF list, new, old
<1>8. CASE ~ Accepted(list, m)
  BY <1>1, <1>2, <1>3, <1>8, ForgettingIsTracked
<1>9. ASSUME Accepted(list, m)
      PROVE  TrackInv' /\ GoesOn
  <2>1. /\ DOMAIN vehicles' = DOMAIN list \cup {m.id} /\ vehicles'[m.id] = new
        /\ \A v \in DOMAIN list : v # m.id => vehicles'[v] = vehicles[v]
    BY <1>2, <1>3, <1>9
  <2>2. /\ trips[m.id] = 1 /\ Rank(m.lane) <= Rank(LaneAt(pos[m.id]))
        /\ m.stopped => pos[m.id] # "approach"
        /\ m.access => access[m.id]
    BY DEF TrackInv, NewsInv
  <2>3. TypeOK' /\ IsFiniteSet(updates')
    <3>1. IsFiniteSet(updates') /\ Cardinality(updates') <= Cardinality(updates)
      BY <1>1, FS_Subset DEF TrackInv
    <3>2. Cardinality(updates) \in Nat /\ Cardinality(updates') \in Nat /\ InFlight \in Nat
      BY <3>1, FS_CardinalityType DEF TrackInv, TrackingAssumption
    <3>3. updates' \subseteq Update /\ Cardinality(updates') <= InFlight
      BY <1>1, <3>1, <3>2 DEF TrackInv, TypeOK
    <3>4. VehicleListOK'
      BY <1>3, <1>4, <1>6, <2>1 DEF VehicleListOK
    <3> QED
      BY <1>1, <3>1, <3>3, <3>4 DEF TrackInv, TypeOK
  <2>4. OnTripInv' /\ NewsInv'
    BY <1>1 DEF TrackInv, OnTripInv, NewsInv
  <2>5. BehindInv'
    BY <1>1, <1>3, <1>6, <2>1, <2>2 DEF TrackInv, BehindInv
  <2>6. OrderInv'
    <3>1. ASSUME NEW u \in updates', u.id \in DOMAIN vehicles', u.age < vehicles'[u.id].age
          PROVE  Rank(vehicles'[u.id].lane) <= Rank(u.lane)
      <4>1. CASE u.id = m.id
        BY <1>1, <1>6, <2>1, <3>1, <4>1 DEF TrackInv, OrderInv
      <4>2. CASE u.id # m.id
        BY <1>1, <1>3, <2>1, <3>1, <4>2 DEF TrackInv, OrderInv
      <4> QED
        BY <4>1, <4>2
    <3> QED
      BY <1>1, <3>1 DEF TrackInv, OrderInv
  <2>7. NeverAheadOfTheVehicle'
    <3> SUFFICES ASSUME NEW v \in DOMAIN vehicles'
                 PROVE  /\ vehicles'[v].state = "RDV" => pos[v] # "approach"
                        /\ vehicles'[v].state = "DV" =>
                             \/ access[v]
                             \/ IntersectionType = "signalized_intersection" /\ pos[v] # "approach"
                        /\ vehicles'[v].state = "LV" => pos[v] \in {"left", "away"}
      BY <1>1 DEF NeverAheadOfTheVehicle
    <3>1. ASSUME NEW w \in DOMAIN list
          PROVE  /\ vehicles[w].state = "RDV" => pos[w] # "approach"
                 /\ vehicles[w].state = "DV" =>
                      \/ access[w]
                      \/ IntersectionType = "signalized_intersection" /\ pos[w] # "approach"
                 /\ vehicles[w].state = "LV" => pos[w] \in {"left", "away"}
      BY <1>3, TrackingTypes DEF TrackInv, NeverAheadOfTheVehicle
    <3>2. CASE v # m.id
      BY <2>1, <3>1, <3>2
    <3>3. ASSUME v = m.id
          PROVE  /\ new.state = "RDV" => pos[v] # "approach"
                 /\ new.state = "DV" =>
                      \/ access[v]
                      \/ IntersectionType = "signalized_intersection" /\ pos[v] # "approach"
                 /\ new.state = "LV" => pos[v] \in {"left", "away"}
      <4>1. old = "ND" \/ (v \in DOMAIN list /\ vehicles[v].state = old)
        BY <1>3, <3>3 DEF old
      <4>2. /\ new.state = "RDV" => old = "RDV" \/ m.stopped
            /\ new.state = "DV" => \/ old = "DV" \/ m.access
                                   \/ /\ IntersectionType = "signalized_intersection"
                                      /\ m.lane # "entry"
            /\ new.state = "LV" => old = "LV" \/ m.lane = "exit"
        BY <1>6 DEF NextState, SignalizedState, AllStopState
      <4>3. pos[v] \in Positions
        BY <1>4, <3>3 DEF TrackInv, TypeOK
      <4>4. m.lane # "entry" => pos[v] # "approach"
        BY <1>4, <2>2, <3>3, <4>3 DEF Rank, LaneAt, LaneKinds, Positions
      <4>5. m.lane = "exit" => pos[v] \in {"left", "away"}
        BY <1>4, <2>2, <3>3, <4>3 DEF Rank, LaneAt, LaneKinds, Positions
      <4> QED
        BY <2>2, <3>1, <3>3, <4>1, <4>2, <4>4, <4>5
    <3> QED
      BY <2>1, <3>2, <3>3
  <2>8. DepartingInv'
    <3>1. ASSUME IntersectionType = "signalized_intersection", new.state = "EV"
          PROVE  new.lane = "entry"
      BY <1>6, <3>1 DEF NextState, SignalizedState
    <3> QED
      BY <1>3, <2>1, <3>1 DEF TrackInv, DepartingInv, BoxMeansDeparting
  <2>9. GoesOn
    <3> SUFFICES ASSUME NEW v \in DOMAIN list
                 PROVE  /\ Rank(vehicles[v].lane) <= Rank(vehicles'[v].lane)
                        /\ Rank(vehicles[v].state) <= Rank(vehicles'[v].state)
      BY DEF GoesOn, list
    <3>1. CASE v # m.id
      BY <2>1, <3>1, RankIsNumber
    <3>2. CASE v = m.id
      <4>1. m.age < vehicles[v].age
        BY <1>3, <1>7, <1>9, <3>2
      <4>2. Rank(vehicles[v].lane) <= Rank(m.lane)
        BY <1>3, <3>2, <4>1 DEF TrackInv, OrderInv
      <4>3. old = vehicles[v].state
        BY <1>3, <3>2 DEF old
      <4> QED
        BY <1>5, <1>6, <2>1, <3>2, <4>2, <4>3, StatesGoOn
    <3> QED
      BY <3>1, <3>2
  <2> QED
    BY <2>3, <2>4, <2>5, <2>6, <2>7, <2>8, <2>9 DEF TrackInv
<1> QED
  BY <1>8, <1>9

LEMMA TrackingStep ==
  ASSUME TrackingAssumption, TrackInv, [Next]_trackingVars
  PROVE  TrackInv' /\ (Next => GoesOn)
<1>1. CASE UNCHANGED trackingVars
  BY <1>1, ForgettingIsTracked DEF trackingVars
<1>2. ASSUME NEW v \in Vehicles, Arrive(v) \/ Drive(v) \/ Send(v) \/ LetIn(v)
      PROVE  TrackInv' /\ GoesOn
  BY <1>2, ArrivalIsTracked, DrivingIsTracked, SendingIsTracked, LettingInIsTracked
<1>3. ASSUME NEW m \in updates, Deliver(m) \/ Lose(m)
      PROVE  TrackInv' /\ GoesOn
  BY <1>3, DeliveryIsTracked, LosingIsTracked
<1>4. CASE Tick \/ Read
  BY <1>4, TimeIsTracked, ReadingIsTracked
<1>5. Next => \/ \E v \in Vehicles : Arrive(v) \/ Drive(v) \/ Send(v) \/ LetIn(v)
              \/ \E m \in updates : Deliver(m) \/ Lose(m)
              \/ Tick \/ Read
  BY DEF Next, VehicleStep
<1> QED
  BY <1>1, <1>2, <1>3, <1>4, <1>5

\* The list of vehicles has its type, and is never ahead of a vehicle, at both kinds of
\* intersection; at a signal, who was heard from behind the stop bar does not count as
\* approaching (process_status_intent, update_vehicle_state).
THEOREM ListIsNeverAhead ==
  ASSUME TrackingAssumption
  PROVE  Spec => [](/\ TypeOK /\ NeverAheadOfTheVehicle
                    /\ IntersectionType = "signalized_intersection" => BoxMeansDeparting)
<1>1. TrackingInit => TrackInv
  BY TrackingBegins
<1>2. TrackInv /\ [Next]_trackingVars => TrackInv'
  BY TrackingStep
<1>3. TrackInv => /\ TypeOK /\ NeverAheadOfTheVehicle
                  /\ IntersectionType = "signalized_intersection" => BoxMeansDeparting
  BY DEF TrackInv, DepartingInv
<1> QED
  BY <1>1, <1>2, <1>3, PTL DEF Spec

\* Updates that are doubled, late or overtaken never take a vehicle of the list back to
\* a lane or a state that it left (read_metadata refuses what is not younger).
THEOREM ListGoesOn ==
  ASSUME TrackingAssumption
  PROVE  Spec => [][GoesOn]_trackingVars
<1>1. TrackingInit => TrackInv
  BY TrackingBegins
<1>2. TrackInv /\ [Next]_trackingVars => TrackInv'
  BY TrackingStep
<1>3. TrackInv /\ [Next]_trackingVars => [GoesOn]_trackingVars
  BY TrackingStep
<1> QED
  BY <1>1, <1>2, <1>3, PTL DEF Spec

=============================================================================
