--------------------------- MODULE AggregateProofs ---------------------------
(***************************************************************************)
(* Proofs about Aggregate for any tuples, weights, conditions, relations   *)
(* and number of reports.                                                  *)
(*                                                                         *)
(* Sums are folds over sets of tuples: a tuple can be added to or taken    *)
(* out of a sum in any order, which is all the rest uses (ValueJoins).     *)
(* The invariant of body aggregates (BodyInv) says that the range covers   *)
(* the value of every set that contains the facts and is contained in what *)
(* was reported, and that an atom is only left undefined if its range      *)
(* misses the bounds; that of assignment aggregates (AsgInv) that the      *)
(* recorded values are the weights of the open tuples, in some order.      *)
(***************************************************************************)
EXTENDS Aggregate, FiniteSetTheorems, SequenceTheorems, WellFoundedInduction, TLAPS

-----------------------------------------------------------------------------
(***************************************************************************)
(* Sets of intervals                                                       *)
(*                                                                         *)
(* IntervalSet implements sets: what add, remove, contains and intersects  *)
(* compute for sets of intervals in normal form, for all bounds.           *)
(*                                                                         *)
(* A value v of the order is the position 2 * v, the gap behind it the     *)
(* position 2 * v + 1.  An interval stands for the positions from its      *)
(* first to its last one, and each of the comparisons between bounds is    *)
(* one between first and last positions.                                   *)
(***************************************************************************)

Bounds == [bound : Int, inclusive : BOOLEAN]
Intervals == [left : Bounds, right : Bounds]

FirstOf(l) == IF l.inclusive THEN 2 * l.bound ELSE 2 * l.bound + 1
LastOf(r) == IF r.inclusive THEN 2 * r.bound ELSE 2 * r.bound - 1

(* Position p is in interval x, or in one of the set vec. *)
In(p, x) == FirstOf(x.left) <= p /\ p <= LastOf(x.right)
Member(p, vec) == \E i \in 1..Len(vec) : In(p, vec[i])

(***************************************************************************)
(* Comparisons                                                             *)
(***************************************************************************)
LEMMA Positions ==
  ASSUME NEW l \in Bounds
  PROVE  /\ FirstOf(l) \in Int /\ LastOf(l) \in Int
         /\ Flip(l) \in Bounds
         /\ LastOf(Flip(l)) = FirstOf(l) - 1
         /\ FirstOf(Flip(l)) = LastOf(l) + 1
<1>1. l.bound \in Int /\ l.inclusive \in BOOLEAN
  BY DEF Bounds
<1>2. Flip(l) = [bound |-> l.bound, inclusive |-> ~l.inclusive]
  BY DEF Flip, Bounds
<1>3. Flip(l).bound = l.bound /\ Flip(l).inclusive = ~l.inclusive
  BY <1>2
<1>4. Flip(l) \in Bounds
  BY <1>1, <1>2 DEF Bounds
<1>5. CASE l.inclusive
  <2>1. Flip(l).inclusive = FALSE
    BY <1>3, <1>5
  <2> QED BY <1>1, <1>3, <1>4, <1>5, <2>1 DEF FirstOf, LastOf
<1>6. CASE ~l.inclusive
  <2>1. Flip(l).inclusive = TRUE
    BY <1>3, <1>6
  <2> QED BY <1>1, <1>3, <1>4, <1>6, <2>1 DEF FirstOf, LastOf
<1> QED BY <1>1, <1>5, <1>6

LEMMA Comparisons ==
  ASSUME NEW l \in Bounds, NEW r \in Bounds
  PROVE  /\ LeftBefore(l, r) <=> FirstOf(l) < FirstOf(r)
         /\ LeftAtMost(l, r) <=> FirstOf(l) <= FirstOf(r)
         /\ LeftBeforeRight(l, r) <=> FirstOf(l) <= LastOf(r)
         /\ RightBefore(l, r) <=> LastOf(l) < LastOf(r)
         /\ RightAtMost(l, r) <=> LastOf(l) <= LastOf(r)
         /\ RightBeforeLeft(l, r) <=> LastOf(l) + 1 < FirstOf(r)
<1> USE DEF LeftBefore, LeftAtMost, LeftBeforeRight, RightBefore, RightAtMost,
            RightBeforeLeft, FirstOf, LastOf
<1>1. l.bound \in Int /\ r.bound \in Int /\ l.inclusive \in BOOLEAN /\ r.inclusive \in BOOLEAN
  BY DEF Bounds
<1>2. CASE l.inclusive /\ r.inclusive
  BY <1>1, <1>2
<1>3. CASE l.inclusive /\ ~r.inclusive
  BY <1>1, <1>3
<1>4. CASE ~l.inclusive /\ r.inclusive
  BY <1>1, <1>4
<1>5. CASE ~l.inclusive /\ ~r.inclusive
  BY <1>1, <1>5
<1> QED BY <1>1, <1>2, <1>3, <1>4, <1>5

(* The same for intervals. *)
LEMMA IntervalFacts ==
  ASSUME NEW x \in Intervals, NEW y \in Intervals
  PROVE  /\ x.left \in Bounds /\ x.right \in Bounds
         /\ FirstOf(x.left) \in Int /\ LastOf(x.right) \in Int
         /\ IsEmpty(x) <=> LastOf(x.right) < FirstOf(x.left)
         /\ Below(x, y) <=> LastOf(x.right) + 1 < FirstOf(y.left)
<1>1. x.left \in Bounds /\ x.right \in Bounds /\ y.left \in Bounds
  BY DEF Intervals
<1>2. FirstOf(x.left) \in Int /\ LastOf(x.right) \in Int
  BY <1>1, Positions
<1>3. LeftBeforeRight(x.left, x.right) <=> FirstOf(x.left) <= LastOf(x.right)
  BY <1>1, Comparisons
<1>4. RightBeforeLeft(x.right, y.left) <=> LastOf(x.right) + 1 < FirstOf(y.left)
  BY <1>1, Comparisons
<1> QED BY <1>1, <1>2, <1>3, <1>4 DEF IsEmpty, Below

(***************************************************************************)
(* Normal form                                                             *)
(***************************************************************************)
(* In a set in normal form, first and last positions ascend with gaps.     *)
LEMMA Ascending ==
  ASSUME NEW vec \in Seq(Intervals), IsNormal(vec)
  PROVE  /\ \A i \in 1..Len(vec) :
              /\ vec[i] \in Intervals
              /\ FirstOf(vec[i].left) \in Int /\ LastOf(vec[i].right) \in Int
              /\ FirstOf(vec[i].left) <= LastOf(vec[i].right)
         /\ \A i, j \in 1..Len(vec) :
              i < j => LastOf(vec[i].right) + 1 < FirstOf(vec[j].left)
<1>1. \A i \in 1..Len(vec) : vec[i] \in Intervals
  OBVIOUS
<1>2. \A i \in 1..Len(vec) : ~IsEmpty(vec[i])
  BY DEF IsNormal
<1>3. \A i, j \in 1..Len(vec) : i < j => Below(vec[i], vec[j])
  BY DEF IsNormal
<1>4. ASSUME NEW i \in 1..Len(vec)
      PROVE  /\ FirstOf(vec[i].left) \in Int /\ LastOf(vec[i].right) \in Int
             /\ FirstOf(vec[i].left) <= LastOf(vec[i].right)
  BY <1>1, <1>2, IntervalFacts
<1>5. ASSUME NEW i \in 1..Len(vec), NEW j \in 1..Len(vec), i < j
      PROVE  LastOf(vec[i].right) + 1 < FirstOf(vec[j].left)
  BY <1>1, <1>3, <1>5, IntervalFacts
<1> QED BY <1>1, <1>4, <1>5

(* Every nonempty set of natural numbers has a least element.              *)
LEMMA Least ==
  ASSUME NEW S, S \subseteq Nat, S # {}
  PROVE  \E m \in S : \A k \in S : m <= k
<1> DEFINE R == {ss \in Nat \X Nat : ss[1] < ss[2]}
<1>1. IsWellFoundedOn(R, Nat)
  BY NatLessThanWellFounded DEF OpToRel
<1> HIDE DEF R
<1>2. PICK m \in S : \A k \in S : ~(<<k, m>> \in R)
  BY <1>1, WFMin
<1>3. ASSUME NEW k \in S PROVE m <= k
  <2>1. ~(<<k, m>> \in R) /\ k \in Nat /\ m \in Nat
    BY <1>2
  <2>2. ~(k < m)
    BY <2>1 DEF R
  <2> QED BY <2>1, <2>2
<1> QED BY <1>3

(***************************************************************************)
(* The intervals that overlap or touch x                                   *)
(***************************************************************************)
LEMMA LowerBoundFound ==
  ASSUME NEW vec \in Seq(Intervals), IsNormal(vec), NEW x \in Intervals
  PROVE  /\ LowerBound(vec, x) \in 1..(Len(vec) + 1)
         /\ \A k \in 1..Len(vec) :
              k < LowerBound(vec, x) <=> LastOf(vec[k].right) + 1 < FirstOf(x.left)
<1> DEFINE First_(i) == \A k \in 1..(i - 1) : Below(vec[k], x)
           Stops(i) == i <= Len(vec) => ~Below(vec[i], x)
           S == {i \in 1..(Len(vec) + 1) : Stops(i)}
<1>1. Len(vec) \in Nat
  OBVIOUS
<1>2. Len(vec) + 1 \in S
  BY <1>1
<1>3. S \subseteq Nat /\ S # {}
  BY <1>1, <1>2
<1> HIDE DEF S
<1>4. PICK i \in S : \A k \in S : i <= k
  BY <1>3, Least
<1>5. i \in 1..(Len(vec) + 1) /\ Stops(i)
  BY <1>4 DEF S
<1>6. First_(i)
  <2> SUFFICES ASSUME NEW k \in 1..(i - 1) PROVE Below(vec[k], x)
    OBVIOUS
  <2>1. k \in 1..(Len(vec) + 1) /\ k < i
    BY <1>1, <1>5
  <2>2. k \notin S
    BY <1>3, <1>4, <2>1
  <2> QED BY <2>1, <2>2 DEF S
<1>7. /\ LowerBound(vec, x) \in 1..(Len(vec) + 1)
      /\ First_(LowerBound(vec, x))
      /\ Stops(LowerBound(vec, x))
  <2>1. \E n \in 1..(Len(vec) + 1) : First_(n) /\ Stops(n)
    BY <1>5, <1>6
  <2> QED BY <2>1 DEF LowerBound
<1> DEFINE it == LowerBound(vec, x)
<1> HIDE DEF it
<1>8. it \in 1..(Len(vec) + 1) /\ First_(it) /\ Stops(it)
  BY <1>7 DEF it
<1>9. \A k \in 1..Len(vec) : Below(vec[k], x) <=> LastOf(vec[k].right) + 1 < FirstOf(x.left)
  BY IntervalFacts, Ascending
<1>10. ASSUME NEW k \in 1..Len(vec), it <= k
       PROVE  ~(LastOf(vec[k].right) + 1 < FirstOf(x.left))
  <2>1. it \in 1..Len(vec)
    BY <1>1, <1>8, <1>10
  <2>2. ~(LastOf(vec[it].right) + 1 < FirstOf(x.left))
    BY <1>8, <1>9, <2>1
  <2>3. LastOf(vec[it].right) <= LastOf(vec[k].right)
    <3>1. CASE it = k
      BY <2>1, <3>1, Ascending
    <3>2. CASE it < k
      <4>1. LastOf(vec[it].right) + 1 < FirstOf(vec[k].left)
        BY <2>1, <3>2, Ascending
      <4> QED BY <2>1, <4>1, Ascending
    <3> QED BY <1>10, <2>1, <3>1, <3>2
  <2>4. FirstOf(x.left) \in Int /\ LastOf(vec[it].right) \in Int /\ LastOf(vec[k].right) \in Int
    BY <2>1, Ascending, IntervalFacts
  <2> QED BY <2>2, <2>3, <2>4
<1>11. ASSUME NEW k \in 1..Len(vec), k < it
       PROVE  LastOf(vec[k].right) + 1 < FirstOf(x.left)
  <2>1. k \in 1..(it - 1)
    BY <1>1, <1>8, <1>11
  <2> QED BY <1>8, <1>9, <2>1
<1>12. \A k \in 1..Len(vec) : k < it <=> LastOf(vec[k].right) + 1 < FirstOf(x.left)
  BY <1>1, <1>8, <1>10, <1>11
<1> QED BY <1>8, <1>12 DEF it

LEMMA UpperBoundFound ==
  ASSUME NEW vec \in Seq(Intervals), IsNormal(vec), NEW x \in Intervals
  PROVE  /\ UpperBound(vec, x) \in LowerBound(vec, x)..(Len(vec) + 1)
         /\ \A k \in LowerBound(vec, x)..Len(vec) :
              UpperBound(vec, x) <= k <=> LastOf(x.right) + 1 < FirstOf(vec[k].left)
<1> DEFINE it == LowerBound(vec, x)
           All_(j) == \A k \in it..(j - 1) : ~Below(x, vec[k])
           Stops(j) == j <= Len(vec) => Below(x, vec[j])
           S == {j \in it..(Len(vec) + 1) : Stops(j)}
<1>1. Len(vec) \in Nat /\ it \in 1..(Len(vec) + 1)
  BY LowerBoundFound
<1> HIDE DEF it
<1>2. Len(vec) + 1 \in S
  BY <1>1
<1>3. S \subseteq Nat /\ S # {}
  BY <1>1, <1>2
<1> HIDE DEF S
<1>4. PICK j \in S : \A k \in S : j <= k
  BY <1>3, Least
<1>5. j \in it..(Len(vec) + 1) /\ Stops(j)
  BY <1>4 DEF S
<1>6. All_(j)
  <2> SUFFICES ASSUME NEW k \in it..(j - 1) PROVE ~Below(x, vec[k])
    OBVIOUS
  <2>1. k \in it..(Len(vec) + 1) /\ k < j
    BY <1>1, <1>5
  <2>2. k \notin S
    BY <1>1, <1>3, <1>4, <2>1
  <2> QED BY <2>1, <2>2 DEF S
<1>7. /\ UpperBound(vec, x) \in it..(Len(vec) + 1)
      /\ All_(UpperBound(vec, x))
      /\ Stops(UpperBound(vec, x))
  <2>1. \E n \in it..(Len(vec) + 1) : All_(n) /\ Stops(n)
    BY <1>5, <1>6
  <2> QED BY <2>1 DEF UpperBound, it
<1> DEFINE jt == UpperBound(vec, x)
<1> HIDE DEF jt
<1>8. jt \in it..(Len(vec) + 1) /\ All_(jt) /\ Stops(jt)
  BY <1>7 DEF jt
<1>9. \A k \in 1..Len(vec) : Below(x, vec[k]) <=> LastOf(x.right) + 1 < FirstOf(vec[k].left)
  BY IntervalFacts, Ascending
<1>10. ASSUME NEW k \in it..Len(vec), jt <= k
       PROVE  LastOf(x.right) + 1 < FirstOf(vec[k].left)
  <2>1. jt \in 1..Len(vec) /\ k \in 1..Len(vec)
    BY <1>1, <1>8, <1>10
  <2>2. LastOf(x.right) + 1 < FirstOf(vec[jt].left)
    BY <1>8, <1>9, <2>1
  <2>3. FirstOf(vec[jt].left) <= FirstOf(vec[k].left)
    <3>1. CASE jt = k
      BY <2>1, <3>1, Ascending
    <3>2. CASE jt < k
      <4>1. LastOf(vec[jt].right) + 1 < FirstOf(vec[k].left)
        BY <2>1, <3>2, Ascending
      <4> QED BY <2>1, <4>1, Ascending
    <3> QED BY <1>10, <2>1, <3>1, <3>2
  <2>4. LastOf(x.right) \in Int /\ FirstOf(vec[jt].left) \in Int /\ FirstOf(vec[k].left) \in Int
    BY <2>1, Ascending, IntervalFacts
  <2> QED BY <2>2, <2>3, <2>4
<1>11. ASSUME NEW k \in it..Len(vec), k < jt
       PROVE  ~(LastOf(x.right) + 1 < FirstOf(vec[k].left))
  <2>1. k \in it..(jt - 1) /\ k \in 1..Len(vec)
    BY <1>1, <1>8, <1>11
  <2> QED BY <1>8, <1>9, <2>1
<1>12. \A k \in it..Len(vec) : jt <= k <=> LastOf(x.right) + 1 < FirstOf(vec[k].left)
  BY <1>1, <1>8, <1>10, <1>11
<1> QED BY <1>8, <1>12 DEF it, jt

(***************************************************************************)
(* Splicing                                                                *)
(***************************************************************************)
LEMMA SpliceElements ==
  ASSUME NEW vec \in Seq(Intervals), NEW new \in Seq(Intervals),
         NEW it \in 1..(Len(vec) + 1), NEW jt \in it..(Len(vec) + 1)
  PROVE  LET res == Splice(vec, it, jt, new)
             m == Len(new)
         IN /\ res \in Seq(Intervals)
            /\ Len(res) = (it - 1) + m + (Len(vec) - jt + 1)
            /\ \A i \in 1..Len(res) : res[i] =
                 IF i < it THEN vec[i]
                 ELSE IF i < it + m THEN new[i - it + 1]
                 ELSE vec[i - it - m + jt]
<1> DEFINE n == Len(vec)
           m == Len(new)
           pre == SubSeq(vec, 1, it - 1)
           post == SubSeq(vec, jt, n)
           res == Splice(vec, it, jt, new)
<1>1. n \in Nat /\ m \in Nat /\ it \in Nat /\ jt \in Nat /\ it >= 1 /\ it <= jt /\ jt <= n + 1
  OBVIOUS
<1>2. \A i \in 1..n : vec[i] \in Intervals
  OBVIOUS
<1>3. /\ pre \in Seq(Intervals)
      /\ Len(pre) = it - 1
      /\ \A i \in 1..(it - 1) : pre[i] = vec[i]
  <2>1. \A i \in 1..(it - 1) : vec[i] \in Intervals
    BY <1>1, <1>2
  <2>2. /\ pre \in Seq(Intervals)
        /\ Len(pre) = IF 1 <= it - 1 THEN it - 1 - 1 + 1 ELSE 0
        /\ \A i \in 1..(it - 1 - 1 + 1) : pre[i] = vec[1 + i - 1]
    BY <1>1, <2>1, SubSeqProperties
  <2>3. ASSUME NEW i \in 1..(it - 1) PROVE pre[i] = vec[i]
    <3>1. i \in 1..(it - 1 - 1 + 1) /\ 1 + i - 1 = i
      BY <1>1
    <3> QED BY <2>2, <3>1
  <2> QED BY <1>1, <2>2, <2>3
<1>4. /\ post \in Seq(Intervals)
      /\ Len(post) = n - jt + 1
      /\ \A i \in 1..(n - jt + 1) : post[i] = vec[jt + i - 1]
  <2>1. \A i \in jt..n : vec[i] \in Intervals
    BY <1>1, <1>2
  <2>2. /\ post \in Seq(Intervals)
        /\ Len(post) = IF jt <= n THEN n - jt + 1 ELSE 0
        /\ \A i \in 1..(n - jt + 1) : post[i] = vec[jt + i - 1]
    BY <1>1, <2>1, SubSeqProperties
  <2> QED BY <1>1, <2>2
<1> DEFINE front == pre \o new
<1> HIDE DEF pre, post
<1>5. /\ front \in Seq(Intervals)
      /\ Len(front) = it - 1 + m
      /\ \A i \in 1..(it - 1 + m) :
           front[i] = IF i <= it - 1 THEN pre[i] ELSE new[i - (it - 1)]
  <2>1. pre \in Seq(Intervals) /\ new \in Seq(Intervals) /\ Len(pre) = it - 1
    BY <1>3
  <2>2. /\ front \in Seq(Intervals)
        /\ Len(front) = Len(pre) + Len(new)
        /\ \A i \in 1..(Len(pre) + Len(new)) :
             front[i] = IF i <= Len(pre) THEN pre[i] ELSE new[i - Len(pre)]
    BY <2>1, ConcatProperties, Zenon
  <2> HIDE DEF front
  <2> QED BY <2>1, <2>2
<1> HIDE DEF front
<1>6. /\ front \o post \in Seq(Intervals)
      /\ Len(front \o post) = it - 1 + m + (n - jt + 1)
      /\ \A i \in 1..(it - 1 + m + (n - jt + 1)) :
           (front \o post)[i] = IF i <= it - 1 + m THEN front[i] ELSE post[i - (it - 1 + m)]
  <2>1. Len(front) = it - 1 + m /\ Len(post) = n - jt + 1
    BY <1>4, <1>5
  <2> front \in Seq(Intervals) /\ post \in Seq(Intervals)
    BY <1>4, <1>5
  <2> DEFINE all == front \o post
  <2>2. /\ all \in Seq(Intervals)
        /\ Len(all) = Len(front) + Len(post)
        /\ \A i \in 1..(Len(front) + Len(post)) :
             all[i] = IF i <= Len(front) THEN front[i] ELSE post[i - Len(front)]
    BY ConcatProperties
  <2> HIDE DEF all
  <2>3. /\ all \in Seq(Intervals)
        /\ Len(all) = it - 1 + m + (n - jt + 1)
        /\ \A i \in 1..(it - 1 + m + (n - jt + 1)) :
             all[i] = IF i <= it - 1 + m THEN front[i] ELSE post[i - (it - 1 + m)]
    BY <2>1, <2>2
  <2> QED BY <2>3 DEF all
<1>7. res = front \o post
  BY DEF Splice, front, pre, post
<1>8. ASSUME NEW i \in 1..Len(res)
      PROVE  res[i] = IF i < it THEN vec[i]
                      ELSE IF i < it + m THEN new[i - it + 1]
                      ELSE vec[i - it - m + jt]
  <2>1. i \in Nat /\ 1 <= i /\ i <= it - 1 + m + (n - jt + 1)
    BY <1>1, <1>6, <1>7
  <2>2. CASE i < it
    <3>1. i <= it - 1 /\ i <= it - 1 + m
      BY <1>1, <2>1, <2>2
    <3>2. res[i] = front[i]
      BY <1>6, <1>7, <2>1, <3>1
    <3>3. front[i] = pre[i]
      BY <1>1, <1>5, <2>1, <3>1
    <3> QED BY <1>1, <1>3, <2>1, <2>2, <3>1, <3>2, <3>3
  <2>3. CASE it <= i /\ i < it + m
    <3>1. ~(i <= it - 1) /\ i <= it - 1 + m /\ i - (it - 1) = i - it + 1
      BY <1>1, <2>1, <2>3
    <3>2. res[i] = front[i]
      BY <1>6, <1>7, <2>1, <3>1
    <3>3. front[i] = new[i - (it - 1)]
      <4>1. i \in 1..(it - 1 + m)
        BY <1>1, <2>1, <3>1
      <4> QED BY <1>5, <3>1, <4>1
    <3> QED BY <1>1, <2>1, <2>3, <3>1, <3>2, <3>3
  <2>4. CASE it + m <= i
    <3>1. /\ ~(i <= it - 1 + m)
          /\ i - (it - 1 + m) \in 1..(n - jt + 1)
          /\ jt + (i - (it - 1 + m)) - 1 = i - it - m + jt
      BY <1>1, <2>1, <2>4
    <3>2. res[i] = post[i - (it - 1 + m)]
      BY <1>6, <1>7, <2>1, <3>1
    <3>3. post[i - (it - 1 + m)] = vec[i - it - m + jt]
      BY <1>4, <3>1
    <3> QED BY <1>1, <2>1, <2>4, <3>2, <3>3
  <2> QED BY <1>1, <2>1, <2>2, <2>3, <2>4
<1> QED BY <1>6, <1>7, <1>8

(* The places of the elements in the result. *)
LEMMA SplicePlaces ==
  ASSUME NEW vec \in Seq(Intervals), NEW new \in Seq(Intervals),
         NEW it \in 1..(Len(vec) + 1), NEW jt \in it..(Len(vec) + 1)
  PROVE  LET res == Splice(vec, it, jt, new)
             m == Len(new)
         IN /\ \A k \in 1..(it - 1) : k \in 1..Len(res) /\ res[k] = vec[k]
            /\ \A k \in 1..m : it + k - 1 \in 1..Len(res) /\ res[it + k - 1] = new[k]
            /\ \A k \in jt..Len(vec) :
                 it + m + k - jt \in 1..Len(res) /\ res[it + m + k - jt] = vec[k]
<1> DEFINE n == Len(vec)
           m == Len(new)
           res == Splice(vec, it, jt, new)
<1>1. n \in Nat /\ m \in Nat /\ it \in Nat /\ jt \in Nat /\ it >= 1 /\ it <= jt /\ jt <= n + 1
  OBVIOUS
<1>2. /\ Len(res) = (it - 1) + m + (n - jt + 1)
      /\ \A i \in 1..Len(res) : res[i] = IF i < it THEN vec[i]
                                         ELSE IF i < it + m THEN new[i - it + 1]
                                         ELSE vec[i - it - m + jt]
  BY SpliceElements
<1> HIDE DEF n, m, res
<1>3. ASSUME NEW k \in 1..(it - 1) PROVE k \in 1..Len(res) /\ res[k] = vec[k]
  <2>1. k \in 1..Len(res) /\ k < it
    BY <1>1, <1>2
  <2> QED BY <1>2, <2>1
<1>4. ASSUME NEW k \in 1..m PROVE it + k - 1 \in 1..Len(res) /\ res[it + k - 1] = new[k]
  <2>1. /\ it + k - 1 \in 1..Len(res) /\ ~(it + k - 1 < it)
        /\ it + k - 1 < it + m /\ (it + k - 1) - it + 1 = k
    BY <1>1, <1>2
  <2> QED BY <1>2, <2>1
<1>5. ASSUME NEW k \in jt..n
      PROVE  it + m + k - jt \in 1..Len(res) /\ res[it + m + k - jt] = vec[k]
  <2>1. /\ it + m + k - jt \in 1..Len(res) /\ ~(it + m + k - jt < it)
        /\ ~(it + m + k - jt < it + m) /\ (it + m + k - jt) - it - m + jt = k
    <3>1. k \in Nat /\ jt <= k /\ k <= n /\ Len(res) = (it - 1) + m + (n - jt + 1)
      BY <1>1, <1>2
    <3> QED BY <1>1, <3>1
  <2> QED BY <1>2, <2>1
<1> QED BY <1>3, <1>4, <1>5 DEF n, m, res

LEMMA SpliceMembers ==
  ASSUME NEW vec \in Seq(Intervals), NEW new \in Seq(Intervals),
         NEW it \in 1..(Len(vec) + 1), NEW jt \in it..(Len(vec) + 1), NEW p \in Int
  PROVE  Member(p, Splice(vec, it, jt, new)) <=>
           \/ \E k \in 1..(it - 1) : In(p, vec[k])
           \/ Member(p, new)
           \/ \E k \in jt..Len(vec) : In(p, vec[k])
<1> DEFINE n == Len(vec)
           m == Len(new)
           res == Splice(vec, it, jt, new)
<1>1. n \in Nat /\ m \in Nat /\ it \in Nat /\ jt \in Nat /\ it >= 1 /\ it <= jt /\ jt <= n + 1
  OBVIOUS
<1>2. /\ Len(res) = (it - 1) + m + (n - jt + 1)
      /\ \A i \in 1..Len(res) : res[i] = IF i < it THEN vec[i]
                                         ELSE IF i < it + m THEN new[i - it + 1]
                                         ELSE vec[i - it - m + jt]
  BY SpliceElements
<1>3. /\ \A k \in 1..(it - 1) : k \in 1..Len(res) /\ res[k] = vec[k]
      /\ \A k \in 1..m : it + k - 1 \in 1..Len(res) /\ res[it + k - 1] = new[k]
      /\ \A k \in jt..n : it + m + k - jt \in 1..Len(res) /\ res[it + m + k - jt] = vec[k]
  BY SplicePlaces
<1> HIDE DEF n, m, res
<1>4. ASSUME NEW i \in 1..Len(res), In(p, res[i])
      PROVE  \/ \E k \in 1..(it - 1) : In(p, vec[k])
             \/ \E k \in 1..m : In(p, new[k])
             \/ \E k \in jt..n : In(p, vec[k])
  <2>1. CASE i < it
    <3>1. i \in 1..(it - 1) /\ res[i] = vec[i]
      BY <1>1, <1>2, <2>1
    <3> QED BY <1>4, <3>1
  <2>2. CASE ~(i < it) /\ i < it + m
    <3>1. i - it + 1 \in 1..m /\ res[i] = new[i - it + 1]
      BY <1>1, <1>2, <2>2
    <3> QED BY <1>4, <3>1
  <2>3. CASE ~(i < it) /\ ~(i < it + m)
    <3>1. i - it - m + jt \in jt..n /\ res[i] = vec[i - it - m + jt]
      BY <1>1, <1>2, <2>3
    <3> QED BY <1>4, <3>1
  <2> QED BY <2>1, <2>2, <2>3
<1>5. ASSUME NEW k \in 1..(it - 1), In(p, vec[k])
      PROVE  \E i \in 1..Len(res) : In(p, res[i])
  BY <1>3, <1>5
<1>6. ASSUME NEW k \in 1..m, In(p, new[k])
      PROVE  \E i \in 1..Len(res) : In(p, res[i])
  BY <1>3, <1>6
<1>7. ASSUME NEW k \in jt..n, In(p, vec[k])
      PROVE  \E i \in 1..Len(res) : In(p, res[i])
  BY <1>3, <1>7
<1> QED BY <1>4, <1>5, <1>6, <1>7 DEF Member, n, m, res

LEMMA SpliceNormal ==
  ASSUME NEW vec \in Seq(Intervals), NEW new \in Seq(Intervals),
         NEW it \in 1..(Len(vec) + 1), NEW jt \in it..(Len(vec) + 1),
         IsNormal(vec), IsNormal(new),
         \A k \in 1..(it - 1), l \in 1..Len(new) : Below(vec[k], new[l]),
         \A k \in jt..Len(vec), l \in 1..Len(new) : Below(new[l], vec[k])
  PROVE  /\ Splice(vec, it, jt, new) \in Seq(Intervals)
         /\ IsNormal(Splice(vec, it, jt, new))
<1> DEFINE n == Len(vec)
           m == Len(new)
           res == Splice(vec, it, jt, new)
<1>1. n \in Nat /\ m \in Nat /\ it \in Nat /\ jt \in Nat /\ it >= 1 /\ it <= jt /\ jt <= n + 1
  OBVIOUS
<1>2. /\ res \in Seq(Intervals)
      /\ Len(res) = (it - 1) + m + (n - jt + 1)
      /\ \A i \in 1..Len(res) : res[i] = IF i < it THEN vec[i]
                                         ELSE IF i < it + m THEN new[i - it + 1]
                                         ELSE vec[i - it - m + jt]
  BY SpliceElements
<1>3. /\ \A k \in 1..n : ~IsEmpty(vec[k])
      /\ \A k, l \in 1..n : k < l => Below(vec[k], vec[l])
      /\ \A k \in 1..m : ~IsEmpty(new[k])
      /\ \A k, l \in 1..m : k < l => Below(new[k], new[l])
  BY DEF IsNormal
<1>4. /\ \A k \in 1..(it - 1), l \in 1..m : Below(vec[k], new[l])
      /\ \A k \in jt..n, l \in 1..m : Below(new[l], vec[k])
  OBVIOUS
<1> DEFINE
      Early(i) == i \in 1..(it - 1) /\ res[i] = vec[i]
      Middle(i) == ~(i < it) /\ i - it + 1 \in 1..m /\ res[i] = new[i - it + 1]
      Late(i) == ~(i < it + m) /\ i - it - m + jt \in jt..n /\ res[i] = vec[i - it - m + jt]
<1> HIDE DEF n, m, res
<1>5. ASSUME NEW i \in 1..Len(res) PROVE i \in Nat /\ (Early(i) \/ Middle(i) \/ Late(i))
  <2>1. CASE i < it
    BY <1>1, <1>2, <2>1
  <2>2. CASE ~(i < it) /\ i < it + m
    BY <1>1, <1>2, <2>2
  <2>3. CASE ~(i < it) /\ ~(i < it + m)
    BY <1>1, <1>2, <2>3
  <2> QED BY <2>1, <2>2, <2>3
<1>late. ASSUME NEW i \in 1..Len(res), Late(i)
         PROVE  /\ i - it - m + jt \in 1..n
                /\ res[i] = vec[i - it - m + jt]
  <2>1. \A k \in jt..n : k \in 1..n
    BY <1>1
  <2> QED BY <1>late, <2>1
<1>6. ASSUME NEW i \in 1..Len(res) PROVE ~IsEmpty(res[i])
  <2>1. CASE Early(i)
    BY <1>1, <1>3, <2>1
  <2>2. CASE Middle(i)
    BY <1>3, <2>2
  <2>3. CASE Late(i)
    BY <1>3, <1>late, <2>3
  <2> QED BY <1>5, <2>1, <2>2, <2>3
<1>7. ASSUME NEW i \in 1..Len(res), NEW j \in 1..Len(res), i < j
      PROVE  Below(res[i], res[j])
  <2>0. i \in Nat /\ j \in Nat
    BY <1>5
  <2>1. CASE Early(i) /\ Early(j)
    <3>1. \A k \in 1..(it - 1) : k \in 1..n
      BY <1>1
    <3>2. i \in 1..n /\ j \in 1..n
      BY <2>1, <3>1
    <3> QED BY <1>3, <1>7, <2>1, <3>2
  <2>2. CASE Early(i) /\ Middle(j)
    BY <1>4, <2>2
  <2>3. CASE Early(i) /\ Late(j)
    <3>1. i \in 1..n /\ j - it - m + jt \in 1..n /\ i < j - it - m + jt
      BY <1>1, <2>0, <2>3
    <3> QED BY <1>3, <2>3, <3>1
  <2>4. CASE Middle(i) /\ Early(j)
    BY <1>1, <1>7, <2>0, <2>4
  <2>5. CASE Middle(i) /\ Middle(j)
    <3>1. i - it + 1 < j - it + 1
      BY <1>1, <1>7, <2>0
    <3> QED BY <1>3, <2>5, <3>1
  <2>6. CASE Middle(i) /\ Late(j)
    BY <1>4, <2>6
  <2>7. CASE Late(i) /\ (Early(j) \/ Middle(j))
    <3>1. i >= it + m
      BY <1>1, <2>0, <2>7
    <3>2. j < it + m
      <4>1. CASE Early(j)
        BY <1>1, <2>0, <4>1
      <4>2. CASE Middle(j)
        <5>1. j - it + 1 <= m
          BY <1>1, <4>2
        <5> QED BY <1>1, <2>0, <5>1
      <4> QED BY <2>7, <4>1, <4>2
    <3> QED BY <1>1, <1>7, <2>0, <3>1, <3>2
  <2>8. CASE Late(i) /\ Late(j)
    <3>1. /\ i - it - m + jt \in 1..n /\ j - it - m + jt \in 1..n
          /\ i - it - m + jt < j - it - m + jt
      <4>1. i - it - m + jt \in 1..n /\ j - it - m + jt \in 1..n
        BY <1>late, <2>8
      <4>2. i - it - m + jt < j - it - m + jt
        BY <1>1, <1>7, <2>0
      <4> QED BY <4>1, <4>2
    <3> QED BY <1>3, <2>8, <3>1
  <2> QED BY <1>5, <2>1, <2>2, <2>3, <2>4, <2>5, <2>6, <2>7, <2>8
<1>8. DOMAIN res = 1..Len(res)
  BY <1>2
<1> QED BY <1>2, <1>6, <1>7, <1>8 DEF IsNormal, res

(***************************************************************************)
(* add and remove                                                          *)
(***************************************************************************)
LEMMA Monotone ==
  ASSUME NEW vec \in Seq(Intervals), IsNormal(vec),
         NEW i \in 1..Len(vec), NEW j \in i..Len(vec)
  PROVE  /\ FirstOf(vec[i].left) <= FirstOf(vec[j].left)
         /\ LastOf(vec[i].right) <= LastOf(vec[j].right)
<1>1. j \in 1..Len(vec) /\ (i = j \/ i < j)
  OBVIOUS
<1>2. CASE i = j
  BY <1>1, <1>2, Ascending
<1>3. CASE i < j
  <2>1. LastOf(vec[i].right) + 1 < FirstOf(vec[j].left)
    BY <1>1, <1>3, Ascending
  <2> QED BY <1>1, <2>1, Ascending
<1> QED BY <1>1, <1>2, <1>3

LEMMA OneInterval ==
  ASSUME NEW x \in Intervals, ~IsEmpty(x)
  PROVE  /\ <<x>> \in Seq(Intervals)
         /\ IsNormal(<<x>>)
         /\ \A p \in Int : Member(p, <<x>>) <=> In(p, x)
<1>1. Len(<<x>>) = 1 /\ <<x>>[1] = x /\ DOMAIN <<x>> = 1..1
  OBVIOUS
<1>2. 1..1 = {1}
  OBVIOUS
<1>3. IsNormal(<<x>>)
  BY <1>1, <1>2 DEF IsNormal
<1>4. \A p \in Int : Member(p, <<x>>) <=> In(p, x)
  BY <1>1, <1>2 DEF Member
<1> QED BY <1>3, <1>4

LEMMA NoInterval ==
  /\ <<>> \in Seq(Intervals)
  /\ IsNormal(<<>>)
  /\ \A p \in Int : ~Member(p, <<>>)
BY DEF IsNormal, Member

LEMMA Extremes ==
  ASSUME NEW x \in Bounds, NEW y \in Bounds
  PROVE  /\ MinLeft(x, y) \in Bounds
         /\ FirstOf(MinLeft(x, y)) = IF FirstOf(y) < FirstOf(x) THEN FirstOf(y) ELSE FirstOf(x)
         /\ MaxRight(x, y) \in Bounds
         /\ LastOf(MaxRight(x, y)) = IF LastOf(x) < LastOf(y) THEN LastOf(y) ELSE LastOf(x)
<1>1. LeftBefore(y, x) <=> FirstOf(y) < FirstOf(x)
  BY Comparisons
<1>2. RightBefore(x, y) <=> LastOf(x) < LastOf(y)
  BY Comparisons
<1> QED BY <1>1, <1>2 DEF MinLeft, MaxRight

(* The positions of all bounds that add and remove look at, as numbers.    *)
LEMMA Met ==
  ASSUME NEW vec \in Seq(Intervals), IsNormal(vec), NEW x \in Intervals, ~IsEmpty(x)
  PROVE  LET it == LowerBound(vec, x)
             jt == UpperBound(vec, x)
         IN /\ it \in 1..(Len(vec) + 1) /\ jt \in it..(Len(vec) + 1)
            /\ FirstOf(x.left) \in Int /\ LastOf(x.right) \in Int
            /\ FirstOf(x.left) <= LastOf(x.right)
            /\ \A k \in 1..(it - 1) : LastOf(vec[k].right) + 1 < FirstOf(x.left)
            /\ \A k \in it..(jt - 1) : /\ k \in 1..Len(vec)
                                       /\ FirstOf(x.left) <= LastOf(vec[k].right) + 1
                                       /\ FirstOf(vec[k].left) <= LastOf(x.right) + 1
            /\ \A k \in jt..Len(vec) : LastOf(x.right) + 1 < FirstOf(vec[k].left)
<1> DEFINE it == LowerBound(vec, x)
           jt == UpperBound(vec, x)
<1>1. /\ it \in 1..(Len(vec) + 1)
      /\ \A k \in 1..Len(vec) : k < it <=> LastOf(vec[k].right) + 1 < FirstOf(x.left)
  BY LowerBoundFound
<1>2. /\ jt \in it..(Len(vec) + 1)
      /\ \A k \in it..Len(vec) : jt <= k <=> LastOf(x.right) + 1 < FirstOf(vec[k].left)
  BY UpperBoundFound
<1> HIDE DEF it, jt
<1>3. /\ FirstOf(x.left) \in Int /\ LastOf(x.right) \in Int
      /\ FirstOf(x.left) <= LastOf(x.right)
  BY IntervalFacts
<1>4. \A k \in 1..(it - 1) : LastOf(vec[k].right) + 1 < FirstOf(x.left)
  BY <1>1
<1>5. ASSUME NEW k \in it..(jt - 1)
      PROVE  /\ k \in 1..Len(vec)
             /\ FirstOf(x.left) <= LastOf(vec[k].right) + 1
             /\ FirstOf(vec[k].left) <= LastOf(x.right) + 1
  <2>1. k \in 1..Len(vec) /\ ~(k < it) /\ ~(jt <= k) /\ k \in it..Len(vec)
    BY <1>1, <1>2
  <2>2. /\ ~(LastOf(vec[k].right) + 1 < FirstOf(x.left))
        /\ ~(LastOf(x.right) + 1 < FirstOf(vec[k].left))
    BY <1>1, <1>2, <2>1
  <2>3. FirstOf(vec[k].left) \in Int /\ LastOf(vec[k].right) \in Int
    BY <2>1, Ascending
  <2> QED BY <1>3, <2>1, <2>2, <2>3
<1>6. \A k \in jt..Len(vec) : LastOf(x.right) + 1 < FirstOf(vec[k].left)
  BY <1>1, <1>2
<1> QED BY <1>1, <1>2, <1>3, <1>4, <1>5, <1>6 DEF it, jt

(* An interval between the bounds of what it meets can take its place.     *)
LEMMA Replacement ==
  ASSUME NEW vec \in Seq(Intervals), IsNormal(vec), NEW x \in Intervals, ~IsEmpty(x),
         NEW it, it = LowerBound(vec, x), NEW jt, jt = UpperBound(vec, x),
         NEW y \in Intervals,
         it = jt => FirstOf(x.left) <= FirstOf(y.left) /\ LastOf(y.right) <= LastOf(x.right),
         it # jt => /\ \/ FirstOf(x.left) <= FirstOf(y.left)
                       \/ FirstOf(vec[it].left) <= FirstOf(y.left)
                    /\ \/ LastOf(y.right) <= LastOf(x.right)
                       \/ LastOf(y.right) <= LastOf(vec[jt - 1].right)
  PROVE  /\ \A k \in 1..(it - 1) : Below(vec[k], y)
         /\ \A k \in jt..Len(vec) : Below(y, vec[k])
<1>1. /\ it \in 1..(Len(vec) + 1) /\ jt \in it..(Len(vec) + 1) /\ Len(vec) \in Nat
      /\ FirstOf(x.left) \in Int /\ LastOf(x.right) \in Int
      /\ \A k \in 1..(it - 1) : LastOf(vec[k].right) + 1 < FirstOf(x.left)
      /\ \A k \in jt..Len(vec) : LastOf(x.right) + 1 < FirstOf(vec[k].left)
  BY Met
<1>2. FirstOf(y.left) \in Int /\ LastOf(y.right) \in Int
  BY IntervalFacts
<1>3. ASSUME NEW k \in 1..(it - 1) PROVE Below(vec[k], y)
  <2>1. k \in 1..Len(vec) /\ vec[k] \in Intervals /\ LastOf(vec[k].right) \in Int
    BY <1>1, Ascending
  <2>2. LastOf(vec[k].right) + 1 < FirstOf(y.left)
    <3>1. CASE FirstOf(x.left) <= FirstOf(y.left)
      BY <1>1, <1>2, <2>1, <3>1
    <3>2. CASE it # jt /\ FirstOf(vec[it].left) <= FirstOf(y.left)
      <4>1. it \in 1..Len(vec) /\ k < it
        BY <1>1, <3>2
      <4>2. FirstOf(vec[it].left) \in Int /\ LastOf(vec[k].right) + 1 < FirstOf(vec[it].left)
        BY <2>1, <4>1, Ascending
      <4> QED BY <1>2, <2>1, <3>2, <4>2
    <3> QED BY <3>1, <3>2
  <2> QED BY <2>1, <2>2, IntervalFacts
<1>4. ASSUME NEW k \in jt..Len(vec) PROVE Below(y, vec[k])
  <2>1. k \in 1..Len(vec) /\ vec[k] \in Intervals /\ FirstOf(vec[k].left) \in Int
    BY <1>1, Ascending
  <2>2. LastOf(y.right) + 1 < FirstOf(vec[k].left)
    <3>1. CASE LastOf(y.right) <= LastOf(x.right)
      BY <1>1, <1>2, <2>1, <3>1
    <3>2. CASE it # jt /\ LastOf(y.right) <= LastOf(vec[jt - 1].right)
      <4>1. jt - 1 \in 1..Len(vec) /\ jt - 1 < k
        BY <1>1, <3>2
      <4>2. /\ LastOf(vec[jt - 1].right) \in Int
            /\ LastOf(vec[jt - 1].right) + 1 < FirstOf(vec[k].left)
        BY <2>1, <4>1, Ascending
      <4> QED BY <1>2, <2>1, <3>2, <4>2
    <3> QED BY <3>1, <3>2
  <2> QED BY <2>1, <2>2, IntervalFacts
<1> QED BY <1>3, <1>4

(* The positions of a set are those of three groups of its intervals.      *)
LEMMA Groups ==
  ASSUME NEW vec \in Seq(Intervals), NEW it \in 1..(Len(vec) + 1),
         NEW jt \in it..(Len(vec) + 1), NEW p \in Int
  PROVE  Member(p, vec) <=> \/ \E k \in 1..(it - 1) : In(p, vec[k])
                            \/ \E k \in it..(jt - 1) : In(p, vec[k])
                            \/ \E k \in jt..Len(vec) : In(p, vec[k])
<1>1. Len(vec) \in Nat
  OBVIOUS
<1>2. \A k \in Int : k \in 1..Len(vec) <=> \/ k \in 1..(it - 1)
                                           \/ k \in it..(jt - 1)
                                           \/ k \in jt..Len(vec)
  BY <1>1
<1> QED BY <1>2 DEF Member

(* add: the result is in normal form and holds what the set and the        *)
(* interval hold (IntervalSet::add).                                       *)
THEOREM AddUnites ==
  ASSUME NEW vec \in Seq(Intervals), IsNormal(vec), NEW x \in Intervals
  PROVE  /\ AddInterval(vec, x) \in Seq(Intervals)
         /\ IsNormal(AddInterval(vec, x))
         /\ \A p \in Int : Member(p, AddInterval(vec, x)) <=> Member(p, vec) \/ In(p, x)
<1>1. CASE IsEmpty(x)
  <2>1. \A p \in Int : ~In(p, x)
    BY <1>1, IntervalFacts DEF In
  <2> QED BY <1>1, <2>1 DEF AddInterval
<1>2. CASE ~IsEmpty(x)
  <2> DEFINE it == LowerBound(vec, x)
             jt == UpperBound(vec, x)
  <2>1. /\ it \in 1..(Len(vec) + 1) /\ jt \in it..(Len(vec) + 1) /\ Len(vec) \in Nat
        /\ FirstOf(x.left) \in Int /\ LastOf(x.right) \in Int
        /\ FirstOf(x.left) <= LastOf(x.right)
        /\ \A k \in it..(jt - 1) : /\ k \in 1..Len(vec)
                                   /\ FirstOf(x.left) <= LastOf(vec[k].right) + 1
                                   /\ FirstOf(vec[k].left) <= LastOf(x.right) + 1
    BY <1>2, Met
  <2> DEFINE y == IF it = jt THEN x
                  ELSE [left |-> MinLeft(x.left, vec[it].left),
                        right |-> MaxRight(x.right, vec[jt - 1].right)]
  <2>2. AddInterval(vec, x) = Splice(vec, it, jt, <<y>>)
    BY <1>2 DEF AddInterval
  <2> HIDE DEF it, jt
  <2>3. CASE it = jt
    <3>1. y = x
      BY <2>3
    <3>2. /\ \A k \in 1..(it - 1) : Below(vec[k], x)
          /\ \A k \in jt..Len(vec) : Below(x, vec[k])
      BY <1>2, <2>1, <2>3, Replacement DEF it, jt
    <3>3. /\ <<x>> \in Seq(Intervals) /\ Len(<<x>>) = 1 /\ <<x>>[1] = x
          /\ IsNormal(<<x>>)
          /\ \A p \in Int : Member(p, <<x>>) <=> In(p, x)
      BY <1>2, OneInterval
    <3>4. /\ \A k \in 1..(it - 1), l \in 1..Len(<<x>>) : Below(vec[k], <<x>>[l])
          /\ \A k \in jt..Len(vec), l \in 1..Len(<<x>>) : Below(<<x>>[l], vec[k])
      BY <3>2, <3>3
    <3>5. /\ Splice(vec, it, jt, <<x>>) \in Seq(Intervals)
          /\ IsNormal(Splice(vec, it, jt, <<x>>))
      BY <2>1, <3>3, <3>4, SpliceNormal
    <3>6. ASSUME NEW p \in Int
          PROVE  Member(p, Splice(vec, it, jt, <<x>>)) <=> Member(p, vec) \/ In(p, x)
      <4>1. Member(p, Splice(vec, it, jt, <<x>>)) <=>
               \/ \E k \in 1..(it - 1) : In(p, vec[k])
               \/ In(p, x)
               \/ \E k \in jt..Len(vec) : In(p, vec[k])
        BY <2>1, <3>3, SpliceMembers
      <4>2. ~(\E k \in it..(jt - 1) : In(p, vec[k]))
        BY <2>1, <2>3
      <4> QED BY <2>1, <4>1, <4>2, Groups
    <3> QED BY <2>2, <3>1, <3>5, <3>6
  <2>4. CASE it # jt
    <3>1. /\ it \in it..(jt - 1) /\ jt - 1 \in it..(jt - 1)
          /\ it \in 1..Len(vec) /\ jt - 1 \in 1..Len(vec)
      BY <2>1, <2>4
    <3>2. /\ vec[it] \in Intervals /\ vec[jt - 1] \in Intervals
          /\ FirstOf(vec[it].left) \in Int /\ LastOf(vec[it].right) \in Int
          /\ FirstOf(vec[jt - 1].left) \in Int /\ LastOf(vec[jt - 1].right) \in Int
      BY <3>1, Ascending
    <3>3. /\ x.left \in Bounds /\ x.right \in Bounds
          /\ vec[it].left \in Bounds /\ vec[jt - 1].right \in Bounds
      BY <3>2 DEF Intervals
    <3>4. /\ y.left = MinLeft(x.left, vec[it].left)
          /\ y.right = MaxRight(x.right, vec[jt - 1].right)
          /\ y = [left |-> y.left, right |-> y.right]
      BY <2>4
    <3> HIDE DEF y
    <3>5. /\ y \in Intervals
          /\ FirstOf(y.left) = IF FirstOf(vec[it].left) < FirstOf(x.left)
                             THEN FirstOf(vec[it].left) ELSE FirstOf(x.left)
          /\ LastOf(y.right) = IF LastOf(x.right) < LastOf(vec[jt - 1].right)
                             THEN LastOf(vec[jt - 1].right) ELSE LastOf(x.right)
      BY <3>3, <3>4, Extremes DEF Intervals
    <3>6. ~IsEmpty(y)
      <4>1. FirstOf(y.left) <= LastOf(y.right)
        BY <2>1, <3>2, <3>5
      <4>2. FirstOf(y.left) \in Int /\ LastOf(y.right) \in Int
        BY <3>5, IntervalFacts
      <4> QED BY <3>5, <4>1, <4>2, IntervalFacts
    <3>7. /\ \A k \in 1..(it - 1) : Below(vec[k], y)
          /\ \A k \in jt..Len(vec) : Below(y, vec[k])
      <4>1. /\ \/ FirstOf(x.left) <= FirstOf(y.left)
               \/ FirstOf(vec[it].left) <= FirstOf(y.left)
            /\ \/ LastOf(y.right) <= LastOf(x.right)
               \/ LastOf(y.right) <= LastOf(vec[jt - 1].right)
        BY <2>1, <3>2, <3>5
      <4> QED BY <1>2, <2>4, <3>5, <4>1, Replacement DEF it, jt
    <3>8. /\ <<y>> \in Seq(Intervals) /\ Len(<<y>>) = 1 /\ <<y>>[1] = y
          /\ IsNormal(<<y>>)
          /\ \A p \in Int : Member(p, <<y>>) <=> In(p, y)
      BY <3>5, <3>6, OneInterval
    <3>9. /\ \A k \in 1..(it - 1), l \in 1..Len(<<y>>) : Below(vec[k], <<y>>[l])
          /\ \A k \in jt..Len(vec), l \in 1..Len(<<y>>) : Below(<<y>>[l], vec[k])
      BY <3>7, <3>8
    <3>10. /\ Splice(vec, it, jt, <<y>>) \in Seq(Intervals)
           /\ IsNormal(Splice(vec, it, jt, <<y>>))
      BY <2>1, <3>8, <3>9, SpliceNormal
    <3>11. ASSUME NEW p \in Int
           PROVE  Member(p, Splice(vec, it, jt, <<y>>)) <=> Member(p, vec) \/ In(p, x)
      <4>1. Member(p, Splice(vec, it, jt, <<y>>)) <=>
               \/ \E k \in 1..(it - 1) : In(p, vec[k])
               \/ In(p, y)
               \/ \E k \in jt..Len(vec) : In(p, vec[k])
        BY <2>1, <3>8, SpliceMembers
      <4>2. ASSUME In(p, y)
            PROVE  In(p, x) \/ \E k \in it..(jt - 1) : In(p, vec[k])
        <5>1. CASE p < FirstOf(x.left)
          <6>1. FirstOf(vec[it].left) <= p
            BY <2>1, <3>2, <3>5, <4>2, <5>1 DEF In
          <6>2. p <= LastOf(vec[it].right)
            BY <2>1, <3>1, <3>2, <5>1
          <6> QED BY <3>1, <6>1, <6>2 DEF In
        <5>2. CASE LastOf(x.right) < p
          <6>1. p <= LastOf(vec[jt - 1].right)
            BY <2>1, <3>2, <3>5, <4>2, <5>2 DEF In
          <6>2. FirstOf(vec[jt - 1].left) <= p
            BY <2>1, <3>1, <3>2, <5>2
          <6> QED BY <3>1, <6>1, <6>2 DEF In
        <5> QED BY <2>1, <5>1, <5>2 DEF In
      <4>3. ASSUME NEW k \in it..(jt - 1), In(p, vec[k])
            PROVE  In(p, y)
        <5>1. k \in 1..Len(vec) /\ k \in it..Len(vec) /\ jt - 1 \in k..Len(vec)
          BY <2>1
        <5>2. FirstOf(vec[it].left) <= FirstOf(vec[k].left) /\ LastOf(vec[k].right) <= LastOf(vec[jt - 1].right)
          BY <3>1, <5>1, Monotone
        <5>3. FirstOf(vec[k].left) \in Int /\ LastOf(vec[k].right) \in Int
          BY <5>1, Ascending
        <5> FirstOf(x.left) \in Int /\ LastOf(x.right) \in Int
          BY <2>1
        <5>4. FirstOf(y.left) \in Int /\ FirstOf(y.left) <= FirstOf(vec[it].left)
          BY <3>2, <3>5
        <5>5. LastOf(y.right) \in Int /\ LastOf(vec[jt - 1].right) <= LastOf(y.right)
          BY <3>2, <3>5
        <5>6. FirstOf(vec[k].left) <= p /\ p <= LastOf(vec[k].right)
          BY <4>3 DEF In
        <5>7. FirstOf(y.left) <= p /\ p <= LastOf(y.right)
          BY <3>2, <5>2, <5>3, <5>4, <5>5, <5>6
        <5> QED BY <5>7 DEF In
      <4>4. ASSUME In(p, x) PROVE In(p, y)
        BY <2>1, <3>2, <3>5, <4>4 DEF In
      <4> QED BY <2>1, <4>1, <4>2, <4>3, <4>4, Groups
    <3> QED BY <2>2, <3>10, <3>11
  <2> QED BY <2>3, <2>4
<1> QED BY <1>1, <1>2

(* remove: the result is in normal form and holds what the set holds and   *)
(* the interval does not (IntervalSet::remove).                            *)
THEOREM RemoveSubtracts ==
  ASSUME NEW vec \in Seq(Intervals), IsNormal(vec), NEW x \in Intervals
  PROVE  /\ RemoveInterval(vec, x) \in Seq(Intervals)
         /\ IsNormal(RemoveInterval(vec, x))
         /\ \A p \in Int : Member(p, RemoveInterval(vec, x)) <=> Member(p, vec) /\ ~In(p, x)
<1>1. CASE IsEmpty(x)
  <2>1. \A p \in Int : ~In(p, x)
    BY <1>1, IntervalFacts DEF In
  <2> QED BY <1>1, <2>1 DEF RemoveInterval
<1>2. CASE ~IsEmpty(x)
  <2> DEFINE it == LowerBound(vec, x)
             jt == UpperBound(vec, x)
  <2>1. /\ it \in 1..(Len(vec) + 1) /\ jt \in it..(Len(vec) + 1) /\ Len(vec) \in Nat
        /\ FirstOf(x.left) \in Int /\ LastOf(x.right) \in Int
        /\ FirstOf(x.left) <= LastOf(x.right)
        /\ \A k \in 1..(it - 1) : LastOf(vec[k].right) + 1 < FirstOf(x.left)
        /\ \A k \in it..(jt - 1) : /\ k \in 1..Len(vec)
                                   /\ FirstOf(x.left) <= LastOf(vec[k].right) + 1
                                   /\ FirstOf(vec[k].left) <= LastOf(x.right) + 1
        /\ \A k \in jt..Len(vec) : LastOf(x.right) + 1 < FirstOf(vec[k].left)
    BY <1>2, Met
  <2>2. ASSUME NEW p \in Int, In(p, x)
        PROVE  /\ ~(\E k \in 1..(it - 1) : In(p, vec[k]))
               /\ ~(\E k \in jt..Len(vec) : In(p, vec[k]))
    <3>1. ASSUME NEW k \in 1..(it - 1) PROVE ~In(p, vec[k])
      <4>1. k \in 1..Len(vec) /\ LastOf(vec[k].right) + 1 < FirstOf(x.left)
        BY <2>1
      <4>2. LastOf(vec[k].right) \in Int
        BY <4>1, Ascending
      <4> QED BY <2>1, <2>2, <4>1, <4>2 DEF In
    <3>2. ASSUME NEW k \in jt..Len(vec) PROVE ~In(p, vec[k])
      <4>1. k \in 1..Len(vec) /\ LastOf(x.right) + 1 < FirstOf(vec[k].left)
        BY <2>1
      <4>2. FirstOf(vec[k].left) \in Int
        BY <4>1, Ascending
      <4> QED BY <2>1, <2>2, <4>1, <4>2 DEF In
    <3> QED BY <3>1, <3>2
  <2>3. CASE it = jt
    <3>1. RemoveInterval(vec, x) = vec
      BY <2>3 DEF RemoveInterval
    <3>2. ASSUME NEW p \in Int PROVE Member(p, vec) <=> Member(p, vec) /\ ~In(p, x)
      BY <2>1, <2>2, <2>3, Groups
    <3> QED BY <3>1, <3>2
  <2>4. CASE it # jt
    <3> DEFINE first == vec[it]
               last == vec[jt - 1]
               before == [left |-> first.left, right |-> Flip(x.left)]
               after == [left |-> Flip(x.right), right |-> last.right]
               new == Leftovers(first, last, x)
    <3>1. RemoveInterval(vec, x) = Splice(vec, it, jt, new)
      BY <1>2, <2>4 DEF RemoveInterval
    <3> HIDE DEF it, jt
    <3>2. /\ it \in it..(jt - 1) /\ jt - 1 \in it..(jt - 1)
          /\ it \in 1..Len(vec) /\ jt - 1 \in 1..Len(vec)
      BY <2>1, <2>4
    <3>3. /\ first \in Intervals /\ last \in Intervals
          /\ FirstOf(first.left) \in Int /\ LastOf(first.right) \in Int
          /\ FirstOf(last.left) \in Int /\ LastOf(last.right) \in Int
      BY <3>2, Ascending
    <3>4. /\ x.left \in Bounds /\ x.right \in Bounds
          /\ first.left \in Bounds /\ last.right \in Bounds
      BY <3>3 DEF Intervals
    <3>5. /\ before \in Intervals
          /\ FirstOf(before.left) = FirstOf(first.left)
          /\ LastOf(before.right) = FirstOf(x.left) - 1
      BY <3>4, Positions DEF Intervals
    <3>6. /\ after \in Intervals
          /\ FirstOf(after.left) = LastOf(x.right) + 1
          /\ LastOf(after.right) = LastOf(last.right)
      BY <3>4, Positions DEF Intervals
    <3>7. new = (IF IsEmpty(before) THEN <<>> ELSE <<before>>)
                  \o (IF IsEmpty(after) THEN <<>> ELSE <<after>>)
      BY DEF Leftovers
    <3> HIDE DEF first, last, before, after, new
    <3>8. Below(before, after)
      BY <2>1, <3>3, <3>5, <3>6, IntervalFacts
    <3>9. /\ new \in Seq(Intervals)
          /\ \A l \in 1..Len(new) :
               /\ new[l] \in {before, after}
               /\ ~IsEmpty(new[l])
          /\ \A k, l \in 1..Len(new) : k < l => Below(new[k], new[l])
          /\ ~IsEmpty(before) => \E l \in 1..Len(new) : new[l] = before
          /\ ~IsEmpty(after) => \E l \in 1..Len(new) : new[l] = after
      <4>1. CASE IsEmpty(before) /\ IsEmpty(after)
        <5>1. new = <<>>
          BY <3>7, <4>1
        <5> QED BY <4>1, <5>1
      <4>2. CASE IsEmpty(before) /\ ~IsEmpty(after)
        <5>1. new = <<after>>
          BY <3>6, <3>7, <4>2
        <5> QED BY <3>6, <4>2, <5>1
      <4>3. CASE ~IsEmpty(before) /\ IsEmpty(after)
        <5>1. new = <<before>>
          BY <3>5, <3>7, <4>3
        <5> QED BY <3>5, <4>3, <5>1
      <4>4. CASE ~IsEmpty(before) /\ ~IsEmpty(after)
        <5>1. new = <<before>> \o <<after>>
          BY <3>7, <4>4
        <5>2. /\ new \in Seq(Intervals)
              /\ Len(new) = 2 /\ new[1] = before /\ new[2] = after
          BY <3>5, <3>6, <5>1
        <5> QED BY <3>8, <4>4, <5>2
      <4> QED BY <4>1, <4>2, <4>3, <4>4
    <3>10. IsNormal(new)
      BY <3>9 DEF IsNormal
    <3>11. ASSUME NEW l \in 1..Len(new)
           PROVE  /\ \A k \in 1..(it - 1) : Below(vec[k], new[l])
                  /\ \A k \in jt..Len(vec) : Below(new[l], vec[k])
      <4>1. new[l] \in {before, after} /\ new[l] \in Intervals
        BY <3>5, <3>6, <3>9
      <4>2. /\ \/ FirstOf(x.left) <= FirstOf(new[l].left)
               \/ FirstOf(vec[it].left) <= FirstOf(new[l].left)
            /\ \/ LastOf(new[l].right) <= LastOf(x.right)
               \/ LastOf(new[l].right) <= LastOf(vec[jt - 1].right)
        <5>1. CASE new[l] = before
          <6>1. FirstOf(vec[it].left) <= FirstOf(new[l].left)
            BY <3>3, <3>5, <5>1 DEF first
          <6>2. LastOf(new[l].right) <= LastOf(x.right)
            BY <2>1, <3>5, <5>1
          <6> QED BY <6>1, <6>2
        <5>2. CASE new[l] = after
          <6>1. FirstOf(x.left) <= FirstOf(new[l].left)
            BY <2>1, <3>6, <5>2
          <6>2. LastOf(new[l].right) <= LastOf(vec[jt - 1].right)
            BY <3>3, <3>6, <5>2 DEF last
          <6> QED BY <6>1, <6>2
        <5> QED BY <4>1, <5>1, <5>2
      <4> QED BY <1>2, <2>4, <4>1, <4>2, Replacement DEF it, jt
    <3>12. /\ Splice(vec, it, jt, new) \in Seq(Intervals)
           /\ IsNormal(Splice(vec, it, jt, new))
      BY <2>1, <3>9, <3>10, <3>11, SpliceNormal
    <3>13. ASSUME NEW p \in Int
           PROVE  Member(p, new) <=>
                    ~In(p, x) /\ \E k \in it..(jt - 1) : In(p, vec[k])
      <4>1. ASSUME Member(p, new)
            PROVE  ~In(p, x) /\ \E k \in it..(jt - 1) : In(p, vec[k])
        <5>1. In(p, before) \/ In(p, after)
          BY <3>9, <4>1 DEF Member
        <5>2. CASE In(p, before)
          <6>1. FirstOf(first.left) <= p /\ p <= FirstOf(x.left) - 1
            BY <3>5, <5>2 DEF In
          <6>2. FirstOf(x.left) <= LastOf(first.right) + 1
            BY <2>1, <3>2 DEF first
          <6>3. In(p, first)
            BY <2>1, <3>3, <6>1, <6>2 DEF In
          <6>4. ~In(p, x)
            BY <2>1, <6>1 DEF In
          <6> QED BY <3>2, <6>3, <6>4 DEF first
        <5>3. CASE In(p, after)
          <6>1. LastOf(x.right) + 1 <= p /\ p <= LastOf(last.right)
            BY <3>6, <5>3 DEF In
          <6>2. FirstOf(last.left) <= LastOf(x.right) + 1
            BY <2>1, <3>2 DEF last
          <6>3. In(p, last)
            BY <2>1, <3>3, <6>1, <6>2 DEF In
          <6>4. ~In(p, x)
            BY <2>1, <6>1 DEF In
          <6> QED BY <3>2, <6>3, <6>4 DEF last
        <5> QED BY <5>1, <5>2, <5>3
      <4>2. ASSUME ~In(p, x), NEW k \in it..(jt - 1), In(p, vec[k])
            PROVE  Member(p, new)
        <5>1. k \in 1..Len(vec) /\ k \in it..Len(vec) /\ jt - 1 \in k..Len(vec)
          BY <2>1
        <5>2. /\ FirstOf(first.left) <= FirstOf(vec[k].left)
              /\ LastOf(vec[k].right) <= LastOf(last.right)
          BY <3>2, <5>1, Monotone DEF first, last
        <5>3. FirstOf(vec[k].left) \in Int /\ LastOf(vec[k].right) \in Int
          BY <5>1, Ascending
        <5>4. FirstOf(first.left) <= p /\ p <= LastOf(last.right)
          BY <3>3, <4>2, <5>2, <5>3 DEF In
        <5>5. CASE p < FirstOf(x.left)
          <6>1. In(p, before)
            BY <2>1, <3>5, <5>4, <5>5 DEF In
          <6>2. ~IsEmpty(before)
            BY <3>5, <6>1, IntervalFacts DEF In
          <6> QED BY <3>9, <6>1, <6>2 DEF Member
        <5>6. CASE LastOf(x.right) < p
          <6>1. In(p, after)
            BY <2>1, <3>6, <5>4, <5>6 DEF In
          <6>2. ~IsEmpty(after)
            BY <3>6, <6>1, IntervalFacts DEF In
          <6> QED BY <3>9, <6>1, <6>2 DEF Member
        <5> QED BY <2>1, <4>2, <5>5, <5>6 DEF In
      <4> QED BY <4>1, <4>2
    <3>14. ASSUME NEW p \in Int
           PROVE  Member(p, Splice(vec, it, jt, new)) <=> Member(p, vec) /\ ~In(p, x)
      <4>1. Member(p, Splice(vec, it, jt, new)) <=>
               \/ \E k \in 1..(it - 1) : In(p, vec[k])
               \/ Member(p, new)
               \/ \E k \in jt..Len(vec) : In(p, vec[k])
        BY <2>1, <3>9, SpliceMembers
      <4> QED BY <2>1, <2>2, <3>13, <4>1, Groups
    <3> QED BY <3>1, <3>12, <3>14
  <2> QED BY <2>3, <2>4
<1> QED BY <1>1, <1>2

(***************************************************************************)
(* contains and intersects                                                 *)
(***************************************************************************)
LEMMA LeastIndex ==
  ASSUME NEW vec \in Seq(Intervals), IsNormal(vec), NEW a \in Int,
         NEW j \in 1..Len(vec), a <= LastOf(vec[j].right)
  PROVE  \E i \in 1..j : /\ a <= LastOf(vec[i].right)
                         /\ \A k \in 1..(i - 1) : ~(a <= LastOf(vec[k].right))
<1> DEFINE S == {i \in 1..j : a <= LastOf(vec[i].right)}
<1>1. S \subseteq Nat /\ j \in S
  OBVIOUS
<1> HIDE DEF S
<1>2. PICK i \in S : \A k \in S : i <= k
  BY <1>1, Least
<1>3. i \in 1..j /\ a <= LastOf(vec[i].right)
  BY <1>2 DEF S
<1>4. ASSUME NEW k \in 1..(i - 1) PROVE ~(a <= LastOf(vec[k].right))
  <2>1. k \in 1..j /\ k < i
    BY <1>3
  <2>2. k \notin S
    BY <1>2, <1>3, <2>1
  <2> QED BY <2>1, <2>2 DEF S
<1> QED BY <1>3, <1>4

(* contains looks at the first interval that ends after x, and decides     *)
(* whether x is a subset of the whole set (IntervalSet::contains).         *)
THEOREM ContainsIsSubset ==
  ASSUME NEW vec \in Seq(Intervals), IsNormal(vec), NEW x \in Intervals
  PROVE  ContainsInterval(vec, x) <=> \A p \in Int : In(p, x) => Member(p, vec)
<1>1. /\ x.left \in Bounds /\ x.right \in Bounds
      /\ FirstOf(x.left) \in Int /\ LastOf(x.right) \in Int
      /\ IsEmpty(x) <=> LastOf(x.right) < FirstOf(x.left)
  BY IntervalFacts
<1>2. ASSUME NEW i \in 1..Len(vec)
      PROVE  /\ RightAtMost(x.right, vec[i].right) <=> LastOf(x.right) <= LastOf(vec[i].right)
             /\ LeftAtMost(vec[i].left, x.left) <=> FirstOf(vec[i].left) <= FirstOf(x.left)
  <2>1. vec[i].left \in Bounds /\ vec[i].right \in Bounds
    BY Ascending, IntervalFacts
  <2> QED BY <1>1, <2>1, Comparisons
<1>3. CASE IsEmpty(x)
  BY <1>1, <1>3 DEF ContainsInterval, In
<1>4. ASSUME ~IsEmpty(x), ContainsInterval(vec, x), NEW p \in Int, In(p, x)
      PROVE  Member(p, vec)
  <2>1. PICK i \in 1..Len(vec) : /\ RightAtMost(x.right, vec[i].right)
                                 /\ LeftAtMost(vec[i].left, x.left)
    BY <1>4 DEF ContainsInterval
  <2>2. /\ LastOf(x.right) <= LastOf(vec[i].right) /\ FirstOf(vec[i].left) <= FirstOf(x.left)
        /\ FirstOf(vec[i].left) \in Int /\ LastOf(vec[i].right) \in Int
    BY <1>2, <2>1, Ascending
  <2>3. In(p, vec[i])
    BY <1>1, <1>4, <2>2 DEF In
  <2> QED BY <2>3 DEF Member
<1>5. ASSUME ~IsEmpty(x), \A p \in Int : In(p, x) => Member(p, vec)
      PROVE  ContainsInterval(vec, x)
  <2>1. In(LastOf(x.right), x)
    BY <1>1, <1>5 DEF In
  <2>2. PICK j \in 1..Len(vec) : In(LastOf(x.right), vec[j])
    BY <1>1, <1>5, <2>1 DEF Member
  <2>3. LastOf(x.right) <= LastOf(vec[j].right) /\ FirstOf(vec[j].left) <= LastOf(x.right)
    BY <2>2 DEF In
  <2>4. PICK i \in 1..j : /\ LastOf(x.right) <= LastOf(vec[i].right)
                          /\ \A k \in 1..(i - 1) : ~(LastOf(x.right) <= LastOf(vec[k].right))
    BY <1>1, <2>3, LeastIndex
  <2>5. i \in 1..Len(vec) /\ Len(vec) \in Nat
    OBVIOUS
  <2>6. FirstOf(vec[i].left) \in Int /\ LastOf(vec[i].right) \in Int
    BY <2>5, Ascending
  <2>7. FirstOf(vec[i].left) <= FirstOf(x.left)
    <3> SUFFICES ASSUME FirstOf(x.left) < FirstOf(vec[i].left) PROVE FALSE
      BY <1>1, <2>6
    <3>1. i = j
      <4> SUFFICES ASSUME i < j PROVE FALSE
        BY <2>5
      <4>1. LastOf(vec[i].right) + 1 < FirstOf(vec[j].left) /\ FirstOf(vec[j].left) \in Int
        BY <2>5, Ascending
      <4> QED BY <1>1, <2>3, <2>4, <2>6, <4>1
    <3> DEFINE p == FirstOf(vec[i].left) - 1
    <3>2. p \in Int /\ In(p, x)
      BY <1>1, <2>3, <2>6, <3>1 DEF In
    <3>3. PICK k \in 1..Len(vec) : In(p, vec[k])
      BY <1>5, <3>2 DEF Member
    <3>4. CASE k < i
      <4>1. LastOf(vec[k].right) + 1 < FirstOf(vec[i].left) /\ LastOf(vec[k].right) \in Int
        BY <2>5, <3>4, Ascending
      <4> QED BY <2>6, <3>3, <4>1 DEF In
    <3>5. CASE i <= k
      <4>1. FirstOf(vec[i].left) <= FirstOf(vec[k].left) /\ FirstOf(vec[k].left) \in Int
        BY <2>5, <3>5, Monotone, Ascending
      <4> QED BY <2>6, <3>3, <4>1 DEF In
    <3> QED BY <2>5, <3>4, <3>5
  <2>8. \A k \in 1..(i - 1) : ~RightAtMost(x.right, vec[k].right)
    BY <1>2, <2>4, <2>5
  <2>9. RightAtMost(x.right, vec[i].right) /\ LeftAtMost(vec[i].left, x.left)
    BY <1>2, <2>4, <2>5, <2>7
  <2>10. i \in DOMAIN vec
    BY <2>5
  <2> QED BY <2>8, <2>9, <2>10 DEF ContainsInterval
<1> QED BY <1>3, <1>4, <1>5

(* intersects looks at the first interval that ends after x begins, and    *)
(* decides whether x and the whole set share a position                    *)
(* (IntervalSet::intersects).                                              *)
THEOREM IntersectsIsOverlap ==
  ASSUME NEW vec \in Seq(Intervals), IsNormal(vec), NEW x \in Intervals
  PROVE  IntersectsInterval(vec, x) <=> \E p \in Int : In(p, x) /\ Member(p, vec)
<1>1. /\ x.left \in Bounds /\ x.right \in Bounds
      /\ FirstOf(x.left) \in Int /\ LastOf(x.right) \in Int
      /\ IsEmpty(x) <=> LastOf(x.right) < FirstOf(x.left)
  BY IntervalFacts
<1>2. ASSUME NEW i \in 1..Len(vec)
      PROVE  /\ LeftBeforeRight(x.left, vec[i].right) <=> FirstOf(x.left) <= LastOf(vec[i].right)
             /\ LeftBeforeRight(vec[i].left, x.right) <=> FirstOf(vec[i].left) <= LastOf(x.right)
  <2>1. vec[i].left \in Bounds /\ vec[i].right \in Bounds
    BY Ascending, IntervalFacts
  <2> QED BY <1>1, <2>1, Comparisons
<1>3. ASSUME IntersectsInterval(vec, x)
      PROVE  \E p \in Int : In(p, x) /\ Member(p, vec)
  <2>1. ~IsEmpty(x)
    BY <1>3 DEF IntersectsInterval
  <2>2. PICK i \in 1..Len(vec) : /\ LeftBeforeRight(x.left, vec[i].right)
                                 /\ LeftBeforeRight(vec[i].left, x.right)
    BY <1>3 DEF IntersectsInterval
  <2>3. /\ FirstOf(x.left) <= LastOf(vec[i].right) /\ FirstOf(vec[i].left) <= LastOf(x.right)
        /\ FirstOf(vec[i].left) \in Int /\ LastOf(vec[i].right) \in Int
        /\ FirstOf(vec[i].left) <= LastOf(vec[i].right)
    BY <1>2, <2>2, Ascending
  <2> DEFINE p == IF FirstOf(x.left) <= FirstOf(vec[i].left)
                  THEN FirstOf(vec[i].left) ELSE FirstOf(x.left)
  <2>4. p \in Int /\ In(p, x) /\ In(p, vec[i])
    BY <1>1, <2>1, <2>3 DEF In
  <2> QED BY <2>4 DEF Member
<1>4. ASSUME NEW p \in Int, In(p, x), Member(p, vec)
      PROVE  IntersectsInterval(vec, x)
  <2>1. PICK j \in 1..Len(vec) : In(p, vec[j])
    BY <1>4 DEF Member
  <2>2. FirstOf(vec[j].left) \in Int /\ LastOf(vec[j].right) \in Int
    BY Ascending
  <2>3. FirstOf(x.left) <= LastOf(vec[j].right) /\ FirstOf(vec[j].left) <= LastOf(x.right)
    BY <1>1, <1>4, <2>1, <2>2 DEF In
  <2>4. PICK i \in 1..j : /\ FirstOf(x.left) <= LastOf(vec[i].right)
                          /\ \A k \in 1..(i - 1) : ~(FirstOf(x.left) <= LastOf(vec[k].right))
    BY <1>1, <2>3, LeastIndex
  <2>5. i \in 1..Len(vec) /\ Len(vec) \in Nat /\ j \in i..Len(vec)
    OBVIOUS
  <2>6. FirstOf(vec[i].left) <= LastOf(x.right)
    <3>1. FirstOf(vec[i].left) <= FirstOf(vec[j].left) /\ FirstOf(vec[i].left) \in Int
      BY <2>5, Monotone, Ascending
    <3> QED BY <1>1, <2>2, <2>3, <3>1
  <2>7. ~IsEmpty(x)
    BY <1>1, <1>4 DEF In
  <2>8. \A k \in 1..(i - 1) : ~LeftBeforeRight(x.left, vec[k].right)
    BY <1>2, <2>4, <2>5
  <2>9. /\ LeftBeforeRight(x.left, vec[i].right) /\ LeftBeforeRight(vec[i].left, x.right)
        /\ i \in DOMAIN vec
    BY <1>2, <2>4, <2>5, <2>6
  <2> QED BY <2>7, <2>8, <2>9 DEF IntersectsInterval
<1> QED BY <1>3, <1>4

-----------------------------------------------------------------------------
(* Induction and loops                                                     *)

(* Induction on the numbers, as a fact about sets of them.                 *)
LEMMA SetInduction ==
  ASSUME NEW S \in SUBSET Nat, 0 \in S, \A n \in S : n + 1 \in S
  PROVE  S = Nat
<1>1. SUFFICES ASSUME Nat \ S # {} PROVE FALSE
  OBVIOUS
<1>2. PICK x \in Nat \ S : \A y \in Nat \ S : x <= y
  BY <1>1, Least
<1>3. x - 1 \in S
  BY <1>2
<1>. QED  BY <1>2, <1>3

(* A loop over n elements computes a function: its value before each of    *)
(* them and at the end.  step gives the value after an element.            *)
LoopOf(n, base, step, g) == g = [i \in 0..n |-> IF i = 0 THEN base ELSE step[i][g[i - 1]]]

(* Such a function exists, so that the recursive definitions of the model  *)
(* have the values that their equations give.                              *)
LEMMA LoopFound ==
  ASSUME NEW n \in Nat, NEW Z, NEW base \in Z, NEW step \in [1..n -> [Z -> Z]]
  PROVE  \E g \in [0..n -> Z] : LoopOf(n, base, step, g)
<1> DEFINE Loop(m, g) == /\ g \in [0..n -> Z]
                         /\ \A i \in 0..n : i <= m => g[i] = IF i = 0 THEN base ELSE step[i][g[i - 1]]
           S == {m \in Nat : m <= n => \E g : Loop(m, g)}
<1>1. 0 \in S
  <2> DEFINE g == [i \in 0..n |-> base]
  <2>1. Loop(0, g)
    OBVIOUS
  <2>. QED  BY <2>1
<1>2. ASSUME NEW m \in S PROVE m + 1 \in S
  <2> SUFFICES ASSUME m + 1 <= n PROVE \E g : Loop(m + 1, g)
    BY <1>2
  <2>1. PICK g : Loop(m, g)
    BY <1>2
  <2> DEFINE h == [g EXCEPT ![m + 1] = step[m + 1][g[m]]]
  <2>2. m \in 0..n /\ m + 1 \in 1..n /\ g[m] \in Z
    BY <2>1
  <2>3. step[m + 1][g[m]] \in Z
    BY <2>2
  <2>4. h \in [0..n -> Z] /\ h[m + 1] = step[m + 1][g[m]] /\ \A i \in 0..n : i # m + 1 => h[i] = g[i]
    BY <2>1, <2>2, <2>3
  <2> HIDE DEF h
  <2>5. ASSUME NEW i \in 0..n, i <= m + 1
        PROVE  h[i] = IF i = 0 THEN base ELSE step[i][h[i - 1]]
    <3>1. CASE i = 0
      BY <3>1, <2>1, <2>2, <2>4
    <3>2. CASE i # 0 /\ i # m + 1
      BY <3>2, <2>1, <2>2, <2>4, <2>5
    <3>3. CASE i = m + 1
      BY <3>3, <2>2, <2>4
    <3>. QED  BY <3>1, <3>2, <3>3
  <2>. QED  BY <2>4, <2>5
<1> HIDE DEF S
<1>3. S = Nat
  <2>1. S \in SUBSET Nat
    BY DEF S
  <2>. QED  BY <1>1, <1>2, <2>1, SetInduction
<1>4. PICK g : Loop(n, g)
  <2>1. n \in S /\ n <= n
    BY <1>3
  <2>. QED  BY <2>1, Zenon DEF S
<1>5. g = [i \in 0..n |-> g[i]]
  BY <1>4
<1>6. g = [i \in 0..n |-> IF i = 0 THEN base ELSE step[i][g[i - 1]]]
  BY <1>4, <1>5
<1>. QED  BY <1>4, <1>6 DEF LoopOf

-----------------------------------------------------------------------------
(* Sums                                                                    *)

Picked(s) == CHOOSE x \in s : TRUE

(* How SumFunctionOnSet adds up subsets of S. *)
SumRule(f, S, g) ==
  g = [s \in SUBSET S |-> IF s = {} THEN 0 ELSE f[Picked(s)] + g[s \ {Picked(s)}]]

(* The fold of the library is the sum by that rule.                        *)
LEMMA SumDefinition ==
  ASSUME NEW f, NEW S
  PROVE  SumFunctionOnSet(f, S) = (CHOOSE g : SumRule(f, S, g))[S]
BY Zenon DEF SumFunctionOnSet, FoldFunctionOnSet, MapThenFoldSet, SumRule, Picked

(* The element that is added next is one of the set.                       *)
LEMMA PickedIn == \A s : s # {} => Picked(s) \in s
BY DEF Picked

(* Facts about the cardinality of subsets. *)
LEMMA Smaller ==
  ASSUME NEW S, IsFiniteSet(S), NEW x \in S
  PROVE  /\ IsFiniteSet(S \ {x}) /\ Cardinality(S) \in Nat /\ Cardinality(S \ {x}) \in Nat
         /\ Cardinality(S \ {x}) = Cardinality(S) - 1
BY FS_RemoveElement, FS_CardinalityType

(* A function with that rule exists for finite sets.                       *)
LEMMA SumExists ==
  ASSUME NEW f, NEW S, IsFiniteSet(S), \A x \in S : f[x] \in Int
  PROVE  \E g \in [SUBSET S -> Int] : SumRule(f, S, g)
<1> DEFINE Rhs(g, s) == IF s = {} THEN 0 ELSE f[Picked(s)] + g[s \ {Picked(s)}]
           Partial(n, g) == /\ g \in [SUBSET S -> Int]
                            /\ \A s \in SUBSET S : Cardinality(s) <= n => g[s] = Rhs(g, s)
           N == {n \in Nat : \E g : Partial(n, g)}
<1>1. \A s \in SUBSET S : /\ IsFiniteSet(s) /\ Cardinality(s) \in Nat
                          /\ Cardinality(s) = 0 <=> s = {}
  BY FS_Subset, FS_CardinalityType, FS_EmptySet
<1>2. \A s \in SUBSET S : s # {} =>
        /\ Picked(s) \in s /\ f[Picked(s)] \in Int
        /\ s \ {Picked(s)} \in SUBSET S /\ Cardinality(s \ {Picked(s)}) = Cardinality(s) - 1
  BY <1>1, PickedIn, Smaller
<1>3. 0 \in N
  <2> DEFINE g == [s \in SUBSET S |-> 0]
  <2>1. g \in [SUBSET S -> Int]
    OBVIOUS
  <2>2. \A s \in SUBSET S : Cardinality(s) <= 0 => g[s] = Rhs(g, s)
    BY <1>1
  <2>. QED  BY <2>1, <2>2
<1>4. ASSUME NEW n \in N PROVE n + 1 \in N
  <2>1. PICK g : Partial(n, g)
    OBVIOUS
  <2> DEFINE h == [s \in SUBSET S |-> Rhs(g, s)]
  <2>2. \A s \in SUBSET S : Rhs(g, s) \in Int
    BY <1>2, <2>1
  <2>3. h \in [SUBSET S -> Int] /\ \A s \in SUBSET S : h[s] = Rhs(g, s)
    BY <2>2
  <2> HIDE DEF h
  <2>4. \A s \in SUBSET S : Cardinality(s) <= n => h[s] = g[s]
    BY <2>1, <2>3
  <2>5. \A s \in SUBSET S : Cardinality(s) <= n + 1 => h[s] = Rhs(h, s)
    <3> SUFFICES ASSUME NEW s \in SUBSET S, Cardinality(s) <= n + 1 PROVE h[s] = Rhs(h, s)
      OBVIOUS
    <3>1. CASE s = {}
      BY <3>1, <2>3
    <3>2. CASE s # {}
      <4>1. h[s \ {Picked(s)}] = g[s \ {Picked(s)}]
        BY <3>2, <1>1, <1>2, <2>4
      <4>. QED  BY <3>2, <4>1, <2>3
    <3>. QED  BY <3>1, <3>2
  <2>. QED  BY <2>3, <2>5
<1> HIDE DEF N
<1>5. N = Nat
  <2>1. N \in SUBSET Nat
    BY DEF N
  <2>. QED  BY <1>3, <1>4, <2>1, SetInduction
<1>6. PICK g : Partial(Cardinality(S), g)
  <2>1. Cardinality(S) \in N
    BY <1>5, FS_CardinalityType
  <2>. QED  BY <2>1 DEF N
<1>7. \A s \in SUBSET S : g[s] = Rhs(g, s)
  <2>1. \A s \in SUBSET S : Cardinality(s) <= Cardinality(S)
    BY FS_Subset
  <2>. QED  BY <1>6, <2>1
<1>8. g = [s \in SUBSET S |-> Rhs(g, s)]
  BY <1>6, <1>7
<1>. QED  BY <1>6, <1>8 DEF SumRule

(* The rules for a set and for a subset of it agree. *)
LEMMA SumUnique ==
  ASSUME NEW f, NEW S, IsFiniteSet(S), NEW T \in SUBSET S, NEW g, NEW h, SumRule(f, S, g), SumRule(f, T, h)
  PROVE  \A s \in SUBSET T : g[s] = h[s]
<1> DEFINE N == {n \in Nat : \A s \in SUBSET T : Cardinality(s) = n => g[s] = h[s]}
<1>1. \A s \in SUBSET T : IsFiniteSet(s) /\ Cardinality(s) \in Nat /\ (Cardinality(s) = 0 <=> s = {})
  BY FS_Subset, FS_CardinalityType, FS_EmptySet
<1>2. \A s \in SUBSET T :
        /\ g[s] = IF s = {} THEN 0 ELSE f[Picked(s)] + g[s \ {Picked(s)}]
        /\ h[s] = IF s = {} THEN 0 ELSE f[Picked(s)] + h[s \ {Picked(s)}]
  <2>1. \A s \in SUBSET S : g[s] = IF s = {} THEN 0 ELSE f[Picked(s)] + g[s \ {Picked(s)}]
    BY Zenon DEF SumRule
  <2>2. \A s \in SUBSET T : h[s] = IF s = {} THEN 0 ELSE f[Picked(s)] + h[s \ {Picked(s)}]
    BY Zenon DEF SumRule
  <2>3. SUBSET T \subseteq SUBSET S
    OBVIOUS
  <2>. QED  BY <2>1, <2>2, <2>3, Zenon
<1>3. 0 \in N
  BY <1>1, <1>2
<1>4. ASSUME NEW n \in N PROVE n + 1 \in N
  <2> SUFFICES ASSUME NEW s \in SUBSET T, Cardinality(s) = n + 1 PROVE g[s] = h[s]
    OBVIOUS
  <2>1. s # {}
    BY <1>1
  <2>2. Picked(s) \in s /\ s \ {Picked(s)} \in SUBSET T /\ Cardinality(s \ {Picked(s)}) = n
    BY <2>1, <1>1, PickedIn, Smaller
  <2>3. g[s \ {Picked(s)}] = h[s \ {Picked(s)}]
    BY <2>2
  <2>. QED  BY <2>1, <2>3, <1>2
<1> HIDE DEF N
<1>5. N = Nat
  <2>1. N \in SUBSET Nat
    BY DEF N
  <2>. QED  BY <1>3, <1>4, <2>1, SetInduction
<1>. QED  BY <1>1, <1>5 DEF N

(* The order of adding up does not matter. *)
SumSplits(f, S, g) == \A s \in SUBSET S : \A t \in s : g[s] = g[s \ {t}] + f[t]

(* The order in which the elements are added does not matter.              *)
LEMMA SumCommutes ==
  ASSUME NEW f, NEW S, IsFiniteSet(S), NEW g \in [SUBSET S -> Int], SumRule(f, S, g),
         \A x \in S : f[x] \in Int
  PROVE  SumSplits(f, S, g)
<1> DEFINE N == {n \in Nat : \A s \in SUBSET S : Cardinality(s) = n => \A t \in s : g[s] = g[s \ {t}] + f[t]}
<1>1. \A s \in SUBSET S : IsFiniteSet(s) /\ Cardinality(s) \in Nat /\ (Cardinality(s) = 0 <=> s = {})
  BY FS_Subset, FS_CardinalityType, FS_EmptySet
<1>2. \A s \in SUBSET S : g[s] = IF s = {} THEN 0 ELSE f[Picked(s)] + g[s \ {Picked(s)}]
  BY Zenon DEF SumRule
<1>3. 0 \in N
  BY <1>1
<1>4. ASSUME NEW n \in N PROVE n + 1 \in N
  <2> SUFFICES ASSUME NEW s \in SUBSET S, Cardinality(s) = n + 1, NEW t \in s
               PROVE  g[s] = g[s \ {t}] + f[t]
    OBVIOUS
  <2> DEFINE c == Picked(s)
  <2>1. c \in s
    BY PickedIn
  <2>2. g[s] = f[c] + g[s \ {c}]
    BY <1>2
  <2> HIDE DEF c
  <2>3. CASE t = c
    <3>1. g[s \ {c}] \in Int /\ f[c] \in Int
      BY <2>1
    <3>. QED  BY <2>2, <2>3, <3>1
  <2>4. CASE t # c
    <3> DEFINE r == (s \ {c}) \ {t}
    <3>1. /\ s \ {c} \in SUBSET S /\ Cardinality(s \ {c}) = n /\ t \in s \ {c}
          /\ s \ {t} \in SUBSET S /\ Cardinality(s \ {t}) = n /\ c \in s \ {t}
          /\ (s \ {t}) \ {c} = r /\ r \in SUBSET S
      BY <2>1, <2>4, <1>1, Smaller
    <3>2. g[s \ {c}] = g[r] + f[t]
      BY <3>1
    <3>3. g[s \ {t}] = g[r] + f[c]
      BY <3>1
    <3>4. g[r] \in Int /\ f[t] \in Int /\ f[c] \in Int
      BY <3>1, <2>1
    <3> HIDE DEF r
    <3>. QED  BY <2>2, <3>2, <3>3, <3>4
  <2>. QED  BY <2>3, <2>4
<1> HIDE DEF N
<1>5. N = Nat
  <2>1. N \in SUBSET Nat
    BY DEF N
  <2>. QED  BY <1>3, <1>4, <2>1, SetInduction
<1>. QED  BY <1>1, <1>5 DEF N, SumSplits

(* What the library's sum over a set is. *)
LEMMA Sums ==
  ASSUME NEW f, NEW S, IsFiniteSet(S), \A x \in S : f[x] \in Int
  PROVE  /\ SumFunctionOnSet(f, S) \in Int
         /\ S = {} => SumFunctionOnSet(f, S) = 0
         /\ \A t \in S : SumFunctionOnSet(f, S) = SumFunctionOnSet(f, S \ {t}) + f[t]
<1>1. PICK g \in [SUBSET S -> Int] : SumRule(f, S, g)
  BY SumExists
<1>2. SumFunctionOnSet(f, S) = g[S]
  <2> DEFINE h == CHOOSE h : SumRule(f, S, h)
  <2>1. SumRule(f, S, h)
    BY <1>1, Zenon
  <2> HIDE DEF h
  <2>2. h[S] = g[S]
    BY <1>1, <2>1, SumUnique
  <2>. QED  BY <2>2, SumDefinition DEF h
<1>3. S = {} => g[S] = 0
  <2>1. g[S] = IF S = {} THEN 0 ELSE f[Picked(S)] + g[S \ {Picked(S)}]
    BY <1>1, Zenon DEF SumRule
  <2>. QED  BY <2>1
<1>4. ASSUME NEW t \in S PROVE SumFunctionOnSet(f, S \ {t}) = g[S \ {t}]
  <2> DEFINE T == S \ {t}
             h == CHOOSE h : SumRule(f, T, h)
  <2>1. IsFiniteSet(T) /\ T \in SUBSET S
    BY FS_Subset
  <2>2. \E k : SumRule(f, T, k)
    BY <2>1, SumExists
  <2>3. SumRule(f, T, h)
    BY <2>2, Zenon
  <2> HIDE DEF T, h
  <2>4. g[T] = h[T]
    BY <1>1, <2>1, <2>3, SumUnique
  <2>. QED  BY <2>4, SumDefinition DEF T, h
<1>5. \A t \in S : g[S] = g[S \ {t}] + f[t]
  <2>1. SumSplits(f, S, g)
    BY <1>1, SumCommutes
  <2>2. S \in SUBSET S
    OBVIOUS
  <2>. QED  BY <2>1, <2>2, Zenon DEF SumSplits
<1>6. \A t \in S : SumFunctionOnSet(f, S) = SumFunctionOnSet(f, S \ {t}) + f[t]
  BY <1>2, <1>4, <1>5, Zenon
<1>7. g[S] \in Int
  BY <1>1
<1>. QED  BY <1>2, <1>3, <1>6, <1>7, Zenon

-----------------------------------------------------------------------------
(* The values of aggregates                                                *)

Funs == {"COUNT", "SUM", "SUMP", "MIN", "MAX"}

(* The symbols #inf and #sup and the ends of the range of numbers.         *)
LEMMA Limits ==
  /\ Inf \in Int /\ Sup \in Int /\ MaxInt \in Nat
  /\ MaxInt < Sup /\ Inf < -MaxInt - 1
  /\ Inf < 0 /\ 0 < Sup /\ Inf < Sup
BY LimitAssumption

(* Weights are proper numbers.                                             *)
LEMMA Weights ==
  ASSUME NEW t \in Tuple
  PROVE  /\ Weight[t] \in Int /\ Inf < Weight[t] /\ Weight[t] < Sup
         /\ \A fun : GetWeight(fun, t) \in Int
<1>1. Weight[t] \in (Inf + 1)..(Sup - 1)
  BY WeightAssumption
<1>2. Weight[t] \in Int /\ Inf < Weight[t] /\ Weight[t] < Sup
  BY <1>1, Limits
<1>. QED  BY <1>2 DEF GetWeight

(* MinOf and MaxOf of bounded sets. *)
LEMMA MinFound ==
  ASSUME NEW S, S # {}, S \subseteq Inf..Sup
  PROVE  MinOf(S) \in S /\ \A y \in S : MinOf(S) <= y
<1> DEFINE D == {y - Inf : y \in S}
<1>1. D \subseteq Nat /\ D # {}
  <2>1. \A y \in S : y - Inf \in Nat
    BY Limits
  <2>. QED  BY <2>1
<1>2. PICK d \in D : \A e \in D : d <= e
  <2> HIDE DEF D
  <2>. QED  BY <1>1, Least
<1>3. PICK x \in S : d = x - Inf
  OBVIOUS
<1>4. ASSUME NEW y \in S PROVE x <= y
  <2>1. y - Inf \in D
    OBVIOUS
  <2>2. x - Inf <= y - Inf
    BY <1>2, <1>3, <2>1
  <2>3. x \in Int /\ y \in Int /\ Inf \in Int
    BY Limits
  <2> HIDE DEF D
  <2>. QED  BY <2>2, <2>3
<1>. QED  BY <1>4 DEF MinOf

(* A set of values has a maximum.                                          *)
LEMMA MaxFound ==
  ASSUME NEW S, S # {}, S \subseteq Inf..Sup
  PROVE  MaxOf(S) \in S /\ \A y \in S : MaxOf(S) >= y
<1> DEFINE D == {Sup - y : y \in S}
<1>1. D \subseteq Nat /\ D # {}
  <2>1. \A y \in S : Sup - y \in Nat
    BY Limits
  <2>. QED  BY <2>1
<1>2. PICK d \in D : \A e \in D : d <= e
  <2> HIDE DEF D
  <2>. QED  BY <1>1, Least
<1>3. PICK x \in S : d = Sup - x
  OBVIOUS
<1>4. ASSUME NEW y \in S PROVE x >= y
  <2>1. Sup - y \in D
    OBVIOUS
  <2>2. Sup - x <= Sup - y
    BY <1>2, <1>3, <2>1
  <2>3. x \in Int /\ y \in Int /\ Sup \in Int
    BY Limits
  <2> HIDE DEF D
  <2>. QED  BY <2>2, <2>3
<1>. QED  BY <1>4 DEF MaxOf

(* Of two integers. *)
LEMMA MinMaxOfTwo ==
  ASSUME NEW x \in Int, NEW y \in Int
  PROVE  /\ MinOf({x, y}) = IF x <= y THEN x ELSE y
         /\ MaxOf({x, y}) = IF x >= y THEN x ELSE y
<1>1. \A m \in {x, y} : (\A z \in {x, y} : m <= z) <=> (m <= x /\ m <= y)
  OBVIOUS
<1>2. \A m \in {x, y} : (\A z \in {x, y} : m >= z) <=> (m >= x /\ m >= y)
  OBVIOUS
<1>. QED  BY <1>1, <1>2 DEF MinOf, MaxOf

(* What a further tuple does to a value. *)
Joined(fun, v, t) ==
  IF fun = "MIN" THEN (IF Weight[t] <= v THEN Weight[t] ELSE v)
  ELSE IF fun = "MAX" THEN (IF Weight[t] >= v THEN Weight[t] ELSE v)
  ELSE IF fun = "SUMP" /\ ~(Weight[t] > 0) THEN v
  ELSE v + GetWeight(fun, t)

(* The minimum with a further tuple.                                       *)
LEMMA MinJoins ==
  ASSUME NEW S \in SUBSET Tuple
  PROVE  /\ ValueOf("MIN", S) \in Inf..Sup
         /\ \A t \in S : ValueOf("MIN", S) = Joined("MIN", ValueOf("MIN", S \ {t}), t)
<1> DEFINE W(T) == {Weight[u] : u \in T} \union {Sup}
<1>1. \A T \in SUBSET Tuple : W(T) # {} /\ W(T) \subseteq Inf..Sup
  BY Weights, Limits
<1>2. \A T \in SUBSET Tuple : ValueOf("MIN", T) = MinOf(W(T))
  BY DEF ValueOf
<1>3. ASSUME NEW T \in SUBSET Tuple
      PROVE  /\ ValueOf("MIN", T) \in W(T) /\ ValueOf("MIN", T) \in Int
             /\ \A y \in W(T) : ValueOf("MIN", T) <= y
  <2> HIDE DEF W
  <2>1. MinOf(W(T)) \in W(T) /\ \A y \in W(T) : MinOf(W(T)) <= y
    BY <1>1, MinFound
  <2>2. W(T) \subseteq Int
    BY <1>1, Limits
  <2>. QED  BY <1>2, <2>1, <2>2
<1>4. ASSUME NEW t \in S
      PROVE  ValueOf("MIN", S) = Joined("MIN", ValueOf("MIN", S \ {t}), t)
  <2> DEFINE v == ValueOf("MIN", S)
             u == ValueOf("MIN", S \ {t})
  <2>1. W(S) = W(S \ {t}) \union {Weight[t]}
    OBVIOUS
  <2>2. S \ {t} \in SUBSET Tuple /\ Weight[t] \in Int
    BY Weights
  <2>3. /\ v \in W(S) /\ v \in Int /\ \A y \in W(S) : v <= y
        /\ u \in W(S \ {t}) /\ u \in Int /\ \A y \in W(S \ {t}) : u <= y
    BY <1>3, <2>2
  <2> HIDE DEF W, v, u
  <2>4. /\ v <= Weight[t] /\ v <= u
        /\ v = Weight[t] \/ u <= v
    BY <2>1, <2>3
  <2>5. v = IF Weight[t] <= u THEN Weight[t] ELSE u
    BY <2>2, <2>3, <2>4
  <2>. QED  BY <2>5 DEF Joined, v, u
<1>5. ValueOf("MIN", S) \in Inf..Sup
  <2> HIDE DEF W
  <2>. QED  BY <1>1, <1>3
<1>. QED  BY <1>4, <1>5

(* The maximum with a further tuple.                                       *)
LEMMA MaxJoins ==
  ASSUME NEW S \in SUBSET Tuple
  PROVE  /\ ValueOf("MAX", S) \in Inf..Sup
         /\ \A t \in S : ValueOf("MAX", S) = Joined("MAX", ValueOf("MAX", S \ {t}), t)
<1> DEFINE W(T) == {Weight[u] : u \in T} \union {Inf}
<1>1. \A T \in SUBSET Tuple : W(T) # {} /\ W(T) \subseteq Inf..Sup
  BY Weights, Limits
<1>2. \A T \in SUBSET Tuple : ValueOf("MAX", T) = MaxOf(W(T))
  BY DEF ValueOf
<1>3. ASSUME NEW T \in SUBSET Tuple
      PROVE  /\ ValueOf("MAX", T) \in W(T) /\ ValueOf("MAX", T) \in Int
             /\ \A y \in W(T) : ValueOf("MAX", T) >= y
  <2> HIDE DEF W
  <2>1. MaxOf(W(T)) \in W(T) /\ \A y \in W(T) : MaxOf(W(T)) >= y
    BY <1>1, MaxFound
  <2>2. W(T) \subseteq Int
    BY <1>1, Limits
  <2>. QED  BY <1>2, <2>1, <2>2
<1>4. ASSUME NEW t \in S
      PROVE  ValueOf("MAX", S) = Joined("MAX", ValueOf("MAX", S \ {t}), t)
  <2> DEFINE v == ValueOf("MAX", S)
             u == ValueOf("MAX", S \ {t})
  <2>1. W(S) = W(S \ {t}) \union {Weight[t]}
    OBVIOUS
  <2>2. S \ {t} \in SUBSET Tuple /\ Weight[t] \in Int
    BY Weights
  <2>3. /\ v \in W(S) /\ v \in Int /\ \A y \in W(S) : v >= y
        /\ u \in W(S \ {t}) /\ u \in Int /\ \A y \in W(S \ {t}) : u >= y
    BY <1>3, <2>2
  <2> HIDE DEF W, v, u
  <2>4. /\ v >= Weight[t] /\ v >= u
        /\ v = Weight[t] \/ u >= v
    BY <2>1, <2>3
  <2>5. v = IF Weight[t] >= u THEN Weight[t] ELSE u
    BY <2>2, <2>3, <2>4
  <2>. QED  BY <2>5 DEF Joined, v, u
<1>5. ValueOf("MAX", S) \in Inf..Sup
  <2> HIDE DEF W
  <2>. QED  BY <1>1, <1>3
<1>. QED  BY <1>4, <1>5

(* The sum with a further tuple.                                           *)
LEMMA SumsOfTuples ==
  ASSUME NEW fun, NEW S \in SUBSET Tuple, IsFiniteSet(S)
  PROVE  /\ SumOf(fun, S) \in Int
         /\ S = {} => SumOf(fun, S) = 0
         /\ \A t \in S : SumOf(fun, S) = SumOf(fun, S \ {t}) + GetWeight(fun, t)
<1> DEFINE f == [t \in Tuple |-> GetWeight(fun, t)]
<1>1. \A t \in S : f[t] = GetWeight(fun, t) /\ f[t] \in Int
  BY Weights
<1>2. \A T : SumOf(fun, T) = SumFunctionOnSet(f, T)
  BY Zenon DEF SumOf
<1> HIDE DEF f
<1>3. /\ SumFunctionOnSet(f, S) \in Int
      /\ S = {} => SumFunctionOnSet(f, S) = 0
      /\ \A t \in S : SumFunctionOnSet(f, S) = SumFunctionOnSet(f, S \ {t}) + f[t]
  BY <1>1, Sums
<1>. QED  BY <1>1, <1>2, <1>3

(* COUNT and SUM with a further tuple.                                     *)
LEMMA SumJoins ==
  ASSUME NEW fun \in {"COUNT", "SUM"}, NEW S \in SUBSET Tuple, IsFiniteSet(S)
  PROVE  /\ ValueOf(fun, S) \in Int
         /\ \A t \in S : ValueOf(fun, S) = Joined(fun, ValueOf(fun, S \ {t}), t)
<1>1. \A T : ValueOf(fun, T) = SumOf(fun, T)
  BY DEF ValueOf
<1>. QED  BY <1>1, SumsOfTuples DEF Joined

(* SUM+ with a further tuple, which only counts with a positive weight.    *)
LEMMA SumPositiveJoins ==
  ASSUME NEW S \in SUBSET Tuple, IsFiniteSet(S)
  PROVE  /\ ValueOf("SUMP", S) \in Int
         /\ \A t \in S : ValueOf("SUMP", S) = Joined("SUMP", ValueOf("SUMP", S \ {t}), t)
<1> DEFINE P(T) == {t \in T : Weight[t] > 0}
<1>1. \A T : ValueOf("SUMP", T) = SumOf("SUMP", P(T))
  BY DEF ValueOf
<1>2. P(S) \in SUBSET Tuple /\ IsFiniteSet(P(S))
  BY FS_Subset
<1>3. ASSUME NEW t \in S
      PROVE  ValueOf("SUMP", S) = Joined("SUMP", ValueOf("SUMP", S \ {t}), t)
  <2>1. CASE Weight[t] > 0
    <3>1. t \in P(S) /\ P(S \ {t}) = P(S) \ {t}
      BY <2>1
    <3> HIDE DEF P
    <3>2. SumOf("SUMP", P(S)) = SumOf("SUMP", P(S) \ {t}) + GetWeight("SUMP", t)
      BY <1>2, <3>1, SumsOfTuples
    <3>. QED  BY <2>1, <1>1, <3>1, <3>2 DEF Joined
  <2>2. CASE ~(Weight[t] > 0)
    <3>1. P(S \ {t}) = P(S)
      BY <2>2
    <3> HIDE DEF P
    <3>. QED  BY <2>2, <1>1, <3>1 DEF Joined
  <2>. QED  BY <2>1, <2>2
<1> HIDE DEF P
<1>. QED  BY <1>1, <1>2, <1>3, SumsOfTuples

(* The value of an aggregate is computed tuple by tuple, in any order. *)
LEMMA ValueJoins ==
  ASSUME NEW fun \in Funs, NEW S \in SUBSET Tuple, IsFiniteSet(S)
  PROVE  /\ ValueOf(fun, S) \in Int
         /\ IsMinMax(fun) => ValueOf(fun, S) \in Inf..Sup
         /\ \A t \in S : ValueOf(fun, S) = Joined(fun, ValueOf(fun, S \ {t}), t)
<1>1. CASE fun = "MIN"
  BY <1>1, MinJoins, Limits
<1>2. CASE fun = "MAX"
  BY <1>2, MaxJoins, Limits
<1>3. CASE fun \in {"COUNT", "SUM"}
  BY <1>3, SumJoins DEF IsMinMax
<1>4. CASE fun = "SUMP"
  BY <1>4, SumPositiveJoins DEF IsMinMax
<1>. QED  BY <1>1, <1>2, <1>3, <1>4 DEF Funs

(* Without tuples, it is the neutral value. *)
LEMMA NoTuples ==
  ASSUME NEW fun \in Funs
  PROVE  ValueOf(fun, {}) = Neutral(fun) /\ Neutral(fun) \in Int
<1>1. IsFiniteSet({}) /\ {} \in SUBSET Tuple
  BY FS_EmptySet
<1>2. CASE fun = "MIN"
  <2>1. ValueOf(fun, {}) = MinOf({Sup})
    BY <1>2 DEF ValueOf
  <2>2. MinOf({Sup}) \in {Sup}
    BY MinFound, Limits
  <2>. QED  BY <1>2, <2>1, <2>2, Limits DEF Neutral
<1>3. CASE fun = "MAX"
  <2>1. ValueOf(fun, {}) = MaxOf({Inf})
    BY <1>3 DEF ValueOf
  <2>2. MaxOf({Inf}) \in {Inf}
    BY MaxFound, Limits
  <2>. QED  BY <1>3, <2>1, <2>2, Limits DEF Neutral
<1>4. CASE fun \in {"COUNT", "SUM", "SUMP"}
  <2>1. ValueOf(fun, {}) = SumOf(fun, {})
    <3>1. {t \in {} : Weight[t] > 0} = {}
      OBVIOUS
    <3>. QED  BY <1>4, <3>1 DEF ValueOf
  <2>2. SumOf(fun, {}) = 0
    BY <1>1, SumsOfTuples
  <2>. QED  BY <1>4, <2>1, <2>2 DEF Neutral
<1>. QED  BY <1>2, <1>3, <1>4 DEF Funs

(* A neutral tuple does not change a value. *)
LEMMA NeutralJoins ==
  ASSUME NEW fun \in Funs, NEW t \in Tuple, IsNeutral(fun, t), NEW v \in Int
  PROVE  Joined(fun, v, t) = v
<1>1. Weight[t] \in Int
  BY Weights
<1>2. CASE fun = "SUM"
  BY <1>1, <1>2 DEF IsNeutral, Joined, GetWeight
<1>3. CASE fun = "SUMP"
  BY <1>1, <1>3 DEF IsNeutral, Joined
<1>. QED  BY <1>2, <1>3 DEF IsNeutral

(* So neutral tuples can be left out. *)
LEMMA NeutralDropped ==
  ASSUME NEW fun \in Funs, NEW S \in SUBSET Tuple, IsFiniteSet(S), NEW D \in SUBSET S,
         \A t \in D : IsNeutral(fun, t)
  PROVE  ValueOf(fun, S \ D) = ValueOf(fun, S)
<1> DEFINE N == {n \in Nat : \A E \in SUBSET D : Cardinality(E) = n => ValueOf(fun, S \ E) = ValueOf(fun, S)}
<1>1. \A E \in SUBSET D : IsFiniteSet(E) /\ Cardinality(E) \in Nat /\ (Cardinality(E) = 0 <=> E = {})
  BY FS_Subset, FS_CardinalityType, FS_EmptySet
<1>2. 0 \in N
  <2>1. S \ {} = S
    OBVIOUS
  <2>. QED  BY <1>1, <2>1
<1>3. ASSUME NEW n \in N PROVE n + 1 \in N
  <2> SUFFICES ASSUME NEW E \in SUBSET D, Cardinality(E) = n + 1 PROVE ValueOf(fun, S \ E) = ValueOf(fun, S)
    OBVIOUS
  <2>1. PICK t \in E : TRUE
    BY <1>1
  <2>2. E \ {t} \in SUBSET D /\ Cardinality(E \ {t}) = n
    BY <1>1, Smaller
  <2>3. ValueOf(fun, S \ (E \ {t})) = ValueOf(fun, S)
    BY <2>2
  <2> DEFINE R == S \ (E \ {t})
  <2>4. t \in R /\ R \ {t} = S \ E /\ R \in SUBSET Tuple /\ IsFiniteSet(R) /\ S \ E \in SUBSET Tuple
        /\ IsFiniteSet(S \ E)
    BY FS_Subset
  <2> HIDE DEF R
  <2>5. ValueOf(fun, R) = Joined(fun, ValueOf(fun, S \ E), t) /\ ValueOf(fun, S \ E) \in Int
    BY <2>4, ValueJoins
  <2>6. ValueOf(fun, R) = ValueOf(fun, S \ E)
    BY <2>4, <2>5, NeutralJoins
  <2>. QED  BY <2>3, <2>6 DEF R
<1> HIDE DEF N
<1>4. N = Nat
  <2>1. N \in SUBSET Nat
    BY DEF N
  <2>. QED  BY <1>2, <1>3, <2>1, SetInduction
<1>5. Cardinality(D) \in N /\ D \in SUBSET D
  BY <1>1, <1>4
<1>. QED  BY <1>5, Zenon DEF N

-----------------------------------------------------------------------------
(* Bounds                                                                  *)

BoundSets == {vec \in Seq(Intervals) : IsNormal(vec)}

(* The positions in an interval of the bounds.                             *)
LEMMA IntervalTyped ==
  ASSUME NEW a \in Int, NEW ai \in BOOLEAN, NEW b \in Int, NEW bi \in BOOLEAN
  PROVE  /\ Interval(a, ai, b, bi) \in Intervals
         /\ \A p \in Int : In(p, Interval(a, ai, b, bi)) <=>
              /\ (IF ai THEN 2 * a ELSE 2 * a + 1) <= p
              /\ p <= (IF bi THEN 2 * b ELSE 2 * b - 1)
<1>1. /\ Bound(a, ai) \in Bounds /\ Bound(b, bi) \in Bounds
      /\ Bound(a, ai).bound = a /\ Bound(a, ai).inclusive = ai
      /\ Bound(b, bi).bound = b /\ Bound(b, bi).inclusive = bi
  BY DEF Bound, Bounds
<1>2. /\ Interval(a, ai, b, bi) \in Intervals
      /\ Interval(a, ai, b, bi).left = Bound(a, ai)
      /\ Interval(a, ai, b, bi).right = Bound(b, bi)
  BY <1>1 DEF Interval, Intervals
<1>3. /\ FirstOf(Bound(a, ai)) = IF ai THEN 2 * a ELSE 2 * a + 1
      /\ LastOf(Bound(b, bi)) = IF bi THEN 2 * b ELSE 2 * b - 1
  BY <1>1 DEF FirstOf, LastOf
<1>. QED  BY <1>2, <1>3 DEF In

(* The positions that a relation allows. *)
Allowed(r, p) ==
  CASE r.rel = "GEQ" -> p >= 2 * r.bound [] r.rel = "GT"  -> p > 2 * r.bound
    [] r.rel = "LEQ" -> p <= 2 * r.bound [] r.rel = "LT"  -> p < 2 * r.bound
    [] r.rel = "NEQ" -> p # 2 * r.bound  [] r.rel = "EQ"  -> p = 2 * r.bound

(* Relations compare with a number.                                        *)
LEMMA RelationTyped ==
  ASSUME NEW r \in Relations
  PROVE  /\ r.rel \in {"GT", "GEQ", "LT", "LEQ", "NEQ", "EQ"}
         /\ r.bound \in Int /\ Inf <= r.bound /\ r.bound <= Sup
BY Limits DEF Relations

(* A value is allowed if and only if the relation holds.                   *)
LEMMA AllowedHolds ==
  ASSUME NEW r \in Relations, NEW v \in Int
  PROVE  Allowed(r, 2 * v) <=> Holds(r.rel, v, r.bound)
<1>1. r.rel \in {"GT", "GEQ", "LT", "LEQ", "NEQ", "EQ"} /\ r.bound \in Int
  BY RelationTyped
<1>2. CASE r.rel = "GEQ"
  BY <1>1, <1>2 DEF Allowed, Holds
<1>3. CASE r.rel = "GT"
  BY <1>1, <1>3 DEF Allowed, Holds
<1>4. CASE r.rel = "LEQ"
  BY <1>1, <1>4 DEF Allowed, Holds
<1>5. CASE r.rel = "LT"
  BY <1>1, <1>5 DEF Allowed, Holds
<1>6. CASE r.rel = "NEQ"
  BY <1>1, <1>6 DEF Allowed, Holds
<1>7. CASE r.rel = "EQ"
  BY <1>1, <1>7 DEF Allowed, Holds
<1>. QED  BY <1>1, <1>2, <1>3, <1>4, <1>5, <1>6, <1>7

(* What removing an interval from a set in normal form leaves. *)
LEMMA Removes ==
  ASSUME NEW vec \in BoundSets, NEW x \in Intervals
  PROVE  /\ RemoveInterval(vec, x) \in BoundSets
         /\ \A p \in Int : Member(p, RemoveInterval(vec, x)) <=> Member(p, vec) /\ ~In(p, x)
BY RemoveSubtracts DEF BoundSets

(* Restricting the bounds by a relation leaves what it allows              *)
(* (_initBounds).                                                          *)
LEMMA Restricts ==
  ASSUME NEW vec \in BoundSets, NEW r \in Relations
  PROVE  /\ RestrictBounds(vec, r) \in BoundSets
         /\ \A p \in (2 * Inf)..(2 * Sup) :
              Member(p, RestrictBounds(vec, r)) <=> Member(p, vec) /\ Allowed(r, p)
<1> DEFINE b == r.bound
           below(i) == Interval(Inf, TRUE, b, i)
           above(i) == Interval(b, i, Sup, TRUE)
           same == Interval(b, TRUE, b, TRUE)
<1>1. /\ b \in Int /\ Inf \in Int /\ Sup \in Int
      /\ r.rel \in {"GT", "GEQ", "LT", "LEQ", "NEQ", "EQ"}
  BY RelationTyped, Limits
<1>2. /\ \A i \in BOOLEAN : below(i) \in Intervals /\ above(i) \in Intervals
      /\ same \in Intervals
  BY <1>1, IntervalTyped
<1>3. ASSUME NEW p \in (2 * Inf)..(2 * Sup)
      PROVE  /\ p \in Int
             /\ In(p, below(FALSE)) <=> p <= 2 * b - 1
             /\ In(p, below(TRUE)) <=> p <= 2 * b
             /\ In(p, above(FALSE)) <=> 2 * b + 1 <= p
             /\ In(p, above(TRUE)) <=> 2 * b <= p
             /\ In(p, same) <=> p = 2 * b
  <2>1. p \in Int /\ 2 * Inf <= p /\ p <= 2 * Sup
    BY <1>1
  <2>2. In(p, below(FALSE)) <=> 2 * Inf <= p /\ p <= 2 * b - 1
    BY <1>1, <2>1, IntervalTyped
  <2>3. In(p, below(TRUE)) <=> 2 * Inf <= p /\ p <= 2 * b
    BY <1>1, <2>1, IntervalTyped
  <2>4. In(p, above(FALSE)) <=> 2 * b + 1 <= p /\ p <= 2 * Sup
    BY <1>1, <2>1, IntervalTyped
  <2>5. In(p, above(TRUE)) <=> 2 * b <= p /\ p <= 2 * Sup
    BY <1>1, <2>1, IntervalTyped
  <2>6. In(p, same) <=> 2 * b <= p /\ p <= 2 * b
    BY <1>1, <2>1, IntervalTyped
  <2> HIDE DEF below, above, same, b
  <2>7. p <= 2 * b /\ 2 * b <= p <=> p = 2 * b
    BY <1>1, <2>1
  <2>. QED  BY <2>1, <2>2, <2>3, <2>4, <2>5, <2>6, <2>7
<1>4. /\ r.rel = "GEQ" => RestrictBounds(vec, r) = RemoveInterval(vec, below(FALSE))
      /\ r.rel = "GT"  => RestrictBounds(vec, r) = RemoveInterval(vec, below(TRUE))
      /\ r.rel = "LEQ" => RestrictBounds(vec, r) = RemoveInterval(vec, above(FALSE))
      /\ r.rel = "LT"  => RestrictBounds(vec, r) = RemoveInterval(vec, above(TRUE))
      /\ r.rel = "NEQ" => RestrictBounds(vec, r) = RemoveInterval(vec, same)
      /\ r.rel = "EQ"  => RestrictBounds(vec, r) = RemoveInterval(RemoveInterval(vec, above(FALSE)), below(FALSE))
  BY DEF RestrictBounds
<1>5. \A p : /\ r.rel = "GEQ" => (Allowed(r, p) <=> p >= 2 * b)
             /\ r.rel = "GT"  => (Allowed(r, p) <=> p > 2 * b)
             /\ r.rel = "LEQ" => (Allowed(r, p) <=> p <= 2 * b)
             /\ r.rel = "LT"  => (Allowed(r, p) <=> p < 2 * b)
             /\ r.rel = "NEQ" => (Allowed(r, p) <=> p # 2 * b)
             /\ r.rel = "EQ"  => (Allowed(r, p) <=> p = 2 * b)
  BY DEF Allowed
<1> DEFINE Right(x) == \A p \in (2 * Inf)..(2 * Sup) : ~In(p, x) <=> Allowed(r, p)
           Good == /\ RestrictBounds(vec, r) \in BoundSets
                   /\ \A p \in (2 * Inf)..(2 * Sup) :
                        Member(p, RestrictBounds(vec, r)) <=> Member(p, vec) /\ Allowed(r, p)
<1>6. below(FALSE) \in Intervals /\ below(TRUE) \in Intervals /\ above(FALSE) \in Intervals /\ above(TRUE) \in Intervals
  BY <1>2, Zenon
<1> HIDE DEF b, below, above, same
<1>7. (2 * Inf)..(2 * Sup) \subseteq Int
  BY <1>1
<1>8. ASSUME NEW x \in Intervals, RestrictBounds(vec, r) = RemoveInterval(vec, x), Right(x)
      PROVE  Good
  BY <1>7, <1>8, Removes
<1>9. ASSUME r.rel = "GEQ" PROVE Good
  <2>1. ASSUME NEW p \in (2 * Inf)..(2 * Sup) PROVE ~In(p, below(FALSE)) <=> Allowed(r, p)
    <3>1. p \in Int /\ (In(p, below(FALSE)) <=> p <= 2 * b - 1)
      BY <1>3
    <3>2. Allowed(r, p) <=> p >= 2 * b
      BY <1>5, <1>9
    <3>3. ~(p <= 2 * b - 1) <=> p >= 2 * b
      BY <1>1, <3>1
    <3>. QED  BY <3>1, <3>2, <3>3, Zenon
  <2>2. Right(below(FALSE))
    BY <2>1
  <2> HIDE DEF Right, Good
  <2>. QED  BY <1>2, <1>4, <1>6, <1>8, <1>9, <2>2, Zenon
<1>10. ASSUME r.rel = "GT" PROVE Good
  <2>1. ASSUME NEW p \in (2 * Inf)..(2 * Sup) PROVE ~In(p, below(TRUE)) <=> Allowed(r, p)
    <3>1. p \in Int /\ (In(p, below(TRUE)) <=> p <= 2 * b)
      BY <1>3
    <3>2. Allowed(r, p) <=> p > 2 * b
      BY <1>5, <1>10
    <3>3. ~(p <= 2 * b) <=> p > 2 * b
      BY <1>1, <3>1
    <3>. QED  BY <3>1, <3>2, <3>3, Zenon
  <2>2. Right(below(TRUE))
    BY <2>1
  <2> HIDE DEF Right, Good
  <2>. QED  BY <1>2, <1>4, <1>6, <1>8, <1>10, <2>2, Zenon
<1>11. ASSUME r.rel = "LEQ" PROVE Good
  <2>1. ASSUME NEW p \in (2 * Inf)..(2 * Sup) PROVE ~In(p, above(FALSE)) <=> Allowed(r, p)
    <3>1. p \in Int /\ (In(p, above(FALSE)) <=> 2 * b + 1 <= p)
      BY <1>3
    <3>2. Allowed(r, p) <=> p <= 2 * b
      BY <1>5, <1>11
    <3>3. ~(2 * b + 1 <= p) <=> p <= 2 * b
      BY <1>1, <3>1
    <3>. QED  BY <3>1, <3>2, <3>3, Zenon
  <2>2. Right(above(FALSE))
    BY <2>1
  <2> HIDE DEF Right, Good
  <2>. QED  BY <1>2, <1>4, <1>6, <1>8, <1>11, <2>2, Zenon
<1>12. ASSUME r.rel = "LT" PROVE Good
  <2>1. ASSUME NEW p \in (2 * Inf)..(2 * Sup) PROVE ~In(p, above(TRUE)) <=> Allowed(r, p)
    <3>1. p \in Int /\ (In(p, above(TRUE)) <=> 2 * b <= p)
      BY <1>3
    <3>2. Allowed(r, p) <=> p < 2 * b
      BY <1>5, <1>12
    <3>3. ~(2 * b <= p) <=> p < 2 * b
      BY <1>1, <3>1
    <3>. QED  BY <3>1, <3>2, <3>3, Zenon
  <2>2. Right(above(TRUE))
    BY <2>1
  <2> HIDE DEF Right, Good
  <2>. QED  BY <1>2, <1>4, <1>6, <1>8, <1>12, <2>2, Zenon
<1>13. ASSUME r.rel = "NEQ" PROVE Good
  <2>1. Right(same)
    BY <1>1, <1>3, <1>5, <1>13
  <2> HIDE DEF Right, Good
  <2>. QED  BY <1>2, <1>4, <1>6, <1>8, <1>13, <2>1, Zenon
<1>14. ASSUME r.rel = "EQ" PROVE Good
  <2> DEFINE up == above(FALSE)
             down == below(FALSE)
             v == RemoveInterval(vec, up)
  <2>1. up \in Intervals /\ down \in Intervals
    BY <1>6, Zenon
  <2>2. RestrictBounds(vec, r) = RemoveInterval(v, down)
    BY <1>4, <1>14
  <2>3. ASSUME NEW p \in (2 * Inf)..(2 * Sup) PROVE ~In(p, up) /\ ~In(p, down) <=> Allowed(r, p)
    <3>1. /\ p \in Int
          /\ In(p, down) <=> p <= 2 * b - 1
          /\ In(p, up) <=> 2 * b + 1 <= p
      BY <1>3
    <3>2. Allowed(r, p) <=> p = 2 * b
      BY <1>5, <1>14
    <3>3. ~(p <= 2 * b - 1) /\ ~(2 * b + 1 <= p) <=> p = 2 * b
      BY <1>1, <3>1
    <3>. QED  BY <3>1, <3>2, <3>3, Zenon
  <2> HIDE DEF up, down
  <2>4. v \in BoundSets /\ \A p \in Int : Member(p, v) <=> Member(p, vec) /\ ~In(p, up)
    BY <2>1, Removes
  <2> HIDE DEF v
  <2>5. /\ RemoveInterval(v, down) \in BoundSets
        /\ \A p \in Int : Member(p, RemoveInterval(v, down)) <=> Member(p, v) /\ ~In(p, down)
    BY <2>1, <2>4, Removes
  <2>. QED  BY <1>7, <2>2, <2>3, <2>4, <2>5
<1> HIDE DEF Good
<1>15. Good
  <2>1. \/ r.rel = "GEQ" \/ r.rel = "GT" \/ r.rel = "LEQ" \/ r.rel = "LT" \/ r.rel = "NEQ" \/ r.rel = "EQ"
    BY <1>1
  <2>. QED  BY <1>9, <1>10, <1>11, <1>12, <1>13, <1>14, <2>1, Zenon
<1>. QED  BY <1>15 DEF Good

(* The bounds of an aggregate are the values that satisfy its relations,   *)
(* with the gaps between them.                                             *)
LEMMA BoundsExact ==
  ASSUME NEW rels \in Seq(Relations)
  PROVE  /\ InitBounds(rels) \in BoundSets
         /\ \A p \in (2 * Inf)..(2 * Sup) :
              Member(p, InitBounds(rels)) <=> \A i \in DOMAIN rels : Allowed(rels[i], p)
<1> DEFINE n == Len(rels)
           base == <<Interval(Inf, TRUE, Sup, TRUE)>>
           step == [i \in 1..n |-> [vec \in BoundSets |-> RestrictBounds(vec, rels[i])]]
           Rule(g) == g = [i \in 0..n |-> IF i = 0 THEN base ELSE RestrictBounds(g[i - 1], rels[i])]
<1>1. n \in Nat /\ DOMAIN rels = 1..n /\ \A i \in 1..n : rels[i] \in Relations
  OBVIOUS
<1>2. /\ base \in BoundSets
      /\ \A p \in (2 * Inf)..(2 * Sup) : Member(p, base)
  <2>0. Inf \in Int /\ Sup \in Int /\ (2 * Inf)..(2 * Sup) \subseteq Int /\ TRUE \in BOOLEAN
    BY Limits
  <2>1. /\ Interval(Inf, TRUE, Sup, TRUE) \in Intervals
        /\ \A p \in Int : In(p, Interval(Inf, TRUE, Sup, TRUE)) <=> 2 * Inf <= p /\ p <= 2 * Sup
    <3>1. /\ Interval(Inf, TRUE, Sup, TRUE) \in Intervals
          /\ \A p \in Int : In(p, Interval(Inf, TRUE, Sup, TRUE)) <=>
               /\ (IF TRUE THEN 2 * Inf ELSE 2 * Inf + 1) <= p
               /\ p <= (IF TRUE THEN 2 * Sup ELSE 2 * Sup - 1)
      BY <2>0, IntervalTyped, Zenon
    <3>. QED  BY <3>1
  <2>2. ASSUME NEW p \in (2 * Inf)..(2 * Sup) PROVE In(p, Interval(Inf, TRUE, Sup, TRUE))
    <3>1. p \in Int /\ 2 * Inf <= p /\ p <= 2 * Sup
      BY <2>0
    <3>. QED  BY <2>1, <3>1, Zenon
  <2>3. ~IsEmpty(Interval(Inf, TRUE, Sup, TRUE))
    BY Limits DEF IsEmpty, LeftBeforeRight, Interval, Bound
  <2>4. base \in Seq(Intervals) /\ IsNormal(base) /\ \A p \in Int : Member(p, base) <=> In(p, Interval(Inf, TRUE, Sup, TRUE))
    BY <2>1, <2>3, OneInterval
  <2> HIDE DEF base
  <2>. QED  BY <2>0, <2>2, <2>4 DEF BoundSets
<1>3. step \in [1..n -> [BoundSets -> BoundSets]]
  BY <1>1, Restricts
<1> HIDE DEF base
<1>4. PICK g \in [0..n -> BoundSets] : LoopOf(n, base, step, g)
  <2>1. base \in BoundSets
    BY <1>2
  <2> HIDE DEF step, n
  <2>2. n \in Nat
    BY <1>1
  <2>. QED  BY <1>3, <2>1, <2>2, LoopFound
<1>5. Rule(g)
  <2>0. g = [i \in 0..n |-> IF i = 0 THEN base ELSE step[i][g[i - 1]]]
    BY <1>4 DEF LoopOf
  <2>1. \A i \in 0..n : i # 0 => i \in 1..n /\ i - 1 \in 0..n
    BY <1>1
  <2>2. \A i \in 0..n : i # 0 => step[i][g[i - 1]] = RestrictBounds(g[i - 1], rels[i])
    BY <1>4, <2>1
  <2> HIDE DEF step, n
  <2>. QED  BY <2>0, <2>2
<1> HIDE DEF step
<1>6. PICK h : Rule(h) /\ InitBounds(rels) = h[n]
  <2> DEFINE h == CHOOSE h : Rule(h)
  <2>1. Rule(h)
    BY <1>5, Zenon
  <2>2. InitBounds(rels) = h[n]
    BY Zenon DEF InitBounds, base
  <2> HIDE DEF h
  <2>. QED  BY <2>1, <2>2
<1> DEFINE Exact(i) == /\ h[i] \in BoundSets
                       /\ \A p \in (2 * Inf)..(2 * Sup) :
                            Member(p, h[i]) <=> \A k \in 1..i : Allowed(rels[k], p)
           S == {i \in Nat : i <= n => Exact(i)}
<1>7. \A i \in 0..n : h[i] = IF i = 0 THEN base ELSE RestrictBounds(h[i - 1], rels[i])
  <2> HIDE DEF n
  <2>. QED  BY <1>6, Zenon
<1> HIDE DEF n
<1>8. 0 \in S
  BY <1>1, <1>2, <1>7
<1>9. ASSUME NEW i \in S PROVE i + 1 \in S
  <2> SUFFICES ASSUME i + 1 <= n PROVE Exact(i + 1)
    OBVIOUS
  <2>1. Exact(i) /\ i \in Nat /\ i + 1 \in 1..n
    BY <1>1
  <2>2. h[i + 1] = RestrictBounds(h[i], rels[i + 1])
    BY <1>7, <2>1
  <2>3. rels[i + 1] \in Relations
    BY <1>1, <2>1
  <2>4. /\ h[i + 1] \in BoundSets
        /\ \A p \in (2 * Inf)..(2 * Sup) : Member(p, h[i + 1]) <=> Member(p, h[i]) /\ Allowed(rels[i + 1], p)
    BY <2>1, <2>2, <2>3, Restricts
  <2>5. 1..(i + 1) = (1..i) \union {i + 1}
    BY <2>1
  <2>. QED  BY <2>1, <2>4, <2>5
<1> HIDE DEF S
<1>10. S = Nat
  <2>1. S \in SUBSET Nat
    BY DEF S
  <2>. QED  BY <1>8, <1>9, <2>1, SetInduction
<1>11. Exact(n)
  <2>1. n \in S /\ n <= n
    BY <1>1, <1>10
  <2>. QED  BY <2>1, Zenon DEF S
<1>. QED  BY <1>1, <1>6, <1>11

-----------------------------------------------------------------------------
(* Ranges                                                                  *)

Ranges == [min : Int, max : Int]

Within(x, r) == r.min <= x /\ x <= r.max

(* The bounds that a tuple moves: range before, r after it. *)
BoundsMoved(fun, range, v, fact, remove, r) ==
  /\ r \in Ranges
  /\ fun = "MIN" => /\ r.min = IF v <= range.min THEN v ELSE range.min
                    /\ r.max = IF fact /\ v <= range.max THEN v ELSE range.max
  /\ fun = "MAX" => /\ r.max = IF v >= range.max THEN v ELSE range.max
                    /\ r.min = IF fact /\ v >= range.min THEN v ELSE range.min
  /\ fun \notin {"MIN", "MAX"} =>
       /\ fact /\ ~remove => r.min = range.min + v /\ r.max = range.max + v
       /\ fact /\ remove => IF v < 0 THEN r.min = range.min /\ r.max = range.max + v
                            ELSE r.min = range.min + v /\ r.max = range.max
       /\ ~fact => IF v < 0 THEN r.min = range.min + v /\ r.max = range.max
                   ELSE r.min = range.min /\ r.max = range.max + v

(* What AggregateAtomRange::accumulate does to the two bounds.             *)
LEMMA RangeFields ==
  ASSUME NEW fun \in Funs, NEW range \in Ranges, NEW v \in Int, NEW fact \in BOOLEAN, NEW remove \in BOOLEAN
  PROVE  BoundsMoved(fun, range, v, fact, remove, AccumulateRange(fun, range, v, fact, remove))
<1> DEFINE r == AccumulateRange(fun, range, v, fact, remove)
<1> HIDE DEF r
<1> SUFFICES BoundsMoved(fun, range, v, fact, remove, r)
  BY DEF r
<1>1. PICK lo, hi \in Int : range = [min |-> lo, max |-> hi]
  BY DEF Ranges
<1> DEFINE Changed(a, b) == [min |-> a, max |-> b]
<1>2. /\ range.min = lo /\ range.max = hi
      /\ MinOf({lo, v}) = (IF v <= lo THEN v ELSE lo)
      /\ MinOf({hi, v}) = (IF v <= hi THEN v ELSE hi)
      /\ MaxOf({lo, v}) = (IF v >= lo THEN v ELSE lo)
      /\ MaxOf({hi, v}) = (IF v >= hi THEN v ELSE hi)
  BY <1>1, MinMaxOfTwo
<1>3. \A a, b \in Int : Changed(a, b) \in Ranges /\ Changed(a, b).min = a /\ Changed(a, b).max = b
  BY DEF Ranges
<1>4. CASE fun = "MIN"
  <2> DEFINE a == MinOf({lo, v})
             b == IF fact THEN MinOf({hi, v}) ELSE hi
  <2>0. r = [range EXCEPT !.min = MinOf({@, v}), !.max = IF fact THEN MinOf({@, v}) ELSE @]
    BY <1>4 DEF AccumulateRange, IsMinMax, r
  <2>1. r = Changed(a, b)
    BY <1>1, <2>0
  <2>2. a \in Int /\ b \in Int
    BY <1>2
  <2>3. r \in Ranges /\ r.min = a /\ r.max = b
    BY <1>3, <2>1, <2>2
  <2> HIDE DEF a, b
  <2>4. /\ a = IF v <= lo THEN v ELSE lo
        /\ b = IF fact /\ v <= hi THEN v ELSE hi
    BY <1>2 DEF a, b
  <2>. QED  BY <1>2, <1>4, <2>3, <2>4 DEF BoundsMoved
<1>5. CASE fun = "MAX"
  <2> DEFINE a == IF fact THEN MaxOf({lo, v}) ELSE lo
             b == MaxOf({hi, v})
  <2>0. r = [range EXCEPT !.max = MaxOf({@, v}), !.min = IF fact THEN MaxOf({@, v}) ELSE @]
    BY <1>5 DEF AccumulateRange, IsMinMax, r
  <2>1. r = Changed(a, b)
    BY <1>1, <2>0
  <2>2. a \in Int /\ b \in Int
    BY <1>2
  <2>3. r \in Ranges /\ r.min = a /\ r.max = b
    BY <1>3, <2>1, <2>2
  <2> HIDE DEF a, b
  <2>4. /\ a = IF fact /\ v >= lo THEN v ELSE lo
        /\ b = IF v >= hi THEN v ELSE hi
    BY <1>2 DEF a, b
  <2>. QED  BY <1>2, <1>5, <2>3, <2>4 DEF BoundsMoved
<1>6. CASE fun \in {"COUNT", "SUM", "SUMP"}
  <2>1. ~IsMinMax(fun) /\ fun # "MIN" /\ fun # "MAX"
    BY <1>6 DEF IsMinMax
  <2>2. lo + v \in Int /\ hi + v \in Int
    OBVIOUS
  <2>3. CASE fact /\ ~remove
    <3>1. r = Changed(lo + v, hi + v)
      BY <1>1, <1>6, <2>1, <2>3 DEF AccumulateRange, r
    <3>2. r \in Ranges /\ r.min = lo + v /\ r.max = hi + v
      BY <1>3, <2>2, <3>1
    <3>. QED  BY <1>2, <2>1, <2>3, <3>2 DEF BoundsMoved
  <2>4. CASE ~(fact /\ ~remove)
    <3> DEFINE up == (v < 0) <=> fact
    <3>1. r = IF up THEN Changed(lo, hi + v) ELSE Changed(lo + v, hi)
      <4>1. fun = "MIN" \/ fun = "MAX" \/ (~IsMinMax(fun) /\ fact /\ ~remove) <=> FALSE
        BY <2>1, <2>4
      <4>2. r = IF up THEN [range EXCEPT !.max = @ + v] ELSE [range EXCEPT !.min = @ + v]
        BY <2>1, <2>4, Zenon DEF AccumulateRange, r
      <4>3. [range EXCEPT !.max = @ + v] = Changed(lo, hi + v) /\ [range EXCEPT !.min = @ + v] = Changed(lo + v, hi)
        BY <1>1
      <4> HIDE DEF up, Changed
      <4>. QED  BY <4>2, <4>3
    <3>2. up <=> ((v < 0) <=> fact)
      OBVIOUS
    <3> HIDE DEF up
    <3>3. /\ up => r \in Ranges /\ r.min = lo /\ r.max = hi + v
          /\ ~up => r \in Ranges /\ r.min = lo + v /\ r.max = hi
      <4> HIDE DEF Changed
      <4>. QED  BY <1>3, <2>2, <3>1
    <3>. QED  BY <1>2, <2>1, <2>4, <3>2, <3>3 DEF BoundsMoved
  <2>. QED  BY <2>3, <2>4
<1>. QED  BY <1>4, <1>5, <1>6 DEF Funs

(* A tuple that is reported: the range covers the values without it, if it *)
(* is not a fact, and those with it.  If it has been reported before, they *)
(* had been covered.                                                       *)
LEMMA RangeGrows ==
  ASSUME NEW fun \in Funs, NEW range \in Ranges, NEW t \in Tuple, ~IsNeutral(fun, t),
         NEW fact \in BOOLEAN, NEW remove \in BOOLEAN, NEW x \in Int, Within(x, range),
         fact /\ remove => Within(Joined(fun, x, t), range),
         NEW r, r = AccumulateRange(fun, range, GetWeight(fun, t), fact, remove)
  PROVE  /\ Within(Joined(fun, x, t), r)
         /\ ~fact => Within(x, r)
<1> DEFINE v == GetWeight(fun, t)
<1>1. v \in Int /\ Weight[t] \in Int
  BY Weights
<1>2. range.min \in Int /\ range.max \in Int
  BY DEF Ranges
<1>7. BoundsMoved(fun, range, v, fact, remove, r)
  <2> HIDE DEF v
  <2>. QED  BY <1>1, RangeFields DEF v
<1>3. CASE fun = "MIN"
  <2>1. v = Weight[t] /\ Joined(fun, x, t) = IF v <= x THEN v ELSE x
    BY <1>3 DEF Joined, GetWeight
  <2>2. /\ r.min = IF v <= range.min THEN v ELSE range.min
        /\ r.max = IF fact /\ v <= range.max THEN v ELSE range.max
    BY <1>3, <1>7 DEF BoundsMoved
  <2> HIDE DEF v
  <2>. QED  BY <1>1, <1>2, <2>1, <2>2 DEF Within
<1>4. CASE fun = "MAX"
  <2>1. v = Weight[t] /\ Joined(fun, x, t) = IF v >= x THEN v ELSE x
    BY <1>4 DEF Joined, GetWeight
  <2>2. /\ r.max = IF v >= range.max THEN v ELSE range.max
        /\ r.min = IF fact /\ v >= range.min THEN v ELSE range.min
    BY <1>4, <1>7 DEF BoundsMoved
  <2> HIDE DEF v
  <2>. QED  BY <1>1, <1>2, <2>1, <2>2 DEF Within
<1>5. CASE fun \in {"COUNT", "SUM", "SUMP"}
  <2>1. Joined(fun, x, t) = x + v
    <3>1. fun = "SUMP" => Weight[t] > 0
      BY <1>1 DEF IsNeutral
    <3>. QED  BY <1>5, <3>1 DEF Joined
  <2>2. /\ fact /\ ~remove => r.min = range.min + v /\ r.max = range.max + v
        /\ fact /\ remove => IF v < 0 THEN r.min = range.min /\ r.max = range.max + v
                             ELSE r.min = range.min + v /\ r.max = range.max
        /\ ~fact => IF v < 0 THEN r.min = range.min + v /\ r.max = range.max
                    ELSE r.min = range.min /\ r.max = range.max + v
    BY <1>5, <1>7 DEF BoundsMoved
  <2> HIDE DEF v
  <2>3. fact /\ remove => range.min <= x + v /\ x + v <= range.max
    BY <2>1 DEF Within
  <2>4. range.min <= x /\ x <= range.max
    BY DEF Within
  <2>5. /\ r.min <= x + v /\ x + v <= r.max
        /\ ~fact => r.min <= x /\ x <= r.max
    BY <1>1, <1>2, <2>2, <2>3, <2>4
  <2>. QED  BY <2>1, <2>5 DEF Within
<1>. QED  BY <1>3, <1>4, <1>5 DEF Funs

(* The bounds of a range stay in the limits.  For the functions whose      *)
(* values grow with the tuples, its lower bound does not sink, for #min,   *)
(* its upper bound does not rise.                                          *)
LimitedRange(fun, r) ==
  r \in Ranges /\ (IsMinMax(fun) => r.min \in Inf..Sup /\ r.max \in Inf..Sup)

(* Ranges stay well formed and only move one way for the functions of      *)
(* monotone aggregates.                                                    *)
LEMMA RangeDirected ==
  ASSUME NEW fun \in Funs, NEW range, LimitedRange(fun, range), NEW t \in Tuple, ~IsNeutral(fun, t),
         NEW fact \in BOOLEAN, NEW remove \in BOOLEAN,
         NEW r, r = AccumulateRange(fun, range, GetWeight(fun, t), fact, remove)
  PROVE  /\ LimitedRange(fun, r)
         /\ fun \in {"COUNT", "SUMP", "MAX"} => range.min <= r.min
         /\ fun = "MIN" => r.max <= range.max
<1> DEFINE v == GetWeight(fun, t)
<1>1. v \in Int /\ Weight[t] \in Int /\ Inf < Weight[t] /\ Weight[t] < Sup /\ Inf \in Int /\ Sup \in Int
  BY Weights, Limits
<1>2. range \in Ranges /\ range.min \in Int /\ range.max \in Int
  BY DEF Ranges, LimitedRange
<1>3. BoundsMoved(fun, range, v, fact, remove, r)
  <2> HIDE DEF v
  <2>. QED  BY <1>1, <1>2, RangeFields DEF v
<1>4. IsMinMax(fun) => v = Weight[t] /\ range.min \in Inf..Sup /\ range.max \in Inf..Sup
  BY DEF IsMinMax, LimitedRange, GetWeight
<1>5. fun \in {"COUNT", "SUMP"} => v > 0
  BY <1>1 DEF IsNeutral, GetWeight
<1> HIDE DEF v
<1>6. CASE fun \in {"MIN", "MAX"}
  BY <1>1, <1>2, <1>3, <1>4, <1>6 DEF BoundsMoved, LimitedRange, IsMinMax
<1>7. CASE fun \in {"COUNT", "SUM", "SUMP"}
  <2>1. r \in Ranges /\ ~IsMinMax(fun) /\ fun # "MAX" /\ fun # "MIN"
    BY <1>3, <1>7 DEF BoundsMoved, IsMinMax
  <2>2. fun \in {"COUNT", "SUMP"} => r.min = range.min \/ r.min = range.min + v
    BY <1>1, <1>3, <1>7 DEF BoundsMoved
  <2>. QED  BY <1>1, <1>2, <1>5, <2>1, <2>2 DEF LimitedRange
<1>. QED  BY <1>6, <1>7 DEF Funs

-----------------------------------------------------------------------------
(* Facts and satisfiable aggregates                                        *)

(* The ends of the interval of a range. *)
LowEnd(fun, r) == IF IsMinMax(fun) THEN r.min ELSE Clamp(r.min)
HighEnd(fun, r) == IF IsMinMax(fun) THEN r.max ELSE Clamp(r.max)

(* Clamping keeps the order and the numbers that fit.                      *)
LEMMA Clamped ==
  ASSUME NEW x \in Int
  PROVE  /\ Clamp(x) \in Inf..Sup
         /\ -MaxInt < x /\ x < MaxInt => Clamp(x) = x
         /\ \A y \in Int : x <= y => Clamp(x) <= Clamp(y)
BY Limits DEF Clamp

(* The ends of a range as an interval.                                     *)
LEMMA RangeEnds ==
  ASSUME NEW fun, NEW r, LimitedRange(fun, r)
  PROVE  /\ LowEnd(fun, r) \in Inf..Sup /\ HighEnd(fun, r) \in Inf..Sup
         /\ RangeInterval(fun, r) \in Intervals
         /\ \A p \in Int : In(p, RangeInterval(fun, r)) <=> 2 * LowEnd(fun, r) <= p /\ p <= 2 * HighEnd(fun, r)
<1> DEFINE a == LowEnd(fun, r)
           b == HighEnd(fun, r)
<1>1. a \in Inf..Sup /\ b \in Inf..Sup
  BY Clamped DEF LimitedRange, Ranges, LowEnd, HighEnd
<1>2. RangeInterval(fun, r) = Interval(a, TRUE, b, TRUE)
  BY DEF RangeInterval, LowEnd, HighEnd
<1> HIDE DEF a, b
<1>3. a \in Int /\ b \in Int /\ TRUE \in BOOLEAN
  BY <1>1, Limits
<1>4. /\ Interval(a, TRUE, b, TRUE) \in Intervals
      /\ \A p \in Int : In(p, Interval(a, TRUE, b, TRUE)) <=> 2 * a <= p /\ p <= 2 * b
  <2>1. /\ Interval(a, TRUE, b, TRUE) \in Intervals
        /\ \A p \in Int : In(p, Interval(a, TRUE, b, TRUE)) <=>
             /\ (IF TRUE THEN 2 * a ELSE 2 * a + 1) <= p
             /\ p <= (IF TRUE THEN 2 * b ELSE 2 * b - 1)
    BY <1>3, IntervalTyped, Zenon
  <2>. QED  BY <2>1
<1>. QED  BY <1>1, <1>2, <1>4 DEF a, b

(* The positions of a range, and those that all relations allow.           *)
Positions_(fun, r) == (2 * LowEnd(fun, r))..(2 * HighEnd(fun, r))
AllAllow(rels, p) == \A i \in DOMAIN rels : Allowed(rels[i], p)

(* What the intervals are asked for. *)
LEMMA RangeAgainstBounds ==
  ASSUME NEW fun, NEW r, LimitedRange(fun, r), NEW rels \in Seq(Relations)
  PROVE  /\ ContainsInterval(InitBounds(rels), RangeInterval(fun, r)) <=>
              \A p \in Positions_(fun, r) : AllAllow(rels, p)
         /\ IntersectsInterval(InitBounds(rels), RangeInterval(fun, r)) <=>
              \E p \in Positions_(fun, r) : AllAllow(rels, p)
<1> DEFINE a == LowEnd(fun, r)
           b == HighEnd(fun, r)
           x == RangeInterval(fun, r)
           vec == InitBounds(rels)
<1>1. /\ a \in Int /\ b \in Int /\ Inf <= a /\ a <= Sup /\ Inf <= b /\ b <= Sup /\ Inf \in Int /\ Sup \in Int
      /\ x \in Intervals
      /\ \A p \in Int : In(p, x) <=> 2 * a <= p /\ p <= 2 * b
  <2>1. a \in Inf..Sup /\ b \in Inf..Sup
    BY RangeEnds
  <2>2. /\ x \in Intervals
        /\ \A p \in Int : In(p, x) <=> 2 * a <= p /\ p <= 2 * b
    BY RangeEnds
  <2>. QED  BY <2>1, <2>2, Limits
<1>2. /\ vec \in BoundSets
      /\ \A p \in (2 * Inf)..(2 * Sup) : Member(p, vec) <=> AllAllow(rels, p)
  BY BoundsExact DEF AllAllow
<1>3. /\ ContainsInterval(vec, x) <=> \A p \in Int : In(p, x) => Member(p, vec)
      /\ IntersectsInterval(vec, x) <=> \E p \in Int : In(p, x) /\ Member(p, vec)
  <2> HIDE DEF vec, x
  <2>1. vec \in Seq(Intervals) /\ IsNormal(vec) /\ x \in Intervals
    BY <1>1, <1>2 DEF BoundSets
  <2>2. ContainsInterval(vec, x) <=> \A p \in Int : In(p, x) => Member(p, vec)
    BY <2>1, ContainsIsSubset
  <2>3. IntersectsInterval(vec, x) <=> \E p \in Int : In(p, x) /\ Member(p, vec)
    BY <2>1, IntersectsIsOverlap
  <2>. QED  BY <2>2, <2>3
<1> DEFINE P == Positions_(fun, r)
<1>4. P = (2 * a)..(2 * b)
  BY DEF Positions_
<1> HIDE DEF a, b, x, vec, P
<1>5. \A p : p \in P <=> p \in Int /\ In(p, x)
  BY <1>1, <1>4
<1>6. \A p \in P : p \in Int /\ p \in (2 * Inf)..(2 * Sup)
  BY <1>1, <1>4
<1>7. \A p \in P : Member(p, vec) <=> AllAllow(rels, p)
  BY <1>2, <1>6
<1>8. ContainsInterval(vec, x) <=> \A p \in P : AllAllow(rels, p)
  BY <1>3, <1>5, <1>7, Zenon
<1>9. IntersectsInterval(vec, x) <=> \E p \in P : AllAllow(rels, p)
  BY <1>3, <1>5, <1>7, Zenon
<1>. QED  BY <1>8, <1>9 DEF vec, x, P

HoldsAll(rels, v) == \A i \in DOMAIN rels : Holds(rels[i].rel, v, rels[i].bound)

FitsIn(fun, r) == IsMinMax(fun) \/ (-MaxInt < r.min /\ r.max < MaxInt)

(* The positions of a value are allowed if and only if all relations hold  *)
(* for it.                                                                 *)
LEMMA AllAllowHolds ==
  ASSUME NEW rels \in Seq(Relations), NEW v \in Int
  PROVE  AllAllow(rels, 2 * v) <=> HoldsAll(rels, v)
<1>1. \A i \in DOMAIN rels : rels[i] \in Relations
  OBVIOUS
<1>2. \A i \in DOMAIN rels : Allowed(rels[i], 2 * v) <=> Holds(rels[i].rel, v, rels[i].bound)
  BY <1>1, AllowedHolds
<1>. QED  BY <1>2, Zenon DEF AllAllow, HoldsAll

(* A value of a range that is not clamped is at one of its positions. *)
LEMMA ValuePosition ==
  ASSUME NEW fun, NEW r, LimitedRange(fun, r), FitsIn(fun, r), NEW v \in Int, Within(v, r)
  PROVE  2 * v \in Positions_(fun, r)
<1>1. r.min \in Int /\ r.max \in Int /\ r.min <= v /\ v <= r.max /\ MaxInt \in Int
  BY Limits DEF LimitedRange, Ranges, Within
<1>2. LowEnd(fun, r) = r.min /\ HighEnd(fun, r) = r.max
  <2>1. CASE IsMinMax(fun)
    BY <2>1 DEF LowEnd, HighEnd
  <2>2. CASE ~IsMinMax(fun)
    <3>1. -MaxInt < r.min /\ r.min < MaxInt /\ -MaxInt < r.max /\ r.max < MaxInt
      BY <1>1, <2>2 DEF FitsIn
    <3>2. Clamp(r.min) = r.min /\ Clamp(r.max) = r.max
      BY <1>1, <3>1, Clamped
    <3>. QED  BY <2>2, <3>2 DEF LowEnd, HighEnd
  <2>. QED  BY <2>1, <2>2
<1>. QED  BY <1>1, <1>2 DEF Positions_

(* All values of the range of a fact satisfy its relations. *)
LEMMA FactHolds ==
  ASSUME NEW fun, NEW r, LimitedRange(fun, r), FitsIn(fun, r), NEW v \in Int, Within(v, r),
         NEW rels \in Seq(Relations), ContainsInterval(InitBounds(rels), RangeInterval(fun, r))
  PROVE  HoldsAll(rels, v)
<1>1. 2 * v \in Positions_(fun, r)
  BY ValuePosition
<1>2. AllAllow(rels, 2 * v)
  BY <1>1, RangeAgainstBounds
<1>. QED  BY <1>2, AllAllowHolds

(* An aggregate is satisfiable if a value of its range satisfies them. *)
LEMMA SatisfiableCovers ==
  ASSUME NEW fun, NEW r, LimitedRange(fun, r), FitsIn(fun, r), NEW v \in Int, Within(v, r),
         NEW rels \in Seq(Relations), HoldsAll(rels, v)
  PROVE  IntersectsInterval(InitBounds(rels), RangeInterval(fun, r))
<1>1. 2 * v \in Positions_(fun, r)
  BY ValuePosition
<1>2. AllAllow(rels, 2 * v)
  BY AllAllowHolds
<1>. QED  BY <1>1, <1>2, RangeAgainstBounds

(* A fact stays one when more tuples are reported for a monotone           *)
(* aggregate.                                                              *)
LEMMA FactLasts ==
  ASSUME NEW a \in Programs, MonotoneStatement(a), NEW r, NEW s, LimitedRange(a.fun, r), LimitedRange(a.fun, s),
         r.min <= r.max,
         a.fun \in {"COUNT", "SUMP", "MAX"} => r.min <= s.min,
         a.fun = "MIN" => s.max <= r.max,
         ContainsInterval(InitBounds(a.rels), RangeInterval(a.fun, r))
  PROVE  ContainsInterval(InitBounds(a.rels), RangeInterval(a.fun, s))
<1> DEFINE Fun == a.fun
           rels == a.rels
           lo == LowEnd(Fun, r)
           hi == HighEnd(Fun, r)
           los == LowEnd(Fun, s)
           his == HighEnd(Fun, s)
<1>1. rels \in Seq(Relations)
  BY ProgramsAssumption
<1>2. /\ r.min \in Int /\ r.max \in Int /\ s.min \in Int /\ s.max \in Int
  BY DEF LimitedRange, Ranges
<1>3. lo \in Int /\ hi \in Int /\ los \in Int /\ his \in Int
  <2>1. Inf \in Int /\ Sup \in Int
    BY Limits
  <2>. QED  BY <2>1, RangeEnds
<1>4. lo <= hi
  BY <1>2, Clamped DEF LowEnd, HighEnd
<1>5. /\ Fun \in {"COUNT", "SUMP", "MAX"} => lo <= los
      /\ Fun = "MIN" => his <= hi
  BY <1>2, Clamped DEF LowEnd, HighEnd
<1>6. \A p \in (2 * lo)..(2 * hi) : AllAllow(rels, p)
  BY <1>1, RangeAgainstBounds DEF Positions_
<1>7. \A i \in DOMAIN rels : rels[i].bound \in Int
  <2>1. \A i \in DOMAIN rels : rels[i] \in Relations
    BY <1>1
  <2>. QED  BY <2>1, RelationTyped
<1> DEFINE Up == Fun \in {"COUNT", "SUMP", "MAX"} /\ \A i \in DOMAIN rels : rels[i].rel \in {"GT", "GEQ"}
           Down == Fun = "MIN" /\ \A i \in DOMAIN rels : rels[i].rel \in {"LT", "LEQ"}
<1>8. Up \/ Down
  BY DEF MonotoneStatement
<1>9. ASSUME NEW p \in (2 * los)..(2 * his) PROVE AllAllow(rels, p)
  <2> SUFFICES ASSUME NEW i \in DOMAIN rels PROVE Allowed(rels[i], p)
    BY DEF AllAllow
  <2> HIDE DEF lo, hi, los, his
  <2>0. p \in Int /\ 2 * los <= p /\ p <= 2 * his
    BY <1>3
  <2>1. CASE Up
    <3>1. 2 * lo \in (2 * lo)..(2 * hi) /\ 2 * lo <= p
      BY <1>3, <1>4, <1>5, <2>0, <2>1
    <3>2. Allowed(rels[i], 2 * lo)
      BY <1>6, <3>1 DEF AllAllow
    <3>3. CASE rels[i].rel = "GT"
      BY <1>3, <1>7, <2>0, <3>1, <3>2, <3>3 DEF Allowed
    <3>4. CASE rels[i].rel = "GEQ"
      BY <1>3, <1>7, <2>0, <3>1, <3>2, <3>4 DEF Allowed
    <3>. QED  BY <2>1, <3>3, <3>4
  <2>2. CASE Down
    <3>1. 2 * hi \in (2 * lo)..(2 * hi) /\ p <= 2 * hi
      BY <1>3, <1>4, <1>5, <2>0, <2>2
    <3>2. Allowed(rels[i], 2 * hi)
      BY <1>6, <3>1 DEF AllAllow
    <3>3. CASE rels[i].rel = "LT"
      BY <1>3, <1>7, <2>0, <3>1, <3>2, <3>3 DEF Allowed
    <3>4. CASE rels[i].rel = "LEQ"
      BY <1>3, <1>7, <2>0, <3>1, <3>2, <3>4 DEF Allowed
    <3>. QED  BY <2>2, <3>3, <3>4
  <2>. QED  BY <1>8, <2>1, <2>2
<1>. QED  BY <1>1, <1>9, RangeAgainstBounds DEF Positions_

-----------------------------------------------------------------------------
(* The tuples that have been reported                                      *)

(* The sets of tuples that may be selected. *)
Selectable(rep, facts) == {S \in SUBSET rep : facts \subseteq S}

(* A range covers the values of all of them. *)
Covers(fun, r, rep, facts) == \A S \in Selectable(rep, facts) : Within(ValueOf(fun, S), r)

(* What a report of t adds to the facts. *)
WithFact(facts, t, fact) == IF fact THEN facts \union {t} ELSE facts

(* Without tuples the range is that of the neutral value.                  *)
LEMMA CoversNothing ==
  ASSUME NEW fun \in Funs
  PROVE  Covers(fun, InitRange(fun), {}, {}) /\ LimitedRange(fun, InitRange(fun))
<1>1. \A S \in Selectable({}, {}) : S = {}
  BY DEF Selectable
<1>2. /\ InitRange(fun).min = Neutral(fun) /\ InitRange(fun).max = Neutral(fun)
      /\ InitRange(fun) = [min |-> Neutral(fun), max |-> Neutral(fun)]
  BY DEF InitRange
<1>3. ValueOf(fun, {}) = Neutral(fun) /\ Neutral(fun) \in Int
  BY NoTuples
<1>4. Covers(fun, InitRange(fun), {}, {})
  <2>1. Within(Neutral(fun), InitRange(fun))
    BY <1>2, <1>3 DEF Within
  <2>2. \A S \in Selectable({}, {}) : ValueOf(fun, S) = Neutral(fun)
    BY <1>1, <1>3
  <2>. QED  BY <2>1, <2>2, Zenon DEF Covers
<1>5. IsMinMax(fun) => Neutral(fun) \in Inf..Sup
  <2>1. Inf \in Inf..Sup /\ Sup \in Inf..Sup
    BY Limits
  <2>2. fun = "MIN" => Neutral(fun) = Sup
    BY DEF Neutral
  <2>3. fun = "MAX" => Neutral(fun) = Inf
    BY DEF Neutral
  <2>. QED  BY <2>1, <2>2, <2>3 DEF IsMinMax
<1>6. InitRange(fun) \in Ranges
  BY <1>2, <1>3 DEF Ranges
<1>. QED  BY <1>2, <1>4, <1>5, <1>6 DEF LimitedRange

(* A report keeps the range sound: the tuple is new, or its condition      *)
(* becomes the empty one.                                                  *)
LEMMA CoversGrow ==
  ASSUME NEW fun \in Funs, NEW rep \in SUBSET Tuple, IsFiniteSet(rep), NEW facts \in SUBSET rep,
         NEW range \in Ranges, Covers(fun, range, rep, facts),
         NEW t \in Tuple \ facts, ~IsNeutral(fun, t), NEW fact \in BOOLEAN, NEW remove \in BOOLEAN,
         remove <=> t \in rep /\ fact,
         NEW r, r = AccumulateRange(fun, range, GetWeight(fun, t), fact, remove)
  PROVE  Covers(fun, r, rep \union {t}, WithFact(facts, t, fact))
<1> SUFFICES ASSUME NEW S \in Selectable(rep \union {t}, WithFact(facts, t, fact))
             PROVE  Within(ValueOf(fun, S), r)
  BY DEF Covers
<1>1. /\ S \in SUBSET Tuple /\ IsFiniteSet(S)
      /\ S \ {t} \in SUBSET Tuple /\ IsFiniteSet(S \ {t})
  <2>1. S \subseteq rep \union {t} /\ IsFiniteSet(rep \union {t})
    BY FS_AddElement DEF Selectable
  <2>. QED  BY <2>1, FS_Subset
<1> DEFINE x == ValueOf(fun, S \ {t})
<1>2. S \ {t} \in Selectable(rep, facts)
  BY DEF Selectable, WithFact
<1>3. x \in Int /\ Within(x, range)
  BY <1>1, <1>2, ValueJoins DEF Covers
<1>4. CASE t \in S
  <2>1. ValueOf(fun, S) = Joined(fun, x, t)
    BY <1>1, <1>4, ValueJoins
  <2>2. fact /\ remove => Within(Joined(fun, x, t), range)
    <3> SUFFICES ASSUME fact /\ remove PROVE S \in Selectable(rep, facts)
      BY <2>1 DEF Covers
    <3>. QED  BY DEF Selectable, WithFact
  <2>. QED  BY <1>3, <2>1, <2>2, RangeGrows
<1>5. CASE t \notin S
  <2>1. ~fact /\ S \ {t} = S
    BY <1>5 DEF Selectable, WithFact
  <2>. QED  BY <1>3, <2>1, RangeGrows
<1>. QED  BY <1>4, <1>5

(* Reports that leave a range as it is: of neutral tuples and of facts. *)
LEMMA CoversStill ==
  ASSUME NEW fun \in Funs, NEW rep \in SUBSET Tuple, IsFiniteSet(rep), NEW facts \in SUBSET rep,
         NEW range \in Ranges, Covers(fun, range, rep, facts),
         NEW t \in Tuple, IsNeutral(fun, t) \/ t \in facts, NEW fact \in BOOLEAN
  PROVE  Covers(fun, range, rep \union {t}, WithFact(facts, t, fact))
<1> SUFFICES ASSUME NEW S \in Selectable(rep \union {t}, WithFact(facts, t, fact))
             PROVE  Within(ValueOf(fun, S), range)
  BY DEF Covers
<1>1. CASE t \in rep
  BY <1>1 DEF Covers, Selectable, WithFact
<1>2. CASE t \notin rep
  <2>1. S \ {t} \in Selectable(rep, facts)
    BY <1>2 DEF Selectable, WithFact
  <2>2. S \subseteq rep \union {t} /\ IsFiniteSet(rep \union {t})
    BY FS_AddElement DEF Selectable
  <2>3. S \in SUBSET Tuple /\ IsFiniteSet(S)
    BY <2>2, FS_Subset
  <2>4. IsNeutral(fun, t)
    BY <1>2
  <2>5. ValueOf(fun, S \ {t}) = ValueOf(fun, S)
    <3>1. CASE t \in S
      <4>1. {t} \in SUBSET S /\ \A u \in {t} : IsNeutral(fun, u)
        BY <2>4, <3>1
      <4>. QED  BY <2>3, <4>1, NeutralDropped
    <3>2. CASE t \notin S
      <4>1. S \ {t} = S
        BY <3>2
      <4>. QED  BY <4>1
    <3>. QED  BY <3>1, <3>2
  <2>. QED  BY <2>1, <2>5 DEF Covers
<1>. QED  BY <1>1, <1>2

(* There is always something to select, so that the range is not empty. *)
LEMMA CoversSomething ==
  ASSUME NEW fun \in Funs, NEW rep \in SUBSET Tuple, IsFiniteSet(rep), NEW facts \in SUBSET rep,
         NEW range \in Ranges, Covers(fun, range, rep, facts)
  PROVE  range.min <= range.max
<1>1. rep \in Selectable(rep, facts)
  BY DEF Selectable
<1>2. ValueOf(fun, rep) \in Int
  BY ValueJoins
<1>. QED  BY <1>1, <1>2 DEF Covers, Within, Ranges

(* The elements of an aggregate and what was reported. *)
ElemSets == UNION {[D -> SUBSET Clauses] : D \in SUBSET Tuple}

ElemsMatch(fun, elems, rep, facts) ==
  /\ elems \in ElemSets
  /\ \A t \in Tuple : t \in DOMAIN elems <=> t \in rep /\ ~IsNeutral(fun, t)
  /\ \A t \in DOMAIN elems : {} \in elems[t] <=> t \in facts

(* What adding an element does. *)
AddedElement(fun, elems, rep, facts, t, c) ==
  /\ IsFact(elems, t) <=> t \in facts
  /\ IsFact(AddElement(elems, t, c), t) <=> t \in facts \/ c = {}
  /\ ElemsMatch(fun, AddElement(elems, t, c), rep \union {t}, WithFact(facts, t, c = {}))

(* Adding an element keeps the elements and the reports in step.           *)
LEMMA ElementAdded ==
  ASSUME NEW fun, NEW elems, NEW rep \in SUBSET Tuple, NEW facts \in SUBSET rep,
         ElemsMatch(fun, elems, rep, facts),
         NEW t \in Tuple, ~IsNeutral(fun, t), NEW c \in Clauses
  PROVE  AddedElement(fun, elems, rep, facts, t, c)
<1>1. PICK D \in SUBSET Tuple : elems \in [D -> SUBSET Clauses]
  BY DEF ElemsMatch, ElemSets
<1>2. DOMAIN elems = D /\ \A u \in D : elems[u] \subseteq Clauses
  BY <1>1
<1>3. \A u \in Tuple : u \in D <=> u \in rep /\ ~IsNeutral(fun, u)
  BY <1>2 DEF ElemsMatch
<1>4. \A u \in D : {} \in elems[u] <=> u \in facts
  BY <1>2 DEF ElemsMatch
<1>5. IsFact(elems, t) <=> t \in facts
  BY <1>2, <1>3, <1>4 DEF IsFact
<1> DEFINE new == AddElement(elems, t, c)
<1>6. CASE t \in facts
  <2>1. new = elems
    BY <1>5, <1>6 DEF AddElement
  <2>2. rep \union {t} = rep /\ WithFact(facts, t, c = {}) = facts
    BY <1>6 DEF WithFact
  <2>. QED  BY <1>5, <1>6, <2>1, <2>2 DEF AddedElement
<1>7. CASE t \notin facts
  <2> DEFINE cond == IF c = {} THEN {{}} ELSE Conditions(elems, t) \union {c}
             E == D \union {t}
  <2>1. new = [u \in E |-> IF u # t THEN elems[u] ELSE cond]
    BY <1>2, <1>5, <1>7 DEF AddElement
  <2>2. cond \in SUBSET Clauses
    <3>1. Conditions(elems, t) \subseteq Clauses
      BY <1>2 DEF Conditions
    <3>. QED  BY <3>1
  <2>3. {} \in cond <=> c = {}
    BY <1>2, <1>4, <1>7 DEF Conditions
  <2> HIDE DEF cond, new
  <2>4. /\ DOMAIN new = E /\ new[t] = cond /\ \A u \in E : u # t => new[u] = elems[u]
        /\ new \in [E -> SUBSET Clauses]
    <3>1. \A u \in E : u # t => elems[u] \in SUBSET Clauses
      BY <1>2
    <3>. QED  BY <2>1, <2>2, <3>1
  <2>5. new \in ElemSets
    BY <2>4 DEF ElemSets
  <2>6. IsFact(new, t) <=> c = {}
    BY <2>3, <2>4 DEF IsFact
  <2>7. \A u \in Tuple : u \in DOMAIN new <=> u \in rep \union {t} /\ ~IsNeutral(fun, u)
    BY <1>3, <2>4
  <2>8. \A u \in DOMAIN new : {} \in new[u] <=> u \in WithFact(facts, t, c = {})
    BY <1>4, <1>7, <2>3, <2>4 DEF WithFact
  <2> HIDE DEF E
  <2>. QED  BY <1>5, <1>7, <2>5, <2>6, <2>7, <2>8 DEF ElemsMatch, AddedElement, new
<1>. QED  BY <1>6, <1>7

(* A neutral tuple is not added. *)
LEMMA ElementNeutral ==
  ASSUME NEW fun, NEW elems, NEW rep \in SUBSET Tuple, NEW facts \in SUBSET rep,
         ElemsMatch(fun, elems, rep, facts),
         NEW t \in Tuple, IsNeutral(fun, t) \/ t \in facts, NEW fact \in BOOLEAN
  PROVE  ElemsMatch(fun, elems, rep \union {t}, WithFact(facts, t, fact))
BY DEF ElemsMatch, WithFact

-----------------------------------------------------------------------------
(* The atom of a body aggregate                                            *)

BodyRec ==
  [exists : BOOLEAN, initialized : BOOLEAN, bounds : Seq(Intervals), range : Ranges,
   elems : ElemSets, fact : BOOLEAN, defined : BOOLEAN, enqueued : BOOLEAN, recursive : BOOLEAN]

(* All values of a range, and any of them, are in the bounds. *)
AllIn(a, r) == ContainsInterval(InitBounds(a.rels), RangeInterval(a.fun, r))
SomeIn(a, r) == IntersectsInterval(InitBounds(a.rels), RangeInterval(a.fun, r))

BodyCore(a, b, rep, facts) ==
  /\ b \in BodyRec
  /\ ElemsMatch(a.fun, b.elems, rep, facts)
  /\ b.initialized =>
       /\ b.exists
       /\ b.bounds = InitBounds(a.rels)
       /\ LimitedRange(a.fun, b.range)
       /\ Covers(a.fun, b.range, rep, facts)
       /\ b.fact <=> AllIn(a, b.range)
  /\ ~b.initialized => rep = {} /\ ~b.fact /\ b.recursive /\ ~b.enqueued /\ ~b.defined

(* The flags that do not depend on elements. *)
SameFlags(b, d) ==
  /\ d.defined <=> b.defined
  /\ d.enqueued <=> b.enqueued
  /\ d.recursive <=> b.recursive

(* What the program says about an aggregate.                               *)
LEMMA ProgramFacts ==
  ASSUME NEW a \in Programs
  PROVE  a.fun \in Funs /\ a.rels \in Seq(Relations) /\ InitBounds(a.rels) \in Seq(Intervals)
<1>1. a.fun \in Funs /\ a.rels \in Seq(Relations)
  BY ProgramsAssumption DEF Funs
<1>2. InitBounds(a.rels) \in BoundSets
  BY <1>1, BoundsExact
<1>. QED  BY <1>1, <1>2 DEF BoundSets

(* Containment is a truth value.                                           *)
LEMMA ContainedTyped ==
  ASSUME NEW vec, NEW x
  PROVE  ContainsInterval(vec, x) \in BOOLEAN
BY DEF ContainsInterval, IsEmpty

(* BodyAggregateAtom::init keeps the invariant.                            *)
LEMMA InitBodyCore ==
  ASSUME agg \in Programs, NEW b, BodyCore(agg, b, {}, {}), ~b.initialized
  PROVE  /\ BodyCore(agg, InitBody(b), {}, {})
         /\ InitBody(b).initialized
         /\ SameFlags(b, InitBody(b))
<1> DEFINE i == [b EXCEPT !.exists = TRUE, !.initialized = TRUE,
                          !.bounds = InitBounds(agg.rels), !.range = InitRange(agg.fun)]
           d == [i EXCEPT !.fact = BodyFact(i)]
<1>1. b \in BodyRec
  BY DEF BodyCore
<1>2. InitBody(b) = d
  BY DEF InitBody
<1>3. /\ InitBounds(agg.rels) \in Seq(Intervals) /\ LimitedRange(agg.fun, InitRange(agg.fun))
      /\ InitRange(agg.fun) \in Ranges
      /\ Covers(agg.fun, InitRange(agg.fun), {}, {})
  BY ProgramFacts, CoversNothing DEF LimitedRange
<1>4. /\ i \in BodyRec
      /\ i.exists = TRUE /\ i.initialized = TRUE /\ i.bounds = InitBounds(agg.rels) /\ i.range = InitRange(agg.fun)
      /\ i.elems = b.elems /\ i.defined = b.defined /\ i.enqueued = b.enqueued /\ i.recursive = b.recursive
  BY <1>1, <1>3 DEF BodyRec
<1>5. BodyFact(i) = AllIn(agg, i.range) /\ BodyFact(i) \in BOOLEAN
  BY <1>4, ContainedTyped DEF BodyFact, AllIn
<1> HIDE DEF i
<1>6. /\ d \in BodyRec
      /\ d.exists = TRUE /\ d.initialized = TRUE /\ d.bounds = InitBounds(agg.rels) /\ d.range = InitRange(agg.fun)
      /\ d.elems = b.elems /\ d.defined = b.defined /\ d.enqueued = b.enqueued /\ d.recursive = b.recursive
      /\ d.fact = BodyFact(i)
  BY <1>4, <1>5 DEF BodyRec
<1> HIDE DEF d
<1>7. d.fact <=> AllIn(agg, d.range)
  BY <1>4, <1>5, <1>6
<1>8. ElemsMatch(agg.fun, d.elems, {}, {})
  BY <1>6 DEF BodyCore
<1>9. SameFlags(b, d)
  BY <1>6, Zenon DEF SameFlags
<1>10. BodyCore(agg, d, {}, {})
  BY <1>3, <1>6, <1>7, <1>8, Zenon DEF BodyCore
<1>. QED  BY <1>2, <1>6, <1>9, <1>10

(* An element is accumulated. *)
LEMMA AccumulateBodyCore ==
  ASSUME agg \in Programs, NEW rep \in SUBSET Tuple, IsFiniteSet(rep), NEW facts \in SUBSET rep,
         NEW b, BodyCore(agg, b, rep, facts), b.initialized, NEW t \in Tuple, NEW c \in Clauses
  PROVE  /\ BodyCore(agg, AccumulateBody(b, t, c), rep \union {t}, WithFact(facts, t, c = {}))
         /\ AccumulateBody(b, t, c).initialized
         /\ SameFlags(b, AccumulateBody(b, t, c))
         /\ MonotoneStatement(agg) /\ b.fact => AccumulateBody(b, t, c).fact
<1> DEFINE inserted == t \notin DOMAIN b.elems
           remove == ~inserted /\ c = {} /\ ~IsFact(b.elems, t)
           elems == AddElement(b.elems, t, c)
           fact == IsFact(elems, t)
           range == AccumulateRange(agg.fun, b.range, GetWeight(agg.fun, t), fact, remove)
           next == [b EXCEPT !.elems = elems, !.range = range]
           d == [next EXCEPT !.fact = BodyFact(next)]
<1>1. /\ b \in BodyRec /\ b.initialized /\ b.exists /\ b.bounds = InitBounds(agg.rels)
      /\ ElemsMatch(agg.fun, b.elems, rep, facts)
      /\ LimitedRange(agg.fun, b.range) /\ b.range \in Ranges
      /\ Covers(agg.fun, b.range, rep, facts)
      /\ b.fact <=> AllIn(agg, b.range)
  BY DEF BodyCore, LimitedRange
<1>2. agg.fun \in Funs /\ agg.rels \in Seq(Relations)
  BY ProgramFacts
<1>5. ~IsNeutral(agg.fun, t) => AddedElement(agg.fun, b.elems, rep, facts, t, c)
  BY <1>1, ElementAdded
<1>3. CASE IsNeutral(agg.fun, t) \/ (fact /\ ~inserted /\ ~remove)
  <2>1. AccumulateBody(b, t, c) = b
    BY <1>3 DEF AccumulateBody
  <2>2. IsNeutral(agg.fun, t) \/ t \in facts
    <3>1. ~IsNeutral(agg.fun, t) =>
            /\ IsFact(b.elems, t) <=> t \in facts
            /\ fact <=> t \in facts \/ c = {}
      BY <1>5, Zenon DEF AddedElement
    <3>. QED  BY <1>3, <3>1
  <2>3. (c = {}) \in BOOLEAN
    OBVIOUS
  <2>4. /\ ElemsMatch(agg.fun, b.elems, rep \union {t}, WithFact(facts, t, c = {}))
        /\ Covers(agg.fun, b.range, rep \union {t}, WithFact(facts, t, c = {}))
    BY <1>1, <1>2, <2>2, <2>3, ElementNeutral, CoversStill
  <2>5. BodyCore(agg, b, rep \union {t}, WithFact(facts, t, c = {}))
    BY <1>1, <2>4, Zenon DEF BodyCore
  <2>. QED  BY <1>1, <2>1, <2>5 DEF SameFlags
<1>4. CASE ~(IsNeutral(agg.fun, t) \/ (fact /\ ~inserted /\ ~remove))
  <2>1. AccumulateBody(b, t, c) = d
    BY <1>4 DEF AccumulateBody
  <2>2. /\ IsFact(b.elems, t) <=> t \in facts
        /\ fact <=> t \in facts \/ c = {}
        /\ ElemsMatch(agg.fun, elems, rep \union {t}, WithFact(facts, t, c = {}))
        /\ t \in DOMAIN b.elems <=> t \in rep
    <3>1. /\ IsFact(b.elems, t) <=> t \in facts
          /\ fact <=> t \in facts \/ c = {}
          /\ ElemsMatch(agg.fun, elems, rep \union {t}, WithFact(facts, t, c = {}))
      BY <1>4, <1>5, Zenon DEF AddedElement
    <3>2. t \in DOMAIN b.elems <=> t \in rep
      BY <1>1, <1>4 DEF ElemsMatch
    <3>. QED  BY <3>1, <3>2, Zenon
  <2>3. t \notin facts /\ (fact <=> c = {}) /\ (remove <=> t \in rep /\ c = {})
    BY <1>4, <2>2
  <2>4. fact \in BOOLEAN /\ remove \in BOOLEAN /\ ~IsNeutral(agg.fun, t)
    BY <1>4 DEF IsFact
  <2> HIDE DEF remove, fact, elems
  <2>5. range \in Ranges /\ LimitedRange(agg.fun, range)
        /\ (agg.fun \in {"COUNT", "SUMP", "MAX"} => b.range.min <= range.min)
        /\ (agg.fun = "MIN" => range.max <= b.range.max)
    BY <1>1, <1>2, <2>4, RangeDirected DEF LimitedRange
  <2>6. Covers(agg.fun, range, rep \union {t}, WithFact(facts, t, fact))
    BY <1>1, <1>2, <2>3, <2>4, CoversGrow
  <2>7. WithFact(facts, t, fact) = WithFact(facts, t, c = {})
    BY <2>3 DEF WithFact
  <2> HIDE DEF range
  <2>8. elems \in ElemSets
    BY <2>2 DEF ElemsMatch
  <2>9. /\ next \in BodyRec
        /\ next.exists = b.exists /\ next.initialized = b.initialized /\ next.bounds = b.bounds /\ next.range = range
        /\ next.elems = elems /\ next.defined = b.defined /\ next.enqueued = b.enqueued /\ next.recursive = b.recursive
    BY <1>1, <2>5, <2>8 DEF BodyRec
  <2>10. BodyFact(next) = AllIn(agg, range) /\ BodyFact(next) \in BOOLEAN
    BY <1>1, <2>9, ContainedTyped DEF BodyFact, AllIn
  <2> HIDE DEF next
  <2>11. /\ d \in BodyRec
         /\ d.exists = b.exists /\ d.initialized = b.initialized /\ d.bounds = b.bounds /\ d.range = range
         /\ d.elems = elems /\ d.defined = b.defined /\ d.enqueued = b.enqueued /\ d.recursive = b.recursive
         /\ d.fact = BodyFact(next)
    BY <2>9, <2>10 DEF BodyRec
  <2> HIDE DEF d
  <2>12. d.fact <=> AllIn(agg, d.range)
    BY <2>10, <2>11
  <2>13. BodyCore(agg, d, rep \union {t}, WithFact(facts, t, c = {}))
    BY <1>1, <2>2, <2>5, <2>6, <2>7, <2>11, <2>12, Zenon DEF BodyCore
  <2>14. SameFlags(b, d)
    BY <2>11, Zenon DEF SameFlags
  <2>15. MonotoneStatement(agg) /\ b.fact => d.fact
    <3>1. b.range.min <= b.range.max
      BY <1>1, <1>2, CoversSomething
    <3>2. MonotoneStatement(agg) /\ AllIn(agg, b.range) => AllIn(agg, range)
      BY <1>1, <2>5, <3>1, FactLasts DEF AllIn
    <3>. QED  BY <1>1, <2>11, <2>12, <3>2
  <2>. QED  BY <1>1, <2>1, <2>11, <2>13, <2>14, <2>15
<1>. QED  BY <1>3, <1>4

(* An atom is queued, unless it is defined. *)
LEMMA EnqueueBodyCore ==
  ASSUME NEW rep, NEW facts, NEW b, BodyCore(agg, b, rep, facts), b.initialized
  PROVE  /\ BodyCore(agg, EnqueueBody(b), rep, facts)
         /\ EnqueueBody(b).initialized /\ (EnqueueBody(b).fact <=> b.fact)
         /\ EnqueueBody(b).range = b.range
         /\ EnqueueBody(b).defined <=> b.defined
         /\ EnqueueBody(b).recursive <=> b.recursive
         /\ EnqueueBody(b).enqueued <=> b.enqueued \/ ~b.defined
<1> DEFINE d == EnqueueBody(b)
<1>1. b \in BodyRec
  BY DEF BodyCore
<1>2. (b.enqueued \/ ~b.defined) \in BOOLEAN
  OBVIOUS
<1>3. /\ d \in BodyRec
      /\ d.exists = b.exists /\ d.initialized = b.initialized /\ d.bounds = b.bounds /\ d.range = b.range
      /\ d.elems = b.elems /\ d.defined = b.defined /\ d.fact = b.fact /\ d.recursive = b.recursive
      /\ d.enqueued = (b.enqueued \/ ~b.defined)
  BY <1>1, <1>2 DEF BodyRec, EnqueueBody
<1> HIDE DEF d
<1>4. BodyCore(agg, d, rep, facts)
  BY <1>3, Zenon DEF BodyCore
<1>. QED  BY <1>3, <1>4 DEF d

(* The statement that completes the atom. *)
Completed(b, sat, rec) == [b EXCEPT !.defined = @ \/ sat, !.recursive = rec, !.enqueued = FALSE]

(* Completing an atom keeps the invariant.                                 *)
LEMMA CompletedCore ==
  ASSUME NEW rep, NEW facts, NEW b, BodyCore(agg, b, rep, facts), b.initialized,
         NEW sat \in BOOLEAN, NEW rec \in BOOLEAN
  PROVE  /\ BodyCore(agg, Completed(b, sat, rec), rep, facts)
         /\ Completed(b, sat, rec).initialized /\ (Completed(b, sat, rec).fact <=> b.fact)
         /\ Completed(b, sat, rec).range = b.range
         /\ Completed(b, sat, rec).defined <=> b.defined \/ sat
         /\ Completed(b, sat, rec).recursive <=> rec
         /\ ~Completed(b, sat, rec).enqueued
<1> DEFINE d == Completed(b, sat, rec)
<1>1. b \in BodyRec
  BY DEF BodyCore
<1>2. (b.defined \/ sat) \in BOOLEAN
  OBVIOUS
<1>3. /\ d \in BodyRec
      /\ d.exists = b.exists /\ d.initialized = b.initialized /\ d.bounds = b.bounds /\ d.range = b.range
      /\ d.elems = b.elems /\ d.enqueued = FALSE /\ d.fact = b.fact /\ d.recursive = rec
      /\ d.defined = (b.defined \/ sat)
  BY <1>1, <1>2 DEF BodyRec, Completed
<1> HIDE DEF d
<1>4. BodyCore(agg, d, rep, facts)
  BY <1>3, Zenon DEF BodyCore
<1>. QED  BY <1>3, <1>4 DEF d

(* A negated literal reserves it. *)
LEMMA ReservedCore ==
  ASSUME NEW rep, NEW facts, NEW b, BodyCore(agg, b, rep, facts), NEW x \in BOOLEAN, b.exists => x,
         NEW d, d = [b EXCEPT !.exists = x]
  PROVE  /\ BodyCore(agg, d, rep, facts)
         /\ (d.initialized <=> b.initialized) /\ (d.fact <=> b.fact) /\ d.range = b.range
         /\ d.exists = x
         /\ SameFlags(b, d)
<1>1. b \in BodyRec
  BY DEF BodyCore
<1>3. /\ d \in BodyRec
      /\ d.exists = x /\ d.initialized = b.initialized /\ d.bounds = b.bounds /\ d.range = b.range
      /\ d.elems = b.elems /\ d.enqueued = b.enqueued /\ d.fact = b.fact /\ d.recursive = b.recursive
      /\ d.defined = b.defined
  BY <1>1 DEF BodyRec
<1>4. BodyCore(agg, d, rep, facts)
  BY <1>3, Zenon DEF BodyCore
<1>. QED  BY <1>3, <1>4, Zenon DEF SameFlags

-----------------------------------------------------------------------------
(* The invariant of body aggregates                                        *)

ReportedTuples(R) == {r[1] : r \in R}
ReportedFacts(R) == {t \in ReportedTuples(R) : <<t, {}>> \in R}

Rep == ReportedTuples(reported)
Facts == ReportedFacts(reported)

Types ==
  /\ agg \in Programs
  /\ open \in BOOLEAN /\ emptyDone \in BOOLEAN
  /\ reported \subseteq Tuple \X Clauses /\ IsFiniteSet(reported)
  /\ verdicts \subseteq BOOLEAN
  /\ ~open => emptyDone
  /\ agg.kind = "body" => asg = NoData
  /\ agg.kind = "assignment" => body = NoAtom

(* An atom that is neither queued nor defined cannot hold; one that could  *)
(* hold without elements has been initialized.                             *)
BodyInv ==
  agg.kind = "body" =>
    /\ BodyCore(agg, body, Rep, Facts)
    /\ body.initialized /\ ~body.enqueued /\ ~body.defined => ~SomeIn(agg, body.range)
    /\ emptyDone /\ HoldsAll(agg.rels, Neutral(agg.fun)) => body.initialized
    /\ ~body.recursive => agg.mode # "recursive"

(* A verdict rests on a fact that lasts, or on elements that have all been *)
(* reported.                                                               *)
Lasts == MonotoneStatement(agg) \/ (agg.mode = "stratified" /\ ~open)

VerdictInv ==
  /\ agg.kind = "assignment" => verdicts = {}
  /\ agg.kind = "body" /\ agg.naf # "NOT" =>
       FALSE \notin verdicts /\ (TRUE \in verdicts => body.initialized /\ body.fact /\ Lasts)
  /\ agg.kind = "body" /\ agg.naf = "NOT" =>
       /\ FALSE \in verdicts => body.initialized /\ body.fact /\ Lasts
       /\ TRUE \in verdicts => /\ agg.mode = "stratified" /\ ~open
                               /\ body.initialized => ~SomeIn(agg, body.range)

(* The reported tuples and facts are finite sets of tuples.                *)
LEMMA ReportedTyped ==
  ASSUME NEW R \in SUBSET (Tuple \X Clauses), IsFiniteSet(R)
  PROVE  /\ ReportedTuples(R) \in SUBSET Tuple /\ IsFiniteSet(ReportedTuples(R))
         /\ ReportedFacts(R) \in SUBSET ReportedTuples(R)
<1>1. ReportedTuples(R) \in SUBSET Tuple
  BY DEF ReportedTuples
<1>2. IsFiniteSet(ReportedTuples(R))
  <2> DEFINE f == [r \in R |-> r[1]]
             T == ReportedTuples(R)
  <2>1. f \in Surjection(R, T)
    <3>1. f \in [R -> T] /\ \A t \in T : \E r \in R : f[r] = t
      BY DEF ReportedTuples
    <3>. QED  BY <3>1 DEF Surjection
  <2>. QED  BY <2>1, FS_Surjection
<1>. QED  BY <1>1, <1>2 DEF ReportedFacts

(* What a report adds to them.                                             *)
LEMMA ReportedGrows ==
  ASSUME NEW R \in SUBSET (Tuple \X Clauses), IsFiniteSet(R), NEW t \in Tuple, NEW c \in Clauses
  PROVE  /\ R \union {<<t, c>>} \in SUBSET (Tuple \X Clauses) /\ IsFiniteSet(R \union {<<t, c>>})
         /\ ReportedTuples(R \union {<<t, c>>}) = ReportedTuples(R) \union {t}
         /\ ReportedFacts(R \union {<<t, c>>}) = WithFact(ReportedFacts(R), t, c = {})
<1> DEFINE S == R \union {<<t, c>>}
<1> DEFINE p == <<t, c>>
<1>0. p \in Tuple \X Clauses /\ p[1] = t
  OBVIOUS
<1>1. S \in SUBSET (Tuple \X Clauses) /\ IsFiniteSet(S)
  <2> HIDE DEF p
  <2>1. IsFiniteSet(R \union {p})
    BY FS_AddElement
  <2>. QED  BY <1>0, <2>1 DEF p
<1>2. ReportedTuples(S) = ReportedTuples(R) \union {t}
  <2> HIDE DEF p
  <2>1. ReportedTuples(R \union {p}) = ReportedTuples(R) \union {p[1]}
    BY DEF ReportedTuples
  <2>. QED  BY <1>0, <2>1 DEF p
<1>3. ASSUME NEW u PROVE <<u, {}>> \in S <=> <<u, {}>> \in R \/ (u = t /\ c = {})
  <2>1. <<u, {}>> = <<t, c>> <=> u = t /\ c = {}
    OBVIOUS
  <2>. QED  BY <2>1, Zenon
<1>4. <<t, {}>> \in R => t \in ReportedTuples(R)
  <2>1. <<t, {}>>[1] = t
    OBVIOUS
  <2>. QED  BY <2>1, Zenon DEF ReportedTuples
<1>5. ReportedFacts(S) = IF c = {} THEN ReportedFacts(R) \union {t} ELSE ReportedFacts(R)
  <2> HIDE DEF S
  <2>. QED  BY <1>2, <1>3, <1>4 DEF ReportedFacts
<1>. QED  BY <1>1, <1>2, <1>5 DEF WithFact

(* The types again, for the tuples that were reported.                     *)
LEMMA HistoryTyped ==
  ASSUME Types
  PROVE  /\ Rep \in SUBSET Tuple /\ IsFiniteSet(Rep) /\ Facts \in SUBSET Rep
         /\ agg \in Programs /\ agg.fun \in Funs /\ agg.rels \in Seq(Relations)
         /\ agg.kind \in {"body", "assignment"}
         /\ agg.mode \in {"stratified", "positive", "recursive"}
         /\ agg.mode = "positive" => agg.kind = "body" /\ agg.naf = "POS" /\ MonotoneStatement(agg)
         /\ agg.naf \in {"POS", "NOT", "NOTNOT"}
<1>1. Rep \in SUBSET Tuple /\ IsFiniteSet(Rep) /\ Facts \in SUBSET Rep
  BY ReportedTyped DEF Types, Rep, Facts
<1>2. agg \in Programs /\ agg.fun \in Funs /\ agg.rels \in Seq(Relations)
  BY ProgramFacts DEF Types
<1>3. /\ agg.kind \in {"body", "assignment"}
      /\ agg.mode \in {"stratified", "positive", "recursive"}
      /\ agg.mode = "positive" => agg.kind = "body" /\ agg.naf = "POS" /\ MonotoneStatement(agg)
      /\ agg.naf \in {"POS", "NOT", "NOTNOT"}
  BY <1>2, ProgramsAssumption
<1>. QED  BY <1>1, <1>2, <1>3

(* Nothing is queued at the start.                                         *)
LEMMA NothingStarted == NoData.enqueued = FALSE /\ NoData.exists = FALSE /\ NoAtom.enqueued = FALSE
BY DEF NoData, NoAtom

(* Steps preserve the types.                                               *)
LEMMA NextTypes == Types /\ Next => Types'
<1> SUFFICES ASSUME Types, Next PROVE Types'
  OBVIOUS
<1>0. agg.kind \in {"body", "assignment"}
  BY HistoryTyped
<1>1. ASSUME NEW t \in Tuple, NEW c \in Clauses, Report(t, c) PROVE Types'
  <2>1. /\ reported \union {<<t, c>>} \in SUBSET (Tuple \X Clauses)
        /\ IsFiniteSet(reported \union {<<t, c>>})
    BY ReportedGrows DEF Types
  <2>2. /\ agg.kind = "body" => asg' = asg
        /\ agg.kind # "body" => body' = body
        /\ reported' = reported \union {<<t, c>>}
        /\ UNCHANGED <<agg, open, emptyDone, verdicts>>
    BY <1>1 DEF Report
  <2>. QED  BY <2>1, <2>2 DEF Types, NoAtom, NoData
<1>2. ASSUME ReportEmpty PROVE Types'
  <2>1. /\ agg.kind = "body" => asg' = asg
        /\ agg.kind = "assignment" => body' = body
        /\ emptyDone' = TRUE
        /\ UNCHANGED <<agg, open, verdicts, reported>>
    BY <1>2 DEF ReportEmpty
  <2>. QED  BY <2>1 DEF Types, NoAtom, NoData
<1>3. ASSUME CompleteBody PROVE Types'
  <2>1. /\ agg.kind = "body"
        /\ UNCHANGED <<agg, open, emptyDone, asg, verdicts, reported>>
    BY <1>0, <1>3, NothingStarted DEF CompleteBody, Types
  <2>. QED  BY <2>1 DEF Types, NoAtom, NoData
<1>4. ASSUME CompleteAssignment PROVE Types'
  <2>1. /\ agg.kind = "assignment"
        /\ UNCHANGED <<agg, open, emptyDone, body, verdicts, reported>>
    BY <1>0, <1>4, NothingStarted DEF CompleteAssignment, Types
  <2>. QED  BY <2>1 DEF Types, NoAtom, NoData
<1>5. ASSUME Close PROVE Types'
  BY <1>5 DEF Close, Types, NoAtom, NoData
<1>6. ASSUME ReadBody PROVE Types'
  <2>1. agg.kind = "body" /\ UNCHANGED <<agg, open, emptyDone, asg, reported>>
    BY <1>6 DEF ReadBody
  <2>2. verdicts' \subseteq BOOLEAN
    <3>1. \E V \in SUBSET BOOLEAN : verdicts' = verdicts \union V
      BY <1>6, Zenon DEF ReadBody
    <3>. QED  BY <3>1 DEF Types
  <2>. QED  BY <2>1, <2>2 DEF Types, NoAtom, NoData
<1>7. ASSUME TranslateBody \/ TranslateAssignment PROVE Types'
  <2>1. UNCHANGED <<agg, open, emptyDone, body, asg, verdicts, reported>>
    BY <1>7 DEF TranslateBody, TranslateAssignment
  <2>. QED  BY <2>1 DEF Types, NoAtom, NoData
<1>. QED  BY <1>1, <1>2, <1>3, <1>4, <1>5, <1>6, <1>7 DEF Next

-----------------------------------------------------------------------------
(* Steps of body aggregates                                                *)

(* An atom that reserve() and init have seen.                              *)
LEMMA InitializedBody ==
  ASSUME Types, BodyInv, agg.kind = "body"
  PROVE  /\ BodyCore(agg, InitBody(body), Rep, Facts)
         /\ InitBody(body).initialized
         /\ SameFlags(body, InitBody(body))
         /\ body.initialized => InitBody(body) = body
<1>1. BodyCore(agg, body, Rep, Facts) /\ agg \in Programs /\ Facts \in SUBSET Rep
  BY HistoryTyped DEF BodyInv
<1>2. CASE body.initialized
  <2>1. InitBody(body) = body
    BY <1>2, Zenon DEF InitBody
  <2>. QED  BY <1>1, <1>2, <2>1 DEF SameFlags
<1>3. CASE ~body.initialized
  <2>1. Rep = {} /\ Facts = {}
    BY <1>1, <1>3 DEF BodyCore
  <2>. QED  BY <1>1, <1>3, <2>1, InitBodyCore
<1>. QED  BY <1>2, <1>3

(* A report preserves the invariant of body aggregates.                    *)
LEMMA ReportBody ==
  ASSUME Types, BodyInv, VerdictInv, agg.kind = "body", NEW t \in Tuple, NEW c \in Clauses, Report(t, c)
  PROVE  BodyInv' /\ VerdictInv'
<1> DEFINE i == InitBody(body)
           d == AccumulateBody(i, t, c)
           e == EnqueueBody(d)
           rep == Rep \union {t}
           facts == WithFact(Facts, t, c = {})
<1>1. /\ open /\ body' = e /\ reported' = reported \union {<<t, c>>}
      /\ UNCHANGED <<agg, open, emptyDone, verdicts>>
  BY DEF Report
<1>2. Rep' = rep /\ Facts' = facts
  <2> HIDE DEF e
  <2>1. /\ ReportedTuples(reported \union {<<t, c>>}) = ReportedTuples(reported) \union {t}
        /\ ReportedFacts(reported \union {<<t, c>>}) = WithFact(ReportedFacts(reported), t, c = {})
    BY ReportedGrows DEF Types
  <2>2. reported' = reported \union {<<t, c>>}
    BY <1>1
  <2>3. ReportedTuples(reported') = ReportedTuples(reported) \union {t}
    BY <2>1, <2>2, Zenon
  <2>4. ReportedFacts(reported') = WithFact(ReportedFacts(reported), t, c = {})
    BY <2>1, <2>2, Zenon
  <2>. QED  BY <2>3, <2>4, Zenon DEF Rep, Facts
<1>3. /\ BodyCore(agg, i, Rep, Facts) /\ i.initialized /\ SameFlags(body, i)
      /\ body.initialized => i = body
  BY InitializedBody
<1>4. /\ Rep \in SUBSET Tuple /\ IsFiniteSet(Rep) /\ Facts \in SUBSET Rep /\ agg \in Programs
  BY HistoryTyped
<1> HIDE DEF i
<1>5. /\ BodyCore(agg, d, rep, facts) /\ d.initialized /\ SameFlags(i, d)
      /\ MonotoneStatement(agg) /\ i.fact => d.fact
  BY <1>3, <1>4, AccumulateBodyCore
<1> HIDE DEF d
<1>6. /\ BodyCore(agg, e, rep, facts) /\ e.initialized
      /\ (e.fact <=> d.fact) /\ (e.defined <=> d.defined) /\ (e.recursive <=> d.recursive)
      /\ e.enqueued <=> d.enqueued \/ ~d.defined
  BY <1>5, EnqueueBodyCore
<1> HIDE DEF e
<1>7. ~body'.recursive => agg.mode # "recursive"
  BY <1>1, <1>3, <1>5, <1>6 DEF BodyInv, SameFlags
<1>8. BodyCore(agg, body, Rep, Facts)' /\ body'.initialized /\ (body'.enqueued \/ body'.defined)
  BY <1>1, <1>2, <1>6
<1>9. BodyInv'
  BY <1>1, <1>7, <1>8 DEF BodyInv
<1>10. body.initialized /\ body.fact /\ Lasts => body'.fact /\ Lasts'
  BY <1>1, <1>3, <1>5, <1>6 DEF Lasts
<1>11. VerdictInv'
  BY <1>1, <1>8, <1>10 DEF VerdictInv
<1>. QED  BY <1>9, <1>11

(* So does the statement without elements.                                 *)
LEMMA ReportEmptyBody ==
  ASSUME Types, BodyInv, VerdictInv, agg.kind = "body", ReportEmpty
  PROVE  BodyInv' /\ VerdictInv'
<1> DEFINE i == InitBody(body)
           e == EnqueueBody(i)
           holds == HoldsAll(agg.rels, Neutral(agg.fun))
<1>1. /\ open /\ emptyDone' /\ (holds => body' = e) /\ (~holds => body' = body)
      /\ UNCHANGED <<agg, open, verdicts, reported>>
  BY DEF ReportEmpty, HoldsAll
<1>2. Rep' = Rep /\ Facts' = Facts
  BY <1>1 DEF Rep, Facts
<1>3. /\ BodyCore(agg, i, Rep, Facts) /\ i.initialized /\ SameFlags(body, i)
      /\ body.initialized => i = body
  BY InitializedBody
<1> HIDE DEF i
<1>6. /\ BodyCore(agg, e, Rep, Facts) /\ e.initialized
      /\ (e.fact <=> i.fact) /\ (e.defined <=> i.defined) /\ (e.recursive <=> i.recursive)
      /\ e.enqueued <=> i.enqueued \/ ~i.defined
  BY <1>3, EnqueueBodyCore
<1> HIDE DEF e, holds
<1>7. CASE holds
  <2>1. ~body'.recursive => agg.mode # "recursive"
    BY <1>1, <1>3, <1>6, <1>7 DEF BodyInv, SameFlags
  <2>2. BodyCore(agg, body, Rep, Facts)' /\ body'.initialized /\ (body'.enqueued \/ body'.defined)
    BY <1>1, <1>2, <1>6, <1>7
  <2>3. BodyInv'
    BY <1>1, <2>1, <2>2 DEF BodyInv
  <2>4. body.initialized /\ body.fact /\ Lasts => body'.fact /\ Lasts'
    BY <1>1, <1>3, <1>6, <1>7 DEF Lasts
  <2>5. VerdictInv'
    BY <1>1, <2>2, <2>4 DEF VerdictInv
  <2>. QED  BY <2>3, <2>5
<1>8. CASE ~holds
  <2>1. body' = body
    BY <1>1, <1>8
  <2>2. holds' <=> holds
    BY <1>1 DEF holds
  <2>3. BodyInv'
    BY <1>1, <1>2, <1>8, <2>1, <2>2 DEF BodyInv, holds
  <2>4. VerdictInv'
    BY <1>1, <2>1 DEF VerdictInv, Lasts
  <2>. QED  BY <2>3, <2>4
<1>. QED  BY <1>7, <1>8

(* So does completing the atom.                                            *)
LEMMA CompleteBodySteps ==
  ASSUME Types, BodyInv, VerdictInv, agg.kind = "body", CompleteBody
  PROVE  BodyInv' /\ VerdictInv'
<1> DEFINE sat == BodySatisfiable(body)
           d == Completed(body, sat, Recursive)
<1>1. /\ body.enqueued /\ body' = d
      /\ UNCHANGED <<agg, open, emptyDone, verdicts, reported>>
  BY DEF CompleteBody, Completed
<1>2. Rep' = Rep /\ Facts' = Facts
  BY <1>1 DEF Rep, Facts
<1>3. BodyCore(agg, body, Rep, Facts) /\ body.initialized /\ body.bounds = InitBounds(agg.rels)
  BY <1>1 DEF BodyInv, BodyCore
<1>4. (sat <=> SomeIn(agg, body.range)) /\ sat \in BOOLEAN /\ Recursive \in BOOLEAN
  BY <1>3 DEF BodySatisfiable, SomeIn, Recursive, IntersectsInterval, IsEmpty
<1>5. Recursive <=> agg.mode = "recursive"
  BY DEF Recursive
<1> HIDE DEF sat
<1>6. /\ BodyCore(agg, d, Rep, Facts)
      /\ d.initialized /\ (d.fact <=> body.fact)
      /\ d.range = body.range
      /\ d.defined <=> body.defined \/ sat
      /\ d.recursive <=> Recursive
      /\ ~d.enqueued
  BY <1>3, <1>4, CompletedCore
<1> HIDE DEF d
<1>7. BodyInv'
  <2>1. BodyCore(agg, body, Rep, Facts)'
    BY <1>1, <1>2, <1>6
  <2>2. body'.initialized /\ ~body'.enqueued /\ ~body'.defined => ~SomeIn(agg', body'.range)
    BY <1>1, <1>4, <1>6
  <2>3. ~body'.recursive => agg'.mode # "recursive"
    BY <1>1, <1>5, <1>6
  <2>. QED  BY <1>1, <1>6, <2>1, <2>2, <2>3 DEF BodyInv
<1>8. VerdictInv'
  <2>1. Lasts' <=> Lasts
    BY <1>1, Zenon DEF Lasts
  <2>2. SomeIn(agg', body'.range) <=> SomeIn(agg, body.range)
    BY <1>1, <1>6
  <2>. QED  BY <1>1, <1>3, <1>6, <2>1, <2>2 DEF VerdictInv
<1>. QED  BY <1>7, <1>8

(* Reading the literal. *)
LEMMA ReadBodySteps ==
  ASSUME Types, BodyInv, VerdictInv, ReadBody
  PROVE  BodyInv' /\ VerdictInv'
<1>1. /\ agg.kind = "body"
      /\ agg.mode = "stratified" => ~open
      /\ UNCHANGED <<agg, open, emptyDone, reported>>
  BY DEF ReadBody
<1>2. Rep' = Rep /\ Facts' = Facts
  BY <1>1 DEF Rep, Facts
<1>3. BodyCore(agg, body, Rep, Facts) /\ body \in BodyRec
  BY <1>1 DEF BodyInv, BodyCore
<1>4. \/ body' = body
      \/ \E x \in BOOLEAN : (body.exists => x) /\ body' = [body EXCEPT !.exists = x]
  <2>1. body.exists \in BOOLEAN
    BY <1>3 DEF BodyRec
  <2>2. TRUE \in BOOLEAN /\ (body.exists \/ Recursive) \in BOOLEAN
    OBVIOUS
  <2>3. \/ body' = body
        \/ body' = [body EXCEPT !.exists = TRUE]
        \/ body' = [body EXCEPT !.exists = @ \/ Recursive]
    BY DEF ReadBody
  <2>. QED  BY <2>2, <2>3, Zenon
<1>5. /\ BodyCore(agg, body', Rep, Facts)
      /\ (body'.initialized <=> body.initialized) /\ (body'.fact <=> body.fact) /\ body'.range = body.range
      /\ SameFlags(body, body')
  <2>1. CASE body' = body
    BY <1>3, <2>1 DEF SameFlags
  <2>2. CASE \E x \in BOOLEAN : (body.exists => x) /\ body' = [body EXCEPT !.exists = x]
    BY <1>3, <2>2, ReservedCore
  <2>. QED  BY <1>4, <2>1, <2>2
<1>6. BodyInv'
  BY <1>1, <1>2, <1>5 DEF BodyInv, SameFlags
<1>7. AtomFact(body) => body.initialized /\ body.fact /\ Lasts
  <2> SUFFICES ASSUME AtomFact(body) PROVE body.initialized /\ body.fact /\ Lasts
    OBVIOUS
  <2>1. body.fact /\ (MonotoneStatement(agg) \/ ~body.recursive)
    BY Zenon DEF AtomFact
  <2>2. body.initialized
    BY <1>3, <2>1 DEF BodyCore
  <2>3. agg.mode \in {"stratified", "positive", "recursive"} /\ (agg.mode = "positive" => MonotoneStatement(agg))
    BY HistoryTyped
  <2>4. ~body.recursive => agg.mode # "recursive"
    BY <1>1 DEF BodyInv
  <2>. QED  BY <1>1, <2>1, <2>2, <2>3, <2>4 DEF Lasts
<1>8. body.initialized /\ body.fact /\ Lasts <=> (body.initialized /\ body.fact /\ Lasts)'
  BY <1>1, <1>5 DEF Lasts
<1>9. CASE agg.naf # "NOT"
  <2>1. verdicts' = verdicts \union (IF AtomFact(body) THEN {TRUE} ELSE {})
    BY <1>9 DEF ReadBody
  <2>. QED  BY <1>1, <1>6, <1>7, <1>8, <1>9, <2>1 DEF VerdictInv
<1>10. CASE agg.naf = "NOT"
  <2>1. verdicts' = verdicts \union
             (IF ~body'.exists THEN {TRUE}
              ELSE IF AtomFact(body) THEN {FALSE}
              ELSE IF ~body.recursive /\ ~BodySatisfiable(body) THEN {TRUE}
              ELSE {})
    BY <1>10 DEF ReadBody
  <2>2. FALSE \in verdicts' => FALSE \in verdicts \/ AtomFact(body)
    BY <2>1
  <2>3. TRUE \in verdicts' => TRUE \in verdicts \/ ~body'.exists \/ (~body.recursive /\ ~BodySatisfiable(body))
    BY <2>1
  <2>4. agg.mode \in {"stratified", "recursive"}
    BY <1>10, HistoryTyped
  <2>5. body' = [body EXCEPT !.exists = @ \/ Recursive]
    BY <1>10 DEF ReadBody
  <2>6. ~body'.exists => /\ agg.mode = "stratified" /\ ~open /\ ~body.initialized
    <3>1. body'.exists = (body.exists \/ Recursive)
      BY <1>3, <2>5 DEF BodyRec
    <3>2. body.initialized => body.exists
      BY <1>3 DEF BodyCore
    <3>. QED  BY <1>1, <2>4, <3>1, <3>2 DEF Recursive
  <2>7. ~body.recursive /\ ~BodySatisfiable(body) =>
          /\ agg.mode = "stratified" /\ ~open /\ ~SomeIn(agg, body.range)
    <3>1. ~body.recursive => agg.mode = "stratified" /\ ~open /\ body.initialized
      BY <1>1, <1>3, <2>4 DEF BodyInv, BodyCore
    <3>2. body.initialized => body.bounds = InitBounds(agg.rels)
      BY <1>3 DEF BodyCore
    <3>. QED  BY <3>1, <3>2 DEF BodySatisfiable, SomeIn
  <2>8. TRUE \in verdicts' => /\ agg.mode = "stratified" /\ ~open
                              /\ body.initialized => ~SomeIn(agg, body.range)
    BY <1>1, <1>10, <2>3, <2>6, <2>7 DEF VerdictInv
  <2>9. FALSE \in verdicts' => body.initialized /\ body.fact /\ Lasts
    BY <1>1, <1>7, <1>10, <2>2 DEF VerdictInv
  <2>. QED  BY <1>1, <1>5, <1>6, <1>8, <1>10, <2>8, <2>9 DEF VerdictInv
<1>. QED  BY <1>9, <1>10

(* All steps preserve the invariant of body aggregates.                    *)
LEMMA StepBody ==
  Types /\ BodyInv /\ VerdictInv /\ [Next]_vars => Types' /\ BodyInv' /\ VerdictInv'
<1> SUFFICES ASSUME Types, BodyInv, VerdictInv, [Next]_vars PROVE Types' /\ BodyInv' /\ VerdictInv'
  OBVIOUS
<1>0. agg.kind \in {"body", "assignment"}
  BY HistoryTyped
<1>1. CASE UNCHANGED vars
  <2>1. UNCHANGED <<agg, open, emptyDone, body, asg, verdicts, reported>>
    BY <1>1 DEF vars
  <2>2. Rep' = Rep /\ Facts' = Facts /\ (Lasts' <=> Lasts)
    BY <2>1 DEF Rep, Facts, Lasts
  <2>3. Types'
    BY <2>1 DEF Types, NoAtom, NoData
  <2>4. BodyInv'
    BY <2>1, <2>2 DEF BodyInv
  <2>5. VerdictInv'
    BY <2>1, <2>2 DEF VerdictInv
  <2>. QED  BY <2>3, <2>4, <2>5
<1>2. CASE Next /\ agg.kind = "assignment"
  <2>1. Types' /\ agg' = agg
    BY <1>2, NextTypes DEF Next, Report, ReportEmpty, CompleteBody, CompleteAssignment, Close, ReadBody,
                          TranslateBody, TranslateAssignment
  <2>2. verdicts' = verdicts
    BY <1>2 DEF Next, Report, ReportEmpty, CompleteBody, CompleteAssignment, Close, ReadBody,
                          TranslateBody, TranslateAssignment
  <2>. QED  BY <1>2, <2>1, <2>2 DEF BodyInv, VerdictInv
<1>3. CASE Next /\ agg.kind = "body"
  <2>1. CASE \E t \in Tuple, c \in Clauses : Report(t, c)
    BY <1>3, <2>1, ReportBody, NextTypes
  <2>2. CASE ReportEmpty
    BY <1>3, <2>2, ReportEmptyBody, NextTypes
  <2>3. CASE CompleteBody
    BY <1>3, <2>3, CompleteBodySteps, NextTypes
  <2>4. CASE ReadBody
    BY <1>3, <2>4, ReadBodySteps, NextTypes
  <2>5. CASE CompleteAssignment
    BY <1>3, <2>5, NothingStarted DEF CompleteAssignment, Types
  <2>6. CASE Close \/ TranslateBody \/ TranslateAssignment
    <3>1. /\ UNCHANGED <<agg, emptyDone, body, verdicts, reported>>
          /\ ~open => ~open'
      <4>1. CASE Close
        BY <4>1 DEF Close
      <4>2. CASE TranslateBody \/ TranslateAssignment
        <5>1. UNCHANGED <<agg, open, emptyDone, body, verdicts, reported>>
          BY <4>2 DEF TranslateBody, TranslateAssignment
        <5>. QED  BY <5>1
      <4>. QED  BY <2>6, <4>1, <4>2
    <3>2. Rep' = Rep /\ Facts' = Facts
      BY <3>1 DEF Rep, Facts
    <3>3. Lasts => Lasts'
      <4>1. MonotoneStatement(agg) => MonotoneStatement(agg')
        BY <3>1, Zenon
      <4>. QED  BY <3>1, <4>1 DEF Lasts
    <3>4. BodyInv'
      BY <3>1, <3>2 DEF BodyInv
    <3>5. VerdictInv'
      <4>1. SomeIn(agg', body'.range) <=> SomeIn(agg, body.range)
        BY <3>1
      <4>. QED  BY <3>1, <3>3, <4>1 DEF VerdictInv
    <3>. QED  BY <1>3, <3>4, <3>5, NextTypes
  <2>. QED  BY <1>3, <2>1, <2>2, <2>3, <2>4, <2>5, <2>6 DEF Next
<1>. QED  BY <1>0, <1>1, <1>2, <1>3

(* It holds at the start.                                                  *)
LEMMA InitBodyInv == Init => Types /\ BodyInv /\ VerdictInv
<1> SUFFICES ASSUME Init PROVE Types /\ BodyInv /\ VerdictInv
  OBVIOUS
<1>1. reported = {} /\ IsFiniteSet(reported)
  BY FS_EmptySet DEF Init
<1>2. Types
  BY <1>1 DEF Init, Types
<1>3. Rep = {} /\ Facts = {}
  BY <1>1 DEF Rep, Facts, ReportedTuples, ReportedFacts
<1>4. BodyCore(agg, NoAtom, {}, {})
  <2>1. NoAtom.elems \in ElemSets /\ DOMAIN NoAtom.elems = {}
    <3>1. [t \in {} |-> {}] \in [{} -> SUBSET Clauses] /\ {} \in SUBSET Tuple
      OBVIOUS
    <3>2. NoAtom.elems = [t \in {} |-> {}]
      BY DEF NoAtom
    <3>. QED  BY <3>1, <3>2 DEF ElemSets
  <2>2. NoAtom \in BodyRec
    <3>1. <<>> \in Seq(Intervals) /\ [min |-> 0, max |-> 0] \in Ranges
      BY DEF Ranges
    <3>2. [t \in {} |-> {}] \in ElemSets
      BY <2>1 DEF NoAtom
    <3>. QED  BY <3>1, <3>2 DEF NoAtom, BodyRec
  <2>3. ElemsMatch(agg.fun, NoAtom.elems, {}, {})
    BY <2>1 DEF ElemsMatch
  <2>4. ~NoAtom.initialized /\ ~NoAtom.fact /\ NoAtom.recursive /\ ~NoAtom.enqueued /\ ~NoAtom.defined
    BY DEF NoAtom
  <2>. QED  BY <2>2, <2>3, <2>4, Zenon DEF BodyCore
<1>5. body = NoAtom /\ verdicts = {} /\ emptyDone = FALSE
  BY DEF Init
<1>6. ~NoAtom.initialized /\ NoAtom.recursive
  BY DEF NoAtom
<1>7. BodyInv
  BY <1>3, <1>4, <1>5, <1>6 DEF BodyInv
<1>8. VerdictInv
  BY <1>5 DEF VerdictInv
<1>. QED  BY <1>2, <1>7, <1>8

(* It holds always.                                                        *)
LEMMA BodyInvariant == Spec => [](Types /\ BodyInv /\ VerdictInv)
<1>. QED  BY InitBodyInv, StepBody, PTL DEF Spec

-----------------------------------------------------------------------------
(* What interpretations select                                             *)

(* An interpretation selects all facts and some of the other tuples.       *)
LEMMA SelectedChosen ==
  ASSUME Types, NEW w \in Worlds
  PROVE  Selected(w) \in Selectable(Rep, Facts)
<1>1. Selected(w) \subseteq Rep
  <2> SUFFICES ASSUME NEW t \in Selected(w) PROVE t \in Rep
    OBVIOUS
  <2>1. PICK c \in Clauses : <<t, c>> \in reported
    BY DEF Selected
  <2>2. <<t, c>>[1] = t
    OBVIOUS
  <2>. QED  BY <2>1, <2>2, Zenon DEF Rep, ReportedTuples
<1>2. Facts \subseteq Selected(w)
  <2> SUFFICES ASSUME NEW t \in Facts PROVE t \in Selected(w)
    OBVIOUS
  <2>1. <<t, {}>> \in reported
    BY DEF Facts, ReportedFacts
  <2>2. t \in Tuple /\ {} \in Clauses
    BY <2>1 DEF Types
  <2>3. w \in ClauseWorlds({})
    BY DEF ClauseWorlds
  <2>. QED  BY <2>1, <2>2, <2>3 DEF Selected
<1>. QED  BY <1>1, <1>2 DEF Selectable

(* The value an interpretation gives an aggregate. *)
ValueIn(w) == ValueOf(agg.fun, Selected(w))

(* The value of what an interpretation selects is a number.                *)
LEMMA SelectedValue ==
  ASSUME Types, NEW w \in Worlds
  PROVE  ValueIn(w) \in Int
<1>1. /\ Rep \in SUBSET Tuple /\ IsFiniteSet(Rep) /\ Facts \in SUBSET Rep /\ agg.fun \in Funs
  BY HistoryTyped
<1>2. Selected(w) \subseteq Rep
  BY SelectedChosen DEF Selectable
<1>3. Selected(w) \in SUBSET Tuple /\ IsFiniteSet(Selected(w))
  BY <1>1, <1>2, FS_Subset
<1>. QED  BY <1>1, <1>3, ValueJoins DEF ValueIn

(* It is in the range of the atom.                                         *)
LEMMA BodyCovers ==
  ASSUME Types, BodyInv, agg.kind = "body", body.initialized, NEW w \in Worlds
  PROVE  Within(ValueIn(w), body.range) /\ LimitedRange(agg.fun, body.range)
BY SelectedChosen DEF BodyInv, BodyCore, Covers, ValueIn

(* Without an initialized atom there is nothing to select.                 *)
LEMMA NothingSelected ==
  ASSUME Types, BodyInv, agg.kind = "body", ~body.initialized, NEW w \in Worlds
  PROVE  ValueIn(w) = Neutral(agg.fun)
<1>1. Rep = {}
  BY DEF BodyInv, BodyCore
<1>2. Selected(w) = {}
  BY <1>1, SelectedChosen DEF Selectable
<1>3. agg.fun \in Funs
  BY HistoryTyped
<1>. QED  BY <1>2, <1>3, NoTuples DEF ValueIn

(* The total part of an interpretation is an interpretation.               *)
LEMMA TotalPart == ASSUME NEW w \in Worlds PROVE <<w[2], w[2]>> \in Worlds
BY DEF Worlds

(* When an interpretation satisfies the relations, also in the reduct.     *)
LEMMA SatisfyingWorlds ==
  ASSUME NEW w \in Worlds
  PROVE  w \in Satisfying(agg.rels) <=>
           HoldsAll(agg.rels, ValueIn(w)) /\ HoldsAll(agg.rels, ValueIn(<<w[2], w[2]>>))
BY TotalPart DEF Satisfying, HoldsAll, ValueIn

(* All interpretations satisfy an aggregate whose atom is a fact.          *)
LEMMA AllSatisfy ==
  ASSUME Types, BodyInv, agg.kind = "body", body.initialized, body.fact, FitsIn(agg.fun, body.range)
  PROVE  Satisfying(agg.rels) = Worlds
<1>1. AllIn(agg, body.range) /\ agg.rels \in Seq(Relations)
  BY HistoryTyped DEF BodyInv, BodyCore
<1>2. ASSUME NEW w \in Worlds PROVE HoldsAll(agg.rels, ValueIn(w))
  <2>1. Within(ValueIn(w), body.range) /\ LimitedRange(agg.fun, body.range) /\ ValueIn(w) \in Int
    BY BodyCovers, SelectedValue
  <2>. QED  BY <1>1, <2>1, FactHolds DEF AllIn
<1>3. Satisfying(agg.rels) \subseteq Worlds
  BY DEF Satisfying
<1>. QED  BY <1>2, <1>3, TotalPart, SatisfyingWorlds

(* No interpretation satisfies one whose range misses the bounds.          *)
LEMMA NoneSatisfies ==
  ASSUME Types, BodyInv, agg.kind = "body", FitsIn(agg.fun, body.range),
         emptyDone, body.initialized => ~SomeIn(agg, body.range)
  PROVE  Satisfying(agg.rels) = {}
<1> SUFFICES ASSUME NEW w \in Satisfying(agg.rels) PROVE FALSE
  OBVIOUS
<1>1. w \in Worlds
  BY DEF Satisfying
<1>2. HoldsAll(agg.rels, ValueIn(w)) /\ ValueIn(w) \in Int /\ agg.rels \in Seq(Relations)
  BY <1>1, SatisfyingWorlds, SelectedValue, HistoryTyped
<1>3. CASE body.initialized
  <2>1. Within(ValueIn(w), body.range) /\ LimitedRange(agg.fun, body.range)
    BY <1>1, <1>3, BodyCovers
  <2>. QED  BY <1>2, <1>3, <2>1, SatisfiableCovers DEF SomeIn
<1>4. CASE ~body.initialized
  <2>1. ValueIn(w) = Neutral(agg.fun)
    BY <1>1, <1>4, NothingSelected
  <2>. QED  BY <1>2, <1>4, <2>1 DEF BodyInv
<1>. QED  BY <1>3, <1>4

(* An aggregate that holds in some interpretation has a defined atom when  *)
(* its component is finished: an atom that is neither queued nor defined   *)
(* has a range that misses the bounds, and the range covers the value of   *)
(* every interpretation (BodyAggregateComplete::report).                   *)
THEOREM DefinedWhenPossibleHolds == Spec => []DefinedWhenPossible
<1>1. Types /\ BodyInv => DefinedWhenPossible
  <2> SUFFICES ASSUME Types, BodyInv, agg.kind = "body", ~open, ~body.enqueued, Fits, ~body.defined
               PROVE  Satisfying(agg.rels) = {}
    BY DEF DefinedWhenPossible, Grounded, NothingQueued
  <2>1. FitsIn(agg.fun, body.range)
    BY DEF Fits, FitsIn
  <2>2. emptyDone /\ (body.initialized => ~SomeIn(agg, body.range))
    BY DEF Types, BodyInv
  <2>. QED  BY <2>1, <2>2, NoneSatisfies
<1>. QED  BY <1>1, BodyInvariant, PTL

(* A literal that was left out of a rule as true holds in every            *)
(* interpretation and one that prevented a rule in none, whatever is       *)
(* reported later: a fact of a monotone aggregate lasts, and other         *)
(* verdicts are only given after the last element                          *)
(* (BodyAggregateAtom::fact, BodyAggregateLiteral::toOutput).              *)
THEOREM VerdictsSoundHolds == Spec => []VerdictsSound
<1>1. Types /\ BodyInv /\ VerdictInv => VerdictsSound
  <2> SUFFICES ASSUME Types, BodyInv, VerdictInv, Fits, NEW v \in verdicts
               PROVE  (v = TRUE => Meaning = Worlds) /\ (v = FALSE => Meaning = {})
    BY DEF VerdictsSound
  <2>1. agg.kind = "body" /\ v \in BOOLEAN
    BY HistoryTyped DEF Types, VerdictInv
  <2>2. FitsIn(agg.fun, body.range)
    BY <2>1 DEF Fits, FitsIn
  <2>3. CASE agg.naf # "NOT"
    <3>1. v = TRUE /\ body.initialized /\ body.fact
      BY <2>1, <2>3 DEF VerdictInv
    <3>2. Satisfying(agg.rels) = Worlds
      BY <2>1, <2>2, <3>1, AllSatisfy
    <3>3. Meaning = Worlds
      <4>1. Negate(Worlds) = {} /\ Negate({}) = Worlds
        BY TotalPart DEF Negate
      <4>2. agg.naf \in {"POS", "NOTNOT"}
        BY <2>3, HistoryTyped
      <4>. QED  BY <3>2, <4>1, <4>2 DEF Meaning, Signed
    <3>. QED  BY <3>1, <3>3
  <2>4. CASE agg.naf = "NOT"
    <3>1. CASE v = FALSE
      <4>1. body.initialized /\ body.fact
        BY <2>1, <2>4, <3>1 DEF VerdictInv
      <4>2. Satisfying(agg.rels) = Worlds
        BY <2>1, <2>2, <4>1, AllSatisfy
      <4>3. Negate(Worlds) = {}
        BY TotalPart DEF Negate
      <4>. QED  BY <2>4, <3>1, <4>2, <4>3 DEF Meaning, Signed
    <3>2. CASE v = TRUE
      <4>1. ~open /\ (body.initialized => ~SomeIn(agg, body.range))
        BY <2>1, <2>4, <3>2 DEF VerdictInv
      <4>2. Satisfying(agg.rels) = {}
        BY <2>1, <2>2, <4>1, NoneSatisfies DEF Types
      <4>3. Negate({}) = Worlds
        BY DEF Negate
      <4>. QED  BY <2>4, <3>2, <4>2, <4>3 DEF Meaning, Signed
    <3>. QED  BY <2>1, <3>1, <3>2
  <2>. QED  BY <2>3, <2>4
<1>. QED  BY <1>1, BodyInvariant, PTL

-----------------------------------------------------------------------------
(* The loops over the values of an assignment aggregate                    *)

ValueRecs == [front : Int, rest : Seq(Int)]

ErasedBy(fun, x, v) == IF fun = "MIN" THEN x >= v ELSE x <= v

(* The loop of EraseValues.                                                *)
LEMMA KeptRule ==
  ASSUME NEW fun, NEW rest \in Seq(Int), NEW v \in Int
  PROVE  \E h : /\ EraseValues(fun, rest, v) = h[Len(rest)]
                /\ \A i \in 0..Len(rest) :
                     h[i] = IF i = 0 THEN <<>>
                            ELSE IF ErasedBy(fun, rest[i], v) THEN h[i - 1] ELSE Append(h[i - 1], rest[i])
<1> DEFINE n == Len(rest)
           Erased(x) == IF fun = "MIN" THEN x >= v ELSE x <= v
           Rule(h) == h = [i \in 0..n |->
                             IF i = 0 THEN <<>>
                             ELSE IF Erased(rest[i]) THEN h[i - 1] ELSE Append(h[i - 1], rest[i])]
           step == [i \in 1..n |-> [z \in Seq(Int) |-> IF Erased(rest[i]) THEN z ELSE Append(z, rest[i])]]
<1>1. n \in Nat /\ \A i \in 1..n : rest[i] \in Int
  OBVIOUS
<1>2. step \in [1..n -> [Seq(Int) -> Seq(Int)]]
  <2>1. \A i \in 1..n, z \in Seq(Int) : Append(z, rest[i]) \in Seq(Int)
    BY <1>1
  <2> HIDE DEF Erased
  <2>. QED  BY <2>1
<1>3. PICK g \in [0..n -> Seq(Int)] : LoopOf(n, <<>>, step, g)
  <2> HIDE DEF step, n
  <2>1. n \in Nat /\ <<>> \in Seq(Int)
    BY <1>1
  <2>. QED  BY <1>2, <2>1, LoopFound
<1>4. Rule(g)
  <2>0. g = [i \in 0..n |-> IF i = 0 THEN <<>> ELSE step[i][g[i - 1]]]
    BY <1>3 DEF LoopOf
  <2>1. \A i \in 0..n : i # 0 => i \in 1..n /\ i - 1 \in 0..n
    BY <1>1
  <2> HIDE DEF Erased
  <2>2. \A i \in 0..n : i # 0 =>
          step[i][g[i - 1]] = IF Erased(rest[i]) THEN g[i - 1] ELSE Append(g[i - 1], rest[i])
    BY <1>3, <2>1
  <2> HIDE DEF step, n
  <2>. QED  BY <2>0, <2>2
<1> HIDE DEF step
<1>5. PICK h : Rule(h) /\ EraseValues(fun, rest, v) = h[n]
  <2> DEFINE h == CHOOSE h : Rule(h)
  <2>1. Rule(h)
    BY <1>4, Zenon
  <2>2. EraseValues(fun, rest, v) = h[n]
    BY Zenon DEF EraseValues
  <2> HIDE DEF h
  <2>. QED  BY <2>1, <2>2
<1>6. \A i \in 0..n : h[i] = IF i = 0 THEN <<>>
                             ELSE IF ErasedBy(fun, rest[i], v) THEN h[i - 1] ELSE Append(h[i - 1], rest[i])
  <2> HIDE DEF n
  <2>. QED  BY <1>5, Zenon DEF ErasedBy
<1>. QED  BY <1>5, <1>6

(* Appending adds a value.                                                 *)
LEMMA AppendedSet ==
  ASSUME NEW rest \in Seq(Int), NEW v \in Int
  PROVE  /\ Append(rest, v) \in Seq(Int)
         /\ ToSet(Append(rest, v)) = ToSet(rest) \union {v}
<1> DEFINE new == Append(rest, v)
           n == Len(rest)
<1>1. /\ new \in Seq(Int) /\ Len(new) = n + 1 /\ n \in Nat
      /\ new[n + 1] = v /\ \A i \in 1..n : new[i] = rest[i]
  OBVIOUS
<1>2. DOMAIN new = 1..(n + 1) /\ DOMAIN rest = 1..n /\ 1..(n + 1) = 1..n \union {n + 1}
  BY <1>1
<1> HIDE DEF new, n
<1>. QED  BY <1>1, <1>2 DEF ToSet, new

KeptOf(fun, rest, v, r) ==
  r \in Seq(Int) /\ ToSet(r) = {x \in ToSet(rest) : ~ErasedBy(fun, x, v)}

(* EraseValues keeps exactly the values that are not erased.               *)
LEMMA Kept ==
  ASSUME NEW fun, NEW rest \in Seq(Int), NEW v \in Int
  PROVE  KeptOf(fun, rest, v, EraseValues(fun, rest, v))
<1> DEFINE n == Len(rest)
<1>1. PICK h : /\ EraseValues(fun, rest, v) = h[n]
               /\ \A i \in 0..n :
                     h[i] = IF i = 0 THEN <<>>
                            ELSE IF ErasedBy(fun, rest[i], v) THEN h[i - 1] ELSE Append(h[i - 1], rest[i])
  BY KeptRule
<1>2. n \in Nat /\ \A i \in 1..n : rest[i] \in Int
  OBVIOUS
<1> DEFINE Upto(m) == {x \in {rest[k] : k \in 1..m} : ~ErasedBy(fun, x, v)}
           S == {m \in Nat : m <= n => h[m] \in Seq(Int) /\ ToSet(h[m]) = Upto(m)}
<1>3. 0 \in S
  <2>1. h[0] = <<>> /\ Upto(0) = {}
    BY <1>1, <1>2
  <2>2. <<>> \in Seq(Int) /\ ToSet(<<>>) = {}
    BY DEF ToSet
  <2> HIDE DEF Upto
  <2>. QED  BY <2>1, <2>2
<1>4. ASSUME NEW m \in S PROVE m + 1 \in S
  <2> SUFFICES ASSUME m + 1 <= n PROVE h[m + 1] \in Seq(Int) /\ ToSet(h[m + 1]) = Upto(m + 1)
    OBVIOUS
  <2>1. /\ m \in Nat /\ m + 1 \in 0..n /\ m + 1 # 0 /\ m + 1 - 1 = m /\ m <= n
    BY <1>2
  <2>2. /\ h[m] \in Seq(Int) /\ ToSet(h[m]) = Upto(m) /\ rest[m + 1] \in Int
    BY <1>2, <2>1
  <2>3. h[m + 1] = IF ErasedBy(fun, rest[m + 1], v) THEN h[m] ELSE Append(h[m], rest[m + 1])
    BY <1>1, <2>1
  <2>4. {rest[k] : k \in 1..(m + 1)} = {rest[k] : k \in 1..m} \union {rest[m + 1]}
    BY <1>2, <2>1
  <2>5. CASE ErasedBy(fun, rest[m + 1], v)
    <3>1. Upto(m + 1) = Upto(m)
      BY <2>4, <2>5
    <3>. QED  BY <2>2, <2>3, <2>5, <3>1
  <2>6. CASE ~ErasedBy(fun, rest[m + 1], v)
    <3>1. Upto(m + 1) = Upto(m) \union {rest[m + 1]}
      BY <2>4, <2>6
    <3>2. /\ Append(h[m], rest[m + 1]) \in Seq(Int)
          /\ ToSet(Append(h[m], rest[m + 1])) = ToSet(h[m]) \union {rest[m + 1]}
      BY <2>2, AppendedSet
    <3>. QED  BY <2>2, <2>3, <2>6, <3>1, <3>2
  <2>. QED  BY <2>5, <2>6
<1> HIDE DEF S
<1>5. S = Nat
  <2>1. S \in SUBSET Nat
    BY DEF S
  <2>. QED  BY <1>3, <1>4, <2>1, SetInduction
<1>6. h[n] \in Seq(Int) /\ ToSet(h[n]) = Upto(n)
  <2>1. n \in S /\ n <= n
    BY <1>2, <1>5
  <2>. QED  BY <2>1, Zenon DEF S
<1>7. {rest[k] : k \in 1..n} = ToSet(rest)
  BY DEF ToSet
<1>. QED  BY <1>1, <1>6, <1>7 DEF KeptOf

(* The sums of the first i values. *)
SumsLoop(vals, h) ==
  /\ h[0] = {vals.front}
  /\ \A i \in 0..(Len(vals.rest) - 1) : h[i + 1] = h[i] \union {x + vals.rest[i + 1] : x \in h[i]}

(* The loop of AssignmentAggregateData::values.                            *)
LEMMA SumsRule ==
  ASSUME NEW fun, ~IsMinMax(fun), NEW vals \in ValueRecs
  PROVE  \E h : Values(fun, vals) = h[Len(vals.rest)] /\ SumsLoop(vals, h)
<1> DEFINE rest == vals.rest
           n == Len(rest)
           Rule(h) == h = [i \in 0..n |->
                             IF i = 0 THEN {vals.front}
                             ELSE h[i - 1] \union {v + rest[i] : v \in h[i - 1]}]
           step == [i \in 1..n |-> [z \in SUBSET Int |-> z \union {v + rest[i] : v \in z}]]
<1>1. n \in Nat /\ (\A i \in 1..n : rest[i] \in Int) /\ {vals.front} \in SUBSET Int
  BY DEF ValueRecs
<1>2. step \in [1..n -> [SUBSET Int -> SUBSET Int]]
  <2>1. ASSUME NEW i \in 1..n, NEW z \in SUBSET Int PROVE z \union {v + rest[i] : v \in z} \in SUBSET Int
    <3>1. rest[i] \in Int
      BY <1>1
    <3>2. \A v \in z : v \in Int /\ v + rest[i] \in Int
      BY <3>1
    <3>3. {v + rest[i] : v \in z} \subseteq Int
      BY <3>2, Zenon
    <3>. QED  BY <3>3, Zenon
  <2>. QED  BY <2>1
<1>3. PICK g \in [0..n -> SUBSET Int] : LoopOf(n, {vals.front}, step, g)
  <2> DEFINE base == {vals.front}
  <2>1. n \in Nat /\ base \in SUBSET Int
    BY <1>1
  <2> HIDE DEF step, n, base
  <2>2. \E g \in [0..n -> SUBSET Int] : LoopOf(n, base, step, g)
    BY <1>2, <2>1, LoopFound
  <2>. QED  BY <2>2 DEF base
<1>4. Rule(g)
  <2>0. g = [i \in 0..n |-> IF i = 0 THEN {vals.front} ELSE step[i][g[i - 1]]]
    BY <1>3 DEF LoopOf
  <2>1. \A i \in 0..n : i # 0 => i \in 1..n /\ i - 1 \in 0..n
    BY <1>1
  <2>2. \A i \in 0..n : i # 0 =>
          step[i][g[i - 1]] = g[i - 1] \union {v + rest[i] : v \in g[i - 1]}
    BY <1>3, <2>1
  <2> HIDE DEF step, n, rest
  <2>. QED  BY <2>0, <2>2
<1> HIDE DEF step
<1>5. PICK h : Rule(h) /\ Values(fun, vals) = h[n]
  <2> DEFINE h == CHOOSE h : Rule(h)
  <2>1. Rule(h)
    BY <1>4, Zenon
  <2>2. Values(fun, vals) = h[n]
    BY Zenon DEF Values
  <2> HIDE DEF h
  <2>. QED  BY <2>1, <2>2
<1>6. \A i \in 0..n : h[i] = IF i = 0 THEN {vals.front}
                             ELSE h[i - 1] \union {x + rest[i] : x \in h[i - 1]}
  <2> HIDE DEF n, rest
  <2>. QED  BY <1>5, Zenon
<1>7. h[0] = {vals.front}
  <2>1. 0 \in 0..n
    BY <1>1
  <2> HIDE DEF n, rest
  <2>. QED  BY <1>6, <2>1, Zenon
<1>8. ASSUME NEW i \in 0..(n - 1) PROVE h[i + 1] = h[i] \union {x + rest[i + 1] : x \in h[i]}
  <2> DEFINE k == i + 1
  <2>1. k \in 0..n /\ k # 0 /\ k - 1 = i
    BY <1>1
  <2> HIDE DEF n, rest, k
  <2>2. h[k] = h[k - 1] \union {x + rest[k] : x \in h[k - 1]}
    BY <1>6, <2>1, Zenon
  <2>3. h[k] = h[i] \union {x + rest[k] : x \in h[i]}
    BY <2>1, <2>2, Zenon
  <2>. QED  BY <2>3 DEF k
<1>9. SumsLoop(vals, h)
  BY <1>7, <1>8, Zenon DEF SumsLoop
<1>. QED  BY <1>5, <1>9

(* The loop of AssignmentAggregateData::range.                             *)
LEMMA RangesRule ==
  ASSUME NEW fun, ~IsMinMax(fun), NEW vals \in ValueRecs
  PROVE  \E h : /\ ValuesRange(fun, vals) = h[Len(vals.rest)]
                /\ h[0] = [min |-> vals.front, max |-> vals.front]
                /\ \A i \in 1..Len(vals.rest) :
                     /\ h[i - 1] \in Ranges /\ h[i] \in Ranges
                     /\ vals.rest[i] < 0 =>
                          h[i].min = h[i - 1].min + vals.rest[i] /\ h[i].max = h[i - 1].max
                     /\ ~(vals.rest[i] < 0) =>
                          h[i].min = h[i - 1].min /\ h[i].max = h[i - 1].max + vals.rest[i]
<1> DEFINE rest == vals.rest
           n == Len(rest)
           base == [min |-> vals.front, max |-> vals.front]
           Moved(z, v) == IF v < 0 THEN [z EXCEPT !.min = @ + v] ELSE [z EXCEPT !.max = @ + v]
           Rule(h) == h = [i \in 0..n |->
                             IF i = 0 THEN base
                             ELSE IF rest[i] < 0 THEN [h[i - 1] EXCEPT !.min = @ + rest[i]]
                             ELSE [h[i - 1] EXCEPT !.max = @ + rest[i]]]
           step == [i \in 1..n |-> [z \in Ranges |-> Moved(z, rest[i])]]
<1>1. n \in Nat /\ (\A i \in 1..n : rest[i] \in Int) /\ base \in Ranges
  BY DEF ValueRecs, Ranges
<1>0. ASSUME NEW z \in Ranges, NEW v \in Int
      PROVE  /\ Moved(z, v) \in Ranges
             /\ v < 0 => Moved(z, v).min = z.min + v /\ Moved(z, v).max = z.max
             /\ ~(v < 0) => Moved(z, v).min = z.min /\ Moved(z, v).max = z.max + v
  BY DEF Ranges
<1>2. step \in [1..n -> [Ranges -> Ranges]]
  <2> HIDE DEF Moved
  <2>. QED  BY <1>0, <1>1
<1>3. PICK g \in [0..n -> Ranges] : LoopOf(n, base, step, g)
  <2> HIDE DEF step, n, base
  <2>. QED  BY <1>1, <1>2, LoopFound
<1>4. Rule(g)
  <2>0. g = [i \in 0..n |-> IF i = 0 THEN base ELSE step[i][g[i - 1]]]
    BY <1>3 DEF LoopOf
  <2>1. \A i \in 0..n : i # 0 => i \in 1..n /\ i - 1 \in 0..n
    BY <1>1
  <2>2. \A i \in 0..n : i # 0 => step[i][g[i - 1]] = Moved(g[i - 1], rest[i])
    <3> HIDE DEF Moved
    <3>. QED  BY <1>3, <2>1
  <2> HIDE DEF step, n, rest, base
  <2>. QED  BY <2>0, <2>2
<1> HIDE DEF step
<1>5. PICK h : Rule(h) /\ ValuesRange(fun, vals) = h[n]
  <2> DEFINE h == CHOOSE h : Rule(h)
  <2>1. Rule(h)
    BY <1>4, Zenon
  <2>2. ValuesRange(fun, vals) = h[n]
    BY Zenon DEF ValuesRange
  <2> HIDE DEF h
  <2>. QED  BY <2>1, <2>2
<1>6. \A i \in 0..n : h[i] = IF i = 0 THEN base ELSE Moved(h[i - 1], rest[i])
  <2> HIDE DEF n, rest, base
  <2>. QED  BY <1>5, Zenon
<1>7. \A i \in 1..n : h[i] = Moved(h[i - 1], rest[i])
  <2> HIDE DEF Moved
  <2>. QED  BY <1>1, <1>6
<1> DEFINE S == {m \in Nat : m <= n => h[m] \in Ranges}
<1>8. 0 \in S /\ h[0] = base
  <2> HIDE DEF Moved, base
  <2>. QED  BY <1>1, <1>6
<1>9. ASSUME NEW m \in S PROVE m + 1 \in S
  <2> HIDE DEF Moved
  <2> SUFFICES ASSUME m + 1 <= n PROVE h[m + 1] \in Ranges
    OBVIOUS
  <2>1. m + 1 \in 1..n /\ m + 1 - 1 = m /\ m <= n
    BY <1>1
  <2>2. h[m] \in Ranges /\ rest[m + 1] \in Int /\ h[m + 1] = Moved(h[m], rest[m + 1])
    BY <1>1, <1>7, <2>1
  <2>. QED  BY <1>0, <2>2
<1> HIDE DEF S
<1>10. S = Nat
  <2>1. S \in SUBSET Nat
    BY DEF S
  <2>. QED  BY <1>8, <1>9, <2>1, SetInduction
<1>11. ASSUME NEW i \in 1..n
       PROVE  /\ h[i - 1] \in Ranges /\ h[i] \in Ranges
              /\ rest[i] < 0 => h[i].min = h[i - 1].min + rest[i] /\ h[i].max = h[i - 1].max
              /\ ~(rest[i] < 0) => h[i].min = h[i - 1].min /\ h[i].max = h[i - 1].max + rest[i]
  <2>1. i - 1 \in S /\ i \in S /\ i - 1 <= n /\ i <= n
    BY <1>1, <1>10
  <2>2. h[i - 1] \in Ranges /\ h[i] \in Ranges
    BY <2>1, Zenon DEF S
  <2>3. h[i] = Moved(h[i - 1], rest[i]) /\ rest[i] \in Int
    BY <1>1, <1>7
  <2> HIDE DEF Moved
  <2>4. /\ rest[i] < 0 => /\ Moved(h[i - 1], rest[i]).min = h[i - 1].min + rest[i]
                          /\ Moved(h[i - 1], rest[i]).max = h[i - 1].max
        /\ ~(rest[i] < 0) => /\ Moved(h[i - 1], rest[i]).min = h[i - 1].min
                             /\ Moved(h[i - 1], rest[i]).max = h[i - 1].max + rest[i]
    BY <1>0, <2>2, <2>3, Zenon
  <2>. QED  BY <2>2, <2>3, <2>4, Zenon
<1>12. h[0] = [min |-> vals.front, max |-> vals.front]
  BY <1>8
<1> HIDE DEF base
<1>. QED  BY <1>5, <1>11, <1>12

(* RemoveFirst removes some place of the value.                            *)
LEMMA FirstSelected ==
  ASSUME NEW rest \in Seq(Int), NEW v \in Int, NEW j \in 1..Len(rest), rest[j] = v
  PROVE  \E i \in 1..Len(rest) : rest[i] = v /\ RemoveFirst(rest, v) = RemoveAt(rest, i)
<1> DEFINE I == {i \in 1..Len(rest) : rest[i] = v}
           i == Min(I)
<1>1. j \in I /\ I \subseteq Nat
  OBVIOUS
<1>2. \E m \in I : \A k \in I : m <= k
  <2> HIDE DEF I
  <2>. QED  BY <1>1, Least
<1>3. i \in I
  BY <1>2, Zenon DEF Min
<1>4. RemoveFirst(rest, v) = RemoveAt(rest, SelectInSeq(rest, LAMBDA x : x = v))
  BY Zenon DEF RemoveFirst
<1>5. SelectInSeq(rest, LAMBDA x : x = v) = IF I # {} THEN i ELSE 0
  BY Zenon DEF SelectInSeq
<1>. QED  BY <1>1, <1>3, <1>4, <1>5

(* The places after it move up.                                            *)
LEMMA RemovedAt ==
  ASSUME NEW rest \in Seq(Int), NEW i \in 1..Len(rest), NEW r, r = RemoveAt(rest, i)
  PROVE  /\ r \in Seq(Int) /\ Len(r) = Len(rest) - 1
         /\ \A k \in 1..(Len(rest) - 1) : r[k] = IF k < i THEN rest[k] ELSE rest[k + 1]
<1> DEFINE n == Len(rest)
           a == SubSeq(rest, 1, i - 1)
           b == SubSeq(rest, i + 1, n)
<1>1. n \in Nat /\ i \in 1..n
  OBVIOUS
<1>2. a \in Seq(Int) /\ Len(a) = i - 1 /\ \A k \in 1..(i - 1) : a[k] = rest[k]
  BY <1>1
<1>3. b \in Seq(Int) /\ Len(b) = n - i /\ \A k \in 1..(n - i) : b[k] = rest[k + i]
  BY <1>1
<1>4. r = a \o b
  BY DEF RemoveAt
<1> HIDE DEF a, b, n
<1>5. r \in Seq(Int) /\ Len(r) = n - 1
  <2>1. a \o b \in Seq(Int) /\ Len(a \o b) = Len(a) + Len(b)
    <3>1. a \in Seq(Int) /\ b \in Seq(Int)
      BY <1>2, <1>3
    <3>. QED  BY <3>1
  <2>2. (i - 1) + (n - i) = n - 1
    BY <1>1
  <2>. QED  BY <1>2, <1>3, <1>4, <2>1, <2>2
<1>6. ASSUME NEW k \in 1..(n - 1)
      PROVE  r[k] = IF k < i THEN rest[k] ELSE rest[k + 1]
  <2>1. CASE k < i
    BY <1>1, <1>2, <1>3, <1>4, <2>1
  <2>2. CASE ~(k < i)
    <3>1. r[k] = b[k - (i - 1)] /\ k - (i - 1) \in 1..(n - i)
      <4>1. k - (i - 1) \in 1..(n - i)
        BY <1>1, <2>2
      <4>2. k \in 1..(Len(a) + Len(b)) /\ ~(k <= Len(a)) /\ k - Len(a) = k - (i - 1)
        BY <1>1, <1>2, <1>3, <2>2
      <4>3. a \in Seq(Int) /\ b \in Seq(Int)
        BY <1>2, <1>3
      <4>4. (a \o b)[k] = b[k - Len(a)]
        BY <4>2, <4>3
      <4>. QED  BY <1>4, <4>1, <4>2, <4>4
    <3>2. b[k - (i - 1)] = rest[(k - (i - 1)) + i]
      BY <1>3, <3>1
    <3>3. (k - (i - 1)) + i = k + 1
      BY <1>1
    <3>. QED  BY <2>2, <3>1, <3>2, <3>3
  <2>. QED  BY <2>1, <2>2
<1>. QED  BY <1>5, <1>6 DEF n

-----------------------------------------------------------------------------
(* The values and the tuples they come from                                *)

(* The tuples that may or may not be selected. *)
OpenTuples(fun, rep, facts) == {t \in rep \ facts : ~IsNeutral(fun, t)}

(* f tells where the weights of the tuples in O are. *)
Numbering(fun, rest, O, f) ==
  /\ f \in [O -> 1..Len(rest)]
  /\ \A t \in O : rest[f[t]] = GetWeight(fun, t)
  /\ \A t, u \in O : f[t] = f[u] => t = u
  /\ \A k \in 1..Len(rest) : \E t \in O : f[t] = k

(* A new tuple gets the last place.                                        *)
LEMMA NumberingGrows ==
  ASSUME NEW fun, NEW rest \in Seq(Int), NEW O \in SUBSET Tuple, NEW f, Numbering(fun, rest, O, f),
         NEW t \in Tuple \ O, NEW r, r = Append(rest, GetWeight(fun, t))
  PROVE  \E g : Numbering(fun, r, O \union {t}, g)
<1> DEFINE n == Len(rest)
           P == O \union {t}
           g == [u \in P |-> IF u = t THEN n + 1 ELSE f[u]]
<1>1. n \in Nat /\ Len(r) = n + 1 /\ r[n + 1] = GetWeight(fun, t) /\ \A k \in 1..n : r[k] = rest[k]
  BY Weights
<1>2. f \in [O -> 1..n] /\ (\A u \in O : f[u] \in 1..n /\ rest[f[u]] = GetWeight(fun, u))
      /\ (\A u, w \in O : f[u] = f[w] => u = w)
      /\ (\A k \in 1..n : \E u \in O : f[u] = k)
  BY DEF Numbering
<1>3. DOMAIN g = P /\ g[t] = n + 1 /\ \A u \in O : g[u] = f[u]
  OBVIOUS
<1> HIDE DEF n
<1>4. g \in [P -> 1..(n + 1)]
  BY <1>1, <1>2
<1> HIDE DEF g
<1>5. \A u \in P : r[g[u]] = GetWeight(fun, u)
  BY <1>1, <1>2, <1>3
<1>6. \A u, w \in P : g[u] = g[w] => u = w
  BY <1>1, <1>2, <1>3
<1>7. \A k \in 1..(n + 1) : \E u \in P : g[u] = k
  BY <1>1, <1>2, <1>3
<1> HIDE DEF P
<1>8. Numbering(fun, r, P, g)
  BY <1>1, <1>4, <1>5, <1>6, <1>7 DEF Numbering
<1>. QED  BY <1>8 DEF P

(* When a tuple becomes a fact, a place with its weight is removed; it may *)
(* be that of another tuple with the same weight.                          *)
LEMMA NumberingShrinks ==
  ASSUME NEW fun, NEW rest \in Seq(Int), NEW O \in SUBSET Tuple, NEW f, Numbering(fun, rest, O, f),
         NEW t \in O, NEW r, r = RemoveFirst(rest, GetWeight(fun, t))
  PROVE  r \in Seq(Int) /\ \E g : Numbering(fun, r, O \ {t}, g)
<1> DEFINE n == Len(rest)
           P == O \ {t}
           v == GetWeight(fun, t)
<1>1. n \in Nat /\ v \in Int
  BY Weights
<1>2. f \in [O -> 1..n] /\ (\A u \in O : f[u] \in 1..n /\ rest[f[u]] = GetWeight(fun, u))
      /\ (\A u, w \in O : f[u] = f[w] => u = w)
      /\ (\A k \in 1..n : \E u \in O : f[u] = k)
  BY DEF Numbering
<1>3. PICK i \in 1..n : rest[i] = v /\ r = RemoveAt(rest, i)
  <2>1. f[t] \in 1..n /\ rest[f[t]] = v
    BY <1>2
  <2> HIDE DEF v
  <2>. QED  BY <1>1, <2>1, FirstSelected DEF v
<1>4. /\ r \in Seq(Int) /\ Len(r) = n - 1
      /\ \A k \in 1..(n - 1) : r[k] = IF k < i THEN rest[k] ELSE rest[k + 1]
  BY <1>3, RemovedAt
<1> HIDE DEF n, v
(* The tuple of the removed place takes over the place of t. *)
<1> DEFINE place(u) == IF f[u] = i THEN f[t] ELSE f[u]
<1>5. ASSUME NEW u \in P
      PROVE  place(u) \in 1..n /\ place(u) # i /\ rest[place(u)] = GetWeight(fun, u)
  <2>1. f[u] # f[t]
    BY <1>2
  <2>. QED  BY <1>2, <1>3, <2>1 DEF v
<1>6. \A u, w \in P : place(u) = place(w) => u = w
  BY <1>2
<1>7. ASSUME NEW k \in 1..n, k # i PROVE \E u \in P : place(u) = k
  <2>1. PICK u \in O : f[u] = k
    BY <1>2
  <2>2. PICK w \in O : f[w] = i
    BY <1>2
  <2>3. CASE u # t
    BY <1>7, <2>1, <2>3
  <2>4. CASE u = t
    <3>1. w \in P /\ place(w) = k
      BY <1>7, <2>1, <2>2, <2>4
    <3>. QED  BY <3>1
  <2>. QED  BY <2>3, <2>4
<1> HIDE DEF place
<1> DEFINE g == [u \in P |-> IF place(u) < i THEN place(u) ELSE place(u) - 1]
<1>8. ASSUME NEW u \in P
      PROVE  /\ g[u] \in 1..(n - 1)
             /\ IF place(u) < i THEN g[u] = place(u) ELSE g[u] = place(u) - 1 /\ ~(g[u] < i)
  <2>1. g[u] = IF place(u) < i THEN place(u) ELSE place(u) - 1
    OBVIOUS
  <2> HIDE DEF g
  <2>. QED  BY <1>1, <1>5, <2>1
<1>9. g \in [P -> 1..(n - 1)]
  BY <1>8
<1> HIDE DEF g
<1>10. ASSUME NEW u \in P PROVE r[g[u]] = GetWeight(fun, u)
  <2>1. r[g[u]] = IF g[u] < i THEN rest[g[u]] ELSE rest[g[u] + 1]
    BY <1>4, <1>8
  <2>2. CASE place(u) < i
    BY <1>5, <1>8, <2>1, <2>2
  <2>3. CASE ~(place(u) < i)
    <3>1. g[u] + 1 = place(u)
      BY <1>1, <1>5, <1>8, <2>3
    <3>. QED  BY <1>5, <1>8, <2>1, <2>3, <3>1
  <2>. QED  BY <2>2, <2>3
<1>11. ASSUME NEW u \in P, NEW w \in P, g[u] = g[w] PROVE u = w
  <2>1. place(u) = place(w)
    BY <1>1, <1>5, <1>8, <1>11
  <2>. QED  BY <1>6, <2>1
<1>12. ASSUME NEW k \in 1..(n - 1) PROVE \E u \in P : g[u] = k
  <2> DEFINE m == IF k < i THEN k ELSE k + 1
  <2>1. m \in 1..n /\ m # i /\ (m < i <=> k < i)
    BY <1>1
  <2>2. PICK u \in P : place(u) = m
    BY <1>7, <2>1
  <2>3. g[u] = k
    BY <1>1, <1>8, <2>1, <2>2
  <2>. QED  BY <2>3
<1> HIDE DEF P
<1>13. Numbering(fun, r, P, g)
  BY <1>4, <1>9, <1>10, <1>11, <1>12 DEF Numbering
<1>. QED  BY <1>4, <1>13 DEF P

(* A weight that changes the value of MIN or MAX. *)
Beyond(fun, x, y) == IF fun = "MIN" THEN x < y ELSE x > y

(* The weights that do. *)
OpenWeights(fun, rep, facts, front) == {Weight[t] : t \in {u \in rep \ facts : Beyond(fun, Weight[u], front)}}

ValuesMatch(fun, vals, rep, facts) ==
  /\ vals \in ValueRecs
  /\ vals.front = ValueOf(fun, facts)
  /\ IsMinMax(fun) => ToSet(vals.rest) = OpenWeights(fun, rep, facts, vals.front)
  /\ ~IsMinMax(fun) => \E f : Numbering(fun, vals.rest, OpenTuples(fun, rep, facts), f)

(* Without tuples there is the neutral value only.                         *)
LEMMA NoValues ==
  ASSUME NEW fun \in Funs, NEW vals, vals = [front |-> Neutral(fun), rest |-> <<>>]
  PROVE  ValuesMatch(fun, vals, {}, {})
<1>1. vals.front = Neutral(fun) /\ vals.rest = <<>> /\ vals \in ValueRecs
  BY NoTuples DEF ValueRecs
<1>2. vals.front = ValueOf(fun, {})
  BY <1>1, NoTuples
<1>3. ToSet(vals.rest) = {} /\ OpenWeights(fun, {}, {}, vals.front) = {}
  BY <1>1 DEF ToSet, OpenWeights
<1>4. Numbering(fun, <<>>, OpenTuples(fun, {}, {}), [t \in {} |-> 0])
  <2>1. OpenTuples(fun, {}, {}) = {} /\ Len(<<>>) = 0
    BY DEF OpenTuples
  <2>2. [t \in {} |-> 0] \in [{} -> 1..0] /\ 1..0 = {}
    OBVIOUS
  <2>. QED  BY <2>1, <2>2 DEF Numbering
<1>. QED  BY <1>1, <1>2, <1>3, <1>4, Zenon DEF ValuesMatch

(* What accumulating a value does to MIN and MAX. *)
Extremum(fun, x, y) == IF fun = "MIN" THEN (IF x <= y THEN x ELSE y) ELSE IF x >= y THEN x ELSE y

ExtremumMoved(fun, vals, v, fact, r) ==
  /\ r \in ValueRecs
  /\ fact => /\ r.front = Extremum(fun, vals.front, v)
             /\ ToSet(r.rest) = {x \in ToSet(vals.rest) : Beyond(fun, x, v)}
  /\ ~fact => /\ r.front = vals.front
              /\ Beyond(fun, v, vals.front) => ToSet(r.rest) = ToSet(vals.rest) \union {v}
              /\ ~Beyond(fun, v, vals.front) => ToSet(r.rest) = ToSet(vals.rest)

(* What AccumulateValues does for MIN and MAX.                             *)
LEMMA AccumulatedExtremum ==
  ASSUME NEW fun \in {"MIN", "MAX"}, NEW vals \in ValueRecs, NEW v \in Int,
         NEW fact \in BOOLEAN, NEW remove,
         NEW r, r = AccumulateValues(fun, vals, v, fact, remove)
  PROVE  ExtremumMoved(fun, vals, v, fact, r)
<1>1. vals.front \in Int /\ vals.rest \in Seq(Int) /\ ToSet(vals.rest) \subseteq Int
  BY DEF ValueRecs, ToSet
<1>2. CASE fact
  <2>1. r = [front |-> Extremum(fun, vals.front, v), rest |-> EraseValues(fun, vals.rest, v)]
    <3>1. CASE fun = "MIN"
      BY <1>1, <1>2, <3>1, MinMaxOfTwo DEF AccumulateValues, Extremum
    <3>2. CASE fun = "MAX"
      BY <1>1, <1>2, <3>2, MinMaxOfTwo DEF AccumulateValues, Extremum
    <3>. QED  BY <3>1, <3>2
  <2>2. /\ EraseValues(fun, vals.rest, v) \in Seq(Int)
        /\ ToSet(EraseValues(fun, vals.rest, v)) = {x \in ToSet(vals.rest) : ~ErasedBy(fun, x, v)}
    <3>1. KeptOf(fun, vals.rest, v, EraseValues(fun, vals.rest, v))
      BY <1>1, Kept
    <3>. QED  BY <3>1, Zenon DEF KeptOf
  <2>3. \A x \in ToSet(vals.rest) : ~ErasedBy(fun, x, v) <=> Beyond(fun, x, v)
    BY <1>1 DEF ErasedBy, Beyond
  <2>4. Extremum(fun, vals.front, v) \in Int
    BY <1>1 DEF Extremum
  <2>5. {x \in ToSet(vals.rest) : ~ErasedBy(fun, x, v)} = {x \in ToSet(vals.rest) : Beyond(fun, x, v)}
    BY <2>3, Zenon
  <2>6. /\ r.front = Extremum(fun, vals.front, v) /\ r.rest = EraseValues(fun, vals.rest, v)
        /\ r \in ValueRecs
    BY <2>1, <2>2, <2>4 DEF ValueRecs
  <2>. QED  BY <1>2, <2>2, <2>5, <2>6, Zenon DEF ExtremumMoved
<1>3. CASE ~fact
  <2>1. Beyond(fun, v, vals.front) => r = [vals EXCEPT !.rest = Append(vals.rest, v)]
    BY <1>1, <1>3 DEF AccumulateValues, Beyond
  <2>2. ~Beyond(fun, v, vals.front) => r = vals
    BY <1>1, <1>3 DEF AccumulateValues, Beyond
  <2>3. Append(vals.rest, v) \in Seq(Int) /\ ToSet(Append(vals.rest, v)) = ToSet(vals.rest) \union {v}
    BY <1>1, AppendedSet
  <2>4. CASE Beyond(fun, v, vals.front)
    <3>1. r \in ValueRecs /\ r.front = vals.front /\ r.rest = Append(vals.rest, v)
      BY <2>1, <2>3, <2>4 DEF ValueRecs
    <3>. QED  BY <1>3, <2>3, <2>4, <3>1, Zenon DEF ExtremumMoved
  <2>5. CASE ~Beyond(fun, v, vals.front)
    BY <1>3, <2>2, <2>5, Zenon DEF ExtremumMoved
  <2>. QED  BY <2>4, <2>5
<1>. QED  BY <1>2, <1>3

(* It keeps the values of MIN and MAX in step with the reports.            *)
LEMMA ExtremumGrows ==
  ASSUME NEW fun \in {"MIN", "MAX"}, NEW rep \in SUBSET Tuple, IsFiniteSet(rep), NEW facts \in SUBSET rep,
         NEW vals, ValuesMatch(fun, vals, rep, facts),
         NEW t \in Tuple \ facts, NEW fact \in BOOLEAN, NEW remove,
         NEW r, r = AccumulateValues(fun, vals, Weight[t], fact, remove)
  PROVE  ValuesMatch(fun, r, rep \union {t}, WithFact(facts, t, fact))
<1>1. /\ fun \in Funs /\ IsMinMax(fun) /\ Weight[t] \in Int
      /\ vals \in ValueRecs /\ vals.front = ValueOf(fun, facts) /\ vals.front \in Int
      /\ ToSet(vals.rest) = OpenWeights(fun, rep, facts, vals.front)
  BY Weights DEF Funs, IsMinMax, ValuesMatch, ValueRecs
<1>2. /\ r \in ValueRecs
      /\ fact => /\ r.front = Extremum(fun, vals.front, Weight[t])
                 /\ ToSet(r.rest) = {x \in ToSet(vals.rest) : Beyond(fun, x, Weight[t])}
      /\ ~fact => /\ r.front = vals.front
                  /\ Beyond(fun, Weight[t], vals.front) => ToSet(r.rest) = ToSet(vals.rest) \union {Weight[t]}
                  /\ ~Beyond(fun, Weight[t], vals.front) => ToSet(r.rest) = ToSet(vals.rest)
  <2>1. ExtremumMoved(fun, vals, Weight[t], fact, r)
    BY <1>1, AccumulatedExtremum
  <2>. QED  BY <2>1, Zenon DEF ExtremumMoved
<1>3. \A u \in rep : Weight[u] \in Int
  BY Weights
<1>4. CASE fact
  <2>1. WithFact(facts, t, fact) = facts \union {t}
    BY <1>4 DEF WithFact
  <2>2. r.front = ValueOf(fun, facts \union {t})
    <3>1. /\ facts \union {t} \in SUBSET Tuple /\ IsFiniteSet(facts \union {t})
          /\ (facts \union {t}) \ {t} = facts
      BY FS_Subset, FS_AddElement
    <3>2. t \in facts \union {t}
      OBVIOUS
    <3> DEFINE F == facts \union {t}
    <3> HIDE DEF F
    <3>3. ValueOf(fun, F) = Joined(fun, ValueOf(fun, F \ {t}), t)
      BY <1>1, <3>1, <3>2, ValueJoins DEF F
    <3>4. Joined(fun, vals.front, t) = Extremum(fun, vals.front, Weight[t])
      BY <1>1 DEF Joined, Extremum
    <3>. QED  BY <1>1, <1>2, <1>4, <3>1, <3>3, <3>4 DEF F
  <2>3. \A u \in rep : Beyond(fun, Weight[u], r.front) <=>
           Beyond(fun, Weight[u], vals.front) /\ Beyond(fun, Weight[u], Weight[t])
    <3>1. r.front = Extremum(fun, vals.front, Weight[t])
      BY <1>2, <1>4
    <3>2. ASSUME NEW x \in Int, NEW y \in Int, NEW z \in Int
          PROVE  Beyond(fun, x, Extremum(fun, y, z)) <=> Beyond(fun, x, y) /\ Beyond(fun, x, z)
      BY DEF Beyond, Extremum
    <3> SUFFICES ASSUME NEW u \in rep
                 PROVE  Beyond(fun, Weight[u], r.front) <=>
                          Beyond(fun, Weight[u], vals.front) /\ Beyond(fun, Weight[u], Weight[t])
      OBVIOUS
    <3>3. Beyond(fun, Weight[u], Extremum(fun, vals.front, Weight[t])) <=>
            Beyond(fun, Weight[u], vals.front) /\ Beyond(fun, Weight[u], Weight[t])
      BY <1>1, <1>3, <3>2
    <3>. QED  BY <3>1, <3>3, Zenon
  <2>4. ~Beyond(fun, Weight[t], Weight[t])
    BY <1>1 DEF Beyond
  <2>5. ToSet(r.rest) = OpenWeights(fun, rep \union {t}, facts \union {t}, r.front)
    <3>1. ToSet(r.rest) = {x \in OpenWeights(fun, rep, facts, vals.front) : Beyond(fun, x, Weight[t])}
      BY <1>1, <1>2, <1>4
    <3> HIDE DEF Beyond
    <3>. QED  BY <2>3, <2>4, <3>1 DEF OpenWeights
  <2>. QED  BY <1>1, <1>2, <2>1, <2>2, <2>5, Zenon DEF ValuesMatch
<1>5. CASE ~fact
  <2>1. WithFact(facts, t, fact) = facts
    BY <1>5 DEF WithFact
  <2>2. r.front = vals.front
    BY <1>2, <1>5
  <2>3. ToSet(r.rest) = OpenWeights(fun, rep \union {t}, facts, vals.front)
    <3>1. OpenWeights(fun, rep \union {t}, facts, vals.front) =
            OpenWeights(fun, rep, facts, vals.front)
              \union (IF Beyond(fun, Weight[t], vals.front) THEN {Weight[t]} ELSE {})
      BY DEF OpenWeights
    <3>. QED  BY <1>1, <1>2, <1>5, <3>1
  <2>. QED  BY <1>1, <1>2, <2>1, <2>2, <2>3, Zenon DEF ValuesMatch
<1>. QED  BY <1>4, <1>5

(* The same for sums.                                                      *)
LEMMA SumGrows ==
  ASSUME NEW fun \in Funs, ~IsMinMax(fun), NEW rep \in SUBSET Tuple, IsFiniteSet(rep), NEW facts \in SUBSET rep,
         NEW vals, ValuesMatch(fun, vals, rep, facts),
         NEW t \in Tuple \ facts, ~IsNeutral(fun, t), NEW fact \in BOOLEAN, NEW remove \in BOOLEAN,
         remove <=> t \in rep /\ fact, t \in rep => fact,
         NEW r, r = AccumulateValues(fun, vals, GetWeight(fun, t), fact, remove)
  PROVE  ValuesMatch(fun, r, rep \union {t}, WithFact(facts, t, fact))
<1> DEFINE v == GetWeight(fun, t)
           O == OpenTuples(fun, rep, facts)
<1>1. /\ v \in Int /\ vals \in ValueRecs /\ vals.front = ValueOf(fun, facts)
      /\ vals.front \in Int /\ vals.rest \in Seq(Int) /\ O \in SUBSET Tuple
  BY Weights DEF ValuesMatch, ValueRecs, OpenTuples
<1>2. PICK f : Numbering(fun, vals.rest, O, f)
  BY DEF ValuesMatch
<1>3. fun \notin {"MIN", "MAX"}
  BY DEF IsMinMax
<1>4. CASE fact
  <2>1. r = [front |-> vals.front + v, rest |-> IF remove THEN RemoveFirst(vals.rest, v) ELSE vals.rest]
    BY <1>3, <1>4 DEF AccumulateValues
  <2>2. WithFact(facts, t, fact) = facts \union {t}
    BY <1>4 DEF WithFact
  <2>3. vals.front + v = ValueOf(fun, facts \union {t})
    <3>1. /\ facts \union {t} \in SUBSET Tuple /\ IsFiniteSet(facts \union {t})
          /\ (facts \union {t}) \ {t} = facts
      BY FS_Subset, FS_AddElement
    <3>2. t \in facts \union {t}
      OBVIOUS
    <3> DEFINE F == facts \union {t}
    <3> HIDE DEF F
    <3>3. ValueOf(fun, F) = Joined(fun, ValueOf(fun, F \ {t}), t)
      BY <3>1, <3>2, ValueJoins DEF F
    <3>4. Joined(fun, vals.front, t) = vals.front + v
      <4>1. fun = "SUMP" => Weight[t] > 0
        BY Weights DEF IsNeutral
      <4>. QED  BY <1>3, <4>1 DEF Joined
    <3> HIDE DEF v
    <3>. QED  BY <1>1, <3>1, <3>3, <3>4 DEF F
  <2>4. OpenTuples(fun, rep \union {t}, facts \union {t}) = O \ {t}
    BY DEF OpenTuples
  <2>5. r.rest \in Seq(Int) /\ \E g : Numbering(fun, r.rest, O \ {t}, g)
    <3> HIDE DEF O
    <3>1. CASE remove
      <4>1. t \in O
        BY <3>1 DEF O, OpenTuples
      <4>2. r.rest = RemoveFirst(vals.rest, v)
        BY <2>1, <3>1
      <4>. QED  BY <1>1, <1>2, <4>1, <4>2, NumberingShrinks
    <3>2. CASE ~remove
      <4>1. O \ {t} = O
        BY <1>4, <3>2 DEF O, OpenTuples
      <4>2. r.rest = vals.rest
        BY <2>1, <3>2
      <4>. QED  BY <1>1, <1>2, <4>1, <4>2
    <3>. QED  BY <3>1, <3>2
  <2> HIDE DEF v, O
  <2>6. r \in ValueRecs /\ r.front = vals.front + v
    <3>1. vals.front + v \in Int
      BY <1>1
    <3>2. r.rest = IF remove THEN RemoveFirst(vals.rest, v) ELSE vals.rest
      BY <2>1
    <3>. QED  BY <2>1, <2>5, <3>1, <3>2 DEF ValueRecs
  <2>. QED  BY <2>2, <2>3, <2>4, <2>5, <2>6, Zenon DEF ValuesMatch
<1>5. CASE ~fact
  <2>1. r = [vals EXCEPT !.rest = Append(vals.rest, v)]
    BY <1>3, <1>5 DEF AccumulateValues
  <2>2. WithFact(facts, t, fact) = facts /\ t \notin rep
    BY <1>5 DEF WithFact
  <2>3. OpenTuples(fun, rep \union {t}, facts) = O \union {t} /\ t \notin O
    BY <2>2 DEF OpenTuples
  <2> HIDE DEF v, O
  <2>4. Append(vals.rest, v) \in Seq(Int)
    BY <1>1
  <2>5. r \in ValueRecs /\ r.front = vals.front /\ r.rest = Append(vals.rest, v)
    BY <1>1, <2>1, <2>4 DEF ValueRecs
  <2>6. \E g : Numbering(fun, r.rest, O \union {t}, g)
    BY <1>1, <1>2, <2>3, <2>5, NumberingGrows DEF v
  <2>. QED  BY <1>1, <2>2, <2>3, <2>5, <2>6, Zenon DEF ValuesMatch
<1>. QED  BY <1>4, <1>5

(* The values for the sets that consist of the facts and some of the       *)
(* tuples in P.                                                            *)
ValuesWith(fun, facts, P) == {ValueOf(fun, facts \union ts) : ts \in SUBSET P}

(* The minimum with further tuples is the old one or one of their weights. *)
LEMMA MinOfUnion ==
  ASSUME NEW F \in SUBSET Tuple, NEW E \in SUBSET Tuple,
         NEW f, f = ValueOf("MIN", F), NEW v, v = ValueOf("MIN", F \union E)
  PROVE  v = f \/ \E t \in E : v = Weight[t] /\ v < f
<1> DEFINE W(T) == {Weight[u] : u \in T} \union {Sup}
<1>1. \A T \in SUBSET Tuple : W(T) # {} /\ W(T) \subseteq Inf..Sup
  BY Weights, Limits
<1>2. \A T \in SUBSET Tuple : ValueOf("MIN", T) = MinOf(W(T))
  BY DEF ValueOf
<1>3. ASSUME NEW T \in SUBSET Tuple
      PROVE  /\ ValueOf("MIN", T) \in W(T) /\ ValueOf("MIN", T) \in Int
             /\ \A y \in W(T) : ValueOf("MIN", T) <= y
  <2> HIDE DEF W
  <2>1. MinOf(W(T)) \in W(T) /\ \A y \in W(T) : MinOf(W(T)) <= y
    BY <1>1, MinFound
  <2>2. W(T) \subseteq Int
    BY <1>1, Limits
  <2>. QED  BY <1>2, <2>1, <2>2
<1>4. W(F \union E) = W(F) \union {Weight[u] : u \in E}
  OBVIOUS
<1>5. /\ f \in W(F) /\ f \in Int /\ \A y \in W(F) : f <= y
      /\ v \in W(F \union E) /\ v \in Int /\ \A y \in W(F \union E) : v <= y
  <2>1. F \union E \in SUBSET Tuple
    OBVIOUS
  <2> HIDE DEF W
  <2>. QED  BY <1>3, <2>1
<1> HIDE DEF W
<1>6. v <= f /\ (v \in W(F) => f <= v) /\ (v \in W(F) \/ \E t \in E : v = Weight[t])
  BY <1>4, <1>5
<1>. QED  BY <1>5, <1>6

(* The same for the maximum.                                               *)
LEMMA MaxOfUnion ==
  ASSUME NEW F \in SUBSET Tuple, NEW E \in SUBSET Tuple,
         NEW f, f = ValueOf("MAX", F), NEW v, v = ValueOf("MAX", F \union E)
  PROVE  v = f \/ \E t \in E : v = Weight[t] /\ v > f
<1> DEFINE W(T) == {Weight[u] : u \in T} \union {Inf}
<1>1. \A T \in SUBSET Tuple : W(T) # {} /\ W(T) \subseteq Inf..Sup
  BY Weights, Limits
<1>2. \A T \in SUBSET Tuple : ValueOf("MAX", T) = MaxOf(W(T))
  BY DEF ValueOf
<1>3. ASSUME NEW T \in SUBSET Tuple
      PROVE  /\ ValueOf("MAX", T) \in W(T) /\ ValueOf("MAX", T) \in Int
             /\ \A y \in W(T) : ValueOf("MAX", T) >= y
  <2> HIDE DEF W
  <2>1. MaxOf(W(T)) \in W(T) /\ \A y \in W(T) : MaxOf(W(T)) >= y
    BY <1>1, MaxFound
  <2>2. W(T) \subseteq Int
    BY <1>1, Limits
  <2>. QED  BY <1>2, <2>1, <2>2
<1>4. W(F \union E) = W(F) \union {Weight[u] : u \in E}
  OBVIOUS
<1>5. /\ f \in W(F) /\ f \in Int /\ \A y \in W(F) : f >= y
      /\ v \in W(F \union E) /\ v \in Int /\ \A y \in W(F \union E) : v >= y
  <2>1. F \union E \in SUBSET Tuple
    OBVIOUS
  <2> HIDE DEF W
  <2>. QED  BY <1>3, <2>1
<1> HIDE DEF W
<1>6. v >= f /\ (v \in W(F) => f >= v) /\ (v \in W(F) \/ \E t \in E : v = Weight[t])
  BY <1>4, <1>5
<1>. QED  BY <1>5, <1>6

(* A further tuple. *)
LEMMA ValueWith ==
  ASSUME NEW fun \in Funs, NEW F \in SUBSET Tuple, IsFiniteSet(F), NEW t \in Tuple \ F
  PROVE  /\ ValueOf(fun, F \union {t}) = Joined(fun, ValueOf(fun, F), t)
         /\ ValueOf(fun, F) \in Int /\ ValueOf(fun, F \union {t}) \in Int
<1> DEFINE G == F \union {t}
<1>1. G \in SUBSET Tuple /\ IsFiniteSet(G) /\ t \in G /\ G \ {t} = F
  BY FS_AddElement
<1> HIDE DEF G
<1>2. ValueOf(fun, G) = Joined(fun, ValueOf(fun, G \ {t}), t) /\ ValueOf(fun, G) \in Int
  BY <1>1, ValueJoins
<1>. QED  BY <1>1, <1>2, ValueJoins DEF G

(* The values of MIN and MAX are those of the facts with any further       *)
(* tuples.                                                                 *)
LEMMA ExtremumValues ==
  ASSUME NEW fun \in {"MIN", "MAX"}, NEW rep \in SUBSET Tuple, IsFiniteSet(rep), NEW facts \in SUBSET rep,
         NEW vals, ValuesMatch(fun, vals, rep, facts)
  PROVE  Values(fun, vals) = ValuesWith(fun, facts, OpenTuples(fun, rep, facts))
<1>1. /\ fun \in Funs /\ IsMinMax(fun) /\ IsFiniteSet(facts) /\ facts \in SUBSET Tuple
      /\ vals.front = ValueOf(fun, facts)
      /\ ToSet(vals.rest) = OpenWeights(fun, rep, facts, vals.front)
      /\ vals.front \in Int
  BY FS_Subset DEF Funs, IsMinMax, ValuesMatch, ValueRecs
<1>2. Values(fun, vals) = {vals.front} \union OpenWeights(fun, rep, facts, vals.front)
  BY <1>1 DEF Values
<1>3. OpenTuples(fun, rep, facts) = rep \ facts
  BY DEF OpenTuples, IsNeutral
<1>4. ASSUME NEW ts \in SUBSET (rep \ facts)
      PROVE  ValueOf(fun, facts \union ts) \in {vals.front} \union OpenWeights(fun, rep, facts, vals.front)
  <2> DEFINE v == ValueOf(fun, facts \union ts)
  <2>1. ts \in SUBSET Tuple
    OBVIOUS
  <2>2. v = vals.front \/ \E t \in ts : v = Weight[t] /\ Beyond(fun, v, vals.front)
    <3>1. CASE fun = "MIN"
      BY <1>1, <2>1, <3>1, MinOfUnion DEF Beyond
    <3>2. CASE fun = "MAX"
      <4>1. v = vals.front \/ \E t \in ts : v = Weight[t] /\ v > vals.front
        BY <1>1, <2>1, <3>2, MaxOfUnion
      <4> HIDE DEF v
      <4>2. \A x, y : Beyond(fun, x, y) <=> x > y
        BY <3>2 DEF Beyond
      <4>. QED  BY <4>1, <4>2
    <3>. QED  BY <3>1, <3>2
  <2> HIDE DEF v
  <2>. QED  BY <2>2 DEF OpenWeights, v
<1>5. vals.front \in ValuesWith(fun, facts, rep \ facts)
  <2>1. facts \union {} = facts /\ {} \in SUBSET (rep \ facts)
    OBVIOUS
  <2>. QED  BY <1>1, <2>1 DEF ValuesWith
<1>6. ASSUME NEW t \in rep \ facts, Beyond(fun, Weight[t], vals.front)
      PROVE  Weight[t] \in ValuesWith(fun, facts, rep \ facts)
  <2>1. ValueOf(fun, facts \union {t}) = Joined(fun, vals.front, t)
    BY <1>1, ValueWith
  <2>2. Joined(fun, vals.front, t) = Weight[t]
    BY <1>1, <1>6, Weights DEF Joined, Beyond
  <2>3. {t} \in SUBSET (rep \ facts)
    OBVIOUS
  <2>. QED  BY <2>1, <2>2, <2>3 DEF ValuesWith
<1>7. ValuesWith(fun, facts, rep \ facts) \subseteq {vals.front} \union OpenWeights(fun, rep, facts, vals.front)
  BY <1>4 DEF ValuesWith
<1>8. OpenWeights(fun, rep, facts, vals.front) \subseteq ValuesWith(fun, facts, rep \ facts)
  BY <1>6 DEF OpenWeights
<1>. QED  BY <1>2, <1>3, <1>5, <1>7, <1>8

(* The sums with a further tuple.                                          *)
LEMMA ValuesWithMore ==
  ASSUME NEW fun \in Funs, ~IsMinMax(fun), NEW F \in SUBSET Tuple, NEW P \in SUBSET Tuple,
         IsFiniteSet(F), IsFiniteSet(P), NEW t \in Tuple \ (F \union P), ~IsNeutral(fun, t),
         NEW Q, Q = P \union {t}
  PROVE  /\ ValuesWith(fun, F, P) \subseteq Int
         /\ ValuesWith(fun, F, Q) =
              ValuesWith(fun, F, P) \union {x + GetWeight(fun, t) : x \in ValuesWith(fun, F, P)}
<1> DEFINE w == GetWeight(fun, t)
           V == ValuesWith(fun, F, P)
           U == ValuesWith(fun, F, Q)
<1>1. ASSUME NEW ts \in SUBSET P
      PROVE  /\ ValueOf(fun, F \union ts) \in Int
             /\ ValueOf(fun, F \union (ts \union {t})) = ValueOf(fun, F \union ts) + w
  <2>1. /\ F \union ts \in SUBSET Tuple /\ IsFiniteSet(F \union ts) /\ t \notin F \union ts
        /\ F \union (ts \union {t}) = (F \union ts) \union {t}
    <3>1. IsFiniteSet(ts)
      BY FS_Subset
    <3>2. IsFiniteSet(F \union ts)
      BY <3>1, FS_Union
    <3>. QED  BY <3>2
  <2>2. /\ ValueOf(fun, (F \union ts) \union {t}) = Joined(fun, ValueOf(fun, F \union ts), t)
        /\ ValueOf(fun, F \union ts) \in Int
    BY <2>1, ValueWith
  <2>3. Joined(fun, ValueOf(fun, F \union ts), t) = ValueOf(fun, F \union ts) + w
    <3>1. fun = "SUMP" => Weight[t] > 0
      BY Weights DEF IsNeutral
    <3>2. fun \notin {"MIN", "MAX"}
      BY DEF IsMinMax
    <3>. QED  BY <3>1, <3>2, Zenon DEF Joined
  <2>. QED  BY <2>1, <2>2, <2>3
<1> HIDE DEF w
<1>2. V \subseteq Int
  BY <1>1 DEF ValuesWith
<1>3. ASSUME NEW ts \in SUBSET Q
      PROVE  ValueOf(fun, F \union ts) \in V \union {x + w : x \in V}
  <2>1. CASE t \in ts
    <3> DEFINE r == ts \ {t}
    <3>1. r \in SUBSET P /\ r \union {t} = ts
      BY <2>1
    <3> HIDE DEF r
    <3>2. ValueOf(fun, F \union ts) = ValueOf(fun, F \union r) + w
      BY <1>1, <3>1, Zenon
    <3>3. ValueOf(fun, F \union r) \in V
      BY <3>1 DEF ValuesWith
    <3> HIDE DEF V
    <3>. QED  BY <3>2, <3>3
  <2>2. CASE t \notin ts
    <3>1. ts \in SUBSET P
      BY <2>2
    <3>. QED  BY <3>1 DEF ValuesWith
  <2>. QED  BY <2>1, <2>2
<1>4. ASSUME NEW ts \in SUBSET P
      PROVE  ValueOf(fun, F \union ts) \in U /\ ValueOf(fun, F \union ts) + w \in U
  <2>1. ts \in SUBSET Q /\ ts \union {t} \in SUBSET Q
    OBVIOUS
  <2>2. ValueOf(fun, F \union ts) \in U /\ ValueOf(fun, F \union (ts \union {t})) \in U
    BY <2>1, Zenon DEF ValuesWith
  <2>. QED  BY <1>1, <2>2
<1>5. U \subseteq V \union {x + w : x \in V}
  <2> HIDE DEF V
  <2>. QED  BY <1>3 DEF ValuesWith
<1>6. V \subseteq U /\ \A x \in V : x + w \in U
  <2> HIDE DEF U
  <2>. QED  BY <1>4 DEF ValuesWith
<1>7. {x + w : x \in V} \subseteq U
  <2> HIDE DEF U, V
  <2>. QED  BY <1>6, Zenon
<1> HIDE DEF U, V
<1>8. U = V \union {x + w : x \in V}
  BY <1>5, <1>6, <1>7
<1>. QED  BY <1>2, <1>8 DEF U, V, w

(* The values of sums are those of the facts with any further tuples, and  *)
(* in their range.                                                         *)
LEMMA SumValues ==
  ASSUME NEW fun \in Funs, ~IsMinMax(fun), NEW rep \in SUBSET Tuple, IsFiniteSet(rep), NEW facts \in SUBSET rep,
         NEW vals, ValuesMatch(fun, vals, rep, facts)
  PROVE  /\ Values(fun, vals) = ValuesWith(fun, facts, OpenTuples(fun, rep, facts))
         /\ ValuesRange(fun, vals) \in Ranges
         /\ \A x \in Values(fun, vals) : Within(x, ValuesRange(fun, vals))
<1> DEFINE O == OpenTuples(fun, rep, facts)
           rest == vals.rest
           n == Len(rest)
<1>1. /\ vals \in ValueRecs /\ vals.front = ValueOf(fun, facts) /\ vals.front \in Int
      /\ rest \in Seq(Int) /\ n \in Nat
      /\ O \in SUBSET Tuple /\ IsFiniteSet(O) /\ IsFiniteSet(facts) /\ facts \in SUBSET Tuple
      /\ \A t \in O : t \notin facts /\ ~IsNeutral(fun, t)
  BY FS_Subset DEF ValuesMatch, ValueRecs, OpenTuples
<1>2. PICK f : Numbering(fun, rest, O, f)
  BY DEF ValuesMatch
<1>3. PICK h : Values(fun, vals) = h[n] /\ SumsLoop(vals, h)
  BY <1>1, SumsRule
<1>4. PICK g : /\ ValuesRange(fun, vals) = g[n]
               /\ g[0] = [min |-> vals.front, max |-> vals.front]
               /\ \A i \in 1..n :
                    /\ g[i - 1] \in Ranges /\ g[i] \in Ranges
                    /\ rest[i] < 0 => g[i].min = g[i - 1].min + rest[i] /\ g[i].max = g[i - 1].max
                    /\ ~(rest[i] < 0) => g[i].min = g[i - 1].min /\ g[i].max = g[i - 1].max + rest[i]
  BY <1>1, RangesRule
<1>5. f \in [O -> 1..n] /\ (\A u \in O : f[u] \in 1..n /\ rest[f[u]] = GetWeight(fun, u))
      /\ (\A u, w \in O : f[u] = f[w] => u = w)
      /\ (\A k \in 1..n : \E u \in O : f[u] = k)
  BY <1>2 DEF Numbering
<1>6. \A i \in 1..n : rest[i] \in Int
  BY <1>1
<1> HIDE DEF O, rest, n
(* The tuples at the first m places. *)
<1> DEFINE P(m) == {t \in O : f[t] <= m}
           Reached(m) == /\ h[m] = ValuesWith(fun, facts, P(m))
                         /\ h[m] \subseteq Int
                         /\ g[m] \in Ranges
                         /\ \A x \in h[m] : Within(x, g[m])
           S == {m \in Nat : m <= n => Reached(m)}
<1>7. 0 \in S
  <2>1. h[0] = {vals.front} /\ g[0] = [min |-> vals.front, max |-> vals.front]
    BY <1>3, <1>4, Zenon DEF SumsLoop
  <2>2. P(0) = {}
    BY <1>1, <1>5
  <2>3. ValuesWith(fun, facts, {}) = {vals.front}
    <3>1. facts \union {} = facts /\ SUBSET {} = {{}}
      OBVIOUS
    <3>. QED  BY <1>1, <3>1 DEF ValuesWith
  <2>4. g[0] \in Ranges /\ Within(vals.front, g[0])
    BY <1>1, <2>1 DEF Ranges, Within
  <2> HIDE DEF P
  <2>. QED  BY <1>1, <2>1, <2>2, <2>3, <2>4
<1>8. ASSUME NEW m \in S PROVE m + 1 \in S
  <2> SUFFICES ASSUME m + 1 <= n PROVE Reached(m + 1)
    <3> HIDE DEF Reached
    <3>. QED  OBVIOUS
  <2>1. m \in Nat /\ m + 1 \in 1..n /\ m + 1 \in 0..n /\ m + 1 # 0 /\ m + 1 - 1 = m /\ m <= n
    BY <1>1
  <2>2. Reached(m)
    BY <2>1
  <2>3. PICK t \in O : f[t] = m + 1
    BY <1>5, <2>1
  <2>4. P(m + 1) = P(m) \union {t} /\ t \notin P(m)
    BY <1>5, <2>1, <2>3
  <2>5. P(m) \in SUBSET Tuple /\ IsFiniteSet(P(m)) /\ t \in Tuple \ (facts \union P(m)) /\ ~IsNeutral(fun, t)
    <3>1. P(m) \in SUBSET O
      OBVIOUS
    <3> HIDE DEF P
    <3>. QED  BY <1>1, <2>4, <3>1, FS_Subset
  <2> DEFINE w == rest[m + 1]
  <2>6. w = GetWeight(fun, t) /\ w \in Int
    BY <1>5, <1>6, <2>1, <2>3
  <2> HIDE DEF P, w
  <2>7. ValuesWith(fun, facts, P(m + 1)) =
          ValuesWith(fun, facts, P(m)) \union {x + GetWeight(fun, t) : x \in ValuesWith(fun, facts, P(m))}
    BY <1>1, <2>4, <2>5, ValuesWithMore
  <2>8. h[m + 1] = h[m] \union {x + w : x \in h[m]}
    <3>1. m \in 0..(n - 1)
      BY <1>1, <2>1
    <3>. QED  BY <1>3, <3>1, Zenon DEF w, SumsLoop, n, rest
  <2>9. h[m + 1] = ValuesWith(fun, facts, P(m + 1))
    BY <2>2, <2>6, <2>7, <2>8
  <2>10. \A x \in h[m + 1] : \E y \in h[m] : x = y \/ x = y + w
    BY <2>8
  <2>11. h[m + 1] \subseteq Int
    BY <2>2, <2>6, <2>10
  <2>12. /\ g[m] \in Ranges /\ g[m + 1] \in Ranges
         /\ w < 0 => g[m + 1].min = g[m].min + w /\ g[m + 1].max = g[m].max
         /\ ~(w < 0) => g[m + 1].min = g[m].min /\ g[m + 1].max = g[m].max + w
    BY <1>4, <2>1 DEF w
  <2>13. ASSUME NEW x \in h[m + 1] PROVE Within(x, g[m + 1])
    <3>1. PICK y \in h[m] : x = y \/ x = y + w
      BY <2>10
    <3>2. y \in Int /\ g[m].min <= y /\ y <= g[m].max
      BY <2>2 DEF Within
    <3>3. g[m].min \in Int /\ g[m].max \in Int
      BY <2>12 DEF Ranges
    <3>. QED  BY <2>6, <2>12, <3>1, <3>2, <3>3 DEF Within
  <2>. QED  BY <2>9, <2>11, <2>12, <2>13
<1> HIDE DEF S
<1>9. S = Nat
  <2>1. S \in SUBSET Nat
    BY DEF S
  <2>. QED  BY <1>7, <1>8, <2>1, SetInduction
<1>10. Reached(n)
  <2>1. n \in S /\ n <= n
    BY <1>1, <1>9
  <2>. QED  BY <2>1, Zenon DEF S
<1>11. P(n) = O
  BY <1>5, <1>1
<1> HIDE DEF P
<1>. QED  BY <1>3, <1>4, <1>10, <1>11 DEF O

(* The values of MIN and MAX are in their range.                           *)
LEMMA ExtremumRange ==
  ASSUME NEW fun \in {"MIN", "MAX"}, NEW vals,
         NEW V, V = Values(fun, vals), V # {}, V \subseteq Inf..Sup
  PROVE  /\ ValuesRange(fun, vals) \in Ranges
         /\ \A x \in V : Within(x, ValuesRange(fun, vals))
<1>1. ValuesRange(fun, vals) = [min |-> MinOf(V), max |-> MaxOf(V)]
  BY DEF ValuesRange, IsMinMax
<1>2. /\ MinOf(V) \in V /\ \A y \in V : MinOf(V) <= y
      /\ MaxOf(V) \in V /\ \A y \in V : MaxOf(V) >= y
  BY MinFound, MaxFound
<1>3. V \subseteq Int
  BY Limits
<1>. QED  BY <1>1, <1>2, <1>3 DEF Ranges, Within

(* The values of an assignment aggregate, and their range. *)
LEMMA ValuesFound ==
  ASSUME NEW fun \in Funs, NEW rep \in SUBSET Tuple, IsFiniteSet(rep), NEW facts \in SUBSET rep,
         NEW vals, ValuesMatch(fun, vals, rep, facts)
  PROVE  /\ Values(fun, vals) = ValuesWith(fun, facts, OpenTuples(fun, rep, facts))
         /\ ValuesRange(fun, vals) \in Ranges
         /\ \A x \in Values(fun, vals) : Within(x, ValuesRange(fun, vals))
<1> DEFINE V == Values(fun, vals)
<1>1. CASE IsMinMax(fun)
  <2>1. fun \in {"MIN", "MAX"}
    BY <1>1 DEF IsMinMax
  <2>2. V = ValuesWith(fun, facts, OpenTuples(fun, rep, facts))
    BY <2>1, ExtremumValues
  <2>3. V \subseteq Inf..Sup
    <3>1. ASSUME NEW ts \in SUBSET OpenTuples(fun, rep, facts) PROVE ValueOf(fun, facts \union ts) \in Inf..Sup
      <4>1. facts \union ts \in SUBSET rep
        BY DEF OpenTuples
      <4>2. facts \union ts \in SUBSET Tuple /\ IsFiniteSet(facts \union ts)
        BY <4>1, FS_Subset
      <4>. QED  BY <1>1, <4>2, ValueJoins
    <3> HIDE DEF V
    <3>. QED  BY <2>2, <3>1 DEF ValuesWith
  <2>4. V # {}
    <3>1. {} \in SUBSET OpenTuples(fun, rep, facts)
      OBVIOUS
    <3> HIDE DEF V
    <3>. QED  BY <2>2, <3>1 DEF ValuesWith
  <2>. QED  BY <2>1, <2>2, <2>3, <2>4, ExtremumRange
<1>2. CASE ~IsMinMax(fun)
  BY <1>2, SumValues
<1>. QED  BY <1>1, <1>2

(* The value of what is selected is among them: neutral tuples do not      *)
(* matter.                                                                 *)
LEMMA ChosenValue ==
  ASSUME NEW fun \in Funs, NEW rep \in SUBSET Tuple, IsFiniteSet(rep), NEW facts \in SUBSET rep,
         NEW S \in Selectable(rep, facts)
  PROVE  ValueOf(fun, S) \in ValuesWith(fun, facts, OpenTuples(fun, rep, facts))
<1> DEFINE D == {t \in S \ facts : IsNeutral(fun, t)}
           ts == (S \ facts) \ D
<1>1. S \in SUBSET rep /\ facts \subseteq S
  BY DEF Selectable
<1>2. S \in SUBSET Tuple /\ IsFiniteSet(S)
  BY <1>1, FS_Subset
<1>3. S \ D = facts \union ts /\ D \in SUBSET S
  BY <1>1
<1>4. \A t \in D : IsNeutral(fun, t)
  OBVIOUS
<1>5. ts \in SUBSET OpenTuples(fun, rep, facts)
  BY <1>1 DEF OpenTuples
<1> HIDE DEF D, ts
<1>6. ValueOf(fun, S) = ValueOf(fun, facts \union ts)
  <2>1. ValueOf(fun, S \ D) = ValueOf(fun, S)
    BY <1>2, <1>3, <1>4, NeutralDropped
  <2>. QED  BY <1>3, <2>1
<1>. QED  BY <1>5, <1>6 DEF ValuesWith

(* There are finitely many values, and at least one.                       *)
LEMMA ValuesFinite ==
  ASSUME NEW fun, NEW facts, NEW P, IsFiniteSet(P)
  PROVE  IsFiniteSet(ValuesWith(fun, facts, P)) /\ ValuesWith(fun, facts, P) # {}
<1> DEFINE V == ValuesWith(fun, facts, P)
           T == SUBSET P
           f == [ts \in T |-> ValueOf(fun, facts \union ts)]
<1>1. IsFiniteSet(T)
  BY FS_SUBSET
<1>2. f \in [T -> V] /\ \A v \in V : \E ts \in T : f[ts] = v
  BY DEF ValuesWith
<1>3. f \in Surjection(T, V)
  <2> HIDE DEF f, T, V
  <2>. QED  BY <1>2 DEF Surjection
<1>4. {} \in T
  OBVIOUS
<1> HIDE DEF f, T
<1>5. IsFiniteSet(V)
  <2> HIDE DEF V
  <2>. QED  BY <1>1, <1>3, FS_Surjection
<1>. QED  BY <1>2, <1>4, <1>5

-----------------------------------------------------------------------------
(* The data of an assignment aggregate                                     *)

AtomRecs == [value : Int, fact : BOOLEAN, recursive : BOOLEAN]

AsgRec ==
  [exists : BOOLEAN, values : ValueRecs, elems : ElemSets, atoms : SUBSET AtomRecs, enqueued : BOOLEAN]

AsgCore(fun, a, rep, facts) ==
  /\ a \in AsgRec
  /\ ElemsMatch(fun, a.elems, rep, facts)
  /\ a.exists => ValuesMatch(fun, a.values, rep, facts)
  /\ ~a.exists => rep = {} /\ a.atoms = {} /\ ~a.enqueued

(* Reports that leave the values as they are: of neutral tuples and of     *)
(* facts.                                                                  *)
LEMMA ValuesStill ==
  ASSUME NEW fun \in Funs, NEW rep \in SUBSET Tuple, IsFiniteSet(rep), NEW facts \in SUBSET rep,
         NEW vals, ValuesMatch(fun, vals, rep, facts),
         NEW t \in Tuple, IsNeutral(fun, t) \/ t \in facts, NEW fact \in BOOLEAN
  PROVE  ValuesMatch(fun, vals, rep \union {t}, WithFact(facts, t, fact))
<1>1. CASE t \in facts
  <2>1. rep \union {t} = rep /\ WithFact(facts, t, fact) = facts
    BY <1>1 DEF WithFact
  <2>. QED  BY <2>1
<1>2. CASE IsNeutral(fun, t) /\ t \notin facts
  <2> DEFINE F == WithFact(facts, t, fact)
  <2>1. ~IsMinMax(fun)
    BY <1>2 DEF IsNeutral, IsMinMax
  <2>2. OpenTuples(fun, rep \union {t}, F) = OpenTuples(fun, rep, facts)
    BY <1>2 DEF OpenTuples, WithFact
  <2>3. ValueOf(fun, F) = ValueOf(fun, facts)
    <3>1. CASE fact
      <4>1. facts \in SUBSET Tuple /\ IsFiniteSet(facts)
        BY FS_Subset
      <4>2. ValueOf(fun, facts \union {t}) = Joined(fun, ValueOf(fun, facts), t) /\ ValueOf(fun, facts) \in Int
        BY <1>2, <4>1, ValueWith
      <4>3. Joined(fun, ValueOf(fun, facts), t) = ValueOf(fun, facts)
        BY <1>2, <4>2, NeutralJoins
      <4>4. F = facts \union {t}
        BY <3>1 DEF WithFact
      <4>. QED  BY <4>2, <4>3, <4>4
    <3>2. CASE ~fact
      BY <3>2 DEF WithFact
    <3>. QED  BY <3>1, <3>2
  <2> HIDE DEF F
  <2>4. ValuesMatch(fun, vals, rep \union {t}, F)
    BY <2>1, <2>2, <2>3, Zenon DEF ValuesMatch
  <2>. QED  BY <2>4 DEF F
<1>. QED  BY <1>1, <1>2

(* Other reports, for all functions.                                       *)
LEMMA ValuesGrow ==
  ASSUME NEW fun \in Funs, NEW rep \in SUBSET Tuple, IsFiniteSet(rep), NEW facts \in SUBSET rep,
         NEW vals, ValuesMatch(fun, vals, rep, facts),
         NEW t \in Tuple \ facts, ~IsNeutral(fun, t), NEW fact \in BOOLEAN, NEW remove \in BOOLEAN,
         remove <=> t \in rep /\ fact, t \in rep => fact,
         NEW r, r = AccumulateValues(fun, vals, GetWeight(fun, t), fact, remove)
  PROVE  ValuesMatch(fun, r, rep \union {t}, WithFact(facts, t, fact))
<1>1. CASE IsMinMax(fun)
  <2>1. fun \in {"MIN", "MAX"} /\ GetWeight(fun, t) = Weight[t]
    BY <1>1 DEF IsMinMax, GetWeight
  <2>. QED  BY <2>1, ExtremumGrows
<1>2. CASE ~IsMinMax(fun)
  BY <1>2, SumGrows
<1>. QED  BY <1>1, <1>2

(* Creating the data keeps the invariant.                                  *)
LEMMA InitDataCore ==
  ASSUME agg.fun \in Funs, NEW a, NEW rep, NEW facts, facts \subseteq rep, AsgCore(agg.fun, a, rep, facts),
         NEW d, d = InitData(a)
  PROVE  /\ AsgCore(agg.fun, d, rep, facts)
         /\ d.exists /\ d.atoms = a.atoms /\ d.enqueued = a.enqueued
<1>1. CASE a.exists
  BY <1>1 DEF InitData
<1>2. CASE ~a.exists
  <2> DEFINE v == [front |-> Neutral(agg.fun), rest |-> <<>>]
  <2>1. a \in AsgRec /\ rep = {} /\ facts = {} /\ ElemsMatch(agg.fun, a.elems, rep, facts)
    BY <1>2 DEF AsgCore
  <2>2. ValuesMatch(agg.fun, v, {}, {})
    BY NoValues
  <2>3. d = [a EXCEPT !.exists = TRUE, !.values = v]
    BY <1>2 DEF InitData
  <2>4. v \in ValueRecs
    BY <2>2 DEF ValuesMatch
  <2> HIDE DEF v
  <2>5. /\ d \in AsgRec /\ d.exists = TRUE /\ d.values = v /\ d.elems = a.elems /\ d.atoms = a.atoms
        /\ d.enqueued = a.enqueued
    BY <2>1, <2>3, <2>4 DEF AsgRec
  <2>. QED  BY <2>1, <2>2, <2>5, Zenon DEF AsgCore
<1>. QED  BY <1>1, <1>2

(* What accumulating an element makes of the data. *)
AccumulatedData(a, rep, facts, t, c, d) ==
  /\ AsgCore(agg.fun, d, rep \union {t}, WithFact(facts, t, c = {}))
  /\ d.exists /\ d.atoms = a.atoms

(* AssignmentAggregateData::accumulate does that.                          *)
LEMMA AccumulateDataCore ==
  ASSUME agg.fun \in Funs, NEW rep \in SUBSET Tuple, IsFiniteSet(rep), NEW facts \in SUBSET rep,
         NEW a, AsgCore(agg.fun, a, rep, facts), a.exists, NEW t \in Tuple, NEW c \in Clauses,
         NEW d, d = AccumulateData(a, t, c)
  PROVE  AccumulatedData(a, rep, facts, t, c, d)
<1> DEFINE fun == agg.fun
           inserted == t \notin DOMAIN a.elems
           fact == c = {}
           remove == fact /\ ~inserted
           elems == AddElement(a.elems, t, c)
           next == [a EXCEPT !.elems = elems]
           new == AccumulateValues(fun, a.values, GetWeight(fun, t), fact, remove)
           more == rep \union {t}
           certain == WithFact(facts, t, fact)
<1> SUFFICES AsgCore(agg.fun, d, more, certain) /\ d.exists /\ d.atoms = a.atoms
  BY Zenon DEF AccumulatedData
<1>1. /\ a \in AsgRec /\ a.exists = TRUE /\ ElemsMatch(fun, a.elems, rep, facts)
      /\ ValuesMatch(fun, a.values, rep, facts)
  BY DEF AsgCore, AsgRec
<1>2. ~IsNeutral(fun, t) => AddedElement(fun, a.elems, rep, facts, t, c)
  BY <1>1, ElementAdded
<1>3. ~IsNeutral(fun, t) => (IsFact(a.elems, t) <=> t \in facts)
  BY <1>2, Zenon DEF AddedElement
<1>4. ~IsNeutral(fun, t) => ElemsMatch(fun, elems, more, certain)
  BY <1>2, Zenon DEF AddedElement
<1>5. ~IsNeutral(fun, t) => (inserted <=> t \notin rep)
  BY <1>1 DEF ElemsMatch
<1>6. fact \in BOOLEAN /\ remove \in BOOLEAN
  OBVIOUS
<1>7. CASE IsNeutral(fun, t) \/ IsFact(a.elems, t)
  <2>1. d = a
    BY <1>7 DEF AccumulateData
  <2>2. IsNeutral(fun, t) \/ t \in facts
    BY <1>3, <1>7
  <2> HIDE DEF fact
  <2>3. ElemsMatch(fun, a.elems, more, certain) /\ ValuesMatch(fun, a.values, more, certain)
    BY <1>1, <1>6, <2>2, ElementNeutral, ValuesStill
  <2>4. AsgCore(fun, a, more, certain)
    BY <1>1, <2>3, Zenon DEF AsgCore
  <2>. QED  BY <1>1, <2>1, <2>4 DEF fact
<1>8. CASE ~(IsNeutral(fun, t) \/ IsFact(a.elems, t))
  <2>1. elems \in ElemSets
    BY <1>4, <1>8 DEF ElemsMatch
  <2> HIDE DEF elems
  <2>2. /\ next \in AsgRec /\ next.exists = TRUE /\ next.values = a.values /\ next.elems = elems
        /\ next.atoms = a.atoms /\ next.enqueued = a.enqueued
    BY <1>1, <2>1 DEF AsgRec
  <2>3. CASE ~inserted /\ ~remove
    <3>1. d = next
      BY <1>8, <2>3 DEF AccumulateData, elems
    <3>2. more = rep /\ certain = facts
      BY <1>5, <1>8, <2>3 DEF WithFact
    <3> HIDE DEF next, certain, more
    <3>3. ElemsMatch(fun, elems, more, certain) /\ ValuesMatch(fun, a.values, more, certain)
      BY <1>1, <1>4, <1>8, <3>2
    <3>4. AsgCore(fun, next, more, certain)
      BY <2>2, <3>3, Zenon DEF AsgCore
    <3>. QED  BY <2>2, <3>1, <3>4 DEF certain, more
  <2>4. CASE inserted \/ remove
    <3>1. d = [next EXCEPT !.values = new]
      <4>1. d = [next EXCEPT !.values = AccumulateValues(fun, @, GetWeight(fun, t), fact, remove)]
        BY <1>8, <2>4 DEF AccumulateData, elems
      <4> HIDE DEF next
      <4>. QED  BY <2>2, <4>1
    <3>2. t \notin facts /\ (remove <=> t \in rep /\ fact) /\ (t \in rep => fact)
      BY <1>3, <1>5, <1>8, <2>4
    <3> HIDE DEF fact, remove, next, inserted
    <3>3. ValuesMatch(fun, new, more, certain)
      BY <1>1, <1>6, <1>8, <3>2, ValuesGrow
    <3>4. new \in ValueRecs
      BY <3>3 DEF ValuesMatch
    <3> HIDE DEF new, certain, more
    <3>5. /\ d \in AsgRec /\ d.exists = TRUE /\ d.values = new /\ d.elems = elems /\ d.atoms = a.atoms
      BY <2>2, <3>1, <3>4 DEF AsgRec
    <3>6. AsgCore(fun, d, more, certain)
      BY <1>4, <1>8, <3>3, <3>5, Zenon DEF AsgCore
    <3>. QED  BY <3>5, <3>6 DEF certain, more, fact
  <2>. QED  BY <2>3, <2>4
<1>. QED  BY <1>7, <1>8

(* The aggregate is queued.                                                *)
LEMMA QueuedCore ==
  ASSUME NEW fun, NEW rep, NEW facts, NEW a, AsgCore(fun, a, rep, facts), a.exists,
         NEW d, d = [a EXCEPT !.enqueued = TRUE]
  PROVE  AsgCore(fun, d, rep, facts) /\ d.exists /\ d.enqueued /\ d.atoms = a.atoms
<1>1. a \in AsgRec
  BY DEF AsgCore
<1>2. /\ d \in AsgRec /\ d.exists = a.exists /\ d.values = a.values /\ d.elems = a.elems /\ d.atoms = a.atoms
      /\ d.enqueued = TRUE
  BY <1>1 DEF AsgRec
<1>. QED  BY <1>2, Zenon DEF AsgCore

-----------------------------------------------------------------------------
(* The invariant of assignment aggregates                                  *)

AsgInv ==
  agg.kind = "assignment" =>
    /\ AsgCore(agg.fun, asg, Rep, Facts)
    /\ emptyDone => asg.exists
    /\ agg.mode = "stratified" /\ open => asg.atoms = {}
    /\ asg.exists /\ ~asg.enqueued =>
         \A v \in Values(agg.fun, asg.values) : \E a \in asg.atoms : a.value = v
    /\ agg.mode = "recursive" => \A a \in asg.atoms : a.recursive
    /\ agg.mode # "recursive" =>
         \A a \in asg.atoms : a.fact => \A v \in Values(agg.fun, asg.values) : v = a.value

(* A report preserves the invariant of assignment aggregates.              *)
LEMMA ReportAsg ==
  ASSUME Types, AsgInv, agg.kind = "assignment", NEW t \in Tuple, NEW c \in Clauses, Report(t, c)
  PROVE  AsgInv'
<1> DEFINE i == InitData(asg)
           d == AccumulateData(i, t, c)
           e == [d EXCEPT !.enqueued = TRUE]
           rep == Rep \union {t}
           facts == WithFact(Facts, t, c = {})
<1>1. /\ open /\ asg' = e /\ reported' = reported \union {<<t, c>>}
      /\ UNCHANGED <<agg, open, emptyDone>>
  BY DEF Report
<1>2. Rep' = rep /\ Facts' = facts
  <2> HIDE DEF e
  <2>1. /\ ReportedTuples(reported \union {<<t, c>>}) = ReportedTuples(reported) \union {t}
        /\ ReportedFacts(reported \union {<<t, c>>}) = WithFact(ReportedFacts(reported), t, c = {})
    BY ReportedGrows DEF Types
  <2>2. reported' = reported \union {<<t, c>>}
    BY <1>1
  <2>3. ReportedTuples(reported') = ReportedTuples(reported) \union {t}
    BY <2>1, <2>2, Zenon
  <2>4. ReportedFacts(reported') = WithFact(ReportedFacts(reported), t, c = {})
    BY <2>1, <2>2, Zenon
  <2>. QED  BY <2>3, <2>4, Zenon DEF Rep, Facts
<1>3. /\ Rep \in SUBSET Tuple /\ IsFiniteSet(Rep) /\ Facts \in SUBSET Rep /\ agg.fun \in Funs
      /\ AsgCore(agg.fun, asg, Rep, Facts)
  BY HistoryTyped DEF AsgInv
<1>4. AsgCore(agg.fun, i, Rep, Facts) /\ i.exists /\ i.atoms = asg.atoms
  BY <1>3, InitDataCore
<1> HIDE DEF i
<1>5. AsgCore(agg.fun, d, rep, facts) /\ d.exists /\ d.atoms = asg.atoms
  <2>1. AccumulatedData(i, Rep, Facts, t, c, d)
    BY <1>3, <1>4, AccumulateDataCore
  <2> HIDE DEF d
  <2>. QED  BY <1>4, <2>1, Zenon DEF AccumulatedData
<1> HIDE DEF d
<1>6. AsgCore(agg.fun, e, rep, facts) /\ e.exists /\ e.enqueued /\ e.atoms = asg.atoms
  BY <1>5, QueuedCore
<1> HIDE DEF e, rep, facts
<1>7. /\ AsgCore(agg.fun, asg, Rep, Facts)' /\ asg'.exists /\ asg'.enqueued /\ asg'.atoms = asg.atoms
  BY <1>1, <1>2, <1>6
<1>8. agg.mode # "recursive" => asg'.atoms = {}
  <2>1. agg.mode \in {"stratified", "recursive"}
    BY HistoryTyped
  <2>. QED  BY <1>1, <1>7, <2>1 DEF AsgInv
<1>. QED  BY <1>1, <1>7, <1>8 DEF AsgInv

(* So does the statement without elements.                                 *)
LEMMA ReportEmptyAsg ==
  ASSUME Types, AsgInv, agg.kind = "assignment", ReportEmpty
  PROVE  AsgInv'
<1> DEFINE i == InitData(asg)
           e == [i EXCEPT !.enqueued = TRUE]
<1>1. /\ open /\ emptyDone' /\ asg' = e
      /\ UNCHANGED <<agg, open, reported>>
  BY DEF ReportEmpty
<1>2. Rep' = Rep /\ Facts' = Facts
  BY <1>1 DEF Rep, Facts
<1>3. Facts \subseteq Rep /\ agg.fun \in Funs /\ AsgCore(agg.fun, asg, Rep, Facts)
  BY HistoryTyped DEF AsgInv
<1>4. AsgCore(agg.fun, i, Rep, Facts) /\ i.exists /\ i.atoms = asg.atoms
  BY <1>3, InitDataCore
<1> HIDE DEF i
<1>6. AsgCore(agg.fun, e, Rep, Facts) /\ e.exists /\ e.enqueued /\ e.atoms = asg.atoms
  BY <1>4, QueuedCore
<1> HIDE DEF e
<1>7. /\ AsgCore(agg.fun, asg, Rep, Facts)' /\ asg'.exists /\ asg'.enqueued /\ asg'.atoms = asg.atoms
  BY <1>1, <1>2, <1>6
<1>8. agg.mode # "recursive" => asg'.atoms = {}
  <2>1. agg.mode \in {"stratified", "recursive"}
    BY HistoryTyped
  <2>. QED  BY <1>1, <1>7, <2>1 DEF AsgInv
<1>. QED  BY <1>1, <1>7, <1>8 DEF AsgInv

(* What the values are. *)
LEMMA AsgValues ==
  ASSUME Types, AsgInv, agg.kind = "assignment", asg.exists
  PROVE  /\ Values(agg.fun, asg.values) = ValuesWith(agg.fun, Facts, OpenTuples(agg.fun, Rep, Facts))
         /\ Values(agg.fun, asg.values) \subseteq Int /\ Values(agg.fun, asg.values) # {}
         /\ IsFiniteSet(Values(agg.fun, asg.values))
         /\ ValuesRange(agg.fun, asg.values) \in Ranges
         /\ \A x \in Values(agg.fun, asg.values) : Within(x, ValuesRange(agg.fun, asg.values))
<1> DEFINE O == OpenTuples(agg.fun, Rep, Facts)
           V == Values(agg.fun, asg.values)
<1>1. /\ Rep \in SUBSET Tuple /\ IsFiniteSet(Rep) /\ Facts \in SUBSET Rep /\ agg.fun \in Funs
      /\ ValuesMatch(agg.fun, asg.values, Rep, Facts)
  BY HistoryTyped DEF AsgInv, AsgCore
<1>2. /\ V = ValuesWith(agg.fun, Facts, O)
      /\ ValuesRange(agg.fun, asg.values) \in Ranges
      /\ \A x \in V : Within(x, ValuesRange(agg.fun, asg.values))
  BY <1>1, ValuesFound
<1>3. O \in SUBSET Rep /\ IsFiniteSet(O)
  BY <1>1, FS_Subset DEF OpenTuples
<1>4. IsFiniteSet(V) /\ V # {}
  <2> HIDE DEF V, O
  <2>. QED  BY <1>2, <1>3, ValuesFinite
<1>5. V \subseteq Int
  <2>1. ASSUME NEW ts \in SUBSET O PROVE ValueOf(agg.fun, Facts \union ts) \in Int
    <3>1. Facts \union ts \in SUBSET Tuple /\ Facts \union ts \in SUBSET Rep
      BY <1>1, <1>3
    <3>2. IsFiniteSet(Facts \union ts)
      BY <1>1, <3>1, FS_Subset
    <3>. QED  BY <1>1, <3>1, <3>2, ValueJoins
  <2> HIDE DEF V, O
  <2>. QED  BY <1>2, <2>1 DEF ValuesWith
<1>. QED  BY <1>2, <1>4, <1>5

(* The statement that adds the atoms. *)
LEMMA CompleteAsg ==
  ASSUME Types, AsgInv, agg.kind = "assignment", CompleteAssignment
  PROVE  AsgInv'
<1> DEFINE vs == Values(agg.fun, asg.values)
           was(v) == \E a \in asg.atoms : a.value = v /\ a.fact
           sole(v) == was(v) \/ Cardinality(vs) = 1
           new == {[value |-> v, fact |-> sole(v), recursive |-> Recursive] : v \in vs}
           atoms == {a \in asg.atoms : a.value \notin vs} \union new
<1>1. /\ agg.mode = "stratified" => ~open
      /\ asg.enqueued
      /\ asg' = [asg EXCEPT !.enqueued = FALSE, !.atoms = atoms]
      /\ UNCHANGED <<agg, open, emptyDone, reported>>
  BY Zenon DEF CompleteAssignment, MayComplete
<1>2. Rep' = Rep /\ Facts' = Facts
  BY <1>1 DEF Rep, Facts
<1>3. AsgCore(agg.fun, asg, Rep, Facts) /\ asg \in AsgRec /\ asg.exists
  BY <1>1 DEF AsgInv, AsgCore
<1>4. vs \subseteq Int /\ IsFiniteSet(vs) /\ vs # {}
  BY <1>3, AsgValues
<1>5. \A v : sole(v) \in BOOLEAN
  OBVIOUS
<1>6. Recursive \in BOOLEAN /\ (Recursive <=> agg.mode = "recursive")
  BY DEF Recursive
<1>7. Cardinality(vs) = 1 => \A v, w \in vs : v = w
  <2> HIDE DEF vs
  <2>1. Cardinality(vs) = 1 => \E x : vs = {x}
    BY <1>4, FS_Singleton
  <2>. QED  BY <2>1
<1>8. \A v \in vs : sole(v) => was(v) \/ \A w \in vs : w = v
  BY <1>7
<1> HIDE DEF vs, sole, was
<1>9. asg.atoms \subseteq AtomRecs
  BY <1>3 DEF AsgRec
<1>10. \A v \in vs : [value |-> v, fact |-> sole(v), recursive |-> Recursive] \in AtomRecs
  BY <1>4, <1>5, <1>6 DEF AtomRecs
<1>11. new \subseteq AtomRecs
  BY <1>10
<1>12. /\ \A v \in vs : \E a \in new : a.value = v
       /\ \A a \in new : a.value \in vs /\ (a.fact <=> sole(a.value)) /\ (a.recursive <=> Recursive)
  <2>1. ASSUME NEW v \in vs
        PROVE  LET a == [value |-> v, fact |-> sole(v), recursive |-> Recursive]
               IN a \in new /\ a.value = v /\ a.fact = sole(v) /\ a.recursive = Recursive
    OBVIOUS
  <2>2. ASSUME NEW a \in new
        PROVE  a.value \in vs /\ a.fact = sole(a.value) /\ a.recursive = Recursive
    <3>1. PICK v \in vs : a = [value |-> v, fact |-> sole(v), recursive |-> Recursive]
      OBVIOUS
    <3> HIDE DEF new
    <3>2. a.value = v /\ a.fact = sole(v) /\ a.recursive = Recursive
      BY <3>1
    <3>. QED  BY <3>2, Zenon
  <2> HIDE DEF new
  <2>3. \A v \in vs : \E a \in new : a.value = v
    BY <2>1
  <2>. QED  BY <2>2, <2>3, Zenon
<1> HIDE DEF new
<1>13. /\ atoms \subseteq AtomRecs
       /\ \A v \in vs : \E a \in atoms : a.value = v
       /\ \A a \in atoms : (a \in asg.atoms /\ a.value \notin vs) \/ a \in new
  BY <1>9, <1>11, <1>12
<1> HIDE DEF atoms
<1>14. /\ asg' \in AsgRec /\ asg'.exists = asg.exists /\ asg'.values = asg.values /\ asg'.elems = asg.elems
       /\ asg'.atoms = atoms /\ asg'.enqueued = FALSE
  BY <1>1, <1>3, <1>13 DEF AsgRec
<1>15. AsgCore(agg.fun, asg, Rep, Facts)'
  <2>1. AsgCore(agg.fun, asg', Rep, Facts)
    BY <1>3, <1>14, Zenon DEF AsgCore
  <2>. QED  BY <1>1, <1>2, <2>1
<1>16. Values(agg.fun, asg.values)' = vs
  BY <1>1, <1>14 DEF vs
<1>17. agg.mode = "recursive" => \A a \in atoms : a.recursive
  BY <1>6, <1>12, <1>13 DEF AsgInv
<1>18. agg.mode # "recursive" => \A a \in atoms : a.fact => \A v \in vs : v = a.value
  <2> SUFFICES ASSUME agg.mode # "recursive", NEW a \in atoms, a.fact, NEW v \in vs PROVE v = a.value
    OBVIOUS
  <2>0. \A b \in asg.atoms : b.fact => \A w \in vs : w = b.value
    BY DEF AsgInv, vs
  <2>1. CASE a \in asg.atoms
    BY <2>0, <2>1
  <2>2. CASE a \in new
    <3>1. a.value \in vs /\ sole(a.value)
      BY <1>12, <2>2
    <3>2. CASE was(a.value)
      BY <2>0, <3>2 DEF was
    <3>3. CASE \A w \in vs : w = a.value
      BY <3>3
    <3>. QED  BY <1>8, <3>1, <3>2, <3>3
  <2>. QED  BY <1>13, <2>1, <2>2
<1>. QED  BY <1>1, <1>13, <1>14, <1>15, <1>16, <1>17, <1>18 DEF AsgInv

(* All steps preserve the invariant of assignment aggregates.              *)
LEMMA StepAsg ==
  Types /\ AsgInv /\ [Next]_vars => AsgInv'
<1> SUFFICES ASSUME Types, AsgInv, [Next]_vars PROVE AsgInv'
  OBVIOUS
<1>0. agg.kind \in {"body", "assignment"}
  BY HistoryTyped
<1>1. CASE UNCHANGED vars
  <2>1. UNCHANGED <<agg, open, emptyDone, asg, reported>>
    BY <1>1 DEF vars
  <2>2. Rep' = Rep /\ Facts' = Facts
    BY <2>1 DEF Rep, Facts
  <2>. QED  BY <2>1, <2>2 DEF AsgInv
<1>2. CASE Next /\ agg.kind = "body"
  <2>1. agg' = agg
    BY <1>2 DEF Next, Report, ReportEmpty, CompleteBody, CompleteAssignment, Close, ReadBody,
                          TranslateBody, TranslateAssignment
  <2>. QED  BY <1>2, <2>1 DEF AsgInv
<1>3. CASE Next /\ agg.kind = "assignment"
  <2>1. CASE \E t \in Tuple, c \in Clauses : Report(t, c)
    BY <1>3, <2>1, ReportAsg
  <2>2. CASE ReportEmpty
    BY <1>3, <2>2, ReportEmptyAsg
  <2>3. CASE CompleteBody
    BY <1>3, <2>3, NothingStarted DEF CompleteBody, Types
  <2>4. CASE ReadBody
    BY <1>3, <2>4 DEF ReadBody
  <2>5. CASE CompleteAssignment
    BY <1>3, <2>5, CompleteAsg
  <2>6. CASE Close
    <3>1. open /\ ~open' /\ UNCHANGED <<agg, emptyDone, asg, reported>>
      BY <2>6 DEF Close
    <3>2. Rep' = Rep /\ Facts' = Facts
      BY <3>1 DEF Rep, Facts
    <3>. QED  BY <3>1, <3>2 DEF AsgInv
  <2>7. CASE TranslateBody \/ TranslateAssignment
    <3>1. UNCHANGED <<agg, open, emptyDone, asg, reported>>
      BY <2>7 DEF TranslateBody, TranslateAssignment
    <3>2. Rep' = Rep /\ Facts' = Facts
      BY <3>1 DEF Rep, Facts
    <3>. QED  BY <3>1, <3>2 DEF AsgInv
  <2>. QED  BY <1>3, <2>1, <2>2, <2>3, <2>4, <2>5, <2>6, <2>7 DEF Next
<1>. QED  BY <1>0, <1>1, <1>2, <1>3

(* It holds at the start.                                                  *)
LEMMA InitAsgInv == Init => AsgInv
<1> SUFFICES ASSUME Init PROVE AsgInv
  OBVIOUS
<1>1. Rep = {} /\ Facts = {}
  BY DEF Init, Rep, Facts, ReportedTuples, ReportedFacts
<1>2. AsgCore(agg.fun, NoData, {}, {})
  <2>1. NoData.elems \in ElemSets /\ DOMAIN NoData.elems = {}
    <3>1. [t \in {} |-> {}] \in [{} -> SUBSET Clauses] /\ {} \in SUBSET Tuple
      OBVIOUS
    <3>2. NoData.elems = [t \in {} |-> {}]
      BY DEF NoData
    <3>. QED  BY <3>1, <3>2 DEF ElemSets
  <2>2. NoData \in AsgRec
    <3>1. [front |-> 0, rest |-> <<>>] \in ValueRecs
      BY DEF ValueRecs
    <3>2. [t \in {} |-> {}] \in ElemSets
      BY <2>1 DEF NoData
    <3>. QED  BY <3>1, <3>2 DEF NoData, AsgRec
  <2>3. ElemsMatch(agg.fun, NoData.elems, {}, {})
    BY <2>1 DEF ElemsMatch
  <2>4. ~NoData.exists /\ NoData.atoms = {} /\ ~NoData.enqueued
    BY DEF NoData
  <2>. QED  BY <2>2, <2>3, <2>4, Zenon DEF AsgCore
<1>3. asg = NoData /\ emptyDone = FALSE /\ NoData.atoms = {} /\ ~NoData.exists
  BY DEF Init, NoData
<1>. QED  BY <1>1, <1>2, <1>3 DEF AsgInv

(* It holds always.                                                        *)
LEMMA AsgInvariant == Spec => [](Types /\ AsgInv)
<1>1. Types /\ [Next]_vars => Types'
  <2>1. Types /\ UNCHANGED vars => Types'
    BY DEF Types, vars, NoAtom, NoData
  <2>. QED  BY <2>1, NextTypes
<1>2. Init => Types /\ AsgInv
  BY InitBodyInv, InitAsgInv
<1>3. Types /\ AsgInv /\ [Next]_vars => Types' /\ AsgInv'
  BY <1>1, StepAsg
<1>. QED  BY <1>2, <1>3, PTL DEF Spec

(* The facts as the properties define them.                                *)
LEMMA ReportedFactsAre ==
  ASSUME Types
  PROVE  {t \in Tuple : <<t, {}>> \in reported} = Facts
<1>1. ASSUME NEW t \in Tuple, <<t, {}>> \in reported PROVE t \in ReportedTuples(reported)
  <2>1. <<t, {}>>[1] = t
    OBVIOUS
  <2>. QED  BY <1>1, <2>1, Zenon DEF ReportedTuples
<1>2. ReportedTuples(reported) \subseteq Tuple
  BY ReportedTyped DEF Types
<1>. QED  BY <1>1, <1>2 DEF Facts, ReportedFacts

(* The value of what an interpretation selects is among the values of an   *)
(* assignment aggregate.                                                   *)
LEMMA AsgCovers ==
  ASSUME Types, AsgInv, agg.kind = "assignment", asg.exists, NEW w \in Worlds
  PROVE  ValueIn(w) \in Values(agg.fun, asg.values)
<1>1. /\ Rep \in SUBSET Tuple /\ IsFiniteSet(Rep) /\ Facts \in SUBSET Rep /\ agg.fun \in Funs
      /\ Selected(w) \in Selectable(Rep, Facts)
      /\ Values(agg.fun, asg.values) = ValuesWith(agg.fun, Facts, OpenTuples(agg.fun, Rep, Facts))
  BY HistoryTyped, SelectedChosen, AsgValues
<1>2. ValueOf(agg.fun, Selected(w)) \in ValuesWith(agg.fun, Facts, OpenTuples(agg.fun, Rep, Facts))
  BY <1>1, ChosenValue
<1>. QED  BY <1>1, <1>2 DEF ValueIn

(* The range of an aggregate contains its value in every interpretation,   *)
(* whatever the order of the reports (AggregateAtomRange::accumulate,      *)
(* AssignmentAggregateData::range).                                        *)
THEOREM RangeSoundHolds == Spec => []RangeSound
<1>1. Types /\ BodyInv /\ AsgInv => RangeSound
  <2> DEFINE r == IF agg.kind = "body" THEN body.range ELSE ValuesRange(agg.fun, asg.values)
  <2> SUFFICES ASSUME Types, BodyInv, AsgInv, body.initialized \/ asg.exists, NEW w \in TotalWorlds
               PROVE  Within(ValueIn(w), r)
    BY DEF RangeSound, Within, ValueIn
  <2>1. w \in Worlds
    BY DEF TotalWorlds
  <2>2. agg.kind \in {"body", "assignment"}
    BY HistoryTyped
  <2>3. CASE agg.kind = "body"
    <3>1. body.initialized
      BY <2>3, NothingStarted DEF Types
    <3>. QED  BY <2>1, <2>3, <3>1, BodyCovers
  <2>4. CASE agg.kind = "assignment"
    <3>1. asg.exists
      BY <2>4 DEF Types, NoAtom
    <3>2. ValueIn(w) \in Values(agg.fun, asg.values)
      BY <2>1, <2>4, <3>1, AsgCovers
    <3>. QED  BY <2>4, <3>1, <3>2, AsgValues
  <2>. QED  BY <2>2, <2>3, <2>4
<1>. QED  BY <1>1, BodyInvariant, AsgInvariant, PTL

(* An assignment aggregate is instantiated with the values of the facts    *)
(* with any set of the conditional tuples, no more and no less             *)
(* (AssignmentAggregateData::accumulate and values).                       *)
THEOREM ValuesExactHolds == Spec => []ValuesExact
<1>1. Types /\ AsgInv => ValuesExact
  <2> DEFINE counted(T) == {t \in T : ~IsNeutral(agg.fun, t)}
             facts == {t \in Tuple : <<t, {}>> \in reported}
             open_ == {r[1] : r \in reported} \ facts
  <2> SUFFICES ASSUME Types, AsgInv, asg.exists
               PROVE  Values(agg.fun, asg.values) =
                        {ValueOf(agg.fun, facts \union ts) : ts \in SUBSET counted(open_)}
    BY Zenon DEF ValuesExact
  <2>1. agg.kind = "assignment"
    BY HistoryTyped, NothingStarted DEF Types
  <2>2. facts = Facts
    BY ReportedFactsAre
  <2>3. counted(open_) = OpenTuples(agg.fun, Rep, Facts)
    BY <2>2 DEF OpenTuples, Rep, ReportedTuples
  <2> HIDE DEF counted, open_, facts
  <2>4. Values(agg.fun, asg.values) = ValuesWith(agg.fun, facts, counted(open_))
    BY <2>1, <2>2, <2>3, AsgValues
  <2>. QED  BY <2>4, Zenon DEF ValuesWith
<1>. QED  BY <1>1, AsgInvariant, PTL

(* When the component is finished, each value that an interpretation gives *)
(* an assignment aggregate has an atom, and an atom that is a fact has the *)
(* only possible value (AssignmentAggregateComplete::report).              *)
THEOREM AssignmentsCoverHolds == Spec => []AssignmentsCover
<1>1. Types /\ AsgInv => AssignmentsCover
  <2> SUFFICES ASSUME Types, AsgInv, agg.kind = "assignment", ~open, ~asg.enqueued, NEW w \in TotalWorlds
               PROVE  /\ \E a \in asg.atoms : a.value = ValueIn(w)
                      /\ \A a \in asg.atoms : a.fact /\ ~a.recursive => a.value = ValueIn(w)
    BY DEF AssignmentsCover, Grounded, NothingQueued, ValueIn
  <2>1. asg.exists
    BY DEF Types, AsgInv
  <2>2. ValueIn(w) \in Values(agg.fun, asg.values)
    BY <2>1, AsgCovers DEF TotalWorlds
  <2>. QED  BY <2>1, <2>2 DEF AsgInv
<1>. QED  BY <1>1, AsgInvariant, PTL
=============================================================================
