----------------------------- MODULE IntervalOps -----------------------------
(***************************************************************************)
(* Sets of values as sequences of intervals (IntervalSet in                *)
(* libgringo/gringo/intervals.hh).  A value is an integer; the gap between *)
(* two neighbours may belong to a set too, as the order is read as dense   *)
(* ("read < as before with gap").                                          *)
(*                                                                         *)
(* A bound is a value and whether it is inclusive, an interval a left and  *)
(* a right bound.  The intervals of a set are not empty, in ascending      *)
(* order, and do not touch.                                                *)
(***************************************************************************)
EXTENDS Integers, Sequences

Bound(b, i) == [bound |-> b, inclusive |-> i]

(* The bound on the other side of the cut: operator= between LBound and    *)
(* RBound.                                                                 *)
Flip(x) == [x EXCEPT !.inclusive = ~@]

LeftBefore(x, y) ==
  x.bound < y.bound \/ (x.bound = y.bound /\ x.inclusive /\ ~y.inclusive)

LeftAtMost(x, y) ==
  x.bound < y.bound \/ (x.bound = y.bound /\ (x.inclusive \/ ~y.inclusive))

LeftBeforeRight(x, y) ==
  x.bound < y.bound \/ (x.bound = y.bound /\ x.inclusive /\ y.inclusive)

RightBefore(x, y) ==
  x.bound < y.bound \/ (x.bound = y.bound /\ ~x.inclusive /\ y.inclusive)

RightAtMost(x, y) ==
  x.bound < y.bound \/ (x.bound = y.bound /\ (~x.inclusive \/ y.inclusive))

RightBeforeLeft(x, y) ==
  x.bound < y.bound \/ (x.bound = y.bound /\ ~x.inclusive /\ ~y.inclusive)

IsEmpty(x) == ~LeftBeforeRight(x.left, x.right)

(* Interval::operator<: there is a gap between the two. *)
Below(x, y) == RightBeforeLeft(x.right, y.left)

(* Interval::contains(value) *)
HasValue(x, v) ==
  /\ x.left.bound < v \/ (x.left.bound = v /\ x.left.inclusive)
  /\ v < x.right.bound \/ (v = x.right.bound /\ x.right.inclusive)

MinLeft(x, y) == IF LeftBefore(y, x) THEN y ELSE x
MaxRight(x, y) == IF RightBefore(x, y) THEN y ELSE x

(* std::lower_bound and std::upper_bound: the intervals from the first to  *)
(* before the second overlap or touch x.                                   *)
LowerBound(vec, x) ==
  CHOOSE i \in 1..(Len(vec) + 1) :
    /\ \A k \in 1..(i - 1) : Below(vec[k], x)
    /\ i <= Len(vec) => ~Below(vec[i], x)

UpperBound(vec, x) ==
  CHOOSE j \in LowerBound(vec, x)..(Len(vec) + 1) :
    /\ \A k \in LowerBound(vec, x)..(j - 1) : ~Below(x, vec[k])
    /\ j <= Len(vec) => Below(x, vec[j])

(* The intervals it .. jt - 1 make room for others. *)
Splice(vec, it, jt, new) ==
  SubSeq(vec, 1, it - 1) \o new \o SubSeq(vec, jt, Len(vec))

AddInterval(vec, x) ==
  LET it == LowerBound(vec, x)
      jt == UpperBound(vec, x)
  IN IF IsEmpty(x) THEN vec
     ELSE IF it = jt THEN Splice(vec, it, jt, <<x>>)
     ELSE Splice(vec, it, jt, <<[left  |-> MinLeft(x.left, vec[it].left),
                                 right |-> MaxRight(x.right, vec[jt - 1].right)]>>)

(* What x leaves of the first and of the last interval it meets (they may  *)
(* be the same).                                                           *)
Leftovers(first, last, x) ==
  LET before == [left |-> first.left, right |-> Flip(x.left)]
      after  == [left |-> Flip(x.right), right |-> last.right]
  IN (IF IsEmpty(before) THEN <<>> ELSE <<before>>)
       \o (IF IsEmpty(after) THEN <<>> ELSE <<after>>)

RemoveInterval(vec, x) ==
  LET it == LowerBound(vec, x)
      jt == UpperBound(vec, x)
  IN IF IsEmpty(x) \/ it = jt THEN vec
     ELSE Splice(vec, it, jt, Leftovers(vec[it], vec[jt - 1], x))

(* IntervalSet::contains and intersects look at one interval only: the     *)
(* first that ends after x does, or after x begins.                        *)
ContainsInterval(vec, x) ==
  IsEmpty(x) \/ \E i \in DOMAIN vec :
    /\ RightAtMost(x.right, vec[i].right)
    /\ \A k \in 1..(i - 1) : ~RightAtMost(x.right, vec[k].right)
    /\ LeftAtMost(vec[i].left, x.left)

IntersectsInterval(vec, x) ==
  ~IsEmpty(x) /\ \E i \in DOMAIN vec :
    /\ LeftBeforeRight(x.left, vec[i].right)
    /\ \A k \in 1..(i - 1) : ~LeftBeforeRight(x.left, vec[k].right)
    /\ LeftBeforeRight(vec[i].left, x.right)

(* Well-formed sets, for the specification of these operations. *)
IsBound(x) == x.bound \in Int /\ x.inclusive \in BOOLEAN

IsNormal(vec) ==
  /\ \A i \in DOMAIN vec : ~IsEmpty(vec[i])
  /\ \A i, j \in DOMAIN vec : i < j => Below(vec[i], vec[j])
=============================================================================
