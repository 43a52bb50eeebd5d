---------------------------- MODULE AggregateOps ----------------------------
(***************************************************************************)
(* Body aggregates and assignment aggregates: the data that grounding      *)
(* accumulates for them (libgringo/src/output/literals.cc) and their       *)
(* translation into rules (libgringo/src/output/aggregates.cc).            *)
(*                                                                         *)
(* An element is a tuple with a condition.  A tuple t has the value        *)
(* Weight[t]; a condition is a set of literals, a literal an atom with a   *)
(* sign.  Values are integers; the symbols #inf and #sup are the smallest  *)
(* and the largest of them.                                                *)
(*                                                                         *)
(* A literal of the output is represented by what it means: the set of     *)
(* pairs <<h, t>> of sets of atoms, h a subset of t, in which it holds     *)
(* (h is a candidate for a smaller model of the reduct given by t, so that *)
(* a negated literal only depends on t).  An auxiliary atom holds where    *)
(* the body of one of its rules does.                                      *)
(***************************************************************************)
EXTENDS IntervalOps, FiniteSets, SequencesExt

CONSTANTS
  Atoms,        (* the atoms conditions are about *)
  Tuple,        (* the tuples of the elements *)
  Weight,       (* the first term of each tuple *)
  Inf, Sup,     (* the symbols #inf and #sup *)
  MaxInt        (* the largest number; the smallest is -MaxInt - 1 *)

ASSUME WeightAssumption == Weight \in [Tuple -> (Inf + 1)..(Sup - 1)]
ASSUME LimitAssumption ==
  /\ Inf \in Int /\ Sup \in Int /\ MaxInt \in Nat
  /\ MaxInt < Sup - 1 /\ Inf + 1 < -MaxInt - 1

IsMinMax(fun) == fun \in {"MIN", "MAX"}

MinOf(S) == CHOOSE x \in S : \A y \in S : x <= y
MaxOf(S) == CHOOSE x \in S : \A y \in S : x >= y

(***************************************************************************)
(* Interpretations                                                         *)
(***************************************************************************)
Worlds == {w \in (SUBSET Atoms) \X (SUBSET Atoms) : w[1] \subseteq w[2]}

TotalWorlds == {w \in Worlds : w[1] = w[2]}

LitWorlds(l) ==
  {w \in Worlds : IF l.sign = "POS" THEN l.atom \in w[1] ELSE l.atom \notin w[2]}

Negate(D) == {w \in Worlds : <<w[2], w[2]>> \notin D}

(* getEqualClause: a conjunction or a disjunction of literals. *)
ClauseWorlds(c) == {w \in Worlds : \A l \in c : w \in LitWorlds(l)}

(***************************************************************************)
(* Aggregate functions                                                     *)
(***************************************************************************)
Neutral(fun) ==
  CASE fun = "MIN" -> Sup [] fun = "MAX" -> Inf [] OTHER -> 0

GetWeight(fun, t) == IF fun = "COUNT" THEN 1 ELSE Weight[t]

(* neutral(): tuples that cannot change the value are not accumulated. *)
IsNeutral(fun, t) ==
  \/ fun = "SUM" /\ Weight[t] = 0
  \/ fun = "SUMP" /\ Weight[t] <= 0

SumOf(fun, ts) == SumFunctionOnSet([t \in Tuple |-> GetWeight(fun, t)], ts)

(* The value of a function for the tuples in ts, by its definition. *)
ValueOf(fun, ts) ==
  CASE fun = "MIN"  -> MinOf({Weight[t] : t \in ts} \union {Sup})
    [] fun = "MAX"  -> MaxOf({Weight[t] : t \in ts} \union {Inf})
    [] fun = "SUMP" -> SumOf(fun, {t \in ts : Weight[t] > 0})
    [] OTHER        -> SumOf(fun, ts)

Holds(rel, v, b) ==
  CASE rel = "GT"  -> v > b  [] rel = "GEQ" -> v >= b [] rel = "LT" -> v < b
    [] rel = "LEQ" -> v <= b [] rel = "NEQ" -> v # b  [] rel = "EQ" -> v = b

(***************************************************************************)
(* The bounds of an aggregate as intervals: _initBounds                    *)
(***************************************************************************)
Interval(a, ai, b, bi) == [left |-> Bound(a, ai), right |-> Bound(b, bi)]

(* What a relation leaves of the values allowed so far. *)
RestrictBounds(vec, r) ==
  LET below(i) == Interval(Inf, TRUE, r.bound, i)
      above(i) == Interval(r.bound, i, Sup, TRUE)
  IN CASE r.rel = "GEQ" -> RemoveInterval(vec, below(FALSE))
       [] r.rel = "GT"  -> RemoveInterval(vec, below(TRUE))
       [] r.rel = "LEQ" -> RemoveInterval(vec, above(FALSE))
       [] r.rel = "LT"  -> RemoveInterval(vec, above(TRUE))
       [] r.rel = "NEQ" -> RemoveInterval(vec, Interval(r.bound, TRUE, r.bound, TRUE))
       [] r.rel = "EQ"  -> RemoveInterval(RemoveInterval(vec, above(FALSE)), below(FALSE))

InitBounds(rels) ==
  LET loop[i \in 0..Len(rels)] ==
        IF i = 0 THEN <<Interval(Inf, TRUE, Sup, TRUE)>> ELSE RestrictBounds(loop[i - 1], rels[i])
  IN loop[Len(rels)]

(***************************************************************************)
(* Accumulation                                                            *)
(***************************************************************************)
(* The elements: a function from tuples to sets of conditions.  A fact has *)
(* the empty condition and no other.                                       *)
IsFact(elems, t) == t \in DOMAIN elems /\ {} \in elems[t]

Conditions(elems, t) == IF t \in DOMAIN elems THEN elems[t] ELSE {}

AddElement(elems, t, c) ==
  IF IsFact(elems, t) THEN elems
  ELSE [u \in DOMAIN elems \union {t} |->
          IF u # t THEN elems[u]
          ELSE IF c = {} THEN {{}} ELSE Conditions(elems, t) \union {c}]

(* AggregateAtomRange: the values an aggregate can have, as far as known.  *)
InitRange(fun) == [min |-> Neutral(fun), max |-> Neutral(fun)]

Clamp(x) == IF x > MaxInt THEN MaxInt ELSE IF x < -MaxInt - 1 THEN -MaxInt - 1 ELSE x

RangeInterval(fun, range) ==
  IF IsMinMax(fun) THEN Interval(range.min, TRUE, range.max, TRUE)
  ELSE Interval(Clamp(range.min), TRUE, Clamp(range.max), TRUE)

(* remove: the tuple had conditions and is a fact now.  Before it, a slip: *)
(* a fact only moves one of the bounds.                                    *)
AccumulateRangeOneSided(fun, range, v, fact, remove) ==
  CASE fun = "MIN" ->
         [range EXCEPT !.min = MinOf({@, v}), !.max = IF fact THEN MinOf({@, v}) ELSE @]
    [] fun = "MAX" ->
         [range EXCEPT !.max = MaxOf({@, v}), !.min = IF fact THEN MaxOf({@, v}) ELSE @]
    [] OTHER ->
         IF (v < 0) <=> fact THEN [range EXCEPT !.max = @ + v]
         ELSE [range EXCEPT !.min = @ + v]

AccumulateRange(fun, range, v, fact, remove) ==
  CASE fun = "MIN" ->
         [range EXCEPT !.min = MinOf({@, v}), !.max = IF fact THEN MinOf({@, v}) ELSE @]
    [] fun = "MAX" ->
         [range EXCEPT !.max = MaxOf({@, v}), !.min = IF fact THEN MaxOf({@, v}) ELSE @]
    [] ~IsMinMax(fun) /\ fact /\ ~remove ->
         [range EXCEPT !.min = @ + v, !.max = @ + v]
    [] ~IsMinMax(fun) /\ ~(fact /\ ~remove) ->
         IF (v < 0) <=> fact THEN [range EXCEPT !.max = @ + v]
         ELSE [range EXCEPT !.min = @ + v]

(* AssignmentAggregateData: the first entry of values is the value of the  *)
(* facts, the others are what conditional tuples contribute.               *)

(* Values that can no longer be reached because of a fact v are erased.    *)
EraseValues(fun, rest, v) ==
  LET Erased(x) == IF fun = "MIN" THEN x >= v ELSE x <= v
      kept[i \in 0..Len(rest)] ==
        IF i = 0 THEN <<>>
        ELSE IF Erased(rest[i]) THEN kept[i - 1] ELSE Append(kept[i - 1], rest[i])
  IN kept[Len(rest)]

AccumulateValues(fun, vals, v, fact, remove) ==
  CASE fun = "MIN" ->
         IF fact THEN [front |-> MinOf({vals.front, v}), rest |-> EraseValues(fun, vals.rest, v)]
         ELSE IF vals.front > v THEN [vals EXCEPT !.rest = Append(@, v)] ELSE vals
    [] fun = "MAX" ->
         IF fact THEN [front |-> MaxOf({vals.front, v}), rest |-> EraseValues(fun, vals.rest, v)]
         ELSE IF vals.front < v THEN [vals EXCEPT !.rest = Append(@, v)] ELSE vals
    [] OTHER ->
         IF fact THEN [front |-> vals.front + v,
                       rest  |-> IF remove THEN RemoveFirst(vals.rest, v) ELSE vals.rest]
         ELSE [vals EXCEPT !.rest = Append(@, v)]

(* A slip: only the values of the elements, not of their combinations. *)
ValuesOfSingles(fun, vals) == {vals.front} \union
  (IF IsMinMax(fun) THEN ToSet(vals.rest)
   ELSE {vals.front + vals.rest[i] : i \in DOMAIN vals.rest})

(* AssignmentAggregateData::values *)
Values(fun, vals) ==
  LET sums[i \in 0..Len(vals.rest)] ==
        IF i = 0 THEN {vals.front}
        ELSE sums[i - 1] \union {v + vals.rest[i] : v \in sums[i - 1]}
  IN IF IsMinMax(fun) THEN {vals.front} \union ToSet(vals.rest) ELSE sums[Len(vals.rest)]

(* AssignmentAggregateData::range *)
ValuesRange(fun, vals) ==
  LET sums[i \in 0..Len(vals.rest)] ==
        IF i = 0 THEN [min |-> vals.front, max |-> vals.front]
        ELSE IF vals.rest[i] < 0 THEN [sums[i - 1] EXCEPT !.min = @ + vals.rest[i]]
        ELSE [sums[i - 1] EXCEPT !.max = @ + vals.rest[i]]
  IN IF IsMinMax(fun)
     THEN [min |-> MinOf(Values(fun, vals)), max |-> MaxOf(Values(fun, vals))]
     ELSE sums[Len(vals.rest)]
=============================================================================
