------------------------ MODULE AggregateTranslation ------------------------
(***************************************************************************)
(* The translation of an aggregate into rules (getEqualAggregate in        *)
(* libgringo/src/output/aggregates.cc): AggregateAnalyzer finds out which  *)
(* values of the range violate the bounds and whether the aggregate is     *)
(* monotone, SumTranslator and translateMinMax write rules for an          *)
(* auxiliary atom.  Here the result is the set of interpretations in which *)
(* this atom (or a literal used in its place) holds.                       *)
(*                                                                         *)
(* Left out: the rules for aggregates that are recursive and non-monotone, *)
(* which make auxiliary atoms equivalent to their definitions.             *)
(***************************************************************************)
EXTENDS AggregateOps

IsNum(v) == v \in -MaxInt - 1 .. MaxInt

(* Among numbers, exclusive bounds become inclusive ones and vice versa.   *)
Closed(x) ==
  [left  |-> IF ~x.left.inclusive /\ IsNum(x.left.bound)
             THEN Bound(x.left.bound + 1, TRUE) ELSE x.left,
   right |-> IF ~x.right.inclusive /\ IsNum(x.right.bound)
             THEN Bound(x.right.bound - 1, TRUE) ELSE x.right]

Opened(x) ==
  [left  |-> IF x.left.inclusive /\ IsNum(x.left.bound)
             THEN Bound(x.left.bound - 1, FALSE) ELSE x.left,
   right |-> IF x.right.inclusive /\ IsNum(x.right.bound)
             THEN Bound(x.right.bound + 1, FALSE) ELSE x.right]

(* IntervalSet::difference: what is left of each interval after those of   *)
(* the other set it meets.                                                 *)
Without(x, set) ==
  LET met == SelectSeq(set, LAMBDA y : /\ ~RightBeforeLeft(y.right, x.left)
                                       /\ RightAtMost(y.right, x.right))
      later == SelectSeq(set, LAMBDA y : ~RightAtMost(y.right, x.right))
      left(i) == IF i = 1 THEN x.left ELSE Flip(met[i - 1].right)
      right == IF later # <<>> /\ LeftBeforeRight(later[1].left, x.right)
               THEN Flip(later[1].left) ELSE x.right
      gaps == [i \in DOMAIN met |-> IF LeftBefore(left(i), met[i].left)
                 THEN <<[left |-> left(i), right |-> Flip(met[i].left)]>> ELSE <<>>]
      last == [left |-> left(Len(met) + 1), right |-> right]
  IN FlattenSeq(gaps) \o (IF IsEmpty(last) THEN <<>> ELSE <<last>>)

Difference(vec, set) ==
  FlattenSeq([i \in DOMAIN vec |-> Without(vec[i], set)])

(***************************************************************************)
(* AggregateAnalyzer.  Each interval of values that violate the bounds     *)
(* gives a condition: the value is below or above it.                      *)
(***************************************************************************)
Violating(bounds, range) ==
  Difference(<<range>>,
             FoldLeft(AddInterval, <<>>, [i \in DOMAIN bounds |-> Closed(bounds[i])]))

(* A slip: the violating interval is not widened to its neighbours. *)
SidesClosed(x, range) ==
  [below |-> [left |-> range.left, right |-> [x.left EXCEPT !.inclusive = TRUE]],
   above |-> [left |-> [x.right EXCEPT !.inclusive = TRUE], right |-> range.right]]

Sides(x, range) ==
  [below |-> [left |-> range.left, right |-> Flip(Opened(x).left)],
   above |-> [left |-> Flip(Opened(x).right), right |-> range.right]]

HasPositive(c) == \E l \in c : l.sign = "POS"

(* The tuples that can appear or disappear in a reduct. *)
Derived(elems) == {t \in DOMAIN elems : \E c \in elems[t] : HasPositive(c)}

WeightType(fun, elems) ==
  LET neg == \E t \in Derived(elems) : Weight[t] < 0
      pos == \E t \in Derived(elems) : Weight[t] > 0
  IN IF fun # "SUM" \/ ~neg THEN "POSITIVE" ELSE IF pos THEN "MIXED" ELSE "NEGATIVE"

Monotonicity(fun, naf, sides, elems) ==
  LET twoSided == \E i \in DOMAIN sides : ~IsEmpty(sides[i].below) /\ ~IsEmpty(sides[i].above)
      flip == fun = "MIN" \/ WeightType(fun, elems) = "NEGATIVE"
  IN CASE naf # "POS" \/ Derived(elems) = {} -> "ANTIMONOTONE"
       [] ~(naf # "POS" \/ Derived(elems) = {}) ->
            IF twoSided \/ WeightType(fun, elems) = "MIXED" THEN "NONMONOTONE"
            ELSE IF Len(sides) > 1 THEN "CONVEX"
            ELSE IF flip # IsEmpty(sides[1].below) THEN "MONOTONE" ELSE "ANTIMONOTONE"

Analyze(fun, naf, bounds, range, elems) ==
  LET bad   == Violating(bounds, range)
      sides == [i \in DOMAIN bad |-> Sides(bad[i], range)]
  IN [sides |-> sides,
      truth |-> IF sides = <<>> THEN "True"
                ELSE IF \E i \in DOMAIN sides : IsEmpty(sides[i].below) /\ IsEmpty(sides[i].above)
                THEN "False" ELSE "Open",
      monotonicity |-> IF sides = <<>> THEN "MONOTONE"
                       ELSE Monotonicity(fun, naf, sides, elems)]

(***************************************************************************)
(* Translation.  lits gives for each tuple the interpretations in which it *)
(* is selected (translateElems).                                           *)
(***************************************************************************)
ElemLits(elems) ==
  [t \in DOMAIN elems |-> UNION {ClauseWorlds(c) : c \in elems[t]}]

(* SumTranslator::translate for one weight rule: the tuples in plus count  *)
(* if they are selected, those in minus if they are not.                   *)
WeightRule(fun, lits, plus, minus, bound) ==
  LET abs(t) == IF GetWeight(fun, t) < 0 THEN -GetWeight(fun, t) ELSE GetWeight(fun, t)
      sum(ts) == SumFunctionOnSet([t \in DOMAIN lits |-> abs(t)], ts)
  IN {w \in Worlds :
        sum({t \in plus : w \in lits[t]}) + sum({t \in minus : w \in Negate(lits[t])})
          >= bound + sum(minus)}

(* With invert, a lower bound is the negation of an upper bound for the    *)
(* negated weights; without it, an upper bound that of a lower bound.      *)
SumTranslate(fun, lits, sides, invert) ==
  LET pos == {t \in DOMAIN lits : GetWeight(fun, t) > 0}
      neg == {t \in DOMAIN lits : GetWeight(fun, t) < 0}
      atLeast(b) == WeightRule(fun, lits, pos, neg, b)
      atMost(b) == WeightRule(fun, lits, neg, pos, -b)
      above(s) == IF invert THEN Negate(atMost(s.above.left.bound - 1))
                  ELSE atLeast(s.above.left.bound)
      below(s) == IF invert THEN atMost(s.below.right.bound)
                  ELSE Negate(atLeast(s.below.right.bound + 1))
  IN {w \in Worlds : \A i \in DOMAIN sides :
        \/ ~IsEmpty(sides[i].above) /\ w \in above(sides[i])
        \/ ~IsEmpty(sides[i].below) /\ w \in below(sides[i])}

(* translateMinMax: a selected tuple on the side away from the violating   *)
(* values decides, or there is none that violates.                         *)
MinMaxTranslate(fun, lits, sides, range) ==
  LET isMin == fun = "MIN"
      inRange == {t \in DOMAIN lits : HasValue(range, Weight[t])}
      near(s) == {t \in inRange : HasValue(IF isMin THEN s.below ELSE s.above, Weight[t])}
      far(s) == {t \in inRange : HasValue(IF isMin THEN s.above ELSE s.below, Weight[t])}
      bad(s) == inRange \ (near(s) \union far(s))
      farSide(s) == IF isMin THEN s.above ELSE s.below
  IN {w \in Worlds : \A i \in DOMAIN sides :
        \/ \E t \in near(sides[i]) : w \in lits[t]
        \/ /\ ~IsEmpty(farSide(sides[i]))
           /\ \A t \in bad(sides[i]) : w \in Negate(lits[t])}

(* An aggregate with one element holds with the element, without, or both. *)
SingleTranslate(fun, lit, weight, bounds) ==
  LET has(v) == ContainsInterval(bounds, Interval(v, TRUE, v, TRUE))
  IN IF has(weight) THEN IF has(Neutral(fun)) THEN Worlds ELSE lit
     ELSE IF has(Neutral(fun)) THEN Negate(lit) ELSE {}

Signed(naf, D) ==
  CASE naf = "POS" -> D [] naf = "NOT" -> Negate(D) [] naf = "NOTNOT" -> Negate(Negate(D))

(* Translated in a way that this module leaves out. *)
NeedsEquivalences(fun, naf, bounds, range, elems, recursive) ==
  LET res == Analyze(fun, naf, bounds, range, elems)
  IN recursive /\ res.truth = "Open" /\ res.monotonicity = "NONMONOTONE"

GetEqualAggregate(fun, naf, bounds, range, elems) ==
  LET res  == Analyze(fun, naf, bounds, range, elems)
      lits == ElemLits(elems)
  IN Signed(naf,
       CASE res.truth = "True"  -> Worlds
         [] res.truth = "False" -> {}
         [] res.truth = "Open"  ->
              IF Cardinality(DOMAIN lits) = 1
              THEN LET t == CHOOSE t \in DOMAIN lits : TRUE
                   IN SingleTranslate(fun, lits[t], GetWeight(fun, t), bounds)
              ELSE IF IsMinMax(fun) THEN MinMaxTranslate(fun, lits, res.sides, range)
              ELSE SumTranslate(fun, lits, res.sides, WeightType(fun, elems) = "NEGATIVE"))

(***************************************************************************)
(* AggregateAtomRange::plainBounds: the bounds as relations for text       *)
(* output.  Bounds that the range satisfies are not written; a part that   *)
(* ends and one that begins together are written as an inequality.         *)
(***************************************************************************)
PlainLeft(bs, part) ==
  LET x == part.left
      y == Last(bs)
      left == IF y.rel = "LEQ" THEN y.bound + 1 ELSE y.bound
      right == IF x.inclusive THEN x.bound - 1 ELSE x.bound
  IN IF bs = <<>>
     THEN <<[rel |-> IF x.inclusive THEN "GEQ" ELSE "GT", bound |-> x.bound]>>
     ELSE Append(Front(bs), [rel |-> "NEQ", bound |-> IF left # right THEN right ELSE left])

PlainPart(bs, part, range) ==
  LET begun == IF LeftBefore(range.left, part.left) THEN PlainLeft(bs, part) ELSE bs
  IN IF RightBefore(part.right, range.right)
     THEN Append(begun, [rel |-> IF part.right.inclusive THEN "LEQ" ELSE "LT",
                         bound |-> part.right.bound])
     ELSE begun

PlainBounds(bounds, range) ==
  FoldLeft(LAMBDA bs, part : PlainPart(bs, part, range), <<>>, bounds)
=============================================================================
