--------------------------- MODULE ConditionalOps ---------------------------
(***************************************************************************)
(* Conditional literals in bodies (conjunctions) and in heads              *)
(* (disjunctions): what is accumulated for them and how they are           *)
(* translated (libgringo/src/output/literals.cc).                          *)
(*                                                                         *)
(* An element has two formulas, its heads and its bodies: sequences of     *)
(* clauses, which are sets of literals.  In a conjunction, an element      *)
(* means that one of its heads holds if one of its bodies does; in a       *)
(* disjunction, that all of its heads and one of its bodies hold, where    *)
(* the clauses of heads are disjunctions.                                  *)
(*                                                                         *)
(* A literal of the output is represented by the pairs <<h, t>> of sets of *)
(* atoms, h a subset of t, in which it holds: h is a candidate for a       *)
(* smaller model of the reduct given by t.                                 *)
(***************************************************************************)
EXTENDS Naturals, FiniteSets, Sequences, SequencesExt

CONSTANT Atoms    (* the atoms conditions and heads are about *)

Worlds == {w \in (SUBSET Atoms) \X (SUBSET Atoms) : w[1] \subseteq w[2]}

TotalWorlds == {w \in Worlds : w[1] = w[2]}

LitWorlds(l) ==
  {w \in Worlds : IF l.sign = "POS" THEN l.atom \in w[1] ELSE l.atom \notin w[2]}

Negate(D) == {w \in Worlds : <<w[2], w[2]>> \notin D}

(* getEqualClause *)
AllOf(c) == {w \in Worlds : \A l \in c : w \in LitWorlds(l)}
AnyOf(c) == {w \in Worlds : \E l \in c : w \in LitWorlds(l)}

(* getEqualFormula for a disjunction of conjunctions. *)
SomeClause(f) == UNION {AllOf(f[i]) : i \in DOMAIN f}

(* What rules force to be true if they are to derive a head: the worlds in *)
(* which the body implies the head.                                        *)
Implies(B, H) == {w \in Worlds : /\ w \in B => w \in H
                                 /\ <<w[2], w[2]>> \in B => <<w[2], w[2]>> \in H}

Element == [heads |-> <<>>, bodies |-> <<>>]

(* A formula that is a single empty clause: for bodies and for the heads   *)
(* of a conjunction it is true, for the heads of a disjunction false.      *)
IsTop(f) == f = <<{}>>

AddClause(f, c) == IF IsTop(f) THEN f ELSE IF c = {} THEN <<{}>> ELSE Append(f, c)

(* One clause after the other. *)
AddClauses(f, cs) == IF IsTop(f) \/ {} \in cs THEN <<{}>> ELSE f \o SetToSeq(cs)

-----------------------------------------------------------------------------
(* ConjunctionElement::accumulateCond and accumulateHead: blocked counts   *)
(* the elements with a true body and no head, fact those with a body whose *)
(* head is not true.  Before the latter a slip: a true head counts again.  *)
AccumulateCond(a, e, c) ==
  LET el == a.elems[e]
  IN [a EXCEPT !.elems[e].bodies = AddClause(@, c),
               !.fact = IF el.bodies = <<>> THEN @ + 1 ELSE @,
               !.blocked = IF ~IsTop(el.bodies) /\ c = {} /\ el.heads = <<>> THEN @ + 1 ELSE @]

HeadCountedTwice(a, e, c) ==
  LET el == a.elems[e]
  IN [a EXCEPT !.elems[e].heads = AddClause(@, c),
               !.blocked = IF el.heads = <<>> /\ IsTop(el.bodies) THEN @ - 1 ELSE @,
               !.fact = IF c = {} /\ @ > 0 THEN @ - 1 ELSE @]

AccumulateHead(a, e, c) ==
  LET el == a.elems[e]
  IN [a EXCEPT !.elems[e].heads = AddClause(@, c),
               !.blocked = IF el.heads = <<>> /\ IsTop(el.bodies) THEN @ - 1 ELSE @,
               !.fact = IF ~IsTop(el.heads) /\ c = {} THEN @ - 1 ELSE @]

(* ConjunctionElement::isSimple *)
IsSimple(el) ==
  \/ /\ el.heads = <<>>
     /\ Len(el.bodies) = 1
     /\ \E l \in el.bodies[1] : el.bodies[1] = {l} /\ l.sign # "POS"
  \/ IsTop(el.bodies) /\ Len(el.heads) <= 1

(* The rules for the auxiliary atom of an element; before it, a slip that  *)
(* leaves out the rule for non-monotone conjunctions.                      *)
AuxMonotone(el, nonmonotone) ==
  SomeClause(el.heads) \union Negate(SomeClause(el.bodies))

Aux(el, nonmonotone) ==
  LET H == SomeClause(el.heads)
      B == SomeClause(el.bodies)
  IN    H \union Negate(B)
     \union IF nonmonotone /\ el.heads # <<>> THEN (Worlds \ B) \ Negate(H) ELSE {}

(* ConjunctionLiteral::translate for one element and for all of them.      *)
ElementWorlds(el, nonmonotone) ==
  IF IsTop(el.heads) \/ el.bodies = <<>> THEN Worlds
  ELSE IF IsSimple(el)
  THEN IF IsTop(el.bodies) THEN SomeClause(el.heads) ELSE Negate(AllOf(el.bodies[1]))
  ELSE Aux(el, nonmonotone)

ConjunctionWorlds(elems, nonmonotone) ==
  {w \in Worlds : \A e \in DOMAIN elems : w \in ElementWorlds(elems[e], nonmonotone)}

-----------------------------------------------------------------------------
(* DisjunctionElement::accumulateCond and accumulateHead, the latter for   *)
(* one or more clauses: headFact counts the elements with a true body and  *)
(* no head; before the latter a slip.                                      *)
HasFactHead(el) == IsTop(el.bodies) /\ el.heads = <<>>

AccumulateDisjCond(d, e, c) ==
  LET el == d.elems[e]
  IN [d EXCEPT !.elems[e].bodies = AddClause(@, c),
               !.headFact = IF ~IsTop(el.bodies) /\ c = {} /\ el.heads = <<>> THEN @ + 1 ELSE @]

HeadsKeepFact(d, e, cs) == [d EXCEPT !.elems[e].heads = AddClauses(@, cs)]

AccumulateDisjHeads(d, e, cs) ==
  [d EXCEPT !.elems[e].heads = AddClauses(@, cs),
            !.headFact = IF HasFactHead(d.elems[e]) THEN @ - 1 ELSE @]

(* DisjunctionAtom::simplify *)
Remaining(elems) ==
  {e \in DOMAIN elems : elems[e].bodies # <<>> /\ ~IsTop(elems[e].heads)}

AllHeads(el) == {w \in Worlds : \A i \in DOMAIN el.heads : w \in AnyOf(el.heads[i])}

(* DisjunctionLiteral::translate: the atom that stands for an element in   *)
(* the rule of the disjunction has to be true where its rules derive it,   *)
(* and may be true where what it derives holds; before the latter a slip   *)
(* without the constraint for the condition.                               *)
Derived(el) == SomeClause(el.bodies) \intersect AllHeads(el)

AdmittedWithoutConstraint(el) == Implies(SomeClause(el.bodies), AllHeads(el))

Admitted(el) ==
  Implies(SomeClause(el.bodies), AllHeads(el)) \intersect Negate(Negate(SomeClause(el.bodies)))

(* The rule dj: elements without heads are in its body. *)
DisjunctionWorlds(elems, Part(_)) ==
  LET rest == Remaining(elems)
      inBody == {e \in rest : elems[e].heads = <<>>}
  IN IF \E e \in rest : HasFactHead(elems[e]) THEN Worlds
     ELSE Implies(
            {w \in Worlds : \A e \in inBody : w \in Negate(SomeClause(elems[e].bodies))},
            UNION {Part(elems[e]) : e \in rest \ inBody})
=============================================================================
