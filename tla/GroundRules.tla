----------------------------- MODULE GroundRules -----------------------------
(***************************************************************************)
(* Ground rules, as the grounder hands them to the output, and their       *)
(* stable models: the reference against which the result of grounding is   *)
(* compared.  A rule is a record                                           *)
(*   choice  whether the heads may be chosen freely                        *)
(*   heads   the set of head atoms: none for a constraint, several for a   *)
(*           disjunction                                                   *)
(*   body    a set of literals [naf, atom], naf in "pos", "not", "notnot"  *)
(***************************************************************************)
EXTENDS Integers, FiniteSets

Lit(naf, atom) == [naf |-> naf, atom |-> atom]

Fact(atom) == [choice |-> FALSE, heads |-> {atom}, body |-> {}]

Holds(l, M) == (l.naf = "not") # (l.atom \in M)

(* The reduct decides the negated literals by the candidate M and lets a   *)
(* choice derive only what M has chosen.                                   *)
Reduct(rules, M) ==
  UNION {LET body == {l.atom : l \in {x \in r.body : x.naf = "pos"}}
         IN IF r.choice THEN {[heads |-> {h}, body |-> body] : h \in r.heads \intersect M}
            ELSE {[heads |-> r.heads, body |-> body]} :
           r \in {x \in rules : \A l \in x.body : l.naf # "pos" => Holds(l, M)}}

Satisfies(M, positive) ==
  \A r \in positive : r.body \subseteq M => r.heads \intersect M # {}

(* Candidates contain all facts and only heads. *)
StableModels(rules) ==
  LET facts == UNION {r.heads : r \in {x \in rules : \E a \in x.heads : x = Fact(a)}}
      heads == UNION {r.heads : r \in rules}
  IN {M \in {facts \union N : N \in SUBSET (heads \ facts)} :
        LET red == Reduct(rules, M)
        IN /\ Satisfies(M, red)
           /\ \A N \in SUBSET (M \ facts) : Satisfies(facts \union N, red) => facts \union N = M}
=============================================================================
