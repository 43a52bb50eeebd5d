--------------------------- MODULE MCConditional ---------------------------
(* Two elements, conditions over p and, if they may be recursive, over q,  *)
(* heads over q and r.                                                     *)
EXTENDS Conditional

Lit(s, a) == [sign |-> s, atom |-> a]

MCConditions ==
  {{}, {Lit("POS", "p")}, {Lit("NOT", "p")}, {Lit("POS", "p"), Lit("POS", "q")}}

Q == {Lit("POS", "q")}
MCHeads == {{}, Q, {Lit("POS", "r")}, {Lit("NOT", "q")}}
MCHeadSets == {{}, {{}}, {Q}, {{Lit("NOT", "q")}}, {Q, {Lit("POS", "r")}}}

MCMaxReports == [conjunction |-> 4, disjunction |-> 3]
=============================================================================
