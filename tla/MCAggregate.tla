---------------------------- MODULE MCAggregate ----------------------------
(***************************************************************************)
(* Aggregates over up to three elements, made of three tuples with the     *)
(* weights 1, 2 and -1 and four conditions: none, an atom, another one,    *)
(* and the negation of the first.                                          *)
(***************************************************************************)
EXTENDS Aggregate

MCTuple == {"one", "two", "minus"}
MCWeight == [t \in MCTuple |-> CASE t = "one" -> 1 [] t = "two" -> 2 [] t = "minus" -> -1]

MCInf == -9

Lit(s, a) == [sign |-> s, atom |-> a]
MCClauses == {{}, {Lit("POS", "p")}, {Lit("POS", "q")}, {Lit("NOT", "p")}}

Rel(r, b) == [rel |-> r, bound |-> b]

(* The relations of each function, so that there are violating values      *)
(* below, above, between and on both sides of the satisfying ones.         *)
MCRels(fun) ==
  CASE fun = "COUNT" -> {<<Rel("GEQ", 2)>>, <<Rel("NEQ", 1)>>}
    [] fun = "SUM"   -> {<<Rel("GT", 1)>>, <<Rel("LEQ", 1)>>, <<Rel("NEQ", 2)>>,
                         <<Rel("GEQ", 0), Rel("LT", 3)>>}
    [] fun = "SUMP"  -> {<<Rel("GEQ", 2)>>, <<Rel("EQ", 2)>>}
    [] fun = "MIN"   -> {<<Rel("LT", 2)>>, <<Rel("GT", -1), Rel("LEQ", 1)>>}
    [] fun = "MAX"   -> {<<Rel("GEQ", 1)>>, <<Rel("NEQ", 1)>>}

Funs == {"COUNT", "SUM", "SUMP", "MIN", "MAX"}

MCBodies ==
  {a \in [kind : {"body"}, fun : Funs, rels : UNION {MCRels(f) : f \in Funs},
          naf : {"POS", "NOT", "NOTNOT"}, mode : {"stratified", "positive", "recursive"}] :
     /\ a.rels \in MCRels(a.fun)
     /\ a.mode = "positive" => a.naf = "POS" /\ MonotoneStatement(a)
     /\ a.naf = "NOTNOT" => a.fun \in {"COUNT", "MIN"}}

MCAssignments ==
  [kind : {"assignment"}, fun : Funs, rels : {<<>>}, naf : {"POS"},
   mode : {"stratified", "recursive"}]

MCPrograms == MCBodies \union MCAssignments

(* An aggregate with two bounds, the second out of reach. *)
MCTwoBounds ==
  {[kind |-> "body", fun |-> "SUM", rels |-> <<Rel("GT", 0), Rel("NEQ", 4)>>,
    naf |-> "POS", mode |-> "stratified"]}
=============================================================================
