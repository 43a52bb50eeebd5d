------------------------------ MODULE MCReifier ------------------------------
(* Rules over four atoms with cycles that several rules make together,    *)
(* and one statement for each other kind of tuple; tuples are shared by    *)
(* statements and differ in the order of their elements.                   *)
EXTENDS Reifier

Tuple(kind, args) == [kind |-> kind, args |-> args]

Statement(kind, plain, tuples) ==
  [kind |-> kind, plain |-> plain, tuples |-> tuples, head |-> <<>>, body |-> <<>>]

Normal(type, head, body) ==
  [kind |-> "rule", plain |-> <<type, "normal">>,
   tuples |-> <<Tuple("atom_tuple", head), Tuple("literal_tuple", body)>>,
   head |-> head, body |-> body]

Weighted(head, bound, wlits) ==
  [kind |-> "rule", plain |-> <<"disjunction", "sum", bound>>,
   tuples |-> <<Tuple("atom_tuple", head), Tuple("weighted_literal_tuple", wlits)>>,
   head |-> head, body |-> [k \in DOMAIN wlits |-> wlits[k][1]]]

MCStatements ==
  {Normal("disjunction", <<1>>, <<2>>),
   Normal("disjunction", <<2>>, <<1, -3>>),
   Normal("choice", <<3, 2>>, <<4>>),
   Normal("disjunction", <<4>>, <<1>>),
   Weighted(<<4>>, 2, <<<<3, 1>>, <<-1, 2>>>>),
   Statement("theory_function", <<5, 0>>, <<Tuple("theory_tuple", <<0, 1>>)>>),
   Statement("theory_element", <<0>>,
             <<Tuple("theory_tuple", <<1, 0>>), Tuple("literal_tuple", <<1, -3>>)>>),
   Statement("theory_atom", <<4, 5>>, <<Tuple("theory_element_tuple", <<0, 1>>)>>)}
=============================================================================
