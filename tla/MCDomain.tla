------------------------------- MODULE MCDomain -------------------------------
(* A domain of three symbols with an index over all and one over two of    *)
(* them, as for literals p(X) and p(1,X).                                  *)
EXTENDS Domain, TLC
CONSTANTS a, b, c
MCSym == {a, b, c}
MCIndex == {"all", "some"}
MCMatch == [i \in MCIndex |-> IF i = "all" THEN MCSym ELSE {a, b}]
MCSymmetry == Permutations({a, b})
=============================================================================
