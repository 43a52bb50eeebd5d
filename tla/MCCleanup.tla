------------------------------ MODULE MCCleanup ------------------------------
(* The cleanup of a domain with up to five atoms, any of which may go. *)
EXTENDS Cleanup

MCSymbol == {"a", "b", "c", "d", "e"}
=============================================================================
