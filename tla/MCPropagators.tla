---------------------------- MODULE MCPropagators ----------------------------
(* Three solver threads and two propagators: the third thread waits while  *)
(* the other two are in callbacks, and a sequential propagator may come    *)
(* before or after one that is not.                                        *)
EXTENDS Propagators

MCThread == {"t1", "t2", "t3"}
=============================================================================
