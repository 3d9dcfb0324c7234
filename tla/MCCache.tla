------------------------------ MODULE MCCache ------------------------------
(* TtlCache for TLC: keys and goroutines are model values, given in the     *)
(* configurations.  Without symmetry, because the run checks liveness.      *)
EXTENDS TtlCache
=============================================================================
