------------------------------ MODULE MCToPods ------------------------------
(* RotationToPods for TLC: a rotation by executions that do not overlap,    *)
(* versions, executions and pods as model values, a replica and a surge of  *)
(* one.                                                                     *)
EXTENDS RotationToPods
=============================================================================
