----------------------------- MODULE MCDelivery -----------------------------
(* SecretDelivery for TLC: versions and pods as model values, two replicas  *)
(* and a surge of one as in the Deployment.                                 *)
EXTENDS SecretDelivery
=============================================================================
