----------------------------- MODULE MCRotation -----------------------------
(* CredentialRotation for TLC: versions and executions as model values.     *)
EXTENDS CredentialRotation, TLC

\* Versions a rotation may create are interchangeable, and so are executions.
\* Used by the run without liveness only.
Symmetry ==
    Permutations(Version \ {InitialVersion, ForeignVersion})
        \union Permutations(Execution)
=============================================================================
