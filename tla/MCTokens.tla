------------------------------ MODULE MCTokens ------------------------------
(* UserTokens for TLC: tokens, browsers and processes as model values.      *)
EXTENDS UserTokens, TLC

\* Tokens are interchangeable.
Symmetry == Permutations(Token)
=============================================================================
