------------------------------- MODULE MCChaos -------------------------------
(* Model-checking instance of Chaos.                                       *)
EXTENDS Chaos

\* Sessions are compared only for equality.
Symmetry == Permutations(Session)
=============================================================================
