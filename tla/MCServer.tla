------------------------------ MODULE MCServer ------------------------------
(* Model-checking instances of Server.                                     *)
EXTENDS Server, TLC

\* Sessions and requesters are compared only for equality.
Symmetry == Permutations(Session) \cup Permutations(Requester)
=============================================================================
