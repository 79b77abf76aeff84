--------------------------- MODULE MCGroupCommit ---------------------------
(* Model-checking instances of GroupCommit.                                *)
EXTENDS GroupCommit, TLC

Symmetry == Permutations(Client)
=============================================================================
