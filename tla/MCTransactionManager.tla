------------------------ MODULE MCTransactionManager ------------------------
(* Model-checking instances of TransactionManager.                         *)
EXTENDS TransactionManager, TLC

\* Sessions are compared only for equality.
Symmetry == Permutations(Session)
=============================================================================
