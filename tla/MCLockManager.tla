--------------------------- MODULE MCLockManager ---------------------------
(* Model-checking instances of LockManager.                                *)
EXTENDS LockManager, TLC

\* Transactions are compared only for equality, and so are keys.
Symmetry == Permutations(Txn) \cup Permutations(Key)
=============================================================================
