----------------------------- MODULE MCAccounts -----------------------------
(* Instances of Accounts for TLC.                                          *)
EXTENDS Accounts, TLC

Symmetry == Permutations(KmsKey) \cup Permutations(Task) \cup Permutations(Namespace)
=============================================================================
