----------------------------- MODULE MCSessions -----------------------------
(* Instances of Sessions for TLC.                                          *)
EXTENDS Sessions, TLC

Symmetry == Permutations(SessionKey) \cup Permutations(Request) \cup Permutations(Email)
=============================================================================
