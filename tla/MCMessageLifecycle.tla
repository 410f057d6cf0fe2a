------------------------- MODULE MCMessageLifecycle -------------------------
(* Instances of MessageLifecycle for TLC.                                  *)
EXTENDS MessageLifecycle, TLC

Symmetry == Permutations(MessageId)
=============================================================================
