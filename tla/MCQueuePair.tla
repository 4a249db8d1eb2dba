----------------------------- MODULE MCQueuePair -----------------------------
(* Small queue pairs for TLC.                                               *)
EXTENDS QueuePair, TLC

Symmetry == Permutations(Commands) \union Permutations(Units)
=============================================================================
