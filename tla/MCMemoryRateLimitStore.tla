----------------------- MODULE MCMemoryRateLimitStore -----------------------
(* An instance of MemoryRateLimitStore for TLC.                            *)
EXTENDS MemoryRateLimitStore, TLC

MCTimes == 0..2

Symmetry == Permutations(Keys) \cup Permutations(Revisions)
=============================================================================
