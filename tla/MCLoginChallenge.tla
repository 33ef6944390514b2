-------------------------- MODULE MCLoginChallenge --------------------------
(* An instance of LoginChallenge for TLC.                                  *)
EXTENDS LoginChallenge, TLC

Symmetry == Permutations(Calls)
=============================================================================
