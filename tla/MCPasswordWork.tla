--------------------------- MODULE MCPasswordWork ---------------------------
(* An instance of PasswordWork for TLC; no symmetry, as its properties are  *)
(* temporal.                                                               *)
EXTENDS PasswordWork
=============================================================================
