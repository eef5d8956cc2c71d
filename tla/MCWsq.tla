------------------------------- MODULE MCWsq -------------------------------
(* Small instances of Wsq for TLC. *)
EXTENDS Wsq, TLC

\* The thieves run the same code on their own variables.
Symm == Permutations(Thief)
=============================================================================
