---------------------------- MODULE MCHolePunch -----------------------------
(***************************************************************************)
(* Small instances of HolePunch.                                           *)
(***************************************************************************)
EXTENDS HolePunch, TLC

Symmetry == Permutations(Users) \cup Permutations(Endpoints) \cup Permutations(MatchIds)
=============================================================================
