--------------------------- MODULE MCMatchTeardown ---------------------------
(***************************************************************************)
(* Small instances of MatchTeardown.                                       *)
(***************************************************************************)
EXTENDS MatchTeardown, TLC

Symmetry == Permutations(Users) \cup Permutations(MatchIds) \cup Permutations(Endpoints) \cup Permutations(RegistryIds)
=============================================================================
