--------------------------- MODULE MCMatchUpload ----------------------------
(***************************************************************************)
(* Small instances of MatchUpload.                                         *)
(***************************************************************************)
EXTENDS MatchUpload, TLC

CONSTANTS p1, p2, a, b, c, s1

(* Three matches of one session; c is won by the other player. *)
MCSlot == (s1 :> <<p1, p2>>)
MCSessionOf == (a :> s1) @@ (b :> s1) @@ (c :> s1)
MCResult == (a :> 1) @@ (b :> 1) @@ (c :> 2)

Symmetry == Permutations({a, b}) \cup Permutations(Uuids)
=============================================================================
