----------------------------- MODULE MCMiniGame -----------------------------
(***************************************************************************)
(* Small instances of MiniGame.                                            *)
(***************************************************************************)
EXTENDS MiniGame, TLC

CONSTANTS u1, u2, u3

(* u1 and u2 challenge each other, and u1 challenges u3; who is muted      *)
(* keeps the other challenges out.                                         *)
MCMuted == {<<u1, u3>>, <<u2, u3>>, <<u3, u2>>}
=============================================================================
