---------------------------- MODULE MCHeartbeat -----------------------------
(***************************************************************************)
(* A small instance of Heartbeat: u1 has two connections, so that one of   *)
(* them may fall silent while the other answers; u2 has one.               *)
(***************************************************************************)
EXTENDS Heartbeat, TLC

CONSTANTS u1, u2, s1, s2, s3

MCAccount == (s1 :> u1) @@ (s2 :> u1) @@ (s3 :> u2)
=============================================================================
