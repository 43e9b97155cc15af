--------------------------- MODULE MCSignalServer ---------------------------
(***************************************************************************)
(* Small instances of SignalServer.  u1 has two connections, so that it    *)
(* can reconnect before the close event of the first; u2 has one.          *)
(***************************************************************************)
EXTENDS SignalServer, TLC

CONSTANTS u1, u2, s1, s2, s3

MCAccount == (s1 :> u1) @@ (s2 :> u1) @@ (s3 :> u2)
MCTwoSockets == (s1 :> u1) @@ (s3 :> u2)
MCOneUser == (s1 :> u1) @@ (s2 :> u1)

(* Clients that join before they create or change a lobby: of the two      *)
(* writes that set a user adrift only the end of a lookup remains.         *)
ClientsJoinFirst == adrift' # adrift => geo' # geo

(* The two connections of u1, the ids and the lookup slots are alike. *)
Symmetry == Permutations({s1, s2}) \cup Permutations(MatchIds) \cup Permutations(Lookups)
=============================================================================
