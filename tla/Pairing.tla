------------------------------ MODULE Pairing -------------------------------
(***************************************************************************)
(* What the match registry of the websocket server promises to the rest of *)
(* the system (handleRequestMatch, forceCloseMatchForUser and their        *)
(* callers in src/src/websocket-server): a match is there for all of its   *)
(* players or for none; a user who leaves, or is asked for in a new match, *)
(* leaves every match it was in, and nobody else's match is touched.       *)
(*                                                                         *)
(* The promise does not extend to users who are adrift, for whom a stale   *)
(* write has separated the entry from the registry: a call about one of    *)
(* them may end another match than its own, or none.                       *)
(***************************************************************************)
CONSTANTS Users, MatchIds

VARIABLES
  matches,   \* the players of each registered match, {} for the other ids
  adrift     \* users for whom nothing is promised

vars == <<matches, adrift>>

Live == {m \in MatchIds : matches[m] # {}}

MatchesOf(S) == {m \in MatchIds : matches[m] \cap S # {}}

Init == matches = [m \in MatchIds |-> {}] /\ adrift = {}

(* The matches that a call about the users S ends. *)
Ends(S, gone) ==
  /\ gone \subseteq Live
  /\ MatchesOf(S \ adrift) \subseteq gone
  /\ S \cap adrift = {} => gone \subseteq MatchesOf(S)

Without(gone) == [m \in MatchIds |-> IF m \in gone THEN {} ELSE matches[m]]

Leave(u, gone) ==
  /\ Ends({u}, gone)
  /\ matches' = Without(gone)
  /\ adrift' = adrift

(* A request that finds a player offline, and one that starts a match. *)
Refuse(c, o, gone) ==
  /\ Ends({c, o}, gone)
  /\ matches' = Without(gone)
  /\ adrift' = adrift

Start(c, o, gone, m) ==
  /\ Ends({c, o}, gone)
  /\ m \in MatchIds \ Live
  /\ matches' = [Without(gone) EXCEPT ![m] = {c, o}]
  /\ adrift' = adrift

Drift(u) == adrift' = adrift \cup {u} /\ UNCHANGED matches

Next ==
  \/ \E u \in Users : Drift(u) \/ \E gone \in SUBSET MatchIds : Leave(u, gone)
  \/ \E c, o \in Users, gone \in SUBSET MatchIds :
       Refuse(c, o, gone) \/ \E m \in MatchIds : Start(c, o, gone, m)

Spec == Init /\ [][Next]_vars
=============================================================================
