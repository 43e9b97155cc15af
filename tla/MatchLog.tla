------------------------------ MODULE MatchLog -------------------------------
(***************************************************************************)
(* What uploadMatchData promises (src/src/express-server/firebaseCalls.js: *)
(* "Duplicate match detected globally, skipping upload"): however often    *)
(* and by whomever a match is uploaded, it enters the statistics at most   *)
(* once, and those of both players at the same time.  A match that was     *)
(* taken and is never counted is lost.                                     *)
(***************************************************************************)
EXTENDS Naturals

CONSTANTS Players, Ids

VARIABLES
  taken,     \* ids that an upload has claimed
  counted,   \* ids that are in the statistics
  games      \* games in each player's statistics

vars == <<taken, counted, games>>

Init == taken = {} /\ counted = {} /\ games = [p \in Players |-> 0]

Take(id) ==
  /\ id \notin taken
  /\ taken' = taken \cup {id}
  /\ UNCHANGED <<counted, games>>

Count(id, p, q) ==
  /\ id \in taken \ counted /\ p # q
  /\ counted' = counted \cup {id}
  /\ games' = [games EXCEPT ![p] = @ + 1, ![q] = @ + 1]
  /\ UNCHANGED taken

Next == \E id \in Ids : Take(id) \/ \E p, q \in Players : Count(id, p, q)

Spec == Init /\ [][Next]_vars
=============================================================================
