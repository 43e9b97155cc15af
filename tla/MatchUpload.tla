----------------------------- MODULE MatchUpload -----------------------------
(***************************************************************************)
(* uploadMatchData of the express server (src/src/express-server/          *)
(* firebaseCalls.js): one uploaded match is a sequence of Firestore calls, *)
(* each of which may fail and end the upload.  Both players may upload one *)
(* match, and an upload may be tried again: each call of uploadMatchData   *)
(* is an element of Uploads.                                               *)
(*                                                                         *)
(* A rating is the set of uploads whose results have gone into it, so that *)
(* a lost update shows.  An entry of a session's matches is the upload     *)
(* that wrote it.  Characters, supers, names and times are left out.  An   *)
(* operator whose name ends in Mutant is the one after it with a plausible *)
(* bug in it, and unused.                                                  *)
(***************************************************************************)
EXTENDS Naturals, FiniteSets

CONSTANTS
  Players, Sessions,
  Uploads,     \* the calls of one behaviour (a bound)
  InFlight,    \* how many of them run at once (a bound)
  Uuids,       \* what matchUuid can be: of the payload, or else of the clock
  SessionOf,   \* matchData.matchId of each upload
  Slot,        \* <<player1, player2>> of each session
  Result,      \* which of the two won
  None         \* no document

Sides == {1, 2}

ASSUME UploadAssumption ==
  /\ SessionOf \in [Uploads -> Sessions]
  /\ Slot \in [Sessions -> [Sides -> Players]] /\ Result \in [Uploads -> Sides]
  /\ \A s \in Sessions : Slot[s][1] # Slot[s][2]

PlayerOf(up, i) == Slot[SessionOf[up]][i]
Won(up, i) == Result[up] = i

Streak == [current : Nat, longest : Nat]
Doc == [matches : SUBSET Uploads, wins : [Sides -> Nat]]
User == [accountElo : SUBSET Uploads, winStreak : Nat, longestWinStreak : Nat]
Stats == [accountElo : SUBSET Uploads, totalGames : Nat, totalWins : Nat, totalLosses : Nat,
          winStreak : Nat, longestWinStreak : Nat]

(* What a call knows: the session it read, its win counts, the ratings it  *)
(* read, the streaks it made and how far it has come with each player's.    *)
Task == [read : Doc \cup {None}, wins : [Sides -> Nat], elo : [Sides -> SUBSET Uploads],
         streak : [Sides -> Streak], chain : [Sides -> {"todo", "updated", "done"}]]

ASSUME NoneAssumption == None \notin Doc \cup Uuids \cup Uploads
ASSUME InFlightAssumption == InFlight \in Nat \ {0}
ASSUME FiniteAssumption == IsFiniteSet(Uploads)

VARIABLES
  guard,         \* global-match-entries
  session,       \* global-matches
  streaks,       \* user-win-streaks
  users,         \* users
  stats,         \* player-stats
  recent,        \* recent-matches: the win counts both players' entries of a session show
  globalStats,   \* global-stats: wins of each side
  pc, uuid, task,  \* where each call is, its matchUuid, and what else it knows
  solo,          \* history: the call that started when no other was running, if it is the last
  clobbered      \* history: sessions that were created while they existed

docs == <<guard, session, streaks, users, stats, recent, globalStats>>
vars == <<guard, session, streaks, users, stats, recent, globalStats, pc, uuid, task, solo,
          clobbered>>

Zero == [i \in Sides |-> 0]
NoStreak == [current |-> 0, longest |-> 0]
NoTask == [read |-> None, wins |-> Zero, elo |-> [i \in Sides |-> {}],
           streak |-> [i \in Sides |-> NoStreak], chain |-> [i \in Sides |-> "todo"]]

Init ==
  /\ guard = {}
  /\ session = [s \in Sessions |-> None]
  /\ streaks = [p \in Players |-> NoStreak]
  /\ users = [p \in Players |-> [accountElo |-> {}, winStreak |-> 0, longestWinStreak |-> 0]]
  /\ stats = [p \in Players |->
       [accountElo |-> {}, totalGames |-> 0, totalWins |-> 0, totalLosses |-> 0,
        winStreak |-> 0, longestWinStreak |-> 0]]
  /\ recent = [s \in Sessions |-> Zero]
  /\ globalStats = Zero
  /\ pc = [up \in Uploads |-> "idle"]
  /\ uuid = [up \in Uploads |-> None]
  /\ task = [up \in Uploads |-> NoTask]
  /\ solo = None
  /\ clobbered = {}

Go(up, to) == pc' = [pc EXCEPT ![up] = to]

ChainsOver(up) == \A i \in Sides : task[up].chain[i] = "done"

(* A call that still may write: a failed one does while the streak of the  *)
(* other player is on its way.                                             *)
Running(up) ==
  \/ pc[up] \notin {"idle", "ok", "failed", "duplicate", "abandoned"}
  \/ pc[up] = "abandoned" /\ ~ChainsOver(up)

Others(up) == {v \in Uploads \ {up} : Running(v)}
-----------------------------------------------------------------------------
(* The transaction on the duplicate guard. *)
ReserveMutant(up, id) ==                 \* the existing entry is not looked at
  /\ pc[up] = "idle" /\ Cardinality(Others(up)) < InFlight
  /\ guard' = guard \cup {id} /\ Go(up, "guarded")
  /\ uuid' = [uuid EXCEPT ![up] = id]
  /\ solo' = IF Others(up) = {} THEN up ELSE None
  /\ UNCHANGED <<session, streaks, users, stats, recent, globalStats, task, clobbered>>

Reserve(up, id) ==
  /\ pc[up] = "idle" /\ Cardinality(Others(up)) < InFlight
  /\ IF id \in guard
       THEN Go(up, "duplicate") /\ UNCHANGED guard
       ELSE Go(up, "guarded") /\ guard' = guard \cup {id}
  /\ uuid' = [uuid EXCEPT ![up] = id]
  /\ solo' = IF Others(up) = {} THEN up ELSE None
  /\ UNCHANGED <<session, streaks, users, stats, recent, globalStats, task, clobbered>>

(* sessionRef.get, and then the document is created or updated.  The win   *)
(* counts are those of the matches that were read, with the new one.       *)
ReadSession(up) ==
  /\ pc[up] = "guarded" /\ Go(up, "read")
  /\ task' = [task EXCEPT ![up].read = session[SessionOf[up]]]
  /\ UNCHANGED <<docs, uuid, solo, clobbered>>

WinsIn(matches) == [i \in Sides |-> Cardinality({up \in matches : Won(up, i)})]

Known(read) == IF read = None THEN {} ELSE read.matches

CountedWinsMutant(read, up) == WinsIn(Known(read))    \* before the new match is in the list

CountedWins(read, up) == WinsIn(Known(read) \cup {up})

MergedMutant(doc, read, up) == Known(read) \cup {up}          \* the list that was read

Merged(doc, read, up) == doc.matches \cup {up}                \* arrayUnion

StoreSession(up) ==
  LET s == SessionOf[up]
      read == task[up].read
      wins == CountedWins(read, up)
  IN  /\ pc[up] = "read" /\ Go(up, "stored")
      /\ session' = [session EXCEPT ![s] =
           [matches |-> IF read = None THEN {up} ELSE Merged(@, read, up), wins |-> wins]]
      /\ clobbered' = IF read = None /\ session[s] # None THEN clobbered \cup {s} ELSE clobbered
      /\ task' = [task EXCEPT ![up].wins = wins, ![up].read = None]
      /\ UNCHANGED <<guard, streaks, users, stats, recent, globalStats, uuid, solo>>

(* getUserElo of player1, then of player2. *)
ReadElo(up, i) ==
  /\ pc[up] = <<"stored", "elo1">>[i] /\ Go(up, <<"elo1", "rated">>[i])
  /\ task' = [task EXCEPT ![up].elo[i] = users[PlayerOf(up, i)].accountElo]
  /\ UNCHANGED <<docs, uuid, solo, clobbered>>
-----------------------------------------------------------------------------
(* updateWinStreakRecord of both players at once: a transaction, then the  *)
(* copy in the user's document.  When one of them fails the upload is      *)
(* answered, and the other one goes on.                                    *)
Larger(a, b) == IF a > b THEN a ELSE b

NextStreak(p, won) ==
  LET current == IF won THEN streaks[p].current + 1 ELSE 0
  IN  [current |-> current, longest |-> Larger(current, streaks[p].longest)]

Chain(up, i, from) == pc[up] \in {"rated", "abandoned"} /\ task[up].chain[i] = from

UpdateStreak(up, i) ==
  LET p == PlayerOf(up, i)
      next == NextStreak(p, Won(up, i))
  IN  /\ Chain(up, i, "todo")
      /\ streaks' = [streaks EXCEPT ![p] = next]
      /\ task' = [task EXCEPT ![up].streak[i] = next, ![up].chain[i] = "updated"]
      /\ UNCHANGED <<guard, session, users, stats, recent, globalStats, pc, uuid, solo, clobbered>>

UpsertStreak(up, i) ==
  /\ Chain(up, i, "updated")
  /\ users' = [users EXCEPT ![PlayerOf(up, i)].winStreak = task[up].streak[i].current,
                            ![PlayerOf(up, i)].longestWinStreak = task[up].streak[i].longest]
  /\ task' = [task EXCEPT ![up].chain[i] = "done"]
  /\ UNCHANGED <<guard, session, streaks, stats, recent, globalStats, pc, uuid, solo, clobbered>>

FailStreak(up, i) ==
  /\ Chain(up, i, "todo") \/ Chain(up, i, "updated")
  /\ Go(up, "abandoned")
  /\ task' = [task EXCEPT ![up].chain[i] = "done"]
  /\ UNCHANGED <<docs, uuid, solo, clobbered>>
-----------------------------------------------------------------------------
NewElo(up, i) == task[up].elo[i] \cup {up}     \* calculateNewElo

SetElo(up, i) ==
  /\ pc[up] = <<"rated", "set1">>[i] /\ Go(up, <<"set1", "set2">>[i])
  /\ ChainsOver(up)
  /\ users' = [users EXCEPT ![PlayerOf(up, i)].accountElo = NewElo(up, i)]
  /\ UNCHANGED <<guard, session, streaks, stats, recent, globalStats, uuid, task, solo, clobbered>>

(* The batch: the recent match and the statistics of both players. *)
StatsAfterMutant(up, i, old) ==          \* whichPlayer is always player1
  [accountElo |-> NewElo(up, i), totalGames |-> old.totalGames + 1,
   totalWins   |-> old.totalWins + (IF Won(up, 1) THEN 1 ELSE 0),
   totalLosses |-> old.totalLosses + (IF Won(up, 1) THEN 0 ELSE 1),
   winStreak |-> task[up].streak[i].current, longestWinStreak |-> task[up].streak[i].longest]

StatsAfterMutant2(up, i, old) ==         \* the longest streak is not written
  [accountElo |-> NewElo(up, i), totalGames |-> old.totalGames + 1,
   totalWins   |-> old.totalWins + (IF Won(up, i) THEN 1 ELSE 0),
   totalLosses |-> old.totalLosses + (IF Won(up, i) THEN 0 ELSE 1),
   winStreak |-> task[up].streak[i].current]

StatsAfter(up, i, old) ==
  [accountElo |-> NewElo(up, i), totalGames |-> old.totalGames + 1,
   totalWins   |-> old.totalWins + (IF Won(up, i) THEN 1 ELSE 0),
   totalLosses |-> old.totalLosses + (IF Won(up, i) THEN 0 ELSE 1),
   winStreak |-> task[up].streak[i].current, longestWinStreak |-> task[up].streak[i].longest]

Commit(up) ==
  /\ pc[up] = "set2" /\ Go(up, "counted")
  /\ stats' = [p \in Players |->
       IF \E i \in Sides : p = PlayerOf(up, i)
         THEN StatsAfter(up, CHOOSE i \in Sides : p = PlayerOf(up, i), stats[p])
         ELSE stats[p]]
  /\ recent' = [recent EXCEPT ![SessionOf[up]] = task[up].wins]
  /\ UNCHANGED <<guard, session, streaks, users, globalStats, uuid, task, solo, clobbered>>

(* The global statistics, whose error is swallowed.  The notifications     *)
(* before them change nothing here (SignalServer has their effect).        *)
SetGlobalStats(up) ==
  /\ pc[up] = "counted" /\ Go(up, "ok")
  /\ \/ globalStats' = [globalStats EXCEPT ![Result[up]] = @ + 1]
     \/ UNCHANGED globalStats
  /\ task' = [task EXCEPT ![up] = NoTask]
  /\ UNCHANGED <<guard, session, streaks, users, stats, recent, uuid, solo, clobbered>>

(* A Firestore call of the upload rejects, whether or not it was applied,  *)
(* and the client is answered 403.                                         *)
Fail(up) ==
  /\ \/ pc[up] \in {"guarded", "read", "stored", "elo1", "set1", "set2"}
     \/ pc[up] = "rated" /\ ChainsOver(up)
  /\ Go(up, "failed")
  /\ task' = [task EXCEPT ![up] = NoTask]
  /\ UNCHANGED <<docs, uuid, solo, clobbered>>
-----------------------------------------------------------------------------
Step(up) ==
  \/ ReadSession(up) \/ StoreSession(up) \/ Commit(up) \/ SetGlobalStats(up)
  \/ \E i \in Sides : \/ ReadElo(up, i) \/ UpdateStreak(up, i) \/ UpsertStreak(up, i)
                      \/ SetElo(up, i)

Next == \E up \in Uploads :
  \/ Step(up) \/ Fail(up)
  \/ \E id \in Uuids : Reserve(up, id)
  \/ \E i \in Sides : FailStreak(up, i)

Spec == Init /\ [][Next]_vars
-----------------------------------------------------------------------------
(* Documents and calls keep to their types. *)
TypeOK ==
  /\ guard \subseteq Uuids
  /\ session \in [Sessions -> Doc \cup {None}]
  /\ streaks \in [Players -> Streak]
  /\ users \in [Players -> User]
  /\ stats \in [Players -> Stats]
  /\ recent \in [Sessions -> [Sides -> Nat]]
  /\ globalStats \in [Sides -> Nat]
  /\ pc \in [Uploads -> {"idle", "guarded", "read", "stored", "elo1", "rated", "abandoned",
                         "set1", "set2", "counted", "ok", "failed", "duplicate"}]
  /\ uuid \in [Uploads -> Uuids \cup {None}]
  /\ task \in [Uploads -> Task]
  /\ solo \in Uploads \cup {None}
  /\ clobbered \subseteq Sessions

Counted(up) == pc[up] \in {"counted", "ok"}

(* The uploads, their failures and the duplicate guard together promise    *)
(* what MatchLog says: a match is counted once and for both players.       *)
Log == INSTANCE MatchLog WITH
  Ids <- Uuids, taken <- guard, counted <- {uuid[up] : up \in {v \in Uploads : Counted(v)}},
  games <- [p \in Players |-> stats[p].totalGames]

CountsOnce == Log!Spec

(* Every counted match has one winner and one loser, whichever uploads run *)
(* at the same time and fail: a player's statistics have a win for each    *)
(* counted match the player won, a loss for each one lost and no other     *)
(* game, and the global ones have no win that was not counted.             *)
WonBy(p) ==
  {up \in Uploads : Counted(up) /\ \E i \in Sides : PlayerOf(up, i) = p /\ Won(up, i)}

LostBy(p) ==
  {up \in Uploads : Counted(up) /\ \E i \in Sides : PlayerOf(up, i) = p /\ ~Won(up, i)}

OneWinnerEach ==
  /\ \A p \in Players :
       /\ stats[p].totalWins = Cardinality(WonBy(p))
       /\ stats[p].totalLosses = Cardinality(LostBy(p))
       /\ stats[p].totalGames = stats[p].totalWins + stats[p].totalLosses
  /\ \A i \in Sides :
       globalStats[i] <= Cardinality({up \in Uploads : Counted(up) /\ Won(up, i)})

(* A counted match stays in its session's list, unless two uploads created *)
(* the session: concurrent updates of the list lose nothing.               *)
CountedIsListed ==
  \A up \in Uploads :
    Counted(up) /\ SessionOf[up] \notin clobbered => up \in session[SessionOf[up]].matches

(* An upload that ran alone leaves every copy of what it wrote equal,      *)
(* whatever failed or overlapping uploads left behind before: the rating   *)
(* and the streak in the user's document and in the statistics, the streak *)
(* record, and the win counts of the session, which are those of its list. *)
(* updateUserData, by which a client can set its own winStreak, is not     *)
(* one of the writers here.                                                *)
SoloSettles ==
  \A up \in Uploads : solo = up /\ pc[up] = "ok" =>
    LET doc == session[SessionOf[up]]
    IN  /\ up \in doc.matches /\ doc.wins = WinsIn(doc.matches) /\ doc.wins = recent[SessionOf[up]]
        /\ \A i \in Sides :
             LET p == PlayerOf(up, i)
             IN  /\ users[p].accountElo = stats[p].accountElo
                 /\ users[p].winStreak = streaks[p].current
                 /\ stats[p].winStreak = streaks[p].current
                 /\ users[p].longestWinStreak = streaks[p].longest
                 /\ stats[p].longestWinStreak = streaks[p].longest

=============================================================================
