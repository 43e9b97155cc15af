-------------------------- MODULE MatchUploadProofs --------------------------
(***************************************************************************)
(* Theorems about MatchUpload, for any number of players, sessions and     *)
(* uploads: the typing, that a counted match is listed, that an upload     *)
(* which runs alone leaves every copy equal, that the uploads implement    *)
(* MatchLog, that the statistics are the counted matches, and that no copy *)
(* of a streak exceeds its record.                                         *)
(***************************************************************************)
EXTENDS MatchUpload, FiniteSetTheorems, TLAPS

LEMMA PlayerType ==
  ASSUME NEW up \in Uploads, NEW i \in Sides
  PROVE  PlayerOf(up, i) \in Players
BY UploadAssumption DEF PlayerOf

LEMMA TwoPlayers ==
  ASSUME NEW up \in Uploads
  PROVE  PlayerOf(up, 1) # PlayerOf(up, 2)
BY UploadAssumption DEF PlayerOf

LEMMA WinsType ==
  ASSUME NEW matches \in SUBSET Uploads
  PROVE  WinsIn(matches) \in [Sides -> Nat]
<1>1. ASSUME NEW i \in Sides
      PROVE  Cardinality({up \in matches : Won(up, i)}) \in Nat
  BY FiniteAssumption, FS_Subset, FS_CardinalityType
<1>. QED
  BY <1>1 DEF WinsIn

LEMMA StreakType ==
  ASSUME TypeOK, NEW p \in Players, NEW won \in BOOLEAN
  PROVE  NextStreak(p, won) \in Streak
BY DEF NextStreak, Larger, Streak, TypeOK

LEMMA UploadInit == Init => TypeOK
BY DEF Init, TypeOK, NoTask, NoStreak, Zero, Task, Streak, User, Stats, Doc, Sides

(* Calls that only read, claim or fail. *)
LEMMA ReserveType ==
  ASSUME TypeOK, NEW up \in Uploads, NEW id \in Uuids, Reserve(up, id)
  PROVE  TypeOK'
BY DEF TypeOK, Reserve, Go

LEMMA NoTaskType == NoTask \in Task
BY DEF NoTask, NoStreak, Zero, Task, Streak, Sides

(* One field of what a call knows. *)
LEMMA TaskType ==
  ASSUME NEW t \in Task, NEW i \in Sides
  PROVE  /\ \A read \in Doc \cup {None} : [t EXCEPT !.read = read] \in Task
         /\ \A wins \in [Sides -> Nat] : [t EXCEPT !.wins = wins] \in Task
         /\ \A elo \in SUBSET Uploads : [t EXCEPT !.elo[i] = elo] \in Task
         /\ \A next \in Streak : [t EXCEPT !.streak[i] = next] \in Task
         /\ \A at \in {"todo", "updated", "done"} : [t EXCEPT !.chain[i] = at] \in Task
<1>1. \A read \in Doc \cup {None} : [t EXCEPT !.read = read] \in Task
  BY DEF Task
<1>2. \A wins \in [Sides -> Nat] : [t EXCEPT !.wins = wins] \in Task
  BY DEF Task
<1>3. ASSUME NEW elo \in SUBSET Uploads
      PROVE  [t EXCEPT !.elo[i] = elo] \in Task
  <2>1. [t.elo EXCEPT ![i] = elo] \in [Sides -> SUBSET Uploads]
    BY DEF Task
  <2>. QED
    BY <2>1 DEF Task
<1>4. ASSUME NEW next \in Streak
      PROVE  [t EXCEPT !.streak[i] = next] \in Task
  <2>1. [t.streak EXCEPT ![i] = next] \in [Sides -> Streak]
    BY DEF Task
  <2>. QED
    BY <2>1 DEF Task
<1>5. ASSUME NEW at \in {"todo", "updated", "done"}
      PROVE  [t EXCEPT !.chain[i] = at] \in Task
  <2>1. [t.chain EXCEPT ![i] = at] \in [Sides -> {"todo", "updated", "done"}]
    BY DEF Task
  <2>. QED
    BY <2>1 DEF Task
<1>. QED
  BY <1>1, <1>2, <1>3, <1>4, <1>5

LEMMA FailType ==
  ASSUME TypeOK, NEW up \in Uploads, Fail(up)
  PROVE  TypeOK'
BY NoTaskType DEF TypeOK, Fail, Go, docs

LEMMA ReadSessionType ==
  ASSUME TypeOK, NEW up \in Uploads, ReadSession(up)
  PROVE  TypeOK'
<1>1. session[SessionOf[up]] \in Doc \cup {None}
  BY UploadAssumption DEF TypeOK
<1>2. task' \in [Uploads -> Task]
  <2>1. [task[up] EXCEPT !.read = session[SessionOf[up]]] \in Task
    BY <1>1, TaskType DEF TypeOK, Sides
  <2>. QED
    BY <2>1 DEF TypeOK, ReadSession
<1>. QED
  BY <1>2 DEF TypeOK, ReadSession, Go, docs

(* A session that a call has read exists: documents are never deleted. *)
ReadIsKnown == \A up \in Uploads : task[up].read # None => session[SessionOf[up]] # None

LEMMA StoreSessionType ==
  ASSUME TypeOK, ReadIsKnown, NEW up \in Uploads, StoreSession(up)
  PROVE  TypeOK' /\ ReadIsKnown'
<1> DEFINE s == SessionOf[up]
           read == task[up].read
           wins == CountedWins(read, up)
           list == IF read = None THEN {up} ELSE Merged(session[s], read, up)
           doc == [matches |-> list, wins |-> wins]
<1>1. s \in Sessions /\ read \in Doc \cup {None} /\ session[s] \in Doc \cup {None}
  BY UploadAssumption DEF TypeOK, Task
<1>2. wins \in [Sides -> Nat]
  <2>1. Known(read) \cup {up} \in SUBSET Uploads
    BY <1>1 DEF Known, Doc
  <2>. QED
    BY <2>1, WinsType DEF CountedWins
<1>3. list \in SUBSET Uploads
  BY <1>1 DEF Merged, Doc, ReadIsKnown
<1>4. doc \in Doc
  BY <1>2, <1>3 DEF Doc
<1>5. /\ session' = [session EXCEPT ![s] = doc]
      /\ task' = [task EXCEPT ![up].wins = wins, ![up].read = None]
      /\ clobbered' \subseteq clobbered \cup {s}
      /\ pc' = [pc EXCEPT ![up] = "stored"]
      /\ UNCHANGED <<guard, streaks, users, stats, recent, globalStats, uuid, solo>>
  BY DEF StoreSession, Go
<1> HIDE DEF s, read, wins, list, doc
<1>6. task' \in [Uploads -> Task]
  <2>1. [task[up] EXCEPT !.wins = wins] \in Task
    BY <1>2, TaskType DEF TypeOK, Sides
  <2>2. [[task[up] EXCEPT !.wins = wins] EXCEPT !.read = None] \in Task
    BY <2>1, TaskType DEF Sides
  <2>. QED
    BY <1>5, <2>2 DEF TypeOK
<1>7. session' \in [Sessions -> Doc \cup {None}]
  BY <1>4, <1>5 DEF TypeOK
<1>8. TypeOK'
  BY <1>1, <1>5, <1>6, <1>7 DEF TypeOK
<1>9. ReadIsKnown'
  BY <1>1, <1>4, <1>5, NoneAssumption DEF ReadIsKnown, TypeOK
<1>. QED
  BY <1>8, <1>9

LEMMA ReadEloType ==
  ASSUME TypeOK, NEW up \in Uploads, NEW i \in Sides, ReadElo(up, i)
  PROVE  TypeOK'
<1>1. users[PlayerOf(up, i)].accountElo \in SUBSET Uploads
  BY PlayerType DEF TypeOK, User
<1>2. task' \in [Uploads -> Task]
  <2>1. [task[up] EXCEPT !.elo[i] = users[PlayerOf(up, i)].accountElo] \in Task
    BY <1>1, TaskType DEF TypeOK
  <2>. QED
    BY <2>1 DEF TypeOK, ReadElo
<1>3. pc' \in [Uploads -> {"idle", "guarded", "read", "stored", "elo1", "rated", "abandoned",
                           "set1", "set2", "counted", "ok", "failed", "duplicate"}]
  BY DEF TypeOK, ReadElo, Go, Sides
<1>. QED
  BY <1>2, <1>3 DEF TypeOK, ReadElo, docs

LEMMA UpdateStreakType ==
  ASSUME TypeOK, NEW up \in Uploads, NEW i \in Sides, UpdateStreak(up, i)
  PROVE  TypeOK'
<1> DEFINE p == PlayerOf(up, i)
           next == NextStreak(p, Won(up, i))
<1>1. p \in Players /\ next \in Streak
  BY PlayerType, StreakType DEF Won
<1>2. /\ streaks' = [streaks EXCEPT ![p] = next]
      /\ task' = [task EXCEPT ![up].streak[i] = next, ![up].chain[i] = "updated"]
      /\ UNCHANGED <<guard, session, users, stats, recent, globalStats, pc, uuid, solo, clobbered>>
  BY DEF UpdateStreak
<1> HIDE DEF p, next
<1>3. task' \in [Uploads -> Task]
  <2>1. [task[up] EXCEPT !.streak[i] = next] \in Task
    BY <1>1, TaskType DEF TypeOK
  <2>2. [[task[up] EXCEPT !.streak[i] = next] EXCEPT !.chain[i] = "updated"] \in Task
    BY <2>1, TaskType
  <2>. QED
    BY <1>2, <2>2 DEF TypeOK
<1>. QED
  BY <1>1, <1>2, <1>3 DEF TypeOK

(* Fields of a user's document. *)
LEMMA UserType ==
  ASSUME NEW d \in User
  PROVE  /\ \A elo \in SUBSET Uploads : [d EXCEPT !.accountElo = elo] \in User
         /\ \A m, n \in Nat : [d EXCEPT !.winStreak = m, !.longestWinStreak = n] \in User
BY DEF User

LEMMA UpsertStreakType ==
  ASSUME TypeOK, NEW up \in Uploads, NEW i \in Sides, UpsertStreak(up, i)
  PROVE  TypeOK'
<1>1. task[up].streak[i] \in Streak
  BY DEF TypeOK, Task
<1>2. users' \in [Players -> User]
  <2> DEFINE p == PlayerOf(up, i)
             mine == task[up].streak[i]
  <2>1. [users[p] EXCEPT !.winStreak = mine.current, !.longestWinStreak = mine.longest] \in User
    BY <1>1, PlayerType, UserType DEF TypeOK, Streak
  <2>. QED
    BY <2>1, PlayerType DEF TypeOK, UpsertStreak
<1>3. task' \in [Uploads -> Task]
  <2>1. [task[up] EXCEPT !.chain[i] = "done"] \in Task
    BY TaskType DEF TypeOK
  <2>. QED
    BY <2>1 DEF TypeOK, UpsertStreak
<1>. QED
  BY <1>2, <1>3 DEF TypeOK, UpsertStreak

LEMMA FailStreakType ==
  ASSUME TypeOK, NEW up \in Uploads, NEW i \in Sides, FailStreak(up, i)
  PROVE  TypeOK'
<1>1. task' \in [Uploads -> Task]
  <2>1. [task[up] EXCEPT !.chain[i] = "done"] \in Task
    BY TaskType DEF TypeOK
  <2>. QED
    BY <2>1 DEF TypeOK, FailStreak
<1>. QED
  BY <1>1 DEF TypeOK, FailStreak, Go, docs

LEMMA SetEloType ==
  ASSUME TypeOK, NEW up \in Uploads, NEW i \in Sides, SetElo(up, i)
  PROVE  TypeOK'
<1>1. NewElo(up, i) \in SUBSET Uploads
  BY DEF NewElo, TypeOK, Task
<1>2. users' \in [Players -> User]
  <2>1. [users[PlayerOf(up, i)] EXCEPT !.accountElo = NewElo(up, i)] \in User
    BY <1>1, PlayerType, UserType DEF TypeOK
  <2>. QED
    BY <2>1, PlayerType DEF TypeOK, SetElo
<1>3. pc' \in [Uploads -> {"idle", "guarded", "read", "stored", "elo1", "rated", "abandoned",
                           "set1", "set2", "counted", "ok", "failed", "duplicate"}]
  BY DEF TypeOK, SetElo, Go, Sides
<1>. QED
  BY <1>2, <1>3 DEF TypeOK, SetElo

(* The batch, for the player on side i and for the others. *)
LEMMA CommittedStats ==
  ASSUME NEW up \in Uploads, Commit(up), NEW p \in Players
  PROVE  /\ \A i \in Sides : p = PlayerOf(up, i) => stats'[p] = StatsAfter(up, i, stats[p])
         /\ (\A i \in Sides : p # PlayerOf(up, i)) => stats'[p] = stats[p]
BY TwoPlayers DEF Commit, Sides

LEMMA StatsAfterType ==
  ASSUME TypeOK, NEW up \in Uploads, NEW i \in Sides, NEW p \in Players
  PROVE  StatsAfter(up, i, stats[p]) \in Stats
<1>1. NewElo(up, i) \in SUBSET Uploads
  BY DEF NewElo, TypeOK, Task
<1>2. /\ stats[p].totalGames \in Nat /\ stats[p].totalWins \in Nat /\ stats[p].totalLosses \in Nat
      /\ task[up].streak[i].current \in Nat /\ task[up].streak[i].longest \in Nat
  BY DEF TypeOK, Stats, Task, Streak
<1>. QED
  BY <1>1, <1>2 DEF StatsAfter, Stats

LEMMA CommitType ==
  ASSUME TypeOK, NEW up \in Uploads, Commit(up)
  PROVE  TypeOK'
<1>1. ASSUME NEW p \in Players
      PROVE  stats'[p] \in Stats
  BY <1>1, CommittedStats, StatsAfterType DEF TypeOK
<1>2. stats' \in [Players -> Stats]
  BY <1>1 DEF Commit
<1>3. recent' \in [Sessions -> [Sides -> Nat]]
  BY DEF TypeOK, Commit, Task
<1>. QED
  BY <1>2, <1>3 DEF TypeOK, Commit, Go

LEMMA SetGlobalStatsType ==
  ASSUME TypeOK, NEW up \in Uploads, SetGlobalStats(up)
  PROVE  TypeOK'
<1>1. globalStats' \in [Sides -> Nat]
  BY UploadAssumption DEF TypeOK, SetGlobalStats
<1>. QED
  BY <1>1, NoTaskType DEF TypeOK, SetGlobalStats, Go

(* A step that changes no session and makes no call know more of them. *)
LEMMA SameReads ==
  ASSUME ReadIsKnown, UNCHANGED session,
         \A v \in Uploads : task'[v].read \in {None, task[v].read}
  PROVE  ReadIsKnown'
BY DEF ReadIsKnown

LEMMA UploadStepType ==
  TypeOK /\ ReadIsKnown /\ [Next]_vars => TypeOK' /\ ReadIsKnown'
<1> SUFFICES ASSUME TypeOK, ReadIsKnown, [Next]_vars
             PROVE  TypeOK' /\ ReadIsKnown'
  OBVIOUS
<1>1. ASSUME NEW up \in Uploads, StoreSession(up)
      PROVE  TypeOK' /\ ReadIsKnown'
  BY <1>1, StoreSessionType
<1>2. ASSUME NEW up \in Uploads, ReadSession(up)
      PROVE  TypeOK' /\ ReadIsKnown'
  <2>1. UNCHANGED session /\ task' = [task EXCEPT ![up].read = session[SessionOf[up]]]
    BY <1>2 DEF ReadSession, docs
  <2>2. \A v \in Uploads : \/ task'[v].read = task[v].read
                              \/ task'[v].read = session[SessionOf[v]]
    BY <2>1 DEF TypeOK, Task
  <2>. QED
    BY <1>2, <2>1, <2>2, ReadSessionType DEF ReadIsKnown
<1>3. ASSUME NEW up \in Uploads, NEW i \in Sides,
             ReadElo(up, i) \/ UpdateStreak(up, i) \/ UpsertStreak(up, i) \/ FailStreak(up, i)
      PROVE  TypeOK' /\ ReadIsKnown'
  <2>1. TypeOK'
    BY <1>3, ReadEloType, UpdateStreakType, UpsertStreakType, FailStreakType
  <2>2. UNCHANGED session /\ \A v \in Uploads : task'[v].read = task[v].read
    <3>1. CASE ReadElo(up, i)
      BY <3>1 DEF ReadElo, docs, TypeOK, Task
    <3>2. CASE UpdateStreak(up, i)
      BY <3>2 DEF UpdateStreak, TypeOK, Task
    <3>3. CASE UpsertStreak(up, i)
      BY <3>3 DEF UpsertStreak, TypeOK, Task
    <3>4. CASE FailStreak(up, i)
      BY <3>4 DEF FailStreak, docs, TypeOK, Task
    <3>. QED
      BY <1>3, <3>1, <3>2, <3>3, <3>4
  <2>. QED
    BY <2>1, <2>2, SameReads
<1>4. ASSUME NEW up \in Uploads,
             \/ Commit(up)
             \/ \E i \in Sides : SetElo(up, i)
             \/ \E id \in Uuids : Reserve(up, id)
      PROVE  TypeOK' /\ ReadIsKnown'
  <2>1. TypeOK'
    BY <1>4, CommitType, SetEloType, ReserveType
  <2>2. UNCHANGED <<session, task>>
    BY <1>4 DEF Commit, SetElo, Reserve
  <2>. QED
    BY <2>1, <2>2, SameReads
<1>5. ASSUME NEW up \in Uploads, SetGlobalStats(up) \/ Fail(up)
      PROVE  TypeOK' /\ ReadIsKnown'
  <2>1. TypeOK'
    BY <1>5, SetGlobalStatsType, FailType
  <2>2. UNCHANGED session /\ task' = [task EXCEPT ![up] = NoTask]
    BY <1>5 DEF SetGlobalStats, Fail, docs
  <2>. QED
    BY <2>1, <2>2, SameReads DEF NoTask, TypeOK
<1>6. CASE UNCHANGED vars
  BY <1>6 DEF vars, TypeOK, ReadIsKnown
<1>. QED
  BY <1>1, <1>2, <1>3, <1>4, <1>5, <1>6 DEF Next, Step

LEMMA UploadTyping == Spec => [](TypeOK /\ ReadIsKnown)
<1>1. Init => ReadIsKnown
  BY DEF Init, ReadIsKnown, NoTask
<1>. QED
  BY <1>1, UploadInit, UploadStepType, PTL DEF Spec

(* Whatever calls overlap and wherever they fail, no document is left with *)
(* a field missing or of another type.                                     *)
THEOREM UploadTypeCorrect == Spec => []TypeOK
BY UploadTyping, PTL
-----------------------------------------------------------------------------
(* What every step of a call that has claimed its match leaves alone.      *)
Works(up) == Step(up) \/ Fail(up) \/ \E i \in Sides : FailStreak(up, i)

LEMMA WorkStep ==
  ASSUME TypeOK, NEW up \in Uploads, Works(up)
  PROVE  /\ UNCHANGED <<guard, uuid, solo>>
         /\ Running(up)
         /\ pc'[up] \notin {"idle", "duplicate"}
         /\ \A v \in Uploads \ {up} : pc'[v] = pc[v] /\ task'[v] = task[v]
<1> USE DEF TypeOK, Go, Running, docs, Sides
<1>1. CASE ReadSession(up) \/ StoreSession(up)
  BY <1>1 DEF ReadSession, StoreSession
<1>2. CASE \E i \in Sides : ReadElo(up, i)
  BY <1>2 DEF ReadElo
<1>3. ASSUME NEW i \in Sides, UpdateStreak(up, i) \/ UpsertStreak(up, i) \/ FailStreak(up, i)
      PROVE  /\ UNCHANGED <<guard, uuid, solo>>
             /\ Running(up)
             /\ pc'[up] \notin {"idle", "duplicate"}
             /\ \A v \in Uploads \ {up} : pc'[v] = pc[v] /\ task'[v] = task[v]
  <2>1. Running(up) /\ pc[up] \in {"rated", "abandoned"}
    BY <1>3 DEF UpdateStreak, UpsertStreak, FailStreak, Chain, ChainsOver
  <2>. QED
    BY <1>3, <2>1 DEF UpdateStreak, UpsertStreak, FailStreak
<1>4. CASE \E i \in Sides : SetElo(up, i)
  BY <1>4 DEF SetElo
<1>5. CASE Commit(up) \/ SetGlobalStats(up)
  BY <1>5 DEF Commit, SetGlobalStats
<1>6. CASE Fail(up)
  BY <1>6 DEF Fail
<1>. QED
  BY <1>1, <1>2, <1>3, <1>4, <1>5, <1>6 DEF Works, Step

LEMMA NextIsWork ==
  Next <=> \E up \in Uploads : Works(up) \/ \E id \in Uuids : Reserve(up, id)
BY DEF Next, Works

(* Only its batch makes a call one that has counted its match.             *)
LEMMA CountedStep ==
  ASSUME TypeOK, NEW up \in Uploads, Works(up)
  PROVE  /\ \A v \in Uploads \ {up} : Counted(v)' <=> Counted(v)
         /\ Commit(up) => ~Counted(up) /\ Counted(up)'
         /\ ~Commit(up) => (Counted(up)' <=> Counted(up)) /\ UNCHANGED stats
<1> USE DEF TypeOK, Go, docs, Sides, Counted
<1>1. \A v \in Uploads \ {up} : Counted(v)' <=> Counted(v)
  BY WorkStep
<1>2. CASE ReadSession(up) \/ StoreSession(up)
  BY <1>1, <1>2 DEF ReadSession, StoreSession, Commit
<1>3. CASE \E i \in Sides : ReadElo(up, i)
  BY <1>1, <1>3 DEF ReadElo, Commit
<1>4. CASE \E i \in Sides : UpdateStreak(up, i) \/ UpsertStreak(up, i) \/ FailStreak(up, i)
  BY <1>1, <1>4 DEF UpdateStreak, UpsertStreak, FailStreak, Chain, Commit
<1>5. CASE \E i \in Sides : SetElo(up, i)
  BY <1>1, <1>5 DEF SetElo, Commit
<1>6. CASE Commit(up) \/ SetGlobalStats(up)
  BY <1>1, <1>6 DEF Commit, SetGlobalStats
<1>7. CASE Fail(up)
  BY <1>1, <1>7 DEF Fail, Commit
<1>. QED
  BY <1>2, <1>3, <1>4, <1>5, <1>6, <1>7 DEF Works, Step
-----------------------------------------------------------------------------
(* A call that has got past the guard has its id in it, and no other call  *)
(* got past it with the same id: the transaction lets one in.              *)
Claimed(up) == pc[up] \notin {"idle", "duplicate"}

OneClaimEach ==
  /\ \A up \in Uploads : Claimed(up) => uuid[up] \in guard
  /\ \A up, v \in Uploads : Claimed(up) /\ Claimed(v) /\ up # v => uuid[up] # uuid[v]

LEMMA ClaimStep ==
  TypeOK /\ OneClaimEach /\ [Next]_vars => OneClaimEach'
<1> SUFFICES ASSUME TypeOK, OneClaimEach, [Next]_vars
             PROVE  OneClaimEach'
  OBVIOUS
<1>1. ASSUME NEW up \in Uploads, Works(up)
      PROVE  OneClaimEach'
  <2>1. \A v \in Uploads : Claimed(v)' => Claimed(v)
    BY <1>1, WorkStep DEF Claimed, Running
  <2>. QED
    BY <1>1, <2>1, WorkStep DEF OneClaimEach
<1>2. ASSUME NEW up \in Uploads, NEW id \in Uuids, Reserve(up, id)
      PROVE  OneClaimEach'
  <2>1. /\ guard \subseteq guard' /\ uuid' = [uuid EXCEPT ![up] = id]
        /\ \A v \in Uploads \ {up} : Claimed(v)' <=> Claimed(v)
    BY <1>2 DEF Reserve, Go, TypeOK, Claimed
  <2>2. Claimed(up)' => id \notin guard /\ id \in guard'
    BY <1>2 DEF Reserve, Go, TypeOK, Claimed
  <2>. QED
    BY <2>1, <2>2 DEF OneClaimEach, TypeOK
<1>3. CASE UNCHANGED vars
  BY <1>3 DEF vars, OneClaimEach, Claimed
<1>. QED
  BY <1>1, <1>2, <1>3, NextIsWork

LEMMA UploadInvariant == Spec => [](TypeOK /\ OneClaimEach)
<1>1. Init => OneClaimEach
  BY DEF Init, OneClaimEach, Claimed
<1>. QED
  BY <1>1, ClaimStep, UploadTyping, PTL DEF Spec

(* The two definitions by which MatchLog reads the uploads. *)
CountedIds == {uuid[up] : up \in {v \in Uploads : Counted(v)}}
Games == [p \in Players |-> stats[p].totalGames]

LEMMA CommitCounts ==
  ASSUME TypeOK, OneClaimEach, NEW up \in Uploads, Commit(up)
  PROVE  Log!Count(uuid[up], PlayerOf(up, 1), PlayerOf(up, 2))
<1> DEFINE p == PlayerOf(up, 1)
           q == PlayerOf(up, 2)
<1>1. p \in Players /\ q \in Players /\ p # q
  BY PlayerType, TwoPlayers DEF Sides
<1>2. Works(up) /\ pc[up] = "set2"
  BY DEF Works, Step, Commit
<1>3. /\ UNCHANGED <<guard, uuid>> /\ ~Counted(up) /\ Counted(up)'
      /\ \A v \in Uploads \ {up} : Counted(v)' <=> Counted(v)
  BY <1>2, WorkStep, CountedStep
<1>4. \A v \in Uploads : Counted(v) => Claimed(v)
  BY DEF Counted, Claimed
<1>5. uuid[up] \in guard \ CountedIds
  BY <1>2, <1>3, <1>4 DEF OneClaimEach, CountedIds, Claimed
<1>6. CountedIds' = CountedIds \cup {uuid[up]}
  BY <1>3 DEF CountedIds
<1>7. ASSUME NEW x \in Players
      PROVE  Games'[x] = IF x \in {p, q} THEN Games[x] + 1 ELSE Games[x]
  <2>1. ASSUME NEW i \in Sides, x = PlayerOf(up, i)
        PROVE  stats'[x].totalGames = stats[x].totalGames + 1
    <3>1. stats'[x] = StatsAfter(up, i, stats[x])
      BY <2>1, CommittedStats
    <3>. QED
      BY <3>1 DEF StatsAfter
  <2>2. CASE x \notin {p, q}
    <3>1. stats'[x] = stats[x]
      BY <2>2, CommittedStats DEF Sides
    <3>. QED
      BY <2>2, <3>1 DEF Games
  <2>. QED
    BY <2>1, <2>2 DEF Games, Sides
<1>8. Games' = [Games EXCEPT ![p] = @ + 1, ![q] = @ + 1]
  BY <1>1, <1>7 DEF Games
<1>. QED
  BY <1>1, <1>3, <1>5, <1>6, <1>8 DEF Log!Count, CountedIds, Games

LEMMA StepsOfLog ==
  TypeOK /\ OneClaimEach /\ [Next]_vars => [Log!Next]_(Log!vars)
<1> SUFFICES ASSUME TypeOK, OneClaimEach, [Next]_vars
             PROVE  [Log!Next]_(Log!vars)
  OBVIOUS
<1>1. ASSUME NEW up \in Uploads, Commit(up)
      PROVE  Log!Next
  <2>1. uuid[up] \in Uuids
    BY <1>1 DEF TypeOK, OneClaimEach, Claimed, Commit
  <2>2. PlayerOf(up, 1) \in Players /\ PlayerOf(up, 2) \in Players
    BY PlayerType DEF Sides
  <2>. QED
    BY <1>1, <2>1, <2>2, CommitCounts DEF Log!Next
<1>2. ASSUME NEW up \in Uploads, Works(up), ~Commit(up)
      PROVE  UNCHANGED Log!vars
  <2>1. /\ UNCHANGED <<guard, uuid, stats>>
        /\ \A v \in Uploads : Counted(v)' <=> Counted(v)
    BY <1>2, WorkStep, CountedStep
  <2>2. CountedIds' = CountedIds /\ Games' = Games
    BY <2>1 DEF CountedIds, Games
  <2>. QED
    BY <2>1, <2>2 DEF Log!vars, CountedIds, Games
<1>3. ASSUME NEW up \in Uploads, NEW id \in Uuids, Reserve(up, id)
      PROVE  Log!Take(id) \/ UNCHANGED Log!vars
  <2>1. \A v \in Uploads : /\ Counted(v)' <=> Counted(v)
                           /\ Counted(v) => uuid'[v] = uuid[v]
    BY <1>3 DEF Reserve, Go, TypeOK, Counted
  <2>2. CountedIds' = CountedIds
    BY <2>1 DEF CountedIds
  <2>3. Games' = Games
    BY <1>3 DEF Reserve, Games
  <2>. QED
    BY <1>3, <2>2, <2>3 DEF Reserve, Log!Take, Log!vars, CountedIds, Games
<1>4. CASE UNCHANGED vars
  <2>1. CountedIds' = CountedIds /\ Games' = Games
    BY <1>4 DEF vars, CountedIds, Counted, Games
  <2>. QED
    BY <1>4, <2>1 DEF vars, Log!vars, CountedIds, Games
<1>. QED
  BY <1>1, <1>2, <1>3, <1>4, NextIsWork DEF Log!Next

(* The uploads implement MatchLog: every step is a match that is taken, a  *)
(* match that is counted for both players and for the first time, or       *)
(* nothing that the log knows of.                                          *)
THEOREM UploadsCountOnce == Spec => CountsOnce
<1>1. Init => Log!Init
  BY DEF Init, Log!Init, Counted
<1>. QED
  BY <1>1, StepsOfLog, UploadInvariant, PTL DEF Spec, CountsOnce, Log!Spec
-----------------------------------------------------------------------------
(* A call that has stored its match in the session finds it there from     *)
(* then on, until somebody creates the session a second time.              *)
HasStored(up) == pc[up] \in {"stored", "elo1", "rated", "set1", "set2", "counted", "ok"}

StoredIsListed ==
  \A up \in Uploads : LET s == SessionOf[up] IN
    HasStored(up) /\ s \notin clobbered => session[s] # None /\ up \in session[s].matches

(* What StoreSession leaves of a session. *)
LEMMA StoredDoc ==
  ASSUME TypeOK, ReadIsKnown, NEW up \in Uploads, StoreSession(up)
  PROVE  LET s == SessionOf[up]
             read == task[up].read
         IN  /\ s \in Sessions /\ pc[up] = "read" /\ pc' = [pc EXCEPT ![up] = "stored"]
             /\ \A k \in Sessions \ {s} : session'[k] = session[k]
             /\ session'[s].wins = CountedWins(read, up) /\ session'[s] # None
             /\ session'[s].matches = IF read = None THEN {up} ELSE session[s].matches \cup {up}
             /\ task'[up].wins = session'[s].wins
             /\ clobbered' = IF read = None /\ session[s] # None THEN clobbered \cup {s}
                                                                 ELSE clobbered
             /\ UNCHANGED <<guard, streaks, users, stats, recent, globalStats, uuid, solo>>
<1> DEFINE s == SessionOf[up]
<1>1. s \in Sessions
  BY UploadAssumption
<1>2. session'[s] # None
  <2> DEFINE doc == [matches |-> IF task[up].read = None
                                   THEN {up} ELSE Merged(session[s], task[up].read, up),
                     wins |-> CountedWins(task[up].read, up)]
  <2>1. session' = [session EXCEPT ![s] = doc]
    BY DEF StoreSession
  <2>2. session'[s] = doc
    BY <1>1, <2>1 DEF TypeOK
  <2>3. doc \in Doc
    <3>1. [matches |-> doc.matches, wins |-> doc.wins] = doc
      OBVIOUS
    <3>2. task[up].read \in Doc \cup {None} /\ session[s] \in Doc \cup {None}
      BY <1>1 DEF TypeOK, Task
    <3>3. doc.matches \in SUBSET Uploads
      BY <3>2 DEF Merged, Doc, ReadIsKnown
    <3>4. Known(task[up].read) \cup {up} \in SUBSET Uploads
      BY <3>2 DEF Known, Doc
    <3>5. doc.wins \in [Sides -> Nat]
      BY <3>4, WinsType DEF CountedWins
    <3>. QED
      BY <3>1, <3>3, <3>5 DEF Doc
  <2>. QED
    BY <2>2, <2>3, NoneAssumption
<1>. QED
  BY <1>1, <1>2 DEF StoreSession, Merged, Go, TypeOK, Task

(* The other steps of a call leave the sessions alone, and do not pass the *)
(* point where they are stored.                                            *)
LEMMA SessionsStay ==
  ASSUME TypeOK, NEW up \in Uploads, Works(up), ~StoreSession(up)
  PROVE  UNCHANGED <<session, clobbered>> /\ (HasStored(up)' => HasStored(up))
<1> USE DEF TypeOK, Go, docs, Sides, HasStored
<1>1. CASE ReadSession(up)
  BY <1>1 DEF ReadSession
<1>2. CASE \E i \in Sides : ReadElo(up, i)
  BY <1>2 DEF ReadElo
<1>3. CASE \E i \in Sides : UpdateStreak(up, i) \/ UpsertStreak(up, i) \/ FailStreak(up, i)
  BY <1>3 DEF UpdateStreak, UpsertStreak, FailStreak
<1>4. CASE \E i \in Sides : SetElo(up, i)
  BY <1>4 DEF SetElo
<1>5. CASE Commit(up) \/ SetGlobalStats(up)
  BY <1>5 DEF Commit, SetGlobalStats
<1>6. CASE Fail(up)
  BY <1>6 DEF Fail
<1>. QED
  BY <1>1, <1>2, <1>3, <1>4, <1>5, <1>6 DEF Works, Step

LEMMA ListedStep ==
  TypeOK /\ ReadIsKnown /\ StoredIsListed /\ [Next]_vars => StoredIsListed'
<1> SUFFICES ASSUME TypeOK, ReadIsKnown, StoredIsListed, [Next]_vars
             PROVE  StoredIsListed'
  OBVIOUS
<1>1. ASSUME NEW up \in Uploads, StoreSession(up)
      PROVE  StoredIsListed'
  <2> SUFFICES ASSUME NEW v \in Uploads, HasStored(v)', SessionOf[v] \notin clobbered'
               PROVE  session'[SessionOf[v]] # None /\ v \in session'[SessionOf[v]].matches
    BY DEF StoredIsListed
  <2>1. SessionOf[v] \in Sessions /\ SessionOf[v] \notin clobbered /\ (v # up => HasStored(v))
    BY <1>1, StoredDoc, UploadAssumption DEF HasStored, TypeOK
  <2>2. CASE SessionOf[v] # SessionOf[up]
    <3>1. session'[SessionOf[v]] = session[SessionOf[v]]
      BY <1>1, <2>1, <2>2, StoredDoc
    <3>. QED
      BY <2>1, <2>2, <3>1 DEF StoredIsListed
  <2>3. CASE SessionOf[v] = SessionOf[up] /\ v # up
    <3>1. session[SessionOf[v]] # None /\ v \in session[SessionOf[v]].matches
      BY <2>1, <2>3 DEF StoredIsListed
    <3>2. task[up].read # None
      BY <1>1, <2>3, <3>1, StoredDoc
    <3>. QED
      BY <1>1, <2>3, <3>1, <3>2, StoredDoc
  <2>4. CASE v = up
    BY <1>1, <2>4, StoredDoc
  <2>. QED
    BY <2>2, <2>3, <2>4
<1>2. ASSUME NEW up \in Uploads, Works(up), ~StoreSession(up)
      PROVE  StoredIsListed'
  <2>1. \A v \in Uploads : HasStored(v)' => HasStored(v)
    BY <1>2, WorkStep, SessionsStay DEF HasStored
  <2>. QED
    BY <1>2, <2>1, SessionsStay DEF StoredIsListed
<1>3. ASSUME NEW up \in Uploads, NEW id \in Uuids, Reserve(up, id)
      PROVE  StoredIsListed'
  BY <1>3 DEF Reserve, Go, TypeOK, StoredIsListed, HasStored
<1>4. CASE UNCHANGED vars
  BY <1>4 DEF vars, StoredIsListed, HasStored
<1>. QED
  BY <1>1, <1>2, <1>3, <1>4, NextIsWork

(* A counted match stays in the list of its session, however the lists of  *)
(* other uploads of that session are merged into it, unless the session    *)
(* was created twice.                                                      *)
THEOREM ListedCorrect == Spec => []CountedIsListed
<1>1. Init => StoredIsListed
  BY DEF Init, StoredIsListed, HasStored
<1>2. StoredIsListed => CountedIsListed
  BY DEF StoredIsListed, CountedIsListed, HasStored, Counted
<1>. QED
  BY <1>1, <1>2, ListedStep, UploadTyping, PTL DEF Spec
-----------------------------------------------------------------------------
(* What an upload that runs alone knows at each of its stages: about the   *)
(* session, about the two streaks, about the two ratings, and in the end.  *)
SessionOwn(up) ==
  LET s == SessionOf[up] IN
  /\ pc[up] = "read" => task[up].read = session[s]
  /\ HasStored(up) => /\ session[s] # None /\ up \in session[s].matches
                      /\ session[s].wins = WinsIn(session[s].matches)
  /\ pc[up] \in {"stored", "elo1", "rated", "set1", "set2"} => task[up].wins = session[s].wins
  /\ pc[up] \in {"counted", "ok"} => recent[s] = session[s].wins

StreaksOwn(up) ==
  pc[up] \in {"rated", "set1", "set2"} => \A i \in Sides :
    LET p == PlayerOf(up, i)
        mine == task[up].streak[i]
    IN  /\ task[up].chain[i] # "todo" => streaks[p] = mine
        /\ task[up].chain[i] = "done" => /\ users[p].winStreak = mine.current
                                         /\ users[p].longestWinStreak = mine.longest
        /\ pc[up] # "rated" => task[up].chain[i] = "done"

RatingsOwn(up) ==
  /\ pc[up] \in {"set1", "set2"} => users[PlayerOf(up, 1)].accountElo = NewElo(up, 1)
  /\ pc[up] = "set2" => users[PlayerOf(up, 2)].accountElo = NewElo(up, 2)

CopiesEqual(up) ==
  pc[up] \in {"counted", "ok"} => \A i \in Sides :
    LET p == PlayerOf(up, i)
    IN  /\ users[p].accountElo = stats[p].accountElo
        /\ users[p].winStreak = streaks[p].current
        /\ stats[p].winStreak = streaks[p].current
        /\ users[p].longestWinStreak = streaks[p].longest
        /\ stats[p].longestWinStreak = streaks[p].longest

Alone(up) == \A v \in Uploads \ {up} : ~Running(v)

Own(up) == SessionOwn(up) /\ StreaksOwn(up) /\ RatingsOwn(up) /\ CopiesEqual(up)

(* The streaks of every call are still to be made until it has rated. *)
ChainsStart ==
  \A up \in Uploads : pc[up] \in {"idle", "guarded", "read", "stored", "elo1"} =>
    \A i \in Sides : task[up].chain[i] = "todo"

SoloInv == ChainsStart /\ \A up \in Uploads : solo = up => Alone(up) /\ Own(up)

(* The stages of one call, one lemma per group of them. *)
LEMMA SessionStages ==
  ASSUME TypeOK, ReadIsKnown, ChainsStart, NEW up \in Uploads, Alone(up), Own(up),
         ReadSession(up) \/ StoreSession(up)
  PROVE  /\ Own(up)'
         /\ \A i \in Sides : task'[up].chain[i] = "todo"
<1> USE DEF Own, StreaksOwn, RatingsOwn, CopiesEqual
<1>1. CASE ReadSession(up)
  <2>1. pc'[up] = "read" /\ task'[up].read = session'[SessionOf[up]]
    BY <1>1 DEF ReadSession, Go, TypeOK, Task, docs
  <2>2. \A i \in Sides : task'[up].chain[i] = "todo"
    BY <1>1 DEF ReadSession, ChainsStart, TypeOK, Task
  <2>. QED
    BY <2>1, <2>2 DEF SessionOwn, HasStored
<1>2. CASE StoreSession(up)
  <2> DEFINE s == SessionOf[up]
  <2>1. task[up].read = session[s]
    BY <1>2, StoredDoc DEF SessionOwn
  <2>2. session'[s].matches = Known(task[up].read) \cup {up}
    BY <1>2, <2>1, StoredDoc DEF Known
  <2>3. session'[s].wins = WinsIn(session'[s].matches)
    BY <1>2, <2>2, StoredDoc DEF CountedWins
  <2>4. pc'[up] = "stored"
    BY <1>2 DEF StoreSession, Go, TypeOK
  <2>5. \A i \in Sides : task'[up].chain[i] = "todo"
    BY <1>2 DEF StoreSession, ChainsStart, TypeOK, Task
  <2>. QED
    BY <1>2, <2>2, <2>3, <2>4, <2>5, StoredDoc DEF SessionOwn
<1>. QED
  BY <1>1, <1>2

LEMMA EloStages ==
  ASSUME TypeOK, ChainsStart, NEW up \in Uploads, Own(up), NEW i \in Sides, ReadElo(up, i)
  PROVE  /\ Own(up)'
         /\ \A j \in Sides : task'[up].chain[j] = "todo"
<1>1. \A j \in Sides : task'[up].chain[j] = "todo"
  BY DEF ReadElo, ChainsStart, TypeOK, Task, Sides
<1>2. /\ pc[up] \in {"stored", "elo1"} /\ pc'[up] \in {"elo1", "rated"}
      /\ UNCHANGED docs /\ task'[up].wins = task[up].wins
  BY DEF ReadElo, Go, TypeOK, Task, Sides
<1>3. SessionOwn(up)'
  BY <1>2 DEF Own, SessionOwn, HasStored, docs
<1>. QED
  BY <1>1, <1>2, <1>3 DEF Own, StreaksOwn, RatingsOwn, CopiesEqual

LEMMA StreakStages ==
  ASSUME TypeOK, NEW up \in Uploads, Own(up), NEW i \in Sides,
         UpdateStreak(up, i) \/ UpsertStreak(up, i) \/ FailStreak(up, i)
  PROVE  Own(up)'
<1>1. PlayerOf(up, i) \in Players /\ \A j \in Sides : j # i => PlayerOf(up, j) # PlayerOf(up, i)
  BY PlayerType, TwoPlayers DEF Sides
<1>2. CASE FailStreak(up, i)
  <2>1. pc'[up] = "abandoned"
    BY <1>2 DEF FailStreak, Go, TypeOK
  <2>. QED
    BY <2>1 DEF Own, SessionOwn, HasStored, StreaksOwn, RatingsOwn, CopiesEqual
<1>3. CASE UpdateStreak(up, i) \/ UpsertStreak(up, i)
  <2>1. /\ UNCHANGED <<pc, session, recent>> /\ pc[up] \in {"rated", "abandoned"}
        /\ task'[up].wins = task[up].wins
    BY <1>3 DEF UpdateStreak, UpsertStreak, Chain, TypeOK, Task
  <2>2. SessionOwn(up)' /\ RatingsOwn(up)' /\ CopiesEqual(up)'
    BY <2>1 DEF Own, SessionOwn, HasStored, RatingsOwn, CopiesEqual
  <2>3. CASE UpdateStreak(up, i)
    <3> DEFINE next == NextStreak(PlayerOf(up, i), Won(up, i))
    <3>1. /\ streaks' = [streaks EXCEPT ![PlayerOf(up, i)] = next] /\ users' = users
          /\ task'[up].streak[i] = next /\ task'[up].chain[i] = "updated"
          /\ \A j \in Sides : j # i => /\ task'[up].streak[j] = task[up].streak[j]
                                       /\ task'[up].chain[j] = task[up].chain[j]
      BY <2>3 DEF UpdateStreak, TypeOK, Task
    <3> HIDE DEF next
    <3>2. StreaksOwn(up)'
      BY <1>1, <2>1, <3>1, PlayerType DEF Own, StreaksOwn, TypeOK, PlayerOf
    <3>. QED
      BY <2>2, <3>2 DEF Own
  <2>4. CASE UpsertStreak(up, i)
    <3> DEFINE p == PlayerOf(up, i)
               mine == task[up].streak[i]
    <3>1. /\ streaks' = streaks /\ task[up].chain[i] = "updated" /\ task'[up].chain[i] = "done"
          /\ \A j \in Sides : task'[up].streak[j] = task[up].streak[j]
          /\ \A j \in Sides : j # i => task'[up].chain[j] = task[up].chain[j]
      <4>1. task' = [task EXCEPT ![up] = [task[up] EXCEPT !.chain = [@ EXCEPT ![i] = "done"]]]
        BY <2>4 DEF UpsertStreak
      <4>2. task[up] \in Task
        BY DEF TypeOK
      <4>3. /\ task'[up].streak = task[up].streak
            /\ task'[up].chain = [task[up].chain EXCEPT ![i] = "done"]
        BY <4>1, <4>2 DEF TypeOK, Task
      <4>. QED
        BY <2>4, <4>2, <4>3 DEF UpsertStreak, Chain, Task
    <3>2. /\ users'[p].winStreak = mine.current /\ users'[p].longestWinStreak = mine.longest
          /\ \A q \in Players \ {p} : users'[q] = users[q]
      <4>1. users' = [users EXCEPT ![p] =
                       [@ EXCEPT !.winStreak = mine.current, !.longestWinStreak = mine.longest]]
        BY <2>4 DEF UpsertStreak
      <4>2. users[p] \in User /\ p \in Players
        BY PlayerType DEF TypeOK
      <4>. QED
        BY <4>1, <4>2 DEF TypeOK, User
    <3>3. StreaksOwn(up)'
      <4> SUFFICES ASSUME pc[up] = "rated", NEW j \in Sides
                   PROVE  LET q == PlayerOf(up, j)
                              his == task[up].streak[j]
                          IN  /\ task'[up].chain[j] # "todo" => streaks[q] = his
                              /\ task'[up].chain[j] = "done" =>
                                   /\ users'[q].winStreak = his.current
                                   /\ users'[q].longestWinStreak = his.longest
        BY <2>1, <3>1 DEF StreaksOwn, PlayerOf
      <4>1. /\ task[up].chain[j] # "todo" => streaks[PlayerOf(up, j)] = task[up].streak[j]
            /\ task[up].chain[j] = "done" =>
                 /\ users[PlayerOf(up, j)].winStreak = task[up].streak[j].current
                 /\ users[PlayerOf(up, j)].longestWinStreak = task[up].streak[j].longest
        BY DEF Own, StreaksOwn
      <4>2. CASE j = i
        BY <3>1, <3>2, <4>1, <4>2
      <4>3. CASE j # i
        BY <1>1, <3>1, <3>2, <4>1, <4>3, PlayerType
      <4>. QED
        BY <4>2, <4>3
    <3>. QED
      BY <2>2, <3>3 DEF Own
  <2>. QED
    BY <1>3, <2>3, <2>4
<1>. QED
  BY <1>2, <1>3

LEMMA RatingStages ==
  ASSUME TypeOK, NEW up \in Uploads, Own(up), NEW i \in Sides, SetElo(up, i)
  PROVE  Own(up)'
<1> DEFINE p == PlayerOf(up, i)
<1>1. p \in Players /\ \A j \in Sides : j # i => PlayerOf(up, j) # p
  BY PlayerType, TwoPlayers DEF Sides
<1>2. /\ pc[up] = <<"rated", "set1">>[i] /\ pc'[up] = <<"set1", "set2">>[i]
      /\ \A j \in Sides : task[up].chain[j] = "done"
      /\ UNCHANGED <<session, streaks, stats, recent, task>>
  BY DEF SetElo, ChainsOver, Go, TypeOK
<1>3. /\ users'[p].accountElo = NewElo(up, i)
      /\ users'[p].winStreak = users[p].winStreak
      /\ users'[p].longestWinStreak = users[p].longestWinStreak
      /\ \A q \in Players \ {p} : users'[q] = users[q]
  BY <1>1 DEF SetElo, TypeOK, User
<1>4. pc[up] \in {"rated", "set1"} /\ pc'[up] \in {"set1", "set2"}
  BY <1>2 DEF Sides
<1>5. SessionOwn(up)' /\ CopiesEqual(up)'
  BY <1>2, <1>4 DEF Own, SessionOwn, HasStored, CopiesEqual
<1>6. StreaksOwn(up)'
  <2> SUFFICES ASSUME NEW j \in Sides
               PROVE  /\ streaks'[PlayerOf(up, j)] = task'[up].streak[j]
                      /\ users'[PlayerOf(up, j)].winStreak = task'[up].streak[j].current
                      /\ users'[PlayerOf(up, j)].longestWinStreak = task'[up].streak[j].longest
                      /\ task'[up].chain[j] = "done"
    BY DEF StreaksOwn, PlayerOf
  <2>1. PlayerOf(up, j) \in Players
    BY PlayerType
  <2>. QED
    BY <1>1, <1>2, <1>3, <1>4, <2>1 DEF Own, StreaksOwn
<1>7. RatingsOwn(up)'
  <2>1. \A j \in Sides : NewElo(up, j)' = NewElo(up, j)
    BY <1>2 DEF NewElo
  <2>2. CASE i = 1
    BY <1>2, <1>3, <2>1, <2>2 DEF RatingsOwn, PlayerOf
  <2>3. CASE i = 2
    <3>1. pc[up] = "set1" /\ PlayerOf(up, 1) \in Players \ {p}
      BY <1>1, <1>2, <2>3, PlayerType DEF Sides
    <3>2. users'[PlayerOf(up, 1)].accountElo = NewElo(up, 1)
      BY <1>3, <3>1 DEF Own, RatingsOwn
    <3>. QED
      BY <1>3, <2>1, <2>3, <3>2 DEF RatingsOwn, PlayerOf, Sides
  <2>. QED
    BY <2>2, <2>3 DEF Sides
<1>. QED
  BY <1>5, <1>6, <1>7 DEF Own

LEMMA LastStages ==
  ASSUME TypeOK, NEW up \in Uploads, Own(up), Commit(up) \/ SetGlobalStats(up) \/ Fail(up)
  PROVE  Own(up)'
<1>1. CASE Commit(up)
  <2>1. /\ pc[up] = "set2" /\ pc'[up] = "counted"
        /\ UNCHANGED <<session, streaks, users, task>>
        /\ recent'[SessionOf[up]] = task[up].wins
    BY <1>1, UploadAssumption DEF Commit, Go, TypeOK
  <2>2. SessionOwn(up)'
    BY <2>1 DEF Own, SessionOwn, HasStored
  <2>3. ASSUME NEW i \in Sides
        PROVE  LET p == PlayerOf(up, i)
               IN  /\ users[p].accountElo = stats'[p].accountElo
                   /\ users[p].winStreak = streaks[p].current
                   /\ stats'[p].winStreak = streaks[p].current
                   /\ users[p].longestWinStreak = streaks[p].longest
                   /\ stats'[p].longestWinStreak = streaks[p].longest
    <3> DEFINE p == PlayerOf(up, i)
    <3>1. stats'[p] = StatsAfter(up, i, stats[p])
      BY <1>1, PlayerType, CommittedStats
    <3>2. /\ stats'[p].accountElo = NewElo(up, i)
          /\ stats'[p].winStreak = task[up].streak[i].current
          /\ stats'[p].longestWinStreak = task[up].streak[i].longest
      BY <3>1 DEF StatsAfter
    <3>3. users[p].accountElo = NewElo(up, i)
      BY <2>1 DEF Own, RatingsOwn, Sides
    <3>4. /\ streaks[p] = task[up].streak[i] /\ users[p].winStreak = task[up].streak[i].current
          /\ users[p].longestWinStreak = task[up].streak[i].longest
      BY <2>1 DEF Own, StreaksOwn
    <3>. QED
      BY <3>2, <3>3, <3>4
  <2>4. CopiesEqual(up)'
    BY <2>1, <2>3 DEF CopiesEqual, PlayerOf
  <2>. QED
    BY <2>1, <2>2, <2>4 DEF Own, StreaksOwn, RatingsOwn
<1>2. CASE SetGlobalStats(up)
  <2>1. /\ pc[up] = "counted" /\ pc'[up] = "ok"
        /\ UNCHANGED <<session, streaks, users, stats, recent>>
    BY <1>2 DEF SetGlobalStats, Go, TypeOK
  <2>. QED
    BY <2>1 DEF Own, SessionOwn, HasStored, StreaksOwn, RatingsOwn, CopiesEqual, PlayerOf
<1>3. CASE Fail(up)
  <2>1. pc'[up] = "failed"
    BY <1>3 DEF Fail, Go, TypeOK
  <2>. QED
    BY <2>1 DEF Own, SessionOwn, HasStored, StreaksOwn, RatingsOwn, CopiesEqual
<1>. QED
  BY <1>1, <1>2, <1>3

(* The chains of all calls, and who runs. *)
LEMMA ChainsStep ==
  ASSUME TypeOK, ChainsStart, [Next]_vars
  PROVE  ChainsStart'
<1>1. ASSUME NEW up \in Uploads, Works(up)
      PROVE  ChainsStart'
  <2>1. pc'[up] \in {"idle", "guarded", "read", "stored", "elo1"} =>
          \A i \in Sides : task'[up].chain[i] = "todo"
    <3> USE DEF TypeOK, Go, docs, Sides
    <3>1. CASE ReadSession(up)
      BY <3>1 DEF ReadSession, ChainsStart, Task
    <3>2. CASE StoreSession(up)
      BY <3>2 DEF StoreSession, ChainsStart, Task
    <3>3. CASE \E i \in Sides : ReadElo(up, i)
      BY <3>3 DEF ReadElo, ChainsStart, Task
    <3>4. CASE \E i \in Sides : UpdateStreak(up, i) \/ UpsertStreak(up, i) \/ FailStreak(up, i)
      BY <3>4 DEF UpdateStreak, UpsertStreak, FailStreak, Chain
    <3>5. CASE \E i \in Sides : SetElo(up, i)
      BY <3>5 DEF SetElo
    <3>6. CASE Commit(up) \/ SetGlobalStats(up)
      BY <3>6 DEF Commit, SetGlobalStats
    <3>7. CASE Fail(up)
      BY <3>7 DEF Fail
    <3>. QED
      BY <1>1, <3>1, <3>2, <3>3, <3>4, <3>5, <3>6, <3>7 DEF Works, Step
  <2>. QED
    BY <1>1, <2>1, WorkStep DEF ChainsStart
<1>2. CASE \E up \in Uploads, id \in Uuids : Reserve(up, id)
  BY <1>2 DEF Reserve, Go, TypeOK, ChainsStart
<1>3. CASE UNCHANGED vars
  BY <1>3 DEF vars, ChainsStart
<1>. QED
  BY <1>1, <1>2, <1>3, NextIsWork

LEMMA SoloStep ==
  TypeOK /\ ReadIsKnown /\ SoloInv /\ [Next]_vars => SoloInv'
<1> SUFFICES ASSUME TypeOK, ReadIsKnown, SoloInv, [Next]_vars
             PROVE  SoloInv'
  OBVIOUS
<1>1. ChainsStart'
  BY ChainsStep DEF SoloInv
<1> SUFFICES ASSUME NEW w \in Uploads, solo' = w
             PROVE  Alone(w)' /\ Own(w)'
  BY <1>1 DEF SoloInv
<1>2. ASSUME NEW up \in Uploads, Works(up)
      PROVE  Alone(w)' /\ Own(w)'
  <2>1. solo = w /\ Alone(w) /\ Own(w)
    BY <1>2, WorkStep DEF SoloInv
  <2>2. up = w
    BY <1>2, <2>1, WorkStep DEF Alone
  <2>3. Alone(w)'
    BY <1>2, <2>1, <2>2, WorkStep DEF Alone, Running, ChainsOver
  <2>4. Own(w)'
    BY <1>2, <2>1, <2>2, SessionStages, EloStages, StreakStages, RatingStages, LastStages
       DEF Works, Step, SoloInv
  <2>. QED
    BY <2>3, <2>4
<1>3. ASSUME NEW up \in Uploads, NEW id \in Uuids, Reserve(up, id)
      PROVE  Alone(w)' /\ Own(w)'
  <2>1. Others(up) = {} /\ up = w
    BY <1>3, NoneAssumption DEF Reserve
  <2>2. task' = task /\ \A v \in Uploads \ {w} : pc'[v] = pc[v]
    BY <1>3, <2>1 DEF Reserve, Go, TypeOK
  <2>3. Alone(w)'
    BY <2>1, <2>2 DEF Alone, Others, Running, ChainsOver
  <2>4. pc'[w] \in {"guarded", "duplicate"}
    BY <1>3, <2>1 DEF Reserve, Go, TypeOK
  <2>. QED
    BY <2>3, <2>4 DEF Own, SessionOwn, HasStored, StreaksOwn, RatingsOwn, CopiesEqual
<1>4. CASE UNCHANGED vars
  BY <1>4 DEF vars, SoloInv, Alone, Running, ChainsOver, Own, SessionOwn, HasStored, StreaksOwn,
              RatingsOwn, NewElo, CopiesEqual, PlayerOf
<1>. QED
  BY <1>2, <1>3, <1>4, NextIsWork

(* An upload that nobody disturbed heals what earlier ones have left: all  *)
(* the copies of the two ratings, of the two streaks and of the win counts *)
(* are equal when it is over, for any number of players and uploads.       *)
THEOREM SoloCorrect == Spec => []SoloSettles
<1>1. Init => SoloInv
  BY NoneAssumption DEF Init, SoloInv, ChainsStart, NoTask
<1>2. SoloInv => SoloSettles
  BY DEF SoloInv, Own, SessionOwn, HasStored, CopiesEqual, SoloSettles
<1>. QED
  BY <1>1, <1>2, SoloStep, UploadTyping, PTL DEF Spec
-----------------------------------------------------------------------------
(* The wins that global-stats may have: those of the uploads that have been *)
(* answered.  A counted one has its write to global-stats still before it. *)
Answered(i) == {up \in Uploads : pc[up] = "ok" /\ Won(up, i)}

Tallied(p) ==
  /\ stats[p].totalWins = Cardinality(WonBy(p))
  /\ stats[p].totalLosses = Cardinality(LostBy(p))
  /\ stats[p].totalGames = stats[p].totalWins + stats[p].totalLosses

TallyInv ==
  /\ \A p \in Players : Tallied(p)
  /\ \A i \in Sides : globalStats[i] <= Cardinality(Answered(i))

LEMMA FiniteTallies ==
  /\ \A p \in Players : IsFiniteSet(WonBy(p)) /\ IsFiniteSet(LostBy(p))
  /\ \A i \in Sides : IsFiniteSet(Answered(i))
<1>1. ASSUME NEW p \in Players
      PROVE  IsFiniteSet(WonBy(p)) /\ IsFiniteSet(LostBy(p))
  <2>1. WonBy(p) \in SUBSET Uploads /\ LostBy(p) \in SUBSET Uploads
    BY DEF WonBy, LostBy
  <2>. QED
    BY <2>1, FiniteAssumption, FS_Subset
<1>2. ASSUME NEW i \in Sides
      PROVE  IsFiniteSet(Answered(i))
  <2>1. Answered(i) \in SUBSET Uploads
    BY DEF Answered
  <2>. QED
    BY <2>1, FiniteAssumption, FS_Subset
<1>. QED
  BY <1>1, <1>2

(* The batch adds the match to one tally of each of its players.           *)
LEMMA CommitTallies ==
  ASSUME TypeOK, NEW up \in Uploads, Commit(up), NEW p \in Players
  PROVE  /\ WonBy(p)' = IF \E i \in Sides : PlayerOf(up, i) = p /\ Won(up, i)
                           THEN WonBy(p) \cup {up} ELSE WonBy(p)
         /\ LostBy(p)' = IF \E i \in Sides : PlayerOf(up, i) = p /\ ~Won(up, i)
                            THEN LostBy(p) \cup {up} ELSE LostBy(p)
<1>1. /\ ~Counted(up) /\ Counted(up)'
      /\ \A v \in Uploads \ {up} : Counted(v)' <=> Counted(v)
  BY CountedStep DEF Works, Step
<1>2. WonBy(p)' = IF \E i \in Sides : PlayerOf(up, i) = p /\ Won(up, i)
                    THEN WonBy(p) \cup {up} ELSE WonBy(p)
  BY <1>1 DEF WonBy
<1>3. LostBy(p)' = IF \E i \in Sides : PlayerOf(up, i) = p /\ ~Won(up, i)
                     THEN LostBy(p) \cup {up} ELSE LostBy(p)
  BY <1>1 DEF LostBy
<1>. QED
  BY <1>2, <1>3

LEMMA CommitKeepsTally ==
  ASSUME TypeOK, NEW up \in Uploads, Commit(up), NEW p \in Players, Tallied(p)
  PROVE  Tallied(p)'
<1> USE DEF Sides
<1>1. up \notin WonBy(p) /\ up \notin LostBy(p)
  BY CountedStep DEF WonBy, LostBy, Works, Step
<1>2. /\ IsFiniteSet(WonBy(p)) /\ Cardinality(WonBy(p)) \in Nat
      /\ IsFiniteSet(LostBy(p)) /\ Cardinality(LostBy(p)) \in Nat
  BY FiniteTallies, FS_CardinalityType
<1>3. /\ Cardinality(WonBy(p) \cup {up}) = Cardinality(WonBy(p)) + 1
      /\ Cardinality(LostBy(p) \cup {up}) = Cardinality(LostBy(p)) + 1
  BY <1>1, <1>2, FS_AddElement
<1>4. ASSUME NEW i \in Sides, p = PlayerOf(up, i), Won(up, i)
      PROVE  Tallied(p)'
  <2>1. stats'[p] = StatsAfter(up, i, stats[p])
    BY <1>4, CommittedStats
  <2>2. /\ WonBy(p)' = WonBy(p) \cup {up}
        /\ LostBy(p)' = LostBy(p)
    BY <1>4, CommitTallies, TwoPlayers
  <2>3. /\ stats'[p].totalWins = stats[p].totalWins + 1
        /\ stats'[p].totalLosses = stats[p].totalLosses + 0
        /\ stats'[p].totalGames = stats[p].totalGames + 1
    BY <1>4, <2>1 DEF StatsAfter
  <2>. QED
    BY <1>2, <1>3, <2>2, <2>3 DEF Tallied
<1>5. ASSUME NEW i \in Sides, p = PlayerOf(up, i), ~Won(up, i)
      PROVE  Tallied(p)'
  <2>1. stats'[p] = StatsAfter(up, i, stats[p])
    BY <1>5, CommittedStats
  <2>2. /\ WonBy(p)' = WonBy(p)
        /\ LostBy(p)' = LostBy(p) \cup {up}
    BY <1>5, CommitTallies, TwoPlayers
  <2>3. /\ stats'[p].totalWins = stats[p].totalWins + 0
        /\ stats'[p].totalLosses = stats[p].totalLosses + 1
        /\ stats'[p].totalGames = stats[p].totalGames + 1
    BY <1>5, <2>1 DEF StatsAfter
  <2>. QED
    BY <1>2, <1>3, <2>2, <2>3 DEF Tallied
<1>6. CASE \A i \in Sides : p # PlayerOf(up, i)
  <2>1. stats'[p] = stats[p]
    BY <1>6, CommittedStats
  <2>2. /\ WonBy(p)' = WonBy(p)
        /\ LostBy(p)' = LostBy(p)
    BY <1>6, CommitTallies
  <2>. QED
    BY <2>1, <2>2 DEF Tallied
<1>. QED
  BY <1>4, <1>5, <1>6

(* The write to global-stats comes with the answer, once for each upload.  *)
LEMMA GlobalTally ==
  ASSUME TypeOK, NEW up \in Uploads, SetGlobalStats(up), NEW i \in Sides,
         globalStats[i] <= Cardinality(Answered(i))
  PROVE  globalStats'[i] <= Cardinality(Answered(i)')
<1>1. /\ pc[up] = "counted" /\ pc' = [pc EXCEPT ![up] = "ok"]
      /\ globalStats'[i] \in {globalStats[i], globalStats[i] + 1}
      /\ ~Won(up, i) => globalStats'[i] = globalStats[i]
  BY DEF SetGlobalStats, Go, Won, TypeOK
<1>2. Answered(i)' = IF Won(up, i) THEN Answered(i) \cup {up} ELSE Answered(i)
  BY <1>1 DEF Answered, TypeOK
<1>3. up \notin Answered(i)
  BY <1>1 DEF Answered
<1>4. IsFiniteSet(Answered(i)) /\ Cardinality(Answered(i)) \in Nat /\ globalStats[i] \in Nat
  BY FiniteTallies, FS_CardinalityType DEF TypeOK
<1>5. Cardinality(Answered(i) \cup {up}) = Cardinality(Answered(i)) + 1
  BY <1>3, <1>4, FS_AddElement
<1>. QED
  BY <1>1, <1>2, <1>4, <1>5

(* A step that keeps what is counted, what is answered and the statistics. *)
LEMMA SameTallies ==
  ASSUME TallyInv, UNCHANGED <<stats, globalStats>>,
         \A v \in Uploads : /\ Counted(v)' <=> Counted(v)
                            /\ pc'[v] = "ok" <=> pc[v] = "ok"
  PROVE  TallyInv'
<1>1. \A p \in Players : WonBy(p)' = WonBy(p) /\ LostBy(p)' = LostBy(p)
  BY DEF WonBy, LostBy
<1>2. \A i \in Sides : Answered(i)' = Answered(i)
  BY DEF Answered
<1>. QED
  BY <1>1, <1>2 DEF TallyInv, Tallied

LEMMA TallyStep == TypeOK /\ TallyInv /\ [Next]_vars => TallyInv'
<1> SUFFICES ASSUME TypeOK, TallyInv, [Next]_vars
             PROVE  TallyInv'
  OBVIOUS
<1>1. ASSUME NEW up \in Uploads, Commit(up)
      PROVE  TallyInv'
  <2>1. \A p \in Players : Tallied(p)'
    BY <1>1, CommitKeepsTally DEF TallyInv
  <2>2. \A i \in Sides : Answered(i)' = Answered(i)
    BY <1>1 DEF Commit, Go, TypeOK, Answered
  <2>. QED
    BY <1>1, <2>1, <2>2 DEF TallyInv, Commit
<1>2. ASSUME NEW up \in Uploads, SetGlobalStats(up)
      PROVE  TallyInv'
  <2>1. UNCHANGED stats /\ \A v \in Uploads : Counted(v)' <=> Counted(v)
    BY <1>2, CountedStep DEF SetGlobalStats, Commit, Works, Step
  <2>2. \A p \in Players : WonBy(p)' = WonBy(p) /\ LostBy(p)' = LostBy(p)
    BY <2>1 DEF WonBy, LostBy
  <2>3. \A p \in Players : Tallied(p)'
    BY <2>1, <2>2 DEF TallyInv, Tallied
  <2>. QED
    BY <1>2, <2>3, GlobalTally DEF TallyInv
<1>3. ASSUME NEW up \in Uploads, Works(up), ~Commit(up), ~SetGlobalStats(up)
      PROVE  TallyInv'
  <2>1. UNCHANGED stats /\ \A v \in Uploads : Counted(v)' <=> Counted(v)
    BY <1>3, CountedStep
  <2>2. \A v \in Uploads \ {up} : pc'[v] = pc[v]
    BY <1>3, WorkStep
  <2>3. UNCHANGED globalStats /\ pc'[up] # "ok" /\ pc[up] # "ok"
    <3> USE DEF Go, TypeOK, docs, Sides
    <3>1. CASE ReadSession(up) \/ StoreSession(up)
      BY <3>1 DEF ReadSession, StoreSession
    <3>2. CASE \E i \in Sides : ReadElo(up, i)
      BY <3>2 DEF ReadElo
    <3>3. CASE \E i \in Sides : UpdateStreak(up, i) \/ UpsertStreak(up, i) \/ FailStreak(up, i)
      BY <3>3 DEF UpdateStreak, UpsertStreak, FailStreak, Chain
    <3>4. CASE \E i \in Sides : SetElo(up, i)
      BY <3>4 DEF SetElo
    <3>5. CASE Fail(up)
      BY <3>5 DEF Fail
    <3>. QED
      BY <1>3, <3>1, <3>2, <3>3, <3>4, <3>5 DEF Works, Step
  <2>. QED
    BY <2>1, <2>2, <2>3, SameTallies
<1>4. ASSUME NEW up \in Uploads, NEW id \in Uuids, Reserve(up, id)
      PROVE  TallyInv'
  BY <1>4, SameTallies DEF Reserve, Go, TypeOK, Counted
<1>5. CASE UNCHANGED vars
  BY <1>5, SameTallies DEF vars, Counted
<1>. QED
  BY <1>1, <1>2, <1>3, <1>4, <1>5, NextIsWork

LEMMA TallyTotals == TypeOK /\ TallyInv => OneWinnerEach
<1> SUFFICES ASSUME TypeOK, TallyInv, NEW i \in Sides
             PROVE  globalStats[i] <= Cardinality({up \in Uploads : Counted(up) /\ Won(up, i)})
  BY DEF TallyInv, Tallied, OneWinnerEach
<1> DEFINE won == {up \in Uploads : Counted(up) /\ Won(up, i)}
<1>1. IsFiniteSet(won)
  BY FiniteAssumption, FS_Subset
<1>2. Answered(i) \in SUBSET won
  BY DEF Answered, Counted
<1>3. Cardinality(Answered(i)) <= Cardinality(won)
  BY <1>1, <1>2, FS_Subset
<1>4. Cardinality(Answered(i)) \in Nat /\ Cardinality(won) \in Nat /\ globalStats[i] \in Nat
  BY <1>1, FiniteTallies, FS_CardinalityType DEF TypeOK
<1>5. globalStats[i] <= Cardinality(won)
  BY <1>3, <1>4 DEF TallyInv
<1>. QED
  BY <1>5

(* The statistics of every player are exactly the counted matches, a win   *)
(* or a loss for each, and the global ones have no win besides them: no    *)
(* overlap of uploads loses a batch, and no failure writes half of one.    *)
THEOREM WinnersCorrect == Spec => []OneWinnerEach
<1>1. Init => TallyInv
  <2> SUFFICES ASSUME Init
               PROVE  TallyInv
    OBVIOUS
  <2>1. \A p \in Players : WonBy(p) = {} /\ LostBy(p) = {}
    BY DEF Init, WonBy, LostBy, Counted
  <2>2. \A i \in Sides : Cardinality(Answered(i)) \in Nat
    BY FiniteTallies, FS_CardinalityType
  <2>3. \A p \in Players : Cardinality(WonBy(p)) = 0 /\ Cardinality(LostBy(p)) = 0
    BY <2>1, FS_EmptySet
  <2>4. \A p \in Players : Tallied(p)
    BY <2>3 DEF Init, Tallied
  <2>. QED
    BY <2>2, <2>4 DEF Init, Zero, TallyInv
<1>. QED
  BY <1>1, TallyStep, TallyTotals, UploadTyping, PTL DEF Spec
-----------------------------------------------------------------------------
(* Streaks: what a document or a call in progress has is something that    *)
(* the player's record has had.                                            *)
Within(current, longest, p) == current <= longest /\ longest <= streaks[p].longest

TaskWithin(up, i) ==
  Within(task[up].streak[i].current, task[up].streak[i].longest, PlayerOf(up, i))

(* No document, whichever uploads overlapped on it or failed, claims a     *)
(* longer streak than the player's record has, or a current one above its  *)
(* longest (updateWinStreakRecord, its copy in the user's document, and    *)
(* the batch; what a client sets through updateUserData is not here).      *)
StreaksAreRecorded ==
  \A p \in Players :
    /\ streaks[p].current <= streaks[p].longest
    /\ Within(users[p].winStreak, users[p].longestWinStreak, p)
    /\ Within(stats[p].winStreak, stats[p].longestWinStreak, p)

StreakInv == StreaksAreRecorded /\ \A up \in Uploads, i \in Sides : TaskWithin(up, i)

(* The longest streak of the record never goes down, so that the documents *)
(* stay within it.                                                         *)
Grown ==
  \A p \in Players :
    streaks[p].longest <= streaks'[p].longest /\ streaks'[p].current <= streaks'[p].longest

LEMMA NextStreakGrows ==
  ASSUME TypeOK, NEW p \in Players, NEW won \in BOOLEAN, streaks[p].current <= streaks[p].longest
  PROVE  /\ streaks[p].longest <= NextStreak(p, won).longest
         /\ NextStreak(p, won).current <= NextStreak(p, won).longest
BY DEF NextStreak, Larger, Streak, TypeOK

LEMMA WithinGrows ==
  ASSUME TypeOK, TypeOK', Grown, NEW p \in Players, NEW m \in Nat, NEW n \in Nat, Within(m, n, p)
  PROVE  m <= n /\ n <= streaks'[p].longest
BY DEF TypeOK, Streak, Grown, Within

(* The documents and tasks of a step are old ones, or copies of each other. *)
LEMMA CopiesStayWithin ==
  ASSUME TypeOK, TypeOK', StreakInv, Grown,
         \A p \in Players :
           \/ /\ users'[p].winStreak = users[p].winStreak
              /\ users'[p].longestWinStreak = users[p].longestWinStreak
           \/ \E up \in Uploads, i \in Sides :
                /\ p = PlayerOf(up, i)
                /\ users'[p].winStreak = task[up].streak[i].current
                /\ users'[p].longestWinStreak = task[up].streak[i].longest,
         \A p \in Players :
           \/ /\ stats'[p].winStreak = stats[p].winStreak
              /\ stats'[p].longestWinStreak = stats[p].longestWinStreak
           \/ \E up \in Uploads, i \in Sides :
                /\ p = PlayerOf(up, i)
                /\ stats'[p].winStreak = task[up].streak[i].current
                /\ stats'[p].longestWinStreak = task[up].streak[i].longest,
         \A up \in Uploads, i \in Sides :
           \/ task'[up].streak[i] = task[up].streak[i]
           \/ task'[up].streak[i] = NoStreak
           \/ task'[up].streak[i] = streaks'[PlayerOf(up, i)]
  PROVE  StreakInv'
<1>1. ASSUME NEW up \in Uploads, NEW i \in Sides
      PROVE  /\ task[up].streak[i].current \in Nat /\ task[up].streak[i].longest \in Nat
             /\ TaskWithin(up, i)
             /\ PlayerOf(up, i) \in Players
  BY PlayerType DEF TypeOK, Task, Streak, StreakInv
<1>2. ASSUME NEW p \in Players
      PROVE  /\ users[p].winStreak \in Nat /\ users[p].longestWinStreak \in Nat
             /\ stats[p].winStreak \in Nat /\ stats[p].longestWinStreak \in Nat
             /\ streaks'[p].longest \in Nat
             /\ Within(users[p].winStreak, users[p].longestWinStreak, p)
             /\ Within(stats[p].winStreak, stats[p].longestWinStreak, p)
  BY DEF TypeOK, User, Stats, Streak, StreakInv, StreaksAreRecorded
<1>3. ASSUME NEW p \in Players
      PROVE  /\ users'[p].winStreak <= users'[p].longestWinStreak
             /\ users'[p].longestWinStreak <= streaks'[p].longest
  <2>1. CASE /\ users'[p].winStreak = users[p].winStreak
             /\ users'[p].longestWinStreak = users[p].longestWinStreak
    BY <1>2, <2>1, WithinGrows
  <2>2. ASSUME NEW up \in Uploads, NEW i \in Sides, p = PlayerOf(up, i),
               users'[p].winStreak = task[up].streak[i].current,
               users'[p].longestWinStreak = task[up].streak[i].longest
        PROVE  /\ users'[p].winStreak <= users'[p].longestWinStreak
               /\ users'[p].longestWinStreak <= streaks'[p].longest
    BY <1>1, <2>2, WithinGrows DEF TaskWithin
  <2>. QED
    BY <2>1, <2>2
<1>4. ASSUME NEW p \in Players
      PROVE  /\ stats'[p].winStreak <= stats'[p].longestWinStreak
             /\ stats'[p].longestWinStreak <= streaks'[p].longest
  <2>1. CASE /\ stats'[p].winStreak = stats[p].winStreak
             /\ stats'[p].longestWinStreak = stats[p].longestWinStreak
    BY <1>2, <2>1, WithinGrows
  <2>2. ASSUME NEW up \in Uploads, NEW i \in Sides, p = PlayerOf(up, i),
               stats'[p].winStreak = task[up].streak[i].current,
               stats'[p].longestWinStreak = task[up].streak[i].longest
        PROVE  /\ stats'[p].winStreak <= stats'[p].longestWinStreak
               /\ stats'[p].longestWinStreak <= streaks'[p].longest
    BY <1>1, <2>2, WithinGrows DEF TaskWithin
  <2>. QED
    BY <2>1, <2>2
<1>5. ASSUME NEW up \in Uploads, NEW i \in Sides
      PROVE  TaskWithin(up, i)'
  <2> DEFINE p == PlayerOf(up, i)
             mine == task'[up].streak[i]
  <2>1. mine.current <= mine.longest /\ mine.longest <= streaks'[p].longest
    <3>1. CASE mine = task[up].streak[i]
      BY <1>1, <3>1, WithinGrows DEF TaskWithin
    <3>2. CASE mine = NoStreak
      BY <1>1, <1>2, <3>2 DEF NoStreak
    <3>3. CASE mine = streaks'[p]
      BY <1>1, <1>2, <3>3 DEF Grown
    <3>. QED
      BY <3>1, <3>2, <3>3
  <2>. QED
    BY <2>1 DEF TaskWithin, Within
<1>6. \A p \in Players : streaks'[p].current <= streaks'[p].longest
  BY DEF Grown
<1>. QED
  BY <1>3, <1>4, <1>5, <1>6 DEF StreakInv, StreaksAreRecorded, Within

(* Only the transaction writes a record, and then from the record.         *)
LEMMA StreakGrows ==
  ASSUME TypeOK, StreakInv, [Next]_vars
  PROVE  Grown
<1>1. CASE UNCHANGED streaks
  BY <1>1 DEF Grown, StreakInv, StreaksAreRecorded, TypeOK, Streak
<1>2. ASSUME NEW up \in Uploads, NEW i \in Sides, UpdateStreak(up, i)
      PROVE  Grown
  <2> DEFINE p == PlayerOf(up, i)
             next == NextStreak(p, Won(up, i))
  <2>1. p \in Players /\ streaks' = [streaks EXCEPT ![p] = next]
    BY <1>2, PlayerType DEF UpdateStreak
  <2>2. streaks[p].longest <= next.longest /\ next.current <= next.longest
    BY <2>1, NextStreakGrows DEF Won, StreakInv, StreaksAreRecorded
  <2> HIDE DEF p, next
  <2>. QED
    BY <2>1, <2>2 DEF Grown, StreakInv, StreaksAreRecorded, TypeOK, Streak
<1>3. ASSUME NEW up \in Uploads, NEW id \in Uuids, Reserve(up, id)
      PROVE  Grown
  BY <1>1, <1>3 DEF Reserve
<1>4. ASSUME NEW up \in Uploads, Works(up)
      PROVE  Grown
  <2> USE DEF docs
  <2>1. CASE ReadSession(up) \/ StoreSession(up) \/ Commit(up) \/ SetGlobalStats(up) \/ Fail(up)
    BY <1>1, <2>1 DEF ReadSession, StoreSession, Commit, SetGlobalStats, Fail
  <2>2. CASE \E i \in Sides : ReadElo(up, i) \/ UpsertStreak(up, i) \/ SetElo(up, i)
                              \/ FailStreak(up, i)
    BY <1>1, <2>2 DEF ReadElo, UpsertStreak, SetElo, FailStreak
  <2>. QED
    BY <1>2, <1>4, <2>1, <2>2 DEF Works, Step
<1>5. CASE UNCHANGED vars
  BY <1>1, <1>5 DEF vars
<1>. QED
  BY <1>3, <1>4, <1>5, NextIsWork

LEMMA StreakStep ==
  ASSUME TypeOK, TypeOK', StreakInv, [Next]_vars
  PROVE  StreakInv'
<1>1. Grown
  BY StreakGrows
<1>2. \A up \in Uploads : task[up] \in Task
  BY DEF TypeOK
<1>3. CASE UNCHANGED <<users, stats, task>>
  BY <1>1, <1>3, CopiesStayWithin
<1>4. ASSUME NEW up \in Uploads, NEW t, UNCHANGED <<users, stats>>,
             task' = [task EXCEPT ![up] = t],
             \/ t.streak = task[up].streak
             \/ t.streak = [i \in Sides |-> NoStreak]
             \/ \E i \in Sides :
                  t.streak = [task[up].streak EXCEPT ![i] = streaks'[PlayerOf(up, i)]]
      PROVE  StreakInv'
  <2>1. ASSUME NEW v \in Uploads, NEW j \in Sides
        PROVE  \/ task'[v].streak[j] = task[v].streak[j]
               \/ task'[v].streak[j] = NoStreak
               \/ task'[v].streak[j] = streaks'[PlayerOf(v, j)]
    <3>1. CASE v # up
      BY <1>4, <3>1 DEF TypeOK
    <3>2. CASE v = up
      <4>1. task'[up] = t /\ task[up].streak \in [Sides -> Streak]
        BY <1>2, <1>4 DEF TypeOK, Task
      <4>2. CASE t.streak = task[up].streak \/ t.streak = [i \in Sides |-> NoStreak]
        BY <3>2, <4>1, <4>2
      <4>3. CASE \E i \in Sides :
                   t.streak = [task[up].streak EXCEPT ![i] = streaks'[PlayerOf(up, i)]]
        BY <3>2, <4>1, <4>3
      <4>. QED
        BY <1>4, <4>2, <4>3
    <3>. QED
      BY <3>1, <3>2
  <2>. QED
    BY <1>1, <1>4, <2>1, CopiesStayWithin
<1>5. ASSUME NEW up \in Uploads,
             ReadSession(up) \/ StoreSession(up) \/ SetGlobalStats(up) \/ Fail(up)
      PROVE  StreakInv'
  <2>1. CASE ReadSession(up)
    <3> DEFINE t == [task[up] EXCEPT !.read = session[SessionOf[up]]]
    <3>1. task' = [task EXCEPT ![up] = t] /\ UNCHANGED <<users, stats>>
      BY <2>1 DEF ReadSession, docs
    <3>2. t.streak = task[up].streak
      BY <1>2 DEF Task
    <3> HIDE DEF t
    <3>. QED
      BY <1>4, <3>1, <3>2
  <2>2. CASE StoreSession(up)
    <3> DEFINE t == [task[up] EXCEPT !.wins = CountedWins(task[up].read, up), !.read = None]
    <3>1. task' = [task EXCEPT ![up] = t] /\ UNCHANGED <<users, stats>>
      BY <2>2 DEF StoreSession
    <3>2. t.streak = task[up].streak
      BY <1>2 DEF Task
    <3> HIDE DEF t
    <3>. QED
      BY <1>4, <3>1, <3>2
  <2>3. CASE SetGlobalStats(up) \/ Fail(up)
    <3>1. task' = [task EXCEPT ![up] = NoTask] /\ UNCHANGED <<users, stats>>
      BY <2>3 DEF SetGlobalStats, Fail, docs
    <3>2. NoTask.streak = [i \in Sides |-> NoStreak]
      BY DEF NoTask
    <3>. QED
      BY <1>4, <3>1, <3>2
  <2>. QED
    BY <1>5, <2>1, <2>2, <2>3
<1>6. ASSUME NEW up \in Uploads, NEW i \in Sides, ReadElo(up, i) \/ FailStreak(up, i)
      PROVE  StreakInv'
  <2>1. CASE ReadElo(up, i)
    <3> DEFINE t == [task[up] EXCEPT !.elo[i] = users[PlayerOf(up, i)].accountElo]
    <3>1. task' = [task EXCEPT ![up] = t] /\ UNCHANGED <<users, stats>>
      BY <2>1 DEF ReadElo, docs
    <3>2. t.streak = task[up].streak
      BY <1>2 DEF Task
    <3> HIDE DEF t
    <3>. QED
      BY <1>4, <3>1, <3>2
  <2>2. CASE FailStreak(up, i)
    <3> DEFINE t == [task[up] EXCEPT !.chain[i] = "done"]
    <3>1. task' = [task EXCEPT ![up] = t] /\ UNCHANGED <<users, stats>>
      BY <2>2 DEF FailStreak, docs
    <3>2. t.streak = task[up].streak
      BY <1>2 DEF Task
    <3> HIDE DEF t
    <3>. QED
      BY <1>4, <3>1, <3>2
  <2>. QED
    BY <1>6, <2>1, <2>2
<1>7. ASSUME NEW up \in Uploads, NEW i \in Sides, UpdateStreak(up, i)
      PROVE  StreakInv'
  <2> DEFINE next == NextStreak(PlayerOf(up, i), Won(up, i))
             t == [task[up] EXCEPT !.streak[i] = next, !.chain[i] = "updated"]
  <2>1. task' = [task EXCEPT ![up] = t] /\ UNCHANGED <<users, stats>>
    BY <1>7 DEF UpdateStreak
  <2>2. next = streaks'[PlayerOf(up, i)]
    BY <1>7, PlayerType DEF UpdateStreak, TypeOK
  <2> HIDE DEF next
  <2>3. t.streak = [task[up].streak EXCEPT ![i] = next]
    BY <1>2 DEF Task
  <2> HIDE DEF t
  <2>. QED
    BY <1>4, <2>1, <2>2, <2>3
<1>8. ASSUME NEW up \in Uploads, NEW i \in Sides, UpsertStreak(up, i)
      PROVE  StreakInv'
  <2> DEFINE p == PlayerOf(up, i)
             mine == task[up].streak[i]
             t == [task[up] EXCEPT !.chain[i] = "done"]
  <2>1. /\ users' = [users EXCEPT ![p].winStreak = mine.current,
                                  ![p].longestWinStreak = mine.longest]
        /\ task' = [task EXCEPT ![up] = t] /\ UNCHANGED stats
    BY <1>8 DEF UpsertStreak
  <2>2. t.streak = task[up].streak
    BY <1>2 DEF Task
  <2>3. p \in Players /\ users[p] \in User
    BY PlayerType DEF TypeOK
  <2> HIDE DEF p, mine, t
  <2>4. /\ users'[p].winStreak = mine.current /\ users'[p].longestWinStreak = mine.longest
        /\ \A q \in Players \ {p} : users'[q] = users[q]
    BY <2>1, <2>3 DEF TypeOK, User
  <2>5. \A v \in Uploads, j \in Sides : task'[v].streak[j] = task[v].streak[j]
    BY <2>1, <2>2 DEF TypeOK
  <2>6. \A q \in Players :
           \/ /\ users'[q].winStreak = users[q].winStreak
              /\ users'[q].longestWinStreak = users[q].longestWinStreak
           \/ \E v \in Uploads, j \in Sides :
                /\ q = PlayerOf(v, j)
                /\ users'[q].winStreak = task[v].streak[j].current
                /\ users'[q].longestWinStreak = task[v].streak[j].longest
    BY <2>4 DEF p, mine
  <2>. QED
    BY <1>1, <2>1, <2>5, <2>6, CopiesStayWithin
<1>9. ASSUME NEW up \in Uploads, NEW i \in Sides, SetElo(up, i)
      PROVE  StreakInv'
  <2> DEFINE p == PlayerOf(up, i)
  <2>1. /\ users' = [users EXCEPT ![p].accountElo = NewElo(up, i)]
        /\ UNCHANGED <<stats, task>>
    BY <1>9 DEF SetElo
  <2>2. ASSUME NEW q \in Players
        PROVE  /\ users'[q].winStreak = users[q].winStreak
               /\ users'[q].longestWinStreak = users[q].longestWinStreak
    BY <2>1 DEF TypeOK, User
  <2>. QED
    BY <1>1, <2>1, <2>2, CopiesStayWithin
<1>10. ASSUME NEW up \in Uploads, Commit(up)
       PROVE  StreakInv'
  <2>1. UNCHANGED <<users, task>>
    BY <1>10 DEF Commit
  <2>2. ASSUME NEW p \in Players
        PROVE  \/ /\ stats'[p].winStreak = stats[p].winStreak
                  /\ stats'[p].longestWinStreak = stats[p].longestWinStreak
               \/ \E v \in Uploads, i \in Sides :
                    /\ p = PlayerOf(v, i)
                    /\ stats'[p].winStreak = task[v].streak[i].current
                    /\ stats'[p].longestWinStreak = task[v].streak[i].longest
    <3>1. CASE \A i \in Sides : p # PlayerOf(up, i)
      BY <1>10, <3>1, CommittedStats
    <3>2. ASSUME NEW i \in Sides, p = PlayerOf(up, i)
          PROVE  /\ stats'[p].winStreak = task[up].streak[i].current
                 /\ stats'[p].longestWinStreak = task[up].streak[i].longest
      <4>1. stats'[p] = StatsAfter(up, i, stats[p])
        BY <1>10, <3>2, CommittedStats
      <4>. QED
        BY <4>1 DEF StatsAfter
    <3>. QED
      BY <3>1, <3>2
  <2>. QED
    BY <1>1, <2>1, <2>2, CopiesStayWithin
<1>11. ASSUME NEW up \in Uploads, NEW id \in Uuids, Reserve(up, id)
       PROVE  StreakInv'
  BY <1>3, <1>11 DEF Reserve
<1>12. CASE UNCHANGED vars
  BY <1>3, <1>12 DEF vars
<1>13. ASSUME NEW up \in Uploads, Works(up)
       PROVE  StreakInv'
  BY <1>5, <1>6, <1>7, <1>8, <1>9, <1>10, <1>13 DEF Works, Step
<1>. QED
  BY <1>11, <1>12, <1>13, NextIsWork

LEMMA StreakInvariant == Spec => [](TypeOK /\ StreakInv)
<1>1. Init => StreakInv
  <2> SUFFICES ASSUME Init PROVE StreakInv
    OBVIOUS
  <2>1. \A up \in Uploads, i \in Sides : task[up].streak[i] = NoStreak
    BY DEF Init, NoTask
  <2>2. \A up \in Uploads, i \in Sides : TaskWithin(up, i)
    BY <2>1, PlayerType DEF TaskWithin, Within, Init, NoStreak
  <2>. QED
    BY <2>2 DEF Init, NoStreak, StreakInv, StreaksAreRecorded, Within
<1>2. TypeOK /\ TypeOK' /\ StreakInv /\ [Next]_vars => StreakInv'
  BY StreakStep
<1>. QED
  BY <1>1, <1>2, UploadTyping, PTL DEF Spec

THEOREM StreaksCorrect == Spec => []StreaksAreRecorded
<1>1. StreakInv => StreaksAreRecorded
  BY DEF StreakInv
<1>. QED
  BY <1>1, StreakInvariant, PTL

(* The longest streak of a player never goes down, whichever uploads and   *)
(* failures overlap (updateWinStreakRecord's transaction).                 *)
LongestGrows == [][\A p \in Players : streaks[p].longest <= streaks'[p].longest]_vars

THEOREM LongestCorrect == Spec => LongestGrows
<1>1. TypeOK /\ StreakInv /\ [Next]_vars =>
        [\A p \in Players : streaks[p].longest <= streaks'[p].longest]_vars
  BY StreakGrows DEF Grown
<1>. QED
  BY <1>1, StreakInvariant, PTL DEF Spec, LongestGrows
=============================================================================
