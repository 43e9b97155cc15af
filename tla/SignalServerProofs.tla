------------------------- MODULE SignalServerProofs -------------------------
(***************************************************************************)
(* Theorems about SignalServer, for every set of users, connections,       *)
(* lobbies, match ids, passwords and lookups.                              *)
(***************************************************************************)
EXTENDS SignalServer, TLAPS

USE DEF Optional

Rosters == [Lobbies -> SUBSET Users]
Entries == [Users -> Optional(Entry)]
Matches == [MatchIds -> Optional(Match)]

(* What the undefined value is not. *)
LEMMA UndefinedIsNone ==
  /\ Undefined \notin Users /\ Undefined \notin Lobbies /\ Undefined \notin MatchIds
  /\ Undefined \notin Passes /\ Undefined \notin Entry /\ Undefined \notin Match
  /\ Undefined \notin Meta /\ Undefined \notin Lookup
BY UndefinedAssumption

(* A broadcast replaces some of the lists by lists of users. *)
LEMMA BroadcastType ==
  ASSUME NEW sh \in Rosters, NEW members \in Rosters, NEW users, NEW open, NEW targets
  PROVE  BroadcastUserList(sh, users, members, open, targets) \in Rosters
BY DEF BroadcastUserList, Visible, Rosters

(* Reading a currentMatchId gives a match id or nothing. *)
LEMMA CurrentMatchType ==
  ASSUME NEW users \in Entries, NEW u \in Users
  PROVE  CurrentMatch(users, u) \in Optional(MatchIds)
BY DEF CurrentMatch, Entries, Entry

(* Clearing the match fields of some entries leaves entries. *)
LEMMA FreedType ==
  ASSUME NEW users \in Entries, NEW players
  PROVE  Freed(users, players) \in Entries
BY DEF Freed, Entries, Entry

(* forceCloseMatchForUser keeps entries, registry and lists well typed. *)
LEMMA ForceCloseType ==
  ASSUME NEW r, r.users \in Entries, r.matches \in Matches, r.shown \in Rosters,
         lobbies \in Rosters, NEW u \in Users
  PROVE  /\ ForceClose(r, u).users \in Entries
         /\ ForceClose(r, u).matches \in Matches
         /\ ForceClose(r, u).shown \in Rosters
<1> DEFINE m == CurrentMatch(r.users, u)
           users == Freed(r.users, Participants(r.matches, m, u))
<1>1. CASE m = Undefined
  BY <1>1 DEF ForceClose
<1>2. CASE m # Undefined
  <2>1. users \in Entries
    BY FreedType
  <2>2. [r.matches EXCEPT ![m] = Undefined] \in Matches
    BY DEF Matches
  <2>3. BroadcastUserList(r.shown, users, lobbies, openLobbies,
                          {MatchLobby(r.matches, m, u)}) \in Rosters
    BY BroadcastType
  <2>. QED
    BY <1>2, <2>1, <2>2, <2>3 DEF ForceClose
<1>. QED
  BY <1>1, <1>2
-----------------------------------------------------------------------------
(* Typing of the parts several handlers share. *)
LEMMA WithoutType ==
  ASSUME TypeOK, NEW u
  PROVE  Without(u) \in Rosters
BY DEF Without, TypeOK, Rosters

(* syncUserToLobby keeps the lobby maps well typed. *)
LEMMA SyncType ==
  ASSUME TypeOK, NEW u \in Users, NEW l \in Lobbies, SyncUserToLobby(u, l)
  PROVE  /\ lobbies' \in Rosters
         /\ openLobbies' \subseteq Lobbies
         /\ userLobby' \in [Users -> Optional(Lobbies)]
BY DEF SyncUserToLobby, TypeOK, Rosters

(* A fallback to a member of S gives a member of S. *)
LEMMA CoalesceType ==
  ASSUME NEW S, NEW a \in Optional(S), NEW b \in S
  PROVE  Coalesce(a, b) \in S
BY DEF Coalesce

(* Only open lobbies can lose their last member. *)
LEMMA EmptiedType ==
  ASSUME NEW u
  PROVE  EmptiedBy(u) \subseteq openLobbies
BY DEF EmptiedBy, LobbiesOf

(* The merged entry of a join is an entry. *)
LEMMA JoinedEntryType ==
  ASSUME TypeOK, NEW s \in Sockets, NEW u \in Users, NEW mine \in Optional(Lobbies)
  PROVE  JoinedEntry(s, u, mine) \in Entry
<1>1. CurrentMatch(connectedUsers, u) \in Optional(MatchIds)
  BY CurrentMatchType DEF TypeOK, Entries
<1>2. (IF Connected(u) THEN connectedUsers[u].lobbyId ELSE Undefined) \in Optional(Lobbies)
  BY DEF TypeOK, Entry, Connected
<1>3. Coalesce(mine, IF Connected(u) THEN connectedUsers[u].lobbyId ELSE Undefined)
        \in Optional(Lobbies)
  BY <1>2 DEF Coalesce
<1>. QED
  BY <1>1, <1>3 DEF JoinedEntry, Entry

(* The state MatchState is well typed, so what forceCloseMatchForUser makes *)
(* of it is.                                                                *)
LEMMA ClosedMatchType ==
  ASSUME TypeOK, NEW u \in Users
  PROVE  /\ ForceClose(MatchState, u).users \in Entries
         /\ ForceClose(MatchState, u).matches \in Matches
         /\ ForceClose(MatchState, u).shown \in Rosters
<1>1. /\ MatchState.users \in Entries
      /\ MatchState.matches \in Matches
      /\ MatchState.shown \in Rosters
      /\ lobbies \in Rosters
  BY DEF MatchState, TypeOK, Entries, Matches, Rosters
<1>. QED
  BY <1>1, ForceCloseType

(* Force-closing changes who plays, not who is connected. *)
LEMMA ForceCloseConnected ==
  ASSUME NEW r, r.users \in Entries, NEW u, NEW v \in Users
  PROVE  ForceClose(r, u).users[v] = Undefined <=> r.users[v] = Undefined
<1>1. ASSUME NEW players
      PROVE  Freed(r.users, players)[v] = Undefined <=> r.users[v] = Undefined
  BY UndefinedIsNone DEF Freed, Entries, Entry
<1>. QED
  BY <1>1 DEF ForceClose

(* After a force close the same users are connected. *)
LEMMA ForceCloseKeepsEntries ==
  ASSUME TypeOK, NEW c \in Users, NEW o \in Users, NEW v \in Users
  PROVE  ForceClose(ForceClose(MatchState, c), o).users[v] = Undefined <=> ~Connected(v)
<1>1. ForceClose(MatchState, c).users \in Entries
  BY ClosedMatchType
<1>2. MatchState.users = connectedUsers /\ connectedUsers \in Entries
  BY DEF MatchState, TypeOK, Entries
<1>. QED
  BY <1>1, <1>2, ForceCloseConnected DEF Connected

(* Moving a user to another lobby keeps the maps well typed. *)
LEMMA MoveToType ==
  ASSUME TypeOK, NEW s \in Sockets, NEW u \in Users, NEW l \in Lobbies, NEW e \in Entry,
         MoveTo(s, u, l, e)
  PROVE  /\ connectedUsers' \in Entries
         /\ lobbies' \in Rosters
         /\ openLobbies' \subseteq Lobbies
         /\ lobbyTimeouts' \subseteq Lobbies
         /\ userLobby' \in [Users -> Optional(Lobbies)]
         /\ shown' \in Rosters
         /\ adrift' \subseteq Users
<1> DEFINE left == BroadcastUserList(shown, connectedUsers, Without(u), openLobbies,
                                     LobbiesOf(u) \ EmptiedBy(u))
<1>1. Without(u) \in Rosters
  BY WithoutType
<1>2. lobbies' \in Rosters
  BY <1>1 DEF MoveTo, Rosters
<1>3. left \in Rosters
  BY <1>1, BroadcastType DEF TypeOK, Rosters
<1>4. shown' \in Rosters
  BY <1>2, <1>3, BroadcastType DEF MoveTo
<1>5. connectedUsers' \in Entries
  BY DEF MoveTo, TypeOK, Entries
<1>6. EmptiedBy(u) \subseteq Lobbies
  BY EmptiedType DEF TypeOK
<1>. QED
  BY <1>2, <1>4, <1>5, <1>6 DEF MoveTo, TypeOK
-----------------------------------------------------------------------------
(* The empty maps of a starting server are well typed. *)
LEMMA InitType == Init => TypeOK
BY DEF Init, TypeOK

(* One lemma per group of handlers: each keeps the types. *)
LEMMA ConnectionType ==
  ASSUME TypeOK, NEW s \in Sockets, Connect(s) \/ Drop(s)
  PROVE  TypeOK'
BY DEF Connect, Drop, TypeOK, presence, lobbyVars

(* The close handler keeps the types. *)
LEMMA CloseType ==
  ASSUME TypeOK, NEW s \in Sockets, Close(s)
  PROVE  TypeOK'
<1>1. sock' \in [Sockets -> {"closed", "open", "closing"}] /\ wsUid' \in [Sockets -> Optional(Users)]
  BY DEF Close, TypeOK
<1>2. CASE wsUid[s] = Undefined
  BY <1>1, <1>2 DEF Close, TypeOK, presence, lobbyVars
<1>3. CASE wsUid[s] # Undefined
  <2> DEFINE u == wsUid[s]
             r == ForceClose(MatchState, u)
             users == [r.users EXCEPT ![u] = Undefined]
  <2>1. u \in Users
    BY <1>3 DEF TypeOK
  <2>2. r.users \in Entries /\ r.matches \in Matches /\ r.shown \in Rosters
    BY <2>1, ClosedMatchType
  <2>3. Departed(u) /\ UNCHANGED <<openLobbies, lobbyMeta, geo, adrift>>
    BY <1>3 DEF Close
  <2>4. users \in Entries
    BY <2>2 DEF Entries
  <2>5. lobbies' \in Rosters
    BY <2>3, WithoutType DEF Departed
  <2>6. shown' \in Rosters
    BY <2>2, <2>3, <2>5, BroadcastType DEF Departed
  <2>7. connectedUsers' \in Entries /\ activeMatches' \in Matches
    BY <2>2, <2>3, <2>4 DEF Departed
  <2>8. userLobby' \in [Users -> Optional(Lobbies)]
    BY <2>3 DEF Departed, TypeOK
  <2>9. lobbyTimeouts' \subseteq Lobbies
    BY <2>3, EmptiedType DEF Departed, TypeOK
  <2>. QED
    BY <1>1, <2>3, <2>5, <2>6, <2>7, <2>8, <2>9 DEF TypeOK, Rosters, Entries, Matches
<1>. QED
  BY <1>2, <1>3

(* handleJoin keeps the types. *)
LEMMA JoinType ==
  ASSUME TypeOK, NEW s \in Sockets, NEW p \in Optional(Lobbies), NEW mine \in Optional(Lobbies),
         NEW g \in Optional(Lookups), Join(s, p, mine, g)
  PROVE  TypeOK'
<1> DEFINE u == Account[s]
           l == Coalesce(p, Coalesce(mine, DefaultLobby))
           e == JoinedEntry(s, u, mine)
<1>1. u \in Users
  BY AccountAssumption
<1>2. l \in Lobbies
  BY DefaultAssumption, CoalesceType
<1>3. e \in Entry
  BY <1>1, JoinedEntryType
<1>4. /\ lobbies' \in Rosters
      /\ openLobbies' \subseteq Lobbies
      /\ userLobby' \in [Users -> Optional(Lobbies)]
  BY <1>1, <1>2, SyncType DEF Join
<1>5. connectedUsers' \in Entries /\ wsUid' \in [Sockets -> Optional(Users)]
  BY <1>1, <1>3 DEF Join, TypeOK, Entries
<1>6. shown' \in Rosters
  BY <1>4, BroadcastType DEF Join, TypeOK, Rosters
<1>7. geo' \in [Lookups -> Optional(Lookup)]
  <2>1. CASE g = Undefined /\ UNCHANGED geo
    BY <2>1 DEF TypeOK
  <2>2. CASE g \in Lookups /\ geo' = [geo EXCEPT ![g] = [uid |-> u, user |-> e]]
    BY <1>1, <1>3, <2>2 DEF TypeOK, Lookup
  <2>. QED
    BY <2>1, <2>2 DEF Join
<1>. QED
  BY <1>4, <1>5, <1>6, <1>7 DEF Join, TypeOK, Rosters, Entries

(* The late geo write, or a failed lookup, keeps the types. *)
LEMMA GeoType ==
  ASSUME TypeOK, NEW g \in Lookups, GeoDone(g) \/ GeoFail(g)
  PROVE  TypeOK'
<1>1. CASE GeoFail(g)
  BY <1>1 DEF GeoFail, TypeOK, presence, lobbyVars
<1>2. CASE GeoDone(g)
  <2> DEFINE u == geo[g].uid
             e == geo[g].user
             l == Coalesce(e.lobbyId, DefaultLobby)
  <2>1. u \in Users /\ e \in Entry
    BY <1>2 DEF GeoDone, TypeOK, Lookup
  <2>2. l \in Lobbies
    BY <2>1, DefaultAssumption DEF Coalesce, Entry
  <2>3. /\ lobbies' \in Rosters
        /\ openLobbies' \subseteq Lobbies
        /\ userLobby' \in [Users -> Optional(Lobbies)]
    BY <1>2, <2>1, <2>2, SyncType DEF GeoDone
  <2>4. connectedUsers' \in Entries
    BY <1>2, <2>1 DEF GeoDone, TypeOK, Entries
  <2>5. shown' \in Rosters
    BY <1>2, <2>3, BroadcastType DEF GeoDone, TypeOK, Rosters
  <2>6. adrift' \subseteq Users /\ geo' \in [Lookups -> Optional(Lookup)]
    BY <1>2, <2>1 DEF GeoDone, TypeOK
  <2>. QED
    BY <1>2, <2>3, <2>4, <2>5, <2>6 DEF GeoDone, TypeOK, Rosters, Entries
<1>. QED
  BY <1>1, <1>2

(* updateSocketState and the win-streak report keep the types. *)
LEMMA ResyncType ==
  ASSUME TypeOK, NEW u \in Users,
         \/ InternalWinStreak(u)
         \/ \E s \in Sockets, l \in Lobbies, key \in Optional(Lobbies) :
              UpdateSocketState(s, u, l, key)
  PROVE  TypeOK'
<1>1. CASE InternalWinStreak(u)
  <2> DEFINE l == Coalesce(userLobby[u], Coalesce(connectedUsers[u].lobbyId, DefaultLobby))
  <2>1. connectedUsers[u] \in Entry /\ userLobby[u] \in Optional(Lobbies)
    BY <1>1 DEF InternalWinStreak, Connected, TypeOK
  <2>2. l \in Lobbies
    BY <2>1, DefaultAssumption DEF Coalesce, Entry
  <2>3. /\ lobbies' \in Rosters
        /\ openLobbies' \subseteq Lobbies
        /\ userLobby' \in [Users -> Optional(Lobbies)]
    BY <1>1, <2>2, SyncType DEF InternalWinStreak
  <2>4. shown' \in Rosters
    BY <1>1, <2>3, BroadcastType DEF InternalWinStreak, TypeOK, Rosters
  <2>. QED
    BY <1>1, <2>3, <2>4 DEF InternalWinStreak, TypeOK, Rosters
<1>2. ASSUME NEW s \in Sockets, NEW l \in Lobbies, NEW key \in Optional(Lobbies),
             UpdateSocketState(s, u, l, key)
      PROVE  TypeOK'
  <2>1. /\ lobbies' \in Rosters
        /\ openLobbies' \subseteq Lobbies
        /\ userLobby' \in [Users -> Optional(Lobbies)]
    BY <1>2, SyncType DEF UpdateSocketState
  <2>2. connectedUsers' \in Entries
    BY <1>2 DEF UpdateSocketState, Connected, TypeOK, Entries, Entry
  <2>3. shown' \in Rosters
    BY <1>2, <2>1, BroadcastType DEF UpdateSocketState, TypeOK, Rosters
  <2>. QED
    BY <1>2, <2>1, <2>2, <2>3 DEF UpdateSocketState, TypeOK, Rosters, Entries
<1>. QED
  BY <1>1, <1>2

(* handleCreateLobby keeps the types. *)
LEMMA CreateType ==
  ASSUME TypeOK, NEW s \in Sockets, NEW l \in Lobbies, NEW p \in Optional(Passes),
         NEW mine \in Optional(Lobbies), CreateLobby(s, l, p, mine)
  PROVE  TypeOK'
<1> DEFINE u == Account[s]
           e == IF Connected(u) THEN [connectedUsers[u] EXCEPT !.ws = s]
                                ELSE [ws |-> s, lobbyId |-> mine, currentMatchId |-> Undefined]
<1>1. u \in Users
  BY AccountAssumption
<1>2. e \in Entry
  BY <1>1 DEF TypeOK, Connected, Entry
<1>3. MoveTo(s, u, l, e)
  BY DEF CreateLobby
<1>4. lobbyMeta' \in [Lobbies -> Optional(Meta)]
  BY DEF CreateLobby, TypeOK, Meta
<1> HIDE DEF u, e
<1>5. /\ connectedUsers' \in Entries
      /\ lobbies' \in Rosters
      /\ openLobbies' \subseteq Lobbies
      /\ lobbyTimeouts' \subseteq Lobbies
      /\ userLobby' \in [Users -> Optional(Lobbies)]
      /\ shown' \in Rosters
      /\ adrift' \subseteq Users
  BY <1>1, <1>2, <1>3, MoveToType
<1>. QED
  BY <1>3, <1>4, <1>5 DEF MoveTo, TypeOK, Rosters, Entries

(* handleChangeLobby keeps the types. *)
LEMMA ChangeType ==
  ASSUME TypeOK, NEW s \in Sockets, NEW l \in Lobbies, NEW p \in Optional(Passes),
         ChangeLobby(s, l, p)
  PROVE  TypeOK'
<1> DEFINE u == Account[s]
           e == IF Connected(u) THEN [connectedUsers[u] EXCEPT !.lobbyId = l]
                                ELSE [ws |-> s, lobbyId |-> l, currentMatchId |-> Undefined]
<1>1. u \in Users
  BY AccountAssumption
<1>2. e \in Entry
  BY <1>1 DEF TypeOK, Connected, Entry
<1>3. MoveTo(s, u, l, e) /\ lobbyMeta' = lobbyMeta
  BY DEF ChangeLobby
<1> HIDE DEF u, e
<1>4. /\ connectedUsers' \in Entries
      /\ lobbies' \in Rosters
      /\ openLobbies' \subseteq Lobbies
      /\ lobbyTimeouts' \subseteq Lobbies
      /\ userLobby' \in [Users -> Optional(Lobbies)]
      /\ shown' \in Rosters
      /\ adrift' \subseteq Users
  BY <1>1, <1>2, <1>3, MoveToType
<1>. QED
  BY <1>3, <1>4 DEF MoveTo, TypeOK, Rosters, Entries

(* The idle timer keeps the types. *)
LEMMA TimeoutType ==
  ASSUME TypeOK, NEW l \in Lobbies, LobbyTimeout(l)
  PROVE  TypeOK'
BY DEF LobbyTimeout, TypeOK

(* userDisconnect, matchEnd and match-status keep the types. *)
LEMMA EndMatchType ==
  ASSUME TypeOK, NEW s \in Sockets, NEW u \in Users, EndMatch(s, u)
  PROVE  TypeOK'
<1>1. /\ connectedUsers' \in Entries
      /\ activeMatches' \in Matches
      /\ shown' \in Rosters
  BY ClosedMatchType DEF EndMatch, Commit
<1>. QED
  BY <1>1 DEF EndMatch, TypeOK, Entries, Matches, Rosters, lobbyVars

(* handleRequestMatch keeps the types. *)
LEMMA RequestType ==
  ASSUME TypeOK, NEW s \in Sockets, NEW c \in Users, NEW o \in Users,
         NEW lobbyId \in Optional(Lobbies), RequestMatch(s, c, o, lobbyId)
  PROVE  TypeOK'
<1> DEFINE r == ForceClose(ForceClose(MatchState, c), o)
           l == Coalesce(lobbyId, Coalesce(userLobby[c], Coalesce(userLobby[o], DefaultLobby)))
<1>1. r.users \in Entries /\ r.matches \in Matches /\ r.shown \in Rosters
  <2>1. lobbies \in Rosters
    BY DEF TypeOK, Rosters
  <2>2. /\ ForceClose(MatchState, c).users \in Entries
        /\ ForceClose(MatchState, c).matches \in Matches
        /\ ForceClose(MatchState, c).shown \in Rosters
    BY ClosedMatchType
  <2>. QED
    BY <2>1, <2>2, ForceCloseType
<1>2. l \in Lobbies
  BY DefaultAssumption DEF Coalesce, TypeOK
<1> HIDE DEF r, l
<1>3. CASE Commit(r)
  <2>. QED
    BY <1>1, <1>3 DEF Commit, RequestMatch, TypeOK, Entries, Matches, Rosters, lobbyVars
<1>4. ASSUME NEW m \in MatchIds, r.users[c] # Undefined, r.users[o] # Undefined,
             connectedUsers' = [u \in Users |-> IF u \in {c, o}
                                                  THEN [r.users[u] EXCEPT !.currentMatchId = m]
                                                  ELSE r.users[u]],
             activeMatches' = [r.matches EXCEPT ![m] = [lobbyId |-> l, players |-> {c, o}]],
             shown' = BroadcastUserList(r.shown, connectedUsers', lobbies, openLobbies, {l})
      PROVE  TypeOK'
  <2>1. connectedUsers' \in Entries
    BY <1>1, <1>4 DEF Entries, Entry
  <2>2. activeMatches' \in Matches
    BY <1>1, <1>2, <1>4 DEF Matches, Match
  <2>3. shown' \in Rosters
    BY <1>1, <1>4, BroadcastType DEF TypeOK, Rosters
  <2>. QED
    BY <2>1, <2>2, <2>3 DEF RequestMatch, TypeOK, Entries, Matches, Rosters, lobbyVars
<1>5. Connected(c) /\ Connected(o) => r.users[c] # Undefined /\ r.users[o] # Undefined
  BY ForceCloseKeepsEntries DEF r
<1>. QED
  BY <1>3, <1>4, <1>5 DEF RequestMatch, r, l
-----------------------------------------------------------------------------
(* Every step keeps the types. *)
LEMMA NextType == TypeOK /\ [Next]_vars => TypeOK'
<1> SUFFICES ASSUME TypeOK, [Next]_vars
             PROVE  TypeOK'
  OBVIOUS
<1>1. CASE UNCHANGED vars
  BY <1>1 DEF vars, TypeOK
<1>2. ASSUME NEW s \in Sockets, SocketStep(s)
      PROVE  TypeOK'
  <2>1. CASE Connect(s) \/ Drop(s)
    BY <2>1, ConnectionType
  <2>2. CASE Close(s)
    BY <2>2, CloseType
  <2>3. CASE MatchStatus(s)
    <3>1. wsUid[s] \in Users
      BY <2>3 DEF MatchStatus, TypeOK
    <3>. QED
      BY <2>3, <3>1, EndMatchType DEF MatchStatus
  <2>4. CASE \E l, mine \in Optional(Lobbies), g \in Optional(Lookups) : Join(s, l, mine, g)
    BY <2>4, JoinType
  <2>5. CASE \E u \in Users, l \in Lobbies, key \in Optional(Lobbies) :
               UpdateSocketState(s, u, l, key)
    BY <2>5, ResyncType
  <2>6. CASE \E l \in Lobbies, p \in Optional(Passes), mine \in Optional(Lobbies) :
               CreateLobby(s, l, p, mine)
    BY <2>6, CreateType
  <2>7. CASE \E l \in Lobbies, p \in Optional(Passes) : ChangeLobby(s, l, p)
    BY <2>7, ChangeType
  <2>8. CASE \E c, o \in Users, l \in Optional(Lobbies) : RequestMatch(s, c, o, l)
    BY <2>8, RequestType
  <2>9. CASE \E u \in Users : UserDisconnect(s, u) \/ MatchEnd(s, u)
    BY <2>9, EndMatchType DEF UserDisconnect, MatchEnd
  <2>. QED
    BY <1>2, <2>1, <2>2, <2>3, <2>4, <2>5, <2>6, <2>7, <2>8, <2>9 DEF SocketStep
<1>3. CASE \E u \in Users : InternalWinStreak(u)
  BY <1>3, ResyncType
<1>4. CASE \E g \in Lookups : GeoDone(g) \/ GeoFail(g)
  BY <1>4, GeoType
<1>5. CASE \E l \in Lobbies : LobbyTimeout(l)
  BY <1>5, TimeoutType
<1>. QED
  BY <1>1, <1>2, <1>3, <1>4, <1>5 DEF Next

(* Type correctness: every handler, in every state the server can reach,   *)
(* leaves its maps well formed.                                            *)
THEOREM TypeCorrect == Spec => []TypeOK
BY InitType, NextType, PTL DEF Spec
-----------------------------------------------------------------------------
(* The invariants of the lobbies.  They are inductive together with the    *)
(* typing; what every step has to be told is only how the members, the     *)
(* keys and the timers change.                                             *)
LobbyInv == DepartedLeavesNoTrace /\ IdleLobbiesAreTimed /\ ClosedLobbyLeavesNothing

(* A server that has just started has no lobby. *)
LEMMA LobbyInit == Init => LobbyInv
BY DefaultAssumption
   DEF Init, LobbyInv, DepartedLeavesNoTrace, IdleLobbiesAreTimed, ClosedLobbyLeavesNothing

(* A broadcast reaches open lobbies only. *)
LEMMA BroadcastOutside ==
  ASSUME NEW sh, NEW users, NEW members, NEW open, NEW targets, NEW l \in Lobbies,
         l \notin open
  PROVE  BroadcastUserList(sh, users, members, open, targets)[l] = sh[l]
BY DEF BroadcastUserList

(* A force close tells nothing to a lobby that is not open. *)
LEMMA ForceCloseOutside ==
  ASSUME NEW r, NEW u, NEW l \in Lobbies, l \notin openLobbies
  PROVE  ForceClose(r, u).shown[l] = r.shown[l]
BY BroadcastOutside DEF ForceClose

(* joining by syncUserToLobby: join, updateSocketState, the win streak and *)
(* the late geo write.                                                     *)
LEMMA SyncStep ==
  ASSUME TypeOK, LobbyInv, NEW u \in Users, NEW l \in Lobbies, SyncUserToLobby(u, l),
         connectedUsers'[u] # Undefined,
         \A v \in Users : Connected(v) => connectedUsers'[v] # Undefined,
         shown' = BroadcastUserList(shown, connectedUsers', lobbies', openLobbies', {l}),
         UNCHANGED <<lobbyMeta, lobbyTimeouts>>
  PROVE  LobbyInv'
<1>1. DepartedLeavesNoTrace'
  BY DEF LobbyInv, TypeOK, DepartedLeavesNoTrace, SyncUserToLobby, Connected
<1>2. IdleLobbiesAreTimed'
  <2>1. lobbyTimeouts \subseteq openLobbies \ {DefaultLobby}
    BY DEF LobbyInv, IdleLobbiesAreTimed
  <2>2. lobbyTimeouts' \subseteq openLobbies' \ {DefaultLobby}
    BY <2>1 DEF SyncUserToLobby
  <2> SUFFICES ASSUME NEW k \in openLobbies' \ {DefaultLobby}, lobbies'[k] = {}
               PROVE  k \in lobbyTimeouts'
    BY <2>2 DEF IdleLobbiesAreTimed
  <2>3. lobbies \in [Lobbies -> SUBSET Users]
    BY DEF TypeOK
  <2>4. k # l
    BY <2>3 DEF SyncUserToLobby
  <2>5. k \in openLobbies \ {DefaultLobby}
    BY <2>4 DEF SyncUserToLobby
  <2>6. lobbies[k] = {}
    BY <2>3, <2>4 DEF SyncUserToLobby
  <2>. QED
    BY <2>5, <2>6 DEF LobbyInv, IdleLobbiesAreTimed
<1>3. ClosedLobbyLeavesNothing'
  <2> SUFFICES ASSUME NEW k \in Lobbies \ openLobbies'
               PROVE  lobbies'[k] = {} /\ lobbyMeta'[k] = Undefined /\ shown'[k] = {}
    BY DEF ClosedLobbyLeavesNothing
  <2>1. k \in Lobbies \ openLobbies /\ k # l
    BY DEF SyncUserToLobby
  <2>2. shown'[k] = shown[k]
    BY BroadcastOutside
  <2>. QED
    BY <2>1, <2>2 DEF LobbyInv, TypeOK, ClosedLobbyLeavesNothing, SyncUserToLobby
<1>. QED
  BY <1>1, <1>2, <1>3 DEF LobbyInv

(* Moving: createLobby and changeLobby. *)
LEMMA MoveStep ==
  ASSUME TypeOK, LobbyInv, NEW s \in Sockets, NEW u \in Users, NEW l \in Lobbies,
         NEW e \in Entry, MoveTo(s, u, l, e),
         \A k \in Lobbies : k # l => lobbyMeta'[k] = lobbyMeta[k]
  PROVE  LobbyInv'
<1> USE DEF LobbyInv, TypeOK
<1>1. DepartedLeavesNoTrace'
  BY UndefinedIsNone DEF DepartedLeavesNoTrace, MoveTo, Connected, Without
<1>2. IdleLobbiesAreTimed'
  <2>1. lobbyTimeouts' \subseteq openLobbies' \ {DefaultLobby}
    BY DEF IdleLobbiesAreTimed, MoveTo, EmptiedBy, LobbiesOf
  <2>2. ASSUME NEW k \in openLobbies' \ {DefaultLobby}, lobbies'[k] = {}
        PROVE  k \in lobbyTimeouts'
    <3>1. k # l /\ k \in openLobbies /\ Without(u)[k] = {}
      BY <2>2 DEF MoveTo, Without
    <3>2. lobbies[k] \ {u} = {}
      BY <3>1 DEF Without
    <3>3. lobbies[k] = {} \/ lobbies[k] = {u}
      BY ONLY <3>2, Zenon
    <3>. QED
      BY <3>1, <3>3 DEF IdleLobbiesAreTimed, MoveTo, EmptiedBy, LobbiesOf
  <2>. QED
    BY <2>1, <2>2 DEF IdleLobbiesAreTimed
<1>3. ClosedLobbyLeavesNothing'
  <2> SUFFICES ASSUME NEW k \in Lobbies \ openLobbies'
               PROVE  lobbies'[k] = {} /\ lobbyMeta'[k] = Undefined /\ shown'[k] = {}
    BY DEF ClosedLobbyLeavesNothing
  <2>1. k \in Lobbies \ openLobbies /\ k # l
    BY DEF MoveTo
  <2>2. shown'[k] = shown[k]
    BY <2>1, BroadcastOutside DEF MoveTo
  <2>. QED
    BY <2>1, <2>2 DEF ClosedLobbyLeavesNothing, MoveTo, Without
<1>. QED
  BY <1>1, <1>2, <1>3

(* The close event of a joined connection. *)
LEMMA CloseStep ==
  ASSUME TypeOK, LobbyInv, NEW s \in Sockets, Close(s)
  PROVE  LobbyInv'
<1> USE DEF LobbyInv, TypeOK
<1>1. CASE wsUid[s] = Undefined
  BY <1>1 DEF Close, presence, lobbyVars, DepartedLeavesNoTrace, IdleLobbiesAreTimed,
              ClosedLobbyLeavesNothing, Connected
<1>2. CASE wsUid[s] # Undefined
  <2> DEFINE u == wsUid[s]
             r == ForceClose(MatchState, u)
  <2>1. u \in Users
    BY <1>2
  <2>2. Departed(u) /\ UNCHANGED <<openLobbies, lobbyMeta>>
    BY <1>2 DEF Close
  <2>3. \A v \in Users : v # u /\ Connected(v) => connectedUsers'[v] # Undefined
    <3>1. MatchState.users = connectedUsers /\ connectedUsers \in Entries /\ r.users \in Entries
      BY <2>1, ClosedMatchType DEF MatchState, Entries
    <3>. QED
      BY <2>1, <2>2, <3>1, ForceCloseConnected DEF Departed, Connected, Entries
  <2>4. DepartedLeavesNoTrace'
    BY <2>1, <2>2, <2>3 DEF DepartedLeavesNoTrace, Departed, Without, Connected
  <2>5. IdleLobbiesAreTimed'
    <3>1. lobbyTimeouts' \subseteq openLobbies' \ {DefaultLobby}
      BY <2>2 DEF IdleLobbiesAreTimed, Departed, EmptiedBy, LobbiesOf
    <3>2. ASSUME NEW k \in openLobbies' \ {DefaultLobby}, lobbies'[k] = {}
          PROVE  k \in lobbyTimeouts'
      <4>1. k \in openLobbies /\ lobbies[k] \ {u} = {}
        BY <2>2, <3>2 DEF Departed, Without
      <4>2. lobbies[k] = {} \/ lobbies[k] = {u}
        BY ONLY <4>1, Zenon
      <4>. QED
        BY <2>2, <3>2, <4>1, <4>2 DEF IdleLobbiesAreTimed, Departed, EmptiedBy, LobbiesOf
    <3>. QED
      BY <3>1, <3>2 DEF IdleLobbiesAreTimed
  <2>6. ClosedLobbyLeavesNothing'
    <3> SUFFICES ASSUME NEW k \in Lobbies \ openLobbies'
                 PROVE  lobbies'[k] = {} /\ lobbyMeta'[k] = Undefined /\ shown'[k] = {}
      BY DEF ClosedLobbyLeavesNothing
    <3>1. k \notin openLobbies
      BY <2>2
    <3>2. shown'[k] = shown[k]
      BY <2>2, <3>1, BroadcastOutside, ForceCloseOutside DEF Departed, MatchState
    <3>. QED
      BY <2>2, <3>1, <3>2 DEF ClosedLobbyLeavesNothing, Departed, Without
  <2>. QED
    BY <2>4, <2>5, <2>6
<1>. QED
  BY <1>1, <1>2

(* The handlers of matches touch no lobby and disconnect nobody. *)
LEMMA MatchStep ==
  ASSUME TypeOK, LobbyInv, UNCHANGED lobbyVars,
         \A v \in Users : Connected(v) => connectedUsers'[v] # Undefined,
         \A k \in Lobbies \ openLobbies : shown'[k] = shown[k]
  PROVE  LobbyInv'
BY DEF LobbyInv, TypeOK, lobbyVars, DepartedLeavesNoTrace, IdleLobbiesAreTimed,
       ClosedLobbyLeavesNothing, Connected

(* Ending a match changes no lobby. *)
LEMMA EndMatchStep ==
  ASSUME TypeOK, LobbyInv, NEW s \in Sockets, NEW u \in Users, EndMatch(s, u)
  PROVE  LobbyInv'
<1>1. MatchState.users = connectedUsers /\ connectedUsers \in Entries /\ MatchState.shown = shown
  BY DEF MatchState, TypeOK, Entries
<1>2. \A v \in Users : Connected(v) => connectedUsers'[v] # Undefined
  BY <1>1, ForceCloseConnected DEF EndMatch, Commit, Connected
<1>3. \A k \in Lobbies \ openLobbies : shown'[k] = shown[k]
  BY <1>1, ForceCloseOutside DEF EndMatch, Commit
<1>. QED
  BY <1>2, <1>3, MatchStep DEF EndMatch

(* Requesting a match changes no lobby. *)
LEMMA RequestStep ==
  ASSUME TypeOK, LobbyInv, NEW s \in Sockets, NEW c \in Users, NEW o \in Users,
         NEW lobbyId \in Optional(Lobbies), RequestMatch(s, c, o, lobbyId)
  PROVE  LobbyInv'
<1> DEFINE r == ForceClose(ForceClose(MatchState, c), o)
           l == Coalesce(lobbyId, Coalesce(userLobby[c], Coalesce(userLobby[o], DefaultLobby)))
<1>1. \A v \in Users : Connected(v) => r.users[v] # Undefined
  BY ForceCloseKeepsEntries
<1>2. \A k \in Lobbies \ openLobbies : r.shown[k] = shown[k]
  <2>1. MatchState.shown = shown
    BY DEF MatchState
  <2>. QED
    BY <2>1, ForceCloseOutside
<1>3. r.users \in Entries
  <2>1. /\ ForceClose(MatchState, c).users \in Entries
        /\ ForceClose(MatchState, c).matches \in Matches
        /\ ForceClose(MatchState, c).shown \in Rosters
        /\ lobbies \in Rosters
    BY ClosedMatchType DEF TypeOK, Rosters
  <2>. QED
    BY <2>1, ForceCloseType
<1> HIDE DEF r, l
<1>4. CASE Commit(r)
  BY <1>1, <1>2, <1>4, MatchStep DEF Commit, RequestMatch
<1>5. ASSUME NEW m \in MatchIds, r.users[c] # Undefined, r.users[o] # Undefined,
             connectedUsers' = [u \in Users |-> IF u \in {c, o}
                                                  THEN [r.users[u] EXCEPT !.currentMatchId = m]
                                                  ELSE r.users[u]],
             shown' = BroadcastUserList(r.shown, connectedUsers', lobbies, openLobbies, {l})
      PROVE  LobbyInv'
  <2>1. \A v \in Users : Connected(v) => connectedUsers'[v] # Undefined
    BY <1>1, <1>3, <1>5, UndefinedIsNone DEF Entries, Entry
  <2>2. \A k \in Lobbies \ openLobbies : shown'[k] = shown[k]
    BY <1>2, <1>5, BroadcastOutside
  <2>. QED
    BY <2>1, <2>2, MatchStep DEF RequestMatch
<1>. QED
  BY <1>1, <1>4, <1>5 DEF RequestMatch, r, l, Connected

(* The handlers that sync a user to a lobby. *)
LEMMA JoinStep ==
  ASSUME TypeOK, LobbyInv, NEW s \in Sockets, NEW p \in Optional(Lobbies),
         NEW mine \in Optional(Lobbies), NEW g \in Optional(Lookups), Join(s, p, mine, g)
  PROVE  LobbyInv'
<1> DEFINE u == Account[s]
           l == Coalesce(p, Coalesce(mine, DefaultLobby))
           e == JoinedEntry(s, u, mine)
<1>1. u \in Users /\ l \in Lobbies
  BY AccountAssumption, DefaultAssumption DEF Coalesce
<1>2. e \in Entry
  BY <1>1, JoinedEntryType
<1>3. connectedUsers' = [connectedUsers EXCEPT ![u] = e]
  BY DEF Join
<1>4. connectedUsers'[u] # Undefined
  BY <1>1, <1>2, <1>3, UndefinedIsNone DEF TypeOK
<1>5. \A v \in Users : Connected(v) => connectedUsers'[v] # Undefined
  BY <1>3, <1>4 DEF TypeOK, Connected
<1>. QED
  BY <1>1, <1>4, <1>5, SyncStep DEF Join

(* A late geo write makes its user connected before it syncs it. *)
LEMMA GeoStep ==
  ASSUME TypeOK, LobbyInv, NEW g \in Lookups, GeoDone(g)
  PROVE  LobbyInv'
<1> DEFINE u == geo[g].uid
           e == geo[g].user
           l == Coalesce(e.lobbyId, DefaultLobby)
<1>1. u \in Users /\ e \in Entry
  BY DEF GeoDone, TypeOK, Lookup
<1>2. l \in Lobbies
  BY <1>1, DefaultAssumption DEF Coalesce, Entry
<1>3. connectedUsers' = [connectedUsers EXCEPT ![u] = e]
  BY DEF GeoDone
<1>4. connectedUsers'[u] # Undefined
  BY <1>1, <1>3, UndefinedIsNone DEF TypeOK
<1>5. \A v \in Users : Connected(v) => connectedUsers'[v] # Undefined
  BY <1>3, <1>4 DEF TypeOK, Connected
<1>. QED
  BY <1>1, <1>2, <1>4, <1>5, SyncStep DEF GeoDone

(* updateSocketState and the win-streak report sync connected users only. *)
LEMMA ResyncStep ==
  ASSUME TypeOK, LobbyInv, NEW u \in Users,
         \/ InternalWinStreak(u)
         \/ \E s \in Sockets, l \in Lobbies, key \in Optional(Lobbies) :
              UpdateSocketState(s, u, l, key)
  PROVE  LobbyInv'
<1>1. CASE InternalWinStreak(u)
  <2> DEFINE l == Coalesce(userLobby[u], Coalesce(connectedUsers[u].lobbyId, DefaultLobby))
  <2>1. l \in Lobbies
    <3>1. connectedUsers[u] \in Entry /\ userLobby[u] \in Optional(Lobbies)
      BY <1>1 DEF InternalWinStreak, Connected, TypeOK
    <3>. QED
      BY <3>1, DefaultAssumption DEF Coalesce, Entry
  <2>2. connectedUsers' = connectedUsers /\ Connected(u)
    BY <1>1 DEF InternalWinStreak
  <2>3. shown' = BroadcastUserList(shown, connectedUsers', lobbies', openLobbies', {l})
    BY <1>1, <2>2 DEF InternalWinStreak
  <2>. QED
    BY <1>1, <2>1, <2>2, <2>3, SyncStep DEF InternalWinStreak, Connected
<1>2. ASSUME NEW s \in Sockets, NEW l \in Lobbies, NEW key \in Optional(Lobbies),
             UpdateSocketState(s, u, l, key)
      PROVE  LobbyInv'
  <2>1. \A v \in Users : Connected(v) => connectedUsers'[v] # Undefined
    <3>1. connectedUsers[u] \in Entry
      BY <1>2 DEF UpdateSocketState, Connected, TypeOK
    <3>2. [connectedUsers[u] EXCEPT !.lobbyId = key] \in Entry
      BY <3>1 DEF Entry
    <3>. QED
      BY <1>2, <3>2, UndefinedIsNone DEF UpdateSocketState, Connected, TypeOK
  <2>2. connectedUsers'[u] # Undefined
    BY <1>2, <2>1 DEF UpdateSocketState
  <2>. QED
    BY <1>2, <2>1, <2>2, SyncStep DEF UpdateSocketState
<1>. QED
  BY <1>1, <1>2

(* createLobby is a move. *)
LEMMA CreateStep ==
  ASSUME TypeOK, LobbyInv, NEW s \in Sockets, NEW l \in Lobbies, NEW p \in Optional(Passes),
         NEW mine \in Optional(Lobbies), CreateLobby(s, l, p, mine)
  PROVE  LobbyInv'
<1> DEFINE u == Account[s]
           e == IF Connected(u) THEN [connectedUsers[u] EXCEPT !.ws = s]
                                ELSE [ws |-> s, lobbyId |-> mine, currentMatchId |-> Undefined]
<1>1. u \in Users
  BY AccountAssumption
<1>2. e \in Entry
  BY <1>1 DEF TypeOK, Connected, Entry
<1>3. MoveTo(s, u, l, e) /\ \A k \in Lobbies : k # l => lobbyMeta'[k] = lobbyMeta[k]
  BY DEF CreateLobby, TypeOK
<1> HIDE DEF u, e
<1>. QED
  BY <1>1, <1>2, <1>3, MoveStep

(* changeLobby is a move. *)
LEMMA ChangeStep ==
  ASSUME TypeOK, LobbyInv, NEW s \in Sockets, NEW l \in Lobbies, NEW p \in Optional(Passes),
         ChangeLobby(s, l, p)
  PROVE  LobbyInv'
<1> DEFINE u == Account[s]
           e == IF Connected(u) THEN [connectedUsers[u] EXCEPT !.lobbyId = l]
                                ELSE [ws |-> s, lobbyId |-> l, currentMatchId |-> Undefined]
<1>1. u \in Users
  BY AccountAssumption
<1>2. e \in Entry
  BY <1>1 DEF TypeOK, Connected, Entry
<1>3. MoveTo(s, u, l, e) /\ \A k \in Lobbies : k # l => lobbyMeta'[k] = lobbyMeta[k]
  BY DEF ChangeLobby
<1> HIDE DEF u, e
<1>. QED
  BY <1>1, <1>2, <1>3, MoveStep

(* The idle timer leaves nothing of the lobby that it closes. *)
LEMMA TimeoutStep ==
  ASSUME TypeOK, LobbyInv, NEW l \in Lobbies, LobbyTimeout(l)
  PROVE  LobbyInv'
<1>1. DepartedLeavesNoTrace'
  BY DEF LobbyInv, DepartedLeavesNoTrace, LobbyTimeout, TypeOK, Connected
<1>2. IdleLobbiesAreTimed'
  BY DEF LobbyInv, IdleLobbiesAreTimed, LobbyTimeout, TypeOK
<1>3. ClosedLobbyLeavesNothing'
  BY DEF LobbyInv, ClosedLobbyLeavesNothing, LobbyTimeout, TypeOK
<1>. QED
  BY <1>1, <1>2, <1>3 DEF LobbyInv

(* Every step keeps the three lobby invariants together. *)
LEMMA NextLobby == TypeOK /\ LobbyInv /\ [Next]_vars => LobbyInv'
<1> SUFFICES ASSUME TypeOK, LobbyInv, [Next]_vars
             PROVE  LobbyInv'
  OBVIOUS
<1>1. CASE \/ UNCHANGED vars
           \/ \E s \in Sockets : Connect(s) \/ Drop(s)
           \/ \E g \in Lookups : GeoFail(g)
  <2>1. UNCHANGED <<connectedUsers, lobbyVars, shown>>
    BY <1>1 DEF vars, Connect, Drop, GeoFail, presence, lobbyVars
  <2>. QED
    BY <2>1, MatchStep DEF Connected, lobbyVars
<1>2. ASSUME NEW s \in Sockets, SocketStep(s)
      PROVE  LobbyInv'
  <2>1. CASE Connect(s) \/ Drop(s)
    BY <1>1, <2>1
  <2>2. CASE Close(s)
    BY <2>2, CloseStep
  <2>3. CASE MatchStatus(s)
    <3>1. wsUid[s] \in Users
      BY <2>3 DEF MatchStatus, TypeOK
    <3>. QED
      BY <2>3, <3>1, EndMatchStep DEF MatchStatus
  <2>4. CASE \E l, mine \in Optional(Lobbies), g \in Optional(Lookups) : Join(s, l, mine, g)
    BY <2>4, JoinStep
  <2>5. CASE \E u \in Users, l \in Lobbies, key \in Optional(Lobbies) :
               UpdateSocketState(s, u, l, key)
    BY <2>5, ResyncStep
  <2>6. CASE \E l \in Lobbies, p \in Optional(Passes), mine \in Optional(Lobbies) :
               CreateLobby(s, l, p, mine)
    BY <2>6, CreateStep
  <2>7. CASE \E l \in Lobbies, p \in Optional(Passes) : ChangeLobby(s, l, p)
    BY <2>7, ChangeStep
  <2>8. CASE \E c, o \in Users, l \in Optional(Lobbies) : RequestMatch(s, c, o, l)
    BY <2>8, RequestStep
  <2>9. CASE \E u \in Users : UserDisconnect(s, u) \/ MatchEnd(s, u)
    BY <2>9, EndMatchStep DEF UserDisconnect, MatchEnd
  <2>. QED
    BY <1>2, <2>1, <2>2, <2>3, <2>4, <2>5, <2>6, <2>7, <2>8, <2>9 DEF SocketStep
<1>3. CASE \E u \in Users : InternalWinStreak(u)
  BY <1>3, ResyncStep
<1>4. CASE \E g \in Lookups : GeoDone(g)
  BY <1>4, GeoStep
<1>5. CASE \E l \in Lobbies : LobbyTimeout(l)
  BY <1>5, TimeoutStep
<1>. QED
  BY <1>1, <1>2, <1>3, <1>4, <1>5 DEF Next

(* So they hold in every reachable state. *)
LEMMA LobbyInvariant == Spec => [](TypeOK /\ LobbyInv)
BY InitType, NextType, LobbyInit, NextLobby, PTL DEF Spec

(* Whatever the clients, the timers and the late geo writes do, a user who *)
(* has no entry any more is a member of no lobby and has no current lobby. *)
THEOREM DepartedCorrect == Spec => []DepartedLeavesNoTrace
BY LobbyInvariant, PTL DEF LobbyInv

(* An open lobby without members always has its timer armed, and the       *)
(* default lobby never does.                                               *)
THEOREM IdleCorrect == Spec => []IdleLobbiesAreTimed
BY LobbyInvariant, PTL DEF LobbyInv

(* A lobby that is not open has no members, no password and no list.       *)
THEOREM ClosedCorrect == Spec => []ClosedLobbyLeavesNothing
BY LobbyInvariant, PTL DEF LobbyInv

(* An armed timer can fire: LobbyTimeout is this guard and assignments, of *)
(* which the first disarms the timer.  The provers know nothing of         *)
(* ENABLED, so this is a hypothesis of the theorem and not a lemma.        *)
TimerCanFire(l) == l \in lobbyTimeouts => ENABLED <<LobbyTimeout(l)>>_vars

TimersCanFire == \A l \in Lobbies : TimerCanFire(l)

LEMMA LobbyClosesInTime ==
  ASSUME NEW l \in Lobbies \ {DefaultLobby}
  PROVE  []LobbyInv /\ TimerIsFair(l) /\ []TimersCanFire =>
           ((l \in openLobbies /\ lobbies[l] = {}) ~> (l \notin openLobbies \/ lobbies[l] # {}))
<1>1. \/ LobbyInv => l \in lobbyTimeouts
      \/ l \notin openLobbies \/ lobbies[l] # {}
  BY DEF LobbyInv, IdleLobbiesAreTimed
<1>2. <<LobbyTimeout(l)>>_vars => (l \notin openLobbies)'
  BY DEF LobbyTimeout
<1>3. TimersCanFire => TimerCanFire(l)
  BY DEF TimersCanFire
<1>. QED
  BY <1>1, <1>2, <1>3, PTL DEF TimerIsFair, TimerCanFire

(* A lobby that everybody has left goes, or is used again: its timer was   *)
(* armed by whoever left last, and only moving in or closing disarms it.   *)
THEOREM AbandonedCorrect == FairSpec /\ []TimersCanFire => AbandonedLobbyCloses
<1> SUFFICES ASSUME NEW l \in Lobbies \ {DefaultLobby}
             PROVE  FairSpec /\ []TimersCanFire =>
                      ((l \in openLobbies /\ lobbies[l] = {})
                         ~> (l \notin openLobbies \/ lobbies[l] # {}))
  BY DEF AbandonedLobbyCloses
<1>1. Fairness => TimerIsFair(l)
  BY DEF Fairness
<1>. QED
  BY <1>1, LobbyInvariant, LobbyClosesInTime, PTL DEF FairSpec

(* Only createLobby and the timer write a password. *)
LEMMA PasswordStep ==
  TypeOK /\ [Next]_vars =>
    [\A l \in openLobbies \cap openLobbies' :
       lobbyMeta[l] # Undefined => lobbyMeta'[l] = lobbyMeta[l]]_vars
<1> SUFFICES ASSUME TypeOK, Next, NEW l \in openLobbies \cap openLobbies'
             PROVE  lobbyMeta'[l] = lobbyMeta[l]
  OBVIOUS
<1>1. CASE UNCHANGED lobbyMeta
  BY <1>1
<1>2. ASSUME NEW s \in Sockets, NEW k \in Lobbies, NEW p \in Optional(Passes),
             NEW mine \in Optional(Lobbies), CreateLobby(s, k, p, mine)
      PROVE  lobbyMeta'[l] = lobbyMeta[l]
  BY <1>2 DEF CreateLobby, TypeOK
<1>3. ASSUME NEW k \in Lobbies, LobbyTimeout(k)
      PROVE  lobbyMeta'[l] = lobbyMeta[l]
  BY <1>3 DEF LobbyTimeout, TypeOK
<1>4. ASSUME NEW s \in Sockets, Connect(s) \/ Drop(s) \/ Close(s)
      PROVE  UNCHANGED lobbyMeta
  BY <1>4 DEF Connect, Drop, Close, lobbyVars
<1>5. ASSUME NEW s \in Sockets, NEW u \in Users,
             UserDisconnect(s, u) \/ MatchEnd(s, u) \/ MatchStatus(s)
      PROVE  UNCHANGED lobbyMeta
  BY <1>5 DEF UserDisconnect, MatchEnd, MatchStatus, EndMatch, lobbyVars
<1>6. ASSUME NEW s \in Sockets, NEW c, NEW o, NEW k, NEW p, NEW g,
             \/ Join(s, k, o, g) \/ UpdateSocketState(s, c, k, o)
             \/ ChangeLobby(s, k, p) \/ RequestMatch(s, c, o, k)
      PROVE  UNCHANGED lobbyMeta
  BY <1>6 DEF Join, UpdateSocketState, ChangeLobby, RequestMatch, lobbyVars
<1>7. ASSUME NEW u, NEW g, InternalWinStreak(u) \/ GeoDone(g) \/ GeoFail(g)
      PROVE  UNCHANGED lobbyMeta
  BY <1>7 DEF InternalWinStreak, GeoDone, GeoFail, lobbyVars
<1>8. ASSUME NEW s \in Sockets, SocketStep(s)
      PROVE  lobbyMeta'[l] = lobbyMeta[l]
  <2>1. CASE MatchStatus(s)
    BY <2>1 DEF MatchStatus, EndMatch, lobbyVars
  <2>. QED
    BY <1>1, <1>2, <1>4, <1>5, <1>6, <1>8, <2>1 DEF SocketStep
<1>. QED
  BY <1>1, <1>3, <1>7, <1>8 DEF Next

(* No step of the server replaces or drops the password of a lobby that    *)
(* stays open.                                                             *)
THEOREM PasswordCorrect == Spec => PasswordKept
BY PasswordStep, TypeCorrect, PTL DEF Spec, PasswordKept
-----------------------------------------------------------------------------
(* Matches.  AgreeOn is MatchesAgree for any entries and registry, so that *)
(* it can be followed through the two force-closes of a request.           *)
AgreeOn(users, matches) ==
  \A u \in Users \ adrift, m \in MatchIds :
    (matches[m] # Undefined /\ u \in matches[m].players) <=> CurrentMatch(users, u) = m

(* The agreement as a predicate of entries and registry. *)
LEMMA AgreeIsMatchesAgree == MatchesAgree <=> AgreeOn(connectedUsers, activeMatches)
BY DEF MatchesAgree, AgreeOn, Plays

(* Freeing a set of players clears their current match and no other. *)
LEMMA FreedMatch ==
  ASSUME NEW users \in Entries, NEW players, NEW v \in Users
  PROVE  CurrentMatch(Freed(users, players), v) =
           IF v \in players THEN Undefined ELSE CurrentMatch(users, v)
BY UndefinedIsNone DEF CurrentMatch, Freed, Entries, Entry

(* forceCloseMatchForUser keeps the agreement, frees the user it is called *)
(* for, and gives nobody another match.                                    *)
LEMMA ForceCloseAgrees ==
  ASSUME NEW r, r.users \in Entries, r.matches \in Matches, AgreeOn(r.users, r.matches),
         NEW u \in Users
  PROVE  /\ AgreeOn(ForceClose(r, u).users, ForceClose(r, u).matches)
         /\ u \notin adrift => CurrentMatch(ForceClose(r, u).users, u) = Undefined
         /\ \A v \in Users : CurrentMatch(ForceClose(r, u).users, v)
                               \in {CurrentMatch(r.users, v), Undefined}
<1> DEFINE m == CurrentMatch(r.users, u)
           P == Participants(r.matches, m, u)
           users == Freed(r.users, P)
           matches == [r.matches EXCEPT ![m] = Undefined]
<1>1. CASE m = Undefined
  BY <1>1 DEF ForceClose
<1>2. CASE m # Undefined
  <2>1. m \in MatchIds
    BY <1>2, CurrentMatchType
  <2>2. ForceClose(r, u).users = users /\ ForceClose(r, u).matches = matches
    BY <1>2 DEF ForceClose
  <2>3. \A v \in Users : CurrentMatch(users, v) =
                           IF v \in P THEN Undefined ELSE CurrentMatch(r.users, v)
    BY FreedMatch
  <2>4. \A v \in Users \ adrift : CurrentMatch(r.users, v) = m => v \in P
    BY <2>1 DEF AgreeOn, Participants
  <2>5. \A v \in Users \ adrift : v \in P => CurrentMatch(r.users, v) = m
    BY <2>1 DEF AgreeOn, Participants
  <2>6. ASSUME NEW v \in Users \ adrift, NEW k \in MatchIds
        PROVE  (matches[k] # Undefined /\ v \in matches[k].players)
                 <=> CurrentMatch(users, v) = k
    <3>1. Undefined # k
      BY UndefinedIsNone
    <3>2. CASE k = m
      <4>1. matches[k] = Undefined
        BY <2>1, <3>2 DEF Matches
      <4>2. CurrentMatch(users, v) # k
        BY <2>3, <2>4, <3>1, <3>2
      <4>. QED
        BY <4>1, <4>2
    <3>3. CASE k # m
      <4>1. matches[k] = r.matches[k]
        BY <3>3 DEF Matches
      <4>2. CurrentMatch(users, v) = k <=> CurrentMatch(r.users, v) = k
        BY <2>3, <2>5, <3>1, <3>3
      <4>. QED
        BY <4>1, <4>2 DEF AgreeOn
    <3>. QED
      BY <3>2, <3>3
  <2>7. AgreeOn(users, matches)
    BY <2>6 DEF AgreeOn
  <2>8. u \notin adrift => CurrentMatch(users, u) = Undefined
    BY <2>3, <2>4
  <2>9. \A v \in Users : CurrentMatch(users, v) \in {CurrentMatch(r.users, v), Undefined}
    BY <2>3
  <2> HIDE DEF users, matches
  <2>. QED
    BY <2>2, <2>7, <2>8, <2>9
<1>. QED
  BY <1>1, <1>2

(* A step that registers and closes nothing and, except for users it sets  *)
(* adrift, changes no currentMatchId.                                      *)
LEMMA SameMatches ==
  ASSUME MatchesAgree, activeMatches' = activeMatches, adrift \subseteq adrift',
         \A v \in Users \ adrift' :
           CurrentMatch(connectedUsers', v) = CurrentMatch(connectedUsers, v)
  PROVE  MatchesAgree'
BY DEF MatchesAgree, Plays

(* Storing an entry for u changes the current match of u at most. *)
LEMMA ReplacedEntry ==
  ASSUME TypeOK, NEW u \in Users, NEW e \in Entry,
         connectedUsers' = [connectedUsers EXCEPT ![u] = e],
         u \notin adrift' => e.currentMatchId = CurrentMatch(connectedUsers, u)
  PROVE  \A v \in Users \ adrift' :
           CurrentMatch(connectedUsers', v) = CurrentMatch(connectedUsers, v)
BY UndefinedIsNone DEF CurrentMatch, TypeOK

(* The close handler keeps the agreement. *)
LEMMA CloseMatches ==
  ASSUME TypeOK, MatchesAgree, NEW s \in Sockets, Close(s)
  PROVE  MatchesAgree'
<1>1. CASE wsUid[s] = Undefined
  BY <1>1, SameMatches DEF Close, presence
<1>2. CASE wsUid[s] # Undefined
  <2> DEFINE u == wsUid[s]
             r == ForceClose(MatchState, u)
  <2>1. u \in Users
    BY <1>2 DEF TypeOK
  <2>2. /\ connectedUsers' = [r.users EXCEPT ![u] = Undefined]
        /\ activeMatches' = r.matches
        /\ adrift' = adrift
    BY <1>2 DEF Close, Departed
  <2>3. /\ MatchState.users \in Entries
        /\ MatchState.matches \in Matches
        /\ AgreeOn(MatchState.users, MatchState.matches)
    BY AgreeIsMatchesAgree DEF MatchState, TypeOK, Entries, Matches
  <2>4. r.users \in Entries
    BY <2>1, ClosedMatchType
  <2>5. /\ AgreeOn(r.users, r.matches)
        /\ u \notin adrift => CurrentMatch(r.users, u) = Undefined
    BY <2>1, <2>3, ForceCloseAgrees
  <2> HIDE DEF r
  <2>6. \A v \in Users \ adrift : CurrentMatch(connectedUsers', v) = CurrentMatch(r.users, v)
    BY <2>2, <2>4, <2>5 DEF CurrentMatch, Entries
  <2>. QED
    BY <2>2, <2>5, <2>6 DEF AgreeOn, MatchesAgree, Plays
<1>. QED
  BY <1>1, <1>2

(* Ending a match keeps the agreement. *)
LEMMA EndMatchMatches ==
  ASSUME TypeOK, MatchesAgree, NEW s \in Sockets, NEW u \in Users, EndMatch(s, u)
  PROVE  MatchesAgree'
<1>1. /\ MatchState.users \in Entries
      /\ MatchState.matches \in Matches
      /\ AgreeOn(MatchState.users, MatchState.matches)
  BY AgreeIsMatchesAgree DEF MatchState, TypeOK, Entries, Matches
<1>2. AgreeOn(ForceClose(MatchState, u).users, ForceClose(MatchState, u).matches)
  BY <1>1, ForceCloseAgrees
<1>. QED
  BY <1>2 DEF EndMatch, Commit, AgreeOn, MatchesAgree, Plays

(* A request, which first closes what both players were in, keeps it. *)
LEMMA RequestMatches ==
  ASSUME TypeOK, MatchesAgree, NEW s \in Sockets, NEW c \in Users, NEW o \in Users,
         NEW lobbyId \in Optional(Lobbies), RequestMatch(s, c, o, lobbyId)
  PROVE  MatchesAgree'
<1> DEFINE q == ForceClose(MatchState, c)
           r == ForceClose(q, o)
           l == Coalesce(lobbyId, Coalesce(userLobby[c], Coalesce(userLobby[o], DefaultLobby)))
<1>1. /\ MatchState.users = connectedUsers
      /\ MatchState.users \in Entries
      /\ MatchState.matches \in Matches
      /\ MatchState.shown \in Rosters
      /\ lobbies \in Rosters
      /\ AgreeOn(MatchState.users, MatchState.matches)
  BY AgreeIsMatchesAgree DEF MatchState, TypeOK, Entries, Matches, Rosters
<1>2. /\ q.users \in Entries /\ q.matches \in Matches /\ q.shown \in Rosters
      /\ AgreeOn(q.users, q.matches)
      /\ c \notin adrift => CurrentMatch(q.users, c) = Undefined
      /\ \A v \in Users : CurrentMatch(q.users, v) \in {CurrentMatch(connectedUsers, v), Undefined}
  BY <1>1, ClosedMatchType, ForceCloseAgrees
<1> HIDE DEF q
<1>3. /\ r.users \in Entries /\ r.matches \in Matches
      /\ AgreeOn(r.users, r.matches)
      /\ o \notin adrift => CurrentMatch(r.users, o) = Undefined
      /\ \A v \in Users : CurrentMatch(r.users, v) \in {CurrentMatch(q.users, v), Undefined}
  BY <1>1, <1>2, ForceCloseType, ForceCloseAgrees
<1>4. /\ c \notin adrift => CurrentMatch(r.users, c) = Undefined
      /\ \A v \in Users : CurrentMatch(r.users, v) \in {CurrentMatch(connectedUsers, v), Undefined}
  BY <1>2, <1>3
<1>5. adrift' = adrift
  BY DEF RequestMatch
<1> HIDE DEF r, l
<1>6. CASE Commit(r)
  BY <1>3, <1>5, <1>6 DEF Commit, AgreeOn, MatchesAgree, Plays
<1>7. ASSUME NEW m \in MatchIds, Unused(m), r.users[c] # Undefined, r.users[o] # Undefined,
             connectedUsers' = [u \in Users |-> IF u \in {c, o}
                                                  THEN [r.users[u] EXCEPT !.currentMatchId = m]
                                                  ELSE r.users[u]],
             activeMatches' = [r.matches EXCEPT ![m] = [lobbyId |-> l, players |-> {c, o}]]
      PROVE  MatchesAgree'
  <2>1. \A v \in Users : CurrentMatch(connectedUsers', v) =
                           IF v \in {c, o} THEN m ELSE CurrentMatch(r.users, v)
    BY <1>3, <1>7, UndefinedIsNone DEF CurrentMatch, Entries, Entry
  <2>2. activeMatches'[m] = [lobbyId |-> l, players |-> {c, o}] /\ activeMatches'[m] # Undefined
    <3>1. activeMatches'[m] = [lobbyId |-> l, players |-> {c, o}]
      BY <1>3, <1>7 DEF Matches
    <3>2. l \in Lobbies
      BY DefaultAssumption DEF l, Coalesce, TypeOK
    <3>3. activeMatches'[m] \in Match
      BY <3>1, <3>2 DEF Match
    <3>. QED
      BY <3>1, <3>3, UndefinedIsNone
  <2>3. \A k \in MatchIds : k # m => activeMatches'[k] = r.matches[k]
    BY <1>3, <1>7 DEF Matches
  <2>4. \A v \in Users : CurrentMatch(r.users, v) # m
    BY <1>4, <1>7, UndefinedIsNone DEF Unused
  <2>5. ASSUME NEW v \in Users \ adrift, NEW k \in MatchIds
        PROVE  (activeMatches'[k] # Undefined /\ v \in activeMatches'[k].players)
                 <=> CurrentMatch(connectedUsers', v) = k
    <3>1. CASE k = m
      BY <2>1, <2>2, <2>4, <3>1
    <3>2. CASE k # m /\ v \in {c, o}
      <4>1. CurrentMatch(r.users, v) = Undefined /\ Undefined # k
        BY <1>3, <1>4, <3>2, UndefinedIsNone
      <4>2. ~(r.matches[k] # Undefined /\ v \in r.matches[k].players)
        BY <1>3, <4>1 DEF AgreeOn
      <4>. QED
        BY <2>1, <2>3, <3>2, <4>2
    <3>3. CASE k # m /\ v \notin {c, o}
      BY <1>3, <2>1, <2>3, <3>3 DEF AgreeOn
    <3>. QED
      BY <3>1, <3>2, <3>3
  <2>. QED
    BY <1>5, <2>5 DEF MatchesAgree, Plays
<1>8. Connected(c) /\ Connected(o) => r.users[c] # Undefined /\ r.users[o] # Undefined
  BY ForceCloseKeepsEntries DEF r, q
<1>. QED
  BY <1>6, <1>7, <1>8 DEF RequestMatch, r, q, l

(* The handlers that write an entry keep its currentMatchId; a late geo    *)
(* write that does not sets the user adrift.                               *)
LEMMA EntryMatches ==
  ASSUME TypeOK, MatchesAgree, NEW u \in Users, NEW e \in Entry,
         connectedUsers' = [connectedUsers EXCEPT ![u] = e],
         u \notin adrift' => e.currentMatchId = CurrentMatch(connectedUsers, u),
         activeMatches' = activeMatches, adrift \subseteq adrift'
  PROVE  MatchesAgree'
BY ReplacedEntry, SameMatches

(* A join keeps the currentMatchId of an existing entry. *)
LEMMA JoinMatches ==
  ASSUME TypeOK, MatchesAgree, NEW s \in Sockets, NEW p \in Optional(Lobbies),
         NEW mine \in Optional(Lobbies), NEW g \in Optional(Lookups), Join(s, p, mine, g)
  PROVE  MatchesAgree'
<1> DEFINE u == Account[s]
           e == JoinedEntry(s, u, mine)
<1>1. u \in Users
  BY AccountAssumption
<1>2. e \in Entry /\ e.currentMatchId = CurrentMatch(connectedUsers, u)
  BY <1>1, JoinedEntryType DEF JoinedEntry
<1>3. /\ connectedUsers' = [connectedUsers EXCEPT ![u] = e]
      /\ activeMatches' = activeMatches /\ adrift' = adrift
  BY DEF Join
<1> HIDE DEF e
<1>. QED
  BY <1>1, <1>2, <1>3, EntryMatches

(* A late geo write keeps it, or sets its user adrift. *)
LEMMA GeoMatches ==
  ASSUME TypeOK, MatchesAgree, NEW g \in Lookups, GeoDone(g)
  PROVE  MatchesAgree'
<1> DEFINE u == geo[g].uid
           e == geo[g].user
<1>1. u \in Users /\ e \in Entry
  BY DEF GeoDone, TypeOK, Lookup
<1>2. /\ connectedUsers' = [connectedUsers EXCEPT ![u] = e]
      /\ activeMatches' = activeMatches
      /\ adrift \subseteq adrift'
      /\ u \notin adrift' => e.currentMatchId = CurrentMatch(connectedUsers, u)
  BY DEF GeoDone
<1>. QED
  BY <1>1, <1>2, EntryMatches

(* updateSocketState does not touch it. *)
LEMMA UpdateMatches ==
  ASSUME TypeOK, MatchesAgree, NEW s \in Sockets, NEW u \in Users, NEW l \in Lobbies,
         NEW key \in Optional(Lobbies), UpdateSocketState(s, u, l, key)
  PROVE  MatchesAgree'
<1>1. connectedUsers[u] \in Entry /\ activeMatches' = activeMatches /\ adrift' = adrift
  BY DEF UpdateSocketState, Connected, TypeOK
<1>2. CASE key = Undefined
  BY <1>1, <1>2, SameMatches DEF UpdateSocketState
<1>3. CASE key # Undefined
  <2> DEFINE e == [connectedUsers[u] EXCEPT !.lobbyId = key]
  <2>1. e \in Entry /\ e.currentMatchId = connectedUsers[u].currentMatchId
    BY <1>1 DEF Entry
  <2>2. connectedUsers' = [connectedUsers EXCEPT ![u] = e]
    BY <1>3 DEF UpdateSocketState
  <2>3. e.currentMatchId = CurrentMatch(connectedUsers, u)
    BY <1>1, <2>1, UndefinedIsNone DEF CurrentMatch
  <2> HIDE DEF e
  <2>. QED
    BY <1>1, <2>1, <2>2, <2>3, EntryMatches
<1>. QED
  BY <1>2, <1>3

(* Nor does a move. *)
LEMMA MoveMatches ==
  ASSUME TypeOK, MatchesAgree, NEW s \in Sockets, NEW u \in Users, NEW l \in Lobbies,
         NEW e \in Entry, MoveTo(s, u, l, e),
         e.currentMatchId = CurrentMatch(connectedUsers, u)
  PROVE  MatchesAgree'
<1>1. /\ connectedUsers' = [connectedUsers EXCEPT ![u] = e]
      /\ activeMatches' = activeMatches
      /\ adrift \subseteq adrift'
  BY DEF MoveTo
<1>. QED
  BY <1>1, EntryMatches

(* createLobby and changeLobby are moves with an entry that keeps the      *)
(* user's match and sits on the sender's connection or where it sat.       *)
LEMMA LobbyMove ==
  ASSUME TypeOK, NEW s \in Sockets, NEW l \in Lobbies, NEW p \in Optional(Passes),
         NEW mine \in Optional(Lobbies), CreateLobby(s, l, p, mine) \/ ChangeLobby(s, l, p)
  PROVE  /\ Account[s] \in Users
         /\ sock[s] = "open"
         /\ \E e \in Entry :
              /\ MoveTo(s, Account[s], l, e)
              /\ e.currentMatchId = CurrentMatch(connectedUsers, Account[s])
              /\ \/ e.ws = s
                 \/ Connected(Account[s]) /\ e.ws = connectedUsers[Account[s]].ws
<1> DEFINE u == Account[s]
<1>1. u \in Users
  BY AccountAssumption
<1>2. Connected(u) => connectedUsers[u] \in Entry
  BY <1>1 DEF TypeOK, Connected
<1>3. CASE CreateLobby(s, l, p, mine)
  <2> DEFINE e == IF Connected(u)
                    THEN [connectedUsers[u] EXCEPT !.ws = s]
                    ELSE [ws |-> s, lobbyId |-> mine, currentMatchId |-> Undefined]
  <2>1. e \in Entry /\ e.ws = s /\ e.currentMatchId = CurrentMatch(connectedUsers, u)
    BY <1>2 DEF Entry, CurrentMatch, Connected
  <2>2. MoveTo(s, u, l, e) /\ sock[s] = "open"
    BY <1>3 DEF CreateLobby
  <2> HIDE DEF e
  <2>. QED
    BY <1>1, <2>1, <2>2
<1>4. CASE ChangeLobby(s, l, p)
  <2> DEFINE e == IF Connected(u)
                    THEN [connectedUsers[u] EXCEPT !.lobbyId = l]
                    ELSE [ws |-> s, lobbyId |-> l, currentMatchId |-> Undefined]
  <2>1. /\ e \in Entry
        /\ e.currentMatchId = CurrentMatch(connectedUsers, u)
        /\ e.ws = s \/ (Connected(u) /\ e.ws = connectedUsers[u].ws)
    BY <1>2 DEF Entry, CurrentMatch, Connected
  <2>2. MoveTo(s, u, l, e) /\ sock[s] = "open"
    BY <1>4 DEF ChangeLobby
  <2> HIDE DEF e
  <2>. QED
    BY <1>1, <2>1, <2>2
<1>. QED
  BY <1>3, <1>4

(* Every step keeps the agreement of registry and entries. *)
LEMMA NextMatches == TypeOK /\ MatchesAgree /\ [Next]_vars => MatchesAgree'
<1> SUFFICES ASSUME TypeOK, MatchesAgree, [Next]_vars
             PROVE  MatchesAgree'
  OBVIOUS
<1>1. CASE UNCHANGED <<connectedUsers, activeMatches, adrift>>
  BY <1>1, SameMatches
<1>2. ASSUME NEW s \in Sockets, SocketStep(s)
      PROVE  MatchesAgree'
  <2>1. CASE Connect(s) \/ Drop(s)
    BY <1>1, <2>1 DEF Connect, Drop, presence
  <2>2. CASE Close(s)
    BY <2>2, CloseMatches
  <2>3. CASE MatchStatus(s)
    <3>1. wsUid[s] \in Users
      BY <2>3 DEF MatchStatus, TypeOK
    <3>. QED
      BY <2>3, <3>1, EndMatchMatches DEF MatchStatus
  <2>4. CASE \E l, mine \in Optional(Lobbies), g \in Optional(Lookups) : Join(s, l, mine, g)
    BY <2>4, JoinMatches
  <2>5. CASE \E u \in Users, l \in Lobbies, key \in Optional(Lobbies) :
               UpdateSocketState(s, u, l, key)
    BY <2>5, UpdateMatches
  <2>6. CASE \E l \in Lobbies, p \in Optional(Passes), mine \in Optional(Lobbies) :
               CreateLobby(s, l, p, mine)
    BY <2>6, LobbyMove, MoveMatches
  <2>7. CASE \E l \in Lobbies, p \in Optional(Passes) : ChangeLobby(s, l, p)
    BY <2>7, LobbyMove, MoveMatches
  <2>8. CASE \E c, o \in Users, l \in Optional(Lobbies) : RequestMatch(s, c, o, l)
    BY <2>8, RequestMatches
  <2>9. CASE \E u \in Users : UserDisconnect(s, u) \/ MatchEnd(s, u)
    BY <2>9, EndMatchMatches DEF UserDisconnect, MatchEnd
  <2>. QED
    BY <1>2, <2>1, <2>2, <2>3, <2>4, <2>5, <2>6, <2>7, <2>8, <2>9 DEF SocketStep
<1>3. CASE \E u \in Users : InternalWinStreak(u)
  BY <1>1, <1>3 DEF InternalWinStreak
<1>4. CASE \E g \in Lookups : GeoDone(g) \/ GeoFail(g)
  BY <1>1, <1>4, GeoMatches DEF GeoFail, presence
<1>5. CASE \E l \in Lobbies : LobbyTimeout(l)
  BY <1>1, <1>5 DEF LobbyTimeout
<1>6. CASE UNCHANGED vars
  BY <1>1, <1>6 DEF vars
<1>. QED
  BY <1>2, <1>3, <1>4, <1>5, <1>6 DEF Next

(* A match lists exactly the users whose currentMatchId names it, for      *)
(* every user that no stale write has touched: no sequence of requests,    *)
(* departures and reconnections leaves a player in a match that the        *)
(* registry has forgotten, or the registry with a player who has left.     *)
THEOREM MatchesCorrect == Spec => []MatchesAgree
<1>1. Init => MatchesAgree
  BY UndefinedIsNone DEF Init, MatchesAgree, Plays, CurrentMatch
<1>. QED
  BY <1>1, NextMatches, TypeCorrect, PTL DEF Spec
-----------------------------------------------------------------------------
(* The registry as Pairing sees it.  Closing is what one force close takes *)
(* out of it.                                                              *)
Closing(r, u) == {k \in MatchIds : k = CurrentMatch(r.users, u) /\ r.matches[k] # Undefined}

LEMMA ForceCloseRemoves ==
  ASSUME NEW r, r.users \in Entries, r.matches \in Matches, NEW u \in Users
  PROVE  \A k \in MatchIds :
           ForceClose(r, u).matches[k] = IF k \in Closing(r, u) THEN Undefined ELSE r.matches[k]
<1> DEFINE m == CurrentMatch(r.users, u)
<1>1. CASE m = Undefined
  BY <1>1, UndefinedIsNone DEF ForceClose, Closing
<1>2. CASE m # Undefined
  <2>1. m \in MatchIds
    BY <1>2, CurrentMatchType
  <2>2. ForceClose(r, u).matches = [r.matches EXCEPT ![m] = Undefined]
    BY <1>2 DEF ForceClose
  <2>. QED
    BY <2>1, <2>2 DEF Matches, Closing
<1>. QED
  BY <1>1, <1>2

(* Of a user who is not adrift, a force close takes the matches it plays.  *)
LEMMA ClosingIsPlayed ==
  ASSUME NEW r, AgreeOn(r.users, r.matches), NEW u \in Users \ adrift, NEW k \in MatchIds
  PROVE  k \in Closing(r, u) <=> r.matches[k] # Undefined /\ u \in r.matches[k].players
BY DEF AgreeOn, Closing

(* What is closed for users S, as Pairing counts it: matches with players. *)
LEMMA EndsAsPromised ==
  ASSUME NEW S \in SUBSET Users, NEW closed \in SUBSET MatchIds,
         \A k \in closed : activeMatches[k] # Undefined,
         \A v \in S \ adrift, k \in MatchIds : Plays(v, k) => k \in closed,
         S \cap adrift = {} => \A k \in closed : \E v \in S : Plays(v, k)
  PROVE  Registry!Ends(S, {k \in closed : activeMatches[k].players # {}})
BY DEF Registry!Ends, Registry!Live, Registry!MatchesOf, Plays

LEMMA LeaveIsNext ==
  ASSUME NEW u \in Users, NEW gone \in SUBSET MatchIds, Registry!Leave(u, gone)
  PROVE  Registry!Next
BY DEF Registry!Next

LEMMA RequestIsNext ==
  ASSUME NEW c \in Users, NEW o \in Users, NEW gone \in SUBSET MatchIds,
         Registry!Refuse(c, o, gone) \/ \E m \in MatchIds : Registry!Start(c, o, gone, m)
  PROVE  Registry!Next
BY DEF Registry!Next

(* A new match among the others. *)
LEMMA StartedIs ==
  ASSUME NEW before, NEW after, NEW m \in MatchIds, NEW players,
         after[m] # Undefined, after[m].players = players,
         \A k \in MatchIds : k # m => after[k] = before[k]
  PROVE  [k \in MatchIds |-> IF after[k] = Undefined THEN {} ELSE after[k].players]
           = [[k \in MatchIds |-> IF before[k] = Undefined THEN {} ELSE before[k].players]
                EXCEPT ![m] = players]
OBVIOUS

LEMMA LeaveAsPromised ==
  ASSUME TypeOK, MatchesAgree, NEW u \in Users,
         activeMatches' = ForceClose(MatchState, u).matches, adrift' = adrift
  PROVE  Registry!Next
<1> DEFINE closed == Closing(MatchState, u)
           gone == {k \in closed : activeMatches[k].players # {}}
<1>1. /\ MatchState.users \in Entries /\ MatchState.matches \in Matches
      /\ MatchState.matches = activeMatches
      /\ AgreeOn(MatchState.users, MatchState.matches)
  BY AgreeIsMatchesAgree DEF MatchState, TypeOK, Entries, Matches
<1>2. \A k \in MatchIds : activeMatches'[k] = IF k \in closed THEN Undefined ELSE activeMatches[k]
  BY <1>1, ForceCloseRemoves
<1>3. closed \in SUBSET MatchIds /\ \A k \in closed : activeMatches[k] # Undefined
  BY <1>1 DEF Closing
<1>4. u \notin adrift => \A k \in MatchIds : k \in closed <=> Plays(u, k)
  BY <1>1, ClosingIsPlayed DEF Plays
<1> HIDE DEF closed
<1>5. PICK G \in SUBSET MatchIds : G = gone
  BY <1>3
<1>6. Registry!Ends({u}, G)
  BY <1>3, <1>4, <1>5, EndsAsPromised
<1>7. [k \in MatchIds |-> IF activeMatches'[k] = Undefined THEN {} ELSE activeMatches'[k].players]
        = Registry!Without(G)
  BY <1>2, <1>3, <1>5 DEF Registry!Without
<1>8. Registry!Leave(u, G)
  BY <1>6, <1>7 DEF Registry!Leave
<1>. QED
  BY <1>8, LeaveIsNext

LEMMA RequestAsPromised ==
  ASSUME TypeOK, MatchesAgree, NEW s \in Sockets, NEW c \in Users, NEW o \in Users,
         NEW lobbyId \in Optional(Lobbies), RequestMatch(s, c, o, lobbyId)
  PROVE  Registry!Next
<1> DEFINE q == ForceClose(MatchState, c)
           r == ForceClose(q, o)
           closed == Closing(MatchState, c) \cup Closing(q, o)
           gone == {k \in closed : activeMatches[k].players # {}}
<1>1. /\ MatchState.users \in Entries /\ MatchState.matches \in Matches
      /\ MatchState.matches = activeMatches
      /\ AgreeOn(MatchState.users, MatchState.matches)
  BY AgreeIsMatchesAgree DEF MatchState, TypeOK, Entries, Matches
<1>2. q.users \in Entries /\ q.matches \in Matches /\ AgreeOn(q.users, q.matches)
  BY <1>1, ClosedMatchType, ForceCloseAgrees
<1>3. \A k \in MatchIds :
        q.matches[k] = IF k \in Closing(MatchState, c) THEN Undefined ELSE activeMatches[k]
  BY <1>1, ForceCloseRemoves
<1> HIDE DEF q
<1>4. \A k \in MatchIds : r.matches[k] = IF k \in Closing(q, o) THEN Undefined ELSE q.matches[k]
  BY <1>2, ForceCloseRemoves
<1> HIDE DEF r
<1>5. /\ closed \in SUBSET MatchIds /\ \A k \in closed : activeMatches[k] # Undefined
      /\ \A k \in MatchIds : r.matches[k] = IF k \in closed THEN Undefined ELSE activeMatches[k]
  BY <1>1, <1>3, <1>4 DEF Closing
<1>6. c \notin adrift =>
        \A k \in MatchIds : k \in Closing(MatchState, c) <=> Plays(c, k)
  BY <1>1, ClosingIsPlayed DEF Plays
<1>7. o \notin adrift =>
        \A k \in MatchIds : k \in Closing(q, o) <=> k \notin Closing(MatchState, c) /\ Plays(o, k)
  BY <1>2, <1>3, ClosingIsPlayed DEF Plays
<1>8. PICK G \in SUBSET MatchIds : G = gone
  BY <1>5
<1>9. Registry!Ends({c, o}, G)
  <2>1. \A v \in {c, o} \ adrift, k \in MatchIds : Plays(v, k) => k \in closed
    BY <1>6, <1>7
  <2>2. {c, o} \cap adrift = {} => \A k \in closed : \E v \in {c, o} : Plays(v, k)
    BY <1>5, <1>6, <1>7
  <2> HIDE DEF closed
  <2>. QED
    BY <1>5, <1>8, <2>1, <2>2, EndsAsPromised
<1> HIDE DEF closed
<1>10. [k \in MatchIds |-> IF r.matches[k] = Undefined THEN {} ELSE r.matches[k].players]
         = Registry!Without(G)
  BY <1>5, <1>8 DEF Registry!Without
<1>. adrift' = adrift
  BY DEF RequestMatch
<1>11. CASE Commit(r)
  <2>1. activeMatches' = r.matches
    BY <1>11 DEF Commit
  <2>2. Registry!Refuse(c, o, G)
    BY <1>9, <1>10, <2>1 DEF Registry!Refuse
  <2>. QED
    BY <2>2, RequestIsNext
<1>12. ASSUME NEW m \in MatchIds, Unused(m), NEW l \in Lobbies,
              activeMatches' = [r.matches EXCEPT ![m] = [lobbyId |-> l, players |-> {c, o}]]
       PROVE  Registry!Next
  <2>1. r.matches \in Matches
    <3>1. MatchState.shown \in Rosters /\ lobbies \in Rosters
      BY DEF MatchState, TypeOK, Rosters
    <3>2. q.shown \in Rosters
      BY <1>1, <3>1, ForceCloseType DEF q
    <3>. QED
      BY <1>2, <3>1, <3>2, ForceCloseType DEF r
  <2>2. m \in MatchIds \ Registry!Live
    BY <1>12 DEF Unused, Registry!Live
  <2>3. activeMatches'[m] = [lobbyId |-> l, players |-> {c, o}] /\ activeMatches'[m] # Undefined
    <3>1. activeMatches'[m] = [lobbyId |-> l, players |-> {c, o}]
      BY <1>12, <2>1 DEF Matches
    <3>2. activeMatches'[m] \in Match
      BY <3>1 DEF Match
    <3>. QED
      BY <3>1, <3>2, UndefinedIsNone
  <2>4. \A k \in MatchIds : k # m => activeMatches'[k] = r.matches[k]
    BY <1>12, <2>1 DEF Matches
  <2>5. [k \in MatchIds |-> IF activeMatches'[k] = Undefined THEN {} ELSE activeMatches'[k].players]
          = [[k \in MatchIds |-> IF r.matches[k] = Undefined THEN {} ELSE r.matches[k].players]
               EXCEPT ![m] = {c, o}]
    <3>1. activeMatches'[m].players = {c, o}
      BY <2>3
    <3>. QED
      BY <2>3, <2>4, <3>1, StartedIs
  <2>6. Registry!Start(c, o, G, m)
    BY <1>9, <1>10, <2>2, <2>5 DEF Registry!Start
  <2>. QED
    BY <2>6, RequestIsNext
<1>13. Coalesce(lobbyId, Coalesce(userLobby[c], Coalesce(userLobby[o], DefaultLobby))) \in Lobbies
  BY DefaultAssumption DEF Coalesce, TypeOK
<1>. QED
  BY <1>11, <1>12, <1>13 DEF RequestMatch, r, q

(* A step that leaves the registry alone is at most a drift of one user.   *)
LEMMA QuietAsPromised ==
  ASSUME activeMatches' = activeMatches,
         adrift' = adrift \/ \E u \in Users : adrift' = adrift \cup {u}
  PROVE  [Registry!Next]_(Registry!vars)
BY DEF Registry!Next, Registry!Drift, Registry!vars

LEMMA StepAsPromised ==
  TypeOK /\ MatchesAgree /\ [Next]_vars => [Registry!Next]_(Registry!vars)
<1> SUFFICES ASSUME TypeOK, MatchesAgree, [Next]_vars
             PROVE  [Registry!Next]_(Registry!vars)
  OBVIOUS
<1>1. ASSUME NEW s \in Sockets, SocketStep(s)
      PROVE  [Registry!Next]_(Registry!vars)
  <2>1. CASE Connect(s) \/ Drop(s)
    BY <2>1, QuietAsPromised DEF Connect, Drop, presence
  <2>2. CASE Close(s)
    <3>1. CASE wsUid[s] = Undefined
      BY <2>2, <3>1, QuietAsPromised DEF Close, presence
    <3>2. CASE wsUid[s] # Undefined
      <4>1. wsUid[s] \in Users
        BY <3>2 DEF TypeOK
      <4>. QED
        BY <2>2, <3>2, <4>1, LeaveAsPromised DEF Close, Departed
    <3>. QED
      BY <3>1, <3>2
  <2>3. CASE MatchStatus(s)
    <3>1. wsUid[s] \in Users
      BY <2>3 DEF MatchStatus, TypeOK
    <3>. QED
      BY <2>3, <3>1, LeaveAsPromised DEF MatchStatus, EndMatch, Commit
  <2>4. CASE \E l, mine \in Optional(Lobbies), g \in Optional(Lookups) : Join(s, l, mine, g)
    BY <2>4, QuietAsPromised DEF Join
  <2>5. CASE \E u \in Users, l \in Lobbies, key \in Optional(Lobbies) :
               UpdateSocketState(s, u, l, key)
    BY <2>5, QuietAsPromised DEF UpdateSocketState
  <2>6. CASE \E l \in Lobbies, p \in Optional(Passes), mine \in Optional(Lobbies) :
               CreateLobby(s, l, p, mine)
    <3>1. Account[s] \in Users
      BY AccountAssumption
    <3>. QED
      BY <2>6, <3>1, QuietAsPromised DEF CreateLobby, MoveTo
  <2>7. CASE \E l \in Lobbies, p \in Optional(Passes) : ChangeLobby(s, l, p)
    <3>1. Account[s] \in Users
      BY AccountAssumption
    <3>. QED
      BY <2>7, <3>1, QuietAsPromised DEF ChangeLobby, MoveTo
  <2>8. CASE \E c, o \in Users, l \in Optional(Lobbies) : RequestMatch(s, c, o, l)
    BY <2>8, RequestAsPromised
  <2>9. CASE \E u \in Users : UserDisconnect(s, u) \/ MatchEnd(s, u)
    BY <2>9, LeaveAsPromised DEF UserDisconnect, MatchEnd, EndMatch, Commit
  <2>. QED
    BY <1>1, <2>1, <2>2, <2>3, <2>4, <2>5, <2>6, <2>7, <2>8, <2>9 DEF SocketStep
<1>2. CASE \E u \in Users : InternalWinStreak(u)
  BY <1>2, QuietAsPromised DEF InternalWinStreak
<1>3. CASE \E g \in Lookups : GeoDone(g) \/ GeoFail(g)
  <2>1. ASSUME NEW g \in Lookups, GeoDone(g)
        PROVE  [Registry!Next]_(Registry!vars)
    <3>1. geo[g].uid \in Users
      BY <2>1 DEF GeoDone, TypeOK, Lookup
    <3>. QED
      BY <2>1, <3>1, QuietAsPromised DEF GeoDone
  <2>. QED
    BY <1>3, <2>1, QuietAsPromised DEF GeoFail, presence
<1>4. CASE \E l \in Lobbies : LobbyTimeout(l)
  BY <1>4, QuietAsPromised DEF LobbyTimeout
<1>5. CASE UNCHANGED vars
  BY <1>5, QuietAsPromised DEF vars, presence
<1>. QED
  BY <1>1, <1>2, <1>3, <1>4, <1>5 DEF Next

(* The match registry implements Pairing: whatever the sockets, handlers,  *)
(* timers and late lookups do, a request ends every earlier match of both  *)
(* players and no other, and a match ends for all of its players at once.  *)
THEOREM RegistryCorrect == Spec => KeepsPairing
<1>1. Init => Registry!Init
  BY DEF Init, Registry!Init
<1>. QED
  BY <1>1, StepAsPromised, TypeCorrect, MatchesCorrect, PTL DEF Spec, KeepsPairing, Registry!Spec
-----------------------------------------------------------------------------
(* Ownership.  EntriesAreOwned is not inductive: a late geo write brings   *)
(* back a connection that the entry had long left, so the records in       *)
(* flight have to be owned too, and a connection that is reused must not   *)
(* be one that any of them still names.                                    *)
SocketsAreHonest ==
  \A s \in Sockets : /\ wsUid[s] \in {Undefined, Account[s]}
                     /\ sock[s] = "closed" => wsUid[s] = Undefined

LookupsAreOwned ==
  \A g \in Lookups :
    geo[g] # Undefined =>
      LET s == geo[g].user.ws
      IN  Account[s] = geo[g].uid /\ (sock[s] # "closed" => wsUid[s] = geo[g].uid)

OwnInv == SocketsAreHonest /\ LookupsAreOwned /\ EntriesAreOwned

(* Steps after which every entry is on the connection it was on. *)
SameSockets ==
  \A u \in Users \ adrift' :
    connectedUsers'[u] # Undefined =>
      Connected(u) /\ connectedUsers'[u].ws = connectedUsers[u].ws

(* A step that moves no entry to another connection keeps OwnInv. *)
LEMMA QuietOwn ==
  ASSUME OwnInv, UNCHANGED <<sock, wsUid>>, adrift \subseteq adrift', SameSockets,
         \A g \in Lookups : geo'[g] # Undefined => geo'[g] = geo[g]
  PROVE  OwnInv'
BY DEF OwnInv, SocketsAreHonest, LookupsAreOwned, EntriesAreOwned, SameSockets, Connected

(* A force close leaves every entry on its connection. *)
LEMMA ForceCloseSockets ==
  ASSUME NEW r, r.users \in Entries, NEW u, NEW v \in Users, r.users[v] # Undefined
  PROVE  ForceClose(r, u).users[v].ws = r.users[v].ws
<1>1. ASSUME NEW players
      PROVE  Freed(r.users, players)[v].ws = r.users[v].ws
  BY UndefinedIsNone DEF Freed, Entries, Entry
<1>. QED
  BY <1>1 DEF ForceClose

(* Opening and dropping connections keep OwnInv. *)
LEMMA ConnectOwn ==
  ASSUME TypeOK, OwnInv, NEW s \in Sockets, Connect(s) \/ Drop(s)
  PROVE  OwnInv'
<1>1. SocketsAreHonest'
  BY DEF OwnInv, SocketsAreHonest, Connect, Drop, TypeOK
<1>2. LookupsAreOwned'
  BY DEF OwnInv, LookupsAreOwned, SocketsAreHonest, Connect, Drop, TypeOK, Unreferenced, Lookup, Entry
<1>3. EntriesAreOwned'
  BY DEF OwnInv, EntriesAreOwned, Connect, Drop, TypeOK, Unreferenced, Connected, Entry, presence
<1>. QED
  BY <1>1, <1>2, <1>3 DEF OwnInv

(* The close handler keeps OwnInv: it removes the entry of the uid. *)
LEMMA CloseOwn ==
  ASSUME TypeOK, OwnInv, NEW s \in Sockets, Close(s)
  PROVE  OwnInv'
<1>1. SocketsAreHonest'
  BY DEF OwnInv, SocketsAreHonest, Close, TypeOK
<1>2. LookupsAreOwned'
  BY DEF OwnInv, LookupsAreOwned, Close, TypeOK, Lookup, Entry
<1>3. \A v \in Users : connectedUsers'[v] # Undefined =>
        Connected(v) /\ connectedUsers'[v].ws = connectedUsers[v].ws /\ v # wsUid[s]
  <2>1. CASE wsUid[s] = Undefined
    BY <2>1, UndefinedIsNone DEF Close, presence, Connected
  <2>2. CASE wsUid[s] # Undefined
    <3> DEFINE u == wsUid[s]
               r == ForceClose(MatchState, u)
    <3>1. u \in Users
      BY <2>2 DEF TypeOK
    <3>2. MatchState.users = connectedUsers /\ connectedUsers \in Entries /\ r.users \in Entries
      BY <3>1, ClosedMatchType DEF MatchState, TypeOK, Entries
    <3>3. connectedUsers' = [r.users EXCEPT ![u] = Undefined]
      BY <2>2 DEF Close, Departed
    <3>4. \A v \in Users : /\ r.users[v] = Undefined <=> connectedUsers[v] = Undefined
                           /\ connectedUsers[v] # Undefined => r.users[v].ws = connectedUsers[v].ws
      BY <3>2, ForceCloseConnected, ForceCloseSockets
    <3> HIDE DEF r
    <3>. QED
      BY <3>1, <3>2, <3>3, <3>4 DEF Connected, Entries
  <2>. QED
    BY <2>1, <2>2
<1>4. EntriesAreOwned'
  BY <1>3 DEF OwnInv, EntriesAreOwned, Close, TypeOK, Connected, Entry
<1>. QED
  BY <1>1, <1>2, <1>4 DEF OwnInv

(* A handler stores e for u on an open or owned connection, or sets u adrift. *)
LEMMA EntryOwn ==
  ASSUME TypeOK, OwnInv, NEW u \in Users, NEW e \in Entry,
         connectedUsers' = [connectedUsers EXCEPT ![u] = e],
         UNCHANGED <<sock, wsUid>>, adrift \subseteq adrift',
         u \notin adrift' => sock[e.ws] # "closed" /\ wsUid[e.ws] = u,
         \A g \in Lookups : geo'[g] # Undefined => geo'[g] = geo[g]
  PROVE  OwnInv'
BY DEF OwnInv, SocketsAreHonest, LookupsAreOwned, EntriesAreOwned, TypeOK, Connected

(* A join puts the entry on the open connection it marks with the uid. *)
LEMMA JoinOwn ==
  ASSUME TypeOK, OwnInv, NEW s \in Sockets, NEW p \in Optional(Lobbies),
         NEW mine \in Optional(Lobbies), NEW g \in Optional(Lookups), Join(s, p, mine, g)
  PROVE  OwnInv'
<1> DEFINE u == Account[s]
           e == JoinedEntry(s, u, mine)
<1>1. u \in Users
  BY AccountAssumption
<1>2. e \in Entry /\ e.ws = s
  BY <1>1, JoinedEntryType DEF JoinedEntry
<1>3. /\ sock[s] = "open" /\ sock' = sock /\ adrift' = adrift
      /\ wsUid' = [wsUid EXCEPT ![s] = u]
      /\ connectedUsers' = [connectedUsers EXCEPT ![u] = e]
      /\ \/ UNCHANGED geo
         \/ g \in Lookups /\ geo' = [geo EXCEPT ![g] = [uid |-> u, user |-> e]]
  BY DEF Join
<1> HIDE DEF e
<1>4. SocketsAreHonest'
  BY <1>3 DEF OwnInv, SocketsAreHonest, TypeOK
<1>5. LookupsAreOwned'
  BY <1>2, <1>3 DEF OwnInv, LookupsAreOwned, TypeOK
<1>6. ASSUME NEW v \in Users \ adrift, connectedUsers'[v] # Undefined
      PROVE  sock'[connectedUsers'[v].ws] # "closed" /\ wsUid'[connectedUsers'[v].ws] = v
  <2>1. CASE v = u
    <3>1. connectedUsers'[v] = e
      BY <1>1, <1>3, <2>1 DEF TypeOK
    <3>2. sock'[s] # "closed" /\ wsUid'[s] = u
      BY <1>3 DEF TypeOK
    <3>. QED
      BY <1>2, <2>1, <3>1, <3>2
  <2>2. CASE v # u
    <3>1. connectedUsers'[v] = connectedUsers[v] /\ Connected(v)
      BY <1>3, <1>6, <2>2 DEF TypeOK, Connected
    <3>2. sock[connectedUsers[v].ws] # "closed" /\ wsUid[connectedUsers[v].ws] = v
      BY <3>1 DEF OwnInv, EntriesAreOwned
    <3>3. connectedUsers[v].ws \in Sockets
      BY <3>1 DEF TypeOK, Connected, Entry
    <3>4. wsUid[s] \in {Undefined, u}
      BY DEF OwnInv, SocketsAreHonest
    <3>5. connectedUsers[v].ws # s
      BY <2>2, <3>2, <3>4, UndefinedIsNone
    <3>. QED
      BY <1>3, <3>1, <3>2, <3>3, <3>5 DEF TypeOK
  <2>. QED
    BY <2>1, <2>2
<1>7. EntriesAreOwned'
  BY <1>3, <1>6 DEF EntriesAreOwned, Connected
<1>. QED
  BY <1>4, <1>5, <1>7 DEF OwnInv

(* A late write that the close event outran sets its user adrift. *)
LEMMA GeoOwn ==
  ASSUME TypeOK, OwnInv, NEW g \in Lookups, GeoDone(g)
  PROVE  OwnInv'
<1> DEFINE u == geo[g].uid
           e == geo[g].user
<1>1. u \in Users /\ e \in Entry
  BY DEF GeoDone, TypeOK, Lookup
<1>2. /\ connectedUsers' = [connectedUsers EXCEPT ![u] = e]
      /\ UNCHANGED <<sock, wsUid>>
      /\ adrift \subseteq adrift'
      /\ u \notin adrift' => sock[e.ws] # "closed"
  BY DEF GeoDone
<1>3. sock[e.ws] # "closed" => wsUid[e.ws] = u
  BY DEF GeoDone, OwnInv, LookupsAreOwned
<1>4. \A h \in Lookups : geo'[h] # Undefined => geo'[h] = geo[h]
  BY DEF GeoDone, TypeOK
<1>. QED
  BY <1>1, <1>2, <1>3, <1>4, EntryOwn

(* A move keeps the connection, or takes the sender's and tracks it. *)
LEMMA MoveOwn ==
  ASSUME TypeOK, OwnInv, NEW s \in Sockets, NEW u \in Users, NEW l \in Lobbies,
         NEW e \in Entry, sock[s] = "open", MoveTo(s, u, l, e),
         e.ws = s \/ (Connected(u) /\ e.ws = connectedUsers[u].ws)
  PROVE  OwnInv'
<1>1. /\ connectedUsers' = [connectedUsers EXCEPT ![u] = e]
      /\ UNCHANGED <<sock, wsUid, geo>>
      /\ adrift \subseteq adrift'
      /\ e.ws = s /\ u \notin adrift' => wsUid[s] = u
  BY DEF MoveTo
<1>2. u \notin adrift' => sock[e.ws] # "closed" /\ wsUid[e.ws] = u
  BY <1>1 DEF OwnInv, EntriesAreOwned
<1>. QED
  BY <1>1, <1>2, EntryOwn

(* Match requests keep OwnInv. *)
LEMMA RequestOwn ==
  ASSUME TypeOK, OwnInv, NEW s \in Sockets, NEW c \in Users, NEW o \in Users,
         NEW lobbyId \in Optional(Lobbies), RequestMatch(s, c, o, lobbyId)
  PROVE  OwnInv'
<1> DEFINE q == ForceClose(MatchState, c)
           r == ForceClose(q, o)
<1>1. q.users \in Entries /\ q.matches \in Matches /\ q.shown \in Rosters /\ lobbies \in Rosters
  BY ClosedMatchType DEF TypeOK, Rosters
<1>2. MatchState.users = connectedUsers /\ connectedUsers \in Entries
  BY DEF MatchState, TypeOK, Entries
<1>3. \A v \in Users : /\ q.users[v] = Undefined <=> connectedUsers[v] = Undefined
                       /\ connectedUsers[v] # Undefined => q.users[v].ws = connectedUsers[v].ws
  BY <1>2, ForceCloseConnected, ForceCloseSockets
<1> HIDE DEF q
<1>4. r.users \in Entries
  BY <1>1, ForceCloseType
<1>5. \A v \in Users : /\ r.users[v] = Undefined <=> connectedUsers[v] = Undefined
                       /\ connectedUsers[v] # Undefined => r.users[v].ws = connectedUsers[v].ws
  BY <1>1, <1>3, ForceCloseConnected, ForceCloseSockets
<1>6. UNCHANGED <<sock, wsUid, geo, adrift>>
  BY DEF RequestMatch
<1> HIDE DEF r
<1>7. CASE connectedUsers' = r.users
  BY <1>5, <1>6, <1>7, QuietOwn DEF SameSockets, Connected
<1>8. ASSUME NEW m \in MatchIds, Connected(c), Connected(o),
             connectedUsers' = [u \in Users |-> IF u \in {c, o}
                                                  THEN [r.users[u] EXCEPT !.currentMatchId = m]
                                                  ELSE r.users[u]]
      PROVE  OwnInv'
  <2>1. \A v \in Users : connectedUsers'[v] # Undefined =>
          Connected(v) /\ connectedUsers'[v].ws = connectedUsers[v].ws
    BY <1>4, <1>5, <1>8 DEF Entries, Entry, Connected
  <2>. QED
    BY <1>6, <2>1, QuietOwn DEF SameSockets
<1>. QED
  BY <1>7, <1>8 DEF RequestMatch, Commit, r, q

(* Ending a match keeps OwnInv. *)
LEMMA EndMatchOwn ==
  ASSUME TypeOK, OwnInv, NEW s \in Sockets, NEW u \in Users, EndMatch(s, u)
  PROVE  OwnInv'
<1>1. MatchState.users = connectedUsers /\ connectedUsers \in Entries
  BY DEF MatchState, TypeOK, Entries
<1>2. \A v \in Users : connectedUsers'[v] # Undefined =>
        Connected(v) /\ connectedUsers'[v].ws = connectedUsers[v].ws
  BY <1>1, ForceCloseConnected, ForceCloseSockets DEF EndMatch, Commit, Connected
<1>. QED
  BY <1>2, QuietOwn DEF EndMatch, SameSockets

(* updateSocketState keeps OwnInv. *)
LEMMA UpdateOwn ==
  ASSUME TypeOK, OwnInv, NEW s \in Sockets, NEW u \in Users, NEW l \in Lobbies,
         NEW key \in Optional(Lobbies), UpdateSocketState(s, u, l, key)
  PROVE  OwnInv'
<1>1. connectedUsers[u] \in Entry /\ Connected(u)
  BY DEF UpdateSocketState, Connected, TypeOK
<1>2. \A v \in Users : connectedUsers'[v] # Undefined =>
        Connected(v) /\ connectedUsers'[v].ws = connectedUsers[v].ws
  BY <1>1 DEF UpdateSocketState, Connected, TypeOK, Entry
<1>. QED
  BY <1>2, QuietOwn DEF UpdateSocketState, SameSockets

(* Every step keeps OwnInv. *)
LEMMA NextOwn == TypeOK /\ OwnInv /\ [Next]_vars => OwnInv'
<1> SUFFICES ASSUME TypeOK, OwnInv, [Next]_vars
             PROVE  OwnInv'
  OBVIOUS
<1>1. CASE UNCHANGED <<sock, wsUid, connectedUsers, geo, adrift>>
  BY <1>1, QuietOwn DEF SameSockets, Connected
<1>2. ASSUME NEW s \in Sockets, SocketStep(s)
      PROVE  OwnInv'
  <2>1. CASE Connect(s) \/ Drop(s)
    BY <2>1, ConnectOwn
  <2>2. CASE Close(s)
    BY <2>2, CloseOwn
  <2>3. CASE MatchStatus(s)
    <3>1. wsUid[s] \in Users
      BY <2>3 DEF MatchStatus, TypeOK
    <3>. QED
      BY <2>3, <3>1, EndMatchOwn DEF MatchStatus
  <2>4. CASE \E l, mine \in Optional(Lobbies), g \in Optional(Lookups) : Join(s, l, mine, g)
    BY <2>4, JoinOwn
  <2>5. CASE \E u \in Users, l \in Lobbies, key \in Optional(Lobbies) :
               UpdateSocketState(s, u, l, key)
    BY <2>5, UpdateOwn
  <2>6. CASE \E l \in Lobbies, p \in Optional(Passes), mine \in Optional(Lobbies) :
               CreateLobby(s, l, p, mine)
    BY <2>6, LobbyMove, MoveOwn
  <2>7. CASE \E l \in Lobbies, p \in Optional(Passes) : ChangeLobby(s, l, p)
    BY <2>7, LobbyMove, MoveOwn
  <2>8. CASE \E c, o \in Users, l \in Optional(Lobbies) : RequestMatch(s, c, o, l)
    BY <2>8, RequestOwn
  <2>9. CASE \E u \in Users : UserDisconnect(s, u) \/ MatchEnd(s, u)
    BY <2>9, EndMatchOwn DEF UserDisconnect, MatchEnd
  <2>. QED
    BY <1>2, <2>1, <2>2, <2>3, <2>4, <2>5, <2>6, <2>7, <2>8, <2>9 DEF SocketStep
<1>3. CASE \E u \in Users : InternalWinStreak(u)
  BY <1>1, <1>3 DEF InternalWinStreak
<1>4. CASE \E g \in Lookups : GeoDone(g) \/ GeoFail(g)
  <2>1. ASSUME NEW g \in Lookups, GeoFail(g)
        PROVE  OwnInv'
    <3>1. \A h \in Lookups : geo'[h] # Undefined => geo'[h] = geo[h]
      BY <2>1 DEF GeoFail, TypeOK
    <3>. QED
      BY <2>1, <3>1, QuietOwn DEF GeoFail, presence, SameSockets, Connected
  <2>. QED
    BY <1>4, <2>1, GeoOwn
<1>5. CASE \E l \in Lobbies : LobbyTimeout(l)
  BY <1>1, <1>5 DEF LobbyTimeout
<1>6. CASE UNCHANGED vars
  BY <1>1, <1>6 DEF vars
<1>. QED
  BY <1>2, <1>3, <1>4, <1>5, <1>6 DEF Next

(* The entry of a user is always on a connection that is not closed and    *)
(* carries the user's uid, unless a stale write put it elsewhere: so the   *)
(* close event that will clean it up is still to come.                     *)
THEOREM OwnCorrect == Spec => []EntriesAreOwned
<1>1. Init => OwnInv
  BY DEF Init, OwnInv, SocketsAreHonest, LookupsAreOwned, EntriesAreOwned, Connected
<1>2. Spec => [](TypeOK /\ OwnInv)
  BY <1>1, InitType, NextType, NextOwn, PTL DEF Spec
<1>. QED
  BY <1>2, PTL DEF OwnInv
=============================================================================
