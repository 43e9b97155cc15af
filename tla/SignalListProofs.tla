-------------------------- MODULE SignalListProofs ---------------------------
(***************************************************************************)
(* The lists of connected users that SignalServer broadcasts: a theorem    *)
(* that they are current, for every value of the constants.  It rests on   *)
(* the invariants of SignalServerProofs: what is broadcast is computed     *)
(* from the entries, so that the agreement of entries and matches decides  *)
(* who is in it, and a lobby that gets no broadcast has lost everybody.    *)
(***************************************************************************)
EXTENDS SignalServerProofs

USE DEF Optional

(* The two halves of ListsAreCurrent for any lists, members and registry,  *)
(* so that they can be followed through several broadcasts.                *)
WithinMembers(sh, members) == \A l \in Lobbies : members[l] # {} => sh[l] \subseteq members[l]

Hides(matches, sh) ==
  \A u \in Users \ adrift, m \in MatchIds :
    matches[m] # Undefined /\ u \in matches[m].players => u \notin sh[matches[m].lobbyId]

(* Nobody plays a match and is visible. *)
Invisible(users, matches) ==
  \A u \in Users \ adrift, m \in MatchIds :
    matches[m] # Undefined /\ u \in matches[m].players => CurrentMatch(users, u) # Undefined

(* The halves make the invariant. *)
LEMMA ListsAreHalves ==
  ListsAreCurrent <=> WithinMembers(shown, lobbies) /\ Hides(activeMatches, shown)
BY DEF ListsAreCurrent, WithinMembers, Hides, Plays

(* Entries that agree with the registry show no player. *)
LEMMA AgreedAreInvisible ==
  ASSUME NEW users, NEW matches, AgreeOn(users, matches)
  PROVE  Invisible(users, matches)
BY UndefinedIsNone DEF AgreeOn, Invisible

(* A broadcast names members, and hides who is in a match. *)
LEMMA BroadcastWithin ==
  ASSUME NEW sh \in Rosters, NEW members, NEW users, NEW open, NEW targets,
         WithinMembers(sh, members)
  PROVE  WithinMembers(BroadcastUserList(sh, users, members, open, targets), members)
BY DEF WithinMembers, BroadcastUserList, Visible, Rosters

(* A broadcast of entries without visible players hides the players. *)
LEMMA BroadcastHides ==
  ASSUME NEW sh \in Rosters, NEW members, NEW users, NEW open, NEW targets,
         NEW matches \in Matches, Hides(matches, sh), Invisible(users, matches)
  PROVE  Hides(matches, BroadcastUserList(sh, users, members, open, targets))
<1> SUFFICES ASSUME NEW u \in Users \ adrift, NEW m \in MatchIds,
                    matches[m] # Undefined, u \in matches[m].players
             PROVE  u \notin BroadcastUserList(sh, users, members, open, targets)[matches[m].lobbyId]
  BY DEF Hides
<1>1. matches[m].lobbyId \in Lobbies
  BY DEF Matches, Match
<1>2. u \notin sh[matches[m].lobbyId]
  BY DEF Hides
<1>3. u \notin Visible(users, members[matches[m].lobbyId])
  BY DEF Invisible, Visible, CurrentMatch
<1>. QED
  BY <1>1, <1>2, <1>3 DEF BroadcastUserList

(* Force-closing keeps both halves. *)
LEMMA ForceCloseWithin ==
  ASSUME NEW r, r.shown \in Rosters, WithinMembers(r.shown, lobbies), NEW u
  PROVE  WithinMembers(ForceClose(r, u).shown, lobbies)
BY BroadcastWithin DEF ForceClose

(* Force-closing keeps the players of the other matches hidden. *)
LEMMA ForceCloseHides ==
  ASSUME NEW r, r.users \in Entries, r.matches \in Matches, r.shown \in Rosters,
         lobbies \in Rosters, AgreeOn(r.users, r.matches), Hides(r.matches, r.shown),
         NEW u \in Users
  PROVE  Hides(ForceClose(r, u).matches, ForceClose(r, u).shown)
<1> DEFINE m == CurrentMatch(r.users, u)
           users == Freed(r.users, Participants(r.matches, m, u))
           matches == [r.matches EXCEPT ![m] = Undefined]
           targets == {MatchLobby(r.matches, m, u)}
<1>1. CASE m = Undefined
  BY <1>1 DEF ForceClose
<1>2. CASE m # Undefined
  <2>1. /\ ForceClose(r, u).users = users
        /\ ForceClose(r, u).matches = matches
        /\ ForceClose(r, u).shown = BroadcastUserList(r.shown, users, lobbies, openLobbies, targets)
    BY <1>2 DEF ForceClose
  <2>2. AgreeOn(users, matches) /\ matches \in Matches
    BY <2>1, ForceCloseAgrees, ForceCloseType
  <2>3. Hides(matches, r.shown)
    BY DEF Hides, Matches
  <2> HIDE DEF users, matches, targets
  <2>. QED
    BY <2>1, <2>2, <2>3, AgreedAreInvisible, BroadcastHides
<1>. QED
  BY <1>1, <1>2

(* What the proofs below know before a step. *)
ListInv == TypeOK /\ LobbyInv /\ MatchesAgree /\ ListsAreCurrent

(* The state that force-closes start from. *)
LEMMA BeforeClosing ==
  ASSUME ListInv
  PROVE  /\ MatchState.users = connectedUsers /\ MatchState.matches = activeMatches
         /\ MatchState.shown = shown
         /\ MatchState.users \in Entries /\ MatchState.matches \in Matches
         /\ MatchState.shown \in Rosters /\ lobbies \in Rosters
         /\ AgreeOn(MatchState.users, MatchState.matches)
         /\ WithinMembers(MatchState.shown, lobbies) /\ Hides(MatchState.matches, MatchState.shown)
BY AgreeIsMatchesAgree, ListsAreHalves DEF ListInv, MatchState, TypeOK, Entries, Matches, Rosters
-----------------------------------------------------------------------------
(* After a broadcast of the new entries players are hidden, if they were   *)
(* in the lists it starts from: the new entries agree with the matches.    *)
LEMMA LastBroadcastHides ==
  ASSUME TypeOK', MatchesAgree', NEW sh \in Rosters, adrift \subseteq adrift',
         Hides(activeMatches', sh), NEW members, NEW open, NEW targets,
         shown' = BroadcastUserList(sh, connectedUsers', members, open, targets)
  PROVE  \A u \in Users \ adrift', m \in MatchIds :
           Plays(u, m)' => u \notin shown'[activeMatches'[m].lobbyId]
<1> SUFFICES ASSUME NEW u \in Users \ adrift', NEW m \in MatchIds, Plays(u, m)'
             PROVE  u \notin shown'[activeMatches'[m].lobbyId]
  OBVIOUS
<1>1. activeMatches'[m] # Undefined /\ u \in activeMatches'[m].players
  BY DEF Plays
<1>2. activeMatches'[m].lobbyId \in Lobbies
  BY <1>1 DEF TypeOK, Match
<1>3. u \notin sh[activeMatches'[m].lobbyId]
  BY <1>1 DEF Hides
<1>4. CurrentMatch(connectedUsers', u) = m /\ m # Undefined
  BY UndefinedIsNone DEF MatchesAgree
<1>5. u \notin Visible(connectedUsers', members[activeMatches'[m].lobbyId])
  BY <1>4 DEF Visible, CurrentMatch
<1>. QED
  BY <1>2, <1>3, <1>5 DEF BroadcastUserList

(* A step that only syncs u to lobby l, keeping the matches. *)
LEMMA SyncLists ==
  ASSUME ListInv, TypeOK', MatchesAgree', NEW u \in Users, NEW l \in Lobbies,
         SyncUserToLobby(u, l), activeMatches' = activeMatches, adrift \subseteq adrift',
         shown' = BroadcastUserList(shown, connectedUsers', lobbies', openLobbies', {l})
  PROVE  ListsAreCurrent'
<1>1. shown \in Rosters /\ Hides(activeMatches', shown) /\ WithinMembers(shown, lobbies)
  BY BeforeClosing, ListsAreHalves DEF ListInv
<1>2. ASSUME NEW k \in Lobbies, lobbies'[k] # {}
      PROVE  shown'[k] \subseteq lobbies'[k]
  <2>1. CASE k = l
    <3>1. shown'[k] = Visible(connectedUsers', lobbies'[k])
      BY <2>1 DEF SyncUserToLobby, BroadcastUserList
    <3>. QED
      BY <3>1 DEF Visible
  <2>2. CASE k # l
    <3>1. shown'[k] = shown[k] /\ lobbies'[k] = lobbies[k]
      BY <2>2 DEF SyncUserToLobby, BroadcastUserList, ListInv, TypeOK
    <3>. QED
      BY <1>1, <1>2, <3>1 DEF WithinMembers
  <2>. QED
    BY <2>1, <2>2
<1>3. \A v \in Users \ adrift', m \in MatchIds :
        Plays(v, m)' => v \notin shown'[activeMatches'[m].lobbyId]
  BY <1>1, LastBroadcastHides
<1>. QED
  BY <1>2, <1>3 DEF ListsAreCurrent

(* Removing u from all lobbies, with a broadcast to those that have still  *)
(* somebody in them, keeps the lists within the members.                   *)
LEMMA LeaveWithin ==
  ASSUME TypeOK, LobbyInv, NEW u, NEW sh \in Rosters, WithinMembers(sh, lobbies), NEW users
  PROVE  WithinMembers(BroadcastUserList(sh, users, Without(u), openLobbies,
                                         LobbiesOf(u) \ EmptiedBy(u)), Without(u))
<1> DEFINE new == BroadcastUserList(sh, users, Without(u), openLobbies, LobbiesOf(u) \ EmptiedBy(u))
<1> SUFFICES ASSUME NEW l \in Lobbies, Without(u)[l] # {}
             PROVE  new[l] \subseteq Without(u)[l]
  BY DEF WithinMembers
<1>1. Without(u)[l] = lobbies[l] \ {u}
  BY DEF Without
<1>2. CASE u \in lobbies[l]
  <2>1. l \in openLobbies
    BY <1>2 DEF LobbyInv, ClosedLobbyLeavesNothing
  <2>2. l \in LobbiesOf(u) \ EmptiedBy(u)
    BY <1>1, <1>2, <2>1 DEF LobbiesOf, EmptiedBy
  <2>3. new[l] = Visible(users, Without(u)[l])
    BY <2>1, <2>2 DEF BroadcastUserList
  <2>. QED
    BY <2>3 DEF Visible
<1>3. CASE u \notin lobbies[l]
  <2>1. l \notin LobbiesOf(u) /\ Without(u)[l] = lobbies[l]
    BY <1>1, <1>3 DEF LobbiesOf
  <2>2. new[l] = sh[l]
    BY <2>1 DEF BroadcastUserList
  <2>. QED
    BY <2>1, <2>2 DEF WithinMembers
<1>. QED
  BY <1>2, <1>3

(* createLobby and changeLobby: u leaves, and enters l. *)
LEMMA MoveLists ==
  ASSUME ListInv, TypeOK', MatchesAgree', NEW s \in Sockets, NEW u \in Users,
         NEW l \in Lobbies, NEW e \in Entry, MoveTo(s, u, l, e)
  PROVE  ListsAreCurrent'
<1> DEFINE left == BroadcastUserList(shown, connectedUsers, Without(u), openLobbies,
                                     LobbiesOf(u) \ EmptiedBy(u))
<1>1. /\ lobbies' = [Without(u) EXCEPT ![l] = @ \cup {u}]
      /\ openLobbies' = openLobbies \cup {l}
      /\ shown' = BroadcastUserList(left, connectedUsers', lobbies', openLobbies', {l})
      /\ activeMatches' = activeMatches /\ adrift \subseteq adrift'
  BY DEF MoveTo
<1>2. /\ shown \in Rosters /\ WithinMembers(shown, lobbies) /\ Hides(activeMatches, shown)
      /\ activeMatches \in Matches /\ AgreeOn(connectedUsers, activeMatches)
  BY BeforeClosing
<1>3. Without(u) \in Rosters /\ left \in Rosters
  BY <1>2, WithoutType, BroadcastType DEF ListInv
<1>4. WithinMembers(left, Without(u))
  BY <1>2, LeaveWithin DEF ListInv
<1>5. Hides(activeMatches', left)
  BY <1>1, <1>2, AgreedAreInvisible, BroadcastHides
<1> HIDE DEF left
<1>6. ASSUME NEW k \in Lobbies, lobbies'[k] # {}
      PROVE  shown'[k] \subseteq lobbies'[k]
  <2>1. CASE k = l
    <3>1. shown'[k] = Visible(connectedUsers', lobbies'[k])
      BY <1>1, <2>1 DEF BroadcastUserList
    <3>. QED
      BY <3>1 DEF Visible
  <2>2. CASE k # l
    <3>1. shown'[k] = left[k] /\ lobbies'[k] = Without(u)[k]
      BY <1>1, <1>3, <2>2 DEF BroadcastUserList, Rosters
    <3>. QED
      BY <1>4, <1>6, <3>1 DEF WithinMembers
  <2>. QED
    BY <2>1, <2>2
<1>7. \A v \in Users \ adrift', m \in MatchIds :
        Plays(v, m)' => v \notin shown'[activeMatches'[m].lobbyId]
  BY <1>1, <1>3, <1>5, LastBroadcastHides
<1>. QED
  BY <1>6, <1>7 DEF ListsAreCurrent

(* The close handler. *)
LEMMA CloseLists ==
  ASSUME ListInv, TypeOK', MatchesAgree', NEW s \in Sockets, Close(s)
  PROVE  ListsAreCurrent'
<1>1. CASE wsUid[s] = Undefined
  BY <1>1 DEF Close, presence, lobbyVars, ListInv, ListsAreCurrent, Plays
<1>2. CASE wsUid[s] # Undefined
  <2> DEFINE u == wsUid[s]
             r == ForceClose(MatchState, u)
  <2>1. u \in Users
    BY <1>2 DEF ListInv, TypeOK
  <2>2. /\ activeMatches' = r.matches /\ adrift' = adrift /\ lobbies' = Without(u)
        /\ shown' = BroadcastUserList(r.shown, connectedUsers', lobbies', openLobbies,
                                      LobbiesOf(u) \ EmptiedBy(u))
    BY <1>2 DEF Close, Departed
  <2>3. r.shown \in Rosters /\ WithinMembers(r.shown, lobbies) /\ Hides(r.matches, r.shown)
    BY <2>1, BeforeClosing, ClosedMatchType, ForceCloseWithin, ForceCloseHides DEF ListInv
  <2> HIDE DEF r, u
  <2>4. WithinMembers(shown', lobbies')
    BY <2>2, <2>3, LeaveWithin DEF ListInv
  <2>5. \A v \in Users \ adrift', m \in MatchIds :
          Plays(v, m)' => v \notin shown'[activeMatches'[m].lobbyId]
    BY <2>2, <2>3, LastBroadcastHides
  <2>. QED
    BY <2>4, <2>5 DEF ListsAreCurrent, WithinMembers
<1>. QED
  BY <1>1, <1>2

(* Ending a match. *)
LEMMA EndMatchLists ==
  ASSUME ListInv, NEW s \in Sockets, NEW u \in Users, EndMatch(s, u)
  PROVE  ListsAreCurrent'
<1> DEFINE r == ForceClose(MatchState, u)
<1>1. activeMatches' = r.matches /\ shown' = r.shown /\ lobbies' = lobbies /\ adrift' = adrift
  BY DEF EndMatch, Commit, lobbyVars
<1>2. WithinMembers(r.shown, lobbies) /\ Hides(r.matches, r.shown)
  BY BeforeClosing, ForceCloseWithin, ForceCloseHides
<1> HIDE DEF r
<1>. QED
  BY <1>1, <1>2 DEF ListsAreCurrent, WithinMembers, Hides, Plays

(* A request: both players' earlier matches are closed, and the lobby of   *)
(* the new one, if it is open, gets a list without the two.                *)
LEMMA RequestLists ==
  ASSUME ListInv, TypeOK', MatchesAgree', NEW s \in Sockets, NEW c \in Users, NEW o \in Users,
         NEW lobbyId \in Optional(Lobbies), RequestMatch(s, c, o, lobbyId)
  PROVE  ListsAreCurrent'
<1> DEFINE q == ForceClose(MatchState, c)
           r == ForceClose(q, o)
           l == Coalesce(lobbyId, Coalesce(userLobby[c], Coalesce(userLobby[o], DefaultLobby)))
<1>1. /\ q.users \in Entries /\ q.matches \in Matches /\ q.shown \in Rosters
      /\ lobbies \in Rosters /\ AgreeOn(q.users, q.matches)
      /\ WithinMembers(q.shown, lobbies) /\ Hides(q.matches, q.shown)
  BY BeforeClosing, ClosedMatchType, ForceCloseAgrees, ForceCloseWithin, ForceCloseHides
     DEF ListInv
<1>2. \A k \in Lobbies \ openLobbies : q.shown[k] = shown[k]
  BY BeforeClosing, ForceCloseOutside
<1> HIDE DEF q
<1>3. /\ r.users \in Entries /\ r.matches \in Matches /\ r.shown \in Rosters
      /\ WithinMembers(r.shown, lobbies) /\ Hides(r.matches, r.shown)
  BY <1>1, ForceCloseType, ForceCloseWithin, ForceCloseHides
<1>4. \A k \in Lobbies \ openLobbies : r.shown[k] = {}
  BY <1>2, ForceCloseOutside DEF ListInv, LobbyInv, ClosedLobbyLeavesNothing
<1>5. adrift' = adrift /\ lobbies' = lobbies
  BY DEF RequestMatch, lobbyVars
<1>6. l \in Lobbies
  BY DefaultAssumption DEF ListInv, TypeOK, Coalesce
<1> HIDE DEF r, l
<1>7. CASE Commit(r)
  BY <1>3, <1>5, <1>7 DEF Commit, ListsAreCurrent, WithinMembers, Hides, Plays
<1>8. ASSUME NEW m \in MatchIds,
             activeMatches' = [r.matches EXCEPT ![m] = [lobbyId |-> l, players |-> {c, o}]],
             shown' = BroadcastUserList(r.shown, connectedUsers', lobbies, openLobbies, {l})
      PROVE  ListsAreCurrent'
  <2>1. WithinMembers(shown', lobbies')
    BY <1>3, <1>5, <1>8, BroadcastWithin
  <2>2. ASSUME NEW v \in Users \ adrift', NEW k \in MatchIds, Plays(v, k)'
        PROVE  v \notin shown'[activeMatches'[k].lobbyId]
    <3>1. CurrentMatch(connectedUsers', v) = k /\ k # Undefined
      BY <2>2, UndefinedIsNone DEF MatchesAgree
    <3>2. \A members : v \notin Visible(connectedUsers', members)
      BY <3>1 DEF Visible, CurrentMatch
    <3>3. CASE k = m
      <4>1. activeMatches'[k].lobbyId = l
        BY <1>3, <1>8, <3>3 DEF Matches
      <4>2. CASE l \in openLobbies
        <5>1. shown'[l] = Visible(connectedUsers', lobbies[l])
          BY <1>6, <1>8, <4>2 DEF BroadcastUserList
        <5>. QED
          BY <3>2, <4>1, <5>1
      <4>3. CASE l \notin openLobbies
        <5>1. shown'[l] = {}
          BY <1>4, <1>6, <1>8, <4>3, BroadcastOutside
        <5>. QED
          BY <4>1, <5>1
      <4>. QED
        BY <4>2, <4>3
    <3>4. CASE k # m
      <4>1. activeMatches'[k] = r.matches[k]
        BY <1>3, <1>8, <3>4 DEF Matches
      <4>2. v \notin r.shown[activeMatches'[k].lobbyId]
        BY <1>3, <1>5, <2>2, <4>1 DEF Hides, Plays
      <4>3. activeMatches'[k].lobbyId \in Lobbies
        BY <2>2 DEF TypeOK, Plays, Match
      <4>. QED
        BY <1>8, <3>2, <4>2, <4>3 DEF BroadcastUserList
    <3>. QED
      BY <3>3, <3>4
  <2>. QED
    BY <2>1, <2>2 DEF ListsAreCurrent, WithinMembers
<1>. QED
  BY <1>7, <1>8 DEF RequestMatch, r, q, l
-----------------------------------------------------------------------------
(* Every step keeps the lists current. *)
LEMMA NextLists ==
  ListInv /\ TypeOK' /\ MatchesAgree' /\ [Next]_vars => ListsAreCurrent'
<1> SUFFICES ASSUME ListInv, TypeOK', MatchesAgree', [Next]_vars
             PROVE  ListsAreCurrent'
  OBVIOUS
<1> USE DEF ListInv
<1>1. CASE UNCHANGED <<lobbies, shown, activeMatches, adrift>>
  BY <1>1 DEF ListsAreCurrent, Plays
<1>2. ASSUME NEW s \in Sockets, SocketStep(s)
      PROVE  ListsAreCurrent'
  <2>1. CASE Connect(s) \/ Drop(s)
    BY <1>1, <2>1 DEF Connect, Drop, presence, lobbyVars
  <2>2. CASE Close(s)
    BY <2>2, CloseLists
  <2>3. CASE MatchStatus(s)
    <3>1. wsUid[s] \in Users
      BY <2>3 DEF MatchStatus, TypeOK
    <3>. QED
      BY <2>3, <3>1, EndMatchLists DEF MatchStatus
  <2>4. ASSUME NEW p \in Optional(Lobbies), NEW mine \in Optional(Lobbies),
               NEW g \in Optional(Lookups), Join(s, p, mine, g)
        PROVE  ListsAreCurrent'
    <3>1. Account[s] \in Users
      BY AccountAssumption
    <3>2. Coalesce(p, Coalesce(mine, DefaultLobby)) \in Lobbies
      BY DefaultAssumption, CoalesceType
    <3>. QED
      BY <2>4, <3>1, <3>2, SyncLists DEF Join
  <2>5. ASSUME NEW u \in Users, NEW l \in Lobbies, NEW key \in Optional(Lobbies),
               UpdateSocketState(s, u, l, key)
        PROVE  ListsAreCurrent'
    BY <2>5, SyncLists DEF UpdateSocketState
  <2>6. CASE \E l \in Lobbies, p \in Optional(Passes), mine \in Optional(Lobbies) :
               CreateLobby(s, l, p, mine)
    BY <2>6, LobbyMove, MoveLists
  <2>7. CASE \E l \in Lobbies, p \in Optional(Passes) : ChangeLobby(s, l, p)
    BY <2>7, LobbyMove, MoveLists
  <2>8. CASE \E c, o \in Users, l \in Optional(Lobbies) : RequestMatch(s, c, o, l)
    BY <2>8, RequestLists
  <2>9. CASE \E u \in Users : UserDisconnect(s, u) \/ MatchEnd(s, u)
    BY <2>9, EndMatchLists DEF UserDisconnect, MatchEnd
  <2>. QED
    BY <1>2, <2>1, <2>2, <2>3, <2>4, <2>5, <2>6, <2>7, <2>8, <2>9 DEF SocketStep
<1>3. ASSUME NEW u \in Users, InternalWinStreak(u)
      PROVE  ListsAreCurrent'
  <2> DEFINE l == Coalesce(userLobby[u], Coalesce(connectedUsers[u].lobbyId, DefaultLobby))
  <2>1. connectedUsers[u] \in Entry /\ userLobby[u] \in Optional(Lobbies)
    BY <1>3 DEF InternalWinStreak, Connected, TypeOK
  <2>2. l \in Lobbies
    BY <2>1, DefaultAssumption DEF Coalesce, Entry
  <2>3. /\ SyncUserToLobby(u, l) /\ activeMatches' = activeMatches /\ adrift' = adrift
        /\ shown' = BroadcastUserList(shown, connectedUsers', lobbies', openLobbies', {l})
    BY <1>3 DEF InternalWinStreak
  <2> HIDE DEF l
  <2>. QED
    BY <2>2, <2>3, SyncLists
<1>4. ASSUME NEW g \in Lookups, GeoDone(g) \/ GeoFail(g)
      PROVE  ListsAreCurrent'
  <2>1. CASE GeoFail(g)
    BY <1>1, <2>1 DEF GeoFail, presence, lobbyVars
  <2>2. CASE GeoDone(g)
    <3> DEFINE u == geo[g].uid
               l == Coalesce(geo[g].user.lobbyId, DefaultLobby)
    <3>1. u \in Users /\ l \in Lobbies
      BY <2>2, DefaultAssumption DEF GeoDone, TypeOK, Lookup, Entry, Coalesce
    <3>2. /\ SyncUserToLobby(u, l) /\ activeMatches' = activeMatches /\ adrift \subseteq adrift'
          /\ shown' = BroadcastUserList(shown, connectedUsers', lobbies', openLobbies', {l})
      BY <2>2 DEF GeoDone
    <3> HIDE DEF u, l
    <3>. QED
      BY <3>1, <3>2, SyncLists
  <2>. QED
    BY <1>4, <2>1, <2>2
<1>5. ASSUME NEW l \in Lobbies, LobbyTimeout(l)
      PROVE  ListsAreCurrent'
  BY <1>5 DEF LobbyTimeout, TypeOK, ListsAreCurrent, Plays, Match
<1>6. CASE UNCHANGED vars
  BY <1>1, <1>6 DEF vars
<1>. QED
  BY <1>2, <1>3, <1>4, <1>5, <1>6 DEF Next

(* The list that a lobby received last names members of the lobby only,    *)
(* and nobody who is in a match of the lobby, whatever joined, left,       *)
(* moved, challenged, ended or timed out since.                            *)
THEOREM ListsCorrect == Spec => []ListsAreCurrent
<1>1. Init => ListsAreCurrent
  BY DEF Init, ListsAreCurrent, Plays
<1>2. TypeOK /\ LobbyInv /\ MatchesAgree /\ ListsAreCurrent
        /\ TypeOK' /\ MatchesAgree' /\ [Next]_vars => ListsAreCurrent'
  BY NextLists DEF ListInv
<1>. QED
  BY <1>1, <1>2, LobbyInvariant, MatchesCorrect, PTL DEF Spec
=============================================================================
