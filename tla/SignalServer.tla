---------------------------- MODULE SignalServer ----------------------------
(***************************************************************************)
(* Presence, lobbies and matches of the websocket server                   *)
(* (src/src/websocket-server: state.ts, server.ts, services/lobby.ts, the  *)
(* presence, lobby and match handlers of message-handler.ts, and the geo   *)
(* lookup of services/ping.ts).                                            *)
(*                                                                         *)
(* Node runs one callback at a time, so one handler is one step, except    *)
(* populateGeoForUser: it awaits a lookup and a request and then writes    *)
(* back the user record it captured before.  Join leaves that captured     *)
(* record in geo, and GeoDone writes it.                                   *)
(*                                                                         *)
(* An operator whose name ends in Mutant (or Mutant2) is the operator      *)
(* after it with a plausible bug in it: no specification uses it; it is    *)
(* there to show that a property would notice.                             *)
(***************************************************************************)
EXTENDS Naturals, FiniteSets

CONSTANTS
  Users,          \* account uids
  Sockets,        \* websocket connections
  Lobbies,        \* lobby ids
  MatchIds,       \* what randomUUID returns
  Lookups,        \* geo lookups that may be in flight at once (a bound)
  Passes,         \* lobby passwords
  Account,        \* the account whose client opened the connection
  DefaultLobby,   \* DEFAULT_LOBBY_ID
  Undefined       \* JavaScript's undefined: no entry, no field

Optional(S) == S \cup {Undefined}

Entry == [ws : Sockets, lobbyId : Optional(Lobbies), currentMatchId : Optional(MatchIds)]
Match == [lobbyId : Lobbies, players : SUBSET Users]
Meta  == [pass : Optional(Passes)]
Lookup == [uid : Users, user : Entry]

ASSUME AccountAssumption == Account \in [Sockets -> Users]
ASSUME DefaultAssumption == DefaultLobby \in Lobbies
ASSUME UndefinedAssumption ==
  Undefined \notin Users \cup Lobbies \cup MatchIds \cup Passes \cup Entry \cup Match
                   \cup Meta \cup Lookup

VARIABLES
  sock,            \* readyState of each connection
  wsUid,           \* ws.uid, set by join
  connectedUsers,  \* uid -> entry
  lobbies,         \* lobby id -> uids of its members
  openLobbies,     \* the keys of the lobbies map
  lobbyMeta,       \* lobby id -> password
  lobbyTimeouts,   \* lobbies whose idle timer is armed
  userLobby,       \* uid -> lobby id
  activeMatches,   \* match id -> match
  geo,             \* records captured by lookups in flight
  shown,           \* uids in the last connected-users list sent to each lobby
  adrift           \* history: users a stale or unjoined write has touched

presence  == <<connectedUsers, activeMatches, shown>>
lobbyVars == <<lobbies, openLobbies, lobbyMeta, lobbyTimeouts, userLobby>>
vars == <<sock, wsUid, connectedUsers, lobbies, openLobbies, lobbyMeta, lobbyTimeouts,
          userLobby, activeMatches, geo, shown, adrift>>

CoalesceMutant(a, b) == a                              \* no fallback
Coalesce(a, b) == IF a = Undefined THEN b ELSE a       \* a ?? b

Connected(u) == connectedUsers[u] # Undefined
-----------------------------------------------------------------------------
Init ==
  /\ sock = [s \in Sockets |-> "closed"]
  /\ wsUid = [s \in Sockets |-> Undefined]
  /\ connectedUsers = [u \in Users |-> Undefined]
  /\ lobbies = [l \in Lobbies |-> {}]
  /\ openLobbies = {}
  /\ lobbyMeta = [l \in Lobbies |-> Undefined]
  /\ lobbyTimeouts = {}
  /\ userLobby = [u \in Users |-> Undefined]
  /\ activeMatches = [m \in MatchIds |-> Undefined]
  /\ geo = [g \in Lookups |-> Undefined]
  /\ shown = [l \in Lobbies |-> {}]
  /\ adrift = {}
-----------------------------------------------------------------------------
(* broadcastUserList: the members of a lobby that are connected and not in *)
(* a match, told to every member of the lobby; nothing when it is closed.  *)
VisibleMutant(users, members) == {v \in members : users[v] # Undefined}

Visible(users, members) ==
  {v \in members : users[v] # Undefined /\ users[v].currentMatchId = Undefined}

BroadcastUserList(sh, users, members, open, targets) ==
  [l \in Lobbies |-> IF l \in targets \cap open THEN Visible(users, members[l]) ELSE sh[l]]

(* removeUserFromAllLobbies: the lobbies that lose the user, and those of   *)
(* them whose idle timer starts because nobody is left in them.             *)
LobbiesOf(u) == {l \in openLobbies : u \in lobbies[l]}
EmptiedByMutant(u) == {l \in LobbiesOf(u) : lobbies[l] = {u}}
EmptiedByMutant2(u) == {l \in LobbiesOf(u) : lobbies[l] = {u} /\ l = userLobby[u]}
EmptiedBy(u) == {l \in LobbiesOf(u) : lobbies[l] = {u} /\ l # DefaultLobby}
Without(u)   == [l \in Lobbies |-> lobbies[l] \ {u}]

(* syncUserToLobby: ensureLobby, then the member and the userLobby entry.  *)
(* A client that sends a lobbyId sends the name of a lobby: what the early *)
(* return does with an empty one is not here.                              *)
SyncUserToLobby(u, l) ==
  /\ lobbies' = [lobbies EXCEPT ![l] = @ \cup {u}]
  /\ openLobbies' = openLobbies \cup {l}
  /\ userLobby' = [userLobby EXCEPT ![u] = l]

(* forceCloseMatchForUser, as a function of the state it changes.  Every   *)
(* participant's currentMatchId is cleared, whichever match it names; when *)
(* the match is not registered only the user's own field is.               *)
MatchState == [users |-> connectedUsers, matches |-> activeMatches, shown |-> shown]

CurrentMatch(users, u) ==
  IF users[u] = Undefined THEN Undefined ELSE users[u].currentMatchId

ParticipantsMutant(matches, m, u) == {u}

Participants(matches, m, u) ==
  IF matches[m] = Undefined THEN {u} ELSE matches[m].players

MatchLobby(matches, m, u) ==
  IF matches[m] = Undefined THEN Coalesce(userLobby[u], DefaultLobby) ELSE matches[m].lobbyId

Freed(users, players) ==
  [v \in Users |-> IF v \in players /\ users[v] # Undefined
                     THEN [users[v] EXCEPT !.currentMatchId = Undefined]
                     ELSE users[v]]

ForceClose(r, u) ==
  LET m == CurrentMatch(r.users, u)
      users == Freed(r.users, Participants(r.matches, m, u))
  IN  IF m = Undefined
        THEN r
        ELSE [users   |-> users,
              matches |-> [r.matches EXCEPT ![m] = Undefined],
              shown   |-> BroadcastUserList(r.shown, users, lobbies, openLobbies,
                                            {MatchLobby(r.matches, m, u)})]

Commit(r) ==
  /\ connectedUsers' = r.users
  /\ activeMatches' = r.matches
  /\ shown' = r.shown

(* randomUUID: an id that nothing names any more. *)
Unused(m) ==
  /\ activeMatches[m] = Undefined
  /\ \A u \in Users : CurrentMatch(connectedUsers, u) # m
  /\ \A g \in Lookups : geo[g] # Undefined => geo[g].user.currentMatchId # m
-----------------------------------------------------------------------------
(* The ws library: a connection opens, drops (the peer's close frame or    *)
(* terminate()) and some time later its close event is delivered.  A new   *)
(* connection is a new object: nothing refers to it yet.                   *)
Unreferenced(s) ==
  /\ \A u \in Users : Connected(u) => connectedUsers[u].ws # s
  /\ \A g \in Lookups : geo[g] # Undefined => geo[g].user.ws # s

Connect(s) ==
  /\ sock[s] = "closed" /\ Unreferenced(s)
  /\ sock' = [sock EXCEPT ![s] = "open"]
  /\ UNCHANGED <<wsUid, presence, lobbyVars, geo, adrift>>

Drop(s) ==
  /\ sock[s] = "open"
  /\ sock' = [sock EXCEPT ![s] = "closing"]
  /\ UNCHANGED <<wsUid, presence, lobbyVars, geo, adrift>>

(* The close handler works on the uid of the socket, not on the entry whose *)
(* ws is the socket: the entry of a client that has reconnected goes too.   *)
DepartedMutant(u) ==                    \* the match is left open
  LET users == [connectedUsers EXCEPT ![u] = Undefined]
  IN  /\ connectedUsers' = users
      /\ UNCHANGED activeMatches
      /\ userLobby' = [userLobby EXCEPT ![u] = Undefined]
      /\ lobbies' = Without(u)
      /\ lobbyTimeouts' = lobbyTimeouts \cup EmptiedBy(u)
      /\ shown' = BroadcastUserList(shown, users, lobbies', openLobbies,
                                    LobbiesOf(u) \ EmptiedBy(u))

DepartedMutant2(u) ==                   \* without connectedUsers.delete
  LET r == ForceClose(MatchState, u)
  IN  /\ connectedUsers' = r.users
      /\ activeMatches' = r.matches
      /\ userLobby' = [userLobby EXCEPT ![u] = Undefined]
      /\ lobbies' = Without(u)
      /\ lobbyTimeouts' = lobbyTimeouts \cup EmptiedBy(u)
      /\ shown' = BroadcastUserList(r.shown, r.users, lobbies', openLobbies,
                                    LobbiesOf(u) \ EmptiedBy(u))

DepartedMutant3(u) ==                   \* without userLobby.delete
  LET r == ForceClose(MatchState, u)
      users == [r.users EXCEPT ![u] = Undefined]
  IN  /\ connectedUsers' = users
      /\ activeMatches' = r.matches
      /\ lobbies' = Without(u)
      /\ lobbyTimeouts' = lobbyTimeouts \cup EmptiedBy(u)
      /\ shown' = BroadcastUserList(r.shown, users, lobbies', openLobbies,
                                    LobbiesOf(u) \ EmptiedBy(u))
      /\ UNCHANGED userLobby

Departed(u) ==
  LET r == ForceClose(MatchState, u)
      users == [r.users EXCEPT ![u] = Undefined]
  IN  /\ connectedUsers' = users
      /\ activeMatches' = r.matches
      /\ userLobby' = [userLobby EXCEPT ![u] = Undefined]
      /\ lobbies' = Without(u)
      /\ lobbyTimeouts' = lobbyTimeouts \cup EmptiedBy(u)
      /\ shown' = BroadcastUserList(r.shown, users, lobbies', openLobbies,
                                    LobbiesOf(u) \ EmptiedBy(u))

Close(s) ==
  /\ sock[s] = "closing"
  /\ sock' = [sock EXCEPT ![s] = "closed"]
  /\ wsUid' = [wsUid EXCEPT ![s] = Undefined]
  /\ IF wsUid[s] = Undefined
       THEN UNCHANGED <<presence, lobbyVars>>
       ELSE Departed(wsUid[s]) /\ UNCHANGED <<openLobbies, lobbyMeta>>
  /\ UNCHANGED <<geo, adrift>>
-----------------------------------------------------------------------------
(* The entry a join stores: { ...existing, ...user, ws: ctx.ws }.  mine is *)
(* user.lobbyId; the client sends no currentMatchId.                       *)
JoinedEntry(s, u, mine) ==
  [ws             |-> s,
   lobbyId        |-> Coalesce(mine, IF Connected(u) THEN connectedUsers[u].lobbyId
                                                     ELSE Undefined),
   currentMatchId |-> CurrentMatch(connectedUsers, u)]

(* handleJoin.  preferred is message.lobbyId.  It cancels no idle timer    *)
(* and leaves no other lobby.  A lookup starts unless the address of the   *)
(* client is unknown (g = Undefined).                                      *)
Join(s, preferred, mine, g) ==
  LET u == Account[s]
      l == Coalesce(preferred, Coalesce(mine, DefaultLobby))
      e == JoinedEntry(s, u, mine)
  IN  /\ sock[s] = "open"
      /\ wsUid' = [wsUid EXCEPT ![s] = u]
      /\ connectedUsers' = [connectedUsers EXCEPT ![u] = e]
      /\ SyncUserToLobby(u, l)
      /\ shown' = BroadcastUserList(shown, connectedUsers', lobbies', openLobbies', {l})
      /\ \/ g = Undefined /\ UNCHANGED geo
         \/ /\ g \in Lookups /\ geo[g] = Undefined
            /\ geo' = [geo EXCEPT ![g] = [uid |-> u, user |-> e]]
      /\ UNCHANGED <<sock, lobbyMeta, lobbyTimeouts, activeMatches, adrift>>

(* populateGeoForUser after its awaits: the captured record replaces       *)
(* whatever the entry has become, or recreates it.                         *)
GeoDone(g) ==
  /\ geo[g] # Undefined
  /\ LET u == geo[g].uid
         e == geo[g].user
         l == Coalesce(e.lobbyId, DefaultLobby)
     IN  /\ connectedUsers' = [connectedUsers EXCEPT ![u] = e]
         /\ SyncUserToLobby(u, l)
         /\ shown' = BroadcastUserList(shown, connectedUsers', lobbies', openLobbies', {l})
         /\ adrift' = IF \/ e.currentMatchId # CurrentMatch(connectedUsers, u)
                         \/ sock[e.ws] = "closed"
                        THEN adrift \cup {u} ELSE adrift
  /\ geo' = [geo EXCEPT ![g] = Undefined]
  /\ UNCHANGED <<sock, wsUid, lobbyMeta, lobbyTimeouts, activeMatches>>

(* The lookup finds nothing and the function returns. *)
GeoFail(g) ==
  /\ geo[g] # Undefined
  /\ geo' = [geo EXCEPT ![g] = Undefined]
  /\ UNCHANGED <<sock, wsUid, presence, lobbyVars, adrift>>

(* handleUpdateSocketState: a profile field, or the field lobbyId, of the  *)
(* user the message names (key = Undefined: a field not modelled here).    *)
UpdateSocketState(s, u, l, key) ==
  /\ sock[s] = "open" /\ Connected(u)
  /\ connectedUsers' =
       IF key = Undefined THEN connectedUsers
                          ELSE [connectedUsers EXCEPT ![u].lobbyId = key]
  /\ SyncUserToLobby(u, l)
  /\ shown' = BroadcastUserList(shown, connectedUsers', lobbies', openLobbies', {l})
  /\ UNCHANGED <<sock, wsUid, lobbyMeta, lobbyTimeouts, activeMatches, geo, adrift>>

(* handleInternalWinStreakUpdate: the express server reports a streak. *)
InternalWinStreak(u) ==
  /\ Connected(u)
  /\ LET l == Coalesce(userLobby[u], Coalesce(connectedUsers[u].lobbyId, DefaultLobby))
     IN  /\ SyncUserToLobby(u, l)
         /\ shown' = BroadcastUserList(shown, connectedUsers, lobbies', openLobbies', {l})
  /\ UNCHANGED <<sock, wsUid, connectedUsers, lobbyMeta, lobbyTimeouts, activeMatches,
                 geo, adrift>>
-----------------------------------------------------------------------------
(* What handleCreateLobby and handleChangeLobby share: the user leaves     *)
(* every lobby, l's idle timer is cancelled, l is opened, the entry e is   *)
(* stored and the user becomes a member of l.                              *)
MoveTo(s, u, l, e) ==
  LET left == BroadcastUserList(shown, connectedUsers, Without(u), openLobbies,
                                LobbiesOf(u) \ EmptiedBy(u))
  IN  /\ connectedUsers' = [connectedUsers EXCEPT ![u] = e]
      /\ lobbies' = [Without(u) EXCEPT ![l] = @ \cup {u}]
      /\ openLobbies' = openLobbies \cup {l}
      /\ lobbyTimeouts' = (lobbyTimeouts \cup EmptiedBy(u)) \ {l}
      /\ userLobby' = [userLobby EXCEPT ![u] = l]
      /\ shown' = BroadcastUserList(left, connectedUsers', lobbies', openLobbies', {l})
      /\ adrift' = IF e.ws = s /\ wsUid[s] # u THEN adrift \cup {u} ELSE adrift
      /\ UNCHANGED <<sock, wsUid, activeMatches, geo>>

(* handleCreateLobby: mine is the lobbyId of a client without an entry. *)
CreateLobbyMutant(s, l, pass, mine) ==    \* without the lobbies.has test
  LET u == Account[s]
  IN  /\ sock[s] = "open"
      /\ MoveTo(s, u, l, IF Connected(u)
                           THEN [connectedUsers[u] EXCEPT !.ws = s]
                           ELSE [ws |-> s, lobbyId |-> mine, currentMatchId |-> Undefined])
      /\ lobbyMeta' = [lobbyMeta EXCEPT ![l] = [pass |-> pass]]

CreateLobby(s, l, pass, mine) ==
  LET u == Account[s]
  IN  /\ sock[s] = "open" /\ l \notin openLobbies
      /\ MoveTo(s, u, l, IF Connected(u)
                           THEN [connectedUsers[u] EXCEPT !.ws = s]
                           ELSE [ws |-> s, lobbyId |-> mine, currentMatchId |-> Undefined])
      /\ lobbyMeta' = [lobbyMeta EXCEPT ![l] = [pass |-> pass]]

(* handleChangeLobby: an unknown lobby has no meta, and opens. *)
ChangeLobby(s, l, pass) ==
  LET u == Account[s]
  IN  /\ sock[s] = "open"
      /\ lobbyMeta[l] # Undefined => lobbyMeta[l].pass = pass
      /\ MoveTo(s, u, l, IF Connected(u)
                           THEN [connectedUsers[u] EXCEPT !.lobbyId = l]
                           ELSE [ws |-> s, lobbyId |-> l, currentMatchId |-> Undefined])
      /\ UNCHANGED lobbyMeta

(* The callback of the timer that removeUserFromAllLobbies armed. *)
LobbyTimeoutMutant(l) ==                  \* without lobbyMeta.delete
  /\ l \in lobbyTimeouts
  /\ lobbies' = [lobbies EXCEPT ![l] = {}]
  /\ openLobbies' = openLobbies \ {l}
  /\ lobbyTimeouts' = lobbyTimeouts \ {l}
  /\ shown' = [shown EXCEPT ![l] = {}]
  /\ UNCHANGED <<sock, wsUid, connectedUsers, lobbyMeta, userLobby, activeMatches, geo, adrift>>

LobbyTimeout(l) ==
  /\ l \in lobbyTimeouts
  /\ lobbies' = [lobbies EXCEPT ![l] = {}]
  /\ openLobbies' = openLobbies \ {l}
  /\ lobbyTimeouts' = lobbyTimeouts \ {l}
  /\ lobbyMeta' = [lobbyMeta EXCEPT ![l] = Undefined]
  /\ shown' = [shown EXCEPT ![l] = {}]
  /\ UNCHANGED <<sock, wsUid, connectedUsers, userLobby, activeMatches, geo, adrift>>
-----------------------------------------------------------------------------
(* handleRequestMatch: what is left of an earlier match of either player   *)
(* is force-closed, whether or not the new match can start.                *)
RequestMatch(s, c, o, lobbyId) ==
  LET r == ForceClose(ForceClose(MatchState, c), o)
      l == Coalesce(lobbyId, Coalesce(userLobby[c], Coalesce(userLobby[o], DefaultLobby)))
  IN  /\ sock[s] = "open"
      /\ \/ ~(Connected(c) /\ Connected(o)) /\ Commit(r)
         \/ /\ Connected(c) /\ Connected(o)
            /\ \E m \in MatchIds :
                 LET users == [u \in Users |-> IF u \in {c, o}
                                                 THEN [r.users[u] EXCEPT !.currentMatchId = m]
                                                 ELSE r.users[u]]
                 IN  /\ Unused(m)
                     /\ connectedUsers' = users
                     /\ activeMatches' =
                          [r.matches EXCEPT ![m] = [lobbyId |-> l, players |-> {c, o}]]
                     /\ shown' = BroadcastUserList(r.shown, users, lobbies, openLobbies, {l})
      /\ UNCHANGED <<sock, wsUid, lobbyVars, geo, adrift>>

(* userDisconnect and matchEnd (a client reports a player), match-status   *)
(* "end" (about the sender itself): forceCloseMatchForUser.                *)
EndMatch(s, u) ==
  /\ sock[s] = "open"
  /\ CurrentMatch(connectedUsers, u) # Undefined
  /\ Commit(ForceClose(MatchState, u))
  /\ UNCHANGED <<sock, wsUid, lobbyVars, geo, adrift>>

UserDisconnect(s, u) == EndMatch(s, u)
MatchEnd(s, u) == EndMatch(s, u)
MatchStatus(s) == wsUid[s] # Undefined /\ EndMatch(s, wsUid[s])
-----------------------------------------------------------------------------
SocketStep(s) ==
  \/ Connect(s) \/ Drop(s) \/ Close(s) \/ MatchStatus(s)
  \/ \E l, mine \in Optional(Lobbies), g \in Optional(Lookups) : Join(s, l, mine, g)
  \/ \E u \in Users, l \in Lobbies, key \in Optional(Lobbies) : UpdateSocketState(s, u, l, key)
  \/ \E l \in Lobbies, p \in Optional(Passes), mine \in Optional(Lobbies) :
       CreateLobby(s, l, p, mine)
  \/ \E l \in Lobbies, p \in Optional(Passes) : ChangeLobby(s, l, p)
  \/ \E c, o \in Users, l \in Optional(Lobbies) : RequestMatch(s, c, o, l)
  \/ \E u \in Users : UserDisconnect(s, u) \/ MatchEnd(s, u)

Next ==
  \/ \E s \in Sockets : SocketStep(s)
  \/ \E u \in Users : InternalWinStreak(u)
  \/ \E g \in Lookups : GeoDone(g) \/ GeoFail(g)
  \/ \E l \in Lobbies : LobbyTimeout(l)

Spec == Init /\ [][Next]_vars

(* Timers fire, close events are delivered and awaited calls settle; what  *)
(* the clients do is never owed.                                           *)
TimerIsFair(l) == WF_vars(LobbyTimeout(l))
CloseIsFair(s) == WF_vars(Close(s))
LookupIsFair(g) == WF_vars(GeoDone(g) \/ GeoFail(g))

Fairness ==
  /\ \A l \in Lobbies : TimerIsFair(l)
  /\ \A s \in Sockets : CloseIsFair(s)
  /\ \A g \in Lookups : LookupIsFair(g)

FairSpec == Spec /\ Fairness
-----------------------------------------------------------------------------
(* Every variable of the server keeps to its type: the fallbacks of the    *)
(* handlers (a ?? b ?? default) always end in a lobby, and no entry, match *)
(* or list is ever half filled.                                            *)
TypeOK ==
  /\ sock \in [Sockets -> {"closed", "open", "closing"}]
  /\ wsUid \in [Sockets -> Optional(Users)]
  /\ connectedUsers \in [Users -> Optional(Entry)]
  /\ lobbies \in [Lobbies -> SUBSET Users]
  /\ openLobbies \subseteq Lobbies
  /\ lobbyMeta \in [Lobbies -> Optional(Meta)]
  /\ lobbyTimeouts \subseteq Lobbies
  /\ userLobby \in [Users -> Optional(Lobbies)]
  /\ activeMatches \in [MatchIds -> Optional(Match)]
  /\ geo \in [Lookups -> Optional(Lookup)]
  /\ shown \in [Lobbies -> SUBSET Users]
  /\ adrift \subseteq Users

(* A user without an entry is in no lobby and has no current lobby: the    *)
(* close handler of one socket, the handlers of another and a late geo     *)
(* write never leave a member or a userLobby key behind.                   *)
DepartedLeavesNoTrace ==
  /\ \A l \in Lobbies : \A u \in lobbies[l] : Connected(u)
  /\ \A u \in Users : userLobby[u] # Undefined => Connected(u)

(* An open lobby that everybody has left has its idle timer armed (so it   *)
(* will go), and the default lobby never has one (so it will not).         *)
IdleLobbiesAreTimed ==
  /\ lobbyTimeouts \subseteq openLobbies \ {DefaultLobby}
  /\ \A l \in openLobbies \ {DefaultLobby} : lobbies[l] = {} => l \in lobbyTimeouts

(* What is not in the lobbies map has no members, no password that could   *)
(* lock a later lobby of the same name, and no list on anyone's screen.    *)
ClosedLobbyLeavesNothing ==
  \A l \in Lobbies \ openLobbies : lobbies[l] = {} /\ lobbyMeta[l] = Undefined /\ shown[l] = {}

Plays(u, m) == activeMatches[m] # Undefined /\ u \in activeMatches[m].players

(* The registry and the entries agree: a match lists exactly the users     *)
(* whose currentMatchId names it, through requests that overlap older      *)
(* matches, departures and reconnections, for every user that no stale     *)
(* write has touched.                                                      *)
MatchesAgree ==
  \A u \in Users \ adrift, m \in MatchIds :
    Plays(u, m) <=> CurrentMatch(connectedUsers, u) = m

(* The entry of a user sits on a connection that is not closed yet and     *)
(* that carries the user's uid, so its close event will clean the entry.   *)
EntriesAreOwned ==
  \A u \in Users \ adrift :
    Connected(u) => LET s == connectedUsers[u].ws IN sock[s] # "closed" /\ wsUid[s] = u

(* The list a lobby last received names members of the lobby only, and     *)
(* nobody who plays a match that belongs to the lobby.                     *)
ListsAreCurrent ==
  /\ \A l \in Lobbies : lobbies[l] # {} => shown[l] \subseteq lobbies[l]
  /\ \A u \in Users \ adrift, m \in MatchIds :
       Plays(u, m) => u \notin shown[activeMatches[m].lobbyId]

(* The registry is what Pairing promises: a request ends every earlier     *)
(* match of both players and nobody else's, a leaving player's match ends  *)
(* for all of its players, and no step ends or starts any other match.     *)
Registry == INSTANCE Pairing WITH
  matches <- [m \in MatchIds |-> IF activeMatches[m] = Undefined THEN {}
                                                               ELSE activeMatches[m].players]

KeepsPairing == Registry!Spec

(* A lobby keeps the password it was created with while it is open: a      *)
(* second createLobby, a join or a changeLobby cannot replace or drop it.  *)
PasswordKept ==
  [][\A l \in openLobbies \cap openLobbies' :
       lobbyMeta[l] # Undefined => lobbyMeta'[l] = lobbyMeta[l]]_vars

(* A lobby that its last member leaves, by whatever way, does not stay     *)
(* open and empty for ever: its timer closes it or somebody moves in.      *)
AbandonedLobbyCloses ==
  \A l \in Lobbies \ {DefaultLobby} :
    (l \in openLobbies /\ lobbies[l] = {}) ~> (l \notin openLobbies \/ lobbies[l] # {})
-----------------------------------------------------------------------------
(* What the code says of itself.                                           *)

(* handleRequestMatch answers "Opponent is no longer online." when a user  *)
(* has no entry: a user whose joined connection is open should have one.   *)
OnlineIsListed ==
  \A s \in Sockets : sock[s] = "open" /\ wsUid[s] # Undefined => Connected(wsUid[s])

(* The timeout is an idle timeout (LOBBY_IDLE_TIMEOUT_MS): a lobby that    *)
(* it closes should have no members.                                       *)
OnlyIdleLobbiesClose ==
  [][\A l \in openLobbies \ openLobbies' : lobbies[l] = {}]_vars

(* broadcastUserList calls its list connected-users: somebody it names     *)
(* should have a connection.                                               *)
ListedHaveAConnection ==
  \A l \in Lobbies : \A u \in shown[l] : \E s \in Sockets : Account[s] = u /\ sock[s] # "closed"
=============================================================================
