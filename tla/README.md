# Hyper Reflector backend: TLA+ models, checks and proofs

Hyper Reflector pairs players of a fighting game. Its backend is three
programs. The **websocket server** (`src/src/websocket-server`) knows who is
online, in which lobby and in which match. The **hole-punch server**
(`src/src/util-servers/holepunch/gopunchv1.go`) tells two clients each other's
public UDP endpoint. The **express server** (`src/src/express-server`) keeps
accounts, ratings and match history in Firestore. Paths below are relative to
`src/src/` unless they begin with `src/`.

## 1. Inventory

| Part | State it keeps | Operations | Correct when |
| --- | --- | --- | --- |
| Presence and lobbies: `server.ts`, `services/lobby.ts`, `state.ts`, `handleJoin` ... `handleChangeLobby` | `connectedUsers`, `lobbies`, `lobbyMeta`, `lobbyTimeouts`, `userLobby`, `ws.uid` | join, updateSocketState, createLobby, changeLobby, close, idle timer, win-streak report | a user who left is nowhere; an empty lobby goes away and leaves nothing; a password holds; a connected user has an entry |
| Match registry: `handleRequestMatch`, `forceCloseMatchForUser`, `handleMatchStatus` | `activeMatches`, `currentMatchId` of every entry | request-match, userDisconnect, matchEnd, match-status, the force close of a lost player | registry and entries agree; a lost player's match ends; the lobby's list shows who is free |
| Geo lookup: `services/ping.ts` `populateGeoForUser` | the entry captured before its awaits | capture at the join, write-back after a lookup and a request | the write-back does not undo what happened meanwhile |
| Rock-paper-scissors: `message-handler.ts:526-791` | `miniGameSessions`, `miniGamePairIndex`, `rpsChallengeCooldowns`, timers | challenge, accept, choice, decline, timer, result after the rating request | one session per pair, one result per session, right verdict, every session ends |
| Hole-punch server | `users` (waiting), `activePeers`, `currentMatchID`, one mutex | register, kill, prune | two users who want each other meet; ids and endpoints are current; a stale kill harms nobody |
| Heartbeat: `server.ts:176-217` | `isAlive`, `lastHeartbeat` | tick, pong | a dead connection is terminated, a live one is not |
| Ping estimates: `services/ping.ts` `handleEstimatePing` | up to five retries in flight | estimate, retry | the retries stop |
| Relays: chat, WebRTC, side lock | none | forward | - |
| Match upload: `firebaseCalls.js` `uploadMatchData`, `data.js` | duplicate guard, session document, ratings, streaks, statistics | upload by either player, retry | each match counts once and is not lost |
| RPS rating: `recordRpsResult` | `rpsElo` in Firestore, its copy in `connectedUsers` | result | no result is lost, the copy follows |
| Win streaks | Firestore transaction, notification | update, notify | the notified streak is the current one |
| Side preferences, titles, flairs, accounts, login records | single documents | read, change, write back | no concurrent change is lost |
| User data, search, leaderboard | documents | reads and merges | - |
| Routes: `v2Express.js`, `utils.js` | none | authorization, rate limit | - |
| Arithmetic and parsing: `calculateNewElo`, `parseMatchData`, `getCharacterByCode` | none | functions | they return what their callers assume |

How the parts interact. A client opens one websocket (`wss.on('connection')`)
and sends JSON messages, which `handleMessage` dispatches. All handlers of the
websocket server share the maps of `state.ts`. A close event calls
`forceCloseMatchForUser` and `removeUserFromAllLobbies`; the latter arms the
timer that deletes a lobby. `handleJoin` starts `populateGeoForUser` without
awaiting it. `finalizeMiniGameSession` awaits the express server's
`/mini-game/rps-result`. `forceCloseMatchForUser` sends a UDP kill, without a
match id, to the hole-punch server (`notifyHolePunchKill`). The express server
posts `/internal/win-streak` to the websocket server.

What is hard. Node runs one callback at a time, so the hazards of the two
Node programs are at their awaits, timers and events: state captured before an
await and written after it, a close event that comes after the client is back,
a timer that fires when its reason is gone. The hole-punch server locks a
mutex for each datagram, but the datagrams are lost, repeated and reordered.
The Firestore calls are read-modify-write sequences of which two may run at
once and any may fail half way. `PROJECT.json` lists each hazard at its line,
with the properties that cover it.

## 2. Modules

| Module | Models | Steps |
| --- | --- | --- |
| `SignalServer` | presence, lobbies, matches, geo write-back | one action per handler or event |
| `Heartbeat` | the ticker and the pongs, composed with `SignalServer` | `SignalServer`'s actions with their effect on the marks, `Tick`, `Pong`, `Vanish` |
| `MiniGame` | rock-paper-scissors sessions | one action per handler, timer and answer; discrete time |
| `HolePunch` | the hole-punch server and its network | one action per datagram handled, lost or sent, and the prune tick |
| `Pairing` | abstract: what the match registry promises | leave, refuse, start, drift |
| `MatchTeardown` | a registry as `Pairing` has it, composed with `HolePunch` and the clients | the steps of both, a kill sent or not, a client that registers or quits |
| `MatchLog` | abstract: what the upload of matches promises | claim an id, count it |
| `MatchUpload` | `uploadMatchData`; implements `MatchLog` | one action per Firestore call |
| `UserDocuments` | the calls that read and write user documents, cached ratings, ping estimates | one action per read, write, answer or failure |
| `MCSignalServer`, `MCHeartbeat`, `MCMiniGame`, `MCHolePunch`, `MCMatchTeardown`, `MCMatchUpload`, `MCUserDocuments` | small instances for TLC | - |
| `SignalServerProofs`, `SignalListProofs`, `HeartbeatProofs`, `MiniGameProofs`, `HolePunchProofs`, `MatchTeardownProofs`, `MatchUploadProofs`, `UserDocumentsProofs` | theorems | - |

An operator called `...Mutant` is the definition that follows it with a
plausible bug. Nothing in the specifications uses it. It shows that the
property it belongs to would notice the bug.

### SignalServer

| TLA+ | Code |
| --- | --- |
| `sock`, `wsUid` | `ws.readyState` and `ws.uid` of a connection; `Account[s]` is the account whose client opened `s` |
| `connectedUsers` | the map; an entry keeps `ws`, `lobbyId` and `currentMatchId`, the fields some guard or property reads |
| `lobbies`, `openLobbies` | members by lobby and the keys of the `lobbies` map. The copies of entries stored in it are reduced to their uids: `broadcastUserList` takes the public fields from `connectedUsers` |
| `lobbyMeta`, `lobbyTimeouts`, `userLobby`, `activeMatches` | the maps of those names; a match is its lobby and its players |
| `geo` | calls of `populateGeoForUser` that are awaiting, each with its captured record |
| `shown` | the last `connected-users` list sent to a lobby |
| `adrift` | history, see below |

`Connect`, `Drop` and `Close` are the life of a connection. Between `Drop` and
`Close` the client may already be back on another connection: this is how a
reconnection overtakes the close event. `Join`, `UpdateSocketState`,
`CreateLobby`, `ChangeLobby`, `RequestMatch`, `UserDisconnect`, `MatchEnd` and
`MatchStatus` are the message handlers, `InternalWinStreak` is the internal
route, `LobbyTimeout` the timer callback, `GeoDone` and `GeoFail` the end of a
lookup. `ForceClose` is `forceCloseMatchForUser` as a function of entries,
registry and lists, because `RequestMatch` calls it twice in a row.

`adrift` names the users for whom a write went wrong in one of two known ways.
A `GeoDone` restored a match id or a closed connection, or a `createLobby` or
`changeLobby` stored an entry on a connection that never joined. `MatchesAgree`
and `EntriesAreOwned` are stated for the other users. Without the exemption
both are false, and the runs of section 4 show the root causes. With it they
say that **nothing else** in the server breaks the agreement.

Left out: profile fields, the counts of lobbies and the match list (which only
present state that is modelled), messages that cannot change state, and
logging.

Assumed of the clients: a `lobbyId` that a `join` or `updateSocketState` carries
names a lobby. With an empty one `handleJoin` opens a lobby `''` without a
member and without a timer (`services/lobby.ts:19` returns early), which the
model has not. And no `updateSocketState` writes `currentMatchId`, which
`message-handler.ts:274` would let through.

### Heartbeat

`isAlive` is the field of that name of a connection, `age` the ticks since an
entry's `lastHeartbeat`. `silence` is history: the ticks since the connection
last gave a sign of life. `Vanish` is a peer that dies without a close frame:
afterwards nothing is received from it, and the pings to it may fail. `Tick`
is one pass of the ticker over all open connections. Every action of
`SignalServer` appears with what it does to marks and ages: the connection
event and the join set the mark, the join, the pong and the geo write-back
refresh the entry, and a handler that stores a new entry stores a fresh one.
The elapsed check is kept as the code has it, for any threshold; what it can
be seen to do is the subject of `ElapsedNeverDecides`.

### MiniGame

Deadlines are the time left until them. `Tick` lets one unit pass, and nothing
forces a timer to fire before other callbacks, since Node only promises that
it fires later. `Slack` is the 100 ms between a deadline and its timer, so a
late answer can come before the timer. `Finalize` is
`finalizeMiniGameSession` up to its await and `Rated` the rest; `rating` holds
what awaits and `results` is the history of results sent. `Arrive` and
`Depart` stand for presence: sessions outlive connections. A client-supplied
session id is taken to be fresh, as the uuid that the client draws is.

### HolePunch

`net` is the set of datagrams that may still arrive. Arriving does not remove
one, so each may be handled many times, in any order. `Lose` removes one. `stale`
of a record stands for `LastSeen` older than `peerTimeout`. `told`, `seen`,
`want` and `pairing` are history. The clients and `notifyHolePunchKill` are the
senders.

### Pairing and MatchTeardown

`Pairing` is the match registry as the rest of the system may rely on it:
which users each match has. A call about some users ends a set `gone` of
matches, whole and at once: all matches of those users, and no others.
Nothing is promised about users who are adrift, of whose matches a call may
end any or none. `SignalServer` implements it (`KeepsPairing`), with the
players of `activeMatches` for `matches`: `Close`, `UserDisconnect`,
`MatchEnd` and `MatchStatus` are a `Leave`, `RequestMatch` is a `Refuse` or a
`Start`, a step that sets a user adrift is a `Drift`, all else stutters.

`MatchTeardown` puts that registry next to the hole-punch server. Its
variables are those of `HolePunch` with those of `Pairing`, and

| TLA+ | Code |
| --- | --- |
| `pending` | kills that `notifyHolePunchKill` has handed to `dgram`; `EmitKill` sends one, `EmitError` is the error callback |
| `started` | history: the `opponentUid`s that `match-start` gave out, by match |
| `over` | history: pairs that ended a match, by a force close or by a client |
| `RegistryIds`, `MatchIds` | the uuids of the websocket server and those of the hole-punch server, which are unrelated |

Who goes adrift is a constant here, the set `Adrift`: the more users are
adrift, the less `Pairing` promises of a step, so a user who is adrift from
the beginning allows all that one who goes adrift later does, and more
(`AdriftCorrect` proves it). The run takes all of them.

The two servers do not know each other's ids, and no order holds between a
kill and what the clients send. The clients are external: `RegisterFor` lets
one register for an opponent it was once given, at any time and as often as
it likes, and `Quit` lets one end the match it was told of. `UsedAsAllowed` is
the specification of `HolePunch`: the composed system implements it, so that
what holds of the hole-punch server under arbitrary senders holds here.

A late kill does hit a later match of the same two users, which is the run
`find_stale_kill`. `OnlyOpponentsAreNamed` and `FirstMatchIsKept` say how far
such a kill reaches: to a user none of whose matches has ended it does
nothing, and the opponent that a user is told of, or told is gone, is always
one the registry gave it.

### MatchUpload and MatchLog

A call of `uploadMatchData` is an element of `Uploads`; `pc` says which of its
Firestore calls is due, `task` what it has read, `uuid` its `matchUuid`. The
actions are, in the order of the code: `Reserve` (the transaction on the
duplicate guard), `ReadSession`, `StoreSession`, `ReadElo` twice,
`UpdateStreak` and `UpsertStreak` of both players in parallel, `SetElo` twice,
`Commit` (the batch), `SetGlobalStats`. `Fail` ends a call before any of them.
`FailStreak` is a rejection inside `Promise.all`: the call is answered and
ends, and the other player's streak goes on (`"abandoned"`).

A rating is the set of uploads whose results are in it, and an entry of a
session's `matches` is the upload that wrote it, so that a lost update is
visible. A win count is counted as the code counts it, from the list that was
read. `OneWinnerEach` says of each player that the statistics have a win for each
counted match the player won and a loss for each one lost, and nothing else;
the global statistics are written after the batch, so they may lag behind.
The check `uid === !matchData.player1` at the start of the code compares
a string with a boolean and is never true; either player may upload, as the
model has it.

`MatchLog` promises that a match, identified by its `matchUuid`, is counted at
most once, and for both players in one step. `CountsOnce` is that
specification with `guard` as what is taken, the ids of calls that have
committed as what is counted, and `totalGames` as the games: `Reserve` is a
`Take`, `Commit` is a `Count` and all else stutters. The log allows a match to
be taken and never counted. The code does too: a call that fails after the
guard leaves it behind, and the retry is answered as a duplicate.

`clobbered` is history, the sessions that were created when they existed. A
session is created by a `set` without a precondition after a separate read
(`firebaseCalls.js:441` and `458`), so of two first matches that are uploaded at
once the second drops the first one's entry; `CountedIsListed` says that no
entry is dropped in any other way. `solo` is history, the call that started when no other
was running, if nothing has started since. `SoloSettles` is about such a call:
the many copies of one fact (rating, streak and win counts in four
collections) may be driven apart by failures and overlaps, and one upload that
runs alone brings them together. That holds of the writers here:
`updateUserData`, with which a client may set `winStreak` and `elo` of its own
document at any time, is not one of them.

### UserDocuments

A call is an element of `Calls`: it starts with a `Request`, makes its reads
(`ReadUser`, `ReadAccount`, `ReadTitles`) in any order, keeps what it read in
`snap`, and makes its writes from that. `call[c].todo` says for which of its
two users a read or write is left. `RecordRpsResult`, `SetSidePreference`,
`UpdatePings`, `UpdateUserData` with `AddAlias`, `CreateAccount`,
`CreateTitle` and `GrantFlair` are the writes. Any read or write may fail; of two
that were sent together the other still takes place. Each write carries the
mark of its call, as above.

A document is stored under an email and found by the `uid` in it, as in the
code. `docs` is indexed by email, `DocsOf(u)` is the query by uid. Each user
stands for an email of its own; `createAccount` looks for the uid but writes
under the email of the request's body, which may be another user's
(`firebaseCalls.js:254-257`).

`updateUserData` merges whole fields that the client sends. Those that other
calls work on are in the model: a new `userName` (kind `name`), and
`knownAliases` and `lastKnownPings`, alone (kind `lists`) or together with a
name. A list that the client sends takes the place of the one in the document.
Its other fields are left out: nothing reads a title, a position or a picture
back into what is modelled, and `winStreak` and `elo` belong to the documents
of `MatchUpload` (section 6).

`setSidePreference` stores the pruned map with `merge: true`. Firestore merges
into nested maps, so an entry that the pruning left out stays in the document
until it is overwritten; `Merged` models that. `createConditionalFlair` is the code of
`createTitleFlair` on another document, and one of them is modelled.

On the websocket side, `cache` is `rpsElo` of the entries in `connectedUsers`,
`Deliver` and `LoseAnswer` are the end of the await in
`finalizeMiniGameSession`, `Arrive` is the join with the rating that the
client read in its document, and `RetryEstimate` is the timer of
`handleEstimatePing`.

Calls that work on the same field at the same time do lose updates: the code
has no transactions here, and claims none. `raced` and `torn` record these
fields, and `ResultsAreKept`, `SidesAgree` and `RatingsFollow` are stated for
the others. They say that calls on **different** fields of one document never
disturb each other, in any order and with any failures. What else can take a
result away is recorded too, and needs no race:

- `dropped`: the aliases that a client's whole list left out;
- `borrowed`: who created an account under another user's email, and that
  user, whose document the `set` has replaced;
- `uid` in `raced`: two overlapping `createAccount` of one user, whose second
  `set` wipes the document.

`ResultsAreKept` is stated for aliases that are not in `dropped` and for users
whom the other two do not concern (`Kept`), and so are the two about sides and
ratings.

## 3. Runs

All bounds are constants of the instances. Passing runs:

| Run | Instance | Shows |
| --- | --- | --- |
| `signal_lobbies` | 2 users, 2 connections, 2 lobbies, 1 password | `TypeOK`, `IdleLobbiesAreTimed`, `ClosedLobbyLeavesNothing`, `PasswordKept`, `AbandonedLobbyCloses` |
| `signal_matches` | 2 users, 3 connections, 1 lobby, 2 match ids, 1 lookup | `DepartedLeavesNoTrace`, `MatchesAgree`, `EntriesAreOwned`, `ListsAreCurrent`, `KeepsPairing` |
| `heartbeat` | 2 users, 3 connections, 1 match id, threshold 1 | `HTypeOK`, `SilentAreFound`, `ElapsedNeverDecides`, `AnsweringAreKept`, `MatchOfLostEnds` |
| `minigame` | 3 users, mutes that leave two pairs, 2 sessions, windows of 1, cooldown 2 | `TypeOK`, `OneSessionPerPair`, `IndexIsLive`, `EndsOnce`, `TimerFollowsDeadline`, `CooldownHolds`, `Just`, `EverySessionEnds` |
| `holepunch` | 3 users, 2 endpoints, 2 match ids, 1 datagram in flight | `TypeOK`, `MutualNeverWait`, `CurrentMatchWasTold`, `EndpointsAreLatest` |
| `teardown` | 3 users, all adrift, 2 registry ids, 2 hole-punch ids, 1 endpoint, 1 datagram in flight | `OnlyOpponentsAreNamed`, `FirstMatchIsKept`, `UsedAsAllowed` |
| `match_upload` | 2 players, 1 session, 3 uploads of 3 ids, 2 at a time | `TypeOK`, `OneWinnerEach`, `CountedIsListed`, `SoloSettles`, `CountsOnce` |
| `documents` | 3 users, 3 calls out of 13 requests, 2 at a time, 1 retry | `TypeOK`, `ResultsAreKept`, `ListsHaveNoDoubles`, `SidesAgree`, `RatingsFollow` |

Why the bounds are enough. Two lobbies are a left one and an entered one; the
default lobby is one of them, since it alone has no timer. Two connections of
one user are an old and a new one, which is all an overtaken close event
needs. Two match ids let a request force-close one match and register the
next while an id is still captured by a lookup. Three users of the hole-punch
server are two that want each other and one that interferes; one datagram in
flight is enough for repetition, and a delayed datagram is one that stays in
`net` while time passes and peers are pruned. In `teardown`, three users and
two registry ids are a match that is closed and the next one of one of its
players with the third; kills wait in `pending`, so one datagram in flight
still lets them arrive in any order and at any time. `TTypeOK` of
`MatchTeardown` is left to its theorem. Two sessions are one that ends and the
next of the same pair, or one per pair of three users. Three uploads,
two of which overlap, are a concurrent or repeated pair and an upload that
runs before or after it; `a` and `b` may draw the same id, which makes one a
retry or the other player's upload of the same match. Three calls on user
documents are likewise two that overlap and one before or after them; the
requests include lists that a client sends, empty as the one that drops most,
and an account under the user's own email and under another's. A
threshold of 1 makes the elapsed check as eager as it can be, where the code
has 3; the theorem about it holds for every threshold.

`signal_matches` has one lobby: that a departure clears every lobby its user is
a member of, and that a match's lobby gets its list when its players are
members of another, is shown there by the theorems `DepartedCorrect` and
`ListsCorrect` only, for any number of lobbies.

Some instances are beyond TLC and not run: two lobbies together with
reconnections, two lobbies together with matches, and a lookup or a lobby that
times out (which the default lobby never does) together with the three
connections of `heartbeat`. The theorems of section 5 cover them for every
property they name, and `PresenceCorrect`, `PromisesCorrect` and
`AbandonedStillCorrect` do so for `SignalServer` together with the heartbeat.

Symmetry is used in safety runs only: for connections of one user, ids,
endpoints, the two uploads with the same winner, and calls. Deadlock checking is
off in `match_upload` and `documents`, where a bounded
number of calls runs out.

Fairness. `LobbyTimeout`, `Timeout`, `MiniGame`'s `Tick` and the heartbeat's
`Tick` are weakly fair because Node's timers and intervals fire and time
passes. `Close` and `HClose` are, because the ws library emits a close event
for each connection that drops. `GeoDone \/ GeoFail` and `Rated` are, because
an awaited call settles: axios answers or rejects, and both outcomes continue.
No message, pong or close frame of a client is fair, so no liveness property
depends on a client's good will. `MatchOfLostEnds` in particular holds when a
peer vanishes without a word.

## 4. Disagreements found

Each is a run that TLC violates, with the code's own words as the property.

- `find_online`: the close handler (`server.ts:146`) deletes the entry by
  uid. A client that reconnected before the close event of its old connection
  is deleted while it is connected, and a challenge to it is answered
  "Opponent is no longer online.".
- `find_ghost`: a geo write-back (`services/ping.ts:76`) after the close event
  recreates the entry and lists a user who has no connection among
  `connected-users`: a client connects and joins, its connection drops and is
  closed, and then the lookup of the join finishes. The same line can bring
  back the id of a closed match, which `handleRequestMatch` then reports as
  "still had active match". The run is of clients that join before they create
  or change a lobby (`ClientsJoinFirst`), because `createLobby` on a socket
  that has not joined (`message-handler.ts:330`) leaves such a user behind
  too, by a shorter way: connect, create, drop, close.
- `find_idle`: joining does not cancel a lobby's idle timer
  (`services/lobby.ts:102`), so a lobby that has a member again is deleted.
- `find_stale_kill`: a kill without a match id is applied to whatever match
  the users are in when it arrives (`gopunchv1.go:182`), although stale kills
  are meant to be ignored (`gopunchv1.go:192`). The notice a user gets then
  names a match with somebody else.

## 5. Theorems

Every theorem is for all sets of users, connections, lobbies, ids, sessions,
uploads and calls, not for an instance. `SignalServerProofs` and `SignalListProofs`:

| Theorem | Statement | Inductive because |
| --- | --- | --- |
| `TypeCorrect` | `Spec => []TypeOK` | it is inductive by itself |
| `DepartedCorrect`, `IdleCorrect`, `ClosedCorrect` | the three lobby invariants | `TypeOK /\ LobbyInv`, where `LobbyInv` is their conjunction. A timer closes only open lobbies because timers are a subset of the open ones, and a sync leaves a closed lobby empty because it opens the lobby |
| `PasswordCorrect` | `Spec => PasswordKept` | an action property, from `TypeOK`: only `CreateLobby`, on a lobby that is not open, and `LobbyTimeout`, which closes it, write `lobbyMeta` |
| `MatchesCorrect` | `Spec => []MatchesAgree` | `TypeOK /\ MatchesAgree`. `AgreeOn` states the agreement for any entries and registry, and `ForceCloseAgrees` carries it through one force close; a request uses it twice |
| `RegistryCorrect` | `Spec => KeepsPairing`, the refinement of `Pairing` | from `TypeOK /\ MatchesAgree`: the match that a force close finds through `currentMatchId` is, for a user who is not adrift, the one match that lists the user. `ForceCloseRemoves` says what one force close takes out, and a request composes two |
| `OwnCorrect` | `Spec => []EntriesAreOwned` | `OwnInv`, which adds that a socket's uid is that of its account and that a captured record belongs to the user of its connection. Without these a write-back or a join could put an entry on a connection marked with another uid |
| `AbandonedCorrect` | `FairSpec /\ []TimersCanFire => AbandonedLobbyCloses` | from `LobbyInv`: an abandoned lobby has its timer armed for as long as it is open and empty, so that the timer, once it fires, closes it. See below for `TimersCanFire` |
| `ListsCorrect` | `Spec => []ListsAreCurrent` | `ListInv`, which adds `LobbyInv` and `MatchesAgree`. What is broadcast is computed from the entries, so who is hidden follows from their agreement with the registry; a lobby that gets no broadcast has lost everybody |

`HeartbeatProofs`, about the composition with `SignalServer` (every step is a
step of `SignalServer` or a tick, so its typing theorem is reused):

| Theorem | Statement | Inductive because |
| --- | --- | --- |
| `HTypeCorrect` | `HSpec => []HTypeOK` | by itself |
| `SilentCorrect` | `HSpec => []SilentAreFound` | `BeatInv`: an open connection is marked exactly when its peer has given a sign of life since the last tick |
| `ElapsedCorrect` | `HSpec => []ElapsedNeverDecides`, for every threshold | `BeatInv`: a marked connection's user has an entry of age 0, because what sets a mark also refreshes the entry, and a tick takes all marks away before entries age. That a closed connection has no uid is needed for the connection event, which sets the mark and refreshes nothing |
| `AnsweringCorrect` | `HSpec => AnsweringAreKept` | both of the above, at the tick |
| `PresenceCorrect` | all invariants of `SignalServer` hold under `HSpec` | the step lemmas of `SignalServerProofs` and `SignalListProofs`; a tick only closes connections, and an entry may sit on a connection that is closing |
| `PromisesCorrect`, `AbandonedStillCorrect` | `KeepsPairing` and `PasswordKept` hold under `HSpec`, and `AbandonedLobbyCloses` with fair timers | a tick changes neither registry nor lobbies |
| `LostCorrect` | `HSpec /\ []HFairness /\ []StepsCanHappen => MatchOfLostEnds` | in three stages, each of which lasts until the next or until the match has ended: the connection is open and marked, open without its mark, closing. A tick leads from one to the next, and the close event force-closes the match, which `MatchesAgree` finds through the entry |

`MiniGameProofs` proves one invariant, `GameInv`, which is the conjunction of
the seven invariants with two additions. `AllProper`: no one plays himself and
no choice is made before the accept, from which the verdicts follow.
`IndexAgrees`: an index entry leads to a live session **of that pair**;
without it, deleting the entries of a finished session could leave one behind
or take another pair's. `FinalizeKeeps` carries the invariant through the end
of a session once, for accept, choice, decline and timer. The theorems are
`GameTypeCorrect`, `OneSessionCorrect`, `IndexCorrect`, `EndsOnceCorrect`,
`TimerCorrect`, `CooldownCorrect` and `JustCorrect`.

From `GameInv` follow four theorems about the way of a session through its
states, which no run states:

| Theorem | Statement |
| --- | --- |
| `ProgressCorrect` | `Spec => SessionsProgress`: every step keeps the players of a live session, never takes it from `active` back to an invitation, undoes no choice and puts its timer off at the accept only; or it ends the session, with a result that is sent or pending |
| `FinalCorrect` | `Spec => ResultsAreFinal`: a session whose result was sent stays over, with that result |
| `DueCorrect` | `FairSpec /\ []StepsCanHappen => DueSessionEnds`: a session whose timer is due gets its result |
| `NearerCorrect` | `FairSpec /\ []StepsCanHappen => SessionsDrawNearer`: a session whose timer runs ends, is accepted, or has less time left |

`HolePunchProofs` proves `PunchTypeCorrect`, `MutualCorrect`, `CurrentCorrect` and
`EndpointsCorrect`. Each property is inductive with `PunchInv`, the typing and
that no datagram in the network registers a user for himself. The network is
any set of datagrams, so repetition and reordering are covered without a bound.
`IntroductionsCorrect` adds `IntroductionsAgree`, that two users who were
introduced under one match id were introduced to each other. It is inductive
as `IntroInv`: a user's introduction names the pair for which its match id was
drawn, and ids are not drawn twice.

`MatchTeardownProofs`, for any set `Adrift`, proves one invariant,
`TInv`:

| Theorem | Statement | From |
| --- | --- | --- |
| `ComposedCorrect` | `TSpec => UsedAsAllowed` | kills are of two different users (`PendingAreOver`), so every step is one `HolePunch` allows, or leaves its variables alone |
| `TeardownTypes` | `TSpec => []TTypeOK` | `PunchInv` and `RegistryTypes` |
| `NamesCorrect` | `TSpec => []OnlyOpponentsAreNamed` | `NetIsDue`: a registration under way is of a pair that was started, and a kill under way of a pair that ended a match, which also was started (`OverWasStarted`). `MatchesAreStarted` carries this from the registry to the kills |
| `FirstCorrect` | `TSpec => []FirstMatchIsKept` | `KeptUntilOver`, and that a started match is registered until its pair is in `over` |
| `ServedCorrect` | the four invariants of `HolePunch` hold under `TSpec` | `ComposedCorrect` and the theorems of `HolePunchProofs` |
| `AdriftCorrect` | a registry as `Pairing` has it, whose users adrift grow within `Adrift`, takes only steps that the registry of `TSpec` can take | the matches that a call may end with some users adrift, it may end with more of them adrift |

`KeepsPairing` and `AdriftCorrect` together are the link from `SignalServer` to
`MatchTeardown`: what the server does to its registry is a step of `Pairing`
with `adrift`, and that is a step of the registry here.

`MatchUploadProofs`, for any finite set of uploads:

| Theorem | Statement | Inductive because |
| --- | --- | --- |
| `UploadTypeCorrect` | `Spec => []TypeOK` | with `ReadIsKnown`: a session that a call has read still exists |
| `UploadsCountOnce` | `Spec => CountsOnce`, the refinement of `MatchLog` | `OneClaimEach`: calls that got past the guard hold different ids, all of them in the guard |
| `ListedCorrect` | `Spec => []CountedIsListed` | `StoredIsListed`, the same for every call that has stored its match |
| `WinnersCorrect` | `Spec => []OneWinnerEach` | `TallyInv`: the statistics are the counted matches. The global ones are at most the counted matches **whose call has written them**; a call between its batch and that write is counted and not yet in them, so the write does not exceed the bound |
| `StreaksCorrect` | `Spec => []StreaksAreRecorded`: in no document is a streak above the longest of the player's record | `StreakInv`, the same of what a call has read and not yet written, with the record's own longest never below its current streak |
| `LongestCorrect` | `Spec => LongestGrows`: the longest streak of the record never goes down | from `StreakInv`, since only the transaction writes the record |
| `SoloCorrect` | `Spec => []SoloSettles` | `SoloInv`: at each stage a call that is alone agrees with the documents it has written so far, and no other call is running, so none will write |

`UserDocumentsProofs`, for any set of calls and any number of them at once:

| Theorem | Statement | Inductive because |
| --- | --- | --- |
| `DocumentsTypeCorrect`, `DoublesCorrect` | `Spec => []TypeOK`, `Spec => []ListsHaveNoDoubles` | `DocInv`: what a call has read is a value of its field, a list without doubles; a title call has not found its title in it; a document that a call has found is there for good; and it is its email's owner's, unless both are in `borrowed` |
| `ResultsCorrect` | `Spec => []ResultsAreKept` | `RaceInv`: two running calls on a common field are in `raced`; while its rating is not raced, a call finds what it has read until it writes, and what it has written until it is answered; a creation that is not raced finds no document. A user who is kept has one document, the one under the user's own email, and a step of a call adds to it, creates it, or drops aliases that go to `dropped` |
| `AnswersCorrect` | `Spec => RatingsFollow` | `RaceInv`, at the step that delivers the answer |
| `SidesCorrect` | `Spec => []SidesAgree` | `SideInv`: nobody has a preference about a user without a document, and two users agree unless a call is between its two writes. The merge keeps the entries about others because a snapshot nobody raced is what the document has |

Steps of other calls are carried through once, in `OthersOwn` and `SideStays`,
from what a step may do to a document (`Touches`, `Plain`).

The assumptions are those the modules name, and TLC evaluates them in every
run: `AccountAssumption` (each connection belongs to one account),
`DefaultAssumption`, `UndefinedAssumption`, the various `NoneAssumption`
and `NoRecord` (the absent value is not a value of any other kind), `ThresholdAssumption` and
`WindowAssumption` (ranges of the durations), `UploadAssumption` (players and
sessions of an upload; the two players differ), `RequestAssumption` (who and
what the calls on user documents are about; a client that sends a list of pings
has one of each peer in it), `FiniteAssumption` (finitely
many uploads, since matches are counted).

Each proof has one lemma per handler, which says what the handler does to the
variables of the invariant, and one theorem that splits `Next`. What handlers
share (`SyncUserToLobby`, `MoveTo`, `ForceClose`, `Finalize`) has a lemma of
its own.

### Fairness in the theorems

The liveness theorems start from the `WF` conditions of the fair
specifications. The provers know nothing of ENABLED, so each theorem has one
more hypothesis, about single states: `TimersCanFire` says that
`LobbyTimeout(l)` is enabled while its timer is armed, and the two
`StepsCanHappen` say the same of the heartbeat's tick and close events, and of
the timers, rating answers and tick of `MiniGame`. It can be read off the
actions: each is the guard that is named and assignments that are defined in every
reachable state and change something (an armed timer is disarmed, an open
connection loses its mark or is ended, time left gets less).

`LostCorrect` has `[]HFairness` where `HFairSpec` has `HFairness`. The two say
the same of a behaviour, since weak fairness is about its tail, but the
provers cannot move the quantifier over the connections out of the box.

Only model-checked:

- liveness with ENABLED as TLC evaluates it, without the hypothesis above: the
  runs of `AbandonedLobbyCloses`, `MatchOfLostEnds` and `EverySessionEnds`;
- `EverySessionEnds` as a whole. Its two halves are `NearerCorrect` and
  `DueCorrect`; what is left is the induction over the time that remains,
  and the installed provers cannot instantiate the library's induction
  theorems.

## 6. Not modelled

- Express routes, queries and authorization: request plumbing with no state.
- Relays of chat, WebRTC and side lock: they change nothing.
- Login records: one document that login and logout set and delete without
  reading it.
- `calculateNewElo`, `calculateEloRating`, `parseMatchData`,
  `getCharacterByCode`: functions of floating-point numbers and strings. The
  models treat a rating as the set of results in it, which tells apart what the
  properties are about and nothing about its value.
- The number that a win-streak notification carries, and `/update-user-streak`:
  the websocket server keeps it as a profile field.
- `winStreak` and `elo` as fields of `updateUserData`: a client may overwrite
  the values that uploads keep in its own document (`firebaseCalls.js:281-282`).
  `SoloSettles` and `StreaksAreRecorded` are about uploads only.
- A `lobbyId` that is empty, and a `currentMatchId` in an `updateSocketState`
  (section 2).
- That `match-start` may reach one of two players only, that a title is not
  lost when two are created at once, and that two uploads or results of one
  player do not lose a rating: the code promises none of these.
- A client that reuses a live session id of the mini game.
- A rejection inside a retried ping estimate, which nobody catches: its effect
  is on the process, not on the state.
- `src/node_modules` is third-party code.

## 7. What could come next

- The win-streak notifications as messages that may overtake each other, once
  something in the system depends on their number.
- `MatchTeardown` with the sessions of `MatchUpload`: the upload is made by
  the clients and names no match of the registry, so that nothing in the code
  links the two yet.
