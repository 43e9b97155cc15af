------------------------------ MODULE Heartbeat ------------------------------
(***************************************************************************)
(* The heartbeat of the websocket server (src/src/websocket-server/        *)
(* server.ts), composed with the presence and the matches of SignalServer: *)
(* every HEARTBEAT_INTERVAL_MS each connection is pinged, and terminated   *)
(* if it did not answer the ping before or its entry is too old.           *)
(*                                                                         *)
(* Time is counted in ticks.  age is the number of ticks since an entry's  *)
(* lastHeartbeat; an operator whose name ends in Mutant is the one after   *)
(* it with a plausible bug in it, and unused.                              *)
(***************************************************************************)
EXTENDS SignalServer

CONSTANTS
  Threshold    \* 3: terminateThreshold in intervals, max(90 s, 3 * 30 s) / 30 s

ASSUME ThresholdAssumption == Threshold \in Nat \ {0}

VARIABLES
  isAlive,     \* of each connection
  age,         \* ticks since lastHeartbeat, at most Threshold (a bound)
  gone,        \* connections whose peer has vanished without a close
  silence      \* history: ticks since a connection opened, answered or joined, at most 2

beat == <<isAlive, age, gone, silence>>
allVars == <<vars, beat>>

HInit ==
  /\ Init
  /\ isAlive = [s \in Sockets |-> FALSE]
  /\ age = [u \in Users |-> 0]
  /\ gone = {}
  /\ silence = [s \in Sockets |-> 0]

Capped(n, top) == IF n > top THEN top ELSE n

(* Entries that a step creates are fresh; there is no age without entry. *)
NewEntriesAreFresh ==
  age' = [u \in Users |-> IF Connected(u) /\ Connected(u)' THEN age[u] ELSE 0]

Refreshed(u) == age' = [age EXCEPT ![u] = 0]

(* The marks of the connections, of which those in ended are not open any  *)
(* more and need none.                                                     *)
Marked(ended, alive, silent) ==
  /\ isAlive' = [s \in Sockets |-> alive[s] /\ s \notin ended]
  /\ silence' = [s \in Sockets |-> IF s \in ended THEN 0 ELSE silent[s]]
  /\ gone' = gone \ ended

Heard(s) == isAlive' = [isAlive EXCEPT ![s] = TRUE] /\ silence' = [silence EXCEPT ![s] = 0]
-----------------------------------------------------------------------------
(* The upgrade and the connection event. *)
HConnect(s) ==
  Connect(s) /\ Heard(s) /\ gone' = gone \ {s} /\ UNCHANGED age

(* The peer's close frame. *)
HDrop(s) == s \notin gone /\ Drop(s) /\ Marked({s}, isAlive, silence) /\ UNCHANGED age

HClose(s) == Close(s) /\ NewEntriesAreFresh /\ UNCHANGED <<isAlive, gone, silence>>

(* The peer's machine or network dies: nothing more is received from it. *)
Vanish(s) ==
  /\ sock[s] = "open" /\ s \notin gone
  /\ gone' = gone \cup {s}
  /\ UNCHANGED <<vars, isAlive, age, silence>>

(* handleJoin marks the connection and the entry. *)
HJoin(s) ==
  /\ s \notin gone /\ Heard(s) /\ Refreshed(Account[s]) /\ UNCHANGED gone
  /\ \E l, mine \in Optional(Lobbies), g \in Optional(Lookups) : Join(s, l, mine, g)

(* The other messages of SocketStep; two of them may store a new entry. *)
Message(s) ==
  \/ \E u \in Users, l \in Lobbies, key \in Optional(Lobbies) : UpdateSocketState(s, u, l, key)
  \/ \E l \in Lobbies, p \in Optional(Passes), mine \in Optional(Lobbies) :
       CreateLobby(s, l, p, mine)
  \/ \E l \in Lobbies, p \in Optional(Passes) : ChangeLobby(s, l, p)
  \/ \E c, o \in Users, l \in Optional(Lobbies) : RequestMatch(s, c, o, l)
  \/ \E u \in Users : UserDisconnect(s, u) \/ MatchEnd(s, u)
  \/ MatchStatus(s)

HMessage(s) ==
  s \notin gone /\ Message(s) /\ NewEntriesAreFresh /\ UNCHANGED <<isAlive, gone, silence>>

(* The geo write-back sets lastHeartbeat. *)
HGeoDone(g) == GeoDone(g) /\ Refreshed(geo[g].uid) /\ UNCHANGED <<isAlive, gone, silence>>

(* The pong handler, on a connection that was pinged. *)
PongMutant(s) ==                         \* isAlive is not set again
  /\ sock[s] = "open" /\ s \notin gone /\ silence[s] > 0
  /\ silence' = [silence EXCEPT ![s] = 0]
  /\ IF wsUid[s] # Undefined /\ Connected(wsUid[s]) THEN Refreshed(wsUid[s]) ELSE UNCHANGED age
  /\ UNCHANGED <<vars, gone, isAlive>>

PongMutant2(s) ==                        \* lastHeartbeat is not refreshed
  /\ sock[s] = "open" /\ s \notin gone /\ silence[s] > 0
  /\ Heard(s)
  /\ UNCHANGED <<vars, gone, age>>

Pong(s) ==
  /\ sock[s] = "open" /\ s \notin gone /\ silence[s] > 0
  /\ Heard(s)
  /\ IF wsUid[s] # Undefined /\ Connected(wsUid[s]) THEN Refreshed(wsUid[s]) ELSE UNCHANGED age
  /\ UNCHANGED <<vars, gone>>
-----------------------------------------------------------------------------
(* The ticker.  elapsed is more than age and at most age + 1 intervals.    *)
(* ws.ping may fail on a connection whose peer is gone.                    *)
TooOld(s) == wsUid[s] # Undefined /\ Connected(wsUid[s]) /\ age[wsUid[s]] >= Threshold

SilentMutant(s) == ~isAlive[s] /\ TooOld(s)          \* both instead of either

Silent(s) == ~isAlive[s] \/ TooOld(s)

Pinged(opened) == [s \in Sockets |-> isAlive[s] /\ s \notin opened]

Tick ==
  LET opened == {s \in Sockets : sock[s] = "open"}
  IN  /\ opened # {}
      /\ \E broken \in SUBSET (gone \cap opened) :
           LET ended == {s \in opened : Silent(s)} \cup broken
           IN  /\ sock' = [s \in Sockets |-> IF s \in ended THEN "closing" ELSE sock[s]]
               /\ Marked(ended, Pinged(opened),
                         [s \in Sockets |-> IF s \in opened THEN Capped(silence[s] + 1, 2) ELSE 0])
      /\ age' = [u \in Users |-> IF Connected(u) THEN Capped(age[u] + 1, Threshold) ELSE 0]
      /\ UNCHANGED <<wsUid, presence, lobbyVars, geo, adrift>>

(* What has no part in the heartbeat. *)
Apart ==
  \/ \E u \in Users : InternalWinStreak(u)
  \/ \E l \in Lobbies : LobbyTimeout(l)
  \/ \E g \in Lookups : GeoFail(g)

HNext ==
  \/ \E s \in Sockets : \/ HConnect(s) \/ HDrop(s) \/ HClose(s) \/ Vanish(s)
                        \/ HJoin(s) \/ HMessage(s) \/ Pong(s)
  \/ \E g \in Lookups : HGeoDone(g)
  \/ Apart /\ UNCHANGED beat
  \/ Tick

HSpec == HInit /\ [][HNext]_allVars

(* The interval keeps firing and close events are delivered; whether and   *)
(* when a client answers is never owed.                                    *)
TickIsFair == WF_allVars(Tick)
HCloseIsFair(s) == WF_allVars(HClose(s))

HFairness == TickIsFair /\ \A s \in Sockets : HCloseIsFair(s)

HFairSpec == HSpec /\ HFairness
-----------------------------------------------------------------------------
(* The marks of the connections and the ages keep to their types. *)
HTypeOK ==
  /\ TypeOK
  /\ isAlive \in [Sockets -> BOOLEAN]
  /\ age \in [Users -> 0 .. Threshold]
  /\ gone \subseteq Sockets
  /\ silence \in [Sockets -> 0 .. 2]

(* A connection is open for at most one tick after the last sign of life   *)
(* of its peer: the tick that finds it silent ends it.                     *)
SilentAreFound == \A s \in Sockets : sock[s] = "open" => silence[s] <= 1

(* A tick only terminates connections whose last ping was not answered (or *)
(* could not be sent), however the joins, pongs and other connections of   *)
(* the same user fall between the ticks.                                   *)
AnsweringAreKept ==
  [][\A s \in Sockets : Tick /\ sock[s] = "open" /\ sock'[s] # "open" =>
       silence[s] > 0 \/ s \in gone]_allVars

(* The check of lastHeartbeat never decides: whatever has set isAlive has  *)
(* also refreshed the entry of the connection's user, also when the entry  *)
(* was replaced or deleted and made again by another connection.           *)
ElapsedNeverDecides ==
  \A s \in Sockets : sock[s] = "open" /\ TooOld(s) => ~isAlive[s]

(* A match one of whose players loses the connection is closed: also when  *)
(* no close frame comes and only the heartbeat can tell.                   *)
Lost(u, m) ==
  /\ Plays(u, m) /\ Connected(u) /\ u \notin adrift
  /\ LET s == connectedUsers[u].ws IN sock[s] = "closing" \/ (sock[s] = "open" /\ s \in gone)

MatchOfLostEnds ==
  \A u \in Users, m \in MatchIds : Lost(u, m) ~> (~Plays(u, m) \/ u \in adrift)
=============================================================================
