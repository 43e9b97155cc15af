----------------------------- MODULE HolePunch ------------------------------
(***************************************************************************)
(* The UDP hole-punching server (src/src/util-servers/holepunch/           *)
(* gopunchv1.go).  Every datagram is handled by a goroutine of its own     *)
(* under the mutex mu, so a handler is one step and the handlers run in    *)
(* any order.  The network loses, repeats and reorders datagrams: net is   *)
(* the set of those that may still arrive, and arriving does not take one  *)
(* out of it.                                                              *)
(*                                                                         *)
(* External, modelled from how gopunchv1.go and message-handler.ts use     *)
(* them: the clients (which register, from an endpoint that NAT may        *)
(* change), and the websocket server, which asks for kills without naming  *)
(* a match.  An operator whose name ends in Mutant is the one after it     *)
(* with a plausible bug in it, and unused.                                 *)
(***************************************************************************)
EXTENDS Naturals, FiniteSets

CONSTANTS
  Users,
  Endpoints,    \* public address and port
  MatchIds,     \* what uuid.New returns
  NetBound,     \* how many datagrams may be in the network (a bound)
  None

ASSUME NoneAssumption == None \notin Users \cup Endpoints \cup MatchIds

Optional(S) == S \cup {None}

(* stale: more than peerTimeout has passed since LastSeen. *)
PeerRecord == [at : Endpoints, stale : BOOLEAN]
Punch == [kill : {FALSE}, uid : Users, peerUid : Users, from : Endpoints, matchId : {None}]
Kill  == [kill : {TRUE}, uid : Users, peerUid : Users, from : {None},
          matchId : Optional(MatchIds)]

(* What the server last sent to a user: a MatchPayload about a peer (whose *)
(* endpoint it reads from the entry, see EndpointsAreLatest), or a         *)
(* ControlPayload that the opponent's side was killed.                     *)
Notice == [kill : BOOLEAN, peer : Users, matchId : Optional(MatchIds)]

ASSUME NoRecord == None \notin PeerRecord \cup Notice

VARIABLES
  net,             \* datagrams on their way to the server
  users,           \* peers that wait for a match
  activePeers,     \* peers that a kill can be sent to
  currentMatchID,
  told,            \* history: the last datagram sent to each user
  seen,            \* history: the endpoint of the last registration handled
  want,            \* history: whom a waiting peer named
  pairing          \* history: whom a match id was made for

server == <<users, activePeers, currentMatchID>>
history == <<told, seen, want, pairing>>
vars == <<net, users, activePeers, currentMatchID, told, seen, want, pairing>>

Init ==
  /\ net = {}
  /\ users = [u \in Users |-> None]
  /\ activePeers = [u \in Users |-> None]
  /\ currentMatchID = [u \in Users |-> None]
  /\ told = [u \in Users |-> None]
  /\ seen = [u \in Users |-> None]
  /\ want = [u \in Users |-> None]
  /\ pairing = [m \in MatchIds |-> {}]
-----------------------------------------------------------------------------
(* handleMessage without Kill: register the peer; if the one it names is   *)
(* waiting, whomever that one is waiting for, send each the endpoint of    *)
(* the other and stop waiting.                                             *)
RegisteredMutant(peers, d) ==            \* a known peer is not overwritten
  IF peers[d.uid] # None THEN peers
                         ELSE [peers EXCEPT ![d.uid] = [at |-> d.from, stale |-> FALSE]]

Registered(peers, d) == [peers EXCEPT ![d.uid] = [at |-> d.from, stale |-> FALSE]]

Unused(m) == pairing[m] = {}             \* uuid.New

LeaveWaiting(waiting, a, b) == [u \in Users |-> IF u \in {a, b} THEN None ELSE waiting[u]]

AwaitedMutant(waiting, b) ==             \* a killed peer is passed over
  IF activePeers[b] = None THEN None ELSE waiting[b]

Awaited(waiting, b) == waiting[b]

Register(d) ==
  LET a == d.uid
      b == d.peerUid
      waiting == Registered(users, d)
  IN  /\ activePeers' = Registered(activePeers, d)
      /\ seen' = [seen EXCEPT ![a] = d.from]
      /\ \/ /\ Awaited(waiting, b) = None
            /\ users' = waiting
            /\ want' = [want EXCEPT ![a] = b]
            /\ UNCHANGED <<currentMatchID, told, pairing>>
         \/ /\ Awaited(waiting, b) # None
            /\ \E m \in MatchIds :
                 /\ Unused(m)
                 /\ users' = LeaveWaiting(waiting, a, b)
                 /\ want' = LeaveWaiting(want, a, b)
                 /\ currentMatchID' = [u \in Users |-> IF u \in {a, b} THEN m
                                                                       ELSE currentMatchID[u]]
                 /\ pairing' = [pairing EXCEPT ![m] = {a, b}]
                 /\ told' = [told EXCEPT
                      ![a] = [kill |-> FALSE, peer |-> b, matchId |-> m],
                      ![b] = [kill |-> FALSE, peer |-> a, matchId |-> m]]

(* handleKillMessage.  A match id in the message must be the current one;  *)
(* a message without one ends whatever match uid is in.  When the peer is  *)
(* no longer in activePeers nobody is told and the ids stay.               *)
KilledMatch(d) ==
  IF currentMatchID[d.uid] # None THEN currentMatchID[d.uid] ELSE currentMatchID[d.peerUid]

ForgottenMutant(a, b) == [currentMatchID EXCEPT ![a] = None]

Forgotten(a, b) == [u \in Users |-> IF u \in {a, b} THEN None ELSE currentMatchID[u]]

HandleKill(d) ==
  LET a == d.uid
      b == d.peerUid
      m == KilledMatch(d)
  IN  /\ IF d.matchId # None /\ m # d.matchId
           THEN UNCHANGED <<activePeers, currentMatchID, told>>
           ELSE /\ activePeers' = [u \in Users |-> IF u \in {a, b} THEN None
                                                                   ELSE activePeers[u]]
                /\ IF activePeers[b] = None
                     THEN UNCHANGED <<currentMatchID, told>>
                     ELSE /\ currentMatchID' = Forgotten(a, b)
                          /\ told' = [told EXCEPT ![b] = [kill |-> TRUE, peer |-> a,
                                                          matchId |-> m]]
      /\ UNCHANGED <<users, seen, want, pairing>>

ReceiveMutant(d) ==                      \* without the return after a kill
  /\ d \in net
  /\ Register(d)
  /\ UNCHANGED net

Receive(d) ==
  /\ d \in net
  /\ IF d.kill THEN HandleKill(d) ELSE Register(d)
  /\ UNCHANGED net

Lose(d) ==
  /\ d \in net /\ net' = net \ {d}
  /\ UNCHANGED <<server, history>>

(* peerTimeout passes without a registration; pruneStalePeers on its tick. *)
Aged(peers) ==
  [u \in Users |-> IF peers[u] = None THEN None ELSE [peers[u] EXCEPT !.stale = TRUE]]

Stale(peers, u) == peers[u] # None /\ peers[u].stale

Recent(peers) == [u \in Users |-> IF Stale(peers, u) THEN None ELSE peers[u]]

TimePasses ==
  /\ users' = Aged(users) /\ activePeers' = Aged(activePeers)
  /\ UNCHANGED <<net, currentMatchID, history>>

Prune ==
  /\ \E u \in Users : Stale(users, u) \/ Stale(activePeers, u)
  /\ users' = Recent(users) /\ activePeers' = Recent(activePeers)
  /\ want' = [u \in Users |-> IF Stale(users, u) THEN None ELSE want[u]]
  /\ UNCHANGED <<net, currentMatchID, told, seen, pairing>>
-----------------------------------------------------------------------------
(* The senders: a client registers for a peer, or ends the match it was    *)
(* told of; the websocket server's notifyHolePunchKill names no match.     *)
Send(d) ==
  /\ Cardinality(net \cup {d}) <= NetBound
  /\ net' = net \cup {d}
  /\ UNCHANGED <<server, history>>

SendPunch(u, v, e) ==
  Send([kill |-> FALSE, uid |-> u, peerUid |-> v, from |-> e, matchId |-> None])

SendKill(u, v) ==
  Send([kill |-> TRUE, uid |-> u, peerUid |-> v, from |-> None, matchId |-> None])

SendKillOfMatch(u) ==
  /\ told[u] # None /\ ~told[u].kill
  /\ Send([kill |-> TRUE, uid |-> u, peerUid |-> told[u].peer, from |-> None,
           matchId |-> told[u].matchId])

Next ==
  \/ \E d \in net : Receive(d) \/ Lose(d)
  \/ TimePasses \/ Prune
  \/ \E u, v \in Users : u # v /\ (SendKill(u, v) \/ \E e \in Endpoints : SendPunch(u, v, e))
  \/ \E u \in Users : SendKillOfMatch(u)

Spec == Init /\ [][Next]_vars
-----------------------------------------------------------------------------
(* What the handlers keep and send: every stored peer has an endpoint, and *)
(* every match id that reaches a user is one the server made, or none.     *)
TypeOK ==
  /\ net \subseteq Punch \cup Kill
  /\ users \in [Users -> Optional(PeerRecord)]
  /\ activePeers \in [Users -> Optional(PeerRecord)]
  /\ currentMatchID \in [Users -> Optional(MatchIds)]
  /\ told \in [Users -> Optional(Notice)]
  /\ seen \in [Users -> Optional(Endpoints)]
  /\ want \in [Users -> Optional(Users)]
  /\ pairing \in [MatchIds -> SUBSET Users]

(* Two users whose last registrations name each other never both wait:     *)
(* whichever datagram is handled second makes the match, whatever was      *)
(* repeated, pruned or killed before.                                      *)
MutualNeverWait ==
  \A u, v \in Users :
    ~(users[u] # None /\ users[v] # None /\ want[u] = v /\ want[v] = u)

(* The match id the server keeps for a user is of a match made for that    *)
(* user, and the last thing the server told the user is that match.        *)
CurrentMatchWasTold ==
  \A u \in Users :
    LET m == currentMatchID[u]
    IN  m # None => u \in pairing[m] /\ ~told[u].kill /\ told[u].matchId = m

(* The endpoint under which a user waits or can be told of a kill is the   *)
(* one of its last registration, also after NAT gave it another.           *)
EndpointsAreLatest ==
  \A u \in Users :
    /\ users[u] # None => users[u].at = seen[u]
    /\ activePeers[u] # None => activePeers[u].at = seen[u]
-----------------------------------------------------------------------------
(* What the code says of itself.                                           *)

(* handleKillMessage claims to ignore a kill that is stale ("Ignoring kill *)
(* from ... with stale matchId"): a kill notice should name the match of   *)
(* the two users of the kill.                                              *)
KillNamesItsMatch ==
  \A u \in Users :
    told[u] # None /\ told[u].kill /\ told[u].matchId # None =>
      pairing[told[u].matchId] = {u, told[u].peer}
=============================================================================
