---------------------------- MODULE MatchTeardown ----------------------------
(***************************************************************************)
(* The match registry of the websocket server together with the hole-punch *)
(* server.  request-match tells both players whom to register for, and     *)
(* forceCloseMatchForUser sends a kill for each of them, in no particular  *)
(* order with what the clients send.                                       *)
(*                                                                         *)
(* The registry is taken as Pairing promises it (SignalServer implements   *)
(* that), the hole-punch server as HolePunch has it.  External: the        *)
(* clients, which register for an opponent they were given, again and      *)
(* again and as late as they like, and may end a match they were told of.  *)
(*                                                                         *)
(* Whoever goes adrift is in Adrift from the beginning.  That allows more  *)
(* than the registry does: the more users are adrift, the less Pairing     *)
(* promises of any step.                                                   *)
(***************************************************************************)
EXTENDS HolePunch

CONSTANTS
  RegistryIds,  \* ids of matches in the registry; the hole-punch server has its own
  Adrift        \* users of whom the registry promises nothing, see above

VARIABLES
  matches,           \* the registry
  pending,           \* kills that dgram has yet to send
  started,           \* history: the users whom match-start gave to each other, by match
  over               \* history: pairs a match of which was closed, or quit by one of the two

registry == <<matches, pending, started, over>>
tvars == <<vars, registry>>

Registry == INSTANCE Pairing WITH MatchIds <- RegistryIds, adrift <- Adrift

TInit ==
  /\ Init /\ matches = [m \in RegistryIds |-> {}]
  /\ pending = {} /\ started = [m \in RegistryIds |-> {}] /\ over = {}
-----------------------------------------------------------------------------
(* forceCloseMatchForUser: for each participant, a kill against the other. *)
Opponents(u, v, m) == u # v /\ {u, v} \subseteq matches[m]

KillsOfMutant(gone) ==                   \* the participant itself is found
  {k \in Users \X Users : \E m \in gone : k[1] \in matches[m] /\ k[1] = k[2]}

KillsOfMutant2(gone) ==                  \* the opponent is looked for among all users
  {k \in Users \X Users : k[1] # k[2] /\ \E m \in gone : k[1] \in matches[m]}

KillsOf(gone) == {k \in Users \X Users : \E m \in gone : Opponents(k[1], k[2], m)}

Pairs(gone) ==
  {p \in SUBSET Users : \E u, v \in Users, m \in gone : p = {u, v} /\ Opponents(u, v, m)}

ForceClose(gone) ==
  /\ pending' = pending \cup KillsOf(gone)
  /\ over' = over \cup Pairs(gone)

Leave(u, gone) ==
  /\ Registry!Leave(u, gone) /\ ForceClose(gone)
  /\ UNCHANGED <<started, vars>>

Refuse(c, o, gone) ==
  /\ Registry!Refuse(c, o, gone) /\ ForceClose(gone)
  /\ UNCHANGED <<started, vars>>

StartMutant(c, o, gone, m) ==            \* the participants are those of the new match
  /\ Registry!Start(c, o, gone, m) /\ started[m] = {}
  /\ started' = [started EXCEPT ![m] = {c, o}]
  /\ pending' = pending \cup {k \in {c, o} \X {c, o} : k[1] # k[2] /\ gone # {}}
  /\ over' = over \cup Pairs(gone)
  /\ UNCHANGED vars

(* randomUUID returns an id once. *)
Start(c, o, gone, m) ==
  /\ Registry!Start(c, o, gone, m) /\ ForceClose(gone)
  /\ started[m] = {} /\ started' = [started EXCEPT ![m] = {c, o}]
  /\ UNCHANGED vars

(* holePunchSocket.send looks the host up and sends, or reports an error. *)
EmitKill(u, v) ==
  /\ <<u, v>> \in pending /\ pending' = pending \ {<<u, v>>}
  /\ SendKill(u, v)
  /\ UNCHANGED <<matches, started, over>>

EmitError(u, v) ==
  /\ <<u, v>> \in pending /\ pending' = pending \ {<<u, v>>}
  /\ UNCHANGED <<matches, started, over, vars>>
-----------------------------------------------------------------------------
(* The clients. *)
RegisterFor(u, v, e) ==
  /\ u # v /\ \E m \in RegistryIds : started[m] = {u, v}
  /\ SendPunch(u, v, e)
  /\ UNCHANGED registry

Quit(u) ==
  /\ SendKillOfMatch(u)
  /\ over' = over \cup {{u, told[u].peer}}
  /\ UNCHANGED <<matches, pending, started>>
-----------------------------------------------------------------------------
RegistryStep ==
  \/ \E u \in Users, gone \in SUBSET RegistryIds : Leave(u, gone)
  \/ \E c, o \in Users, gone \in SUBSET RegistryIds :
       Refuse(c, o, gone) \/ \E m \in RegistryIds : Start(c, o, gone, m)

KillStep == \E u, v \in Users : EmitKill(u, v) \/ EmitError(u, v)

ClientStep ==
  \E u \in Users : Quit(u) \/ \E v \in Users, e \in Endpoints : RegisterFor(u, v, e)

(* The hole-punch server and its network. *)
HolePunchStep ==
  /\ (\E d \in net : Receive(d) \/ Lose(d)) \/ TimePasses \/ Prune
  /\ UNCHANGED registry

TNext == RegistryStep \/ KillStep \/ ClientStep \/ HolePunchStep

TSpec == TInit /\ [][TNext]_tvars
-----------------------------------------------------------------------------
(* The pieces keep their types, the kills under way among them. *)
TTypeOK ==
  /\ TypeOK
  /\ matches \in [RegistryIds -> SUBSET Users]
  /\ pending \subseteq Users \X Users
  /\ started \in [RegistryIds -> SUBSET Users] /\ over \subseteq SUBSET Users

(* The websocket server and the clients use the hole-punch server as       *)
(* HolePunch allows, so that all it shows holds in the whole system.       *)
UsedAsAllowed == Spec

(* The hole-punch server tells a user of nobody but users it was matched   *)
(* with by request-match, and that one is gone only when their match was   *)
(* closed or quit, however late or often registrations and kills arrive.   *)
OnlyOpponentsAreNamed ==
  \A u \in Users : told[u] # None =>
    /\ \E m \in RegistryIds : started[m] = {u, told[u].peer}
    /\ told[u].kill => {u, told[u].peer} \in over

(* A user none of whose matches has ended is safe from the kills of        *)
(* others: once introduced, it stays introduced, under the id it was told, *)
(* to an opponent with whom the registry still has it in a match.          *)
FirstMatchIsKept ==
  \A u \in Users : told[u] # None /\ (\A pair \in over : u \notin pair) =>
    /\ ~told[u].kill /\ currentMatchID[u] = told[u].matchId
    /\ \E m \in RegistryIds : matches[m] = {u, told[u].peer}
=============================================================================
