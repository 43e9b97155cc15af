------------------------- MODULE MatchTeardownProofs -------------------------
(***************************************************************************)
(* Theorems about MatchTeardown, for any users and matches, and any of     *)
(* them adrift: the composed system implements HolePunch, so that the      *)
(* theorems of HolePunchProofs hold in it, no kill reaches a pair that has *)
(* not ended a match, and the fixed set of users adrift allows all that a  *)
(* growing one does.                                                       *)
(***************************************************************************)
EXTENDS MatchTeardown, HolePunchProofs

USE DEF Optional

RegistryTypes ==
  /\ matches \in [RegistryIds -> SUBSET Users]
  /\ pending \subseteq Users \X Users
  /\ started \in [RegistryIds -> SUBSET Users] /\ over \subseteq SUBSET Users

(* A match that was started is registered until it is closed, with the two *)
(* users (or the one) it was started for.                                  *)
MatchesAreStarted ==
  \A m \in RegistryIds :
    /\ matches[m] \in {{}, started[m]}
    /\ started[m] = {} \/ \E c, o \in Users : started[m] = {c, o}
    /\ started[m] \in over \/ matches[m] = started[m] \/ \E c \in Users : started[m] = {c}

Started(u, v) == \E m \in RegistryIds : started[m] = {u, v}

OfTwoUsers(pair) == \E c, o \in Users : c # o /\ pair = {c, o}

OverWasStarted ==
  \A pair \in over : OfTwoUsers(pair) /\ \E m \in RegistryIds : started[m] = pair

(* A kill under way, in dgram or in the network, is of a pair that ended a *)
(* match, and a registration of a pair that started one.                   *)
PendingAreOver == \A k \in pending : k[1] # k[2] /\ {k[1], k[2]} \in over

NetIsDue ==
  \A d \in net : IF d.kill THEN {d.uid, d.peerUid} \in over ELSE Started(d.uid, d.peerUid)

ToldOfOthers == \A u \in Users : told[u] # None => told[u].peer # u

KeptUntilOver ==
  \A u \in Users :
    told[u] # None /\ (\A pair \in over : u \notin pair) => currentMatchID[u] = told[u].matchId

RegistryInv == RegistryTypes /\ MatchesAreStarted /\ OverWasStarted /\ PendingAreOver

TInv ==
  /\ PunchInv /\ RegistryInv /\ NetIsDue
  /\ OnlyOpponentsAreNamed /\ ToldOfOthers /\ KeptUntilOver
-----------------------------------------------------------------------------
LEMMA TInvInit == TInit => TInv
<1>. SUFFICES ASSUME TInit PROVE TInv
  OBVIOUS
<1>1. PunchInv
  BY PunchInit DEF TInit
<1>2. RegistryInv
  BY DEF TInit, RegistryInv, RegistryTypes, MatchesAreStarted, OverWasStarted,
         PendingAreOver
<1>3. NetIsDue /\ OnlyOpponentsAreNamed /\ ToldOfOthers /\ KeptUntilOver
  BY DEF TInit, Init, NetIsDue, OnlyOpponentsAreNamed, ToldOfOthers, KeptUntilOver
<1>. QED
  BY <1>1, <1>2, <1>3 DEF TInv

(* A step of the registry closes the matches gone, starts at most one, and *)
(* does nothing else.                                                      *)
Closes(gone) ==
  /\ \A m \in RegistryIds : matches'[m] = IF m \in gone THEN {} ELSE matches[m]
  /\ UNCHANGED started

Replaces(gone, m, c, o) ==
  /\ \A k \in RegistryIds :
       matches'[k] = IF k = m THEN {c, o} ELSE IF k \in gone THEN {} ELSE matches[k]
  /\ started[m] = {}
  /\ \A k \in RegistryIds : started'[k] = IF k = m THEN {c, o} ELSE started[k]

LEMMA RegistryCases ==
  ASSUME TInv, RegistryStep
  PROVE  /\ RegistryTypes' /\ UNCHANGED vars
         /\ \E gone \in SUBSET RegistryIds :
              /\ ForceClose(gone)
              /\ Closes(gone) \/ \E m \in RegistryIds, c, o \in Users : Replaces(gone, m, c, o)
<1>1. ASSUME NEW gone \in SUBSET RegistryIds, ForceClose(gone)
      PROVE  pending' \subseteq Users \X Users /\ over' \subseteq SUBSET Users
  BY <1>1 DEF ForceClose, KillsOf, Pairs, TInv, RegistryInv, RegistryTypes
<1>2. \A gone \in SUBSET RegistryIds :
        Registry!Without(gone) \in [RegistryIds -> SUBSET Users]
  BY DEF Registry!Without, TInv, RegistryInv, RegistryTypes
<1>3. ASSUME NEW gone \in SUBSET RegistryIds, ForceClose(gone),
             matches' = Registry!Without(gone), UNCHANGED <<started, vars>>
      PROVE  RegistryTypes' /\ Closes(gone)
  <2>1. Closes(gone)
    BY <1>3 DEF Closes, Registry!Without
  <2>. QED
    BY <1>1, <1>2, <1>3, <2>1 DEF TInv, RegistryInv, RegistryTypes
<1>4. ASSUME NEW gone \in SUBSET RegistryIds, NEW m \in RegistryIds,
             NEW c \in Users, NEW o \in Users, Start(c, o, gone, m)
      PROVE  RegistryTypes' /\ Replaces(gone, m, c, o)
  <2>1. /\ matches' = [Registry!Without(gone) EXCEPT ![m] = {c, o}]
        /\ started' = [started EXCEPT ![m] = {c, o}] /\ started[m] = {} /\ ForceClose(gone)
    BY <1>4 DEF Start, Registry!Start
  <2>2. /\ matches' \in [RegistryIds -> SUBSET Users]
        /\ started' \in [RegistryIds -> SUBSET Users]
    BY <1>2, <2>1 DEF TInv, RegistryInv, RegistryTypes
  <2>3. Replaces(gone, m, c, o)
    BY <2>1 DEF Replaces, Registry!Without, TInv, RegistryInv, RegistryTypes
  <2>. QED
    BY <1>1, <2>1, <2>2, <2>3 DEF TInv, RegistryInv, RegistryTypes
<1>. QED
  BY <1>3, <1>4
     DEF RegistryStep, Leave, Refuse, Start, Registry!Leave, Registry!Refuse

(* What a force close of registered matches finds: pairs that were         *)
(* started.                                                                *)
LEMMA PairsWereStarted ==
  ASSUME RegistryInv, NEW gone \in SUBSET RegistryIds
  PROVE  /\ \A pair \in Pairs(gone) : OfTwoUsers(pair) /\ \E m \in gone : started[m] = pair
         /\ \A m \in gone, c, o \in Users : c # o /\ matches[m] = {c, o} => {c, o} \in Pairs(gone)
         /\ \A k \in KillsOf(gone) : k[1] # k[2] /\ {k[1], k[2]} \in Pairs(gone)
<1>1. ASSUME NEW u \in Users, NEW v \in Users, NEW m \in gone, Opponents(u, v, m)
      PROVE  started[m] = {u, v}
  <2>1. matches[m] = started[m] /\ \E c, o \in Users : started[m] = {c, o}
    BY <1>1 DEF Opponents, RegistryInv, MatchesAreStarted
  <2>. QED
    BY <1>1, <2>1 DEF Opponents
<1>2. \A pair \in Pairs(gone) : OfTwoUsers(pair) /\ \E m \in gone : started[m] = pair
  BY <1>1 DEF Pairs, Opponents, OfTwoUsers
<1>3. ASSUME NEW m \in gone, NEW c \in Users, NEW o \in Users, c # o, matches[m] = {c, o}
      PROVE  {c, o} \in Pairs(gone)
  BY <1>3 DEF Pairs, Opponents
<1>4. \A k \in KillsOf(gone) : k[1] # k[2] /\ {k[1], k[2]} \in Pairs(gone)
  BY DEF KillsOf, Pairs, Opponents
<1>. QED
  BY <1>2, <1>3, <1>4

LEMMA RegistryKeeps ==
  ASSUME TInv, RegistryStep
  PROVE  RegistryInv' /\ over \subseteq over' /\ \A u, v \in Users : Started(u, v) => Started(u, v)'
<1>1. RegistryTypes'
  BY RegistryCases
<1>2. ASSUME NEW gone \in SUBSET RegistryIds, ForceClose(gone),
             \/ Closes(gone)
             \/ \E m \in RegistryIds, c, o \in Users : Replaces(gone, m, c, o)
      PROVE  RegistryInv' /\ over \subseteq over'
             /\ \A u, v \in Users : Started(u, v) => Started(u, v)'
  <2>1. over' = over \cup Pairs(gone) /\ pending' = pending \cup KillsOf(gone)
    BY <1>2 DEF ForceClose
  <2>2. \A k \in RegistryIds : started[k] # {} => started'[k] = started[k]
    BY <1>2 DEF Closes, Replaces
  <2>3. RegistryInv
    BY DEF TInv
  <2>4. ASSUME NEW k \in RegistryIds, NEW c \in Users, NEW o \in Users,
               started'[k] = started[k], started[k] = {c, o}, matches'[k] \in {{}, matches[k]},
               matches'[k] = {} => k \in gone \/ matches[k] = {}
        PROVE  \/ started'[k] \in over' \/ matches'[k] = started'[k]
               \/ \E p \in Users : started'[k] = {p}
    <3>1. CASE c = o
      BY <2>4, <3>1
    <3>2. CASE c # o
      <4>1. {c, o} \in over \/ matches[k] = {c, o}
        <5>1. ~ \E p \in Users : {c, o} = {p}
          BY <3>2
        <5>. QED
          BY <2>3, <2>4, <5>1 DEF RegistryInv, MatchesAreStarted
      <4>2. matches[k] = {c, o} /\ k \in gone => {c, o} \in Pairs(gone)
        BY <2>3, <3>2, PairsWereStarted
      <4>3. {c, o} # {}
        OBVIOUS
      <4>. QED
        BY <2>1, <2>4, <4>1, <4>2, <4>3
    <3>. QED
      BY <3>1, <3>2
  <2>5. MatchesAreStarted'
    <3>. SUFFICES ASSUME NEW k \in RegistryIds
                  PROVE  /\ matches'[k] \in {{}, started'[k]}
                         /\ started'[k] = {} \/ \E c, o \in Users : started'[k] = {c, o}
                         /\ \/ started'[k] \in over' \/ matches'[k] = started'[k]
                            \/ \E c \in Users : started'[k] = {c}
      BY DEF MatchesAreStarted
    <3>1. CASE \E c, o \in Users : matches'[k] = {c, o} /\ started'[k] = {c, o}
      BY <3>1
    <3>2. CASE /\ matches'[k] = IF k \in gone THEN {} ELSE matches[k]
               /\ started'[k] = started[k]
      <4>1. /\ matches[k] \in {{}, started[k]}
            /\ started[k] = {} \/ \E c, o \in Users : started[k] = {c, o}
        BY <2>3 DEF RegistryInv, MatchesAreStarted
      <4>2. CASE started[k] = {}
        BY <3>2, <4>1, <4>2
      <4>3. ASSUME NEW c \in Users, NEW o \in Users, started[k] = {c, o}
            PROVE  \/ started'[k] \in over' \/ matches'[k] = started'[k]
                   \/ \E p \in Users : started'[k] = {p}
        BY <2>4, <3>2, <4>3
      <4>. QED
        BY <3>2, <4>1, <4>2, <4>3
    <3>. QED
      BY <1>2, <3>1, <3>2 DEF Closes, Replaces
  <2>6. OverWasStarted'
    <3>1. ASSUME NEW pair \in over'
          PROVE  OfTwoUsers(pair) /\ \E m \in RegistryIds : started'[m] = pair
      <4>1. OfTwoUsers(pair) /\ \E m \in RegistryIds : started[m] = pair
        BY <2>1, <2>3, PairsWereStarted DEF RegistryInv, OverWasStarted
      <4>2. pair # {}
        BY <4>1 DEF OfTwoUsers
      <4>. QED
        BY <2>2, <4>1, <4>2
    <3>. QED
      BY <3>1 DEF OverWasStarted
  <2>7. PendingAreOver'
    BY <2>1, <2>3, PairsWereStarted DEF RegistryInv, PendingAreOver
  <2>8. \A u, v \in Users : Started(u, v) => Started(u, v)'
    BY <2>2 DEF Started
  <2>. QED
    BY <1>1, <2>1, <2>5, <2>6, <2>7, <2>8 DEF RegistryInv
<1>. QED
  BY <1>2, RegistryCases

(* The other steps leave the registry alone. *)
LEMMA OverOnlyGrows ==
  ASSUME TInv, NEW p, OfTwoUsers(p), \E m \in RegistryIds : started[m] = p,
         over' = over \cup {p}, UNCHANGED <<matches, pending, started>>
  PROVE  RegistryInv'
<1>1. p \in SUBSET Users
  BY DEF OfTwoUsers
<1>. QED
  BY <1>1 DEF TInv, RegistryInv, RegistryTypes, MatchesAreStarted, OverWasStarted,
              PendingAreOver

LEMMA KillsKeep ==
  ASSUME TInv, NEW u \in Users, NEW v \in Users, EmitKill(u, v) \/ EmitError(u, v)
  PROVE  RegistryInv' /\ [Next]_vars /\ UNCHANGED <<started, over>>
         /\ (UNCHANGED vars \/ (SendKill(u, v) /\ {u, v} \in over))
<1>1. RegistryInv' /\ UNCHANGED <<started, over>> /\ u # v /\ {u, v} \in over
  <2>1. /\ <<u, v>> \in pending /\ pending' \subseteq pending
        /\ UNCHANGED <<matches, started, over>>
    BY DEF EmitKill, EmitError
  <2>2. u # v /\ {u, v} \in over
    BY <2>1 DEF TInv, RegistryInv, PendingAreOver
  <2>3. RegistryTypes' /\ PendingAreOver'
    BY <2>1 DEF TInv, RegistryInv, RegistryTypes, PendingAreOver
  <2>4. MatchesAreStarted' /\ OverWasStarted'
    BY <2>1 DEF TInv, RegistryInv, MatchesAreStarted, OverWasStarted
  <2>. QED
    BY <2>1, <2>2, <2>3, <2>4 DEF RegistryInv
<1>2. CASE EmitKill(u, v)
  BY <1>1, <1>2 DEF EmitKill, Next
<1>3. CASE EmitError(u, v)
  BY <1>1, <1>3 DEF EmitError
<1>. QED
  BY <1>1, <1>2, <1>3

LEMMA QuitKeeps ==
  ASSUME TInv, NEW u \in Users, Quit(u)
  PROVE  RegistryInv' /\ [Next]_vars /\ started' = started
<1>1. told[u] # None /\ told[u] \in Notice /\ SendKillOfMatch(u)
  BY DEF Quit, SendKillOfMatch, TInv, PunchInv, TypeOK
<1>2. /\ OfTwoUsers({u, told[u].peer})
      /\ \E m \in RegistryIds : started[m] = {u, told[u].peer}
  BY <1>1 DEF Notice, TInv, OnlyOpponentsAreNamed, ToldOfOthers, OfTwoUsers
<1>3. RegistryInv'
  BY <1>2, OverOnlyGrows DEF Quit
<1>. QED
  BY <1>1, <1>3 DEF Quit, Next

LEMMA RegisterForKeeps ==
  ASSUME TInv, NEW u \in Users, NEW v \in Users, NEW e \in Endpoints, RegisterFor(u, v, e)
  PROVE  RegistryInv' /\ [Next]_vars /\ UNCHANGED registry /\ Started(u, v) /\ SendPunch(u, v, e)
<1>1. UNCHANGED registry /\ SendPunch(u, v, e) /\ u # v /\ Started(u, v)
  BY DEF RegisterFor, Started
<1>2. RegistryInv'
  BY <1>1 DEF registry, TInv, RegistryInv, RegistryTypes, MatchesAreStarted, OverWasStarted,
              PendingAreOver
<1>. QED
  BY <1>1, <1>2 DEF Next

LEMMA PunchKeeps ==
  ASSUME TInv, HolePunchStep
  PROVE  RegistryInv' /\ [Next]_vars /\ UNCHANGED registry
<1>1. RegistryInv'
  BY DEF HolePunchStep, registry, TInv, RegistryInv, RegistryTypes, MatchesAreStarted,
         OverWasStarted, PendingAreOver
<1>. QED
  BY <1>1 DEF HolePunchStep, Next

(* Every step of the system is one of HolePunch, or leaves it alone. *)
LEMMA TStepIsAllowed ==
  ASSUME TInv, [TNext]_tvars
  PROVE  RegistryInv' /\ [Next]_vars /\ over \subseteq over'
         /\ \A u, v \in Users : Started(u, v) => Started(u, v)'
<1>1. CASE RegistryStep
  BY <1>1, RegistryKeeps, RegistryCases
<1>2. CASE KillStep
  BY <1>2, KillsKeep DEF KillStep, Started
<1>3. CASE ClientStep
  BY <1>3, QuitKeeps, RegisterForKeeps DEF ClientStep, Quit, registry, Started
<1>4. CASE HolePunchStep
  BY <1>4, PunchKeeps DEF registry, Started
<1>5. CASE UNCHANGED tvars
  BY <1>5 DEF tvars, registry, Started, TInv, RegistryInv, RegistryTypes, MatchesAreStarted,
              OverWasStarted, PendingAreOver
<1>. QED
  BY <1>1, <1>2, <1>3, <1>4, <1>5 DEF TNext
-----------------------------------------------------------------------------
(* What is on the network stays due. *)
LEMMA NetStaysDue ==
  ASSUME TInv, [TNext]_tvars
  PROVE  NetIsDue'
<1>1. over \subseteq over' /\ \A u, v \in Users : Started(u, v) => Started(u, v)'
  BY TStepIsAllowed
<1>2. \A d \in net : d.uid \in Users /\ d.peerUid \in Users
  BY DEF TInv, PunchInv, TypeOK, Punch, Kill
<1>3. CASE net' \subseteq net
  BY <1>1, <1>2, <1>3 DEF TInv, NetIsDue
<1>4. ASSUME NEW d, net' = net \cup {d},
             IF d.kill THEN {d.uid, d.peerUid} \in over' ELSE Started(d.uid, d.peerUid)'
      PROVE  NetIsDue'
  BY <1>1, <1>2, <1>4 DEF TInv, NetIsDue
<1>5. CASE RegistryStep \/ UNCHANGED tvars
  BY <1>3, <1>5, RegistryCases DEF vars, tvars
<1>6. ASSUME NEW u \in Users, NEW v \in Users, EmitKill(u, v) \/ EmitError(u, v)
      PROVE  NetIsDue'
  <2>1. CASE SendKill(u, v) /\ {u, v} \in over
    BY <1>1, <1>4, <2>1 DEF SendKill, Send
  <2>. QED
    BY <1>3, <1>6, <2>1, KillsKeep DEF vars
<1>7. ASSUME NEW u \in Users, Quit(u)
      PROVE  NetIsDue'
  BY <1>4, <1>7 DEF Quit, SendKillOfMatch, Send
<1>8. ASSUME NEW u \in Users, NEW v \in Users, NEW e \in Endpoints, RegisterFor(u, v, e)
      PROVE  NetIsDue'
  <2>1. Started(u, v)' /\ SendPunch(u, v, e)
    BY <1>1, <1>8, RegisterForKeeps
  <2>. QED
    BY <1>4, <2>1 DEF SendPunch, Send
<1>9. CASE HolePunchStep
  BY <1>3, <1>9 DEF HolePunchStep, Receive, Lose, TimePasses, Prune
<1>. QED
  BY <1>5, <1>6, <1>7, <1>8, <1>9 DEF TNext, KillStep, ClientStep

(* What the server has told, when it tells nobody anything. *)
LEMMA ToldStays ==
  ASSUME TInv, over \subseteq over', \A u, v \in Users : Started(u, v) => Started(u, v)',
         UNCHANGED <<told, currentMatchID>>
  PROVE  (OnlyOpponentsAreNamed /\ ToldOfOthers /\ KeptUntilOver)'
<1>1. \A u \in Users : told[u] # None => told[u].peer \in Users
  BY DEF TInv, PunchInv, TypeOK, Notice
<1>2. OnlyOpponentsAreNamed'
  <2>. SUFFICES ASSUME NEW u \in Users, told[u] # None
                PROVE  Started(u, told[u].peer)' /\ (told[u].kill => {u, told[u].peer} \in over')
    BY DEF OnlyOpponentsAreNamed, Started
  <2>1. Started(u, told[u].peer) /\ (told[u].kill => {u, told[u].peer} \in over)
    BY DEF TInv, OnlyOpponentsAreNamed, Started
  <2>. QED
    BY <1>1, <2>1
<1>. QED
  BY <1>2 DEF TInv, ToldOfOthers, KeptUntilOver

LEMMA ToldByRegister ==
  ASSUME TInv, NEW d \in net, ~d.kill, Register(d), UNCHANGED registry
  PROVE  (OnlyOpponentsAreNamed /\ ToldOfOthers /\ KeptUntilOver)'
<1> DEFINE a == d.uid
           b == d.peerUid
<1>1. a \in Users /\ b \in Users /\ a # b /\ Started(a, b)
  BY DEF TInv, PunchInv, TypeOK, OfTwo, NetIsDue, Punch, Kill
<1>2. CASE UNCHANGED <<told, currentMatchID>>
  BY <1>2, ToldStays DEF registry, Started
<1>3. ASSUME NEW m \in MatchIds,
             currentMatchID' = [u \in Users |-> IF u \in {a, b} THEN m ELSE currentMatchID[u]],
             told' = [told EXCEPT ![a] = [kill |-> FALSE, peer |-> b, matchId |-> m],
                                  ![b] = [kill |-> FALSE, peer |-> a, matchId |-> m]]
      PROVE  (OnlyOpponentsAreNamed /\ ToldOfOthers /\ KeptUntilOver)'
  <2>1. /\ told'[a] = [kill |-> FALSE, peer |-> b, matchId |-> m]
        /\ told'[b] = [kill |-> FALSE, peer |-> a, matchId |-> m]
        /\ \A u \in Users \ {a, b} : told'[u] = told[u] /\ currentMatchID'[u] = currentMatchID[u]
        /\ currentMatchID'[a] = m /\ currentMatchID'[b] = m
    BY <1>1, <1>3 DEF TInv, PunchInv, TypeOK
  <2>2. started' = started /\ over' = over
    BY DEF registry
  <2>3. \E k \in RegistryIds : started[k] = {a, b} /\ started[k] = {b, a}
    BY <1>1 DEF Started
  <2>4. OnlyOpponentsAreNamed'
    BY <2>1, <2>2, <2>3 DEF TInv, OnlyOpponentsAreNamed
  <2>5. ToldOfOthers'
    BY <1>1, <2>1 DEF TInv, ToldOfOthers
  <2>6. KeptUntilOver'
    BY <2>1, <2>2 DEF TInv, KeptUntilOver
  <2>. QED
    BY <2>4, <2>5, <2>6
<1>. QED
  BY <1>2, <1>3 DEF Register

LEMMA ToldByKill ==
  ASSUME TInv, NEW d \in net, d.kill, HandleKill(d), UNCHANGED registry
  PROVE  (OnlyOpponentsAreNamed /\ ToldOfOthers /\ KeptUntilOver)'
<1> DEFINE a == d.uid
           b == d.peerUid
<1>1. a \in Users /\ b \in Users /\ {a, b} \in over
  BY DEF TInv, PunchInv, TypeOK, NetIsDue, Punch, Kill
<1>2. CASE UNCHANGED <<told, currentMatchID>>
  BY <1>2, ToldStays DEF registry, Started
<1>3. CASE /\ currentMatchID' = Forgotten(a, b)
           /\ told' = [told EXCEPT ![b] = [kill |-> TRUE, peer |-> a, matchId |-> KilledMatch(d)]]
  <2>1. /\ told'[b] = [kill |-> TRUE, peer |-> a, matchId |-> KilledMatch(d)]
        /\ \A u \in Users \ {b} : told'[u] = told[u]
        /\ \A u \in Users \ {a, b} : currentMatchID'[u] = currentMatchID[u]
    BY <1>1, <1>3 DEF Forgotten, TInv, PunchInv, TypeOK
  <2>2. started' = started /\ over' = over
    BY DEF registry
  <2>3. a # b /\ \E m \in RegistryIds : started[m] = {b, a}
    <3>1. OfTwoUsers({a, b}) /\ \E m \in RegistryIds : started[m] = {a, b}
      BY <1>1 DEF TInv, RegistryInv, OverWasStarted
    <3>. QED
      BY <3>1 DEF OfTwoUsers
  <2>4. OnlyOpponentsAreNamed'
    <3>1. {b, a} \in over
      <4>1. {b, a} = {a, b}
        OBVIOUS
      <4>. QED
        BY <1>1, <4>1
    <3>. SUFFICES ASSUME NEW u \in Users, told'[u] # None
                  PROVE  /\ \E m \in RegistryIds : started[m] = {u, told'[u].peer}
                         /\ told'[u].kill => {u, told'[u].peer} \in over
      BY <2>2 DEF OnlyOpponentsAreNamed
    <3>2. CASE u = b
      <4>1. told'[u].peer = a
        BY <2>1, <3>2
      <4>. QED
        BY <2>3, <3>1, <3>2, <4>1
    <3>3. CASE u # b
      <4>1. told'[u] = told[u]
        BY <2>1, <3>3
      <4>. QED
        BY <4>1 DEF TInv, OnlyOpponentsAreNamed
    <3>. QED
      BY <3>2, <3>3
  <2>5. ToldOfOthers'
    BY <2>1, <2>3 DEF TInv, ToldOfOthers
  <2>6. KeptUntilOver'
    BY <1>1, <2>1, <2>2 DEF TInv, KeptUntilOver
  <2>. QED
    BY <2>4, <2>5, <2>6
<1>. QED
  BY <1>2, <1>3 DEF HandleKill

LEMMA TInvStep == TInv /\ [TNext]_tvars => TInv'
<1>. SUFFICES ASSUME TInv, [TNext]_tvars PROVE TInv'
  OBVIOUS
<1>1. /\ RegistryInv' /\ [Next]_vars /\ over \subseteq over'
      /\ \A u, v \in Users : Started(u, v) => Started(u, v)'
  BY TStepIsAllowed
<1>2. PunchInv'
  BY <1>1, PunchStep DEF TInv
<1>3. NetIsDue'
  BY NetStaysDue
<1>4. (OnlyOpponentsAreNamed /\ ToldOfOthers /\ KeptUntilOver)'
  <2>1. CASE UNCHANGED <<told, currentMatchID>>
    BY <1>1, <2>1, ToldStays
  <2>2. ASSUME NEW d \in net, Receive(d), UNCHANGED registry
        PROVE  (OnlyOpponentsAreNamed /\ ToldOfOthers /\ KeptUntilOver)'
    BY <2>2, ToldByRegister, ToldByKill DEF Receive
  <2>3. CASE RegistryStep \/ KillStep \/ ClientStep \/ UNCHANGED tvars
    <3>1. UNCHANGED <<told, currentMatchID>>
      BY <2>3, RegistryCases
         DEF tvars, vars, KillStep, ClientStep, EmitKill, EmitError, Quit, RegisterFor,
             SendKill, SendPunch, SendKillOfMatch, Send, server, history
    <3>. QED
      BY <2>1, <3>1
  <2>4. CASE HolePunchStep
    <3>1. CASE (\E d \in net : Lose(d)) \/ TimePasses \/ Prune
      BY <2>1, <3>1 DEF Lose, TimePasses, Prune, server, history
    <3>. QED
      BY <2>2, <2>4, <3>1 DEF HolePunchStep
  <2>. QED
    BY <2>3, <2>4 DEF TNext
<1>. QED
  BY <1>1, <1>2, <1>3, <1>4 DEF TInv

LEMMA TInvCorrect == TSpec => []TInv
BY TInvInit, TInvStep, PTL DEF TSpec
-----------------------------------------------------------------------------
(* The websocket server (notifyHolePunchKill, handleRequestMatch) and the  *)
(* clients send the hole-punch server only what HolePunch lets its senders *)
(* send, so that its theorems hold in the whole system.                    *)
THEOREM ComposedCorrect == TSpec => UsedAsAllowed
<1>1. TInit => Init
  BY DEF TInit
<1>2. TInv /\ [TNext]_tvars => [Next]_vars
  BY TStepIsAllowed
<1>. QED
  BY <1>1, <1>2, TInvCorrect, PTL DEF TSpec, UsedAsAllowed, Spec

(* The types of the registry, the kills under way and the hole-punch       *)
(* server hold together (forceCloseMatchForUser, gopunchv1.go).            *)
THEOREM TeardownTypes == TSpec => []TTypeOK
<1>1. TInv => TTypeOK
  BY DEF TInv, PunchInv, RegistryInv, RegistryTypes, TTypeOK
<1>. QED
  BY <1>1, TInvCorrect, PTL

(* Nobody is told of a user it was not matched with, nor that one is gone  *)
(* whose match with it was neither closed (forceCloseMatchForUser) nor     *)
(* quit: whoever is adrift, over any network.                              *)
THEOREM NamesCorrect == TSpec => []OnlyOpponentsAreNamed
<1>1. TInv => OnlyOpponentsAreNamed
  BY DEF TInv
<1>. QED
  BY <1>1, TInvCorrect, PTL

(* Before a match of a user ends, no kill takes its introduction or its    *)
(* match id from it, and the registry has it in the match it was told of   *)
(* (forceCloseMatchForUser kills only pairs of the match it closes).       *)
THEOREM FirstCorrect == TSpec => []FirstMatchIsKept
<1>1. ASSUME TInv PROVE FirstMatchIsKept
  <2>. SUFFICES ASSUME NEW u \in Users, told[u] # None, \A pair \in over : u \notin pair
                PROVE  /\ ~told[u].kill /\ currentMatchID[u] = told[u].matchId
                       /\ \E m \in RegistryIds : matches[m] = {u, told[u].peer}
    BY DEF FirstMatchIsKept
  <2>1. told[u].peer \in Users /\ told[u].peer # u
    BY <1>1 DEF TInv, PunchInv, TypeOK, Notice, ToldOfOthers
  <2>2. PICK m \in RegistryIds : started[m] = {u, told[u].peer}
    BY <1>1 DEF TInv, OnlyOpponentsAreNamed
  <2>3. ~told[u].kill
    BY <1>1 DEF TInv, OnlyOpponentsAreNamed
  <2>4. currentMatchID[u] = told[u].matchId
    BY <1>1 DEF TInv, KeptUntilOver
  <2>5. matches[m] = started[m]
    <3>1. started[m] \notin over /\ ~ \E c \in Users : started[m] = {c}
      BY <2>1, <2>2
    <3>. QED
      BY <1>1, <3>1 DEF TInv, RegistryInv, MatchesAreStarted
  <2>. QED
    BY <2>2, <2>3, <2>4, <2>5
<1>. QED
  BY <1>1, TInvCorrect, PTL

(* What HolePunchProofs shows of the hole-punch server on its own holds    *)
(* with the websocket server's kills and the clients around it: the two    *)
(* users of a match never both wait for each other, a match id it keeps    *)
(* for a user is of the match it told the user last, endpoints are those   *)
(* of the last registrations, and introductions agree (gopunchv1.go).      *)
THEOREM ServedCorrect ==
  TSpec => [](/\ MutualNeverWait /\ CurrentMatchWasTold
              /\ EndpointsAreLatest /\ IntroductionsAgree)
BY ComposedCorrect, MutualCorrect, CurrentCorrect, EndpointsCorrect, IntroductionsCorrect, PTL
   DEF UsedAsAllowed
-----------------------------------------------------------------------------
(* Why the registry may be taken with a fixed set of users adrift.         *)
VARIABLE drifting  \* the users adrift so far, as SignalServer counts them

Counted == INSTANCE Pairing WITH MatchIds <- RegistryIds, adrift <- drifting

(* The registry of TSpec: any of its steps, or none of them. *)
AsTaken ==
  \/ \E u \in Users, gone \in SUBSET RegistryIds : Registry!Leave(u, gone)
  \/ \E c, o \in Users, gone \in SUBSET RegistryIds :
       Registry!Refuse(c, o, gone) \/ \E m \in RegistryIds : Registry!Start(c, o, gone, m)

(* The more users are adrift, the more calls may end. *)
LEMMA EndsAsTaken ==
  ASSUME drifting \subseteq Adrift, NEW S \in SUBSET Users, NEW gone,
         Counted!Ends(S, gone)
  PROVE  Registry!Ends(S, gone)
BY DEF Counted!Ends, Registry!Ends, Counted!Live, Registry!Live,
   Counted!MatchesOf, Registry!MatchesOf

LEMMA StepAsTaken ==
  ASSUME drifting \subseteq Adrift, [Counted!Next]_(Counted!vars)
  PROVE  [AsTaken]_matches
<1>1. ASSUME NEW u \in Users, NEW gone \in SUBSET RegistryIds, Counted!Leave(u, gone)
      PROVE  Registry!Leave(u, gone)
  <2>1. Registry!Ends({u}, gone)
    BY <1>1, EndsAsTaken DEF Counted!Leave
  <2>. QED
    BY <1>1, <2>1 DEF Counted!Leave, Registry!Leave, Counted!Without, Registry!Without
<1>2. ASSUME NEW c \in Users, NEW o \in Users, NEW gone \in SUBSET RegistryIds,
             Counted!Refuse(c, o, gone)
      PROVE  Registry!Refuse(c, o, gone)
  <2>1. Registry!Ends({c, o}, gone)
    BY <1>2, EndsAsTaken DEF Counted!Refuse
  <2>. QED
    BY <1>2, <2>1 DEF Counted!Refuse, Registry!Refuse, Counted!Without, Registry!Without
<1>3. ASSUME NEW c \in Users, NEW o \in Users, NEW gone \in SUBSET RegistryIds,
             NEW m \in RegistryIds, Counted!Start(c, o, gone, m)
      PROVE  Registry!Start(c, o, gone, m)
  <2>1. Registry!Ends({c, o}, gone)
    BY <1>3, EndsAsTaken DEF Counted!Start
  <2>. QED
    BY <1>3, <2>1 DEF Counted!Start, Registry!Start, Counted!Without, Registry!Without,
       Counted!Live, Registry!Live
<1>4. ASSUME NEW u \in Users, Counted!Drift(u)
      PROVE  UNCHANGED matches
  BY <1>4 DEF Counted!Drift
<1>5. CASE UNCHANGED Counted!vars
  BY <1>5 DEF Counted!vars
<1>. QED
  BY <1>1, <1>2, <1>3, <1>4, <1>5 DEF Counted!Next, AsTaken

(* Whatever the registry does while nobody but Adrift goes adrift, it does *)
(* in MatchTeardown too: Pairing, which SignalServer implements, with its  *)
(* growing set of users adrift takes no step that Pairing with the fixed   *)
(* set does not.  With everybody in Adrift, the hypothesis is that only    *)
(* users go adrift.                                                        *)
THEOREM AdriftCorrect ==
  Counted!Spec /\ [](drifting \subseteq Adrift) =>
    matches = [m \in RegistryIds |-> {}] /\ [][AsTaken]_matches
BY StepAsTaken, PTL DEF Counted!Spec, Counted!Init
=============================================================================
