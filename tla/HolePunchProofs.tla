--------------------------- MODULE HolePunchProofs ---------------------------
(***************************************************************************)
(* Theorems about HolePunch, for any users, endpoints and matches, over a  *)
(* network that loses, repeats and reorders: the invariants that its runs  *)
(* check on small instances.                                               *)
(***************************************************************************)
EXTENDS HolePunch, TLAPS

USE DEF Optional

(* Nobody registers for himself. *)
OfTwo == \A d \in net : ~d.kill => d.uid # d.peerUid

PunchInv == TypeOK /\ OfTwo

LEMMA PunchInit == Init => PunchInv
BY DEF Init, PunchInv, TypeOK, OfTwo

LEMMA RecordType ==
  ASSUME NEW peers \in [Users -> Optional(PeerRecord)], NEW d \in Punch
  PROVE  Registered(peers, d) \in [Users -> Optional(PeerRecord)]
BY DEF Registered, PeerRecord, Punch

LEMMA NoticeType ==
  ASSUME NEW kill \in BOOLEAN, NEW v \in Users, NEW m \in Optional(MatchIds)
  PROVE  [kill |-> kill, peer |-> v, matchId |-> m] \in Notice
BY DEF Notice

LEMMA LeaveType ==
  ASSUME NEW S, NEW waiting \in [Users -> Optional(S)], NEW a, NEW b
  PROVE  LeaveWaiting(waiting, a, b) \in [Users -> Optional(S)]
BY DEF LeaveWaiting

LEMMA RegisterType ==
  ASSUME PunchInv, NEW d \in net, ~d.kill, Register(d), UNCHANGED net
  PROVE  PunchInv'
<1> DEFINE a == d.uid
           b == d.peerUid
           waiting == Registered(users, d)
<1>1. d \in Punch /\ a \in Users /\ b \in Users /\ d.from \in Endpoints
  BY DEF PunchInv, TypeOK, Punch, Kill
<1>2. waiting \in [Users -> Optional(PeerRecord)]
  BY <1>1, RecordType DEF PunchInv, TypeOK
<1>3. activePeers' \in [Users -> Optional(PeerRecord)] /\ seen' \in [Users -> Optional(Endpoints)]
  BY <1>1, RecordType DEF PunchInv, TypeOK, Register
<1> HIDE DEF waiting
<1>4. CASE /\ users' = waiting /\ want' = [want EXCEPT ![a] = b]
           /\ UNCHANGED <<currentMatchID, told, pairing>>
  BY <1>1, <1>2, <1>3, <1>4 DEF PunchInv, TypeOK, OfTwo
<1>5. ASSUME NEW m \in MatchIds,
             users' = LeaveWaiting(waiting, a, b), want' = LeaveWaiting(want, a, b),
             currentMatchID' = [u \in Users |-> IF u \in {a, b} THEN m ELSE currentMatchID[u]],
             pairing' = [pairing EXCEPT ![m] = {a, b}],
             told' = [told EXCEPT ![a] = [kill |-> FALSE, peer |-> b, matchId |-> m],
                                  ![b] = [kill |-> FALSE, peer |-> a, matchId |-> m]]
      PROVE  PunchInv'
  <2>1. users' \in [Users -> Optional(PeerRecord)] /\ want' \in [Users -> Optional(Users)]
    BY <1>2, <1>5, LeaveType DEF PunchInv, TypeOK
  <2>2. told' \in [Users -> Optional(Notice)]
    BY <1>1, <1>5, NoticeType DEF PunchInv, TypeOK
  <2>3. pairing' \in [MatchIds -> SUBSET Users]
    BY <1>1, <1>5 DEF PunchInv, TypeOK
  <2>4. currentMatchID' \in [Users -> Optional(MatchIds)]
    BY <1>5 DEF PunchInv, TypeOK
  <2>. QED
    BY <1>3, <2>1, <2>2, <2>3, <2>4 DEF PunchInv, TypeOK, OfTwo
<1>. QED
  BY <1>4, <1>5 DEF Register, waiting

LEMMA KillType ==
  ASSUME PunchInv, NEW d \in net, d.kill, HandleKill(d), UNCHANGED net
  PROVE  PunchInv'
<1> DEFINE a == d.uid
           b == d.peerUid
           notice == [kill |-> TRUE, peer |-> a, matchId |-> KilledMatch(d)]
<1>1. a \in Users /\ b \in Users
  BY DEF PunchInv, TypeOK, Punch, Kill
<1>2. notice \in Notice
  BY <1>1, NoticeType DEF KilledMatch, PunchInv, TypeOK
<1> HIDE DEF notice
<1>3. told' \in [Users -> Optional(Notice)]
  BY <1>1, <1>2 DEF HandleKill, notice, PunchInv, TypeOK
<1>4. /\ activePeers' \in [Users -> Optional(PeerRecord)]
      /\ currentMatchID' \in [Users -> Optional(MatchIds)]
  BY DEF HandleKill, Forgotten, PunchInv, TypeOK
<1>. QED
  BY <1>3, <1>4 DEF HandleKill, PunchInv, TypeOK, OfTwo

LEMMA PruneType ==
  ASSUME PunchInv, TimePasses \/ Prune
  PROVE  PunchInv'
<1>1. CASE TimePasses
  <2>1. ASSUME NEW peers \in [Users -> Optional(PeerRecord)]
        PROVE  Aged(peers) \in [Users -> Optional(PeerRecord)]
    BY DEF Aged, PeerRecord
  <2>2. users' \in [Users -> Optional(PeerRecord)] /\ activePeers' \in [Users -> Optional(PeerRecord)]
    BY <1>1, <2>1 DEF TimePasses, PunchInv, TypeOK
  <2>. QED
    BY <1>1, <2>2 DEF TimePasses, history, PunchInv, TypeOK, OfTwo
<1>2. CASE Prune
  BY <1>2 DEF Prune, Recent, Stale, PunchInv, TypeOK, OfTwo
<1>. QED
  BY <1>1, <1>2

(* What may be put on the network. *)
LEMMA SendType ==
  ASSUME PunchInv, NEW d \in Punch \cup Kill, ~d.kill => d.uid # d.peerUid, Send(d)
  PROVE  PunchInv'
BY DEF Send, server, history, PunchInv, TypeOK, OfTwo

LEMMA SendsType ==
  ASSUME PunchInv, NEW u \in Users,
         \/ SendKillOfMatch(u)
         \/ \E v \in Users : u # v /\ SendKill(u, v)
         \/ \E v \in Users, e \in Endpoints : u # v /\ SendPunch(u, v, e)
  PROVE  PunchInv' /\ UNCHANGED <<server, history>>
<1>1. CASE SendKillOfMatch(u)
  <2> DEFINE d == [kill |-> TRUE, uid |-> u, peerUid |-> told[u].peer, from |-> None,
                   matchId |-> told[u].matchId]
  <2>1. told[u] \in Notice
    BY <1>1 DEF SendKillOfMatch, PunchInv, TypeOK
  <2>2. d \in Kill /\ d.kill
    BY <2>1 DEF Kill, Notice
  <2>3. Send(d)
    BY <1>1 DEF SendKillOfMatch
  <2>. QED
    BY <2>2, <2>3, SendType DEF Send
<1>2. ASSUME NEW v \in Users, SendKill(u, v)
      PROVE  PunchInv' /\ UNCHANGED <<server, history>>
  <2> DEFINE d == [kill |-> TRUE, uid |-> u, peerUid |-> v, from |-> None, matchId |-> None]
  <2>1. d \in Kill /\ d.kill
    BY DEF Kill
  <2>2. Send(d)
    BY <1>2 DEF SendKill
  <2>. QED
    BY <2>1, <2>2, SendType DEF Send
<1>3. ASSUME NEW v \in Users, NEW e \in Endpoints, u # v, SendPunch(u, v, e)
      PROVE  PunchInv' /\ UNCHANGED <<server, history>>
  <2> DEFINE d == [kill |-> FALSE, uid |-> u, peerUid |-> v, from |-> e, matchId |-> None]
  <2>1. d \in Punch /\ d.uid # d.peerUid
    BY <1>3 DEF Punch
  <2>2. Send(d)
    BY <1>3 DEF SendPunch
  <2>. QED
    BY <2>1, <2>2, SendType DEF Send
<1>. QED
  BY <1>1, <1>2, <1>3

(* The steps of Next by what they do: a registration, a kill, the clock,   *)
(* the pruning, or something that only changes the network.                *)
LEMMA StepCases ==
  ASSUME PunchInv, [Next]_vars
  PROVE  \/ \E d \in net : ~d.kill /\ Register(d) /\ UNCHANGED net
         \/ \E d \in net : d.kill /\ HandleKill(d) /\ UNCHANGED net
         \/ TimePasses
         \/ Prune
         \/ PunchInv' /\ UNCHANGED <<server, history>>
<1>1. ASSUME NEW d \in net, Receive(d)
      PROVE  \/ ~d.kill /\ Register(d) /\ UNCHANGED net
             \/ d.kill /\ HandleKill(d) /\ UNCHANGED net
  BY <1>1 DEF Receive
<1>2. ASSUME NEW d \in net, Lose(d)
      PROVE  PunchInv' /\ UNCHANGED <<server, history>>
  BY <1>2 DEF Lose, server, history, PunchInv, TypeOK, OfTwo
<1>3. CASE UNCHANGED vars
  BY <1>3 DEF vars, server, history, PunchInv, TypeOK, OfTwo
<1>. QED
  BY <1>1, <1>2, <1>3, SendsType DEF Next

LEMMA PunchStep == PunchInv /\ [Next]_vars => PunchInv'
<1>. SUFFICES ASSUME PunchInv, [Next]_vars PROVE PunchInv'
  OBVIOUS
<1>. QED
  BY StepCases, RegisterType, KillType, PruneType

(* Every stored peer has an endpoint, and every match id that is kept or   *)
(* sent is one the server made (register, handleKillMessage,               *)
(* pruneStalePeers), whatever the network does.                            *)
THEOREM PunchTypeCorrect == Spec => []TypeOK
<1>1. PunchInv => TypeOK
  BY DEF PunchInv
<1>. QED
  BY <1>1, PunchInit, PunchStep, PTL DEF Spec
-----------------------------------------------------------------------------
(* MutualNeverWait is inductive: a registration that finds the other side  *)
(* waiting takes both out of users.                                        *)
LEMMA MutualStep ==
  ASSUME PunchInv, MutualNeverWait, [Next]_vars
  PROVE  MutualNeverWait'
<1>1. ASSUME NEW d \in net, ~d.kill, Register(d), UNCHANGED net
      PROVE  MutualNeverWait'
  <2> DEFINE a == d.uid
             b == d.peerUid
             waiting == Registered(users, d)
  <2>1. a \in Users /\ b \in Users /\ a # b
    BY <1>1 DEF PunchInv, TypeOK, OfTwo, Punch, Kill
  <2>2. \A u \in Users : u # a => waiting[u] = users[u]
    BY DEF Registered, PunchInv, TypeOK
  <2> HIDE DEF waiting
  <2>3. CASE /\ waiting[b] = None /\ users' = waiting /\ want' = [want EXCEPT ![a] = b]
    <3>. SUFFICES ASSUME NEW u \in Users, NEW v \in Users,
                         users'[u] # None, users'[v] # None, want'[u] = v, want'[v] = u
                  PROVE  FALSE
      BY DEF MutualNeverWait
    <3>1. u # a /\ v # a
      BY <2>1, <2>3 DEF PunchInv, TypeOK
    <3>. QED
      BY <2>2, <2>3, <3>1 DEF MutualNeverWait, PunchInv, TypeOK
  <2>4. CASE users' = LeaveWaiting(waiting, a, b) /\ want' = LeaveWaiting(want, a, b)
    BY <2>2, <2>4 DEF LeaveWaiting, MutualNeverWait
  <2>. QED
    BY <1>1, <2>3, <2>4 DEF Register, Awaited, waiting
<1>2. ASSUME NEW d \in net, HandleKill(d)
      PROVE  MutualNeverWait'
  BY <1>2 DEF HandleKill, MutualNeverWait
<1>3. CASE TimePasses
  BY <1>3 DEF TimePasses, Aged, history, MutualNeverWait
<1>4. CASE Prune
  BY <1>4 DEF Prune, Recent, Stale, MutualNeverWait, PunchInv, TypeOK
<1>5. CASE UNCHANGED <<server, history>>
  BY <1>5 DEF server, history, MutualNeverWait
<1>. QED
  BY <1>1, <1>2, <1>3, <1>4, <1>5, StepCases

(* Two users who named each other never both stay waiting, whatever was    *)
(* lost, repeated, pruned or killed (handleMessage's lookup of the peer).  *)
THEOREM MutualCorrect == Spec => []MutualNeverWait
<1>1. Init => MutualNeverWait
  BY DEF Init, MutualNeverWait
<1>2. (PunchInv /\ MutualNeverWait) /\ [Next]_vars => (PunchInv /\ MutualNeverWait)'
  BY PunchStep, MutualStep
<1>. QED
  BY <1>1, <1>2, PunchInit, PTL DEF Spec
-----------------------------------------------------------------------------
(* CurrentMatchWasTold is inductive with the types: a match id is made     *)
(* once, so its pair is never another one's later.                         *)
LEMMA CurrentStep ==
  ASSUME PunchInv, CurrentMatchWasTold, [Next]_vars
  PROVE  CurrentMatchWasTold'
<1>1. ASSUME NEW d \in net, ~d.kill, Register(d), UNCHANGED net
      PROVE  CurrentMatchWasTold'
  <2> DEFINE a == d.uid
             b == d.peerUid
  <2>1. a \in Users /\ b \in Users /\ a # b
    BY <1>1 DEF PunchInv, TypeOK, OfTwo, Punch, Kill
  <2>2. CASE UNCHANGED <<currentMatchID, told, pairing>>
    BY <2>2 DEF CurrentMatchWasTold
  <2>3. ASSUME NEW m \in MatchIds, Unused(m),
               currentMatchID' = [u \in Users |-> IF u \in {a, b} THEN m
                                                                  ELSE currentMatchID[u]],
               pairing' = [pairing EXCEPT ![m] = {a, b}],
               told' = [told EXCEPT ![a] = [kill |-> FALSE, peer |-> b, matchId |-> m],
                                    ![b] = [kill |-> FALSE, peer |-> a, matchId |-> m]]
        PROVE  CurrentMatchWasTold'
    <3>. SUFFICES ASSUME NEW u \in Users, currentMatchID'[u] # None
                  PROVE  /\ u \in pairing'[currentMatchID'[u]]
                         /\ ~told'[u].kill
                         /\ told'[u].matchId = currentMatchID'[u]
      BY DEF CurrentMatchWasTold
    <3>1. CASE u \in {a, b}
      BY <2>1, <2>3, <3>1 DEF PunchInv, TypeOK
    <3>2. CASE u \notin {a, b}
      <4>1. currentMatchID'[u] = currentMatchID[u] /\ told'[u] = told[u]
        BY <2>3, <3>2 DEF PunchInv, TypeOK
      <4>2. u \in pairing[currentMatchID[u]] /\ currentMatchID[u] \in MatchIds
        BY <4>1 DEF CurrentMatchWasTold, PunchInv, TypeOK
      <4>3. pairing'[currentMatchID[u]] = pairing[currentMatchID[u]]
        BY <2>3, <4>2 DEF Unused, PunchInv, TypeOK
      <4>. QED
        BY <4>1, <4>2, <4>3 DEF CurrentMatchWasTold
    <3>. QED
      BY <3>1, <3>2
  <2>. QED
    BY <1>1, <2>2, <2>3 DEF Register
<1>2. ASSUME NEW d \in net, d.kill, HandleKill(d)
      PROVE  CurrentMatchWasTold'
  <2>1. CASE UNCHANGED <<currentMatchID, told>>
    BY <1>2, <2>1 DEF HandleKill, CurrentMatchWasTold
  <2>2. CASE ~UNCHANGED <<currentMatchID, told>>
    BY <1>2, <2>2 DEF HandleKill, Forgotten, CurrentMatchWasTold, PunchInv, TypeOK
  <2>. QED
    BY <2>1, <2>2
<1>3. CASE TimePasses \/ Prune
  BY <1>3 DEF TimePasses, Prune, history, CurrentMatchWasTold
<1>4. CASE UNCHANGED <<server, history>>
  BY <1>4 DEF server, history, CurrentMatchWasTold
<1>. QED
  BY <1>1, <1>2, <1>3, <1>4, StepCases

(* The match id kept for a user is of a match the user was told of last,   *)
(* so a kill that names it is never of somebody else's match               *)
(* (handleMessage and handleKillMessage's currentMatchID).                 *)
THEOREM CurrentCorrect == Spec => []CurrentMatchWasTold
<1>1. Init => CurrentMatchWasTold
  BY DEF Init, CurrentMatchWasTold
<1>2. (PunchInv /\ CurrentMatchWasTold) /\ [Next]_vars => (PunchInv /\ CurrentMatchWasTold)'
  BY PunchStep, CurrentStep
<1>. QED
  BY <1>1, <1>2, PunchInit, PTL DEF Spec
-----------------------------------------------------------------------------
LEMMA LatestStep ==
  ASSUME PunchInv, EndpointsAreLatest, [Next]_vars
  PROVE  EndpointsAreLatest'
<1>1. ASSUME NEW d \in net, ~d.kill, Register(d), UNCHANGED net
      PROVE  EndpointsAreLatest'
  <2> DEFINE a == d.uid
             b == d.peerUid
             waiting == Registered(users, d)
  <2>1. a \in Users
    BY <1>1 DEF PunchInv, TypeOK, Punch, Kill
  <2>2. seen' = [seen EXCEPT ![a] = d.from] /\ activePeers' = Registered(activePeers, d)
    BY <1>1 DEF Register
  <2>3. \A u \in Users :
          /\ users'[u] # None => users'[u] = waiting[u]
          /\ waiting[u] = IF u = a THEN [at |-> d.from, stale |-> FALSE] ELSE users[u]
    BY <1>1 DEF Register, Registered, LeaveWaiting, PunchInv, TypeOK
  <2>4. \A u \in Users :
          activePeers'[u] = IF u = a THEN [at |-> d.from, stale |-> FALSE] ELSE activePeers[u]
    BY <2>2 DEF Registered, PunchInv, TypeOK
  <2>5. \A u \in Users : seen'[u] = IF u = a THEN d.from ELSE seen[u]
    BY <2>2 DEF PunchInv, TypeOK
  <2>. QED
    BY <2>3, <2>4, <2>5 DEF EndpointsAreLatest
<1>2. ASSUME NEW d \in net, HandleKill(d)
      PROVE  EndpointsAreLatest'
  <2>1. users' = users /\ seen' = seen
    BY <1>2 DEF HandleKill
  <2>2. \A u \in Users : activePeers'[u] \in {activePeers[u], None}
    BY <1>2 DEF HandleKill
  <2>. QED
    BY <2>1, <2>2 DEF EndpointsAreLatest
<1>3. CASE TimePasses
  <2>1. ASSUME NEW peers, NEW u \in Users, peers[u] # None, peers[u] \in PeerRecord
        PROVE  Aged(peers)[u].at = peers[u].at
    BY <2>1 DEF Aged, PeerRecord
  <2>2. \A u \in Users : /\ users'[u] # None => users[u] # None
                         /\ activePeers'[u] # None => activePeers[u] # None
    BY <1>3 DEF TimePasses, Aged
  <2>3. /\ seen' = seen
        /\ \A u \in Users : /\ users[u] # None => users'[u].at = users[u].at
                            /\ activePeers[u] # None => activePeers'[u].at = activePeers[u].at
    BY <1>3, <2>1 DEF TimePasses, history, PunchInv, TypeOK
  <2>. QED
    BY <2>2, <2>3 DEF EndpointsAreLatest
<1>4. CASE Prune
  BY <1>4 DEF Prune, Recent, EndpointsAreLatest
<1>5. CASE UNCHANGED <<server, history>>
  BY <1>5 DEF server, history, EndpointsAreLatest
<1>. QED
  BY <1>1, <1>2, <1>3, <1>4, <1>5, StepCases

(* An endpoint the server gives to the opponent, or sends a kill to, is    *)
(* the one of the peer's last registration (the entries that handleMessage *)
(* overwrites).                                                            *)
THEOREM EndpointsCorrect == Spec => []EndpointsAreLatest
<1>1. Init => EndpointsAreLatest
  BY DEF Init, EndpointsAreLatest
<1>2. (PunchInv /\ EndpointsAreLatest) /\ [Next]_vars => (PunchInv /\ EndpointsAreLatest)'
  BY PunchStep, LatestStep
<1>. QED
  BY <1>1, <1>2, PunchInit, PTL DEF Spec
-----------------------------------------------------------------------------
(* An introduction names the user's match and the other user of it.        *)
NamesItsPair(u) ==
  told[u] # None /\ ~told[u].kill =>
    /\ told[u].matchId \in MatchIds
    /\ pairing[told[u].matchId] = {u, told[u].peer}
    /\ told[u].peer # u

IntroInv == \A u \in Users : NamesItsPair(u)

(* Two users who were introduced under one match id were introduced to     *)
(* each other, and nobody else was: unlike a kill notice (see              *)
(* KillNamesItsMatch), an introduction is never of a stale pair            *)
(* (handleMessage, which reads both entries and sends both payloads in one *)
(* hold of the mutex).                                                     *)
IntroductionsAgree ==
  \A u, v \in Users :
    /\ u # v
    /\ told[u] # None /\ told[v] # None /\ ~told[u].kill /\ ~told[v].kill
    /\ told[u].matchId = told[v].matchId
    => told[u].peer = v /\ told[v].peer = u

LEMMA IntroStep ==
  ASSUME PunchInv, IntroInv, [Next]_vars
  PROVE  IntroInv'
<1>1. ASSUME NEW d \in net, ~d.kill, Register(d), UNCHANGED net
      PROVE  IntroInv'
  <2> DEFINE a == d.uid
             b == d.peerUid
  <2>1. a \in Users /\ b \in Users /\ a # b
    BY <1>1 DEF PunchInv, TypeOK, OfTwo, Punch, Kill
  <2>2. CASE UNCHANGED <<told, pairing>>
    BY <2>2 DEF IntroInv, NamesItsPair
  <2>3. ASSUME NEW m \in MatchIds, Unused(m),
               pairing' = [pairing EXCEPT ![m] = {a, b}],
               told' = [told EXCEPT ![a] = [kill |-> FALSE, peer |-> b, matchId |-> m],
                                    ![b] = [kill |-> FALSE, peer |-> a, matchId |-> m]]
        PROVE  IntroInv'
    <3>. SUFFICES ASSUME NEW u \in Users
                  PROVE  NamesItsPair(u)'
      BY DEF IntroInv
    <3>1. CASE u \in {a, b}
      BY <2>1, <2>3, <3>1 DEF NamesItsPair, PunchInv, TypeOK
    <3>2. CASE u \notin {a, b}
      <4>1. told'[u] = told[u]
        BY <2>3, <3>2 DEF PunchInv, TypeOK
      <4>2. \A k \in MatchIds : pairing[k] # {} => pairing'[k] = pairing[k]
        BY <2>3 DEF Unused, PunchInv, TypeOK
      <4>. QED
        BY <4>1, <4>2 DEF IntroInv, NamesItsPair
    <3>. QED
      BY <3>1, <3>2
  <2>. QED
    BY <1>1, <2>2, <2>3 DEF Register
<1>2. ASSUME NEW d \in net, d.kill, HandleKill(d)
      PROVE  IntroInv'
  <2>1. pairing' = pairing
    BY <1>2 DEF HandleKill
  <2>2. \A u \in Users : told'[u] = told[u] \/ (told'[u] # None => told'[u].kill)
    BY <1>2 DEF HandleKill, PunchInv, TypeOK
  <2>. QED
    BY <2>1, <2>2 DEF IntroInv, NamesItsPair
<1>3. CASE TimePasses \/ Prune
  BY <1>3 DEF TimePasses, Prune, history, IntroInv, NamesItsPair
<1>4. CASE UNCHANGED <<server, history>>
  BY <1>4 DEF server, history, IntroInv, NamesItsPair
<1>. QED
  BY <1>1, <1>2, <1>3, <1>4, StepCases

THEOREM IntroductionsCorrect == Spec => []IntroductionsAgree
<1>1. Init => IntroInv
  BY DEF Init, IntroInv, NamesItsPair
<1>2. (PunchInv /\ IntroInv) /\ [Next]_vars => (PunchInv /\ IntroInv)'
  BY PunchStep, IntroStep
<1>3. ASSUME IntroInv PROVE IntroductionsAgree
  <2>. SUFFICES ASSUME NEW u \in Users, NEW v \in Users, u # v, told[u] # None, told[v] # None,
                       ~told[u].kill, ~told[v].kill, told[u].matchId = told[v].matchId
                PROVE  told[u].peer = v /\ told[v].peer = u
    BY DEF IntroductionsAgree
  <2>1. {u, told[u].peer} = {v, told[v].peer}
    BY <1>3 DEF IntroInv, NamesItsPair
  <2>. QED
    BY <2>1
<1>. QED
  BY <1>1, <1>2, <1>3, PunchInit, PTL DEF Spec
=============================================================================
