--------------------------- MODULE HeartbeatProofs ---------------------------
(***************************************************************************)
(* Theorems about Heartbeat, for every value of its constants: the typing, *)
(* what the two marks of a connection have to do with each other, what a   *)
(* tick therefore ends, that all promises of SignalServer hold with the    *)
(* ticks, and that the match of a player whose connection is lost ends.    *)
(***************************************************************************)
EXTENDS Heartbeat, SignalListProofs

USE DEF Optional

(* The composition is SignalServer but for the ticks, which drop several   *)
(* connections at once.                                                    *)
LEMMA StepOrTick == [HNext]_allVars => [Next]_vars \/ Tick
<1> SUFFICES ASSUME [HNext]_allVars, ~Tick, ~UNCHANGED vars
             PROVE  Next
  OBVIOUS
<1>1. HNext
  BY DEF allVars
<1>2. ASSUME NEW s \in Sockets,
             HConnect(s) \/ HDrop(s) \/ HClose(s) \/ Vanish(s) \/ HJoin(s) \/ HMessage(s) \/ Pong(s)
      PROVE  SocketStep(s)
  <2>1. CASE HConnect(s) \/ HDrop(s) \/ HClose(s) \/ HJoin(s)
    BY <2>1 DEF HConnect, HDrop, HClose, HJoin, SocketStep
  <2>2. CASE Vanish(s) \/ Pong(s)
    BY <2>2 DEF Vanish, Pong
  <2>3. CASE HMessage(s)
    BY <2>3 DEF HMessage, Message, SocketStep
  <2>. QED
    BY <1>2, <2>1, <2>2, <2>3
<1>. QED
  BY <1>1, <1>2 DEF HNext, HGeoDone, Apart, Next

(* What a tick leaves alone, and what it does to the connections. *)
LEMMA TickKeeps ==
  Tick => /\ UNCHANGED <<wsUid, connectedUsers, activeMatches, shown, lobbies, openLobbies,
                         lobbyMeta, lobbyTimeouts, userLobby, geo, adrift>>
          /\ gone' \subseteq gone
BY DEF Tick, presence, lobbyVars, Marked

LEMMA TickType == TypeOK /\ Tick => TypeOK'
<1> SUFFICES ASSUME TypeOK, Tick
             PROVE  TypeOK'
  OBVIOUS
<1>1. sock' \in [Sockets -> {"closed", "open", "closing"}]
  BY DEF TypeOK, Tick
<1>. QED
  BY <1>1, TickKeeps DEF TypeOK
-----------------------------------------------------------------------------
LEMMA CappedType ==
  ASSUME NEW top \in Nat, NEW n \in 0 .. top
  PROVE  Capped(n + 1, top) \in 0 .. top
BY DEF Capped

LEMMA BeatInit == HInit => HTypeOK
<1> SUFFICES ASSUME HInit
             PROVE  HTypeOK
  OBVIOUS
<1>1. TypeOK
  BY InitType DEF HInit
<1>. QED
  BY <1>1, ThresholdAssumption DEF HInit, HTypeOK

(* The ages: what resets them and what starts them keeps their type. *)
LEMMA AgeType ==
  ASSUME HTypeOK,
         \/ NewEntriesAreFresh
         \/ \E u \in Users : Refreshed(u)
         \/ UNCHANGED age
  PROVE  age' \in [Users -> 0 .. Threshold]
BY ThresholdAssumption DEF HTypeOK, NewEntriesAreFresh, Refreshed

(* The marks: of a connection that was heard, of one that has ended. *)
LEMMA MarkType ==
  ASSUME HTypeOK,
         \/ \E s \in Sockets : Heard(s) /\ gone' \subseteq gone
         \/ \E s \in Sockets : Marked({s}, isAlive, silence)
         \/ UNCHANGED <<isAlive, gone, silence>>
  PROVE  /\ isAlive' \in [Sockets -> BOOLEAN] /\ gone' \subseteq Sockets
         /\ silence' \in [Sockets -> 0 .. 2]
<1>1. CASE \E s \in Sockets : Heard(s) /\ gone' \subseteq gone
  BY <1>1 DEF HTypeOK, Heard
<1>2. CASE \E s \in Sockets : Marked({s}, isAlive, silence)
  BY <1>2 DEF HTypeOK, Marked
<1>3. CASE UNCHANGED <<isAlive, gone, silence>>
  BY <1>3 DEF HTypeOK
<1>. QED
  BY <1>1, <1>2, <1>3

LEMMA TickMarkType ==
  ASSUME HTypeOK, Tick
  PROVE  /\ isAlive' \in [Sockets -> BOOLEAN] /\ gone' \subseteq Sockets
         /\ silence' \in [Sockets -> 0 .. 2] /\ age' \in [Users -> 0 .. Threshold]
<1>1. \A s \in Sockets : Capped(silence[s] + 1, 2) \in 0 .. 2
  BY CappedType DEF HTypeOK
<1>2. \A u \in Users : Capped(age[u] + 1, Threshold) \in 0 .. Threshold
  BY CappedType, ThresholdAssumption DEF HTypeOK
<1>3. age' \in [Users -> 0 .. Threshold]
  BY <1>2, ThresholdAssumption DEF Tick
<1>4. gone' \subseteq Sockets
  BY TickKeeps DEF HTypeOK
<1>5. silence' \in [Sockets -> 0 .. 2]
  BY <1>1 DEF Tick, Marked
<1>6. isAlive' \in [Sockets -> BOOLEAN]
  BY DEF HTypeOK, Tick, Marked, Pinged
<1>. QED
  BY <1>3, <1>4, <1>5, <1>6

LEMMA BeatType == HTypeOK /\ [HNext]_allVars => HTypeOK'
<1> SUFFICES ASSUME HTypeOK, [HNext]_allVars
             PROVE  HTypeOK'
  OBVIOUS
<1>1. TypeOK'
  BY StepOrTick, NextType, TickType DEF HTypeOK
<1>2. CASE Tick
  BY <1>1, <1>2, TickMarkType DEF HTypeOK
<1>3. ASSUME NEW s \in Sockets,
             HConnect(s) \/ HDrop(s) \/ HClose(s) \/ Vanish(s) \/ HJoin(s) \/ HMessage(s) \/ Pong(s)
      PROVE  HTypeOK'
  <2>1. \/ NewEntriesAreFresh
        \/ \E u \in Users : Refreshed(u)
        \/ UNCHANGED age
    <3>1. CASE HJoin(s)
      BY <3>1, AccountAssumption DEF HJoin
    <3>2. CASE Pong(s)
      BY <3>2 DEF Pong, HTypeOK, TypeOK
    <3>. QED
      BY <1>3, <3>1, <3>2 DEF HConnect, HDrop, HClose, Vanish, HMessage
  <2>2. CASE Vanish(s)
    BY <1>1, <2>1, <2>2, AgeType DEF Vanish, HTypeOK
  <2>3. CASE ~Vanish(s)
    <3>1. \/ Heard(s) /\ gone' \subseteq gone
          \/ Marked({s}, isAlive, silence)
          \/ UNCHANGED <<isAlive, gone, silence>>
      BY <1>3, <2>3 DEF HConnect, HDrop, HClose, HJoin, HMessage, Pong
    <3>. QED
      BY <1>1, <2>1, <3>1, AgeType, MarkType DEF HTypeOK
  <2>. QED
    BY <2>2, <2>3
<1>4. CASE \E g \in Lookups : HGeoDone(g)
  <2>1. \E u \in Users : Refreshed(u)
    BY <1>4 DEF HGeoDone, GeoDone, HTypeOK, TypeOK, Lookup
  <2>. QED
    BY <1>1, <1>4, <2>1, AgeType, MarkType DEF HGeoDone, HTypeOK
<1>5. CASE UNCHANGED beat
  BY <1>1, <1>5 DEF beat, HTypeOK
<1>. QED
  BY <1>2, <1>3, <1>4, <1>5 DEF HNext, Apart, allVars

(* The entries, the lobbies and the matches of the server, its timers and  *)
(* the heartbeat's marks and ages are well typed at all times.             *)
THEOREM HTypeCorrect == HSpec => []HTypeOK
BY BeatInit, BeatType, PTL DEF HSpec
-----------------------------------------------------------------------------
(* Why the elapsed check never decides: a mark is set by the join and the  *)
(* pongs only, which refresh the entry too, and every tick takes all the   *)
(* marks away before it lets the entries age.                              *)
AliveIsFresh ==
  \A s \in Sockets : isAlive[s] =>
    /\ sock[s] = "open"
    /\ wsUid[s] # Undefined /\ Connected(wsUid[s]) => age[wsUid[s]] = 0

(* A connection that is closed carries no uid. *)
ClosedIsNobody == \A s \in Sockets : sock[s] = "closed" => wsUid[s] = Undefined

(* A mark is missing exactly while the peer has been silent for a tick.    *)
MarkedUnlessSilent ==
  \A s \in Sockets : sock[s] = "open" => silence[s] <= 1 /\ (isAlive[s] <=> silence[s] = 0)

BeatInv == AliveIsFresh /\ ClosedIsNobody /\ MarkedUnlessSilent

(* A step that leaves the connections and the marks as they are, and makes *)
(* only entries that are fresh.                                            *)
LEMMA QuietBeat ==
  ASSUME HTypeOK, BeatInv, UNCHANGED <<sock, wsUid, isAlive, silence>>,
         \A u \in Users : Connected(u)' => age'[u] = 0 \/ (Connected(u) /\ age'[u] = age[u])
  PROVE  BeatInv'
<1>1. AliveIsFresh'
  BY DEF BeatInv, AliveIsFresh, HTypeOK, TypeOK
<1>. QED
  BY <1>1 DEF BeatInv, ClosedIsNobody, MarkedUnlessSilent

(* Entries that are made afresh. *)
LEMMA FreshEntries ==
  ASSUME NewEntriesAreFresh
  PROVE  \A u \in Users : Connected(u)' => age'[u] = 0 \/ (Connected(u) /\ age'[u] = age[u])
BY DEF NewEntriesAreFresh

(* A message other than a join changes no connection. *)
LEMMA MessageSockets ==
  ASSUME NEW s \in Sockets, Message(s)
  PROVE  UNCHANGED <<sock, wsUid>>
BY DEF Message, UpdateSocketState, CreateLobby, ChangeLobby, MoveTo, RequestMatch,
       UserDisconnect, MatchEnd, MatchStatus, EndMatch

LEMMA TickBeat ==
  ASSUME HTypeOK, BeatInv, Tick
  PROVE  BeatInv'
<1> DEFINE opened == {s \in Sockets : sock[s] = "open"}
<1>1. PICK broken \in SUBSET (gone \cap opened) :
        LET ended == {s \in opened : Silent(s)} \cup broken
        IN  /\ sock' = [s \in Sockets |-> IF s \in ended THEN "closing" ELSE sock[s]]
            /\ Marked(ended, Pinged(opened),
                      [s \in Sockets |-> IF s \in opened THEN Capped(silence[s] + 1, 2) ELSE 0])
  BY DEF Tick
<1> DEFINE ended == {s \in opened : Silent(s)} \cup broken
<1>2. \A s \in Sockets : ~isAlive'[s]
  BY <1>1 DEF Marked, Pinged, BeatInv, AliveIsFresh
<1>3. ASSUME NEW s \in Sockets, sock'[s] = "open"
      PROVE  silence'[s] = 1
  <2>1. sock[s] = "open" /\ s \notin ended
    BY <1>1, <1>3
  <2>2. isAlive[s]
    BY <2>1 DEF Silent
  <2>3. silence[s] = 0
    BY <2>1, <2>2 DEF BeatInv, MarkedUnlessSilent
  <2>. QED
    BY <1>1, <2>1, <2>3 DEF Marked, Capped
<1>4. ClosedIsNobody'
  BY <1>1, TickKeeps DEF BeatInv, ClosedIsNobody
<1>. QED
  BY <1>2, <1>3, <1>4 DEF BeatInv, AliveIsFresh, MarkedUnlessSilent

LEMMA SocketBeat ==
  ASSUME HTypeOK, BeatInv, NEW s \in Sockets,
         HConnect(s) \/ HDrop(s) \/ HClose(s) \/ Vanish(s) \/ HJoin(s) \/ HMessage(s) \/ Pong(s)
  PROVE  BeatInv'
<1> USE DEF BeatInv, HTypeOK, TypeOK
<1>1. CASE HConnect(s)
  <2>1. /\ sock' = [sock EXCEPT ![s] = "open"] /\ wsUid[s] = Undefined
        /\ isAlive' = [isAlive EXCEPT ![s] = TRUE] /\ silence' = [silence EXCEPT ![s] = 0]
        /\ UNCHANGED <<age, wsUid, connectedUsers>>
    BY <1>1 DEF HConnect, Connect, Heard, presence, ClosedIsNobody
  <2>. QED
    BY <2>1 DEF AliveIsFresh, ClosedIsNobody, MarkedUnlessSilent, Connected
<1>2. CASE HDrop(s)
  <2>1. /\ sock' = [sock EXCEPT ![s] = "closing"]
        /\ isAlive' = [t \in Sockets |-> isAlive[t] /\ t # s]
        /\ silence' = [t \in Sockets |-> IF t = s THEN 0 ELSE silence[t]]
        /\ UNCHANGED <<age, wsUid, connectedUsers>>
    BY <1>2 DEF HDrop, Drop, Marked, presence
  <2>. QED
    BY <2>1 DEF AliveIsFresh, ClosedIsNobody, MarkedUnlessSilent, Connected
<1>3. CASE HClose(s)
  <2>1. /\ sock[s] = "closing" /\ sock' = [sock EXCEPT ![s] = "closed"]
        /\ wsUid' = [wsUid EXCEPT ![s] = Undefined] /\ UNCHANGED <<isAlive, silence>>
    BY <1>3 DEF HClose, Close
  <2>2. \A u \in Users : Connected(u)' => age'[u] = 0 \/ (Connected(u) /\ age'[u] = age[u])
    BY <1>3, FreshEntries DEF HClose
  <2>. QED
    BY <2>1, <2>2 DEF AliveIsFresh, ClosedIsNobody, MarkedUnlessSilent
<1>4. CASE Vanish(s)
  BY <1>4, QuietBeat DEF Vanish, vars, Connected
<1>5. CASE HJoin(s)
  <2>1. /\ Account[s] \in Users /\ sock[s] = "open" /\ UNCHANGED sock
        /\ wsUid' = [wsUid EXCEPT ![s] = Account[s]]
        /\ isAlive' = [isAlive EXCEPT ![s] = TRUE] /\ silence' = [silence EXCEPT ![s] = 0]
        /\ age' = [age EXCEPT ![Account[s]] = 0]
        /\ \A u \in Users : u # Account[s] => connectedUsers'[u] = connectedUsers[u]
    BY <1>5, AccountAssumption DEF HJoin, Join, Heard, Refreshed
  <2>. QED
    BY <2>1 DEF AliveIsFresh, ClosedIsNobody, MarkedUnlessSilent, Connected
<1>6. CASE HMessage(s)
  BY <1>6, QuietBeat, FreshEntries, MessageSockets DEF HMessage
<1>7. CASE Pong(s)
  <2>1. /\ sock[s] = "open" /\ UNCHANGED <<sock, wsUid, connectedUsers>>
        /\ isAlive' = [isAlive EXCEPT ![s] = TRUE] /\ silence' = [silence EXCEPT ![s] = 0]
        /\ IF wsUid[s] # Undefined /\ Connected(wsUid[s])
             THEN age' = [age EXCEPT ![wsUid[s]] = 0] ELSE UNCHANGED age
    BY <1>7 DEF Pong, Heard, Refreshed, vars
  <2>. QED
    BY <2>1 DEF AliveIsFresh, ClosedIsNobody, MarkedUnlessSilent, Connected
<1>. QED
  BY <1>1, <1>2, <1>3, <1>4, <1>5, <1>6, <1>7

LEMMA BeatStep == HTypeOK /\ BeatInv /\ [HNext]_allVars => BeatInv'
<1> SUFFICES ASSUME HTypeOK, BeatInv, [HNext]_allVars
             PROVE  BeatInv'
  OBVIOUS
<1>1. ASSUME NEW s \in Sockets,
             HConnect(s) \/ HDrop(s) \/ HClose(s) \/ Vanish(s) \/ HJoin(s) \/ HMessage(s) \/ Pong(s)
      PROVE  BeatInv'
  BY <1>1, SocketBeat
<1>2. ASSUME NEW g \in Lookups, HGeoDone(g)
      PROVE  BeatInv'
  <2>1. /\ geo[g].uid \in Users /\ UNCHANGED <<sock, wsUid, isAlive, silence>>
        /\ age' = [age EXCEPT ![geo[g].uid] = 0]
        /\ \A u \in Users : u # geo[g].uid => connectedUsers'[u] = connectedUsers[u]
    BY <1>2 DEF HGeoDone, GeoDone, Refreshed, HTypeOK, TypeOK, Lookup
  <2>2. \A u \in Users : Connected(u)' => age'[u] = 0 \/ (Connected(u) /\ age'[u] = age[u])
    BY <2>1 DEF HTypeOK, Connected
  <2>. QED
    BY <2>1, <2>2, QuietBeat
<1>3. CASE UNCHANGED <<sock, wsUid, connectedUsers, beat>>
  BY <1>3, QuietBeat DEF beat, Connected
<1>4. CASE \/ \E u \in Users : InternalWinStreak(u) /\ UNCHANGED beat
           \/ \E g \in Lookups : GeoFail(g) /\ UNCHANGED beat
           \/ \E l \in Lobbies : LobbyTimeout(l) /\ UNCHANGED beat
           \/ UNCHANGED allVars
  BY <1>3, <1>4 DEF InternalWinStreak, GeoFail, LobbyTimeout, presence, allVars, vars
<1>5. CASE Tick
  BY <1>5, TickBeat
<1>. QED
  BY <1>1, <1>2, <1>4, <1>5 DEF HNext, Apart

LEMMA BeatInvariant == HSpec => [](HTypeOK /\ BeatInv)
<1>1. HInit => BeatInv
  BY DEF HInit, Init, BeatInv, AliveIsFresh, ClosedIsNobody, MarkedUnlessSilent
<1>. QED
  BY <1>1, BeatInit, BeatType, BeatStep, PTL DEF HSpec

(* A peer that falls silent is found by the first tick that did not hear   *)
(* of it: no connection stays open for a second one.                       *)
THEOREM SilentCorrect == HSpec => []SilentAreFound
<1>1. BeatInv => SilentAreFound
  BY DEF BeatInv, MarkedUnlessSilent, SilentAreFound
<1>. QED
  BY <1>1, BeatInvariant, PTL

(* The terminateThreshold never makes a difference: whom it would end has  *)
(* lost the mark already, whatever other connections did to the entry.     *)
THEOREM ElapsedCorrect == HSpec => []ElapsedNeverDecides
<1>1. BeatInv => ElapsedNeverDecides
  BY ThresholdAssumption DEF BeatInv, AliveIsFresh, ElapsedNeverDecides, TooOld
<1>. QED
  BY <1>1, BeatInvariant, PTL

(* And so a tick ends only connections whose peer did not answer the ping  *)
(* before, or could not be reached.                                        *)
THEOREM AnsweringCorrect == HSpec => AnsweringAreKept
<1>1. HTypeOK /\ BeatInv /\ [HNext]_allVars =>
        [\A s \in Sockets : Tick /\ sock[s] = "open" /\ sock'[s] # "open" =>
           silence[s] > 0 \/ s \in gone]_allVars
  <2> SUFFICES ASSUME HTypeOK, BeatInv, NEW s \in Sockets, Tick,
                      sock[s] = "open", sock'[s] # "open", s \notin gone
               PROVE  silence[s] > 0
    OBVIOUS
  <2>1. Silent(s)
    BY DEF Tick, HTypeOK, TypeOK
  <2>2. ~isAlive[s]
    BY <2>1, ThresholdAssumption DEF Silent, TooOld, BeatInv, AliveIsFresh
  <2>. QED
    BY <2>2 DEF BeatInv, MarkedUnlessSilent, HTypeOK
<1>. QED
  BY <1>1, BeatInvariant, PTL DEF HSpec, AnsweringAreKept
-----------------------------------------------------------------------------
(* The rest of SignalServer in the composition.  A tick is no step of      *)
(* SignalServer, since it drops several connections at once; but it drops  *)
(* them without closing any, and leaves everything else as it is.          *)
LEMMA TickSockets ==
  TypeOK /\ Tick => \A s \in Sockets : sock'[s] = "closed" <=> sock[s] = "closed"
BY DEF Tick, TypeOK

LEMMA TickQuiet ==
  TypeOK /\ Tick => /\ LobbyInv => LobbyInv'
                    /\ MatchesAgree => MatchesAgree'
                    /\ OwnInv => OwnInv'
                    /\ ListsAreCurrent => ListsAreCurrent'
<1> SUFFICES ASSUME TypeOK, Tick
             PROVE  /\ LobbyInv => LobbyInv'
                    /\ MatchesAgree => MatchesAgree'
                    /\ OwnInv => OwnInv'
                    /\ ListsAreCurrent => ListsAreCurrent'
  OBVIOUS
<1>1. LobbyInv => LobbyInv'
  BY TickKeeps DEF LobbyInv, DepartedLeavesNoTrace, IdleLobbiesAreTimed,
                   ClosedLobbyLeavesNothing, Connected
<1>2. MatchesAgree => MatchesAgree'
  BY TickKeeps DEF MatchesAgree, Plays
<1>3. SocketsAreHonest => SocketsAreHonest'
  BY TickKeeps, TickSockets DEF SocketsAreHonest
<1>4. LookupsAreOwned => LookupsAreOwned'
  BY TickKeeps, TickSockets DEF LookupsAreOwned, TypeOK, Lookup, Entry
<1>5. EntriesAreOwned => EntriesAreOwned'
  BY TickKeeps, TickSockets DEF EntriesAreOwned, Connected, TypeOK, Entry
<1>6. ListsAreCurrent => ListsAreCurrent'
  BY TickKeeps DEF ListsAreCurrent, Plays
<1>. QED
  BY <1>1, <1>2, <1>3, <1>4, <1>5, <1>6 DEF OwnInv

LEMMA PresenceInvariant ==
  HSpec => [](TypeOK /\ LobbyInv /\ MatchesAgree /\ OwnInv /\ ListsAreCurrent)
<1>1. HInit => TypeOK /\ LobbyInv /\ MatchesAgree /\ OwnInv /\ ListsAreCurrent
  <2> SUFFICES ASSUME HInit
               PROVE  TypeOK /\ LobbyInv /\ MatchesAgree /\ OwnInv /\ ListsAreCurrent
    OBVIOUS
  <2>1. TypeOK /\ LobbyInv
    BY InitType, LobbyInit DEF HInit
  <2>2. MatchesAgree /\ ListsAreCurrent
    BY UndefinedIsNone DEF HInit, Init, MatchesAgree, ListsAreCurrent, Plays, CurrentMatch
  <2>3. OwnInv
    BY DEF HInit, Init, OwnInv, SocketsAreHonest, LookupsAreOwned, EntriesAreOwned, Connected
  <2>. QED
    BY <2>1, <2>2, <2>3
<1>2. TypeOK /\ LobbyInv /\ MatchesAgree /\ OwnInv /\ ListsAreCurrent /\ [HNext]_allVars
        => (TypeOK /\ LobbyInv /\ MatchesAgree /\ OwnInv /\ ListsAreCurrent)'
  <2> SUFFICES ASSUME TypeOK, LobbyInv, MatchesAgree, OwnInv, ListsAreCurrent, [HNext]_allVars
               PROVE  (TypeOK /\ LobbyInv /\ MatchesAgree /\ OwnInv /\ ListsAreCurrent)'
    OBVIOUS
  <2>1. CASE [Next]_vars
    <3>1. TypeOK' /\ LobbyInv' /\ MatchesAgree' /\ OwnInv'
      BY <2>1, NextType, NextLobby, NextMatches, NextOwn
    <3>. QED
      BY <2>1, <3>1, NextLists DEF ListInv
  <2>2. CASE Tick
    BY <2>2, TickType, TickQuiet
  <2>. QED
    BY <2>1, <2>2, StepOrTick
<1>. QED
  BY <1>1, <1>2, PTL DEF HSpec

(* Terminating silent connections breaks nothing that SignalServer keeps:  *)
(* all its invariants hold in the composition.                             *)
THEOREM PresenceCorrect ==
  HSpec => []( /\ DepartedLeavesNoTrace /\ IdleLobbiesAreTimed /\ ClosedLobbyLeavesNothing
               /\ MatchesAgree /\ EntriesAreOwned /\ ListsAreCurrent )
BY PresenceInvariant, PTL DEF LobbyInv, OwnInv

(* And so do its promises about steps: the registry implements Pairing,    *)
(* and an open lobby keeps its password.                                   *)
THEOREM PromisesCorrect == HSpec => KeepsPairing /\ PasswordKept
<1>1. HInit => Registry!Init
  BY DEF HInit, Init, Registry!Init
<1>2. TypeOK /\ MatchesAgree /\ [HNext]_allVars => [Registry!Next]_(Registry!vars)
  <2> SUFFICES ASSUME TypeOK, MatchesAgree, Tick
               PROVE  UNCHANGED Registry!vars
    BY StepOrTick, StepAsPromised
  <2>. QED
    BY TickKeeps DEF Registry!vars
<1>3. TypeOK /\ LobbyInv /\ [HNext]_allVars =>
        [\A l \in openLobbies \cap openLobbies' :
           lobbyMeta[l] # Undefined => lobbyMeta'[l] = lobbyMeta[l]]_vars
  <2> SUFFICES ASSUME TypeOK, LobbyInv, Tick
               PROVE  \A l \in openLobbies \cap openLobbies' : lobbyMeta'[l] = lobbyMeta[l]
    BY StepOrTick, PasswordStep
  <2>. QED
    BY TickKeeps
<1>. QED
  BY <1>1, <1>2, <1>3, PresenceInvariant, PTL
     DEF HSpec, KeepsPairing, Registry!Spec, PasswordKept

(* Whatever the ticks do, a lobby that everybody has left goes (the timer  *)
(* of removeUserFromAllLobbies).                                           *)
THEOREM AbandonedStillCorrect ==
  HSpec /\ (\A l \in Lobbies : TimerIsFair(l)) /\ []TimersCanFire => AbandonedLobbyCloses
<1> SUFFICES ASSUME NEW l \in Lobbies \ {DefaultLobby}
             PROVE  HSpec /\ (\A k \in Lobbies : TimerIsFair(k)) /\ []TimersCanFire =>
                      ((l \in openLobbies /\ lobbies[l] = {})
                         ~> (l \notin openLobbies \/ lobbies[l] # {}))
  BY DEF AbandonedLobbyCloses
<1>1. (\A k \in Lobbies : TimerIsFair(k)) => TimerIsFair(l)
  OBVIOUS
<1>. QED
  BY <1>1, PresenceInvariant, LobbyClosesInTime, PTL
-----------------------------------------------------------------------------
(* Lost players.  The connection of a lost player is gone or closing, and  *)
(* a tick, another tick and the close event end it one after the other.    *)
Doomed(s, u, m) == wsUid[s] = u /\ Plays(u, m) /\ u \notin adrift

Ended(u, m) == ~Plays(u, m) \/ u \in adrift

(* Nothing is received on a connection whose peer has gone. *)
LEMMA GoneConnection ==
  ASSUME HTypeOK, NEW s \in Sockets, sock[s] = "open", s \in gone, [HNext]_allVars
  PROVE  /\ wsUid'[s] = wsUid[s]
         /\ \/ sock'[s] = "closing"
            \/ sock'[s] = "open" /\ s \in gone' /\ (isAlive'[s] => isAlive[s])
<1> USE DEF HTypeOK, TypeOK
<1>1. ASSUME NEW t \in Sockets,
             HConnect(t) \/ HDrop(t) \/ HClose(t) \/ Vanish(t) \/ HJoin(t) \/ HMessage(t) \/ Pong(t)
      PROVE  /\ UNCHANGED sock[s] /\ UNCHANGED wsUid[s] /\ UNCHANGED isAlive[s]
             /\ s \in gone'
  <2>1. CASE HConnect(t)
    BY <2>1 DEF HConnect, Connect, Heard
  <2>2. CASE HDrop(t)
    BY <2>2 DEF HDrop, Drop, Marked
  <2>3. CASE HClose(t)
    BY <2>3 DEF HClose, Close
  <2>4. CASE Vanish(t)
    BY <2>4 DEF Vanish, vars
  <2>5. CASE HJoin(t)
    BY <2>5 DEF HJoin, Join, Heard
  <2>6. CASE HMessage(t)
    BY <2>6, MessageSockets DEF HMessage
  <2>7. CASE Pong(t)
    BY <2>7 DEF Pong, Heard, vars
  <2>. QED
    BY <1>1, <2>1, <2>2, <2>3, <2>4, <2>5, <2>6, <2>7
<1>2. CASE \E g \in Lookups : HGeoDone(g)
  BY <1>2 DEF HGeoDone, GeoDone
<1>3. CASE Apart /\ UNCHANGED beat
  BY <1>3 DEF Apart, beat, InternalWinStreak, LobbyTimeout, GeoFail
<1>4. CASE Tick
  BY <1>4 DEF Tick, Marked, Pinged
<1>5. CASE UNCHANGED allVars
  BY <1>5 DEF allVars, vars, beat
<1>. QED
  BY <1>1, <1>2, <1>3, <1>4, <1>5 DEF HNext

LEMMA ClosingConnection ==
  ASSUME HTypeOK, NEW s \in Sockets, sock[s] = "closing", [HNext]_allVars, ~HClose(s)
  PROVE  wsUid'[s] = wsUid[s] /\ sock'[s] = "closing"
<1> USE DEF HTypeOK, TypeOK
<1>1. ASSUME NEW t \in Sockets,
             HConnect(t) \/ HDrop(t) \/ HClose(t) \/ Vanish(t) \/ HJoin(t) \/ HMessage(t) \/ Pong(t)
      PROVE  wsUid'[s] = wsUid[s] /\ sock'[s] = "closing"
  <2>1. CASE HConnect(t) \/ HDrop(t)
    BY <2>1 DEF HConnect, Connect, HDrop, Drop
  <2>2. CASE HClose(t)
    BY <2>2 DEF HClose, Close
  <2>3. CASE Vanish(t) \/ Pong(t)
    BY <2>3 DEF Vanish, Pong, vars
  <2>4. CASE HJoin(t)
    BY <2>4 DEF HJoin, Join
  <2>5. CASE HMessage(t)
    BY <2>5, MessageSockets DEF HMessage
  <2>. QED
    BY <1>1, <2>1, <2>2, <2>3, <2>4, <2>5
<1>2. CASE \E g \in Lookups : HGeoDone(g)
  BY <1>2 DEF HGeoDone, GeoDone
<1>3. CASE Apart /\ UNCHANGED beat
  BY <1>3 DEF Apart, InternalWinStreak, LobbyTimeout, GeoFail
<1>4. CASE Tick
  BY <1>4 DEF Tick
<1>5. CASE UNCHANGED allVars
  BY <1>5 DEF allVars, vars
<1>. QED
  BY <1>1, <1>2, <1>3, <1>4, <1>5 DEF HNext

(* A tick ends a connection that has lost its mark, and takes it otherwise. *)
LEMMA TickFinds ==
  ASSUME HTypeOK, NEW s \in Sockets, sock[s] = "open", Tick
  PROVE  /\ ~isAlive'[s]
         /\ ~isAlive[s] => sock'[s] = "closing"
BY DEF HTypeOK, TypeOK, Tick, Marked, Pinged, Silent

(* The close event of a doomed connection ends the match. *)
LEMMA CloseEnds ==
  ASSUME TypeOK, MatchesAgree, NEW s \in Sockets, NEW u \in Users, NEW m \in MatchIds,
         Doomed(s, u, m), HClose(s)
  PROVE  Ended(u, m)'
<1>1. MatchesAgree'
  BY CloseMatches DEF HClose
<1>2. wsUid[s] = u /\ u # Undefined
  BY UndefinedIsNone DEF Doomed
<1>3. connectedUsers'[u] = Undefined
  <2> DEFINE r == ForceClose(MatchState, u)
  <2>1. MatchState.users \in Entries /\ r.users \in Entries
    BY ClosedMatchType DEF MatchState, TypeOK, Entries
  <2>2. connectedUsers' = [r.users EXCEPT ![u] = Undefined]
    BY <1>2 DEF HClose, Close, Departed
  <2> HIDE DEF r
  <2>. QED
    BY <2>1, <2>2 DEF Entries
<1>4. CurrentMatch(connectedUsers', u) # m
  BY <1>3, UndefinedIsNone DEF CurrentMatch
<1>. QED
  BY <1>1, <1>4 DEF MatchesAgree, Ended, Plays
-----------------------------------------------------------------------------
(* The interval can fire while there is a connection, and the close event  *)
(* of a closing one can arrive: these are the guards of the two actions,   *)
(* and the rest of them assignments that change something.  As above, what *)
(* is said of ENABLED is a hypothesis.                                     *)
AnyOpen == \E s \in Sockets : sock[s] = "open"

TickCanHappen == AnyOpen => ENABLED <<Tick>>_allVars

CloseCanArrive(s) == sock[s] = "closing" => ENABLED <<HClose(s)>>_allVars

StepsCanHappen == TickCanHappen /\ \A s \in Sockets : CloseCanArrive(s)

LEMMA DoomedEnds ==
  ASSUME NEW s \in Sockets, NEW u \in Users, NEW m \in MatchIds,
         [](HTypeOK /\ MatchesAgree), [][HNext]_allVars, []HFairness, []StepsCanHappen
  PROVE  (Doomed(s, u, m) /\ (sock[s] = "closing" \/ (sock[s] = "open" /\ s \in gone)))
            ~> Ended(u, m)
<1> DEFINE unmarked == Doomed(s, u, m) /\ sock[s] = "open" /\ s \in gone /\ ~isAlive[s]
           marked   == Doomed(s, u, m) /\ sock[s] = "open" /\ s \in gone /\ isAlive[s]
           closing  == Doomed(s, u, m) /\ sock[s] = "closing"
           ended    == Ended(u, m)
<1>1. HTypeOK /\ MatchesAgree /\ closing /\ [HNext]_allVars => closing' \/ ended'
  BY ClosingConnection, CloseEnds DEF Doomed, Ended, HTypeOK
<1>2. HTypeOK /\ MatchesAgree /\ closing /\ <<HClose(s)>>_allVars => ended'
  BY CloseEnds DEF HTypeOK
<1>3. HTypeOK /\ unmarked /\ [HNext]_allVars => unmarked' \/ closing' \/ ended'
  BY GoneConnection DEF Doomed, Ended, HTypeOK
<1>4. HTypeOK /\ unmarked /\ <<Tick>>_allVars => closing' \/ ended'
  BY TickFinds, TickKeeps DEF Doomed, Ended, Plays
<1>5. HTypeOK /\ marked /\ [HNext]_allVars => marked' \/ unmarked' \/ closing' \/ ended'
  BY GoneConnection DEF Doomed, Ended, HTypeOK
<1>6. HTypeOK /\ marked /\ [HNext]_allVars /\ <<Tick>>_allVars =>
        unmarked' \/ closing' \/ ended'
  BY GoneConnection, TickFinds DEF Doomed, Ended, HTypeOK
<1>7. (unmarked => AnyOpen) /\ (marked => AnyOpen)
  BY DEF AnyOpen
<1>8. HFairness => TickIsFair /\ HCloseIsFair(s)
  BY DEF HFairness
<1>9. StepsCanHappen => TickCanHappen /\ CloseCanArrive(s)
  BY DEF StepsCanHappen
<1>10. closing => sock[s] = "closing"
  OBVIOUS
<1>11. HTypeOK /\ Doomed(s, u, m) /\ (sock[s] = "closing" \/ (sock[s] = "open" /\ s \in gone))
         => unmarked \/ marked \/ closing
  OBVIOUS
<1> HIDE DEF unmarked, marked, closing, ended
<1>12. (unmarked \/ marked \/ closing) ~> ended
  BY <1>1, <1>2, <1>3, <1>4, <1>5, <1>6, <1>7, <1>8, <1>9, <1>10, PTL
     DEF TickIsFair, HCloseIsFair, TickCanHappen, CloseCanArrive
<1>. QED
  BY <1>11, <1>12, PTL DEF ended

(* A match one of whose players has lost the connection is closed, with or *)
(* without a close frame, whatever reconnects, joins and requests come in  *)
(* between: the connection that carries the player's uid is ended by two   *)
(* ticks at most, and its close event closes the match.  HFairness speaks  *)
(* of the rest of a behaviour, so []HFairness is the fairness of HFairSpec. *)
THEOREM LostCorrect == HSpec /\ []HFairness /\ []StepsCanHappen => MatchOfLostEnds
<1>1. ASSUME NEW u \in Users, NEW m \in MatchIds,
             [](HTypeOK /\ MatchesAgree), []EntriesAreOwned,
             [][HNext]_allVars, []HFairness, []StepsCanHappen
      PROVE  Lost(u, m) ~> Ended(u, m)
  <2> DEFINE doomed(s) ==
               Doomed(s, u, m) /\ (sock[s] = "closing" \/ (sock[s] = "open" /\ s \in gone))
  <2>1. ASSUME NEW s \in Sockets
        PROVE  doomed(s) => <>Ended(u, m)
    BY <1>1, DoomedEnds, PTL
  <2>2. TypeOK /\ EntriesAreOwned /\ Lost(u, m) => \E s \in Sockets : doomed(s)
    BY DEF TypeOK, EntriesAreOwned, Lost, Doomed, Connected, Entry
  <2>3. (\E s \in Sockets : doomed(s)) => <>Ended(u, m)
    <3> HIDE DEF doomed
    <3>. QED
      BY <2>1
  <2>4. HTypeOK => TypeOK
    BY DEF HTypeOK
  <2>. QED
    BY <1>1, <2>2, <2>3, <2>4, PTL
<1> SUFFICES ASSUME NEW u \in Users, NEW m \in MatchIds
             PROVE  HSpec /\ []HFairness /\ []StepsCanHappen =>
                      (Lost(u, m) ~> (~Plays(u, m) \/ u \in adrift))
  BY DEF MatchOfLostEnds
<1>2. OwnInv => EntriesAreOwned
  BY DEF OwnInv
<1>3. Ended(u, m) => ~Plays(u, m) \/ u \in adrift
  BY DEF Ended
<1>. QED
  BY <1>1, <1>2, <1>3, PresenceInvariant, HTypeCorrect, PTL DEF HSpec
=============================================================================
