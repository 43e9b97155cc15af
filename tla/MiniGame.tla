------------------------------ MODULE MiniGame ------------------------------
(***************************************************************************)
(* The rock-paper-scissors sessions of the websocket server                *)
(* (src/src/websocket-server/message-handler.ts): invitations, choices,    *)
(* their timers, and finalizeMiniGameSession, which awaits the rating      *)
(* request to the express server before it sends the result.               *)
(*                                                                         *)
(* Time is discrete.  A deadline is kept as the time left until it, and    *)
(* stops at the value after which nothing can tell it from an earlier one. *)
(* A session id is used for one session (randomUUID, or the uuid that the  *)
(* challenging client drew).  An operator whose name ends in Mutant or     *)
(* Mutant2 is the one after it with a plausible bug in it, and unused.     *)
(***************************************************************************)
EXTENDS Integers, Sequences

CONSTANTS
  Users,
  SessionIds,     \* the sessions of one behaviour (a bound)
  Muted,          \* <<a, b>>: a has muted b
  InviteWindow,   \* RPS_INVITE_WINDOW_MS
  ChoiceWindow,   \* RPS_CHOICE_WINDOW_MS
  Slack,          \* the 100 ms a timer is later than its deadline
  Cooldown,       \* RPS_COOLDOWN_MS
  None            \* no session, no choice, nobody

ASSUME WindowAssumption ==
  /\ InviteWindow \in Nat /\ ChoiceWindow \in Nat /\ Slack \in Nat \ {0} /\ Cooldown \in Nat
ASSUME NoneAssumption == None \notin Users \cup SessionIds \cup {"rock", "paper", "scissors"}

Choices  == {"rock", "paper", "scissors"}
Optional(S) == S \cup {None}
LongestWindow == IF InviteWindow > ChoiceWindow THEN InviteWindow ELSE ChoiceWindow

Session == [challengerId : Users, opponentId : Users, phase : {"invite", "active"},
            choices : [Users -> Optional(Choices)],
            expiresIn : (-Slack) .. LongestWindow,            \* expiresAt - Date.now()
            timeout : Optional(0 .. LongestWindow + Slack)]   \* until the timer fires

Result == [challengerId : Users, opponentId : Users, phase : {"invite", "active"},
           choices : [Users -> Optional(Choices)],
           reason : {"complete", "timeout", "declined"},
           outcome : {"win", "draw", "forfeit", "declined"},
           winnerUid : Optional(Users), loserUid : Optional(Users)]

ASSUME NoRecord == None \notin Int \cup Session

VARIABLES
  online,      \* the keys of connectedUsers
  sessions,    \* miniGameSessions
  pairIndex,   \* miniGamePairIndex
  cooldowns,   \* rpsChallengeCooldowns: the rest of the cooldown
  rating,      \* finalizations that await /mini-game/rps-result
  results      \* history: the mini-game-result messages sent for each session

vars == <<online, sessions, pairIndex, cooldowns, rating, results>>

PairKey(a, b) == {a, b}                 \* getPairKey: the same in both directions
Pairs == {{a, b} : a, b \in Users}

Live(id) == sessions[id] # None
Unused(id) == ~Live(id) /\ rating[id] = <<>> /\ results[id] = <<>>

Init ==
  /\ online = {}
  /\ sessions = [id \in SessionIds |-> None]
  /\ pairIndex = [k \in Pairs |-> None]
  /\ cooldowns = [d \in Users \X Users |-> 0]
  /\ rating = [id \in SessionIds |-> <<>>]
  /\ results = [id \in SessionIds |-> <<>>]
-----------------------------------------------------------------------------
(* evaluateRpsChoices, with RPS_RULES: what each choice beats. *)
Beats == [rock |-> "scissors", paper |-> "rock", scissors |-> "paper"]

(* Who wins: the challenger, the opponent or None; and how. *)
EvaluateMutant(c, o) ==                  \* one missing choice is a draw
  IF c = None \/ o = None \/ c = o
    THEN [winner |-> "none", outcome |-> "draw"]
    ELSE [winner |-> IF Beats[c] = o THEN "challenger" ELSE "opponent", outcome |-> "forfeit"]

Evaluate(c, o) ==
  CASE c = o                 -> [winner |-> "none", outcome |-> "draw"]
    [] c # None /\ o = None  -> [winner |-> "challenger", outcome |-> "forfeit"]
    [] c = None /\ o # None  -> [winner |-> "opponent", outcome |-> "forfeit"]
    [] OTHER -> [winner |-> IF Beats[c] = o THEN "challenger" ELSE "opponent",
                 outcome |-> "win"]

(* evaluateRpsChoices names a side, finalizeMiniGameSession its uid. *)
Other == [challenger |-> "opponent", opponent |-> "challenger", none |-> "none"]

PlayerMutant(s, side) == IF side = "none" THEN None ELSE side    \* the side, not the uid

Player(s, side) ==
  CASE side = "challenger" -> s.challengerId
    [] side = "opponent"   -> s.opponentId
    [] OTHER               -> None

(* The payload that finalizeMiniGameSession builds. *)
Verdict(s, reason) ==
  LET e == IF reason = "declined"
             THEN [winner |-> "none", outcome |-> "declined"]
             ELSE Evaluate(s.choices[s.challengerId], s.choices[s.opponentId])
  IN  [challengerId |-> s.challengerId, opponentId |-> s.opponentId, phase |-> s.phase,
       choices |-> s.choices, reason |-> reason,
       outcome |-> IF reason = "timeout" /\ s.phase = "invite" THEN "declined" ELSE e.outcome,
       winnerUid |-> Player(s, e.winner), loserUid |-> Player(s, Other[e.winner])]

(* finalizeMiniGameSession up to its await: the session, its timer and the *)
(* pair's entry go first, so nobody else can finalize it meanwhile.        *)
FinalizeMutant(id, s, reason) ==         \* the session is kept until the answer
  LET v == Verdict(s, reason)
  IN  /\ UNCHANGED <<sessions, pairIndex, cooldowns>>
      /\ IF v.winnerUid # None
           THEN rating' = [rating EXCEPT ![id] = Append(@, v)] /\ UNCHANGED results
           ELSE results' = [results EXCEPT ![id] = Append(@, v)] /\ UNCHANGED rating

FinalizeMutant2(id, s, reason) ==        \* the pair's entry is kept
  LET v == Verdict(s, reason)
  IN  /\ sessions' = [sessions EXCEPT ![id] = None]
      /\ cooldowns' = [cooldowns EXCEPT ![<<s.challengerId, s.opponentId>>] = Cooldown]
      /\ IF v.winnerUid # None
           THEN rating' = [rating EXCEPT ![id] = Append(@, v)] /\ UNCHANGED results
           ELSE results' = [results EXCEPT ![id] = Append(@, v)] /\ UNCHANGED rating
      /\ UNCHANGED pairIndex

Finalize(id, s, reason) ==
  LET v == Verdict(s, reason)
  IN  /\ sessions' = [sessions EXCEPT ![id] = None]
      /\ pairIndex' = [pairIndex EXCEPT ![PairKey(s.challengerId, s.opponentId)] = None]
      /\ cooldowns' = [cooldowns EXCEPT ![<<s.challengerId, s.opponentId>>] = Cooldown]
      /\ IF v.winnerUid # None
           THEN rating' = [rating EXCEPT ![id] = Append(@, v)] /\ UNCHANGED results
           ELSE results' = [results EXCEPT ![id] = Append(@, v)] /\ UNCHANGED rating

(* The rating request is answered or fails; either way the result is sent. *)
Rated(id) ==
  /\ rating[id] # <<>>
  /\ results' = [results EXCEPT ![id] = Append(@, Head(rating[id]))]
  /\ rating' = [rating EXCEPT ![id] = Tail(@)]
  /\ UNCHANGED <<online, sessions, pairIndex, cooldowns>>
-----------------------------------------------------------------------------
(* handleMiniGameChallenge.  A muted challenger, a pair that already has a *)
(* session and a direction that cools down are refused.                    *)
PendingMutant(a, b) ==                   \* a directional test
  \E id \in SessionIds :
    Live(id) /\ sessions[id].challengerId = a /\ sessions[id].opponentId = b

Pending(a, b) ==
  LET id == pairIndex[PairKey(a, b)] IN id # None /\ sessions[id] # None

NewSession(a, b) ==
  [challengerId |-> a, opponentId |-> b, phase |-> "invite",
   choices |-> [u \in Users |-> None],
   expiresIn |-> InviteWindow, timeout |-> InviteWindow + Slack]

ChallengeMutant(a, b, id) ==             \* the key of the other direction is tested
  /\ a # b /\ {a, b} \subseteq online
  /\ <<b, a>> \notin Muted
  /\ ~Pending(a, b)
  /\ cooldowns[<<b, a>>] = 0
  /\ Unused(id)
  /\ sessions' = [sessions EXCEPT ![id] = NewSession(a, b)]
  /\ pairIndex' = [pairIndex EXCEPT ![PairKey(a, b)] = id]
  /\ UNCHANGED <<online, cooldowns, rating, results>>

Challenge(a, b, id) ==
  /\ a # b /\ {a, b} \subseteq online
  /\ <<b, a>> \notin Muted
  /\ ~Pending(a, b)
  /\ cooldowns[<<a, b>>] = 0
  /\ Unused(id)
  /\ sessions' = [sessions EXCEPT ![id] = NewSession(a, b)]
  /\ pairIndex' = [pairIndex EXCEPT ![PairKey(a, b)] = id]
  /\ UNCHANGED <<online, cooldowns, rating, results>>

(* handleMiniGameAccept: only the opponent, only an invitation; an answer  *)
(* after the deadline that beats the timer ends the session.               *)
AcceptedMutant(s) ==                     \* the invitation's timer is left running
  [s EXCEPT !.phase = "active", !.expiresIn = ChoiceWindow]

AcceptedMutant2(s) ==                    \* the timer is cleared and not set again
  [s EXCEPT !.phase = "active", !.expiresIn = ChoiceWindow, !.timeout = None]

Accepted(s) ==
  [s EXCEPT !.phase = "active", !.expiresIn = ChoiceWindow, !.timeout = ChoiceWindow + Slack]

Accept(id, u) ==
  /\ Live(id)
  /\ u = sessions[id].opponentId
  /\ sessions[id].phase = "invite"
  /\ IF sessions[id].expiresIn < 0
       THEN Finalize(id, sessions[id], "timeout")
       ELSE /\ sessions' = [sessions EXCEPT ![id] = Accepted(@)]
            /\ UNCHANGED <<pairIndex, cooldowns, rating, results>>
  /\ UNCHANGED online

(* handleMiniGameChoice: a participant's choice, which may replace an      *)
(* earlier one; the second of the two ends the session.                    *)
Choose(id, u, choice) ==
  /\ Live(id)
  /\ u \in {sessions[id].challengerId, sessions[id].opponentId}
  /\ sessions[id].phase = "active"
  /\ LET s == [sessions[id] EXCEPT !.choices[u] = choice]
     IN  \/ sessions[id].expiresIn < 0 /\ Finalize(id, sessions[id], "timeout")
         \/ /\ sessions[id].expiresIn >= 0
            /\ None \notin {s.choices[s.challengerId], s.choices[s.opponentId]}
            /\ Finalize(id, s, "complete")
         \/ /\ sessions[id].expiresIn >= 0
            /\ None \in {s.choices[s.challengerId], s.choices[s.opponentId]}
            /\ sessions' = [sessions EXCEPT ![id] = s]
            /\ UNCHANGED <<pairIndex, cooldowns, rating, results>>
  /\ UNCHANGED online

(* handleMiniGameDecline: whoever names the session, in either phase. *)
Decline(id) ==
  /\ Live(id)
  /\ Finalize(id, sessions[id], "declined")
  /\ UNCHANGED online

(* The session's timer. *)
Timeout(id) ==
  /\ Live(id) /\ sessions[id].timeout = 0
  /\ Finalize(id, sessions[id], "timeout")
  /\ UNCHANGED online

Less(n, floor) == IF n > floor THEN n - 1 ELSE floor

Tick ==
  /\ sessions' = [id \in SessionIds |->
       IF Live(id)
         THEN [sessions[id] EXCEPT !.expiresIn = Less(@, -Slack),
                                   !.timeout = IF @ = None THEN None ELSE Less(@, 0)]
         ELSE None]
  /\ cooldowns' = [d \in Users \X Users |-> Less(cooldowns[d], 0)]
  /\ UNCHANGED <<online, pairIndex, rating, results>>

(* Presence, as SignalServer models it: sessions outlive connections. *)
Arrive(u) ==
  /\ u \notin online /\ online' = online \cup {u}
  /\ UNCHANGED <<sessions, pairIndex, cooldowns, rating, results>>

Depart(u) ==
  /\ u \in online /\ online' = online \ {u}
  /\ UNCHANGED <<sessions, pairIndex, cooldowns, rating, results>>
-----------------------------------------------------------------------------
Next ==
  \/ \E a, b \in Users, id \in SessionIds : Challenge(a, b, id)
  \/ \E id \in SessionIds :
       \/ Decline(id) \/ Timeout(id) \/ Rated(id)
       \/ \E u \in Users : Accept(id, u) \/ \E c \in Choices : Choose(id, u, c)
  \/ \E u \in Users : Arrive(u) \/ Depart(u)
  \/ Tick

Spec == Init /\ [][Next]_vars

(* Time passes, timers fire, the rating request settles. *)
TickIsFair == WF_vars(Tick)
TimeoutIsFair(id) == WF_vars(Timeout(id))
RatedIsFair(id) == WF_vars(Rated(id))

Fairness == TickIsFair /\ \A id \in SessionIds : TimeoutIsFair(id) /\ RatedIsFair(id)

FairSpec == Spec /\ Fairness
-----------------------------------------------------------------------------
(* Every variable keeps to its type; in particular a result names uids and  *)
(* never a side, and no timer or cooldown runs below zero.                 *)
TypeOK ==
  /\ online \subseteq Users
  /\ sessions \in [SessionIds -> Optional(Session)]
  /\ pairIndex \in [Pairs -> Optional(SessionIds)]
  /\ cooldowns \in [Users \X Users -> 0 .. Cooldown]
  /\ rating \in [SessionIds -> Seq(Result)]
  /\ results \in [SessionIds -> Seq(Result)]

(* Two users are never in two sessions with each other, whoever            *)
(* challenged: the index names the session of the pair, through every      *)
(* order of challenges, answers and timers.                                *)
OneSessionPerPair ==
  \A id \in SessionIds :
    Live(id) => pairIndex[PairKey(sessions[id].challengerId, sessions[id].opponentId)] = id

(* The index keeps no session that has ended.                              *)
IndexIsLive == \A k \in Pairs : pairIndex[k] # None => Live(pairIndex[k])

(* A session ends once: choices, a decline and the timer can all arrive    *)
(* while the rating request is awaited, and only one result is ever sent.  *)
EndsOnce ==
  \A id \in SessionIds :
    Len(rating[id]) + Len(results[id]) <= (IF Live(id) THEN 0 ELSE 1)

(* A session's timer fires Slack after its deadline, also after the accept *)
(* that moved the deadline.                                                *)
TimerFollowsDeadline ==
  \A id \in SessionIds :
    Live(id) => sessions[id].timeout = sessions[id].expiresIn + Slack

(* A challenger who has just finished a session with somebody is not in a  *)
(* new one of the same direction before the cooldown is over.              *)
CooldownHolds ==
  \A id \in SessionIds :
    Live(id) => cooldowns[<<sessions[id].challengerId, sessions[id].opponentId>>] = 0

JustVerdict(v) ==
  LET c == v.choices[v.challengerId]
      o == v.choices[v.opponentId]
  IN  /\ v.winnerUid # None =>
           /\ v.phase = "active" /\ v.reason # "declined"
           /\ {v.winnerUid, v.loserUid} = {v.challengerId, v.opponentId}
           /\ v.choices[v.winnerUid] # None
           /\ v.choices[v.loserUid] \in {None, Beats[v.choices[v.winnerUid]]}
      /\ v.reason # "declined" /\ v.winnerUid = None => c = o

(* Ratings are only asked for a session that the opponent accepted, for a  *)
(* winner who chose and a loser who chose what the winner's choice beats   *)
(* or did not choose; and a session with exactly one choice that was not   *)
(* declined is lost by the player who did not choose.                      *)
Just ==
  \A id \in SessionIds :
    /\ \A i \in 1 .. Len(rating[id]) : JustVerdict(rating[id][i])
    /\ \A i \in 1 .. Len(results[id]) : JustVerdict(results[id][i])

(* Every session ends in a result, whatever its players do. *)
EverySessionEnds == \A id \in SessionIds : Live(id) ~> results[id] # <<>>
=============================================================================
