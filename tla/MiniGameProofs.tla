--------------------------- MODULE MiniGameProofs ---------------------------
(***************************************************************************)
(* Theorems about MiniGame, for any users, sessions and durations: the     *)
(* invariants that its run checks on a small instance, which are proved    *)
(* together, for each needs the others (see GameInv); what a step may do   *)
(* to a session; and that a session draws nearer to its end and, when its  *)
(* timer is due, ends.                                                     *)
(***************************************************************************)
EXTENDS MiniGame, TLAPS

USE DEF Optional, Live

Reasons == {"complete", "timeout", "declined"}

(* Nobody challenges himself, and nobody has chosen before the accept. *)
Proper(s) ==
  /\ s.challengerId # s.opponentId
  /\ s.phase = "invite" => \A u \in Users : s.choices[u] = None

AllProper == \A id \in SessionIds : Live(id) => Proper(sessions[id])

KeyOf(s) == PairKey(s.challengerId, s.opponentId)

(* The index leads to a session of that pair: ending the session takes     *)
(* every entry that leads to it out.                                       *)
IndexAgrees == \A k \in Pairs : pairIndex[k] # None =>
                 Live(pairIndex[k]) /\ KeyOf(sessions[pairIndex[k]]) = k

JustSeq(q) == \A i \in 1 .. Len(q) : JustVerdict(q[i])

GameInv ==
  /\ TypeOK /\ AllProper
  /\ OneSessionPerPair /\ IndexAgrees
  /\ EndsOnce /\ TimerFollowsDeadline /\ CooldownHolds
  /\ \A id \in SessionIds : JustSeq(rating[id]) /\ JustSeq(results[id])

LEMMA GameInit == Init => GameInv
<1>. SUFFICES ASSUME Init PROVE GameInv
  OBVIOUS
<1>1. TypeOK
  BY WindowAssumption DEF Init, TypeOK
<1>2. \A id \in SessionIds : rating[id] = <<>> /\ results[id] = <<>> /\ sessions[id] = None
  BY DEF Init
<1>3. \A k \in Pairs : pairIndex[k] = None
  BY DEF Init
<1>4. AllProper /\ OneSessionPerPair /\ TimerFollowsDeadline /\ CooldownHolds
  BY <1>2 DEF AllProper, OneSessionPerPair, TimerFollowsDeadline, CooldownHolds
<1>5. IndexAgrees
  BY <1>3 DEF IndexAgrees
<1>6. EndsOnce
  <2>. SUFFICES ASSUME NEW id \in SessionIds
                PROVE  Len(rating[id]) + Len(results[id]) <= (IF Live(id) THEN 0 ELSE 1)
    BY DEF EndsOnce
  <2>1. rating[id] = <<>> /\ results[id] = <<>> /\ ~Live(id)
    BY <1>2
  <2>2. Len(rating[id]) = 0 /\ Len(results[id]) = 0
    BY <2>1
  <2>. QED
    BY <2>1, <2>2
<1>7. \A id \in SessionIds : JustSeq(rating[id]) /\ JustSeq(results[id])
  BY <1>2 DEF JustSeq
<1>. QED
  BY <1>1, <1>4, <1>5, <1>6, <1>7 DEF GameInv
-----------------------------------------------------------------------------
(* What finalizeMiniGameSession computes. *)
LEMMA SideOf ==
  ASSUME NEW c \in Optional(Choices), NEW o \in Optional(Choices)
  PROVE  /\ Evaluate(c, o).winner \in {"challenger", "opponent", "none"}
         /\ Evaluate(c, o).outcome \in {"win", "draw", "forfeit"}
         /\ Evaluate(c, o).winner = "none" <=> c = o
         /\ Evaluate(c, o).winner = "challenger" => c # None /\ o \in {None, Beats[c]}
         /\ Evaluate(c, o).winner = "opponent" => o # None /\ c \in {None, Beats[o]}
<1>1. CASE c = o
  BY <1>1 DEF Evaluate
<1>2. CASE c # None /\ o = None
  BY <1>2 DEF Evaluate
<1>3. CASE c = None /\ o # None
  BY <1>3 DEF Evaluate
<1>4. CASE c # o /\ c # None /\ o # None
  <2>1. Evaluate(c, o) = [winner |-> IF Beats[c] = o THEN "challenger" ELSE "opponent",
                          outcome |-> "win"]
    BY <1>4 DEF Evaluate
  <2>2. c \in Choices /\ o \in Choices
    BY <1>4
  <2>3. Beats[c] = o \/ Beats[o] = c
    BY <1>4, <2>2 DEF Beats, Choices
  <2>. QED
    BY <1>4, <2>1, <2>3
<1>. QED
  BY <1>1, <1>2, <1>3, <1>4

LEMMA VerdictFacts ==
  ASSUME NEW s \in Session, NEW reason \in Reasons
  PROVE  /\ Verdict(s, reason) \in Result
         /\ Proper(s) => JustVerdict(Verdict(s, reason))
<1> DEFINE c == s.choices[s.challengerId]
           o == s.choices[s.opponentId]
           e == IF reason = "declined" THEN [winner |-> "none", outcome |-> "declined"]
                                       ELSE Evaluate(c, o)
           v == Verdict(s, reason)
<1>1. /\ s.challengerId \in Users /\ s.opponentId \in Users
      /\ s.phase \in {"invite", "active"} /\ s.choices \in [Users -> Optional(Choices)]
  BY DEF Session
<1>2. c \in Optional(Choices) /\ o \in Optional(Choices)
  BY <1>1
<1>3. /\ e.winner \in {"challenger", "opponent", "none"}
      /\ e.outcome \in {"win", "draw", "forfeit", "declined"}
  BY <1>2, SideOf
<1>4. v = [challengerId |-> s.challengerId, opponentId |-> s.opponentId, phase |-> s.phase,
           choices |-> s.choices, reason |-> reason,
           outcome |-> IF reason = "timeout" /\ s.phase = "invite" THEN "declined"
                                                                   ELSE e.outcome,
           winnerUid |-> Player(s, e.winner), loserUid |-> Player(s, Other[e.winner])]
  BY DEF Verdict
<1> HIDE DEF v, e
<1>5. /\ e.winner = "challenger" => /\ Player(s, e.winner) = s.challengerId
                                    /\ Player(s, Other[e.winner]) = s.opponentId
      /\ e.winner = "opponent" => /\ Player(s, e.winner) = s.opponentId
                                  /\ Player(s, Other[e.winner]) = s.challengerId
      /\ e.winner = "none" => Player(s, e.winner) = None /\ Player(s, Other[e.winner]) = None
  BY DEF Player, Other
<1>6. v \in Result
  BY <1>1, <1>3, <1>4, <1>5 DEF Result, Reasons
<1>7. ASSUME Proper(s) PROVE JustVerdict(v)
  <2>1. reason = "declined" => e.winner = "none"
    BY DEF e
  <2>2. reason # "declined" =>
          /\ e.winner = "none" <=> c = o
          /\ e.winner = "challenger" => c # None /\ o \in {None, Beats[c]}
          /\ e.winner = "opponent" => o # None /\ c \in {None, Beats[o]}
    BY <1>2, SideOf DEF e
  <2>3. s.phase = "invite" => c = o
    BY <1>1, <1>7 DEF Proper
  <2>4. CASE e.winner = "none"
    <3>1. v.winnerUid = None /\ v.reason = reason
          /\ v.choices[v.challengerId] = c /\ v.choices[v.opponentId] = o
      BY <1>4, <1>5, <2>4
    <3>. QED
      BY <2>2, <2>4, <3>1 DEF JustVerdict
  <2>5. CASE e.winner = "challenger"
    <3>1. /\ v.winnerUid = s.challengerId /\ v.loserUid = s.opponentId
          /\ v.reason = reason /\ v.phase = s.phase /\ v.choices = s.choices
          /\ v.challengerId = s.challengerId /\ v.opponentId = s.opponentId
      BY <1>4, <1>5, <2>5
    <3>2. s.phase = "active" /\ reason # "declined"
      BY <1>1, <2>1, <2>2, <2>3, <2>5
    <3>3. v.winnerUid # None
      BY <1>1, <3>1, NoneAssumption
    <3>. QED
      BY <2>2, <2>5, <3>1, <3>2, <3>3 DEF JustVerdict
  <2>6. CASE e.winner = "opponent"
    <3>1. /\ v.winnerUid = s.opponentId /\ v.loserUid = s.challengerId
          /\ v.reason = reason /\ v.phase = s.phase /\ v.choices = s.choices
          /\ v.challengerId = s.challengerId /\ v.opponentId = s.opponentId
      BY <1>4, <1>5, <2>6
    <3>2. s.phase = "active" /\ reason # "declined"
      BY <1>1, <2>1, <2>2, <2>3, <2>6
    <3>3. v.winnerUid # None
      BY <1>1, <3>1, NoneAssumption
    <3>. QED
      BY <2>2, <2>6, <3>1, <3>2, <3>3 DEF JustVerdict
  <2>. QED
    BY <1>3, <2>4, <2>5, <2>6
<1>. QED
  BY <1>6, <1>7 DEF v
-----------------------------------------------------------------------------
(* What ending a session does to the invariant, whoever ends it: the       *)
(* opponent's late accept, the second choice, a decline or the timer.      *)
LEMMA AppendJust ==
  ASSUME NEW q \in Seq(Result), NEW v \in Result, JustSeq(q), JustVerdict(v)
  PROVE  JustSeq(Append(q, v)) /\ Append(q, v) \in Seq(Result) /\ Len(Append(q, v)) = Len(q) + 1
BY DEF JustSeq

(* The length that grows and the one that stays. *)
LEMMA GrownByOne ==
  ASSUME NEW n \in Nat, NEW m \in Nat, n + m <= 0, NEW k, NEW l
  PROVE  /\ k = n + 1 /\ l = m => k + l <= 1
         /\ k = n /\ l = m + 1 => k + l <= 1
OBVIOUS

(* The result that moves over. *)
LEMMA MovedOver ==
  ASSUME NEW n \in Nat, NEW m \in Nat, NEW max \in Nat, n + m <= max,
         NEW k, NEW l, k = n - 1, l = m + 1
  PROVE  k + l <= max
OBVIOUS

LEMMA FinalizeKeeps ==
  ASSUME GameInv, NEW id \in SessionIds, Live(id), NEW s \in Session, Proper(s),
         s.challengerId = sessions[id].challengerId, s.opponentId = sessions[id].opponentId,
         NEW reason \in Reasons, Finalize(id, s, reason), UNCHANGED online
  PROVE  GameInv'
<1> DEFINE v == Verdict(s, reason)
           a == s.challengerId
           b == s.opponentId
<1>1. v \in Result /\ JustVerdict(v)
  BY VerdictFacts
<1>2. a \in Users /\ b \in Users /\ PairKey(a, b) \in Pairs
  BY DEF Session, PairKey, Pairs
<1>3. /\ sessions' = [sessions EXCEPT ![id] = None]
      /\ pairIndex' = [pairIndex EXCEPT ![PairKey(a, b)] = None]
      /\ cooldowns' = [cooldowns EXCEPT ![<<a, b>>] = Cooldown]
  BY DEF Finalize
<1>4. \/ /\ rating' = [rating EXCEPT ![id] = Append(@, v)]
         /\ UNCHANGED results
      \/ /\ results' = [results EXCEPT ![id] = Append(@, v)]
         /\ UNCHANGED rating
  BY DEF Finalize
<1> HIDE DEF v
<1>5. \A i \in SessionIds : sessions'[i] = IF i = id THEN None ELSE sessions[i]
  BY <1>3 DEF GameInv, TypeOK
<1>6. \A k \in Pairs : pairIndex'[k] = IF k = PairKey(a, b) THEN None ELSE pairIndex[k]
  BY <1>3 DEF GameInv, TypeOK
<1>7. pairIndex[PairKey(a, b)] = id
  BY DEF GameInv, OneSessionPerPair
<1>8. \A i \in SessionIds : i # id /\ Live(i) => KeyOf(sessions[i]) # PairKey(a, b)
  BY <1>7 DEF GameInv, OneSessionPerPair, KeyOf
<1>9. TypeOK'
  <2>1. cooldowns' \in [Users \X Users -> 0 .. Cooldown]
    BY <1>2, <1>3, WindowAssumption DEF GameInv, TypeOK
  <2>2. sessions' \in [SessionIds -> Optional(Session)]
    BY <1>3 DEF GameInv, TypeOK
  <2>3. pairIndex' \in [Pairs -> Optional(SessionIds)]
    BY <1>3 DEF GameInv, TypeOK
  <2>4. rating' \in [SessionIds -> Seq(Result)] /\ results' \in [SessionIds -> Seq(Result)]
    <3>1. rating[id] \in Seq(Result) /\ results[id] \in Seq(Result)
      BY DEF GameInv, TypeOK
    <3>2. Append(rating[id], v) \in Seq(Result) /\ Append(results[id], v) \in Seq(Result)
      BY <1>1, <3>1
    <3>. QED
      BY <1>4, <3>2 DEF GameInv, TypeOK
  <2>. QED
    BY <2>1, <2>2, <2>3, <2>4 DEF GameInv, TypeOK
<1>10. AllProper' /\ TimerFollowsDeadline'
  BY <1>5 DEF GameInv, AllProper, Proper, TimerFollowsDeadline
<1>11. OneSessionPerPair'
  <2>. SUFFICES ASSUME NEW i \in SessionIds, Live(i)'
                PROVE  pairIndex'[KeyOf(sessions'[i])] = i
    BY DEF OneSessionPerPair, KeyOf
  <2>1. i # id /\ sessions'[i] = sessions[i] /\ Live(i)
    BY <1>5
  <2>2. KeyOf(sessions[i]) \in Pairs
    BY <2>1 DEF GameInv, TypeOK, Session, KeyOf, PairKey, Pairs
  <2>3. pairIndex[KeyOf(sessions[i])] = i
    BY <2>1 DEF GameInv, OneSessionPerPair, KeyOf
  <2>. QED
    BY <1>6, <1>8, <2>1, <2>2, <2>3
<1>12. IndexAgrees'
  <2>. SUFFICES ASSUME NEW k \in Pairs, pairIndex'[k] # None
                PROVE  sessions'[pairIndex'[k]] # None /\ KeyOf(sessions'[pairIndex'[k]]) = k
    BY DEF IndexAgrees, KeyOf, PairKey
  <2>1. k # PairKey(a, b) /\ pairIndex'[k] = pairIndex[k]
    BY <1>6
  <2>2. /\ pairIndex[k] \in SessionIds
        /\ sessions[pairIndex[k]] # None /\ KeyOf(sessions[pairIndex[k]]) = k
    BY <2>1 DEF GameInv, IndexAgrees, TypeOK
  <2>3. pairIndex[k] # id
    BY <2>1, <2>2 DEF KeyOf
  <2>. QED
    BY <1>5, <2>1, <2>2, <2>3
<1>13. CooldownHolds'
  <2>. SUFFICES ASSUME NEW i \in SessionIds, Live(i)'
                PROVE  cooldowns'[<<sessions'[i].challengerId, sessions'[i].opponentId>>] = 0
    BY DEF CooldownHolds
  <2>1. i # id /\ sessions'[i] = sessions[i] /\ Live(i)
    BY <1>5
  <2>2. sessions[i].challengerId \in Users /\ sessions[i].opponentId \in Users
    BY <2>1 DEF GameInv, TypeOK, Session
  <2>3. <<sessions[i].challengerId, sessions[i].opponentId>> # <<a, b>>
    BY <1>8, <2>1 DEF KeyOf, PairKey
  <2>. QED
    BY <1>3, <2>1, <2>2, <2>3 DEF GameInv, CooldownHolds, TypeOK
<1>14. EndsOnce' /\ \A i \in SessionIds : JustSeq(rating'[i]) /\ JustSeq(results'[i])
  <2>1. \A i \in SessionIds : rating[i] \in Seq(Result) /\ results[i] \in Seq(Result)
    BY DEF GameInv, TypeOK
  <2>2. Len(rating[id]) + Len(results[id]) <= 0
    BY DEF GameInv, EndsOnce
  <2>3. \A i \in SessionIds : i # id => rating'[i] = rating[i] /\ results'[i] = results[i]
    BY <1>4 DEF GameInv, TypeOK
  <2>4. \/ rating'[id] = Append(rating[id], v) /\ results'[id] = results[id]
        \/ results'[id] = Append(results[id], v) /\ rating'[id] = rating[id]
    BY <1>4 DEF GameInv, TypeOK
  <2>5. /\ JustSeq(rating'[id]) /\ JustSeq(results'[id])
        /\ Len(rating'[id]) + Len(results'[id]) <= 1
    <3>1. /\ rating[id] \in Seq(Result) /\ JustSeq(rating[id])
          /\ results[id] \in Seq(Result) /\ JustSeq(results[id])
      BY <2>1 DEF GameInv
    <3>2. Len(rating[id]) \in Nat /\ Len(results[id]) \in Nat
      BY <3>1
    <3>3. CASE rating'[id] = Append(rating[id], v) /\ results'[id] = results[id]
      <4>1. JustSeq(rating'[id])
        BY <1>1, <3>1, <3>3, AppendJust
      <4>2. Len(rating'[id]) = Len(rating[id]) + 1
        BY <1>1, <3>1, <3>3, AppendJust
      <4>3. JustSeq(results'[id])
        BY <3>1, <3>3
      <4>4. Len(results'[id]) = Len(results[id])
        BY <3>3
      <4>5. Len(rating'[id]) + Len(results'[id]) <= 1
        BY <2>2, <3>2, <4>2, <4>4, GrownByOne, Zenon
      <4>. QED
        BY <4>1, <4>3, <4>5
    <3>4. CASE results'[id] = Append(results[id], v) /\ rating'[id] = rating[id]
      <4>1. JustSeq(results'[id])
        BY <1>1, <3>1, <3>4, AppendJust
      <4>2. Len(results'[id]) = Len(results[id]) + 1
        BY <1>1, <3>1, <3>4, AppendJust
      <4>3. JustSeq(rating'[id])
        BY <3>1, <3>4
      <4>4. Len(rating'[id]) = Len(rating[id])
        BY <3>4
      <4>5. Len(rating'[id]) + Len(results'[id]) <= 1
        BY <2>2, <3>2, <4>2, <4>4, GrownByOne, Zenon
      <4>. QED
        BY <4>1, <4>3, <4>5
    <3>. QED
      BY <2>4, <3>3, <3>4
  <2>6. EndsOnce'
    <3>. SUFFICES ASSUME NEW i \in SessionIds
                  PROVE  Len(rating'[i]) + Len(results'[i])
                           <= (IF sessions'[i] # None THEN 0 ELSE 1)
      BY DEF EndsOnce
    <3>. QED
      BY <1>5, <2>3, <2>5 DEF GameInv, EndsOnce
  <2>. QED
    BY <2>3, <2>5, <2>6 DEF GameInv
<1>. QED
  BY <1>9, <1>10, <1>11, <1>12, <1>13, <1>14 DEF GameInv
-----------------------------------------------------------------------------
LEMMA ChallengeKeeps ==
  ASSUME GameInv, NEW a \in Users, NEW b \in Users, NEW id \in SessionIds, Challenge(a, b, id)
  PROVE  GameInv'
<1> DEFINE s == NewSession(a, b)
<1>1. a # b /\ PairKey(a, b) \in Pairs /\ a \in online /\ b \in online
  BY DEF Challenge, PairKey, Pairs
<1>2. /\ s \in Session /\ s # None /\ Proper(s)
      /\ s.challengerId = a /\ s.opponentId = b /\ s.timeout = s.expiresIn + Slack
  <2>1. InviteWindow \in (-Slack) .. LongestWindow
    BY WindowAssumption DEF LongestWindow
  <2>2. InviteWindow + Slack \in 0 .. LongestWindow + Slack
    BY WindowAssumption DEF LongestWindow
  <2>3. s \in Session
    BY <2>1, <2>2 DEF NewSession, Session
  <2>. QED
    BY <1>1, <2>3, NoRecord DEF NewSession, Proper
<1>3. /\ sessions' = [sessions EXCEPT ![id] = s]
      /\ pairIndex' = [pairIndex EXCEPT ![PairKey(a, b)] = id]
      /\ UNCHANGED <<online, cooldowns, rating, results>>
      /\ cooldowns[<<a, b>>] = 0 /\ ~Pending(a, b) /\ Unused(id)
  BY DEF Challenge
<1> HIDE DEF s
<1>4. \A i \in SessionIds : sessions'[i] = IF i = id THEN s ELSE sessions[i]
  BY <1>3 DEF GameInv, TypeOK
<1>5. \A k \in Pairs : pairIndex'[k] = IF k = PairKey(a, b) THEN id ELSE pairIndex[k]
  BY <1>3 DEF GameInv, TypeOK
<1>6. pairIndex[PairKey(a, b)] = None
  BY <1>1, <1>3 DEF Pending, GameInv, IndexAgrees
<1>7. sessions[id] = None /\ rating[id] = <<>> /\ results[id] = <<>>
  BY <1>3 DEF Unused
<1>8. TypeOK'
  BY <1>1, <1>2, <1>3 DEF GameInv, TypeOK
<1>9. AllProper' /\ TimerFollowsDeadline'
  BY <1>2, <1>4 DEF GameInv, AllProper, Proper, TimerFollowsDeadline
<1>10. OneSessionPerPair'
  <2>. SUFFICES ASSUME NEW i \in SessionIds, Live(i)'
                PROVE  pairIndex'[KeyOf(sessions'[i])] = i
    BY DEF OneSessionPerPair, KeyOf
  <2>1. CASE i = id
    BY <1>1, <1>2, <1>4, <1>5, <2>1 DEF KeyOf
  <2>2. CASE i # id
    <3>1. sessions'[i] = sessions[i] /\ Live(i)
      BY <1>4, <2>2
    <3>2. KeyOf(sessions[i]) \in Pairs
      <4>1. sessions[i].challengerId \in Users /\ sessions[i].opponentId \in Users
        BY <3>1 DEF GameInv, TypeOK, Session
      <4>. QED
        BY <4>1 DEF KeyOf, PairKey, Pairs
    <3>3. pairIndex[KeyOf(sessions[i])] = i
      BY <3>1 DEF GameInv, OneSessionPerPair, KeyOf
    <3>. QED
      BY <1>5, <1>6, <3>1, <3>2, <3>3, NoneAssumption
  <2>. QED
    BY <2>1, <2>2
<1>11. IndexAgrees'
  <2>. SUFFICES ASSUME NEW k \in Pairs, pairIndex'[k] # None
                PROVE  sessions'[pairIndex'[k]] # None /\ KeyOf(sessions'[pairIndex'[k]]) = k
    BY DEF IndexAgrees, KeyOf, PairKey
  <2>1. CASE k = PairKey(a, b)
    BY <1>2, <1>4, <1>5, <2>1 DEF KeyOf
  <2>2. CASE k # PairKey(a, b)
    <3>1. /\ pairIndex'[k] = pairIndex[k] /\ pairIndex[k] \in SessionIds
          /\ sessions[pairIndex[k]] # None /\ KeyOf(sessions[pairIndex[k]]) = k
      BY <1>5, <2>2 DEF GameInv, IndexAgrees, TypeOK
    <3>. QED
      BY <1>4, <1>7, <3>1
  <2>. QED
    BY <2>1, <2>2
<1>12. CooldownHolds'
  BY <1>2, <1>3, <1>4 DEF GameInv, CooldownHolds
<1>13. EndsOnce'
  <2>. SUFFICES ASSUME NEW i \in SessionIds
                PROVE  Len(rating[i]) + Len(results[i])
                         <= (IF sessions'[i] # None THEN 0 ELSE 1)
    BY <1>3 DEF EndsOnce
  <2>1. CASE i = id
    <3>1. Len(rating[i]) = 0 /\ Len(results[i]) = 0
      BY <1>7, <2>1
    <3>. QED
      BY <3>1
  <2>2. CASE i # id
    BY <1>4, <2>2 DEF GameInv, EndsOnce
  <2>. QED
    BY <2>1, <2>2
<1>. QED
  BY <1>3, <1>8, <1>9, <1>10, <1>11, <1>12, <1>13 DEF GameInv

(* Changing a session in place: an accept in time, or the first choice. *)
LEMMA UpdateKeeps ==
  ASSUME GameInv, NEW id \in SessionIds, Live(id), NEW s \in Session, Proper(s),
         s.challengerId = sessions[id].challengerId, s.opponentId = sessions[id].opponentId,
         s.timeout = s.expiresIn + Slack,
         sessions' = [sessions EXCEPT ![id] = s],
         UNCHANGED <<online, pairIndex, cooldowns, rating, results>>
  PROVE  GameInv'
<1>1. s # None
  BY NoRecord
<1>2. \A i \in SessionIds : sessions'[i] = IF i = id THEN s ELSE sessions[i]
  BY DEF GameInv, TypeOK
<1>3. TypeOK'
  BY DEF GameInv, TypeOK
<1>4. AllProper' /\ TimerFollowsDeadline'
  BY <1>2 DEF GameInv, AllProper, Proper, TimerFollowsDeadline
<1>5. OneSessionPerPair' /\ CooldownHolds'
  BY <1>2 DEF GameInv, OneSessionPerPair, CooldownHolds
<1>6. IndexAgrees'
  <2>. SUFFICES ASSUME NEW k \in Pairs, pairIndex[k] # None
                PROVE  sessions'[pairIndex[k]] # None /\ KeyOf(sessions'[pairIndex[k]]) = k
    BY DEF IndexAgrees, KeyOf, PairKey
  <2>1. /\ pairIndex[k] \in SessionIds
        /\ sessions[pairIndex[k]] # None /\ KeyOf(sessions[pairIndex[k]]) = k
    BY DEF GameInv, IndexAgrees, TypeOK
  <2>. QED
    BY <1>1, <1>2, <2>1 DEF KeyOf
<1>7. EndsOnce'
  BY <1>1, <1>2 DEF GameInv, EndsOnce
<1>. QED
  BY <1>3, <1>4, <1>5, <1>6, <1>7 DEF GameInv

LEMMA AcceptKeeps ==
  ASSUME GameInv, NEW id \in SessionIds, NEW u \in Users, Accept(id, u)
  PROVE  GameInv'
<1>1. Live(id) /\ sessions[id] \in Session /\ Proper(sessions[id])
  BY DEF Accept, GameInv, TypeOK, AllProper
<1>2. CASE Finalize(id, sessions[id], "timeout") /\ UNCHANGED online
  BY <1>1, <1>2, FinalizeKeeps DEF Reasons
<1>3. CASE /\ sessions[id].expiresIn >= 0
           /\ sessions' = [sessions EXCEPT ![id] = Accepted(@)]
           /\ UNCHANGED <<online, pairIndex, cooldowns, rating, results>>
  <2> DEFINE s == Accepted(sessions[id])
  <2>1. ChoiceWindow \in (-Slack) .. LongestWindow
    BY WindowAssumption DEF LongestWindow
  <2>2. ChoiceWindow + Slack \in 0 .. LongestWindow + Slack
    BY WindowAssumption DEF LongestWindow
  <2>3. /\ s \in Session /\ Proper(s) /\ s.timeout = s.expiresIn + Slack
        /\ s.challengerId = sessions[id].challengerId /\ s.opponentId = sessions[id].opponentId
    BY <1>1, <2>1, <2>2 DEF Accepted, Session, Proper
  <2>4. sessions' = [sessions EXCEPT ![id] = s]
    BY <1>3
  <2> HIDE DEF s
  <2>. QED
    BY <1>1, <1>3, <2>3, <2>4, UpdateKeeps
<1>. QED
  <2>1. sessions[id].expiresIn \in Int
    BY <1>1, WindowAssumption DEF Session
  <2>. QED
    BY <1>2, <1>3, <2>1 DEF Accept

LEMMA ChooseKeeps ==
  ASSUME GameInv, NEW id \in SessionIds, NEW u \in Users, NEW choice \in Choices,
         Choose(id, u, choice)
  PROVE  GameInv'
<1> DEFINE s == [sessions[id] EXCEPT !.choices[u] = choice]
<1>1. /\ Live(id) /\ sessions[id] \in Session /\ Proper(sessions[id])
      /\ sessions[id].phase = "active" /\ UNCHANGED online
  BY DEF Choose, GameInv, TypeOK, AllProper
<1>2. /\ s \in Session /\ Proper(s)
      /\ s.challengerId = sessions[id].challengerId /\ s.opponentId = sessions[id].opponentId
      /\ s.timeout = sessions[id].timeout /\ s.expiresIn = sessions[id].expiresIn
  BY <1>1 DEF Session, Proper
<1>3. s.timeout = s.expiresIn + Slack
  BY <1>1, <1>2 DEF GameInv, TimerFollowsDeadline
<1>4. \/ Finalize(id, sessions[id], "timeout")
      \/ Finalize(id, s, "complete")
      \/ /\ sessions' = [sessions EXCEPT ![id] = s]
         /\ UNCHANGED <<pairIndex, cooldowns, rating, results>>
  BY DEF Choose
<1> HIDE DEF s
<1>5. CASE Finalize(id, sessions[id], "timeout")
  BY <1>1, <1>5, FinalizeKeeps DEF Reasons
<1>6. CASE Finalize(id, s, "complete")
  BY <1>1, <1>2, <1>6, FinalizeKeeps DEF Reasons
<1>7. CASE /\ sessions' = [sessions EXCEPT ![id] = s]
           /\ UNCHANGED <<pairIndex, cooldowns, rating, results>>
  BY <1>1, <1>2, <1>3, <1>7, UpdateKeeps
<1>. QED
  BY <1>4, <1>5, <1>6, <1>7

LEMMA EndKeeps ==
  ASSUME GameInv, NEW id \in SessionIds, Decline(id) \/ Timeout(id)
  PROVE  GameInv'
<1>1. Live(id) /\ sessions[id] \in Session /\ Proper(sessions[id]) /\ UNCHANGED online
  BY DEF Decline, Timeout, GameInv, TypeOK, AllProper
<1>2. \E reason \in Reasons : Finalize(id, sessions[id], reason)
  BY DEF Decline, Timeout, Reasons
<1>. QED
  BY <1>1, <1>2, FinalizeKeeps

(* The first of the waiting results moves over. *)
LEMMA RatedKeeps ==
  ASSUME GameInv, NEW id \in SessionIds, Rated(id)
  PROVE  GameInv'
<1> DEFINE v == Head(rating[id])
<1>1. rating[id] \in Seq(Result) /\ results[id] \in Seq(Result) /\ rating[id] # <<>>
  BY DEF Rated, GameInv, TypeOK
<1>2. Len(rating[id]) \in Nat \ {0} /\ Len(results[id]) \in Nat
  BY <1>1
<1>3. /\ JustSeq(rating[id]) /\ JustSeq(results[id])
      /\ Len(rating[id]) + Len(results[id]) <= (IF Live(id) THEN 0 ELSE 1)
  BY DEF GameInv, EndsOnce
<1>4. v \in Result /\ JustVerdict(v)
  BY <1>1, <1>2, <1>3 DEF JustSeq
<1>5. /\ Tail(rating[id]) \in Seq(Result) /\ Len(Tail(rating[id])) = Len(rating[id]) - 1
      /\ \A i \in 1 .. Len(Tail(rating[id])) : Tail(rating[id])[i] = rating[id][i + 1]
  BY <1>1
<1>6. JustSeq(Tail(rating[id]))
  BY <1>2, <1>3, <1>5 DEF JustSeq
<1>7. /\ JustSeq(Append(results[id], v)) /\ Append(results[id], v) \in Seq(Result)
      /\ Len(Append(results[id], v)) = Len(results[id]) + 1
  BY <1>1, <1>3, <1>4, AppendJust
<1>8. /\ results' = [results EXCEPT ![id] = Append(results[id], v)]
      /\ rating' = [rating EXCEPT ![id] = Tail(rating[id])]
      /\ UNCHANGED <<online, sessions, pairIndex, cooldowns>>
  BY DEF Rated
<1> HIDE DEF v
<1>9. \A i \in SessionIds :
        /\ results'[i] = IF i = id THEN Append(results[id], v) ELSE results[i]
        /\ rating'[i] = IF i = id THEN Tail(rating[id]) ELSE rating[i]
  BY <1>8 DEF GameInv, TypeOK
<1>10. TypeOK'
  BY <1>5, <1>7, <1>8 DEF GameInv, TypeOK
<1>11. \A i \in SessionIds : JustSeq(rating'[i]) /\ JustSeq(results'[i])
  BY <1>6, <1>7, <1>9 DEF GameInv
<1>12. EndsOnce'
  <2>. SUFFICES ASSUME NEW i \in SessionIds
                PROVE  Len(rating'[i]) + Len(results'[i]) <= (IF Live(i) THEN 0 ELSE 1)
    BY <1>8 DEF EndsOnce
  <2>1. CASE i = id
    <3>1. /\ Len(rating'[i]) = Len(rating[id]) - 1
          /\ Len(results'[i]) = Len(results[id]) + 1
      BY <1>5, <1>7, <1>9, <2>1
    <3>. QED
      BY <1>2, <1>3, <2>1, <3>1, MovedOver
  <2>2. CASE i # id
    BY <1>9, <2>2 DEF GameInv, EndsOnce
  <2>. QED
    BY <2>1, <2>2
<1>13. /\ AllProper' /\ OneSessionPerPair' /\ IndexAgrees'
       /\ TimerFollowsDeadline' /\ CooldownHolds'
  BY <1>8 DEF GameInv, AllProper, OneSessionPerPair, IndexAgrees, KeyOf, PairKey,
     TimerFollowsDeadline, CooldownHolds
<1>. QED
  BY <1>10, <1>11, <1>12, <1>13 DEF GameInv

(* The deadline and its timer count down together. *)
LEMMA TickSession ==
  ASSUME GameInv, Tick, NEW id \in SessionIds, Live(id)
  PROVE  LET s == sessions[id]
             n == sessions'[id]
         IN  /\ n \in Session
             /\ n.challengerId = s.challengerId /\ n.opponentId = s.opponentId
             /\ n.phase = s.phase /\ n.choices = s.choices
             /\ n.timeout = n.expiresIn + Slack
             /\ n.expiresIn = Less(s.expiresIn, -Slack)
<1> DEFINE later(s) == [s EXCEPT !.expiresIn = Less(@, -Slack),
                                 !.timeout = IF @ = None THEN None ELSE Less(@, 0)]
           s == sessions[id]
           e == Less(s.expiresIn, -Slack)
<1>1. s \in Session /\ s.timeout = s.expiresIn + Slack
  BY DEF GameInv, TypeOK, TimerFollowsDeadline
<1>2. s.expiresIn \in (-Slack) .. LongestWindow /\ LongestWindow \in Nat
  BY <1>1, WindowAssumption DEF Session, LongestWindow
<1>3. s.timeout # None
  BY <1>1, <1>2, NoRecord, WindowAssumption
<1>4. e \in (-Slack) .. LongestWindow /\ e + Slack \in 0 .. LongestWindow + Slack
  BY <1>2, WindowAssumption DEF Less
<1>5. Less(s.timeout, 0) = e + Slack
  BY <1>1, <1>2, WindowAssumption DEF Less
<1>6. sessions'[id] = later(s)
  BY DEF Tick
<1> HIDE DEF e
<1>7. later(s) = [s EXCEPT !.expiresIn = e, !.timeout = e + Slack]
  BY <1>1, <1>3, <1>5 DEF e, Session
<1> HIDE DEF later
<1>8. /\ later(s) \in Session
      /\ later(s).challengerId = s.challengerId /\ later(s).opponentId = s.opponentId
      /\ later(s).phase = s.phase /\ later(s).choices = s.choices
      /\ later(s).timeout = later(s).expiresIn + Slack /\ later(s).expiresIn = e
  BY <1>1, <1>4, <1>7 DEF Session
<1>. QED
  BY <1>6, <1>8 DEF e

LEMMA TickKeeps ==
  ASSUME GameInv, Tick
  PROVE  GameInv'
<1>1. ASSUME NEW id \in SessionIds, Live(id)
      PROVE  LET s == sessions[id]
                 n == sessions'[id]
             IN  /\ n \in Session
                 /\ n.challengerId = s.challengerId /\ n.opponentId = s.opponentId
                 /\ n.phase = s.phase /\ n.choices = s.choices
                 /\ n.timeout = n.expiresIn + Slack
  BY <1>1, TickSession
<1>2. \A id \in SessionIds : ~Live(id) => sessions'[id] = None
  BY DEF Tick
<1>3. \A id \in SessionIds : sessions'[id] # None <=> Live(id)
  BY <1>1, <1>2, NoRecord
<1>4. UNCHANGED <<online, pairIndex, rating, results>>
  BY DEF Tick
<1>5. \A d \in Users \X Users : cooldowns'[d] = Less(cooldowns[d], 0)
  BY DEF Tick
<1>6. TypeOK'
  <2>1. sessions' \in [SessionIds -> Optional(Session)]
    <3>1. \A id \in SessionIds : sessions'[id] \in Optional(Session)
      BY <1>1, <1>2
    <3>. QED
      BY <3>1 DEF Tick
  <2>2. cooldowns' \in [Users \X Users -> 0 .. Cooldown]
    <3>1. \A d \in Users \X Users : Less(cooldowns[d], 0) \in 0 .. Cooldown
      BY WindowAssumption DEF GameInv, TypeOK, Less
    <3>. QED
      BY <3>1 DEF Tick
  <2>. QED
    BY <1>4, <2>1, <2>2 DEF GameInv, TypeOK
<1>7. AllProper' /\ TimerFollowsDeadline'
  BY <1>1, <1>3 DEF GameInv, AllProper, Proper, TimerFollowsDeadline
<1>8. OneSessionPerPair'
  BY <1>1, <1>3, <1>4 DEF GameInv, OneSessionPerPair
<1>9. IndexAgrees'
  <2>. SUFFICES ASSUME NEW k \in Pairs, pairIndex[k] # None
                PROVE  sessions'[pairIndex[k]] # None /\ KeyOf(sessions'[pairIndex[k]]) = k
    BY <1>4 DEF IndexAgrees, KeyOf, PairKey
  <2>1. /\ pairIndex[k] \in SessionIds
        /\ Live(pairIndex[k]) /\ KeyOf(sessions[pairIndex[k]]) = k
    BY DEF GameInv, IndexAgrees, TypeOK
  <2>. QED
    BY <1>1, <1>3, <2>1 DEF KeyOf
<1>10. CooldownHolds'
  <2>. SUFFICES ASSUME NEW id \in SessionIds, Live(id)'
                PROVE  cooldowns'[<<sessions'[id].challengerId, sessions'[id].opponentId>>] = 0
    BY DEF CooldownHolds
  <2> DEFINE d == <<sessions[id].challengerId, sessions[id].opponentId>>
  <2>1. Live(id)
    BY <1>3
  <2>2. d \in Users \X Users /\ cooldowns[d] = 0
    BY <2>1 DEF GameInv, TypeOK, Session, CooldownHolds
  <2>3. <<sessions'[id].challengerId, sessions'[id].opponentId>> = d
    BY <1>1, <2>1
  <2> HIDE DEF d
  <2>. QED
    BY <1>5, <2>2, <2>3 DEF Less
<1>11. EndsOnce'
  BY <1>3, <1>4 DEF GameInv, EndsOnce
<1>. QED
  BY <1>4, <1>6, <1>7, <1>8, <1>9, <1>10, <1>11 DEF GameInv

LEMMA QuietKeeps ==
  ASSUME GameInv, NEW S \in SUBSET Users, online' = S,
         UNCHANGED <<sessions, pairIndex, cooldowns, rating, results>>
  PROVE  GameInv'
<1>1. TypeOK'
  BY DEF GameInv, TypeOK
<1>2. /\ AllProper' /\ OneSessionPerPair' /\ IndexAgrees'
      /\ TimerFollowsDeadline' /\ CooldownHolds' /\ EndsOnce'
  BY DEF GameInv, AllProper, OneSessionPerPair, IndexAgrees, KeyOf, PairKey,
     TimerFollowsDeadline, CooldownHolds, EndsOnce
<1>. QED
  BY <1>1, <1>2 DEF GameInv

LEMMA GameStep == GameInv /\ [Next]_vars => GameInv'
<1>. SUFFICES ASSUME GameInv, [Next]_vars PROVE GameInv'
  OBVIOUS
<1>1. online \in SUBSET Users
  BY DEF GameInv, TypeOK
<1>2. ASSUME NEW u \in Users, Arrive(u) \/ Depart(u) PROVE GameInv'
  <2>1. online \cup {u} \in SUBSET Users /\ online \ {u} \in SUBSET Users
    BY <1>1
  <2>. QED
    BY <1>2, <2>1, QuietKeeps DEF Arrive, Depart
<1>3. CASE UNCHANGED vars
  BY <1>1, <1>3, QuietKeeps DEF vars
<1>. QED
  BY <1>2, <1>3, ChallengeKeeps, AcceptKeeps, ChooseKeeps, EndKeeps, RatedKeeps, TickKeeps
     DEF Next

LEMMA GameCorrect == Spec => []GameInv
BY GameInit, GameStep, PTL DEF Spec
-----------------------------------------------------------------------------
(* A result names uids and never a side, and no timer or cooldown runs     *)
(* below zero (finalizeMiniGameSession, handleMiniGameAccept).             *)
THEOREM GameTypeCorrect == Spec => []TypeOK
<1>1. GameInv => TypeOK
  BY DEF GameInv
<1>. QED
  BY <1>1, GameCorrect, PTL

(* Two users are never in two sessions with each other                     *)
(* (handleMiniGameChallenge's lookup of the pair).                         *)
THEOREM OneSessionCorrect == Spec => []OneSessionPerPair
<1>1. GameInv => OneSessionPerPair
  BY DEF GameInv
<1>. QED
  BY <1>1, GameCorrect, PTL

(* The index keeps no session that has ended, so that it never refuses a   *)
(* pair for a session that is over (finalizeMiniGameSession's delete).     *)
THEOREM IndexCorrect == Spec => []IndexIsLive
<1>1. GameInv => IndexIsLive
  BY DEF GameInv, IndexAgrees, IndexIsLive
<1>. QED
  BY <1>1, GameCorrect, PTL

(* One result per session, with any number of answers, declines and timers *)
(* during the rating request (finalizeMiniGameSession's await).            *)
THEOREM EndsOnceCorrect == Spec => []EndsOnce
<1>1. GameInv => EndsOnce
  BY DEF GameInv
<1>. QED
  BY <1>1, GameCorrect, PTL

(* A session's timer fires Slack after its deadline, for any windows       *)
(* (scheduleMiniGameTimeout, handleMiniGameAccept).                        *)
THEOREM TimerCorrect == Spec => []TimerFollowsDeadline
<1>1. GameInv => TimerFollowsDeadline
  BY DEF GameInv
<1>. QED
  BY <1>1, GameCorrect, PTL

(* No challenge of the same direction before the cooldown is over          *)
(* (rpsChallengeCooldowns).                                                *)
THEOREM CooldownCorrect == Spec => []CooldownHolds
<1>1. GameInv => CooldownHolds
  BY DEF GameInv
<1>. QED
  BY <1>1, GameCorrect, PTL

(* Ratings only for a session the opponent accepted, for a winner who      *)
(* chose and a loser who was beaten or did not choose                      *)
(* (evaluateRpsChoices, finalizeMiniGameSession).                          *)
THEOREM JustCorrect == Spec => []Just
<1>1. GameInv => Just
  BY DEF GameInv, JustSeq, Just
<1>. QED
  BY <1>1, GameCorrect, PTL
-----------------------------------------------------------------------------
(* How a session goes on, and how it ends. *)
Continues(id) ==
  LET s == sessions[id]
      n == sessions'[id]
  IN  /\ n # None
      /\ n.challengerId = s.challengerId /\ n.opponentId = s.opponentId
      /\ \A u \in Users : s.choices[u] # None => n.choices[u] # None
      /\ \/ n.phase = s.phase /\ n.timeout <= s.timeout
         \/ s.phase = "invite" /\ n.phase = "active" /\ s.timeout >= Slack

Answered(id) == rating[id] # <<>> \/ results[id] # <<>>

Ends(id) == sessions'[id] = None /\ Answered(id)'

LEMMA AppendGrows ==
  ASSUME NEW q \in Seq(Result), NEW v \in Result
  PROVE  Append(q, v) # <<>>
<1>1. Len(Append(q, v)) = Len(q) + 1 /\ Len(q) \in Nat
  OBVIOUS
<1>2. Len(Append(q, v)) # 0
  BY <1>1
<1>3. Len(<<>>) = 0
  OBVIOUS
<1>. QED
  BY <1>2, <1>3

(* Ending a session leaves a verdict for it, and the others as they were. *)
LEMMA FinalizeEnds ==
  ASSUME GameInv, NEW id \in SessionIds, NEW s \in Session, NEW reason \in Reasons,
         Finalize(id, s, reason)
  PROVE  /\ Ends(id)
         /\ \A i \in SessionIds \ {id} : /\ sessions'[i] = sessions[i]
                                         /\ rating'[i] = rating[i] /\ results'[i] = results[i]
<1> DEFINE v == Verdict(s, reason)
<1>1. /\ sessions \in [SessionIds -> Optional(Session)]
      /\ rating \in [SessionIds -> Seq(Result)] /\ results \in [SessionIds -> Seq(Result)]
  BY DEF GameInv, TypeOK
<1>2. sessions' = [sessions EXCEPT ![id] = None]
  BY DEF Finalize
<1>3. \/ rating' = [rating EXCEPT ![id] = Append(@, v)] /\ UNCHANGED results
      \/ results' = [results EXCEPT ![id] = Append(@, v)] /\ UNCHANGED rating
  BY DEF Finalize
<1>0. v \in Result
  BY VerdictFacts
<1> HIDE DEF v
<1>4. Append(rating[id], v) # <<>> /\ Append(results[id], v) # <<>>
  BY <1>0, <1>1, AppendGrows
<1>5. \/ rating'[id] = Append(rating[id], v)
      \/ results'[id] = Append(results[id], v)
  BY <1>1, <1>3
<1>6. Ends(id)
  BY <1>1, <1>2, <1>4, <1>5 DEF Ends, Answered
<1>. QED
  BY <1>1, <1>2, <1>3, <1>6

LEMMA SessionStep ==
  ASSUME GameInv, NEW id \in SessionIds, Live(id), [Next]_vars
  PROVE  Continues(id) \/ Ends(id)
<1> DEFINE s == sessions[id]
<1>1. /\ s \in Session /\ s # None /\ s.timeout = s.expiresIn + Slack
      /\ s.expiresIn \in Int /\ s.timeout \in Int /\ Slack \in Int
  <2>1. s \in Session /\ s.timeout = s.expiresIn + Slack
    BY DEF GameInv, TypeOK, TimerFollowsDeadline
  <2>2. s.expiresIn \in Int
    BY <2>1, WindowAssumption DEF Session
  <2>. QED
    BY <2>1, <2>2, WindowAssumption
<1>2. sessions \in [SessionIds -> Optional(Session)]
  BY DEF GameInv, TypeOK
<1>3. sessions'[id] = s => Continues(id)
  BY <1>1 DEF Continues
<1>4. ASSUME NEW a \in Users, NEW b \in Users, NEW i \in SessionIds, Challenge(a, b, i)
      PROVE  Continues(id)
  <2>1. i # id
    BY <1>4 DEF Challenge, Unused
  <2>. QED
    BY <1>2, <1>3, <1>4, <2>1 DEF Challenge
<1>5. ASSUME NEW i \in SessionIds, NEW r \in Session, NEW reason \in Reasons,
             Finalize(i, r, reason)
      PROVE  Continues(id) \/ Ends(id)
  BY <1>3, <1>5, FinalizeEnds
<1>6. ASSUME NEW i \in SessionIds, NEW u \in Users, Accept(i, u)
      PROVE  Continues(id) \/ Ends(id)
  <2>1. CASE sessions[i].expiresIn < 0
    BY <1>2, <1>5, <1>6, <2>1 DEF Accept, Reasons
  <2>2. CASE ~(sessions[i].expiresIn < 0)
    <3>1. sessions' = [sessions EXCEPT ![i] = Accepted(sessions[i])] /\ sessions[i].phase = "invite"
      BY <1>6, <2>2 DEF Accept
    <3>2. CASE i # id
      BY <1>2, <1>3, <3>1, <3>2
    <3>3. CASE i = id
      <4>1. sessions'[id] = Accepted(s) /\ s.phase = "invite" /\ s.timeout >= Slack
        BY <1>1, <1>2, <2>2, <3>1, <3>3
      <4>2. /\ Accepted(s).challengerId = s.challengerId /\ Accepted(s).opponentId = s.opponentId
            /\ Accepted(s).choices = s.choices /\ Accepted(s).phase = "active"
        BY <1>1 DEF Accepted, Session
      <4>3. Accepted(s) \in Session
        <5>1. ChoiceWindow \in (-Slack) .. LongestWindow
          BY WindowAssumption DEF LongestWindow
        <5>2. ChoiceWindow + Slack \in 0 .. LongestWindow + Slack
          BY WindowAssumption DEF LongestWindow
        <5>. QED
          BY <1>1, <5>1, <5>2 DEF Accepted, Session
      <4>. QED
        BY <4>1, <4>2, <4>3, NoRecord DEF Continues
    <3>. QED
      BY <3>2, <3>3
  <2>. QED
    BY <2>1, <2>2
<1>7. ASSUME NEW i \in SessionIds, NEW u \in Users, NEW c \in Choices, Choose(i, u, c)
      PROVE  Continues(id) \/ Ends(id)
  <2> DEFINE n == [sessions[i] EXCEPT !.choices[u] = c]
  <2>0. sessions[i] \in Session /\ n \in Session
    BY <1>2, <1>7 DEF Choose, Session
  <2>1. CASE \E reason \in Reasons : Finalize(i, sessions[i], reason) \/ Finalize(i, n, reason)
    BY <1>5, <2>0, <2>1
  <2>2. CASE sessions' = [sessions EXCEPT ![i] = n]
    <3>1. CASE i # id
      BY <1>2, <1>3, <2>2, <3>1
    <3>2. CASE i = id
      <4>1. sessions'[id] = n /\ n \in Session
        BY <1>1, <1>2, <2>2, <3>2 DEF Session
      <4>2. /\ n.challengerId = s.challengerId /\ n.opponentId = s.opponentId
            /\ n.phase = s.phase /\ n.timeout = s.timeout
            /\ \A w \in Users : s.choices[w] # None => n.choices[w] # None
        BY <1>1, <3>2, NoneAssumption DEF Session, Choices
      <4> HIDE DEF n
      <4>. QED
        BY <1>1, <4>1, <4>2, NoRecord DEF Continues
    <3>. QED
      BY <3>1, <3>2
  <2>. QED
    BY <1>7, <2>1, <2>2 DEF Choose, Reasons
<1>8. CASE \E i \in SessionIds : Decline(i) \/ Timeout(i)
  BY <1>2, <1>5, <1>8 DEF Decline, Timeout, Reasons
<1>9. CASE UNCHANGED sessions
  BY <1>3, <1>9
<1>10. CASE Tick
  <2>1. /\ sessions'[id] # None
        /\ sessions'[id].challengerId = s.challengerId /\ sessions'[id].opponentId = s.opponentId
        /\ sessions'[id].phase = s.phase /\ sessions'[id].choices = s.choices
        /\ sessions'[id].timeout = Less(s.expiresIn, -Slack) + Slack
    BY <1>10, TickSession, NoRecord
  <2>2. s.expiresIn \in (-Slack) .. LongestWindow /\ LongestWindow \in Nat
    BY <1>1, WindowAssumption DEF Session, LongestWindow
  <2>3. Less(s.expiresIn, -Slack) + Slack <= s.timeout
    BY <1>1, <2>2, WindowAssumption DEF Less
  <2>. QED
    BY <2>1, <2>3 DEF Continues
<1>. QED
  BY <1>4, <1>6, <1>7, <1>8, <1>9, <1>10 DEF Next, Rated, Arrive, Depart, vars

(* Until it ends, a session keeps its players, nobody's choice is unmade,  *)
(* and its deadline comes nearer, but for the accept, which comes before   *)
(* the deadline of the invitation and only once; and a session goes away   *)
(* only when there is a verdict for it, sent or being rated                *)
(* (handleMiniGameAccept, handleMiniGameChoice, finalizeMiniGameSession).  *)
SessionsProgress == [][\A id \in SessionIds : Live(id) => Continues(id) \/ Ends(id)]_vars

THEOREM ProgressCorrect == Spec => SessionsProgress
<1>1. GameInv /\ [Next]_vars => [\A id \in SessionIds : Live(id) => Continues(id) \/ Ends(id)]_vars
  BY SessionStep
<1>. QED
  BY <1>1, GameCorrect, PTL DEF Spec, SessionsProgress

(* A session whose result was sent stays over: no answer, timer or rating  *)
(* that comes later sends another result or brings the session back.       *)
ResultsAreFinal ==
  [][\A id \in SessionIds :
       results[id] # <<>> => sessions'[id] = None /\ results'[id] = results[id]]_vars

(* Two lengths, one of which counts. *)
LEMMA OneOfTwo ==
  ASSUME NEW n \in Nat, NEW m \in Nat
  PROVE  /\ n # 0 \/ m # 0 => ~(n + m <= 0)
         /\ m # 0 /\ n + m <= 1 => n = 0
OBVIOUS

LEMMA OverStays ==
  ASSUME GameInv, NEW id \in SessionIds, results[id] # <<>>, [Next]_vars
  PROVE  sessions'[id] = None /\ results'[id] = results[id]
<1>1. sessions[id] = None /\ rating[id] = <<>>
  <2>1. rating[id] \in Seq(Result) /\ results[id] \in Seq(Result)
    BY DEF GameInv, TypeOK
  <2>2. Len(results[id]) # 0 /\ Len(results[id]) \in Nat /\ Len(rating[id]) \in Nat
    BY <2>1
  <2>3. /\ Live(id) => Len(rating[id]) + Len(results[id]) <= 0
        /\ ~Live(id) => Len(rating[id]) + Len(results[id]) <= 1
    BY DEF GameInv, EndsOnce
  <2>4. ~Live(id) /\ Len(rating[id]) = 0
    BY <2>2, <2>3, OneOfTwo, Zenon
  <2>. QED
    BY <2>1, <2>4
<1>2. /\ sessions \in [SessionIds -> Optional(Session)]
      /\ results \in [SessionIds -> Seq(Result)]
  BY DEF GameInv, TypeOK
<1>3. ASSUME NEW i \in SessionIds, NEW r \in Session, NEW reason \in Reasons, Live(i),
             Finalize(i, r, reason)
      PROVE  sessions'[id] = None /\ results'[id] = results[id]
  BY <1>1, <1>3, FinalizeEnds
<1>4. ASSUME NEW a \in Users, NEW b \in Users, NEW i \in SessionIds, Challenge(a, b, i)
      PROVE  sessions'[id] = None /\ results'[id] = results[id]
  <2>1. i # id
    BY <1>4 DEF Challenge, Unused
  <2>. QED
    BY <1>1, <1>2, <1>4, <2>1 DEF Challenge
<1>5. ASSUME NEW i \in SessionIds, NEW n, Live(i), sessions' = [sessions EXCEPT ![i] = n],
             UNCHANGED results
      PROVE  sessions'[id] = None /\ results'[id] = results[id]
  BY <1>1, <1>2, <1>5
<1>6. ASSUME NEW i \in SessionIds, NEW u \in Users, Accept(i, u)
      PROVE  sessions'[id] = None /\ results'[id] = results[id]
  BY <1>2, <1>3, <1>5, <1>6 DEF Accept, Reasons
<1>7. ASSUME NEW i \in SessionIds, NEW u \in Users, NEW c \in Choices, Choose(i, u, c)
      PROVE  sessions'[id] = None /\ results'[id] = results[id]
  <2> DEFINE n == [sessions[i] EXCEPT !.choices[u] = c]
  <2>1. sessions[i] \in Session /\ n \in Session /\ Live(i)
    BY <1>2, <1>7 DEF Choose, Session
  <2>. QED
    BY <1>3, <1>5, <1>7, <2>1 DEF Choose, Reasons
<1>8. CASE \E i \in SessionIds : Decline(i) \/ Timeout(i)
  BY <1>2, <1>3, <1>8 DEF Decline, Timeout, Reasons
<1>9. CASE \E i \in SessionIds : Rated(i)
  BY <1>1, <1>2, <1>9 DEF Rated
<1>10. CASE Tick
  BY <1>1, <1>10 DEF Tick
<1>. QED
  BY <1>1, <1>4, <1>6, <1>7, <1>8, <1>9, <1>10 DEF Next, Arrive, Depart, vars

THEOREM FinalCorrect == Spec => ResultsAreFinal
<1>1. GameInv /\ [Next]_vars =>
        [\A id \in SessionIds :
           results[id] # <<>> => sessions'[id] = None /\ results'[id] = results[id]]_vars
  BY OverStays
<1>. QED
  BY <1>1, GameCorrect, PTL DEF Spec, ResultsAreFinal
-----------------------------------------------------------------------------
(* A due timer can fire, a rating request that is pending can settle, and  *)
(* time can go on while a timer runs: each is the guard of its action, or  *)
(* implies it, and the rest are assignments that change something.  The    *)
(* provers know nothing of ENABLED, so these are hypotheses.               *)
Due(id) == Live(id) /\ sessions[id].timeout = 0

TimerRuns == \E id \in SessionIds : Live(id) /\ sessions[id].timeout # 0

TimeoutCanFire(id) == Due(id) => ENABLED <<Timeout(id)>>_vars

RatedCanSettle(id) == rating[id] # <<>> => ENABLED <<Rated(id)>>_vars

TickCanHappen == TimerRuns => ENABLED <<Tick>>_vars

StepsCanHappen ==
  TickCanHappen /\ \A id \in SessionIds : TimeoutCanFire(id) /\ RatedCanSettle(id)

(* A due session ends, or stays due: its timer is not pushed out. *)
LEMMA DueStep ==
  ASSUME GameInv, NEW id \in SessionIds, Due(id), [Next]_vars
  PROVE  Due(id)' \/ Answered(id)'
<1>1. CASE Ends(id)
  BY <1>1 DEF Ends
<1>2. CASE Continues(id)
  <2>1. GameInv'
    BY GameStep
  <2>2. sessions'[id] \in Session /\ sessions'[id].timeout # None
    <3>1. sessions'[id] \in Session
      BY <1>2, <2>1 DEF Continues, GameInv, TypeOK
    <3>2. sessions'[id].timeout = sessions'[id].expiresIn + Slack
      BY <1>2, <2>1 DEF Continues, GameInv, TimerFollowsDeadline
    <3>3. sessions'[id].expiresIn \in Int /\ Slack \in Int
      BY <3>1, WindowAssumption DEF Session
    <3>. QED
      BY <3>1, <3>2, <3>3, NoRecord
  <2>3. sessions'[id].timeout \in 0 .. LongestWindow + Slack
    BY <2>2 DEF Session
  <2>4. sessions'[id].timeout <= 0
    BY <1>2, WindowAssumption DEF Continues, Due
  <2>. QED
    BY <1>2, <2>3, <2>4, WindowAssumption DEF Continues, Due, LongestWindow
<1>. QED
  BY <1>1, <1>2, SessionStep DEF Due

LEMMA RatedSends ==
  ASSUME GameInv, NEW id \in SessionIds, Rated(id)
  PROVE  results'[id] # <<>>
<1>1. rating[id] \in Seq(Result) /\ results[id] \in Seq(Result) /\ rating[id] # <<>>
  BY DEF Rated, GameInv, TypeOK
<1>2. Head(rating[id]) \in Result
  BY <1>1
<1>3. results'[id] = Append(results[id], Head(rating[id]))
  BY DEF Rated, GameInv, TypeOK
<1>. QED
  BY <1>1, <1>2, <1>3, AppendGrows

LEMMA RatingStep ==
  ASSUME GameInv, NEW id \in SessionIds, rating[id] # <<>>, [Next]_vars
  PROVE  Answered(id)'
<1>1. sessions[id] = None
  <2>1. rating[id] \in Seq(Result) /\ results[id] \in Seq(Result)
    BY DEF GameInv, TypeOK
  <2>2. Len(results[id]) \in Nat /\ Len(rating[id]) \in Nat /\ Len(rating[id]) # 0
    BY <2>1
  <2>3. Live(id) => Len(rating[id]) + Len(results[id]) <= 0
    BY DEF GameInv, EndsOnce
  <2>. QED
    BY <2>2, <2>3, OneOfTwo, Zenon
<1>2. rating'[id] = rating[id] => Answered(id)'
  BY DEF Answered
<1>3. ASSUME NEW i \in SessionIds, NEW r \in Session, NEW reason \in Reasons, Live(i),
             Finalize(i, r, reason)
      PROVE  Answered(id)'
  BY <1>1, <1>2, <1>3, FinalizeEnds
<1>4. sessions \in [SessionIds -> Optional(Session)]
  BY DEF GameInv, TypeOK
<1>5. ASSUME NEW i \in SessionIds, NEW u \in Users, Accept(i, u)
      PROVE  Answered(id)'
  BY <1>2, <1>3, <1>4, <1>5 DEF Accept, Reasons
<1>6. ASSUME NEW i \in SessionIds, NEW u \in Users, NEW c \in Choices, Choose(i, u, c)
      PROVE  Answered(id)'
  <2> DEFINE n == [sessions[i] EXCEPT !.choices[u] = c]
  <2>1. sessions[i] \in Session /\ n \in Session /\ Live(i)
    BY <1>4, <1>6 DEF Choose, Session
  <2>. QED
    BY <1>2, <1>3, <1>6, <2>1 DEF Choose, Reasons
<1>7. CASE \E i \in SessionIds : Decline(i) \/ Timeout(i)
  BY <1>3, <1>4, <1>7 DEF Decline, Timeout, Reasons
<1>8. ASSUME NEW i \in SessionIds, Rated(i)
      PROVE  Answered(id)'
  <2>1. CASE i # id
    BY <1>2, <1>8, <2>1 DEF Rated, GameInv, TypeOK
  <2>2. CASE i = id
    BY <1>8, <2>2, RatedSends DEF Answered
  <2>. QED
    BY <2>1, <2>2
<1>. QED
  BY <1>2, <1>5, <1>6, <1>7, <1>8 DEF Next, Challenge, Tick, Arrive, Depart, vars

LEMMA DueEnds ==
  ASSUME NEW id \in SessionIds, []GameInv, [][Next]_vars, []StepsCanHappen
  PROVE  TimeoutIsFair(id) /\ RatedIsFair(id) => (Due(id) ~> results[id] # <<>>)
<1> DEFINE due == Due(id)
           waits == rating[id] # <<>>
           sent == results[id] # <<>>
<1>1. GameInv /\ due /\ [Next]_vars => due' \/ waits' \/ sent'
  BY DueStep DEF Answered
<1>2. GameInv /\ <<Timeout(id)>>_vars => waits' \/ sent'
  <2> SUFFICES ASSUME GameInv, Timeout(id) PROVE waits' \/ sent'
    OBVIOUS
  <2>1. sessions[id] \in Session
    BY DEF Timeout, GameInv, TypeOK
  <2>. QED
    BY <2>1, FinalizeEnds DEF Timeout, Ends, Answered, Reasons
<1>3. GameInv /\ waits /\ [Next]_vars => waits' \/ sent'
  BY RatingStep DEF Answered
<1>4. GameInv /\ <<Rated(id)>>_vars => sent'
  BY RatedSends
<1>5. StepsCanHappen => (due => ENABLED <<Timeout(id)>>_vars)
  BY DEF StepsCanHappen, TimeoutCanFire
<1>6. StepsCanHappen => (waits => ENABLED <<Rated(id)>>_vars)
  BY DEF StepsCanHappen, RatedCanSettle
<1> HIDE DEF due, waits, sent
<1>7. TimeoutIsFair(id) /\ RatedIsFair(id) => (due ~> sent)
  BY <1>1, <1>2, <1>3, <1>4, <1>5, <1>6, PTL DEF TimeoutIsFair, RatedIsFair
<1>. QED
  BY <1>7 DEF due, sent

(* A session whose timer is due ends in a result, whatever accepts,        *)
(* choices and declines reach it before its timer does, and whether the    *)
(* rating request is answered or not (scheduleMiniGameTimeout,             *)
(* finalizeMiniGameSession).                                               *)
DueSessionEnds == \A id \in SessionIds : Due(id) ~> results[id] # <<>>

THEOREM DueCorrect == FairSpec /\ []StepsCanHappen => DueSessionEnds
<1> SUFFICES ASSUME NEW id \in SessionIds
             PROVE  FairSpec /\ []StepsCanHappen => (Due(id) ~> results[id] # <<>>)
  BY DEF DueSessionEnds
<1>1. Fairness => TimeoutIsFair(id) /\ RatedIsFair(id)
  BY DEF Fairness
<1>. QED
  BY <1>1, GameCorrect, DueEnds, PTL DEF FairSpec, Spec
-----------------------------------------------------------------------------
(* How far a session is: an accepted one is nearer to its end than an      *)
(* invitation, and of two in the same phase the one with less time left.   *)
IsAt(id, phase, n) ==
  Live(id) /\ sessions[id].phase = phase /\ sessions[id].timeout = n

IsNearer(id, phase, n) ==
  \/ Answered(id)
  \/ /\ Live(id)
     /\ \/ sessions[id].phase = phase /\ sessions[id].timeout < n
        \/ phase = "invite" /\ sessions[id].phase = "active"

(* No step takes a session back. *)
LEMMA NearerStep ==
  ASSUME GameInv, NEW id \in SessionIds, NEW phase, NEW n \in Nat, IsAt(id, phase, n),
         [Next]_vars
  PROVE  IsAt(id, phase, n)' \/ IsNearer(id, phase, n)'
<1>1. CASE Ends(id)
  BY <1>1 DEF Ends, IsNearer
<1>2. CASE Continues(id)
  <2>1. sessions'[id].timeout \in Int
    <3>1. GameInv'
      BY GameStep
    <3>2. sessions'[id] \in Session
      BY <1>2, <3>1 DEF Continues, GameInv, TypeOK
    <3>3. sessions'[id].timeout = sessions'[id].expiresIn + Slack
      BY <1>2, <3>1 DEF Continues, GameInv, TimerFollowsDeadline
    <3>4. sessions'[id].expiresIn \in Int
      BY <3>2, WindowAssumption DEF Session
    <3>. QED
      BY <3>3, <3>4, WindowAssumption
  <2>2. CASE sessions'[id].phase = phase /\ sessions'[id].timeout <= n
    <3>1. sessions'[id].timeout = n \/ sessions'[id].timeout < n
      BY <2>1, <2>2
    <3>. QED
      BY <1>2, <2>2, <3>1 DEF Continues, IsAt, IsNearer
  <2>3. CASE phase = "invite" /\ sessions'[id].phase = "active"
    BY <1>2, <2>3 DEF Continues, IsNearer
  <2>. QED
    BY <1>2, <2>2, <2>3 DEF Continues, IsAt
<1>. QED
  BY <1>1, <1>2, SessionStep DEF IsAt

LEMMA TickNears ==
  ASSUME GameInv, NEW id \in SessionIds, NEW phase, NEW n \in Nat \ {0}, IsAt(id, phase, n), Tick
  PROVE  IsNearer(id, phase, n)'
<1> DEFINE s == sessions[id]
<1>1. s \in Session /\ s.timeout = s.expiresIn + Slack
  BY DEF IsAt, GameInv, TypeOK, TimerFollowsDeadline
<1>2. s.expiresIn \in Int
  BY <1>1, WindowAssumption DEF Session
<1>3. Less(s.expiresIn, -Slack) + Slack < n
  BY <1>1, <1>2, WindowAssumption DEF IsAt, Less
<1>4. /\ sessions'[id] # None
      /\ sessions'[id].phase = phase
      /\ sessions'[id].timeout = Less(s.expiresIn, -Slack) + Slack
  BY TickSession, NoRecord DEF IsAt
<1>. QED
  BY <1>3, <1>4 DEF IsNearer

LEMMA NearsInTime ==
  ASSUME NEW id \in SessionIds, NEW phase, NEW n \in Nat \ {0},
         []GameInv, [][Next]_vars, []StepsCanHappen
  PROVE  TickIsFair => (IsAt(id, phase, n) ~> IsNearer(id, phase, n))
<1> DEFINE here == IsAt(id, phase, n)
           nearer == IsNearer(id, phase, n)
<1>1. GameInv /\ here /\ [Next]_vars => here' \/ nearer'
  BY NearerStep
<1>2. GameInv /\ here /\ <<Tick>>_vars => nearer'
  BY TickNears
<1>3. here => TimerRuns
  BY DEF IsAt, TimerRuns
<1>4. StepsCanHappen => (TimerRuns => ENABLED <<Tick>>_vars)
  BY DEF StepsCanHappen, TickCanHappen
<1> HIDE DEF here, nearer
<1>5. TickIsFair => (here ~> nearer)
  BY <1>1, <1>2, <1>3, <1>4, PTL DEF TickIsFair
<1>. QED
  BY <1>5 DEF here, nearer

(* A session whose timer still runs comes nearer to its end: nothing that  *)
(* a client sends keeps it where it is (handleMiniGameChoice does not set  *)
(* the timer again, handleMiniGameAccept does only once).  The time left   *)
(* is a number, so this comes to an end in an answer or a timer that is    *)
(* due, and DueSessionEnds goes on from there.                             *)
SessionsDrawNearer ==
  \A id \in SessionIds, phase \in {"invite", "active"}, n \in Nat \ {0} :
    IsAt(id, phase, n) ~> IsNearer(id, phase, n)

THEOREM NearerCorrect == FairSpec /\ []StepsCanHappen => SessionsDrawNearer
<1> SUFFICES ASSUME NEW id \in SessionIds, NEW phase \in {"invite", "active"},
                    NEW n \in Nat \ {0}
             PROVE  FairSpec /\ []StepsCanHappen =>
                      (IsAt(id, phase, n) ~> IsNearer(id, phase, n))
  BY DEF SessionsDrawNearer
<1>1. Fairness => TickIsFair
  BY DEF Fairness
<1>. QED
  BY <1>1, GameCorrect, NearsInTime, PTL DEF FairSpec, Spec
=============================================================================
