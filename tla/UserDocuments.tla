---------------------------- MODULE UserDocuments ----------------------------
(***************************************************************************)
(* The calls of the express server that change user documents one read and *)
(* one write at a time (src/src/express-server/firebaseCalls.js):          *)
(* recordRpsResult, setSidePreference, updateUserData, createAccount,      *)
(* createTitleFlair and the flair grants; with what the websocket server   *)
(* makes of them: the cached rpsElo of finalizeMiniGameSession and the     *)
(* pings of handleEstimatePing, with their retries.                        *)
(*                                                                         *)
(* What a call writes is identified by the call: a rating is the set of    *)
(* results in it, a side preference the call that chose the sides, a name  *)
(* or a ping the call that brought it.  The fields winStreak and elo, that *)
(* updateUserData writes too, are not here.                                *)
(*                                                                         *)
(* A document is stored under an email and found by the uid in it.  Each   *)
(* user stands for an email too, the user's own: docs[u] is the document   *)
(* under the email of u, and is u's as long as its uid is u.  An operator  *)
(* whose name ends in Mutant is the one after it with a plausible bug in   *)
(* it, and unused.                                                         *)
(***************************************************************************)
EXTENDS Naturals, FiniteSets, Sequences

CONSTANTS
  Users,
  Accounts,    \* which users may have a document already, a set of sets
  Visitors,    \* the users who connect to the websocket server (a bound)
  Calls,       \* the calls of one behaviour (a bound)
  Requests,    \* what may be asked for
  Flairs,      \* titles of flairs
  InFlight,    \* how many calls run at once (a bound)
  MaxTries,    \* 5: retries of an estimate
  None

Sides == {1, 2}
Kinds == {"rps", "side", "ping", "name", "lists", "flair", "account", "title"}

Optional(S) == S \cup {None}

OnePerPeer(pings) == \A p, q \in pings : p[1] = q[1] => p = q

(* who: challenger and opponent, owner and opponent of a preference, or    *)
(* the two users of an estimate; of the other kinds, the user and nobody.  *)
(* name and lists are updateUserData, with a new userName and without one; *)
(* aliases and pings are the whole lists that the client may send with     *)
(* either.  email is the one in the body of createAccount.                 *)
Request == [kind : Kinds, who : Users \X Optional(Users), email : Optional(Users),
            flair : Optional(Flairs), aliases : Optional(SUBSET Calls),
            pings : Optional(SUBSET (Users \X Calls))]

ASSUME RequestAssumption ==
  /\ Requests \subseteq Request
  /\ \A r \in Requests :
       /\ r.who[1] # r.who[2]
       /\ r.kind \in {"rps", "side", "ping"} <=> r.who[2] \in Users
       /\ r.kind \in {"flair", "title"} => r.flair \in Flairs
       /\ r.kind = "account" => r.email \in Users
       /\ r.pings # None => OnePerPeer(r.pings)       \* clients send one ping of a peer
ASSUME BoundAssumption == InFlight \in Nat \ {0} /\ MaxTries \in Nat
ASSUME NoneAssumption == None \notin Users \cup Calls \cup Flairs

(* A user's document; a preference or name it does not have is None. *)
Doc == [uid : Users, rpsElo : SUBSET Calls, sidePreferences : [Users -> Optional(Calls)],
        lastKnownPings : SUBSET (Users \X Calls), userName : Optional(Calls),
        knownAliases : SUBSET Calls, assignedFlairs : SUBSET Flairs]

(* The field a call reads and writes.  createAccount asks whether there is *)
(* any document; titles is a document of its own.                          *)
FieldOf == [rps |-> "rpsElo", side |-> "sidePreferences", ping |-> "lastKnownPings",
            name |-> "userName", lists |-> "knownAliases", flair |-> "assignedFlairs",
            account |-> "uid", title |-> "titles"]

VARIABLES
  docs,      \* users, by email
  titles,    \* titles/data
  cache,     \* rpsElo in connectedUsers, of the users who are connected
  pc,        \* where each call is
  call,      \* what each was asked and has read, and which reads or writes are left
  expired,   \* side preferences whose hour is over
  raced,     \* history: fields that two calls worked on at the same time
  torn,      \* history: fields of calls with a write that failed
  borrowed,  \* history: who created an account under another's email, and the other
  dropped    \* history: aliases that a list sent by a client left out

vars == <<docs, titles, cache, pc, call, expired, raced, torn, borrowed, dropped>>
history == <<raced, torn, borrowed, dropped>>

ASSUME NoDocAssumption == None \notin Doc

NoSides == [v \in Users |-> None]

NewDoc(u, c) == [uid |-> u, rpsElo |-> {}, sidePreferences |-> NoSides, lastKnownPings |-> {},
                 userName |-> c, knownAliases |-> {}, assignedFlairs |-> {}]

NoCall == [kind |-> None, who |-> <<None, None>>, email |-> None, flair |-> None,
           aliases |-> None, pings |-> None, todo |-> {}, ref |-> <<None, None>>,
           snap |-> <<None, None>>, tries |-> 0, failed |-> FALSE]

Init ==
  /\ \E known \in Accounts :
       docs = [u \in Users |-> IF u \in known THEN NewDoc(u, None) ELSE None]
  /\ titles = <<>>
  /\ cache = [u \in Users |-> None]
  /\ pc = [c \in Calls |-> "idle"]
  /\ call = [c \in Calls |-> NoCall]
  /\ expired = {}
  /\ raced = {} /\ torn = {} /\ borrowed = {} /\ dropped = {}

Running == {c \in Calls : pc[c] \in {"read", "write", "alias", "answer"}}

(* Results and sides are of both users, the other calls of the first one. *)
SidesOfMutant(kind) == IF kind = "rps" THEN Sides ELSE {1}

SidesOf(kind) == IF kind \in {"rps", "side"} THEN Sides ELSE {1}

FieldsOf(kind, who) ==
  IF kind = "title" THEN {<<None, "titles">>}
                    ELSE {<<who[i], FieldOf[kind]>> : i \in SidesOf(kind)}

Fields(c) == FieldsOf(call[c].kind, call[c].who)

Go(c, to) == pc' = [pc EXCEPT ![c] = to]
-----------------------------------------------------------------------------
Start(c, r) ==
  /\ pc[c] = "idle" /\ Cardinality(Running) < InFlight
  /\ Go(c, "read")
  /\ call' = [call EXCEPT ![c] = [NoCall EXCEPT
       !.kind = r.kind, !.who = r.who, !.email = r.email, !.flair = r.flair,
       !.aliases = r.aliases, !.pings = r.pings, !.todo = SidesOf(r.kind)]]
  /\ raced' = raced \cup (FieldsOf(r.kind, r.who) \cap UNION {Fields(d) : d \in Running})
  /\ UNCHANGED <<docs, titles, cache, expired, torn, borrowed, dropped>>

Reading(c, i, kinds) == pc[c] = "read" /\ i \in call[c].todo /\ call[c].kind \in kinds

(* What was read is kept, and the document it is from; after the last read *)
(* the writes are due.                                                     *)
Got(c, i, e, value) ==
  LET last == call[c].todo = {i}
  IN  /\ call' = [call EXCEPT ![c].snap[i] = value, ![c].ref[i] = e,
                    ![c].todo = IF last THEN SidesOf(call[c].kind) ELSE @ \ {i}]
      /\ IF last THEN Go(c, "write") ELSE UNCHANGED pc

Ends(c) == Go(c, "ended") /\ call' = [call EXCEPT ![c] = NoCall]

Unread == UNCHANGED <<docs, titles, cache, expired, history>>

(* where('uid', '==', u): the emails with a document of u. *)
DocsOf(u) == {e \in Users : docs[e] # None /\ docs[e].uid = u}

(* getUserDocByUid, twice for two users, or the same query, of which the   *)
(* code takes the first document; nothing is assumed of their order.  A    *)
(* call about a user without a document ends.                              *)
ReadUser(c, i) ==
  LET found == DocsOf(call[c].who[i])
  IN  /\ Reading(c, i, {"rps", "side", "ping", "name", "lists", "flair"})
      /\ \/ found = {} /\ Ends(c)
         \/ \E e \in found : Got(c, i, e, docs[e][FieldOf[call[c].kind]])
      /\ Unread

(* createAccount: nothing is done when the uid has a document. *)
ReadAccount(c) ==
  /\ Reading(c, 1, {"account"})
  /\ IF DocsOf(call[c].who[1]) # {} THEN Ends(c) ELSE Got(c, 1, call[c].email, None)
  /\ Unread

(* createTitleFlair: nothing is done when the title exists. *)
ExistsMutant(list, flair) == FALSE       \* alreadyExists is not looked at

Exists(list, flair) == \E n \in DOMAIN list : list[n] = flair

ReadTitles(c) ==
  /\ Reading(c, 1, {"title"})
  /\ IF Exists(titles, call[c].flair) THEN Ends(c) ELSE Got(c, 1, None, titles)
  /\ Unread

(* handleEstimatePing: one of the two has no position yet; the estimate is *)
(* tried again after 250 ms, MaxTries times.                               *)
MayRetryMutant(tries) == tries <= MaxTries          \* counted before the increment

MayRetry(tries) == tries < MaxTries

RetryEstimate(c) ==
  /\ Reading(c, 1, {"ping"})
  /\ IF MayRetry(call[c].tries)
       THEN call' = [call EXCEPT ![c].tries = @ + 1] /\ UNCHANGED pc
       ELSE Ends(c)
  /\ Unread
-----------------------------------------------------------------------------
(* The writes.  Where a call goes when its last write is over.             *)
After(c, failed) ==
  IF failed THEN "failed"
  ELSE CASE call[c].kind = "rps"  -> "answer"
         [] call[c].kind = "name" -> "alias"
         [] OTHER                 -> "ok"

Wrote(c, i, failed) ==
  /\ call' = [call EXCEPT ![c].todo = @ \ {i}, ![c].failed = failed]
  /\ IF call[c].todo = {i} THEN Go(c, After(c, failed)) ELSE UNCHANGED pc

Writing(c, i, kind) == pc[c] = "write" /\ i \in call[c].todo /\ call[c].kind = kind

(* set({ field: value }, { merge: true }), which leaves the other fields. *)
StoredMutant(doc, field, value, c) == [NewDoc(doc.uid, c) EXCEPT ![field] = value]  \* no merge

Stored(doc, field, value, c) == [doc EXCEPT ![field] = value]

Store(c, i, value) ==
  /\ docs' = [docs EXCEPT ![call[c].ref[i]] = Stored(@, FieldOf[call[c].kind], value, c)]
  /\ Wrote(c, i, call[c].failed)
  /\ UNCHANGED <<titles, cache, expired, history>>

(* recordRpsResult: the rating that was read, with the result. *)
Rated(elo, c) == elo \cup {c}

RecordRpsResult(c, i) == Writing(c, i, "rps") /\ Store(c, i, Rated(call[c].snap[i], c))

(* setSidePreference: the entries that were read, the expired ones left    *)
(* out, and the new one for the other user.  The merge goes into the map:  *)
(* entries the value does not have stay.                                   *)
Fresh(prefs) == [v \in Users |-> IF prefs[v] \in expired THEN None ELSE prefs[v]]

Merged(old, new) == [v \in Users |-> IF new[v] = None THEN old[v] ELSE new[v]]

SetSidePreference(c, i) ==
  LET prefs == [Fresh(call[c].snap[i]) EXCEPT ![call[c].who[3 - i]] = c]
  IN  /\ Writing(c, i, "side")
      /\ Store(c, i, Merged(docs[call[c].ref[i]].sidePreferences, prefs))

(* handleEstimatePing: the pings that were read, with this one of the peer *)
(* instead of an older one; updateUserData stores them.                    *)
EstimatedMutant(pings, v, c) == pings \cup {<<v, c>>}          \* the filter is forgotten

Estimated(pings, v, c) == {p \in pings : p[1] # v} \cup {<<v, c>>}

UpdatePings(c) ==
  Writing(c, 1, "ping") /\ Store(c, 1, Estimated(call[c].snap[1], call[c].who[2], c))

(* updateUserData: what the client sends takes the place of what is there, *)
(* the lists as a whole.  After a new userName, the list of aliases.       *)
Sent(list, old) == IF list = None THEN old ELSE list

Updated(doc, c) ==
  [doc EXCEPT !.userName = IF call[c].kind = "name" THEN c ELSE @,
              !.knownAliases = Sent(call[c].aliases, @),
              !.lastKnownPings = Sent(call[c].pings, @)]

UpdateUserData(c) ==
  LET e == call[c].ref[1]
  IN  /\ Writing(c, 1, "name") \/ Writing(c, 1, "lists")
      /\ docs' = [docs EXCEPT ![e] = Updated(@, c)]
      /\ dropped' = dropped \cup (docs[e].knownAliases \ Updated(docs[e], c).knownAliases)
      /\ Wrote(c, 1, FALSE)
      /\ UNCHANGED <<titles, cache, expired, raced, torn, borrowed>>

AddAlias(c) ==
  /\ pc[c] = "alias" /\ Go(c, "ok")
  /\ docs' = [docs EXCEPT ![call[c].ref[1]].knownAliases = @ \cup {c}]
  /\ UNCHANGED <<titles, cache, call, expired, history>>

(* createAccount, which sets the whole document under the email it was     *)
(* given, whoever's document is there.                                     *)
CreateAccount(c) ==
  LET u == call[c].who[1]
      e == call[c].email
  IN  /\ Writing(c, 1, "account")
      /\ docs' = [docs EXCEPT ![e] = NewDoc(u, c)]
      /\ borrowed' = IF e = u THEN borrowed ELSE borrowed \cup {u, e}
      /\ Wrote(c, 1, FALSE)
      /\ UNCHANGED <<titles, cache, expired, raced, torn, dropped>>

(* createTitleFlair: the list that was read, and the title. *)
CreateTitle(c) ==
  /\ Writing(c, 1, "title")
  /\ titles' = Append(call[c].snap[1], call[c].flair)
  /\ Wrote(c, 1, FALSE)
  /\ UNCHANGED <<docs, cache, expired, history>>

(* addAssignedFlair: arrayUnion, which is applied to what is there. *)
GrantFlair(c) ==
  /\ Writing(c, 1, "flair")
  /\ Store(c, 1, docs[call[c].ref[1]].assignedFlairs \cup {call[c].flair})

(* A Firestore call rejects.  A read ends the call; of two writes that     *)
(* were sent together the other one still takes place.                     *)
FailRead(c) == pc[c] = "read" /\ Ends(c) /\ Unread

FailWrite(c, i) ==
  /\ pc[c] = "write" /\ i \in call[c].todo
  /\ Wrote(c, i, TRUE)
  /\ torn' = torn \cup Fields(c)
  /\ UNCHANGED <<docs, titles, cache, expired, raced, borrowed, dropped>>

FailAlias(c) == pc[c] = "alias" /\ Go(c, "failed") /\ UNCHANGED <<call>> /\ Unread
-----------------------------------------------------------------------------
(* finalizeMiniGameSession, when the ratings are answered: what the two    *)
(* have cached, if they are connected, becomes the answer, which is what   *)
(* was computed and not what the documents say by now.  The answer may be  *)
(* lost.                                                                   *)
Forget(c) == call' = [call EXCEPT ![c].snap = <<None, None>>]

AnsweredMutant(c, cached, i) == cached            \* the entry is put back unchanged

Answered(c, cached, i) == IF cached = None THEN None ELSE Rated(call[c].snap[i], c)

Deliver(c) ==
  /\ pc[c] = "answer" /\ Go(c, "ok") /\ Forget(c)
  /\ cache' = [u \in Users |->
       IF \E i \in Sides : u = call[c].who[i]
         THEN Answered(c, cache[u], CHOOSE i \in Sides : u = call[c].who[i])
         ELSE cache[u]]
  /\ UNCHANGED <<docs, titles, expired, history>>

LoseAnswer(c) ==
  /\ pc[c] = "answer" /\ Go(c, "lost") /\ Forget(c)
  /\ UNCHANGED <<docs, titles, cache, expired, history>>

(* handleJoin, with the rating the client found in its document; close. *)
Arrive(u) ==
  /\ cache[u] = None
  /\ \E e \in DocsOf(u) : cache' = [cache EXCEPT ![u] = docs[e].rpsElo]
  /\ UNCHANGED <<docs, titles, pc, call, expired, history>>

Depart(u) ==
  /\ cache[u] # None
  /\ cache' = [cache EXCEPT ![u] = None]
  /\ UNCHANGED <<docs, titles, pc, call, expired, history>>

(* An hour passes for the preference that call c made. *)
Expire(c) ==
  /\ c \notin expired /\ \E u, v \in Users : docs[u] # None /\ docs[u].sidePreferences[v] = c
  /\ expired' = expired \cup {c}
  /\ UNCHANGED <<docs, titles, cache, pc, call, history>>
-----------------------------------------------------------------------------
Step(c) ==
  \/ ReadAccount(c) \/ ReadTitles(c) \/ RetryEstimate(c)
  \/ UpdatePings(c) \/ UpdateUserData(c) \/ AddAlias(c) \/ GrantFlair(c)
  \/ CreateAccount(c) \/ CreateTitle(c)
  \/ Deliver(c) \/ LoseAnswer(c) \/ FailRead(c) \/ FailAlias(c)
  \/ \E i \in Sides : ReadUser(c, i) \/ RecordRpsResult(c, i) \/ SetSidePreference(c, i)
                      \/ FailWrite(c, i)

Next ==
  \/ \E c \in Calls : Step(c) \/ Expire(c) \/ \E r \in Requests : Start(c, r)
  \/ \E u \in Visitors : Arrive(u) \/ Depart(u)

Spec == Init /\ [][Next]_vars
-----------------------------------------------------------------------------
(* Documents, lists, cached ratings and calls keep to their types. *)
TypeOK ==
  /\ docs \in [Users -> Optional(Doc)]
  /\ titles \in Seq(Flairs)
  /\ cache \in [Users -> Optional(SUBSET Calls)]
  /\ pc \in [Calls -> {"idle", "read", "write", "alias", "answer",
                       "ok", "ended", "failed", "lost"}]
  /\ \A c \in Calls : call[c] = NoCall \/
       [kind |-> call[c].kind, who |-> call[c].who, email |-> call[c].email,
        flair |-> call[c].flair, aliases |-> call[c].aliases, pings |-> call[c].pings] \in Requests
  /\ \A c \in Calls : call[c].tries \in 0 .. MaxTries
  /\ expired \subseteq Calls
  /\ raced \cup torn \subseteq (Users \X {FieldOf[k] : k \in Kinds}) \cup {<<None, "titles">>}
  /\ borrowed \subseteq Users /\ dropped \subseteq Calls

Over(c, kind) == pc[c] \in {"ok", "lost"} /\ call[c].kind = kind

(* What one call brings no other call loses: calls on different fields of  *)
(* a document overlap and fail in any order.  A result that no other call  *)
(* raced with is in the rating of both players, a flair in its list, and   *)
(* an alias too unless a client has sent a whole list without it.  This    *)
(* holds of a user whose account was not created twice at once and who had *)
(* no part in an account under somebody else's email: either can set a     *)
(* document anew.                                                          *)
Kept(u) == u \notin borrowed /\ <<u, "uid">> \notin raced

ResultsAreKept ==
  \A c \in Calls, i \in Sides : LET u == call[c].who[i] IN u \in Users /\ Kept(u) =>
    /\ Over(c, "rps") /\ Fields(c) \cap raced = {} => c \in docs[u].rpsElo
    /\ Over(c, "name") /\ i = 1 => c \in docs[u].knownAliases \cup dropped
    /\ Over(c, "flair") => call[c].flair \in docs[u].assignedFlairs

(* Lists that are read, changed and written back have no doubles, whatever *)
(* overlaps and however often an estimate is tried again: each title once, *)
(* and for each peer one ping.                                             *)
ListsHaveNoDoubles ==
  /\ \A m, n \in DOMAIN titles : titles[m] = titles[n] => m = n
  /\ \A u \in Users : docs[u] # None =>
       \A p, q \in docs[u].lastKnownPings : p[1] = q[1] => p = q

(* Two players' preferences about each other are of the same call while    *)
(* they last, unless two calls changed one of them at once, a write failed *)
(* or is on its way.                                                       *)
Settled(u) ==
  Kept(u) /\ <<u, "sidePreferences">> \notin raced \cup torn \cup UNION {Fields(c) : c \in Running}

SidesAgree ==
  \A u, v \in {w \in Users : docs[w] # None /\ Settled(w)} :
    Fresh(docs[u].sidePreferences)[v] = Fresh(docs[v].sidePreferences)[u]

(* When the ratings of a session are answered and nothing else changed     *)
(* them meanwhile, then what the server has cached of the players who are  *)
(* still there is what their documents say.                                *)
RatingsFollow ==
  [][\A c \in Calls : pc[c] = "answer" /\ pc'[c] = "ok" /\ Fields(c) \cap raced = {} =>
       \A i \in Sides : LET u == call[c].who[i] IN Kept(u) =>
         cache'[u] = IF cache[u] = None THEN None ELSE docs'[u].rpsElo]_vars
=============================================================================
