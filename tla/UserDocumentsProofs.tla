------------------------ MODULE UserDocumentsProofs -------------------------
(***************************************************************************)
(* Theorems about UserDocuments, for any users, calls, requests and        *)
(* bounds, in three layers: DocInv, the typing, with which come lists      *)
(* without doubles; RaceInv, with which no result is lost and no answered  *)
(* rating is stale unless its field was raced; SideInv, with which side    *)
(* preferences agree.                                                      *)
(***************************************************************************)
EXTENDS UserDocuments, TLAPS

USE DEF Optional, Sides

(* A list without doubles. *)
Distinct(list) == \A m, n \in DOMAIN list : list[m] = list[n] => m = n

(* What a call of each kind can have read, and store. *)
Value(kind) ==
  CASE kind = "rps"   -> SUBSET Calls
    [] kind = "side"  -> [Users -> Optional(Calls)]
    [] kind = "ping"  -> {pings \in SUBSET (Users \X Calls) : OnePerPeer(pings)}
    [] kind = "name"  -> Optional(Calls)
    [] kind = "lists" -> SUBSET Calls
    [] kind = "flair" -> SUBSET Flairs
    [] kind = "title" -> {list \in Seq(Flairs) : Distinct(list)}
    [] OTHER          -> {None}

UserKinds == {"rps", "side", "ping", "name", "lists", "flair"}

GoodDoc == {d \in Doc : OnePerPeer(d.lastKnownPings)}

Snap == UNION {Value(kind) : kind \in Kinds}

Record == [kind : Optional(Kinds), who : Optional(Users) \X Optional(Users),
           email : Optional(Users), flair : Optional(Flairs), aliases : Optional(SUBSET Calls),
           pings : Optional(SUBSET (Users \X Calls)), todo : SUBSET Sides,
           ref : [Sides -> Optional(Users)], snap : [Sides -> Snap],
           tries : 0 .. MaxTries, failed : BOOLEAN]

Statuses == {"idle", "read", "write", "alias", "answer", "ok", "ended", "failed", "lost"}

Asks(r) == [kind |-> r.kind, who |-> r.who, email |-> r.email, flair |-> r.flair,
            aliases |-> r.aliases, pings |-> r.pings] \in Requests

(* A call where it is: what it was asked, and what it has read so far. *)
WellCalled(at, r) ==
  /\ r \in Record
  /\ IF at \in {"idle", "ended"} THEN r = NoCall ELSE Asks(r) /\ r.todo \subseteq SidesOf(r.kind)
  /\ at = "read" => \A i \in SidesOf(r.kind) \ r.todo : r.snap[i] \in Value(r.kind)
  /\ at = "write" => \A i \in SidesOf(r.kind) : r.snap[i] \in Value(r.kind)
  /\ at = "write" /\ r.kind = "title" => ~Exists(r.snap[1], r.flair)
  /\ at = "answer" => r.kind = "rps" /\ \A i \in Sides : r.snap[i] \in Value("rps")
  /\ at = "alias" => r.kind = "name"
  /\ at = "lost" => r.kind = "rps"

(* Whose a document may be: the owner's of the email, unless an account    *)
(* was created under another email and both have borrowed.                 *)
Owner(e, u) == e = u \/ {e, u} \subseteq borrowed

OwnDocs == \A e \in Users : docs[e] # None => Owner(e, docs[e].uid)

(* A document that a call has found is there for good. *)
Found(r, i) == r.ref[i] \in Users /\ docs[r.ref[i]] # None /\ Owner(r.ref[i], r.who[i])

HasFound(at, r) ==
  at # "idle" /\ at # "ended" /\ r.kind \in UserKinds =>
    \A i \in SidesOf(r.kind) : at # "read" \/ i \notin r.todo => Found(r, i)

Fields0 == (Users \X {FieldOf[k] : k \in Kinds}) \cup {<<None, "titles">>}

DocInv ==
  /\ docs \in [Users -> Optional(GoodDoc)]
  /\ titles \in Value("title")
  /\ cache \in [Users -> Optional(SUBSET Calls)]
  /\ pc \in [Calls -> Statuses]
  /\ call \in [Calls -> Record]
  /\ \A c \in Calls : WellCalled(pc[c], call[c]) /\ HasFound(pc[c], call[c])
  /\ expired \subseteq Calls
  /\ raced \cup torn \subseteq Fields0
  /\ OwnDocs /\ borrowed \subseteq Users /\ dropped \subseteq Calls

(* The invariant contains the two properties. *)
LEMMA InvIsType == DocInv => TypeOK
<1> SUFFICES ASSUME DocInv
             PROVE  TypeOK
  OBVIOUS
<1>1. docs \in [Users -> Optional(Doc)]
  BY DEF DocInv, GoodDoc
<1>2. titles \in Seq(Flairs)
  BY DEF DocInv, Value
<1>3. ASSUME NEW c \in Calls
      PROVE  /\ call[c] = NoCall \/ Asks(call[c])
             /\ call[c].tries \in 0 .. MaxTries
  BY DEF DocInv, WellCalled, Record
<1>. QED
  BY <1>1, <1>2, <1>3 DEF DocInv, TypeOK, Asks, Fields0, Statuses

LEMMA InvIsDistinct == DocInv => ListsHaveNoDoubles
BY DEF DocInv, ListsHaveNoDoubles, Value, Distinct, OnePerPeer, GoodDoc
-----------------------------------------------------------------------------
(* What a call of a kind can have in hand. *)
LEMMA SnapType ==
  ASSUME NEW kind \in Kinds
  PROVE  Value(kind) \subseteq Snap
BY DEF Snap

LEMMA NoneIsSnap == None \in Snap
<1>1. "account" \in Kinds /\ Value("account") = {None}
  BY DEF Kinds, Value
<1>. QED
  BY <1>1 DEF Snap

LEMMA NoCallIsRecord == NoCall \in Record
<1>1. <<None, None>> \in [Sides -> Snap]
  BY NoneIsSnap
<1>. QED
  BY <1>1, BoundAssumption DEF NoCall, Record

LEMMA AskedFacts ==
  ASSUME NEW r, r \in Record, Asks(r)
  PROVE  /\ r.kind \in Kinds /\ r.who[1] \in Users
         /\ SidesOf(r.kind) \subseteq Sides /\ 1 \in SidesOf(r.kind)
         /\ \A i \in SidesOf(r.kind) : r.who[i] \in Users
         /\ r.kind \in {"rps", "side", "ping"} <=> r.who[2] \in Users
         /\ r.kind \in {"flair", "title"} => r.flair \in Flairs
         /\ r.kind = "account" => r.email \in Users
         /\ r.pings # None => r.pings \in Value("ping")
         /\ r.kind \notin {"rps", "side"} => SidesOf(r.kind) = {1}
         /\ r.who[1] # r.who[2]
<1> DEFINE q == [kind |-> r.kind, who |-> r.who, email |-> r.email, flair |-> r.flair,
                 aliases |-> r.aliases, pings |-> r.pings]
<1>1. q \in Requests /\ q \in Request
  BY RequestAssumption DEF Asks
<1>2. r.pings # None => r.pings \in Value("ping")
  <2>1. r.pings # None => r.pings \in SUBSET (Users \X Calls) /\ OnePerPeer(r.pings)
    BY <1>1, RequestAssumption DEF Request
  <2>. QED
    BY <2>1 DEF Value
<1>3. /\ r.kind = q.kind /\ r.who = q.who /\ r.email = q.email /\ r.flair = q.flair
  OBVIOUS
<1> HIDE DEF q
<1>4. /\ q.kind \in Kinds /\ q.who \in Users \X Optional(Users) /\ q.who[1] # q.who[2]
      /\ q.kind \in {"rps", "side", "ping"} <=> q.who[2] \in Users
      /\ q.kind \in {"flair", "title"} => q.flair \in Flairs
      /\ q.kind = "account" => q.email \in Users
  BY <1>1, RequestAssumption DEF Request
<1>. QED
  BY <1>2, <1>3, <1>4 DEF SidesOf

(* Fields of documents. *)
LEMMA FieldType ==
  ASSUME NEW kind \in UserKinds, NEW d \in GoodDoc
  PROVE  d[FieldOf[kind]] \in Value(kind)
<1>1. /\ d.rpsElo \in SUBSET Calls /\ d.sidePreferences \in [Users -> Optional(Calls)]
      /\ d.lastKnownPings \in SUBSET (Users \X Calls) /\ d.userName \in Optional(Calls)
      /\ d.knownAliases \in SUBSET Calls
      /\ d.assignedFlairs \in SUBSET Flairs /\ OnePerPeer(d.lastKnownPings)
  BY DEF GoodDoc, Doc
<1>. QED
  BY <1>1 DEF UserKinds, FieldOf, Value

StoreKinds == {"rps", "side", "ping", "flair"}

LEMMA StoredType ==
  ASSUME NEW kind \in StoreKinds, NEW d \in GoodDoc, NEW value \in Value(kind), NEW c,
         NEW new, new = Stored(d, FieldOf[kind], value, c)
  PROVE  /\ new \in GoodDoc /\ new.knownAliases = d.knownAliases /\ new.uid = d.uid
         /\ kind = "rps" => new.rpsElo = value
         /\ kind # "rps" => new.rpsElo = d.rpsElo
         /\ kind = "flair" => new.assignedFlairs = value
         /\ kind # "flair" => new.assignedFlairs = d.assignedFlairs
         /\ kind = "side" => new.sidePreferences = value
         /\ kind # "side" => new.sidePreferences = d.sidePreferences
<1>1. CASE kind = "rps"
  BY <1>1 DEF FieldOf, Value, Stored, GoodDoc, Doc
<1>2. CASE kind = "side"
  BY <1>2 DEF FieldOf, Value, Stored, GoodDoc, Doc
<1>3. CASE kind = "ping"
  BY <1>3 DEF FieldOf, Value, Stored, GoodDoc, Doc
<1>4. CASE kind = "flair"
  BY <1>4 DEF FieldOf, Value, Stored, GoodDoc, Doc
<1>. QED
  BY <1>1, <1>2, <1>3, <1>4 DEF StoreKinds

(* The same, as one fact about the document that is stored. *)
Updates(new, d, kind, value) ==
  /\ new \in GoodDoc /\ new.knownAliases = d.knownAliases /\ new.uid = d.uid
  /\ kind = "rps" => new.rpsElo = value
  /\ kind # "rps" => new.rpsElo = d.rpsElo
  /\ kind = "flair" => new.assignedFlairs = value
  /\ kind # "flair" => new.assignedFlairs = d.assignedFlairs
  /\ kind = "side" => new.sidePreferences = value
  /\ kind # "side" => new.sidePreferences = d.sidePreferences

LEMMA StoredUpdates ==
  ASSUME NEW kind \in StoreKinds, NEW d \in GoodDoc, NEW value \in Value(kind), NEW c
  PROVE  Updates(Stored(d, FieldOf[kind], value, c), d, kind, value)
<1> DEFINE new == Stored(d, FieldOf[kind], value, c)
<1>1. new = Stored(d, FieldOf[kind], value, c)
  OBVIOUS
<1> HIDE DEF new
<1>2. Updates(new, d, kind, value)
  BY <1>1, StoredType DEF Updates
<1>. QED
  BY <1>1, <1>2

(* What updateUserData makes of a document. *)
LEMMA UpdatedType ==
  ASSUME DocInv, NEW c \in Calls, Asks(call[c]), NEW d \in GoodDoc, NEW new, new = Updated(d, c)
  PROVE  /\ new \in GoodDoc /\ new.uid = d.uid /\ new.rpsElo = d.rpsElo
         /\ new.assignedFlairs = d.assignedFlairs /\ new.sidePreferences = d.sidePreferences
<1> DEFINE name == IF call[c].kind = "name" THEN c ELSE d.userName
           aliases == Sent(call[c].aliases, d.knownAliases)
           pings == Sent(call[c].pings, d.lastKnownPings)
<1>1. call[c] \in Record /\ d \in Doc /\ OnePerPeer(d.lastKnownPings)
  BY DEF DocInv, GoodDoc
<1>2. name \in Optional(Calls) /\ aliases \in SUBSET Calls
  BY <1>1 DEF Record, Doc, Sent
<1>3. pings \in SUBSET (Users \X Calls) /\ OnePerPeer(pings)
  <2>1. CASE call[c].pings = None
    BY <1>1, <2>1 DEF Sent, Doc
  <2>2. CASE call[c].pings # None
    BY <1>1, <2>2, AskedFacts DEF Sent, Value
  <2>. QED
    BY <2>1, <2>2
<1>4. new = [d EXCEPT !.userName = name, !.knownAliases = aliases, !.lastKnownPings = pings]
  BY <1>1 DEF Updated, Doc
<1> HIDE DEF name, aliases, pings
<1>. QED
  BY <1>1, <1>2, <1>3, <1>4 DEF GoodDoc, Doc

LEMMA NewDocType ==
  ASSUME NEW u \in Users, NEW c \in Optional(Calls)
  PROVE  NewDoc(u, c) \in GoodDoc /\ NewDoc(u, c).uid = u
BY DEF NewDoc, GoodDoc, Doc, NoSides, OnePerPeer

(* The lists that calls make of what they have read. *)
LEMMA EstimatedType ==
  ASSUME NEW pings \in Value("ping"), NEW v \in Users, NEW c \in Calls
  PROVE  Estimated(pings, v, c) \in Value("ping")
BY DEF Value, Estimated, OnePerPeer

LEMMA AppendedType ==
  ASSUME NEW list \in Value("title"), NEW f \in Flairs, ~Exists(list, f)
  PROVE  Append(list, f) \in Value("title")
<1>1. list \in Seq(Flairs) /\ Distinct(list) /\ Append(list, f) \in Seq(Flairs)
  BY DEF Value
<1>2. /\ DOMAIN list = 1 .. Len(list) /\ DOMAIN Append(list, f) = 1 .. Len(list) + 1
      /\ \A n \in 1 .. Len(list) : Append(list, f)[n] = list[n]
      /\ Append(list, f)[Len(list) + 1] = f /\ Len(list) \in Nat
  BY <1>1
<1>3. \A n \in 1 .. Len(list) : list[n] # f
  BY <1>2 DEF Exists
<1>4. Distinct(Append(list, f))
  BY <1>1, <1>2, <1>3 DEF Distinct
<1>. QED
  BY <1>1, <1>4 DEF Value

LEMMA PrefsType ==
  ASSUME NEW old \in Value("side"), NEW snap \in Value("side"), NEW v \in Users, NEW c \in Calls
  PROVE  Merged(old, [Fresh(snap) EXCEPT ![v] = c]) \in Value("side")
BY DEF Value, Merged, Fresh
-----------------------------------------------------------------------------
LEMMA DocInit == Init => DocInv
<1> SUFFICES ASSUME Init
             PROVE  DocInv
  OBVIOUS
<1>1. docs \in [Users -> Optional(GoodDoc)]
  BY NewDocType DEF Init
<1>2. titles \in Value("title")
  <2>1. <<>> \in Seq(Flairs) /\ Distinct(<<>>)
    BY DEF Distinct
  <2>. QED
    BY <2>1 DEF Init, Value
<1>3. \A c \in Calls : WellCalled(pc[c], call[c]) /\ HasFound(pc[c], call[c])
  BY NoCallIsRecord DEF Init, WellCalled, HasFound
<1>4. OwnDocs
  BY DEF Init, OwnDocs, Owner, NewDoc
<1>. QED
  BY <1>1, <1>2, <1>3, <1>4, NoCallIsRecord DEF Init, DocInv, Statuses

(* A step of one call: the others stay where they are, and no document is  *)
(* deleted.                                                                *)
Moves(c) ==
  /\ pc' \in [Calls -> Statuses] /\ call' \in [Calls -> Record]
  /\ \A d \in Calls \ {c} : pc'[d] = pc[d] /\ call'[d] = call[d]

Kept0 == \A e \in Users : docs[e] # None => docs'[e] # None

HistoryGrows ==
  borrowed \subseteq borrowed' /\ borrowed' \subseteq Users /\ dropped' \subseteq Calls /\ OwnDocs'

LEMMA StillOwned ==
  ASSUME DocInv, UNCHANGED <<docs, borrowed, dropped>>
  PROVE  HistoryGrows /\ Kept0
BY DEF DocInv, HistoryGrows, Kept0, OwnDocs, Owner

LEMMA FoundStays ==
  ASSUME DocInv, NEW d \in Calls, Kept0, HistoryGrows, pc'[d] = pc[d], call'[d] = call[d]
  PROVE  (WellCalled(pc[d], call[d]) /\ HasFound(pc[d], call[d]))'
<1>1. WellCalled(pc[d], call[d]) /\ HasFound(pc[d], call[d])
  BY DEF DocInv
<1>2. WellCalled(pc[d], call[d])'
  BY <1>1 DEF WellCalled, SidesOf, Exists, Value, Asks, NoCall
<1>3. HasFound(pc[d], call[d])'
  <2> SUFFICES ASSUME pc[d] # "idle", pc[d] # "ended", call[d].kind \in UserKinds,
                      NEW i \in SidesOf(call[d].kind), pc[d] # "read" \/ i \notin call[d].todo
               PROVE  Found(call[d], i)'
    BY DEF HasFound
  <2>1. Found(call[d], i)
    BY <1>1 DEF HasFound
  <2>. QED
    BY <2>1 DEF Kept0, HistoryGrows, Found, Owner
<1>. QED
  BY <1>2, <1>3

LEMMA MoveKeeps ==
  ASSUME DocInv, NEW c \in Calls, Moves(c), Kept0, HistoryGrows,
         (WellCalled(pc[c], call[c]) /\ HasFound(pc[c], call[c]))',
         docs' \in [Users -> Optional(GoodDoc)], titles' \in Value("title"),
         cache' \in [Users -> Optional(SUBSET Calls)], expired' \subseteq Calls,
         raced' \cup torn' \subseteq Fields0
  PROVE  DocInv'
<1>1. ASSUME NEW d \in Calls
      PROVE  (WellCalled(pc[d], call[d]) /\ HasFound(pc[d], call[d]))'
  <2>1. CASE d = c
    BY <2>1
  <2>2. CASE d # c
    BY <2>2, FoundStays DEF Moves
  <2>. QED
    BY <2>1, <2>2
<1>. QED
  BY <1>1 DEF DocInv, Moves, HistoryGrows, Fields0, Value
-----------------------------------------------------------------------------
(* What a read leaves of a call. *)
Edited(r, i, e, value, todo) == [r EXCEPT !.snap[i] = value, !.ref[i] = e, !.todo = todo]

LEMMA SnapEdit ==
  ASSUME NEW r \in Record, NEW i \in Sides, NEW e \in Optional(Users), NEW value \in Snap,
         NEW todo \in SUBSET Sides, NEW q, q = Edited(r, i, e, value, todo)
  PROVE  /\ q \in Record /\ q.todo = todo
         /\ q.snap[i] = value /\ \A j \in Sides \ {i} : q.snap[j] = r.snap[j]
         /\ q.ref[i] = e /\ \A j \in Sides \ {i} : q.ref[j] = r.ref[j]
         /\ q.kind = r.kind /\ q.who = r.who /\ q.flair = r.flair
         /\ q.tries = r.tries /\ q.failed = r.failed /\ (Asks(r) => Asks(q))
<1>1. /\ [r.snap EXCEPT ![i] = value] \in [Sides -> Snap]
      /\ [r.ref EXCEPT ![i] = e] \in [Sides -> Optional(Users)]
  BY DEF Record
<1>2. q \in Record
  <2> DEFINE s == [r.snap EXCEPT ![i] = value]
             f == [r.ref EXCEPT ![i] = e]
  <2>1. q = [[[r EXCEPT !.snap = s] EXCEPT !.ref = f] EXCEPT !.todo = todo]
    BY DEF Record, Edited
  <2>2. s \in [Sides -> Snap] /\ f \in [Sides -> Optional(Users)]
    BY <1>1
  <2> HIDE DEF s, f
  <2> DEFINE a == [r EXCEPT !.snap = s]
             b == [a EXCEPT !.ref = f]
  <2>3. a \in Record
    BY <2>2 DEF Record
  <2> HIDE DEF a
  <2>4. b \in Record
    BY <2>2, <2>3 DEF Record
  <2>5. q = [b EXCEPT !.todo = todo]
    BY <2>1 DEF a
  <2> HIDE DEF b
  <2>. QED
    BY <2>4, <2>5 DEF Record
<1>3. /\ q.todo = todo /\ q.kind = r.kind /\ q.who = r.who /\ q.email = r.email
      /\ q.flair = r.flair /\ q.aliases = r.aliases /\ q.pings = r.pings
      /\ q.tries = r.tries /\ q.failed = r.failed
      /\ q.snap = [r.snap EXCEPT ![i] = value] /\ q.ref = [r.ref EXCEPT ![i] = e]
  BY DEF Record, Edited
<1>4. /\ q.snap[i] = value /\ \A j \in Sides \ {i} : q.snap[j] = r.snap[j]
      /\ q.ref[i] = e /\ \A j \in Sides \ {i} : q.ref[j] = r.ref[j]
  BY <1>3 DEF Record
<1>5. Asks(r) => Asks(q)
  BY <1>3 DEF Asks
<1>. QED
  BY <1>2, <1>3, <1>4, <1>5

LEMMA FieldsType ==
  ASSUME NEW r \in Record, Asks(r)
  PROVE  FieldsOf(r.kind, r.who) \subseteq Fields0
BY AskedFacts DEF FieldsOf, Fields0

LEMMA GotKeeps ==
  ASSUME DocInv, NEW c \in Calls, NEW i \in Sides, NEW e \in Optional(Users),
         NEW value \in Value(call[c].kind),
         pc[c] = "read", i \in call[c].todo, Got(c, i, e, value), Unread,
         call[c].kind = "title" => ~Exists(value, call[c].flair),
         call[c].kind \in UserKinds => e \in Users /\ docs[e] # None /\ Owner(e, call[c].who[i])
  PROVE  DocInv'
<1> DEFINE r == call[c]
           all == SidesOf(r.kind)
           todo == IF r.todo = {i} THEN all ELSE r.todo \ {i}
           q == Edited(r, i, e, value, todo)
<1>1. /\ WellCalled("read", r) /\ HasFound("read", r)
      /\ r \in Record /\ Asks(r) /\ r.todo \subseteq all /\ all \subseteq Sides
  <2>1. WellCalled("read", r) /\ HasFound("read", r)
    BY DEF DocInv
  <2>2. r \in Record /\ Asks(r) /\ r.todo \subseteq all
    BY <2>1 DEF WellCalled
  <2>. QED
    BY <2>1, <2>2, AskedFacts
<1>2. value \in Snap
  BY <1>1, AskedFacts, SnapType
<1>3. todo \in SUBSET Sides /\ todo \subseteq all
  BY <1>1
<1>4. /\ call' = [call EXCEPT ![c] = q]
      /\ pc' = IF r.todo = {i} THEN [pc EXCEPT ![c] = "write"] ELSE pc
  BY DEF Got, Go, Edited
<1> HIDE DEF todo
<1>5. q = Edited(r, i, e, value, todo)
  OBVIOUS
<1> HIDE DEF q
<1>6. /\ q \in Record /\ q.todo = todo
      /\ q.snap[i] = value /\ \A j \in Sides \ {i} : q.snap[j] = r.snap[j]
      /\ q.ref[i] = e /\ \A j \in Sides \ {i} : q.ref[j] = r.ref[j]
      /\ q.kind = r.kind /\ q.who = r.who /\ q.flair = r.flair /\ Asks(q)
  BY <1>1, <1>2, <1>3, <1>5, SnapEdit
<1>7. /\ Moves(c) /\ call'[c] = q /\ UNCHANGED <<docs, borrowed, dropped>>
      /\ pc'[c] = IF r.todo = {i} THEN "write" ELSE "read"
  BY <1>4, <1>6 DEF DocInv, Moves, Unread, history, Statuses
<1>8. \A j \in all : j = i \/ j \notin r.todo => q.snap[j] \in Value(r.kind)
  BY <1>1, <1>6 DEF WellCalled, Record
<1>9. WellCalled(pc'[c], q)
  <2>1. Asks(q) /\ q.todo \subseteq SidesOf(q.kind)
    BY <1>1, <1>3, <1>6
  <2>2. CASE r.todo = {i}
    <3>1. \A j \in all : q.snap[j] \in Value(q.kind)
      BY <1>6, <1>8, <2>2
    <3>2. q.kind = "title" => q.snap[1] = value
      BY <1>1, <1>6 DEF SidesOf
    <3>. QED
      BY <1>6, <1>7, <2>1, <2>2, <3>1, <3>2 DEF WellCalled
  <2>3. CASE r.todo # {i}
    <3>1. todo = r.todo \ {i}
      BY <2>3 DEF todo
    <3>2. \A j \in all \ todo : q.snap[j] \in Value(q.kind)
      BY <1>6, <1>8, <3>1
    <3>. QED
      BY <1>6, <1>7, <2>1, <2>3, <3>2 DEF WellCalled
  <2>. QED
    BY <2>2, <2>3
<1>10. HasFound(pc'[c], q)
  <2> SUFFICES ASSUME r.kind \in UserKinds, NEW j \in all, r.todo = {i} \/ j \notin todo
               PROVE  Found(q, j)
    BY <1>6, <1>7 DEF HasFound
  <2>1. j = i \/ j \notin r.todo
    BY DEF todo
  <2>2. CASE j = i
    BY <1>6, <2>2 DEF Found
  <2>3. CASE j # i
    <3>1. Found(r, j)
      BY <1>1, <2>1, <2>3 DEF HasFound
    <3>. QED
      BY <1>1, <1>6, <2>3, <3>1 DEF Found
  <2>. QED
    BY <2>2, <2>3
<1>11. (WellCalled(pc[c], call[c]) /\ HasFound(pc[c], call[c]))'
  BY <1>7, <1>9, <1>10
     DEF WellCalled, HasFound, Found, Owner, Exists, Asks, SidesOf, Value, NoCall
<1>. QED
  BY <1>7, <1>11, StillOwned, MoveKeeps DEF DocInv, Unread, history, Value

(* A call that ends without having stored anything. *)
LEMMA EndKeeps ==
  ASSUME DocInv, NEW c \in Calls, Ends(c), Unread
  PROVE  DocInv'
<1>1. Moves(c) /\ call'[c] = NoCall /\ pc'[c] = "ended"
  BY NoCallIsRecord DEF Ends, Go, DocInv, Moves, Statuses
<1>2. (WellCalled(pc[c], call[c]) /\ HasFound(pc[c], call[c]))'
  BY <1>1, NoCallIsRecord DEF WellCalled, HasFound
<1>. QED
  BY <1>1, <1>2, StillOwned, MoveKeeps DEF DocInv, Unread, history, Value

LEMMA ReadKeeps ==
  ASSUME DocInv, NEW c \in Calls,
         \/ ReadAccount(c) \/ ReadTitles(c) \/ RetryEstimate(c) \/ FailRead(c)
         \/ \E i \in Sides : ReadUser(c, i)
  PROVE  DocInv'
<1>1. WellCalled(pc[c], call[c]) /\ call[c] \in Record
  BY DEF DocInv
<1>2. ASSUME NEW i \in Sides, ReadUser(c, i)
      PROVE  DocInv'
  <2> DEFINE kind == call[c].kind
  <2>1. pc[c] = "read" /\ i \in call[c].todo /\ kind \in UserKinds /\ Unread
    BY <1>2 DEF ReadUser, Reading, UserKinds
  <2>2. ASSUME NEW e \in DocsOf(call[c].who[i]), Got(c, i, e, docs[e][FieldOf[kind]])
        PROVE  DocInv'
    <3>1. e \in Users /\ docs[e] # None /\ Owner(e, call[c].who[i]) /\ docs[e] \in GoodDoc
      BY <2>2 DEF DocsOf, DocInv, OwnDocs
    <3>2. docs[e][FieldOf[kind]] \in Value(kind)
      BY <2>1, <3>1, FieldType
    <3>. QED
      BY <2>1, <2>2, <3>1, <3>2, GotKeeps DEF UserKinds
  <2>. QED
    BY <1>2, <2>1, <2>2, EndKeeps DEF ReadUser
<1>3. CASE ReadAccount(c)
  <2>1. pc[c] = "read" /\ 1 \in call[c].todo /\ call[c].kind = "account" /\ Unread
    BY <1>3 DEF ReadAccount, Reading
  <2>2. None \in Value(call[c].kind)
    BY <2>1 DEF Value
  <2>3. Ends(c) \/ Got(c, 1, call[c].email, None)
    BY <1>3 DEF ReadAccount
  <2>4. call[c].email \in Optional(Users)
    BY <1>1 DEF Record
  <2>. QED
    BY <2>1, <2>2, <2>3, <2>4, EndKeeps, GotKeeps DEF UserKinds
<1>4. CASE ReadTitles(c)
  <2>1. pc[c] = "read" /\ 1 \in call[c].todo /\ call[c].kind = "title" /\ Unread
    BY <1>4 DEF ReadTitles, Reading
  <2>2. titles \in Value(call[c].kind)
    BY <2>1 DEF DocInv
  <2>3. Ends(c) \/ (~Exists(titles, call[c].flair) /\ Got(c, 1, None, titles))
    BY <1>4 DEF ReadTitles
  <2>. QED
    BY <2>1, <2>2, <2>3, EndKeeps, GotKeeps DEF UserKinds
<1>5. CASE RetryEstimate(c)
  <2>1. pc[c] = "read" /\ Unread
    BY <1>5 DEF RetryEstimate, Reading
  <2>2. CASE MayRetry(call[c].tries)
    <3> DEFINE q == [call[c] EXCEPT !.tries = @ + 1]
    <3>1. call' = [call EXCEPT ![c] = q] /\ pc' = pc
      BY <1>5, <2>2 DEF RetryEstimate
    <3>2. call[c].tries + 1 \in 0 .. MaxTries
      BY <1>1, <2>2, BoundAssumption DEF MayRetry, Record
    <3>3. /\ q \in Record /\ q.kind = call[c].kind /\ q.who = call[c].who
          /\ q.flair = call[c].flair /\ q.todo = call[c].todo /\ q.snap = call[c].snap
          /\ q.ref = call[c].ref /\ (Asks(call[c]) => Asks(q))
      BY <1>1, <3>2 DEF Record, Asks
    <3> HIDE DEF q
    <3>4. /\ Moves(c) /\ call'[c] = q /\ pc'[c] = "read" /\ UNCHANGED <<docs, borrowed, dropped>>
      BY <2>1, <3>1, <3>3 DEF DocInv, Moves, Unread, history
    <3>5. WellCalled("read", q) /\ HasFound("read", q)
      BY <1>1, <2>1, <3>3 DEF DocInv, WellCalled, HasFound, Found
    <3>6. (WellCalled(pc[c], call[c]) /\ HasFound(pc[c], call[c]))'
      BY <3>4, <3>5 DEF WellCalled, HasFound, Found, Owner, Exists, Asks, SidesOf, Value, NoCall
    <3>. QED
      BY <2>1, <3>4, <3>6, StillOwned, MoveKeeps DEF DocInv, Unread, history, Value
  <2>3. CASE ~MayRetry(call[c].tries)
    BY <1>5, <2>1, <2>3, EndKeeps DEF RetryEstimate
  <2>. QED
    BY <2>2, <2>3
<1>6. CASE FailRead(c)
  BY <1>6, EndKeeps DEF FailRead
<1>. QED
  BY <1>2, <1>3, <1>4, <1>5, <1>6
-----------------------------------------------------------------------------
(* What a write leaves of a call. *)
Past(r, i, failed) == [r EXCEPT !.todo = @ \ {i}, !.failed = failed]

LEMMA PastEdit ==
  ASSUME NEW r \in Record, NEW i \in Sides, NEW failed \in BOOLEAN, NEW q, q = Past(r, i, failed)
  PROVE  /\ q \in Record /\ q.todo = r.todo \ {i} /\ q.snap = r.snap /\ q.ref = r.ref
         /\ q.kind = r.kind /\ q.who = r.who /\ q.flair = r.flair /\ q.failed = failed
         /\ (Asks(r) => Asks(q))
BY DEF Record, Past, Asks

LEMMA WroteCall ==
  ASSUME DocInv, NEW c \in Calls, NEW i \in Sides, NEW failed \in BOOLEAN,
         pc[c] = "write", Wrote(c, i, failed)
  PROVE  /\ Moves(c) /\ call'[c] = Past(call[c], i, failed)
         /\ pc'[c] = IF call[c].todo = {i} THEN After(c, failed) ELSE "write"
<1>1. call' = [call EXCEPT ![c] = Past(call[c], i, failed)]
  BY DEF Wrote, Past
<1>2. call[c] \in Record /\ call \in [Calls -> Record] /\ pc \in [Calls -> Statuses]
  BY DEF DocInv
<1>3. Past(call[c], i, failed) \in Record
  BY <1>2, PastEdit
<1>4. After(c, failed) \in Statuses
  BY DEF After, Statuses
<1>5. pc' = IF call[c].todo = {i} THEN [pc EXCEPT ![c] = After(c, failed)] ELSE pc
  BY DEF Wrote, Go
<1>6. call' \in [Calls -> Record] /\ \A d \in Calls \ {c} : call'[d] = call[d]
  BY <1>1, <1>2, <1>3
<1>7. pc' \in [Calls -> Statuses] /\ \A d \in Calls \ {c} : pc'[d] = pc[d]
  BY <1>2, <1>4, <1>5
<1>8. pc'[c] = IF call[c].todo = {i} THEN After(c, failed) ELSE "write"
  BY <1>2, <1>5
<1>9. call'[c] = Past(call[c], i, failed)
  BY <1>1, <1>2
<1>. QED
  BY <1>6, <1>7, <1>8, <1>9 DEF Moves

LEMMA WroteKeeps ==
  ASSUME DocInv, NEW c \in Calls, NEW i \in Sides, NEW failed \in BOOLEAN,
         pc[c] = "write", i \in call[c].todo, Wrote(c, i, failed), Kept0, HistoryGrows,
         docs' \in [Users -> Optional(GoodDoc)], titles' \in Value("title"),
         UNCHANGED <<cache, expired, raced>>, torn' \subseteq torn \cup Fields(c)
  PROVE  DocInv'
<1> DEFINE r == call[c]
           q == Past(r, i, failed)
<1>1. /\ Moves(c) /\ call'[c] = q
      /\ pc'[c] = IF r.todo = {i} THEN After(c, failed) ELSE "write"
  BY WroteCall
<1>2. /\ WellCalled("write", r) /\ HasFound("write", r)
      /\ r \in Record /\ Asks(r) /\ r.todo \subseteq SidesOf(r.kind)
  BY DEF DocInv, WellCalled
<1>3. /\ q \in Record /\ q.todo = r.todo \ {i} /\ q.snap = r.snap /\ q.ref = r.ref
      /\ q.kind = r.kind /\ q.who = r.who /\ q.flair = r.flair /\ Asks(q)
  BY <1>2, PastEdit
<1> HIDE DEF q
<1>4. pc'[c] # "write" => /\ pc'[c] \in {"failed", "answer", "alias", "ok"}
                          /\ pc'[c] = "answer" => r.kind = "rps"
                          /\ pc'[c] = "alias" => r.kind = "name"
  BY <1>1 DEF After
<1>5. WellCalled(pc'[c], q)
  <2>1. Asks(q) /\ q.todo \subseteq SidesOf(q.kind)
    BY <1>2, <1>3
  <2>2. CASE pc'[c] = "write"
    BY <1>2, <1>3, <2>1, <2>2 DEF WellCalled
  <2>3. CASE pc'[c] # "write"
    <3>1. pc'[c] = "answer" => \A j \in Sides : q.snap[j] \in Value("rps")
      BY <1>2, <1>3, <1>4 DEF WellCalled, SidesOf
    <3>. QED
      BY <1>3, <1>4, <2>1, <2>3, <3>1 DEF WellCalled
  <2>. QED
    BY <2>2, <2>3
<1>6. HasFound(pc[c], call[c])'
  <2> SUFFICES ASSUME r.kind \in UserKinds, NEW j \in SidesOf(r.kind)
               PROVE  Found(call[c], j)'
    BY <1>1, <1>3 DEF HasFound, SidesOf
  <2>1. Found(r, j)
    BY <1>2 DEF HasFound
  <2>. QED
    BY <1>1, <1>3, <2>1 DEF Kept0, HistoryGrows, Found, Owner
<1>7. WellCalled(pc[c], call[c])'
  BY <1>1, <1>5 DEF WellCalled, Exists, Asks, SidesOf, Value, NoCall
<1>8. raced' \cup torn' \subseteq Fields0
  BY <1>2, FieldsType DEF DocInv, Fields
<1>. QED
  BY <1>1, <1>6, <1>7, <1>8, MoveKeeps DEF DocInv

(* A document that is written and stays its owner's. *)
LEMMA EditKeeps ==
  ASSUME DocInv, NEW e \in Users, docs[e] # None, NEW new \in GoodDoc, new.uid = docs[e].uid,
         docs' = [docs EXCEPT ![e] = new], borrowed' = borrowed, dropped' \subseteq Calls
  PROVE  /\ Kept0 /\ HistoryGrows /\ docs' \in [Users -> Optional(GoodDoc)]
         /\ docs'[e] = new /\ \A f \in Users \ {e} : docs'[f] = docs[f]
<1>1. None \notin GoodDoc /\ docs \in [Users -> Optional(GoodDoc)]
  BY NoDocAssumption DEF GoodDoc, DocInv
<1>2. docs'[e] = new /\ \A f \in Users \ {e} : docs'[f] = docs[f]
  BY <1>1
<1>3. OwnDocs'
  BY <1>2 DEF DocInv, OwnDocs, Owner
<1>. QED
  BY <1>1, <1>2, <1>3 DEF DocInv, Kept0, HistoryGrows

LEMMA StoreEffect ==
  ASSUME DocInv, NEW c \in Calls, NEW i \in Sides, NEW value \in Value(call[c].kind),
         pc[c] = "write", i \in call[c].todo, call[c].kind \in StoreKinds, Store(c, i, value)
  PROVE  /\ Kept0 /\ HistoryGrows /\ docs' \in [Users -> Optional(GoodDoc)]
<1> DEFINE e == call[c].ref[i]
           new == Stored(docs[e], FieldOf[call[c].kind], value, c)
<1>0. new = Stored(docs[e], FieldOf[call[c].kind], value, c)
  OBVIOUS
<1>1. WellCalled("write", call[c]) /\ HasFound("write", call[c])
  BY DEF DocInv
<1>2. e \in Users /\ docs[e] # None
  BY <1>1 DEF WellCalled, HasFound, Found, StoreKinds, UserKinds
<1>3. docs[e] \in GoodDoc
  BY <1>2 DEF DocInv
<1>4. docs' = [docs EXCEPT ![e] = new] /\ UNCHANGED <<borrowed, dropped>>
  BY DEF Store, history
<1> HIDE DEF new
<1>5. new \in GoodDoc /\ new.uid = docs[e].uid /\ dropped' \subseteq Calls
  <2>1. Updates(new, docs[e], call[c].kind, value)
    BY <1>0, <1>3, StoredUpdates
  <2>. QED
    BY <1>4, <2>1 DEF Updates, DocInv
<1>. QED
  BY <1>2, <1>4, <1>5, EditKeeps

LEMMA StoreKeeps ==
  ASSUME DocInv, NEW c \in Calls, NEW i \in Sides, NEW value \in Value(call[c].kind),
         pc[c] = "write", i \in call[c].todo, call[c].kind \in StoreKinds, Store(c, i, value)
  PROVE  DocInv'
<1>1. Kept0 /\ HistoryGrows /\ docs' \in [Users -> Optional(GoodDoc)]
  BY StoreEffect
<1>2. /\ Wrote(c, i, call[c].failed) /\ UNCHANGED <<titles, cache, expired, raced, torn>>
  BY DEF Store, history
<1>3. call[c].failed \in BOOLEAN
  BY DEF DocInv, Record
<1>4. titles' \in Value("title") /\ i \in Sides
  BY <1>2 DEF DocInv, Value
<1>. QED
  BY <1>1, <1>2, <1>3, <1>4, WroteKeeps

(* What a call about to write has in hand. *)
LEMMA WritingFacts ==
  ASSUME DocInv, NEW c \in Calls, NEW i \in Sides, pc[c] = "write", i \in call[c].todo
  PROVE  /\ call[c] \in Record /\ Asks(call[c])
         /\ i \in SidesOf(call[c].kind) /\ call[c].who[i] \in Users
         /\ call[c].snap[i] \in Value(call[c].kind)
         /\ call[c].kind \in UserKinds =>
              /\ call[c].ref[i] \in Users /\ docs[call[c].ref[i]] \in GoodDoc
              /\ docs[call[c].ref[i]] # None /\ Owner(call[c].ref[i], call[c].who[i])
         /\ call[c].kind = "title" => ~Exists(call[c].snap[1], call[c].flair)
<1>1. WellCalled("write", call[c]) /\ HasFound("write", call[c])
  BY DEF DocInv
<1>2. i \in SidesOf(call[c].kind) /\ call[c].who[i] \in Users
  BY <1>1, AskedFacts DEF WellCalled
<1>. QED
  BY <1>1, <1>2 DEF WellCalled, HasFound, Found, DocInv

LEMMA SidesValue ==
  ASSUME DocInv, NEW c \in Calls, NEW i \in Sides, pc[c] = "write", i \in call[c].todo,
         call[c].kind = "side"
  PROVE  Merged(docs[call[c].ref[i]].sidePreferences,
                [Fresh(call[c].snap[i]) EXCEPT ![call[c].who[3 - i]] = c]) \in Value("side")
<1> DEFINE r == call[c]
<1>1. r.snap[i] \in Value("side") /\ docs[r.ref[i]] \in GoodDoc
  BY WritingFacts DEF UserKinds
<1>2. docs[r.ref[i]].sidePreferences \in Value("side")
  BY <1>1 DEF GoodDoc, Doc, Value
<1>3. r.who[3 - i] \in Users
  <2>1. r.who[1] \in Users /\ r.who[2] \in Users
    BY WritingFacts, AskedFacts
  <2>. QED
    BY <2>1
<1>. QED
  BY <1>1, <1>2, <1>3, PrefsType

(* The writes that merge a field into a user's document.                   *)
Stores(c, i, value) ==
  /\ pc[c] = "write" /\ i \in call[c].todo /\ call[c].kind \in StoreKinds /\ Store(c, i, value)
  /\ call[c].kind = "rps" => value = Rated(call[c].snap[i], c)
  /\ call[c].kind = "flair" => value = docs[call[c].ref[1]].assignedFlairs \cup {call[c].flair}
  /\ call[c].kind = "side" =>
       value = Merged(docs[call[c].ref[i]].sidePreferences,
                      [Fresh(call[c].snap[i]) EXCEPT ![call[c].who[3 - i]] = c])

LEMMA StoreShape ==
  ASSUME DocInv, NEW c \in Calls,
         \/ UpdatePings(c) \/ GrantFlair(c)
         \/ \E i \in Sides : RecordRpsResult(c, i) \/ SetSidePreference(c, i)
  PROVE  \E i \in Sides : \E value \in Value(call[c].kind) : Stores(c, i, value)
<1> DEFINE r == call[c]
<1>1. ASSUME NEW i \in Sides, RecordRpsResult(c, i)
      PROVE  \E value \in Value(r.kind) : Stores(c, i, value)
  <2>1. pc[c] = "write" /\ i \in r.todo /\ r.kind = "rps" /\ Store(c, i, Rated(r.snap[i], c))
    BY <1>1 DEF RecordRpsResult, Writing
  <2>2. Rated(r.snap[i], c) \in Value(r.kind)
    BY <2>1, WritingFacts DEF Value, Rated
  <2>. QED
    BY <2>1, <2>2 DEF Stores, StoreKinds
<1>2. ASSUME NEW i \in Sides, SetSidePreference(c, i)
      PROVE  \E value \in Value(r.kind) : Stores(c, i, value)
  <2> DEFINE value == Merged(docs[r.ref[i]].sidePreferences,
                             [Fresh(r.snap[i]) EXCEPT ![r.who[3 - i]] = c])
  <2>1. pc[c] = "write" /\ i \in r.todo /\ r.kind = "side" /\ Store(c, i, value)
    BY <1>2 DEF SetSidePreference, Writing
  <2>2. value \in Value(r.kind)
    BY <2>1, SidesValue
  <2>3. Stores(c, i, value)
    BY <2>1 DEF Stores, StoreKinds
  <2>. QED
    BY <2>2, <2>3
<1>3. ASSUME UpdatePings(c)
      PROVE  \E value \in Value(r.kind) : Stores(c, 1, value)
  <2>1. /\ pc[c] = "write" /\ 1 \in r.todo /\ r.kind = "ping"
        /\ Store(c, 1, Estimated(r.snap[1], r.who[2], c))
    BY <1>3 DEF UpdatePings, Writing
  <2>2. Estimated(r.snap[1], r.who[2], c) \in Value(r.kind)
    BY <2>1, WritingFacts, AskedFacts, EstimatedType
  <2>. QED
    BY <2>1, <2>2 DEF Stores, StoreKinds
<1>4. ASSUME GrantFlair(c)
      PROVE  \E value \in Value(r.kind) : Stores(c, 1, value)
  <2> DEFINE value == docs[r.ref[1]].assignedFlairs \cup {r.flair}
  <2>1. pc[c] = "write" /\ 1 \in r.todo /\ r.kind = "flair" /\ Store(c, 1, value)
    BY <1>4 DEF GrantFlair, Writing
  <2>2. docs[r.ref[1]] \in GoodDoc /\ r.flair \in Flairs
    BY <2>1, WritingFacts, AskedFacts DEF UserKinds
  <2>3. value \in Value(r.kind)
    BY <2>1, <2>2 DEF GoodDoc, Doc, Value
  <2>. QED
    BY <2>1, <2>3 DEF Stores, StoreKinds
<1>. QED
  BY <1>1, <1>2, <1>3, <1>4

LEMMA StoresKeep ==
  ASSUME DocInv, NEW c \in Calls, NEW i \in Sides, NEW value \in Value(call[c].kind),
         Stores(c, i, value)
  PROVE  DocInv'
BY StoreKeeps DEF Stores

(* What a client sends, a document that is created, a title that is added, *)
(* a write that fails.                                                     *)
LEMMA OtherWritesKeep ==
  ASSUME DocInv, NEW c \in Calls,
         \/ UpdateUserData(c) \/ CreateAccount(c) \/ CreateTitle(c)
         \/ \E i \in Sides : FailWrite(c, i)
  PROVE  DocInv'
<1> DEFINE r == call[c]
<1>1. None \notin GoodDoc /\ docs \in [Users -> Optional(GoodDoc)] /\ titles \in Value("title")
  BY NoDocAssumption DEF GoodDoc, DocInv
<1>2. CASE CreateAccount(c)
  <2>1. pc[c] = "write" /\ 1 \in r.todo /\ Wrote(c, 1, FALSE)
    BY <1>2 DEF CreateAccount, Writing
  <2>2. /\ docs' = [docs EXCEPT ![r.email] = NewDoc(r.who[1], c)] /\ r.kind = "account"
        /\ borrowed' = IF r.email = r.who[1] THEN borrowed ELSE borrowed \cup {r.who[1], r.email}
        /\ UNCHANGED <<titles, cache, expired, raced, torn, dropped>>
    BY <1>2 DEF CreateAccount, Writing
  <2>3. /\ r.who[1] \in Users /\ r.email \in Users
        /\ NewDoc(r.who[1], c) \in GoodDoc /\ NewDoc(r.who[1], c).uid = r.who[1]
    BY <2>1, <2>2, WritingFacts, AskedFacts, NewDocType
  <2> DEFINE new == NewDoc(r.who[1], c)
  <2> HIDE DEF new
  <2>4. /\ docs'[r.email] = new /\ \A e \in Users \ {r.email} : docs'[e] = docs[e]
        /\ new \in GoodDoc /\ new.uid = r.who[1]
    BY <1>1, <2>2, <2>3 DEF new
  <2>5. Kept0 /\ docs' \in [Users -> Optional(GoodDoc)]
    BY <1>1, <2>2, <2>3, <2>4 DEF Kept0
  <2>6. /\ borrowed \subseteq borrowed'
        /\ r.email = r.who[1] \/ {r.email, r.who[1]} \subseteq borrowed'
    BY <2>2
  <2>7. OwnDocs'
    BY <2>3, <2>4, <2>6 DEF DocInv, OwnDocs, Owner
  <2>8. HistoryGrows
    BY <2>2, <2>3, <2>6, <2>7 DEF DocInv, HistoryGrows
  <2>9. titles' \in Value("title")
    BY <1>1, <2>2
  <2>. QED
    BY <2>1, <2>2, <2>5, <2>8, <2>9, WroteKeeps
<1>3. CASE CreateTitle(c)
  <2>1. pc[c] = "write" /\ 1 \in r.todo /\ r.kind = "title" /\ Wrote(c, 1, FALSE)
    BY <1>3 DEF CreateTitle, Writing
  <2>2. /\ titles' = Append(r.snap[1], r.flair)
        /\ UNCHANGED <<docs, cache, expired, raced, torn, borrowed, dropped>>
    BY <1>3 DEF CreateTitle, history
  <2>3. /\ r.snap[1] \in Value("title") /\ r.flair \in Flairs
        /\ ~Exists(r.snap[1], r.flair)
    BY <2>1, WritingFacts, AskedFacts
  <2>4. titles' \in Value("title")
    BY <2>2, <2>3, AppendedType
  <2>5. Kept0 /\ HistoryGrows /\ docs' \in [Users -> Optional(GoodDoc)]
    BY <1>1, <2>2, StillOwned
  <2>. QED
    BY <2>1, <2>2, <2>4, <2>5, WroteKeeps
<1>4. ASSUME NEW i \in Sides, FailWrite(c, i)
      PROVE  DocInv'
  <2>1. /\ pc[c] = "write" /\ i \in r.todo /\ Wrote(c, i, TRUE)
        /\ UNCHANGED <<docs, titles, cache, expired, raced, borrowed, dropped>>
        /\ torn' = torn \cup Fields(c)
    BY <1>4 DEF FailWrite
  <2>2. /\ Kept0 /\ HistoryGrows /\ docs' \in [Users -> Optional(GoodDoc)]
        /\ titles' \in Value("title")
    BY <1>1, <2>1, StillOwned
  <2>. QED
    BY <2>1, <2>2, WroteKeeps
<1>5. CASE UpdateUserData(c)
  <2> DEFINE e == r.ref[1]
             new == Updated(docs[e], c)
  <2>1. pc[c] = "write" /\ 1 \in r.todo /\ r.kind \in UserKinds /\ Wrote(c, 1, FALSE)
    BY <1>5 DEF UpdateUserData, Writing, UserKinds
  <2>2. /\ docs' = [docs EXCEPT ![e] = new]
        /\ dropped' = dropped \cup (docs[e].knownAliases \ new.knownAliases)
        /\ UNCHANGED <<titles, cache, expired, raced, torn, borrowed>>
    BY <1>5 DEF UpdateUserData
  <2>3. /\ Asks(r) /\ e \in Users /\ docs[e] \in GoodDoc /\ docs[e] # None
        /\ docs[e].knownAliases \subseteq Calls
    BY <2>1, WritingFacts DEF GoodDoc, Doc
  <2>4. new \in GoodDoc /\ new.uid = docs[e].uid
    BY <2>3, UpdatedType
  <2> HIDE DEF new
  <2>5. dropped' \subseteq Calls
    BY <2>2, <2>3 DEF DocInv
  <2>6. Kept0 /\ HistoryGrows /\ docs' \in [Users -> Optional(GoodDoc)]
    BY <2>2, <2>3, <2>4, <2>5, EditKeeps
  <2>7. titles' \in Value("title")
    BY <1>1, <2>2
  <2>. QED
    BY <2>1, <2>2, <2>6, <2>7, WroteKeeps
<1>. QED
  BY <1>2, <1>3, <1>4, <1>5
-----------------------------------------------------------------------------
(* The list of aliases, which the first write of a name leaves to be done. *)
LEMMA AliasEffect ==
  ASSUME DocInv, NEW c \in Calls, AddAlias(c)
  PROVE  LET e   == call[c].ref[1]
             new == [docs[e] EXCEPT !.knownAliases = @ \cup {c}]
         IN  /\ Kept0 /\ HistoryGrows /\ docs' \in [Users -> Optional(GoodDoc)]
             /\ e \in Users /\ docs[e] # None /\ new # None /\ Owner(e, call[c].who[1])
             /\ docs'[e] = new /\ \A f \in Users \ {e} : docs'[f] = docs[f]
             /\ new.knownAliases = docs[e].knownAliases \cup {c} /\ new.rpsElo = docs[e].rpsElo
             /\ new.assignedFlairs = docs[e].assignedFlairs
             /\ new.sidePreferences = docs[e].sidePreferences
<1> DEFINE e == call[c].ref[1]
           new == [docs[e] EXCEPT !.knownAliases = @ \cup {c}]
<1>1. /\ pc[c] = "alias" /\ docs' = [docs EXCEPT ![e] = new] /\ UNCHANGED <<borrowed, dropped>>
  BY DEF AddAlias, history
<1>2. Found(call[c], 1)
  BY <1>1 DEF DocInv, WellCalled, HasFound, UserKinds, SidesOf
<1>3. e \in Users /\ docs[e] # None /\ docs[e] \in GoodDoc /\ Owner(e, call[c].who[1])
  BY <1>2 DEF Found, DocInv
<1>4. /\ new \in GoodDoc /\ new.uid = docs[e].uid
      /\ new.knownAliases = docs[e].knownAliases \cup {c} /\ new.rpsElo = docs[e].rpsElo
      /\ new.assignedFlairs = docs[e].assignedFlairs
      /\ new.sidePreferences = docs[e].sidePreferences
  BY <1>3 DEF GoodDoc, Doc
<1>5. new # None
  BY <1>4, NoDocAssumption DEF GoodDoc
<1> HIDE DEF new
<1>6. dropped' \subseteq Calls
  BY <1>1 DEF DocInv
<1>7. /\ Kept0 /\ HistoryGrows /\ docs' \in [Users -> Optional(GoodDoc)]
      /\ docs'[e] = new /\ \A f \in Users \ {e} : docs'[f] = docs[f]
  BY <1>1, <1>3, <1>4, <1>6, EditKeeps
<1>. QED
  BY <1>3, <1>4, <1>5, <1>7 DEF new

LEMMA AliasKeeps ==
  ASSUME DocInv, NEW c \in Calls, AddAlias(c) \/ FailAlias(c)
  PROVE  DocInv'
<1> DEFINE r == call[c]
<1>1. /\ pc[c] = "alias"
      /\ UNCHANGED <<titles, cache, call, expired, raced, torn, borrowed, dropped>>
      /\ pc' = [pc EXCEPT ![c] = "ok"] \/ pc' = [pc EXCEPT ![c] = "failed"]
  BY DEF AddAlias, FailAlias, Go, Unread, history
<1>2. /\ WellCalled("alias", r) /\ HasFound("alias", r) /\ r \in Record /\ Asks(r)
      /\ r.kind = "name"
  BY <1>1 DEF DocInv, WellCalled
<1>3. /\ Kept0 /\ HistoryGrows /\ docs' \in [Users -> Optional(GoodDoc)]
  <2>1. CASE FailAlias(c)
    BY <2>1, <1>1, StillOwned DEF FailAlias, Unread, DocInv
  <2>2. CASE AddAlias(c)
    BY <2>2, AliasEffect
  <2>. QED
    BY <2>1, <2>2
<1>4. Moves(c) /\ call'[c] = r /\ pc'[c] \in {"ok", "failed"}
  BY <1>1 DEF DocInv, Moves, Statuses
<1>5. WellCalled(pc'[c], r)
  BY <1>2, <1>4 DEF WellCalled
<1>6. HasFound(pc[c], call[c])'
  <2> SUFFICES ASSUME NEW i \in SidesOf(r.kind)
               PROVE  Found(r, i)'
    BY <1>4 DEF HasFound, Found, Owner, SidesOf
  <2>1. Found(r, i)
    BY <1>2 DEF HasFound, UserKinds
  <2>. QED
    BY <1>1, <1>3, <2>1 DEF Found, Owner, Kept0
<1>7. WellCalled(pc[c], call[c])'
  BY <1>4, <1>5 DEF WellCalled, Exists, Asks, SidesOf, Value, NoCall
<1>. QED
  BY <1>1, <1>3, <1>4, <1>6, <1>7, MoveKeeps DEF DocInv, Value

(* The ratings that were computed become the cached ones. *)
LEMMA AnswerKeeps ==
  ASSUME DocInv, NEW c \in Calls, Deliver(c) \/ LoseAnswer(c)
  PROVE  DocInv'
<1> DEFINE r == call[c]
           q == [r EXCEPT !.snap = <<None, None>>]
<1>1. /\ pc[c] = "answer" /\ UNCHANGED <<docs, titles, expired, raced, torn, borrowed, dropped>>
      /\ pc' = [pc EXCEPT ![c] = "ok"] \/ pc' = [pc EXCEPT ![c] = "lost"]
      /\ call' = [call EXCEPT ![c] = q]
  BY DEF Deliver, LoseAnswer, Forget, Go, history
<1>2. /\ WellCalled("answer", r) /\ HasFound("answer", r) /\ r \in Record /\ Asks(r)
      /\ r.kind = "rps" /\ r.todo \subseteq SidesOf(r.kind)
      /\ \A i \in Sides : r.snap[i] \in SUBSET Calls
  <2>1. WellCalled("answer", r) /\ HasFound("answer", r)
    BY <1>1 DEF DocInv
  <2>. QED
    BY <2>1 DEF WellCalled, Value
<1>3. <<None, None>> \in [Sides -> Snap]
  BY NoneIsSnap
<1>4. /\ q \in Record /\ q.kind = r.kind /\ q.who = r.who /\ q.flair = r.flair
      /\ q.todo = r.todo /\ q.ref = r.ref /\ Asks(q)
  BY <1>2, <1>3 DEF Record, Asks
<1> HIDE DEF q
<1>5. Moves(c) /\ call'[c] = q /\ pc'[c] \in {"ok", "lost"}
  BY <1>1, <1>4 DEF DocInv, Moves, Statuses
<1>6. WellCalled(pc'[c], q)
  BY <1>2, <1>4, <1>5 DEF WellCalled
<1>7. (WellCalled(pc[c], call[c]) /\ HasFound(pc[c], call[c]))'
  <2>1. HasFound(pc'[c], q)
    BY <1>1, <1>2, <1>4, <1>5 DEF HasFound, Found
  <2>. QED
    BY <1>1, <1>5, <1>6, <2>1
       DEF WellCalled, HasFound, Found, Owner, Exists, Asks, SidesOf, Value, NoCall
<1>8. cache' \in [Users -> Optional(SUBSET Calls)]
  <2>1. cache \in [Users -> Optional(SUBSET Calls)]
    BY DEF DocInv
  <2>2. CASE LoseAnswer(c)
    BY <2>1, <2>2 DEF LoseAnswer
  <2>3. CASE Deliver(c)
    <3>1. ASSUME NEW u \in Users, \E i \in Sides : u = r.who[i]
          PROVE  Answered(c, cache[u], CHOOSE i \in Sides : u = r.who[i]) \in Optional(SUBSET Calls)
      <4>1. (CHOOSE i \in Sides : u = r.who[i]) \in Sides
        BY <3>1
      <4>. QED
        BY <1>2, <4>1 DEF Answered, Rated
    <3>. QED
      BY <2>1, <2>3, <3>1 DEF Deliver
  <2>. QED
    BY <2>2, <2>3
<1>. QED
  BY <1>1, <1>5, <1>7, <1>8, StillOwned, MoveKeeps DEF DocInv, Value

LEMMA StartKeeps ==
  ASSUME DocInv, NEW c \in Calls, NEW r \in Requests, Start(c, r)
  PROVE  DocInv'
<1> DEFINE q == [NoCall EXCEPT !.kind = r.kind, !.who = r.who, !.email = r.email,
                               !.flair = r.flair, !.aliases = r.aliases, !.pings = r.pings,
                               !.todo = SidesOf(r.kind)]
<1>1. /\ pc' = [pc EXCEPT ![c] = "read"] /\ call' = [call EXCEPT ![c] = q]
      /\ UNCHANGED <<docs, titles, cache, expired, torn, borrowed, dropped>>
      /\ raced' \subseteq raced \cup FieldsOf(r.kind, r.who)
  BY DEF Start, Go
<1>2. r \in Request
  BY RequestAssumption
<1>3. /\ q.kind = r.kind /\ q.who = r.who /\ q.flair = r.flair /\ q.todo = SidesOf(r.kind)
      /\ q.email = r.email /\ q.aliases = r.aliases /\ q.pings = r.pings /\ q \in Record
  <2>1. SidesOf(r.kind) \subseteq Sides
    BY DEF SidesOf
  <2>2. NoCall \in Record
    BY NoCallIsRecord
  <2>. QED
    BY <1>2, <2>1, <2>2 DEF Request, Record
<1>4. Asks(q)
  BY <1>2, <1>3 DEF Asks, Request
<1> HIDE DEF q
<1>5. Moves(c) /\ call'[c] = q /\ pc'[c] = "read"
  BY <1>1, <1>3 DEF DocInv, Moves, Statuses
<1>6. WellCalled("read", q) /\ HasFound("read", q)
  BY <1>3, <1>4 DEF WellCalled, HasFound
<1>7. (WellCalled(pc[c], call[c]) /\ HasFound(pc[c], call[c]))'
  <2>1. WellCalled(pc[c], call[c])'
    BY <1>5, <1>6 DEF WellCalled, Exists, Asks, SidesOf, Value, NoCall
  <2>2. HasFound(pc[c], call[c])'
    BY <1>3, <1>5 DEF HasFound, Found, Owner, SidesOf
  <2>. QED
    BY <2>1, <2>2
<1>8. raced' \cup torn' \subseteq Fields0
  BY <1>1, <1>3, <1>4, FieldsType DEF DocInv
<1>9. HistoryGrows /\ Kept0
  BY <1>1, StillOwned
<1>10. /\ docs' \in [Users -> Optional(GoodDoc)] /\ titles' \in Value("title")
       /\ cache' \in [Users -> Optional(SUBSET Calls)] /\ expired' \subseteq Calls
  BY <1>1 DEF DocInv
<1>. QED
  BY <1>5, <1>7, <1>8, <1>9, <1>10, MoveKeeps

LEMMA RestKeeps ==
  ASSUME DocInv, UNCHANGED <<docs, titles, pc, call, raced, torn, borrowed, dropped>>,
         cache' \in [Users -> Optional(SUBSET Calls)], expired' \subseteq Calls
  PROVE  DocInv'
<1>1. ASSUME NEW d \in Calls
      PROVE  (WellCalled(pc[d], call[d]) /\ HasFound(pc[d], call[d]))'
  BY FoundStays, StillOwned
<1>2. titles' \in Value("title") /\ raced' \cup torn' \subseteq Fields0 /\ HistoryGrows
  BY StillOwned DEF DocInv
<1>3. /\ docs' \in [Users -> Optional(GoodDoc)] /\ pc' \in [Calls -> Statuses]
      /\ call' \in [Calls -> Record]
  BY DEF DocInv
<1>. QED
  BY <1>1, <1>2, <1>3 DEF DocInv, HistoryGrows, Value, Fields0

THEOREM DocStep == DocInv /\ [Next]_vars => DocInv'
<1> SUFFICES ASSUME DocInv, [Next]_vars
             PROVE  DocInv'
  OBVIOUS
<1>1. cache \in [Users -> Optional(SUBSET Calls)] /\ expired \subseteq Calls
  BY DEF DocInv
<1>2. ASSUME NEW c \in Calls, Step(c)
      PROVE  DocInv'
  BY <1>2, ReadKeeps, StoreShape, StoresKeep, OtherWritesKeep, AliasKeeps, AnswerKeeps DEF Step
<1>3. ASSUME NEW c \in Calls, Expire(c)
      PROVE  DocInv'
  BY <1>1, <1>3, RestKeeps DEF Expire, history
<1>4. ASSUME NEW c \in Calls, NEW r \in Requests, Start(c, r)
      PROVE  DocInv'
  BY <1>4, StartKeeps
<1>5. ASSUME NEW u \in Visitors, Arrive(u) \/ Depart(u)
      PROVE  DocInv'
  <2>1. \A e \in DocsOf(u) : docs[e] \in GoodDoc
    BY DEF DocInv, DocsOf
  <2>2. cache' \in [Users -> Optional(SUBSET Calls)]
    BY <1>1, <1>5, <2>1 DEF Arrive, Depart, GoodDoc, Doc
  <2>. QED
    BY <1>1, <1>5, <2>2, RestKeeps DEF Arrive, Depart, history
<1>6. CASE UNCHANGED vars
  BY <1>1, <1>6, RestKeeps DEF vars
<1>. QED
  BY <1>2, <1>3, <1>4, <1>5, <1>6 DEF Next

LEMMA DocAlways == Spec => []DocInv
<1>. QED
  BY DocInit, DocStep, PTL DEF Spec

(* Documents, lists, cached ratings and calls keep to their types, for any *)
(* number of calls that overlap and fail.                                  *)
THEOREM DocumentsTypeCorrect == Spec => []TypeOK
<1>. QED
  BY DocAlways, InvIsType, PTL

(* Each title is in the list once, and each peer has one ping, whatever    *)
(* overlaps: the writers replace what they have read by a list without     *)
(* doubles, so that a lost update loses an element and doubles none.       *)
THEOREM DoublesCorrect == Spec => []ListsHaveNoDoubles
<1>. QED
  BY DocAlways, InvIsDistinct, PTL
-----------------------------------------------------------------------------
(* What the results need: calls that work on a common field are known to   *)
(* race, and while nobody races with it a call finds what it has read.     *)
RacesSeen == \A c, d \in Running : c # d => Fields(c) \cap Fields(d) \subseteq raced

Clean(u) == Kept(u) /\ <<u, "rpsElo">> \notin raced

Follows(c, i, elo) ==
  /\ pc[c] = "read" /\ i \notin call[c].todo => elo = call[c].snap[i]
  /\ pc[c] = "write" /\ i \in call[c].todo => elo = call[c].snap[i]
  /\ pc[c] = "write" /\ i \notin call[c].todo /\ ~call[c].failed => elo = Rated(call[c].snap[i], c)
  /\ pc[c] = "answer" => elo = Rated(call[c].snap[i], c)
  /\ pc[c] \in {"ok", "lost"} => c \in elo

Own(c) ==
  LET u == call[c].who[1]
  IN  /\ pc[c] = "write" /\ call[c].kind = "account" /\ Kept(u) => docs[u] = None
      /\ Over(c, "name") /\ Kept(u) => c \in docs[u].knownAliases \cup dropped
      /\ Over(c, "flair") /\ Kept(u) => call[c].flair \in docs[u].assignedFlairs
      /\ call[c].kind = "rps" =>
           \A i \in Sides : Clean(call[c].who[i]) => Follows(c, i, docs[call[c].who[i]].rpsElo)

RaceInv == RacesSeen /\ \A c \in Calls : Own(c)

(* The invariant contains the property. *)
LEMMA RaceIsKept == DocInv /\ RaceInv => ResultsAreKept
<1> SUFFICES ASSUME DocInv, RaceInv, NEW c \in Calls, NEW i \in Sides,
                    call[c].who[i] \in Users, Kept(call[c].who[i])
             PROVE  LET u == call[c].who[i] IN
                    /\ Over(c, "rps") /\ Fields(c) \cap raced = {} => c \in docs[u].rpsElo
                    /\ Over(c, "name") /\ i = 1 => c \in docs[u].knownAliases \cup dropped
                    /\ Over(c, "flair") => call[c].flair \in docs[u].assignedFlairs
  BY DEF ResultsAreKept
<1>1. Own(c)
  BY DEF RaceInv
<1>2. ASSUME pc[c] \in {"ok", "lost"}
      PROVE  call[c] \in Record /\ Asks(call[c])
  BY <1>2 DEF DocInv, WellCalled
<1>3. ASSUME Over(c, "rps"), Fields(c) \cap raced = {}
      PROVE  c \in docs[call[c].who[i]].rpsElo
  <2>1. <<call[c].who[i], "rpsElo">> \in Fields(c)
    BY <1>3 DEF Over, Fields, FieldsOf, FieldOf, SidesOf
  <2>. QED
    BY <1>1, <1>3, <2>1 DEF Own, Over, Clean, Follows
<1>4. Over(c, "name") /\ i = 1 => c \in docs[call[c].who[i]].knownAliases \cup dropped
  BY <1>1 DEF Own
<1>5. ASSUME Over(c, "flair")
      PROVE  call[c].flair \in docs[call[c].who[i]].assignedFlairs
  <2>1. i = 1
    BY <1>2, <1>5, AskedFacts DEF Over
  <2>. QED
    BY <1>1, <1>5, <2>1 DEF Own
<1>. QED
  BY <1>3, <1>4, <1>5

LEMMA RaceInit == Init => RaceInv
<1> SUFFICES ASSUME Init
             PROVE  RaceInv
  OBVIOUS
<1>1. \A c \in Calls : pc[c] = "idle"
  BY DEF Init
<1>2. RacesSeen
  BY <1>1 DEF RacesSeen, Running
<1>3. \A c \in Calls : Own(c)
  BY <1>1 DEF Own, Over, Follows
<1>. QED
  BY <1>2, <1>3 DEF RaceInv

(* What a step of call c may do to the document of a user who is kept:     *)
(* nothing; add to it, but for the aliases that a client drops, and change *)
(* the rating only as one that works on it; or create it.                  *)
Touches(c, u) == Kept(u)' =>
  \/ docs'[u] = docs[u]
  \/ /\ docs[u] # None /\ docs'[u] # None
     /\ docs[u].knownAliases \subseteq docs'[u].knownAliases \cup dropped'
     /\ docs[u].assignedFlairs \subseteq docs'[u].assignedFlairs
     /\ \/ docs'[u].rpsElo = docs[u].rpsElo
        \/ /\ <<u, "rpsElo">> \in Fields(c)
           /\ Clean(u) => docs[u].rpsElo \subseteq docs'[u].rpsElo
  \/ <<u, "uid">> \in Fields(c) /\ (Kept(u) => docs[u] = None)

(* The document a call has found of a user who is kept is the user's own.  *)
LEMMA OwnFound ==
  ASSUME NEW r, NEW i, Found(r, i), Kept(r.who[i])
  PROVE  r.ref[i] = r.who[i] /\ docs[r.who[i]] # None
BY DEF Found, Owner, Kept

LEMMA CommonField ==
  ASSUME RaceInv, NEW c \in Calls, NEW d \in Calls, c # d, c \in Running, d \in Running,
         NEW f, f \in Fields(c), f \in Fields(d)
  PROVE  f \in raced
BY DEF RaceInv, RacesSeen

Widens == raced \subseteq raced' /\ borrowed \subseteq borrowed' /\ dropped \subseteq dropped'

LEMMA KeptBefore ==
  ASSUME Widens
  PROVE  \A u : (Kept(u)' => Kept(u)) /\ (Clean(u)' => Clean(u))
BY DEF Widens, Kept, Clean

LEMMA OthersOwn ==
  ASSUME DocInv, RaceInv, NEW c \in Calls, NEW d \in Calls, c # d, c \in Running,
         pc'[d] = pc[d], call'[d] = call[d], Widens,
         \A u \in Users : Touches(c, u)
  PROVE  Own(d)'
<1> DEFINE r == call[d]
           at == pc[d]
<1>1. Own(d) /\ WellCalled(at, r) /\ HasFound(at, r)
  BY DEF RaceInv, DocInv
<1>2. \A u : Kept(u)' => Kept(u)
  BY KeptBefore
<1>3. \A u : Clean(u)' => Clean(u)
  BY KeptBefore
<1>4. ASSUME NEW u \in Users, docs[u] # None, Kept(u)'
      PROVE  /\ docs[u].knownAliases \subseteq docs'[u].knownAliases \cup dropped'
             /\ docs[u].assignedFlairs \subseteq docs'[u].assignedFlairs
             /\ \/ docs'[u].rpsElo = docs[u].rpsElo
                \/ /\ <<u, "rpsElo">> \in Fields(c)
                   /\ Clean(u) => docs[u].rpsElo \subseteq docs'[u].rpsElo
  BY <1>2, <1>4 DEF Touches
<1>5. at \notin {"idle", "ended"} => r \in Record /\ Asks(r)
  BY <1>1 DEF WellCalled
<1>6. ASSUME at = "write", r.kind = "account", Kept(r.who[1])'
      PROVE  docs'[r.who[1]] = None
  <2>1. r.who[1] \in Users
    BY <1>5, <1>6, AskedFacts
  <2>2. docs[r.who[1]] = None
    BY <1>1, <1>2, <1>6 DEF Own
  <2>3. <<r.who[1], "uid">> \in Fields(d) /\ d \in Running
    BY <1>6 DEF Fields, FieldsOf, FieldOf, SidesOf, Running
  <2>4. <<r.who[1], "uid">> \notin Fields(c)
    BY <1>2, <1>6, <2>3, CommonField DEF Kept
  <2>. QED
    BY <1>6, <2>1, <2>2, <2>4 DEF Touches, Kept
<1>7. ASSUME at \in {"ok", "lost"}, r.kind \in {"name", "flair"}, Kept(r.who[1])'
      PROVE  /\ r.kind = "name" => d \in docs'[r.who[1]].knownAliases \cup dropped'
             /\ r.kind = "flair" => r.flair \in docs'[r.who[1]].assignedFlairs
  <2>1. r.who[1] \in Users /\ 1 \in SidesOf(r.kind) /\ Kept(r.who[1])
    BY <1>2, <1>5, <1>7, AskedFacts
  <2>2. docs[r.who[1]] # None
    BY <1>1, <1>7, <2>1, OwnFound DEF HasFound, UserKinds
  <2>. QED
    BY <1>1, <1>2, <1>4, <1>7, <2>1, <2>2 DEF Own, Over, Widens
<1>8. ASSUME r.kind = "rps", NEW i \in Sides, Clean(r.who[i])',
             at # "read" \/ i \notin r.todo, at \in {"read", "write", "answer", "ok", "lost"}
      PROVE  Follows(d, i, docs[r.who[i]].rpsElo)'
  <2> DEFINE u == r.who[i]
  <2>2. Clean(u) /\ Kept(u) /\ Kept(u)'
    BY <1>3, <1>8 DEF Clean
  <2>1. u \in Users /\ docs[u] # None /\ i \in SidesOf(r.kind)
    <3>1. i \in SidesOf(r.kind)
      BY <1>8 DEF SidesOf
    <3>2. Found(r, i) /\ u \in Users
      BY <1>1, <1>5, <1>8, <3>1, AskedFacts DEF HasFound, UserKinds
    <3>. QED
      BY <2>2, <3>1, <3>2, OwnFound
  <2>3. Follows(d, i, docs[u].rpsElo)
    BY <1>1, <1>8, <2>2 DEF Own
  <2>4. <<u, "rpsElo">> \in Fields(d)
    BY <1>8, <2>1 DEF Fields, FieldsOf, FieldOf
  <2>5. CASE docs'[u].rpsElo = docs[u].rpsElo
    BY <2>3, <2>5 DEF Follows
  <2>6. CASE docs'[u].rpsElo # docs[u].rpsElo
    <3>1. <<u, "rpsElo">> \in Fields(c) /\ docs[u].rpsElo \subseteq docs'[u].rpsElo
      BY <1>4, <2>1, <2>2, <2>6
    <3>2. d \notin Running
      BY <2>2, <2>4, <3>1, CommonField DEF Clean
    <3>. QED
      BY <1>8, <2>3, <3>1, <3>2 DEF Follows, Running
  <2>. QED
    BY <2>5, <2>6
<1>9. ASSUME r.kind = "rps", NEW i \in Sides, Clean(r.who[i])'
      PROVE  Follows(d, i, docs[r.who[i]].rpsElo)'
  <2>1. CASE (at # "read" \/ i \notin r.todo) /\ at \in {"read", "write", "answer", "ok", "lost"}
    BY <1>8, <1>9, <2>1
  <2>2. CASE ~((at # "read" \/ i \notin r.todo) /\ at \in {"read", "write", "answer", "ok", "lost"})
    BY <2>2 DEF Follows
  <2>. QED
    BY <2>1, <2>2
<1>. QED
  BY <1>6, <1>7, <1>9 DEF Own, Over

(* A step of a call that is running: it goes on with what it was asked or  *)
(* stops, and the others stay where they are.                              *)
GoesOn(c) ==
  /\ c \in Running /\ raced' = raced /\ Widens
  /\ \A d \in Calls \ {c} : pc'[d] = pc[d] /\ call'[d] = call[d]
  /\ \/ pc'[c] \in {"ok", "ended", "failed", "lost"}
     \/ call'[c].kind = call[c].kind /\ call'[c].who = call[c].who

LEMMA GoesOnKeeps ==
  ASSUME DocInv, RaceInv, NEW c \in Calls, GoesOn(c), \A u \in Users : Touches(c, u), Own(c)'
  PROVE  RaceInv'
<1>1. ASSUME NEW d \in Calls
      PROVE  Own(d)'
  BY OthersOwn DEF GoesOn
<1>2. ASSUME NEW d \in Running'
      PROVE  d \in Calls /\ d \in Running /\ Fields(d)' = Fields(d)
  BY DEF GoesOn, Running, Fields, FieldsOf, SidesOf
<1>3. RacesSeen'
  <2> SUFFICES ASSUME NEW d \in Running', NEW e \in Running', d # e
               PROVE  Fields(d)' \cap Fields(e)' \subseteq raced'
    BY DEF RacesSeen
  <2>. QED
    BY <1>2 DEF RaceInv, RacesSeen, GoesOn
<1>. QED
  BY <1>1, <1>3 DEF RaceInv

(* Reads, the retry of an estimate and calls that stop.                    *)
LEMMA EndRaces ==
  ASSUME DocInv, RaceInv, NEW c \in Calls, Ends(c), Unread, c \in Running
  PROVE  RaceInv'
<1>1. /\ call'[c] = NoCall /\ pc'[c] = "ended"
      /\ UNCHANGED <<docs, raced, borrowed, dropped>>
  BY DEF Ends, Go, Unread, history, DocInv
<1>2. GoesOn(c) /\ \A u \in Users : Touches(c, u)
  BY <1>1 DEF Ends, Go, GoesOn, Widens, Touches, DocInv
<1>3. Own(c)'
  BY <1>1 DEF Own, Over, Follows
<1>. QED
  BY <1>2, <1>3, GoesOnKeeps

LEMMA GotRaces ==
  ASSUME DocInv, RaceInv, NEW c \in Calls, NEW i \in Sides, NEW e, NEW value,
         pc[c] = "read", i \in call[c].todo, Got(c, i, e, value), Unread,
         call[c].kind = "account" /\ Kept(call[c].who[1]) => docs[call[c].who[1]] = None,
         call[c].kind = "rps" /\ Kept(call[c].who[i]) => value = docs[call[c].who[i]].rpsElo
  PROVE  RaceInv'
<1> DEFINE r == call[c]
           todo == IF r.todo = {i} THEN SidesOf(r.kind) ELSE r.todo \ {i}
           q == Edited(r, i, e, value, todo)
<1>1. /\ WellCalled("read", r) /\ Own(c)
      /\ r \in Record /\ Asks(r) /\ r.todo \subseteq SidesOf(r.kind) /\ r.todo \subseteq Sides
  BY AskedFacts DEF DocInv, WellCalled, RaceInv
<1>2. /\ call' = [call EXCEPT ![c] = q]
      /\ pc' = IF r.todo = {i} THEN [pc EXCEPT ![c] = "write"] ELSE pc
      /\ UNCHANGED <<docs, raced, borrowed, dropped>>
  BY DEF Got, Go, Edited, Unread, history
<1>3. /\ q.todo = todo /\ q.kind = r.kind /\ q.who = r.who
      /\ q.snap[i] = value /\ \A j \in Sides \ {i} : q.snap[j] = r.snap[j]
  BY <1>1 DEF Record, Edited
<1>4. \A j \in Sides : r.todo = {i} \/ j \notin todo => j = i \/ j \notin r.todo
  OBVIOUS
<1>5. r.todo = {i} => todo = SidesOf(r.kind)
  OBVIOUS
<1> HIDE DEF q, todo
<1>6. call'[c] = q /\ pc'[c] = IF r.todo = {i} THEN "write" ELSE "read"
  BY <1>2 DEF DocInv
<1>7. GoesOn(c) /\ \A u \in Users : Touches(c, u)
  BY <1>2, <1>3, <1>6 DEF GoesOn, Widens, Running, Touches, DocInv
<1>8. ASSUME r.kind = "rps", NEW j \in Sides, Clean(r.who[j])
      PROVE  Follows(c, j, docs[r.who[j]].rpsElo)'
  <2> DEFINE elo == docs[r.who[j]].rpsElo
  <2>1. j \notin r.todo => elo = r.snap[j]
    BY <1>1, <1>8 DEF Own, Follows
  <2>2. j = i \/ j \notin r.todo => elo = q.snap[j]
    BY <1>3, <1>8, <2>1 DEF Clean
  <2>3. CASE r.todo = {i}
    <3>1. pc'[c] = "write" /\ j \in q.todo /\ elo = q.snap[j]
      BY <1>3, <1>4, <1>5, <1>6, <1>8, <2>2, <2>3 DEF SidesOf
    <3>. QED
      BY <1>2, <1>3, <1>6, <3>1 DEF Follows
  <2>4. CASE r.todo # {i}
    <3>1. pc'[c] = "read" /\ (j \notin q.todo => elo = q.snap[j])
      BY <1>3, <1>4, <1>6, <2>2, <2>4
    <3>. QED
      BY <1>2, <1>3, <1>6, <3>1 DEF Follows
  <2>. QED
    BY <2>3, <2>4
<1>9. Own(c)'
  BY <1>2, <1>3, <1>6, <1>8 DEF Own, Over, Clean, Kept
<1>. QED
  BY <1>7, <1>9, GoesOnKeeps

(* A user who is kept has one document, if any, under the user's own email. *)
LEMMA KeptDocs ==
  ASSUME DocInv, NEW u, Kept(u)
  PROVE  /\ \A e \in DocsOf(u) : e = u
         /\ u \in Users /\ docs[u] # None => u \in DocsOf(u)
BY DEF DocInv, DocsOf, OwnDocs, Owner, Kept

LEMMA ReadRaces ==
  ASSUME DocInv, RaceInv, NEW c \in Calls,
         \/ ReadAccount(c) \/ ReadTitles(c) \/ RetryEstimate(c) \/ FailRead(c)
         \/ \E i \in Sides : ReadUser(c, i)
  PROVE  RaceInv'
<1>1. c \in Running /\ pc[c] = "read" /\ Unread
  BY DEF ReadAccount, ReadTitles, RetryEstimate, FailRead, ReadUser, Reading, Running
<1>2. CASE Ends(c)
  BY <1>1, <1>2, EndRaces
<1>3. ASSUME NEW i \in Sides, ReadUser(c, i), ~Ends(c)
      PROVE  RaceInv'
  <2>1. PICK e \in DocsOf(call[c].who[i]) : Got(c, i, e, docs[e][FieldOf[call[c].kind]])
    BY <1>3 DEF ReadUser
  <2>2. i \in call[c].todo /\ call[c].kind # "account"
    BY <1>3 DEF ReadUser, Reading
  <2>3. Kept(call[c].who[i]) => e = call[c].who[i]
    BY <2>1, KeptDocs
  <2>4. FieldOf["rps"] = "rpsElo"
    BY DEF FieldOf
  <2>. QED
    BY <1>1, <2>1, <2>2, <2>3, <2>4, GotRaces
<1>4. CASE ReadAccount(c) /\ ~Ends(c)
  <2>1. /\ 1 \in call[c].todo /\ Got(c, 1, call[c].email, None) /\ call[c].kind = "account"
        /\ DocsOf(call[c].who[1]) = {}
    BY <1>4 DEF ReadAccount, Reading
  <2>2. call[c].who[1] \in Users
    BY <1>1, AskedFacts DEF DocInv, WellCalled
  <2>3. Kept(call[c].who[1]) => docs[call[c].who[1]] = None
    BY <2>1, <2>2, KeptDocs
  <2>. QED
    BY <1>1, <2>1, <2>3, GotRaces
<1>5. CASE ReadTitles(c) /\ ~Ends(c)
  <2>1. 1 \in call[c].todo /\ Got(c, 1, None, titles) /\ call[c].kind = "title"
    BY <1>5 DEF ReadTitles, Reading
  <2>. QED
    BY <1>1, <2>1, GotRaces
<1>6. CASE RetryEstimate(c) /\ ~Ends(c)
  <2>1. /\ call' = [call EXCEPT ![c] = [call[c] EXCEPT !.tries = @ + 1]]
        /\ pc' = pc /\ UNCHANGED <<docs, raced, borrowed, dropped>> /\ call[c].kind = "ping"
    BY <1>6 DEF RetryEstimate, Reading, Unread, history
  <2>2. call'[c].kind = "ping" /\ call'[c].who = call[c].who
    BY <2>1 DEF DocInv, Record
  <2>3. GoesOn(c) /\ \A u \in Users : Touches(c, u)
    BY <1>1, <2>1, <2>2 DEF GoesOn, Widens, Touches, DocInv
  <2>4. Own(c)'
    BY <1>1, <2>1, <2>2 DEF Own, Over
  <2>. QED
    BY <2>3, <2>4, GoesOnKeeps
<1>7. FailRead(c) => Ends(c)
  BY DEF FailRead
<1>. QED
  BY <1>2, <1>3, <1>4, <1>5, <1>6, <1>7

(* A write that is over, or failed.                                        *)
LEMMA WroteRaces ==
  ASSUME DocInv, RaceInv, NEW c \in Calls, NEW i \in Sides, NEW failed \in BOOLEAN,
         pc[c] = "write", i \in call[c].todo, Wrote(c, i, failed), raced' = raced, Widens,
         \A u \in Users : Touches(c, u), call[c].kind = "rps" /\ call[c].failed => failed,
         call[c].kind = "flair" /\ ~failed /\ Kept(call[c].who[1]) =>
           call[c].flair \in docs'[call[c].who[1]].assignedFlairs,
         call[c].kind = "rps" => \A j \in Sides : Kept(call[c].who[j]) =>
           /\ j # i => docs'[call[c].who[j]].rpsElo = docs[call[c].who[j]].rpsElo
           /\ j = i /\ ~failed => docs'[call[c].who[j]].rpsElo = Rated(call[c].snap[j], c)
  PROVE  RaceInv'
<1> DEFINE r == call[c]
           q == Past(r, i, failed)
<1>1. /\ Moves(c) /\ call'[c] = q
      /\ pc'[c] = IF r.todo = {i} THEN After(c, failed) ELSE "write"
  BY WroteCall
<1>2. /\ WellCalled("write", r) /\ r \in Record /\ Asks(r)
      /\ r.todo \subseteq SidesOf(r.kind) /\ Own(c)
  BY DEF DocInv, WellCalled, RaceInv
<1>3. /\ q.todo = r.todo \ {i} /\ q.snap = r.snap /\ q.failed = failed
      /\ q.kind = r.kind /\ q.who = r.who /\ q.flair = r.flair
  BY <1>2, PastEdit
<1> HIDE DEF q
<1>4. GoesOn(c)
  BY <1>1, <1>3 DEF GoesOn, Running, Moves
<1>5. r.kind = "account" => r.todo = {i}
  BY <1>2 DEF SidesOf
<1>6. /\ pc'[c] = "write" \/ r.todo = {i}
      /\ pc'[c] \in {"write", "failed", "answer", "alias", "ok"}
      /\ pc'[c] = "write" => r.todo # {i}
      /\ pc'[c] = "ok" => r.kind \notin {"rps", "name"} /\ ~failed
      /\ pc'[c] = "answer" => r.kind = "rps" /\ ~failed
  <2>1. After(c, failed) = IF failed THEN "failed" ELSE IF r.kind = "rps" THEN "answer"
                                     ELSE IF r.kind = "name" THEN "alias" ELSE "ok"
    BY DEF After
  <2>. QED
    BY <1>1, <2>1
<1>7. ASSUME r.kind = "rps", NEW j \in Sides, Clean(r.who[j]), NEW new,
             new = docs'[r.who[j]].rpsElo
      PROVE  /\ pc'[c] = "write" /\ j \in q.todo => new = q.snap[j]
             /\ pc'[c] = "write" /\ j \notin q.todo /\ ~q.failed => new = Rated(q.snap[j], c)
             /\ pc'[c] = "answer" => new = Rated(q.snap[j], c)
             /\ pc'[c] \notin {"read", "ok", "lost"}
  <2>1. Follows(c, j, docs[r.who[j]].rpsElo)
    BY <1>2, <1>7 DEF Own
  <2>2. ASSUME j \notin q.todo, ~failed
        PROVE  new = Rated(q.snap[j], c)
    <3>1. CASE j = i
      BY <1>3, <1>7, <2>2, <3>1 DEF Clean
    <3>2. CASE j # i
      BY <1>3, <1>7, <2>1, <2>2, <3>2 DEF Follows, Clean
    <3>. QED
      BY <3>1, <3>2
  <2>3. j \in q.todo => new = q.snap[j]
    BY <1>3, <1>7, <2>1 DEF Follows, Clean
  <2>4. pc'[c] = "answer" => j \notin q.todo /\ ~failed
    BY <1>3, <1>6
  <2>. QED
    BY <1>3, <1>6, <1>7, <2>2, <2>3, <2>4
<1>8. Own(c)'
  <2>1. call'[c].kind = r.kind /\ call'[c].who = r.who /\ call'[c].flair = r.flair
    BY <1>1, <1>3
  <2>2. ASSUME r.kind = "rps", NEW j \in Sides, Clean(r.who[j])'
        PROVE  Follows(c, j, docs[r.who[j]].rpsElo)'
    <3>1. Clean(r.who[j])
      BY <2>1, <2>2, KeptBefore
    <3>. QED
      BY <1>1, <1>7, <2>1, <2>2, <3>1 DEF Follows, Rated
  <2>3. ASSUME Kept(r.who[1])'
        PROVE  Kept(r.who[1])
    BY <2>1, <2>3 DEF Widens, Kept
  <2>. QED
    BY <1>5, <1>6, <2>1, <2>2, <2>3 DEF Own, Over
<1>. QED
  BY <1>4, <1>8, GoesOnKeeps

LEMMA StoreRaces ==
  ASSUME DocInv, RaceInv, NEW c \in Calls, NEW i \in Sides, NEW value \in Value(call[c].kind),
         pc[c] = "write", i \in call[c].todo, call[c].kind \in StoreKinds, Store(c, i, value),
         call[c].kind = "rps" => value = Rated(call[c].snap[i], c),
         call[c].kind = "flair" => value = docs[call[c].ref[1]].assignedFlairs \cup {call[c].flair}
  PROVE  RaceInv'
<1> DEFINE r == call[c]
           v == call[c].ref[i]
           new == Stored(docs[v], FieldOf[r.kind], value, c)
<1>0. new = Stored(docs[v], FieldOf[r.kind], value, c)
  OBVIOUS
<1>1. /\ r \in Record /\ Asks(r) /\ i \in SidesOf(r.kind) /\ v \in Users /\ docs[v] \in GoodDoc
      /\ r.who[1] # r.who[2] /\ (r.kind \notin {"rps", "side"} => i = 1) /\ Owner(v, r.who[i])
  BY WritingFacts, AskedFacts DEF StoreKinds, UserKinds
<1>2. /\ Wrote(c, i, r.failed) /\ raced' = raced /\ r.failed \in BOOLEAN
      /\ UNCHANGED <<borrowed, dropped>> /\ Widens
  BY <1>1 DEF Store, history, Record, Widens
<1>3. docs' = [docs EXCEPT ![v] = new] /\ docs \in [Users -> Optional(GoodDoc)]
  BY DEF Store, DocInv
<1> HIDE DEF new
<1>4. /\ new \in GoodDoc /\ new.knownAliases = docs[v].knownAliases
      /\ r.kind = "rps" => new.rpsElo = value
      /\ r.kind # "rps" => new.rpsElo = docs[v].rpsElo
      /\ r.kind = "flair" => new.assignedFlairs = value
      /\ r.kind # "flair" => new.assignedFlairs = docs[v].assignedFlairs
  <2>1. r.kind \in StoreKinds /\ value \in Value(r.kind)
    OBVIOUS
  <2>2. docs[v] \in GoodDoc
    BY <1>1
  <2>3. Updates(new, docs[v], r.kind, value)
    BY <1>0, <2>1, <2>2, StoredUpdates
  <2>. QED
    BY <2>3 DEF Updates
<1>5. docs[v] # None /\ new # None
  BY <1>1, <1>4, NoDocAssumption DEF GoodDoc
<1>6. docs'[v] = new /\ \A u \in Users \ {v} : docs'[u] = docs[u]
  BY <1>1, <1>3
<1>7. Kept(v) \/ Kept(r.who[i]) => v = r.who[i]
  BY <1>1 DEF Owner, Kept
<1>8. ASSUME NEW u \in Users, u = v
      PROVE  Touches(c, u)
  <2>1. docs[u].assignedFlairs \subseteq new.assignedFlairs
    BY <1>1, <1>4, <1>8
  <2>2. CASE r.kind # "rps"
    BY <1>4, <1>5, <1>6, <1>8, <2>1, <2>2 DEF Touches
  <2>3. CASE r.kind = "rps"
    <3> SUFFICES ASSUME Kept(u)'
                 PROVE  Touches(c, u)
      BY DEF Touches
    <3>0. u = r.who[i]
      <4>1. Kept(u)
        BY <1>2, KeptBefore
      <4>. QED
        BY <1>7, <1>8, <4>1
    <3>1. <<u, "rpsElo">> \in Fields(c)
      BY <1>1, <2>3, <3>0 DEF Fields, FieldsOf, FieldOf
    <3>2. Clean(u) => docs[u].rpsElo \subseteq new.rpsElo
      <4>1. Clean(u) => docs[u].rpsElo = r.snap[i]
        BY <1>1, <2>3, <3>0 DEF RaceInv, Own, Follows
      <4>. QED
        BY <1>4, <2>3, <4>1 DEF Rated
    <3>. QED
      BY <1>4, <1>5, <1>6, <1>8, <2>1, <3>1, <3>2 DEF Touches
  <2>. QED
    BY <2>2, <2>3
<1>9. ASSUME NEW u \in Users
      PROVE  Touches(c, u)
  <2>1. CASE u = v
    BY <1>8, <2>1
  <2>2. CASE u # v
    BY <1>6, <2>2 DEF Touches
  <2>. QED
    BY <2>1, <2>2
<1>10. r.kind = "flair" /\ Kept(r.who[1]) => r.flair \in docs'[r.who[1]].assignedFlairs
  BY <1>1, <1>4, <1>6, <1>7
<1>11. ASSUME r.kind = "rps", NEW j \in Sides, Kept(r.who[j])
       PROVE  /\ j # i => docs'[r.who[j]].rpsElo = docs[r.who[j]].rpsElo
              /\ j = i => docs'[r.who[j]].rpsElo = Rated(r.snap[j], c)
  <2>1. CASE j = i
    BY <1>4, <1>6, <1>7, <1>11, <2>1
  <2>2. CASE j # i
    <3>1. r.who[j] \in Users /\ r.who[j] # r.who[i]
      BY <1>1, <1>11, <2>2, AskedFacts DEF SidesOf
    <3>2. r.who[j] # v
      BY <1>7, <1>11, <3>1
    <3>. QED
      BY <1>6, <2>2, <3>1, <3>2
  <2>. QED
    BY <2>1, <2>2
<1>. QED
  BY <1>2, <1>9, <1>10, <1>11, WroteRaces

LEMMA StoresRace ==
  ASSUME DocInv, RaceInv, NEW c \in Calls, NEW i \in Sides, NEW value \in Value(call[c].kind),
         Stores(c, i, value)
  PROVE  RaceInv'
BY StoreRaces DEF Stores

Prefs(u) == docs[u].sidePreferences

(* What a step that writes no preference may do to a document.             *)
Plain(u) ==
  \/ docs'[u] = docs[u]
  \/ docs[u] # None /\ docs'[u] # None /\ Prefs(u)' = Prefs(u)
  \/ (Kept(u)' => docs[u] = None) /\ docs'[u] # None /\ Prefs(u)' = NoSides

(* What a client sends drops aliases and nothing else.                     *)
LEMMA UpdateTouches ==
  ASSUME DocInv, NEW c \in Calls, UpdateUserData(c)
  PROVE  Widens /\ \A u \in Users : Touches(c, u) /\ Plain(u)
<1> DEFINE e == call[c].ref[1]
           new == Updated(docs[e], c)
<1>1. pc[c] = "write" /\ 1 \in call[c].todo /\ call[c].kind \in UserKinds
  BY DEF UpdateUserData, Writing, UserKinds
<1>2. /\ docs' = [docs EXCEPT ![e] = new] /\ UNCHANGED <<raced, borrowed>>
      /\ dropped' = dropped \cup (docs[e].knownAliases \ new.knownAliases)
  BY DEF UpdateUserData
<1>3. Asks(call[c]) /\ e \in Users /\ docs[e] \in GoodDoc /\ docs[e] # None
  BY <1>1, WritingFacts
<1>4. /\ new \in GoodDoc /\ new.rpsElo = docs[e].rpsElo
      /\ new.assignedFlairs = docs[e].assignedFlairs
      /\ new.sidePreferences = docs[e].sidePreferences
  BY <1>3, UpdatedType
<1> HIDE DEF new
<1>5. new # None /\ docs'[e] = new /\ \A u \in Users \ {e} : docs'[u] = docs[u]
  BY <1>2, <1>3, <1>4, NoDocAssumption DEF GoodDoc, DocInv
<1>6. docs[e].knownAliases \subseteq new.knownAliases \cup dropped'
  BY <1>2
<1>7. Widens
  BY <1>2 DEF Widens
<1>. QED
  BY <1>3, <1>4, <1>5, <1>6, <1>7 DEF Touches, Plain, Prefs

LEMMA OtherWritesRace ==
  ASSUME DocInv, RaceInv, NEW c \in Calls,
         \/ UpdateUserData(c) \/ CreateAccount(c) \/ CreateTitle(c)
         \/ \E i \in Sides : FailWrite(c, i)
  PROVE  RaceInv'
<1> DEFINE r == call[c]
<1>1. CASE CreateAccount(c)
  <2>1. /\ pc[c] = "write" /\ 1 \in r.todo /\ r.kind = "account" /\ Wrote(c, 1, FALSE)
        /\ docs' = [docs EXCEPT ![r.email] = NewDoc(r.who[1], c)] /\ raced' = raced
        /\ borrowed' = IF r.email = r.who[1] THEN borrowed ELSE borrowed \cup {r.who[1], r.email}
        /\ dropped' = dropped
    BY <1>1 DEF CreateAccount, Writing
  <2>2. r.who[1] \in Users /\ Own(c)
    BY <2>1, WritingFacts DEF RaceInv
  <2>3. <<r.who[1], "uid">> \in Fields(c) /\ Widens
    BY <2>1 DEF Fields, FieldsOf, FieldOf, SidesOf, Widens
  <2>4. ASSUME NEW u \in Users
        PROVE  Touches(c, u)
    <3>1. CASE u = r.email /\ u = r.who[1]
      BY <2>1, <2>2, <2>3, <3>1 DEF Touches, Own
    <3>2. CASE u = r.email /\ u # r.who[1]
      BY <2>1, <3>2 DEF Touches, Kept
    <3>3. CASE u # r.email
      BY <2>1, <3>3 DEF DocInv, Touches
    <3>. QED
      BY <3>1, <3>2, <3>3
  <2>6. GoesOn(c) /\ pc'[c] = "ok" /\ call'[c].kind = "account"
    <3>1. r \in Record /\ Asks(r) /\ r.todo = {1}
      <4>1. r \in Record /\ Asks(r) /\ r.todo \subseteq SidesOf(r.kind)
        BY <2>1 DEF DocInv, WellCalled
      <4>. QED
        BY <2>1, <4>1 DEF SidesOf
    <3>2. /\ Moves(c) /\ call'[c] = Past(r, 1, FALSE) /\ pc'[c] = After(c, FALSE)
      BY <2>1, <3>1, WroteCall
    <3>3. Past(r, 1, FALSE).kind = r.kind /\ Past(r, 1, FALSE).who = r.who
      BY <3>1 DEF Past, Record
    <3>4. After(c, FALSE) = "ok"
      BY <2>1 DEF After
    <3>. QED
      BY <2>1, <2>3, <3>2, <3>3, <3>4 DEF GoesOn, Running, Moves
  <2>7. Own(c)'
    BY <2>6 DEF Own, Over
  <2>. QED
    BY <2>4, <2>6, <2>7, GoesOnKeeps
<1>2. CASE CreateTitle(c)
  <2>1. pc[c] = "write" /\ 1 \in r.todo /\ r.kind = "title" /\ Wrote(c, 1, FALSE)
        /\ UNCHANGED <<docs, raced, borrowed, dropped>>
    BY <1>2 DEF CreateTitle, Writing, history
  <2>2. /\ r \in Record /\ Asks(r) /\ r.todo = {1}
    <3>1. r \in Record /\ Asks(r) /\ r.todo \subseteq SidesOf(r.kind)
      BY <2>1 DEF DocInv, WellCalled
    <3>. QED
      BY <2>1, <3>1 DEF SidesOf
  <2>3. /\ Moves(c) /\ call'[c] = Past(r, 1, FALSE) /\ pc'[c] = After(c, FALSE)
    BY <2>1, <2>2, WroteCall
  <2>4. Past(r, 1, FALSE).kind = r.kind /\ Past(r, 1, FALSE).who = r.who
    BY <2>2 DEF Past, Record
  <2>5. After(c, FALSE) = "ok"
    BY <2>1 DEF After
  <2>6. GoesOn(c) /\ Own(c)'
    BY <2>1, <2>3, <2>4, <2>5 DEF GoesOn, Widens, Running, Moves, Own, Over
  <2>7. \A u \in Users : Touches(c, u)
    BY <2>1 DEF Touches
  <2>. QED
    BY <2>6, <2>7, GoesOnKeeps
<1>3. ASSUME NEW i \in Sides, FailWrite(c, i)
      PROVE  RaceInv'
  <2>1. /\ pc[c] = "write" /\ i \in r.todo /\ Wrote(c, i, TRUE)
        /\ UNCHANGED <<docs, raced, borrowed, dropped>>
    BY <1>3 DEF FailWrite
  <2>2. Widens /\ \A u \in Users : Touches(c, u)
    BY <2>1 DEF Touches, Widens
  <2>. QED
    BY <2>1, <2>2, WroteRaces
<1>4. CASE UpdateUserData(c)
  <2>1. /\ pc[c] = "write" /\ 1 \in r.todo /\ r.kind \in {"name", "lists"} /\ Wrote(c, 1, FALSE)
        /\ UNCHANGED <<raced, borrowed>>
    BY <1>4 DEF UpdateUserData, Writing
  <2>2. Widens /\ \A u \in Users : Touches(c, u)
    BY <1>4, UpdateTouches
  <2>. QED
    BY <2>1, <2>2, WroteRaces
<1>. QED
  BY <1>1, <1>2, <1>3, <1>4

LEMMA AliasRaces ==
  ASSUME DocInv, RaceInv, NEW c \in Calls, AddAlias(c) \/ FailAlias(c)
  PROVE  RaceInv'
<1> DEFINE r == call[c]
<1>1. pc[c] = "alias" /\ UNCHANGED <<call, raced, borrowed, dropped>>
  BY DEF AddAlias, FailAlias, Unread, history
<1>2. r.kind = "name"
  BY <1>1 DEF DocInv, WellCalled
<1>3. GoesOn(c) /\ pc'[c] \in {"ok", "failed"} /\ (pc'[c] = "ok" => AddAlias(c))
  BY <1>1 DEF AddAlias, FailAlias, Go, DocInv, GoesOn, Widens, Running
<1>4. CASE FailAlias(c)
  <2>1. docs' = docs /\ pc'[c] = "failed"
    BY <1>4 DEF FailAlias, Unread, Go, DocInv
  <2>2. Own(c)' /\ \A w \in Users : Touches(c, w)
    BY <1>1, <1>2, <2>1 DEF Own, Over, Touches
  <2>. QED
    BY <1>3, <2>2, GoesOnKeeps
<1>5. CASE AddAlias(c)
  <2> DEFINE e == r.ref[1]
             new == [docs[e] EXCEPT !.knownAliases = @ \cup {c}]
  <2>1. /\ docs[e] # None /\ new # None /\ Owner(e, r.who[1])
        /\ docs'[e] = new /\ \A f \in Users \ {e} : docs'[f] = docs[f]
        /\ new.knownAliases = docs[e].knownAliases \cup {c} /\ new.rpsElo = docs[e].rpsElo
        /\ new.assignedFlairs = docs[e].assignedFlairs
    BY <1>5, AliasEffect
  <2> HIDE DEF new
  <2>2. \A w \in Users : Touches(c, w)
    BY <2>1 DEF Touches
  <2>3. Kept(r.who[1])' => e = r.who[1]
    BY <1>1, <2>1 DEF Owner, Kept
  <2>4. Own(c)'
    BY <1>1, <1>2, <1>3, <2>1, <2>3 DEF Own, Over
  <2>. QED
    BY <1>3, <2>2, <2>4, GoesOnKeeps
<1>. QED
  BY <1>4, <1>5

LEMMA AnswerRaces ==
  ASSUME DocInv, RaceInv, NEW c \in Calls, Deliver(c) \/ LoseAnswer(c)
  PROVE  RaceInv'
<1> DEFINE r == call[c]
           q == [r EXCEPT !.snap = <<None, None>>]
<1>1. /\ pc[c] = "answer" /\ UNCHANGED <<docs, raced, borrowed, dropped>>
      /\ pc' = [pc EXCEPT ![c] = "ok"] \/ pc' = [pc EXCEPT ![c] = "lost"]
      /\ call' = [call EXCEPT ![c] = q]
  BY DEF Deliver, LoseAnswer, Forget, Go, history
<1>2. r \in Record /\ r.kind = "rps" /\ Own(c)
  BY <1>1 DEF DocInv, WellCalled, RaceInv
<1>3. q.kind = r.kind /\ q.who = r.who
  BY <1>2 DEF Record
<1> HIDE DEF q
<1>4. call'[c] = q /\ pc'[c] \in {"ok", "lost"}
  BY <1>1 DEF DocInv
<1>5. GoesOn(c) /\ \A u \in Users : Touches(c, u)
  BY <1>1, <1>3, <1>4 DEF GoesOn, Widens, Running, Touches, DocInv
<1>6. Own(c)'
  <2>1. \A i \in Sides : Clean(r.who[i]) => c \in docs[r.who[i]].rpsElo
    BY <1>1, <1>2 DEF Own, Follows, Rated
  <2>2. ASSUME NEW i \in Sides, Clean(r.who[i])'
        PROVE  Follows(c, i, docs[r.who[i]].rpsElo)'
    <3>1. Clean(r.who[i])
      BY <1>1, <1>3, <1>4, <2>2 DEF Clean, Kept
    <3>. QED
      BY <1>1, <1>3, <1>4, <2>1, <3>1 DEF Follows
  <2>. QED
    BY <1>2, <1>3, <1>4, <2>2 DEF Own, Over
<1>. QED
  BY <1>5, <1>6, GoesOnKeeps

(* What happens elsewhere, while the calls stay where they are.            *)
LEMMA StillOwn ==
  ASSUME NEW d \in Calls, Own(d), pc'[d] = pc[d], call'[d] = call[d], docs' = docs,
         Widens
  PROVE  Own(d)'
BY DEF Own, Over, Clean, Kept, Follows, Rated, Widens

LEMMA StartRaces ==
  ASSUME DocInv, RaceInv, NEW c \in Calls, NEW r \in Requests, Start(c, r)
  PROVE  RaceInv'
<1> DEFINE q == [NoCall EXCEPT !.kind = r.kind, !.who = r.who, !.email = r.email,
                               !.flair = r.flair, !.aliases = r.aliases, !.pings = r.pings,
                               !.todo = SidesOf(r.kind)]
<1>1. /\ pc' = [pc EXCEPT ![c] = "read"] /\ call' = [call EXCEPT ![c] = q]
      /\ UNCHANGED <<docs, borrowed, dropped>> /\ Widens
      /\ raced' = raced \cup (FieldsOf(r.kind, r.who) \cap UNION {Fields(d) : d \in Running})
  BY DEF Start, Go, Widens
<1>2. r \in Request
  BY RequestAssumption
<1>3. q.kind = r.kind /\ q.who = r.who /\ q.todo = SidesOf(r.kind)
  BY <1>2 DEF Request, NoCall
<1> HIDE DEF q
<1>4. /\ call'[c] = q /\ pc'[c] = "read"
      /\ \A d \in Calls \ {c} : pc'[d] = pc[d] /\ call'[d] = call[d]
  BY <1>1 DEF DocInv
<1>5. Own(c)'
  BY <1>1, <1>3, <1>4 DEF Own, Over, Follows, SidesOf
<1>6. \A d \in Calls : Own(d)'
  BY <1>1, <1>4, <1>5, StillOwn DEF RaceInv
<1>7. ASSUME NEW d \in Running', d # c
      PROVE  d \in Running /\ Fields(d)' = Fields(d) /\ Fields(d) \cap Fields(c)' \subseteq raced'
  <2>1. d \in Running /\ call'[d] = call[d]
    BY <1>4, <1>7 DEF Running
  <2>2. Fields(d)' = Fields(d)
    BY <2>1 DEF Fields, FieldsOf, SidesOf
  <2>3. Fields(c)' = FieldsOf(r.kind, r.who)
    BY <1>3, <1>4 DEF Fields, FieldsOf, SidesOf
  <2>. QED
    BY <1>1, <2>1, <2>2, <2>3
<1>8. RacesSeen'
  <2> SUFFICES ASSUME NEW d \in Running', NEW e \in Running', d # e
               PROVE  Fields(d)' \cap Fields(e)' \subseteq raced'
    BY DEF RacesSeen
  <2>. QED
    BY <1>1, <1>7 DEF RaceInv, RacesSeen
<1>. QED
  BY <1>6, <1>8 DEF RaceInv

LEMMA RestRaces ==
  ASSUME RaceInv, UNCHANGED <<docs, pc, call, raced, borrowed, dropped>>
  PROVE  RaceInv'
<1>1. \A d \in Calls : Own(d)'
  BY StillOwn DEF RaceInv, Widens
<1>2. RacesSeen'
  BY DEF RaceInv, RacesSeen, Running, Fields, FieldsOf, SidesOf
<1>. QED
  BY <1>1, <1>2 DEF RaceInv

THEOREM RaceStep == DocInv /\ RaceInv /\ [Next]_vars => RaceInv'
<1> SUFFICES ASSUME DocInv, RaceInv, [Next]_vars
             PROVE  RaceInv'
  OBVIOUS
<1>1. ASSUME NEW c \in Calls, Step(c)
      PROVE  RaceInv'
  BY <1>1, ReadRaces, StoreShape, StoresRace, OtherWritesRace, AliasRaces, AnswerRaces DEF Step
<1>2. ASSUME NEW c \in Calls, NEW r \in Requests, Start(c, r)
      PROVE  RaceInv'
  BY <1>2, StartRaces
<1>3. ASSUME NEW c \in Calls, Expire(c)
      PROVE  RaceInv'
  BY <1>3, RestRaces DEF Expire, history
<1>4. ASSUME NEW u \in Visitors, Arrive(u) \/ Depart(u)
      PROVE  RaceInv'
  BY <1>4, RestRaces DEF Arrive, Depart, history
<1>5. CASE UNCHANGED vars
  BY <1>5, RestRaces DEF vars
<1>. QED
  BY <1>1, <1>2, <1>3, <1>4, <1>5 DEF Next

LEMMA RaceAlways == Spec => [](DocInv /\ RaceInv)
<1>. QED
  BY DocInit, DocStep, RaceInit, RaceStep, PTL DEF Spec

(* A result, an alias or a flair is lost in few ways: whatever else of the *)
(* document is read and written at the same time, and whatever fails, it   *)
(* takes two calls on the same rating, a list of aliases that a client     *)
(* sends without one, two creations of the account at once, or one under   *)
(* another user's email.                                                   *)
THEOREM ResultsCorrect == Spec => []ResultsAreKept
<1>. QED
  BY RaceAlways, RaceIsKept, PTL

(* The step with which the ratings of c are answered is its own.           *)
LEMMA OwnAnswer ==
  ASSUME [Next]_vars, DocInv, NEW c \in Calls, pc[c] = "answer", pc'[c] = "ok"
  PROVE  Deliver(c)
<1>1. pc \in [Calls -> Statuses] /\ pc' # pc
  BY DEF DocInv
<1>2. ASSUME NEW d \in Calls, NEW to, Go(d, to)
      PROVE  d = c /\ to = "ok"
  BY <1>1, <1>2 DEF Go
<1>3. ASSUME NEW d \in Calls, Step(d)
      PROVE  \E to : Go(d, to)
  <2>1. Ends(d) => \E to : Go(d, to)
    BY DEF Ends
  <2>2. ASSUME NEW i, NEW e, NEW value, Got(d, i, e, value)
        PROVE  \E to : Go(d, to)
    BY <1>1, <2>2 DEF Got
  <2>3. ASSUME NEW i, NEW failed, Wrote(d, i, failed)
        PROVE  \E to : Go(d, to)
    BY <1>1, <2>3 DEF Wrote
  <2>. QED
    BY <1>1, <1>3, <2>1, <2>2, <2>3
       DEF Step, ReadAccount, ReadTitles, RetryEstimate, UpdatePings, UpdateUserData,
           AddAlias, GrantFlair, CreateAccount, CreateTitle, Deliver, LoseAnswer, FailRead,
           FailAlias, ReadUser, RecordRpsResult, SetSidePreference, FailWrite, Store
<1>4. CASE Step(c)
  <2>1. Deliver(c) \/ LoseAnswer(c)
    BY <1>4
       DEF Step, ReadAccount, ReadTitles, RetryEstimate, UpdatePings, UpdateUserData,
           AddAlias, GrantFlair, CreateAccount, CreateTitle, FailRead,
           FailAlias, ReadUser, RecordRpsResult, SetSidePreference, FailWrite, Reading, Writing
  <2>2. ~LoseAnswer(c)
    BY <1>2 DEF LoseAnswer
  <2>. QED
    BY <2>1, <2>2
<1>5. ASSUME NEW d \in Calls, Step(d)
      PROVE  d = c
  BY <1>2, <1>3, <1>5
<1>6. ASSUME NEW d \in Calls, NEW r \in Requests, Start(d, r)
      PROVE  FALSE
  BY <1>2, <1>6 DEF Start
<1>. QED
  BY <1>1, <1>4, <1>5, <1>6 DEF Next, Expire, Arrive, Depart, vars

(* The cached rating of a player who is connected becomes what the         *)
(* document says, unless another call works on it.                         *)
LEMMA AnswerFollows ==
  ASSUME DocInv, RaceInv, [Next]_vars, NEW c \in Calls, pc[c] = "answer", pc'[c] = "ok",
         Fields(c) \cap raced = {}, NEW i \in Sides, Kept(call[c].who[i])
  PROVE  LET u == call[c].who[i]
         IN  cache'[u] = IF cache[u] = None THEN None ELSE docs'[u].rpsElo
<1> DEFINE r == call[c]
           u == call[c].who[i]
<1>1. Deliver(c) /\ docs' = docs
  BY OwnAnswer DEF Deliver
<1>2. r \in Record /\ Asks(r) /\ r.kind = "rps" /\ Own(c)
  BY DEF DocInv, WellCalled, RaceInv
<1>3. u \in Users /\ r.who[1] # r.who[2]
  BY <1>2, AskedFacts
<1>4. (CHOOSE j \in Sides : u = r.who[j]) = i
  BY <1>3
<1>5. <<u, "rpsElo">> \in Fields(c)
  BY <1>2 DEF Fields, FieldsOf, FieldOf, SidesOf
<1>6. docs[u].rpsElo = Rated(r.snap[i], c)
  BY <1>2, <1>5 DEF Own, Follows, Clean
<1>7. cache'[u] = Answered(c, cache[u], i)
  BY <1>1, <1>3, <1>4 DEF Deliver
<1>. QED
  BY <1>1, <1>6, <1>7 DEF Answered

(* An answered rating that no other call works on is the one the document  *)
(* has, for as many calls at once as there may be.                         *)
THEOREM AnswersCorrect == Spec => RatingsFollow
<1>1. ASSUME DocInv, RaceInv, [Next]_vars
      PROVE  [\A c \in Calls : pc[c] = "answer" /\ pc'[c] = "ok" /\ Fields(c) \cap raced = {} =>
                \A i \in Sides : LET u == call[c].who[i] IN Kept(u) =>
                  cache'[u] = IF cache[u] = None THEN None ELSE docs'[u].rpsElo]_vars
  BY <1>1, AnswerFollows
<1>. QED
  BY <1>1, RaceAlways, PTL DEF Spec, RatingsFollow
-----------------------------------------------------------------------------
(* What the preferences need: nobody has one about a user without a        *)
(* document; a call finds the entries it has read, and has made the one it *)
(* has written; and two users agree unless a call is between its writes.   *)
CleanSides(u) == Kept(u) /\ <<u, "sidePreferences">> \notin raced \cup torn

Known == \A u, v \in Users : docs[v] # None /\ docs[u] = None /\ Kept(u) => Prefs(v)[u] = None

SideRead(c, i) ==
  /\ pc[c] = "write" \/ (pc[c] = "read" /\ i \notin call[c].todo) =>
       \A w \in Users : Kept(w) /\ call[c].snap[i][w] # None => docs[w] # None
  /\ CleanSides(call[c].who[i]) =>
       /\ pc[c] = "read" /\ i \notin call[c].todo => Prefs(call[c].who[i]) = call[c].snap[i]
       /\ pc[c] = "write" /\ i \in call[c].todo => Prefs(call[c].who[i]) = call[c].snap[i]
       /\ pc[c] = "write" /\ i \notin call[c].todo => Prefs(call[c].who[i])[call[c].who[3 - i]] = c

SideCall(c) ==
  call[c].kind = "side" =>
    /\ pc[c] = "read" => call[c].failed = FALSE
    /\ pc[c] = "write" /\ call[c].failed = TRUE => Fields(c) \subseteq torn
    /\ \A i \in Sides : SideRead(c, i)

Halfway(c, u, v) ==
  /\ pc[c] = "write" /\ call[c].kind = "side" /\ call[c].todo # Sides
  /\ \E i \in Sides : call[c].who[i] = u /\ call[c].who[3 - i] = v

Agreed(x, y) == x = y \/ {x, y} \subseteq expired \cup {None}

Pair(u, v) ==
  /\ CleanSides(u) /\ CleanSides(v) /\ docs[u] # None /\ docs[v] # None
  => Agreed(Prefs(u)[v], Prefs(v)[u]) \/ \E c \in Calls : Halfway(c, u, v)

SideInv ==
  /\ Known
  /\ \A c \in Calls : SideCall(c)
  /\ \A u, v \in Users : Pair(u, v)

(* The invariant contains the property. *)
LEMMA SidesDoAgree == DocInv /\ SideInv => SidesAgree
<1> SUFFICES ASSUME DocInv, SideInv, NEW u \in Users, NEW v \in Users,
                    docs[u] # None, docs[v] # None, Settled(u), Settled(v)
             PROVE  Fresh(Prefs(u))[v] = Fresh(Prefs(v))[u]
  BY DEF SidesAgree, Prefs
<1>1. CleanSides(u) /\ CleanSides(v)
  BY DEF Settled, CleanSides
<1>2. ASSUME NEW c \in Calls, Halfway(c, u, v)
      PROVE  FALSE
  <2>1. c \in Running
    BY <1>2 DEF Halfway, Running
  <2>2. <<u, "sidePreferences">> \in Fields(c)
    BY <1>2 DEF Halfway, Fields, FieldsOf, FieldOf, SidesOf
  <2>. QED
    BY <2>1, <2>2 DEF Settled
<1>3. Agreed(Prefs(u)[v], Prefs(v)[u])
  BY <1>1, <1>2 DEF SideInv, Pair
<1>. QED
  BY <1>3 DEF Agreed, Fresh

LEMMA SideInit == Init => SideInv
<1> SUFFICES ASSUME Init
             PROVE  SideInv
  OBVIOUS
<1>1. \A c \in Calls : pc[c] = "idle"
  BY DEF Init
<1>2. \A c \in Calls : SideCall(c)
  BY <1>1 DEF SideCall, SideRead
<1>3. ASSUME NEW u \in Users, NEW v \in Users, docs[v] # None
      PROVE  Prefs(v)[u] = None
  BY <1>3 DEF Init, Prefs, NewDoc, NoSides
<1>. QED
  BY <1>2, <1>3 DEF SideInv, Known, Pair, Agreed

(* A call that stays where it is.                                          *)
LEMMA SideStays ==
  ASSUME DocInv, RaceInv, SideInv, NEW d \in Calls, pc'[d] = pc[d], call'[d] = call[d],
         Widens, torn \subseteq torn', Kept0,
         \A u \in Users : \/ Plain(u) \/ ~Kept(u)'
                          \/ \E c \in Running \ {d} : <<u, "sidePreferences">> \in Fields(c)
  PROVE  SideCall(d)'
<1> DEFINE r == call[d]
<1>0. \A u : (Kept(u)' => Kept(u)) /\ (CleanSides(u)' => CleanSides(u))
  BY KeptBefore DEF CleanSides, Widens
<1>1. SideCall(d) /\ WellCalled(pc[d], r) /\ HasFound(pc[d], r)
  BY DEF SideInv, DocInv
<1>2. Fields(d)' = Fields(d)
  BY DEF Fields, FieldsOf, SidesOf
<1>3. ASSUME r.kind = "side", NEW i \in Sides,
             pc[d] = "write" \/ (pc[d] = "read" /\ i \notin r.todo)
      PROVE  /\ \A w \in Users : Kept(w)' /\ r.snap[i][w] # None => docs'[w] # None
             /\ CleanSides(r.who[i])' => CleanSides(r.who[i]) /\ Prefs(r.who[i])' = Prefs(r.who[i])
  <2> DEFINE u == r.who[i]
  <2>1. \A w \in Users : Kept(w)' /\ r.snap[i][w] # None => docs'[w] # None
    BY <1>0, <1>1, <1>3 DEF SideCall, SideRead, Kept0
  <2>2. i \in SidesOf(r.kind) /\ r \in Record /\ Asks(r)
    BY <1>1, <1>3 DEF SidesOf, WellCalled
  <2>3. u \in Users /\ Found(r, i) /\ d \in Running
    BY <1>1, <1>3, <2>2, AskedFacts DEF HasFound, UserKinds, Running
  <2>4. <<u, "sidePreferences">> \in Fields(d)
    BY <1>3 DEF Fields, FieldsOf, FieldOf, SidesOf
  <2>5. ASSUME CleanSides(u)'
        PROVE  CleanSides(u) /\ Prefs(u)' = Prefs(u)
    <3>1. CleanSides(u) /\ Kept(u) /\ Kept(u)'
      BY <1>0, <2>5 DEF CleanSides
    <3>2. \A c \in Running \ {d} : <<u, "sidePreferences">> \notin Fields(c)
      BY <2>3, <2>4, <3>1, CommonField DEF CleanSides, Running
    <3>3. Plain(u) /\ docs[u] # None
      BY <2>3, <3>1, <3>2, OwnFound
    <3>. QED
      BY <3>1, <3>3 DEF Plain, Prefs
  <2>. QED
    BY <2>1, <2>5
<1>4. ASSUME r.kind = "side", NEW i \in Sides
      PROVE  SideRead(d, i)'
  <2>1. SideRead(d, i)
    BY <1>1, <1>4 DEF SideCall
  <2>. QED
    BY <1>3, <1>4, <2>1 DEF SideRead, Prefs
<1>. QED
  BY <1>1, <1>2, <1>4 DEF SideCall

LEMMA SideFrame ==
  ASSUME DocInv, RaceInv, SideInv, Widens, torn \subseteq torn',
         expired \subseteq expired', \A u \in Users : Plain(u), \A c \in Calls : SideCall(c)',
         \A c \in Calls, u, v \in Users :
           Halfway(c, u, v) => Halfway(c, u, v)' \/ ~CleanSides(u)'
  PROVE  SideInv'
<1>1. \A u : (Kept(u)' => Kept(u)) /\ (CleanSides(u)' => CleanSides(u))
  BY KeptBefore DEF CleanSides, Widens
<1>2. ASSUME NEW v \in Users
      PROVE  /\ docs[v] # None => docs'[v] # None
             /\ docs'[v] # None /\ docs[v] # None => Prefs(v)' = Prefs(v) \/ Prefs(v)' = NoSides
             /\ docs'[v] # None /\ docs[v] = None => Prefs(v)' = NoSides
             /\ Kept(v)' /\ docs[v] # None => Prefs(v)' = Prefs(v)
  BY <1>2 DEF Plain, Prefs
<1>3. \A u \in Users : NoSides[u] = None
  BY DEF NoSides
<1>4. Known'
  <2> SUFFICES ASSUME NEW u \in Users, NEW v \in Users, docs'[v] # None, docs'[u] = None, Kept(u)'
               PROVE  Prefs(v)'[u] = None
    BY DEF Known, Prefs, Kept
  <2>1. docs[u] = None /\ Kept(u)
    BY <1>1, <1>2
  <2>2. docs[v] # None => Prefs(v)[u] = None
    BY <2>1 DEF SideInv, Known
  <2>. QED
    BY <1>2, <1>3, <2>2
<1>6. ASSUME NEW u \in Users, NEW v \in Users, CleanSides(u)', CleanSides(v)',
             docs'[u] # None, docs'[v] # None,
             \A c \in Calls : ~Halfway(c, u, v)'
      PROVE  Agreed(Prefs(u)[v], Prefs(v)[u])'
  <2>1. CleanSides(u) /\ CleanSides(v) /\ Kept(u) /\ Kept(v) /\ Kept(u)' /\ Kept(v)'
    BY <1>1, <1>6 DEF CleanSides
  <2>2. \A c \in Calls : ~Halfway(c, u, v)
    BY <1>6
  <2>3. CASE docs[u] # None /\ docs[v] # None
    <3>1. Agreed(Prefs(u)[v], Prefs(v)[u])
      BY <2>1, <2>2, <2>3 DEF SideInv, Pair
    <3>2. Prefs(u)' = Prefs(u) /\ Prefs(v)' = Prefs(v)
      BY <1>2, <2>1, <2>3
    <3>. QED
      BY <3>1, <3>2 DEF Agreed
  <2>4. CASE docs[u] = None \/ docs[v] = None
    <3>1. docs[u] = None /\ docs[v] # None => Prefs(v)[u] = None
      BY <2>1 DEF SideInv, Known
    <3>2. docs[v] = None /\ docs[u] # None => Prefs(u)[v] = None
      BY <2>1 DEF SideInv, Known
    <3>3. Prefs(u)'[v] = None /\ Prefs(v)'[u] = None
      BY <1>2, <1>3, <1>6, <2>1, <2>4, <3>1, <3>2
    <3>. QED
      BY <3>3 DEF Agreed
  <2>. QED
    BY <2>3, <2>4
<1>. QED
  BY <1>4, <1>6 DEF SideInv, Pair

(* What a step of a call does not touch.                                   *)
LEMMA StepFrame ==
  ASSUME DocInv, NEW c \in Calls, Step(c)
  PROVE  /\ c \in Running /\ raced' = raced /\ Widens
         /\ torn \subseteq torn' /\ expired' = expired
         /\ \A d \in Calls \ {c} : pc'[d] = pc[d] /\ call'[d] = call[d]
         /\ \/ pc'[c] \in {"ok", "ended", "failed", "lost"}
            \/ call'[c].kind = call[c].kind /\ call'[c].who = call[c].who
<1>1. ASSUME Ends(c)
      PROVE  /\ \A d \in Calls \ {c} : pc'[d] = pc[d] /\ call'[d] = call[d]
             /\ pc'[c] = "ended"
  BY <1>1 DEF Ends, Go, DocInv
<1>2. ASSUME NEW i, NEW e, NEW value, Got(c, i, e, value)
      PROVE  /\ \A d \in Calls \ {c} : pc'[d] = pc[d] /\ call'[d] = call[d]
             /\ call'[c].kind = call[c].kind /\ call'[c].who = call[c].who
  BY <1>2 DEF Got, Go, DocInv, Record
<1>3. ASSUME NEW i, NEW failed, Wrote(c, i, failed)
      PROVE  /\ \A d \in Calls \ {c} : pc'[d] = pc[d] /\ call'[d] = call[d]
             /\ call'[c].kind = call[c].kind /\ call'[c].who = call[c].who
  BY <1>3 DEF Wrote, Go, DocInv, Record
<1>4. CASE \/ ReadAccount(c) \/ ReadTitles(c) \/ FailRead(c)
           \/ \E i \in Sides : ReadUser(c, i)
  <2>1. pc[c] = "read" /\ Unread
    BY <1>4 DEF ReadAccount, ReadTitles, FailRead, ReadUser, Reading
  <2>2. Ends(c) \/ \E i, e, value : Got(c, i, e, value)
    BY <1>4 DEF ReadAccount, ReadTitles, FailRead, ReadUser
  <2>. QED
    BY <1>1, <1>2, <2>1, <2>2 DEF Unread, history, Running, Widens
<1>5. CASE RetryEstimate(c)
  <2>1. CASE MayRetry(call[c].tries)
    <3>1. call' = [call EXCEPT ![c] = [call[c] EXCEPT !.tries = @ + 1]] /\ pc' = pc
      BY <1>5, <2>1 DEF RetryEstimate
    <3>. QED
      BY <1>5, <3>1 DEF RetryEstimate, Reading, Unread, history, Running, Widens, DocInv, Record
  <2>2. CASE ~MayRetry(call[c].tries)
    BY <1>1, <1>5, <2>2 DEF RetryEstimate, Reading, Unread, history, Running, Widens
  <2>. QED
    BY <2>1, <2>2
<1>6. CASE \/ UpdatePings(c) \/ UpdateUserData(c) \/ GrantFlair(c)
           \/ CreateAccount(c) \/ CreateTitle(c)
           \/ \E i \in Sides : RecordRpsResult(c, i) \/ SetSidePreference(c, i) \/ FailWrite(c, i)
  <2>1. /\ pc[c] = "write" /\ \E i, failed : Wrote(c, i, failed)
        /\ raced' = raced /\ torn \subseteq torn' /\ expired' = expired
    BY <1>6
       DEF UpdatePings, UpdateUserData, GrantFlair, CreateAccount, CreateTitle, RecordRpsResult,
           SetSidePreference, FailWrite, Writing, Store, history
  <2>2. borrowed \subseteq borrowed' /\ dropped \subseteq dropped'
    BY <1>6
       DEF UpdatePings, UpdateUserData, GrantFlair, CreateAccount, CreateTitle, RecordRpsResult,
           SetSidePreference, FailWrite, Store, history
  <2>. QED
    BY <1>3, <2>1, <2>2 DEF Running, Widens
<1>7. CASE AddAlias(c) \/ FailAlias(c)
  BY <1>7 DEF AddAlias, FailAlias, Go, Unread, history, Running, Widens, DocInv
<1>8. CASE Deliver(c) \/ LoseAnswer(c)
  BY <1>8 DEF Deliver, LoseAnswer, Forget, Go, history, Running, Widens, DocInv
<1>. QED
  BY <1>4, <1>5, <1>6, <1>7, <1>8 DEF Step

(* The steps of calls about something else.                                *)
LEMMA StorePlain ==
  ASSUME DocInv, NEW c \in Calls, NEW i \in Sides, NEW value \in Value(call[c].kind),
         Stores(c, i, value), call[c].kind # "side"
  PROVE  \A u \in Users : Plain(u)
<1> DEFINE v == call[c].ref[i]
           new == Stored(docs[v], FieldOf[call[c].kind], value, c)
<1>1. /\ pc[c] = "write" /\ i \in call[c].todo
      /\ call[c].kind \in StoreKinds /\ call[c].kind \in UserKinds
  BY DEF Stores, StoreKinds, UserKinds
<1>2. v \in Users /\ docs[v] \in GoodDoc
  BY <1>1, WritingFacts
<1>3. docs' = [docs EXCEPT ![v] = new]
  BY DEF Stores, Store
<1>4. new = Stored(docs[v], FieldOf[call[c].kind], value, c)
  OBVIOUS
<1> HIDE DEF new
<1>5. new \in GoodDoc /\ new.sidePreferences = docs[v].sidePreferences
  <2>1. Updates(new, docs[v], call[c].kind, value)
    BY <1>1, <1>2, <1>4, StoredUpdates
  <2>. QED
    BY <1>2, <2>1 DEF Updates
<1>6. docs'[v] = new /\ \A u \in Users \ {v} : docs'[u] = docs[u]
  BY <1>2, <1>3 DEF DocInv
<1>7. docs[v] # None /\ new # None
  BY <1>2, <1>5, NoDocAssumption DEF GoodDoc
<1>. QED
  BY <1>5, <1>6, <1>7 DEF Plain, Prefs

LEMMA StepPlain ==
  ASSUME DocInv, RaceInv, NEW c \in Calls, Step(c), call[c].kind # "side"
  PROVE  \A u \in Users : Plain(u)
<1>1. CASE docs' = docs
  BY <1>1 DEF Plain
<1>2. CASE \/ UpdatePings(c) \/ GrantFlair(c)
           \/ \E i \in Sides : RecordRpsResult(c, i) \/ SetSidePreference(c, i)
  BY <1>2, StoreShape, StorePlain
<1>3. CASE CreateAccount(c)
  <2> DEFINE u == call[c].who[1]
             e == call[c].email
             new == NewDoc(u, c)
  <2>1. /\ pc[c] = "write" /\ 1 \in call[c].todo /\ call[c].kind = "account"
        /\ docs' = [docs EXCEPT ![e] = new] /\ (e # u => e \in borrowed')
    BY <1>3 DEF CreateAccount, Writing
  <2>2. u \in Users /\ e \in Users /\ new \in GoodDoc /\ Own(c)
    BY <2>1, WritingFacts, AskedFacts, NewDocType DEF RaceInv
  <2>3. new # None /\ new.sidePreferences = NoSides
    BY <2>2, NoDocAssumption DEF GoodDoc, NewDoc
  <2> HIDE DEF new
  <2>4. docs'[e] = new /\ \A w \in Users \ {e} : docs'[w] = docs[w]
    BY <2>1, <2>2 DEF DocInv
  <2>5. ASSUME NEW w \in Users, w = e, Kept(w)'
        PROVE  docs[w] = None
    <3>1. w = u
      BY <2>1, <2>5 DEF Kept
    <3>2. Kept(w)
      BY <2>5, StepFrame, KeptBefore
    <3>. QED
      BY <2>1, <2>2, <3>1, <3>2 DEF Own
  <2>6. ASSUME NEW w \in Users
        PROVE  Plain(w)
    <3>1. CASE w = e
      BY <2>3, <2>4, <2>5, <3>1 DEF Plain, Prefs
    <3>2. CASE w # e
      BY <2>4, <3>2 DEF Plain
    <3>. QED
      BY <3>1, <3>2
  <2>. QED
    BY <2>6
<1>4. CASE AddAlias(c)
  BY <1>4, AliasEffect DEF Plain, Prefs
<1>5. CASE UpdateUserData(c)
  BY <1>5, UpdateTouches
<1>6. CASE \/ ReadAccount(c) \/ ReadTitles(c) \/ RetryEstimate(c) \/ CreateTitle(c)
           \/ Deliver(c) \/ LoseAnswer(c) \/ FailRead(c) \/ FailAlias(c)
           \/ \E i \in Sides : ReadUser(c, i) \/ FailWrite(c, i)
  <2>1. docs' = docs
    BY <1>6 DEF ReadAccount, ReadTitles, RetryEstimate, CreateTitle, Deliver, LoseAnswer,
                FailRead, FailAlias, ReadUser, FailWrite, Unread
  <2>. QED
    BY <1>1, <2>1
<1>. QED
  BY <1>2, <1>3, <1>4, <1>5, <1>6 DEF Step

LEMMA PlainKeeps ==
  ASSUME \A u \in Users : Plain(u)
  PROVE  Kept0
BY DEF Plain, Kept0

(* A step of call c that writes no preference.                             *)
LEMMA CallFrame ==
  ASSUME DocInv, RaceInv, SideInv, NEW c \in Calls, Step(c), \A u \in Users : Plain(u),
         SideCall(c)', \A u, v \in Users : Halfway(c, u, v) => ~CleanSides(u)'
  PROVE  SideInv'
<1>1. /\ Widens /\ torn \subseteq torn' /\ expired' = expired
      /\ \A d \in Calls \ {c} : pc'[d] = pc[d] /\ call'[d] = call[d]
  BY StepFrame
<1>2. ASSUME NEW d \in Calls
      PROVE  SideCall(d)'
  BY <1>1, PlainKeeps, SideStays
<1>3. ASSUME NEW d \in Calls, NEW u \in Users, NEW v \in Users, Halfway(d, u, v)
      PROVE  Halfway(d, u, v)' \/ ~CleanSides(u)'
  BY <1>1, <1>3 DEF Halfway
<1>. QED
  BY <1>1, <1>2, <1>3, SideFrame

LEMMA OtherKinds ==
  ASSUME DocInv, RaceInv, SideInv, NEW c \in Calls, Step(c), call[c].kind # "side"
  PROVE  SideInv'
<1>1. SideCall(c)'
  <2>1. pc'[c] \in {"ok", "ended", "failed", "lost"} \/ call'[c].kind = call[c].kind
    BY StepFrame
  <2>. QED
    BY <2>1 DEF SideCall, SideRead
<1>2. \A u, v \in Users : ~Halfway(c, u, v)
  BY DEF Halfway
<1>. QED
  BY <1>1, <1>2, StepPlain, CallFrame

(* A preference is read.                                                   *)
LEMMA GotSides ==
  ASSUME DocInv, RaceInv, SideInv, NEW c \in Calls, NEW i \in Sides, call[c].kind = "side",
         pc[c] = "read", i \in call[c].todo, NEW e \in DocsOf(call[c].who[i]),
         Got(c, i, e, Prefs(e)), Unread
  PROVE  SideCall(c)'
<1> DEFINE r == call[c]
           value == Prefs(e)
           todo == IF r.todo = {i} THEN SidesOf(r.kind) ELSE r.todo \ {i}
           q == Edited(r, i, e, value, todo)
<1>1. WellCalled("read", r) /\ r \in Record /\ Asks(r) /\ r.todo \subseteq Sides
  BY DEF DocInv, WellCalled, Record
<1>2. /\ call' = [call EXCEPT ![c] = q]
      /\ pc' = IF r.todo = {i} THEN [pc EXCEPT ![c] = "write"] ELSE pc
      /\ UNCHANGED <<docs, raced, torn, borrowed>>
  BY DEF Got, Go, Edited, Unread, history
<1>3. /\ q.todo = todo /\ q.kind = r.kind /\ q.who = r.who /\ q.failed = r.failed
      /\ q.snap[i] = value /\ \A j \in Sides \ {i} : q.snap[j] = r.snap[j]
  BY <1>1 DEF Record, Edited
<1>4. r.todo = {i} => todo = Sides
  BY DEF SidesOf
<1>5. \A j \in Sides : r.todo = {i} \/ j \notin todo => j = i \/ j \notin r.todo
  OBVIOUS
<1> HIDE DEF q, todo
<1>6. call'[c] = q /\ pc'[c] = IF r.todo = {i} THEN "write" ELSE "read"
  BY <1>2 DEF DocInv
<1>7. \A j \in Sides : SideRead(c, j)
  BY DEF SideInv, SideCall
<1>8. e \in Users /\ docs[e] # None /\ (Kept(r.who[i]) => e = r.who[i])
  BY KeptDocs DEF DocsOf
<1>9. \A w \in Users : Kept(w) /\ value[w] # None => docs[w] # None
  BY <1>8 DEF SideInv, Known
<1> HIDE DEF value
<1>10. ASSUME NEW j \in Sides, j = i \/ j \notin r.todo
       PROVE  /\ \A w \in Users : Kept(w) /\ q.snap[j][w] # None => docs[w] # None
              /\ CleanSides(r.who[j]) => Prefs(r.who[j]) = q.snap[j]
  <2>1. CASE j = i
    BY <1>3, <1>8, <1>9, <2>1 DEF value, CleanSides
  <2>2. CASE j # i
    BY <1>3, <1>7, <1>10, <2>2 DEF SideRead
  <2>. QED
    BY <2>1, <2>2
<1>11. ASSUME NEW j \in Sides
       PROVE  SideRead(c, j)'
  BY <1>2, <1>3, <1>4, <1>5, <1>6, <1>10 DEF SideRead, CleanSides, Kept, Prefs
<1>12. q.failed = FALSE
  BY <1>3 DEF SideInv, SideCall
<1>. QED
  BY <1>6, <1>11, <1>12 DEF SideCall

(* A preference is written.                                                *)
LEMMA PrefsWritten ==
  ASSUME DocInv, SideInv, NEW c \in Calls, NEW i \in Sides, SetSidePreference(c, i)
  PROVE  LET u == call[c].who[i]
             v == call[c].ref[i]
             w == call[c].who[3 - i]
         IN  /\ u \in Users /\ v \in Users /\ w \in Users /\ u # w
             /\ Kept(u) \/ Kept(v) => u = v
             /\ docs[v] # None /\ (Kept(w) => docs[w] # None)
             /\ docs'[v] # None /\ \A x \in Users \ {v} : docs'[x] = docs[x]
             /\ docs'[v].sidePreferences[w] = c
             /\ \A x \in Users \ {w} :
                  Kept(x) /\ docs'[v].sidePreferences[x] # None => docs[x] # None
             /\ CleanSides(u) => \A x \in Users \ {w} : docs'[v].sidePreferences[x] = Prefs(v)[x]
<1> DEFINE r == call[c]
           u == call[c].who[i]
           v == call[c].ref[i]
           w == call[c].who[3 - i]
           fresh == Fresh(r.snap[i])
           prefs == [fresh EXCEPT ![w] = c]
           value == Merged(Prefs(v), prefs)
           new == Stored(docs[v], FieldOf[r.kind], value, c)
<1>1. pc[c] = "write" /\ i \in r.todo /\ r.kind = "side" /\ Store(c, i, value)
  BY DEF SetSidePreference, Writing, Prefs
<1>2. WellCalled("write", r) /\ HasFound("write", r) /\ r \in Record /\ Asks(r)
  BY <1>1 DEF DocInv, WellCalled
<1>3. /\ \A j \in Sides : r.who[j] \in Users /\ Found(r, j)
      /\ r.who[1] # r.who[2]
  BY <1>1, <1>2, AskedFacts DEF HasFound, UserKinds, SidesOf
<1>4. /\ u \in Users /\ v \in Users /\ w \in Users /\ u # w /\ docs[v] # None
      /\ Kept(u) \/ Kept(v) => u = v
      /\ Kept(w) => docs[w] # None
  <2>1. u \in Users /\ w \in Users /\ u # w /\ Found(r, i) /\ Found(r, 3 - i)
    BY <1>3
  <2>2. Kept(w) => docs[w] # None
    BY <2>1, OwnFound
  <2>. QED
    BY <2>1, <2>2 DEF Found, Owner, Kept
<1>5. value \in Value("side") /\ docs[v] \in GoodDoc /\ r.snap[i] \in Value("side")
  <2>1. value \in Value("side")
    BY <1>1, SidesValue DEF Prefs
  <2> HIDE DEF value
  <2>2. docs[v] \in GoodDoc /\ r.snap[i] \in Value("side")
    BY <1>1, WritingFacts DEF UserKinds
  <2>. QED
    BY <2>1, <2>2
<1>6. docs' = [docs EXCEPT ![v] = new]
  BY <1>1 DEF Store
<1>7. new = Stored(docs[v], FieldOf[r.kind], value, c)
  OBVIOUS
<1>8. fresh = Fresh(r.snap[i]) /\ prefs = [fresh EXCEPT ![w] = c] /\ value = Merged(Prefs(v), prefs)
  OBVIOUS
<1> HIDE DEF new, value, prefs, fresh
<1>9. new \in GoodDoc /\ new.sidePreferences = value
  <2>1. Updates(new, docs[v], r.kind, value)
    BY <1>1, <1>5, <1>7, StoredUpdates DEF StoreKinds
  <2>. QED
    BY <1>1, <2>1 DEF Updates
<1>10. /\ docs'[v] = new /\ \A x \in Users \ {v} : docs'[x] = docs[x]
       /\ new # None /\ docs'[v].sidePreferences = value
  BY <1>4, <1>6, <1>9, NoDocAssumption DEF DocInv, GoodDoc, Prefs
<1>11. /\ fresh \in [Users -> Optional(Calls)] /\ \A x \in Users : fresh[x] \in {None, r.snap[i][x]}
       /\ prefs \in [Users -> Optional(Calls)] /\ prefs[w] = c
       /\ \A x \in Users \ {w} : prefs[x] = fresh[x]
  BY <1>4, <1>5, <1>8 DEF Fresh, Value
<1>12. \A x \in Users : value[x] = IF prefs[x] = None THEN Prefs(v)[x] ELSE prefs[x]
  BY <1>8 DEF Merged
<1>13. value[w] = c
  BY <1>4, <1>11, <1>12, NoneAssumption
<1>14. ASSUME NEW x \in Users \ {w}
       PROVE  value[x] \in {Prefs(v)[x], r.snap[i][x]}
  BY <1>11, <1>12
<1>15. SideRead(c, i)
  BY <1>1 DEF SideInv, SideCall
<1>16. ASSUME NEW x \in Users \ {w}, Kept(x), value[x] # None
       PROVE  docs[x] # None
  BY <1>1, <1>4, <1>14, <1>15, <1>16 DEF SideRead, SideInv, Known
<1>17. CleanSides(u) => Prefs(v) = r.snap[i]
  BY <1>1, <1>4, <1>15 DEF SideRead, CleanSides
<1>18. CleanSides(u) => \A x \in Users \ {w} : value[x] = Prefs(v)[x]
  BY <1>14, <1>17
<1>. QED
  BY <1>4, <1>10, <1>13, <1>16, <1>18

LEMMA SideWriteKeeps ==
  ASSUME DocInv, RaceInv, SideInv, NEW c \in Calls, NEW i \in Sides, SetSidePreference(c, i)
  PROVE  SideInv'
<1> DEFINE r == call[c]
           a == call[c].who[i]
           v == call[c].ref[i]
           w == call[c].who[3 - i]
           q == Past(r, i, r.failed)
<1>1. /\ pc[c] = "write" /\ i \in r.todo /\ r.kind = "side" /\ Wrote(c, i, r.failed)
      /\ UNCHANGED <<expired, raced, torn, borrowed, dropped>>
  BY DEF SetSidePreference, Writing, Store, history
<1>2. /\ WellCalled("write", r) /\ r \in Record /\ r.failed \in BOOLEAN /\ r.todo \subseteq Sides
  BY <1>1 DEF DocInv, WellCalled, Record
<1>3. /\ a \in Users /\ v \in Users /\ w \in Users /\ a # w
      /\ Kept(a) \/ Kept(v) => a = v
      /\ docs[v] # None /\ (Kept(w) => docs[w] # None)
      /\ docs'[v] # None /\ \A u \in Users \ {v} : docs'[u] = docs[u]
      /\ docs'[v].sidePreferences[w] = c
      /\ \A x \in Users \ {w} : Kept(x) /\ docs'[v].sidePreferences[x] # None => docs[x] # None
      /\ CleanSides(a) => \A x \in Users \ {w} : docs'[v].sidePreferences[x] = Prefs(v)[x]
  BY PrefsWritten
<1>4. /\ \A d \in Calls \ {c} : pc'[d] = pc[d] /\ call'[d] = call[d]
      /\ call'[c] = q /\ pc'[c] = IF r.todo = {i} THEN After(c, r.failed) ELSE "write"
  BY <1>1, <1>2, WroteCall DEF Moves
<1>5. /\ q.todo = r.todo \ {i} /\ q.snap = r.snap
      /\ q.kind = r.kind /\ q.who = r.who /\ q.failed = r.failed
  BY <1>2, PastEdit
<1> HIDE DEF q
<1>6. r.todo = {i} => pc'[c] \in {"ok", "failed"}
  BY <1>1, <1>4 DEF After
<1>7. /\ \A j \in Sides : r.who[j] \in Users /\ (j # i => j = 3 - i /\ r.who[j] = w)
      /\ Kept(w) => w # v
  BY <1>3
<1>8. \A u \in Users \ {v} : Prefs(u)' = Prefs(u)
  BY <1>3 DEF Prefs
<1>9. /\ \A u : (CleanSides(u)' <=> CleanSides(u)) /\ (Kept(u)' <=> Kept(u)) /\ Widens
      /\ \A u \in Users : docs'[u] = None <=> docs[u] = None
  BY <1>1, <1>3 DEF CleanSides, Kept, Widens
<1>10. <<a, "sidePreferences">> \in Fields(c) /\ c \in Running
  BY <1>1 DEF Fields, FieldsOf, FieldOf, SidesOf, Running
<1>11. Known'
  <2> SUFFICES ASSUME NEW u \in Users, NEW x \in Users, docs'[x] # None, docs'[u] = None, Kept(u)'
               PROVE  Prefs(x)'[u] = None
    BY DEF Known, Prefs, Kept
  <2>1. docs[x] # None /\ docs[u] = None /\ Kept(u)
    BY <1>9
  <2>2. CASE x = v
    <3>1. u # w
      BY <1>3, <2>1
    <3>. QED
      BY <1>3, <2>1, <2>2, <3>1 DEF Prefs
  <2>3. CASE x # v
    BY <1>8, <2>1, <2>3 DEF SideInv, Known
  <2>. QED
    BY <2>2, <2>3
<1>12. ASSUME NEW d \in Calls \ {c}
       PROVE  SideCall(d)'
  <2>1. \A u \in Users \ {v} : Plain(u)
    BY <1>3 DEF Plain
  <2>2. ASSUME NEW u \in Users, u = v, Kept(u)'
        PROVE  \E e \in Running \ {d} : <<u, "sidePreferences">> \in Fields(e)
    BY <1>3, <1>9, <1>10, <2>2
  <2>3. Kept0 /\ Widens
    BY <1>9 DEF Kept0
  <2>. QED
    BY <1>1, <1>4, <2>1, <2>2, <2>3, SideStays
<1>13. SideCall(c)'
  <2>1. CASE r.todo = {i}
    BY <1>6, <2>1 DEF SideCall, SideRead
  <2>2. CASE r.todo # {i}
    <3>1. pc'[c] = "write"
      BY <1>4, <2>2
    <3>2. Fields(c)' = Fields(c)
      BY <1>4, <1>5 DEF Fields, FieldsOf, SidesOf
    <3>3. r.failed = TRUE => Fields(c) \subseteq torn
      BY <1>1 DEF SideInv, SideCall
    <3>4. ASSUME NEW j \in Sides
          PROVE  SideRead(c, j)'
      <4>1. SideRead(c, j)
        BY <1>1 DEF SideInv, SideCall
      <4>2. \A x \in Users : Kept(x)' /\ q.snap[j][x] # None => docs'[x] # None
        BY <1>1, <1>5, <1>9, <4>1 DEF SideRead
      <4>3. ASSUME CleanSides(r.who[j])
            PROVE  /\ j \in q.todo => docs'[r.who[j]].sidePreferences = q.snap[j]
                   /\ j \notin q.todo => docs'[r.who[j]].sidePreferences[r.who[3 - j]] = c
        <5>0. Kept(r.who[j])
          BY <4>3 DEF CleanSides
        <5>1. CASE j = i
          BY <1>3, <1>5, <5>0, <5>1
        <5>2. CASE j # i
          <6>1. docs'[r.who[j]].sidePreferences = Prefs(r.who[j])
            BY <1>3, <1>7, <5>0, <5>2 DEF Prefs
          <6>. QED
            BY <1>1, <1>5, <4>1, <4>3, <5>2, <6>1 DEF SideRead
        <5>. QED
          BY <5>1, <5>2
      <4>. QED
        BY <1>4, <1>5, <1>9, <3>1, <4>2, <4>3 DEF SideRead, Prefs
    <3>. QED
      BY <1>1, <1>4, <1>5, <3>1, <3>2, <3>3, <3>4 DEF SideCall
  <2>. QED
    BY <2>1, <2>2
<1>14. ASSUME NEW u \in Users, NEW x \in Users, {u, x} # {a, w}, u # x, CleanSides(u)
       PROVE  docs'[u].sidePreferences[x] = Prefs(u)[x]
  <2>1. CASE u = v
    <3>1. u = a /\ x # w
      BY <1>3, <1>14, <2>1 DEF CleanSides
    <3>. QED
      BY <1>3, <1>14, <2>1, <3>1
  <2>2. CASE u # v
    BY <1>8, <2>2 DEF Prefs
  <2>. QED
    BY <2>1, <2>2
<1>15. ASSUME NEW u \in Users, NEW x \in Users, CleanSides(u), CleanSides(x),
              docs[u] # None, docs[x] # None, \A d \in Calls : ~Halfway(d, u, x)'
       PROVE  Agreed(Prefs(u)[x], Prefs(x)[u])'
  <2>1. CASE u = x
    BY <2>1 DEF Agreed
  <2>2. CASE {u, x} # {a, w} /\ u # x
    <3>1. ASSUME NEW d \in Calls
          PROVE  ~Halfway(d, u, x)
      <4>1. CASE d = c
        BY <1>3, <1>7, <2>2, <4>1 DEF Halfway
      <4>2. CASE d # c
        BY <1>4, <1>15, <4>2 DEF Halfway
      <4>. QED
        BY <4>1, <4>2
    <3>2. Agreed(Prefs(u)[x], Prefs(x)[u])
      BY <1>15, <3>1 DEF SideInv, Pair
    <3>3. docs'[u].sidePreferences[x] = Prefs(u)[x] /\ docs'[x].sidePreferences[u] = Prefs(x)[u]
      BY <1>14, <1>15, <2>2
    <3>. QED
      BY <1>1, <3>2, <3>3 DEF Agreed, Prefs
  <2>3. CASE {u, x} = {a, w} /\ u # x
    <3>1. (u = a /\ x = w) \/ (u = w /\ x = a)
      BY <1>3, <2>3
    <3>0. CleanSides(a) /\ CleanSides(w) /\ v = a
      BY <1>3, <1>15, <3>1 DEF CleanSides
    <3>2. r.todo = {i}
      <4> SUFFICES ASSUME r.todo # {i}
                   PROVE  FALSE
        OBVIOUS
      <4>1. pc'[c] = "write" /\ call'[c].kind = "side" /\ call'[c].todo # Sides
        BY <1>1, <1>4, <1>5
      <4>2. \E j \in Sides : call'[c].who[j] = u /\ call'[c].who[3 - j] = x
        BY <1>4, <1>5, <3>1
      <4>. QED
        BY <1>15, <4>1, <4>2 DEF Halfway
    <3>3. docs'[w].sidePreferences[a] = c
      <4>1. SideRead(c, 3 - i) /\ 3 - i \in Sides /\ 3 - i \notin r.todo /\ 3 - (3 - i) = i
        BY <1>1, <3>2 DEF SideInv, SideCall
      <4>2. Prefs(w)[a] = c
        BY <1>1, <3>0, <4>1 DEF SideRead
      <4>. QED
        BY <1>3, <3>0, <4>2 DEF Prefs
    <3>. QED
      BY <1>3, <3>0, <3>1, <3>3 DEF Agreed, Prefs
  <2>. QED
    BY <2>1, <2>2, <2>3
<1>16. \A u, x \in Users : Pair(u, x)'
  BY <1>9, <1>15 DEF Pair
<1>. QED
  BY <1>11, <1>12, <1>13, <1>16 DEF SideInv

LEMMA SideKind ==
  ASSUME DocInv, RaceInv, SideInv, NEW c \in Calls, Step(c), call[c].kind = "side"
  PROVE  SideInv'
<1> DEFINE r == call[c]
<1>1. \A u \in Users : docs' = docs => Plain(u)
  BY DEF Plain
<1>2. ASSUME NEW i \in Sides, ReadUser(c, i)
      PROVE  SideInv'
  <2>1. pc[c] = "read" /\ i \in r.todo /\ Unread /\ docs' = docs
    BY <1>2 DEF ReadUser, Reading, Unread
  <2>2. \A u, v \in Users : ~Halfway(c, u, v)
    BY <2>1 DEF Halfway
  <2>3. SideCall(c)'
    <3>1. CASE Ends(c)
      BY <3>1 DEF Ends, Go, DocInv, SideCall, SideRead
    <3>2. CASE \E e \in DocsOf(r.who[i]) : Got(c, i, e, Prefs(e))
      BY <2>1, <3>2, GotSides
    <3>3. FieldOf["side"] = "sidePreferences"
      BY DEF FieldOf
    <3>4. Ends(c) \/ \E e \in DocsOf(r.who[i]) : Got(c, i, e, docs[e][FieldOf["side"]])
      BY <1>2 DEF ReadUser
    <3>5. \A e : docs[e]["sidePreferences"] = Prefs(e)
      BY DEF Prefs
    <3>. QED
      BY <3>1, <3>2, <3>3, <3>4, <3>5
  <2>. QED
    BY <1>1, <2>1, <2>2, <2>3, CallFrame
<1>3. CASE FailRead(c)
  <2>1. pc[c] = "read" /\ docs' = docs /\ Ends(c)
    BY <1>3 DEF FailRead, Unread
  <2>2. SideCall(c)' /\ \A u, v \in Users : ~Halfway(c, u, v)
    BY <2>1 DEF Ends, Go, DocInv, SideCall, SideRead, Halfway
  <2>. QED
    BY <1>1, <2>1, <2>2, CallFrame
<1>4. ASSUME NEW i \in Sides, FailWrite(c, i)
      PROVE  SideInv'
  <2>1. /\ pc[c] = "write" /\ i \in r.todo /\ Wrote(c, i, TRUE) /\ docs' = docs
        /\ torn' = torn \cup Fields(c) /\ UNCHANGED <<raced, borrowed>>
    BY <1>4 DEF FailWrite
  <2>2. call'[c] = Past(r, i, TRUE)
    BY <2>1, WroteCall
  <2>3. call'[c].kind = r.kind /\ call'[c].who = r.who /\ call'[c].snap = r.snap
    BY <2>2 DEF DocInv, Past, Record
  <2>4. Fields(c)' = Fields(c)
    BY <2>3 DEF Fields, FieldsOf, SidesOf
  <2>5. \A j \in Sides : ~CleanSides(r.who[j])'
    BY <2>1, <2>3 DEF CleanSides, Fields, FieldsOf, FieldOf, SidesOf
  <2>6. \A j \in Sides, x \in Users : Kept(x)' /\ r.snap[j][x] # None => docs[x] # None
    BY <2>1 DEF SideInv, SideCall, SideRead, Kept
  <2>7. pc'[c] # "read"
    BY <2>1, WroteCall DEF After
  <2>8. SideCall(c)'
    BY <2>1, <2>3, <2>4, <2>5, <2>6, <2>7 DEF SideCall, SideRead
  <2>9. \A u, v \in Users : Halfway(c, u, v) => ~CleanSides(u)'
    BY <2>3, <2>5 DEF Halfway, CleanSides, Kept
  <2>. QED
    BY <1>1, <2>1, <2>8, <2>9, CallFrame
<1>5. ASSUME NEW i \in Sides, SetSidePreference(c, i)
      PROVE  SideInv'
  BY <1>5, SideWriteKeeps
<1>6. ~AddAlias(c) /\ ~FailAlias(c) /\ ~Deliver(c) /\ ~LoseAnswer(c)
  BY DEF AddAlias, FailAlias, Deliver, LoseAnswer, DocInv, WellCalled
<1>. QED
  BY <1>2, <1>3, <1>4, <1>5, <1>6
     DEF Step, ReadAccount, ReadTitles, RetryEstimate, UpdatePings, UpdateUserData, GrantFlair,
         CreateAccount, CreateTitle, RecordRpsResult, Reading, Writing

THEOREM SideStep == DocInv /\ RaceInv /\ SideInv /\ [Next]_vars => SideInv'
<1> SUFFICES ASSUME DocInv, RaceInv, SideInv, [Next]_vars
             PROVE  SideInv'
  OBVIOUS
<1>1. ASSUME NEW c \in Calls, Step(c)
      PROVE  SideInv'
  BY <1>1, OtherKinds, SideKind
<1>2. ASSUME UNCHANGED <<docs, raced, torn, borrowed, dropped, pc, call>>,
             expired \subseteq expired'
      PROVE  SideInv'
  <2>1. Kept0 /\ Widens /\ \A u \in Users : Plain(u)
    BY <1>2 DEF Kept0, Widens, Plain
  <2>2. \A d \in Calls : SideCall(d)'
    BY <1>2, <2>1, SideStays
  <2>3. \A d \in Calls, u, v \in Users : Halfway(d, u, v) => Halfway(d, u, v)'
    BY <1>2 DEF Halfway
  <2>. QED
    BY <1>2, <2>1, <2>2, <2>3, SideFrame
<1>3. ASSUME NEW c \in Calls, NEW r \in Requests, Start(c, r)
      PROVE  SideInv'
  <2>1. /\ pc[c] = "idle" /\ pc' = [pc EXCEPT ![c] = "read"] /\ UNCHANGED <<docs, expired, torn>>
        /\ Widens
        /\ call' = [call EXCEPT ![c] = [NoCall EXCEPT
             !.kind = r.kind, !.who = r.who, !.email = r.email, !.flair = r.flair,
             !.aliases = r.aliases, !.pings = r.pings, !.todo = SidesOf(r.kind)]]
    BY <1>3 DEF Start, Go, Widens
  <2>2. /\ pc'[c] = "read" /\ call'[c].todo = SidesOf(call'[c].kind) /\ call'[c].failed = FALSE
        /\ \A d \in Calls \ {c} : pc'[d] = pc[d] /\ call'[d] = call[d]
    BY <2>1 DEF DocInv, NoCall
  <2>3. Kept0 /\ \A u \in Users : Plain(u)
    BY <2>1 DEF Kept0, Plain
  <2>4. SideCall(c)'
    BY <2>2 DEF SideCall, SideRead, SidesOf
  <2>5. \A d \in Calls : SideCall(d)'
    BY <2>1, <2>2, <2>3, <2>4, SideStays
  <2>6. ASSUME NEW d \in Calls, NEW u \in Users, NEW v \in Users, Halfway(d, u, v)
        PROVE  Halfway(d, u, v)'
    BY <2>1, <2>2, <2>6 DEF Halfway
  <2>. QED
    BY <2>1, <2>3, <2>5, <2>6, SideFrame
<1>. QED
  BY <1>1, <1>2, <1>3 DEF Next, Expire, Arrive, Depart, history, vars

(* Two players' preferences about each other are of the same call, however *)
(* many other preferences either of them makes, that overlap or expire.    *)
THEOREM SidesCorrect == Spec => []SidesAgree
<1>1. DocInv /\ RaceInv /\ SideInv /\ [Next]_vars => (DocInv /\ RaceInv /\ SideInv)'
  BY DocStep, RaceStep, SideStep
<1>2. Init => DocInv /\ RaceInv /\ SideInv
  BY DocInit, RaceInit, SideInit
<1>3. DocInv /\ RaceInv /\ SideInv => SidesAgree
  BY SidesDoAgree
<1>. QED
  BY <1>1, <1>2, <1>3, PTL DEF Spec
=============================================================================
