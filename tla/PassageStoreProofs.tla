------------------------- MODULE PassageStoreProofs -------------------------
(* The safety properties of PassageStore hold for any documents, bodies, calls and      *)
(* listeners.                                                                           *)
EXTENDS PassageStore, TLAPS

(* The chunks call w cuts body b of document id into. *)
Cut(w, id, b) ==
  {[id |-> <<w, k>>, document |-> id, body |-> b] : k \in 1 .. ChunkCount[b]}

Open(w) == upsert[w].pc \in {"rebuild", "commit"}
Done(w) == upsert[w].pc = "done"

(* The states of a call, as in TypeOK. *)
Transactions ==
  [pc : {"idle", "check", "touch", "insert", "rebuild", "commit", "done"},
   ref : Refs \cup {None}, body : Bodies \cup {None}, document : Upserts \cup {None},
   deleted : SUBSET ChunkId, inserted : SUBSET Chunk]

(* The lock on a row is held by the open transaction on it, and by no other. *)
LocksHeld ==
  \A r \in Refs, w \in Upserts : holder[r] = w <=> (Open(w) /\ upsert[w].ref = r)

(* What an open transaction knows of its document is still so. *)
TransactionsCurrent ==
  \A w \in Upserts :
    /\ upsert[w].pc \notin {"idle", "done"} => upsert[w].ref \in Refs /\ upsert[w].body \in Bodies
    /\ Open(w) => upsert[w].document = IF document[upsert[w].ref] = None THEN w
                                       ELSE document[upsert[w].ref].id
    /\ upsert[w].pc = "commit" =>
         /\ upsert[w].deleted = Ids(ChunksOf(upsert[w].document))
         /\ upsert[w].inserted = Cut(w, upsert[w].document, upsert[w].body)

(* Ids are of calls that have ended, and say which document they belong to. *)
Origins ==
  /\ \A r \in Refs : document[r] # None => Done(document[r].id)
  /\ \A r, s \in Refs :
       (document[r] # None /\ document[s] # None /\ document[r].id = document[s].id) => r = s
  /\ \A c \in chunks : Done(c.id[1])
  /\ \A c, d \in chunks : c.id[1] = d.id[1] => c.document = d.document

(* What the rows of l's report name. *)
Reported(l) == {p.chunk : p \in {q \in plays : q.user = listener[l].user /\ q.event = l}}

(* A device that was told its plays are recorded has a play of each passage it was      *)
(* offered and that still exists; one whose statement runs has found every such passage. *)
OffersRemembered ==
  \A l \in Listeners :
    /\ listener[l].pc # "idle" => listener[l].user \in Users
    /\ \A c \in listener[l].offered : Done(c.id[1])
    /\ listener[l].pc = "insert" =>
         Ids(listener[l].offered) \cap Ids(chunks) \subseteq listener[l].found
    /\ listener[l].pc = "ok" =>
         Ids(listener[l].offered) \cap Ids(chunks) \subseteq Reported(l)

IInv ==
  /\ TypeOK
  /\ LocksHeld
  /\ TransactionsCurrent
  /\ Origins
  /\ ChunksMatchDocument
  /\ OffersRemembered
  /\ OffersAreOneVersion

-----------------------------------------------------------------------------
LEMMA CutFacts ==
  ASSUME NEW w \in Upserts, NEW id \in Upserts, NEW b \in Bodies
  PROVE  /\ Cut(w, id, b) \subseteq Chunk
         /\ \A c \in Cut(w, id, b) : c.id[1] = w /\ c.document = id /\ c.body = b
         /\ \A c, d \in Cut(w, id, b) : c.id = d.id => c = d
BY ChunkCountAssumption DEF Cut, Chunk, ChunkId

LEMMA ChunkTypes ==
  ASSUME TypeOK, NEW c \in chunks
  PROVE  c \in Chunk /\ c.id \in ChunkId /\ c.id[1] \in Upserts /\ c.document \in Upserts
BY DEF TypeOK, Chunk, ChunkId

LEMMA DocumentTypes ==
  ASSUME TypeOK, NEW r \in Refs, document[r] # None
  PROVE  document[r] \in Document /\ document[r].id \in Upserts /\ document[r].body \in Bodies
BY DEF TypeOK, Document

(* All the chunks of a document were cut by one call. *)
LEMMA OneVersion ==
  ASSUME TypeOK, ChunksMatchDocument, NEW c \in chunks, NEW d \in chunks, c.document = d.document
  PROVE  c.body = d.body /\ c.id[1] = d.id[1] /\ (c.id = d.id => c = d)
<1>1. PICK r \in Refs : document[r] # None /\ document[r].id = c.document
  BY DEF ChunksMatchDocument
<1>2. PICK w \in Upserts :
        ChunksOf(document[r].id) = Cut(w, document[r].id, document[r].body)
  BY <1>1 DEF ChunksMatchDocument, Cut
<1>3. c \in ChunksOf(document[r].id) /\ d \in ChunksOf(document[r].id)
  BY <1>1 DEF ChunksOf
<1>. QED
  BY <1>1, <1>2, <1>3, CutFacts, DocumentTypes

(* Ids are unique. *)
LEMMA UniqueIds ==
  ASSUME TypeOK, ChunksMatchDocument, Origins, NEW c \in chunks, NEW d \in chunks, c.id = d.id
  PROVE  c = d
<1>1. c.document = d.document
  BY DEF Origins
<1>. QED
  BY <1>1, OneVersion

(* Deleting by the ids of a document's chunks deletes its chunks and no other. *)
LEMMA DeletedById ==
  ASSUME TypeOK, ChunksMatchDocument, Origins, NEW id
  PROVE  \A c \in chunks : c.id \in Ids(ChunksOf(id)) <=> c.document = id
BY UniqueIds DEF Ids, ChunksOf

LEMMA InitIInv == Init => IInv
<1>. SUFFICES ASSUME Init PROVE IInv
  OBVIOUS
<1>1. TypeOK
  BY DEF Init, TypeOK, NotStarted, NotAsked
<1>2. LocksHeld /\ TransactionsCurrent /\ Origins
  BY NoneAssumption DEF Init, LocksHeld, TransactionsCurrent, Origins, NotStarted, Open
<1>3. ChunksMatchDocument /\ OffersRemembered /\ OffersAreOneVersion
  BY DEF Init, ChunksMatchDocument, OffersRemembered, OffersAreOneVersion, NotAsked
<1>. QED
  BY <1>1, <1>2, <1>3 DEF IInv

-----------------------------------------------------------------------------
(* A step of call w that changes nothing committed. *)
LEMMA UncommittedStep ==
  ASSUME IInv, TypeOK', UNCHANGED <<document, chunks, plays, removal, listener>>,
         NEW w \in Upserts, \A v \in Upserts \ {w} : upsert'[v] = upsert[v],
         ~Done(w), LocksHeld', TransactionsCurrent'
  PROVE  IInv'
<1>1. \A v \in Upserts : Done(v) => Done(v)'
  BY DEF Done
<1>2. Origins'
  BY <1>1, ChunkTypes, DocumentTypes DEF IInv, Origins
<1>3. ChunksMatchDocument' /\ OffersAreOneVersion'
  BY DEF IInv, ChunksMatchDocument, OffersAreOneVersion, ChunksOf, Ids
<1>4. OffersRemembered'
  <2>1. \A l \in Listeners : \A c \in listener[l].offered : c.id[1] \in Upserts
    BY DEF IInv, TypeOK, Chunk, ChunkId
  <2>. QED
    BY <1>1, <2>1 DEF IInv, OffersRemembered, Ids, Reported
<1>. QED
  BY <1>2, <1>3, <1>4 DEF IInv

LEMMA UpsertTypes ==
  ASSUME TypeOK
  PROVE  /\ upsert \in [Upserts -> Transactions]
         /\ \A w \in Upserts : upsert[w] \in Transactions
BY DEF TypeOK, Transactions

(* A call's record is replaced. *)
LEMMA UpsertAssigned ==
  ASSUME TypeOK, NEW w \in Upserts, NEW new \in Transactions, upsert' = [upsert EXCEPT ![w] = new]
  PROVE  /\ upsert'[w] = new /\ \A v \in Upserts \ {w} : upsert'[v] = upsert[v]
         /\ upsert' \in [Upserts -> Transactions]
BY UpsertTypes

(* UpsertDocument and CheckHash: no transaction is open yet. *)
LEMMA BeforeTransaction ==
  ASSUME IInv, NEW w \in Upserts, UpsertDocument(w) \/ CheckHash(w)
  PROVE  IInv'
<1>1. /\ TypeOK /\ UNCHANGED <<document, chunks, plays, holder, removal, listener>>
      /\ upsert[w].pc \in {"idle", "check"} /\ upsert[w] \in Transactions
  BY UpsertTypes DEF IInv, UpsertDocument, CheckHash
<1>2. PICK new \in Transactions :
        /\ upsert' = [upsert EXCEPT ![w] = new]
        /\ new.pc \in {"check", "touch", "insert"} /\ new.ref \in Refs /\ new.body \in Bodies
  <2>1. CASE UpsertDocument(w)
    <3>1. PICK r \in Refs, b \in Bodies :
            upsert' = [upsert EXCEPT ![w].pc = "check", ![w].ref = r, ![w].body = b]
      BY <2>1 DEF UpsertDocument
    <3>. DEFINE n == [upsert[w] EXCEPT !.pc = "check", !.ref = r, !.body = b]
    <3>2. n \in Transactions /\ n.pc = "check" /\ n.ref = r /\ n.body = b
      BY <1>1 DEF Transactions
    <3>3. upsert' = [upsert EXCEPT ![w] = n]
      BY <1>1, <3>1, UpsertTypes
    <3>. QED
      BY <3>2, <3>3
  <2>2. CASE CheckHash(w)
    <3>1. upsert[w].ref \in Refs /\ upsert[w].body \in Bodies
      BY <2>2 DEF CheckHash, IInv, TransactionsCurrent
    <3>2. PICK pc \in {"touch", "insert"}, id \in Upserts \cup {None} :
            upsert' = [upsert EXCEPT ![w].pc = pc, ![w].document = id]
      <4>. DEFINE id == IF document[upsert[w].ref] = None THEN None ELSE document[upsert[w].ref].id
                  pc == IF SameBody(w) THEN "touch" ELSE "insert"
      <4>1. id \in Upserts \cup {None} /\ pc \in {"touch", "insert"}
        BY <1>1, <3>1, DocumentTypes
      <4>2. upsert' = [upsert EXCEPT ![w].pc = pc, ![w].document = id]
        BY <2>2 DEF CheckHash
      <4>. QED
        BY <4>1, <4>2
    <3>. DEFINE n == [upsert[w] EXCEPT !.pc = pc, !.document = id]
    <3>3. n \in Transactions /\ n.pc = pc /\ n.ref = upsert[w].ref /\ n.body = upsert[w].body
      BY <1>1 DEF Transactions
    <3>4. upsert' = [upsert EXCEPT ![w] = n]
      BY <1>1, <3>2, UpsertTypes
    <3>. QED
      BY <3>1, <3>3, <3>4
  <2>. QED
    BY <2>1, <2>2
<1>3. /\ upsert'[w] = new /\ \A v \in Upserts \ {w} : upsert'[v] = upsert[v]
      /\ upsert' \in [Upserts -> Transactions]
  BY <1>1, <1>2, UpsertAssigned
<1>4. TypeOK'
  BY <1>1, <1>3 DEF TypeOK, Transactions
<1>5. ~Open(w) /\ ~Open(w)' /\ ~Done(w)
  BY <1>1, <1>2, <1>3 DEF Open, Done
<1>6. LocksHeld'
  BY <1>1, <1>3, <1>5 DEF IInv, LocksHeld, Open
<1>7. TransactionsCurrent'
  BY <1>1, <1>2, <1>3, <1>5 DEF IInv, TransactionsCurrent, Open, ChunksOf, Ids
<1>. QED
  BY <1>1, <1>3, <1>4, <1>5, <1>6, <1>7, UncommittedStep

(* Touch and FailUpsert: the call ends, and its locks, if any, are released. *)
LEMMA CallEnds ==
  ASSUME IInv, NEW w \in Upserts, Touch(w) \/ FailUpsert(w)
  PROVE  IInv'
<1>1. /\ TypeOK /\ UNCHANGED <<document, chunks, plays, removal, listener>> /\ ~Done(w)
      /\ upsert' = [upsert EXCEPT ![w] = [NotStarted EXCEPT !.pc = "done"]]
  BY DEF IInv, Touch, FailUpsert, Done
<1>2. /\ upsert'[w].pc = "done" /\ \A v \in Upserts \ {w} : upsert'[v] = upsert[v]
      /\ upsert' \in [Upserts -> Transactions]
  BY <1>1 DEF TypeOK, NotStarted, Transactions
<1>3. \A r \in Refs : holder'[r] = IF holder[r] = w THEN None ELSE holder[r]
  <2>1. CASE Touch(w)
    BY <2>1 DEF Touch, IInv, LocksHeld, Open
  <2>2. CASE FailUpsert(w)
    BY <2>2 DEF FailUpsert
  <2>. QED
    BY <2>1, <2>2
<1>4. holder' \in [Refs -> Upserts \cup {None}]
  BY <1>1 DEF Touch, FailUpsert, TypeOK
<1>5. TypeOK'
  BY <1>1, <1>2, <1>4 DEF TypeOK, Transactions
<1>6. LocksHeld'
  BY <1>2, <1>3, NoneAssumption DEF IInv, LocksHeld, Open
<1>7. TransactionsCurrent'
  BY <1>1, <1>2 DEF IInv, TransactionsCurrent, Open, ChunksOf, Ids
<1>. QED
  BY <1>1, <1>2, <1>5, <1>6, <1>7, UncommittedStep

LEMMA InsertDocumentKeepsIInv ==
  ASSUME IInv, NEW w \in Upserts, InsertDocument(w)
  PROVE  IInv'
<1>1. /\ TypeOK /\ UNCHANGED <<document, chunks, plays, removal, listener>>
      /\ upsert[w].pc = "insert" /\ upsert[w].ref \in Refs /\ upsert[w].body \in Bodies
  BY DEF IInv, InsertDocument, TransactionsCurrent
<1>2. PICK r \in Refs : r = upsert[w].ref
  BY <1>1
<1>3. PICK id \in Upserts : id = IF document[r] = None THEN w ELSE document[r].id
  BY <1>1, DocumentTypes
<1>4. /\ holder[r] = None /\ holder' = [holder EXCEPT ![r] = w]
      /\ upsert' = [upsert EXCEPT ![w].pc = "rebuild", ![w].document = id]
  BY <1>2, <1>3 DEF InsertDocument
<1>5. /\ TypeOK' /\ holder'[r] = w /\ \A s \in Refs \ {r} : holder'[s] = holder[s]
      /\ upsert'[w].pc = "rebuild" /\ upsert'[w].ref = r /\ upsert'[w].body = upsert[w].body
      /\ upsert'[w].document = id
      /\ \A v \in Upserts \ {w} : upsert'[v] = upsert[v]
  <2>. DEFINE new == [upsert[w] EXCEPT !.pc = "rebuild", !.document = id]
  <2>1. /\ new \in Transactions /\ new.pc = "rebuild" /\ new.document = id
        /\ new.ref = upsert[w].ref /\ new.body = upsert[w].body
    BY <1>1, UpsertTypes DEF Transactions
  <2>2. upsert' = [upsert EXCEPT ![w] = new]
    BY <1>1, <1>4, UpsertTypes
  <2>3. /\ holder' \in [Refs -> Upserts \cup {None}]
        /\ holder'[r] = w /\ \A s \in Refs \ {r} : holder'[s] = holder[s]
    BY <1>1, <1>4 DEF TypeOK
  <2>. QED
    <3>. HIDE DEF new
    <3>1. /\ upsert'[w] = new /\ \A v \in Upserts \ {w} : upsert'[v] = upsert[v]
          /\ upsert' \in [Upserts -> Transactions]
      BY <1>1, <2>1, <2>2, UpsertAssigned
    <3>2. TypeOK'
      BY <1>1, <2>3, <3>1 DEF TypeOK, Transactions
    <3>. QED
      BY <1>2, <2>1, <2>3, <3>1, <3>2
<1>6. LocksHeld'
  <2>1. ASSUME NEW v \in Upserts PROVE ~(Open(v) /\ upsert[v].ref = r)
    BY <1>4, NoneAssumption DEF IInv, LocksHeld
  <2>2. ~Open(w) /\ Open(w)'
    BY <1>1, <1>5 DEF Open
  <2>3. \A v \in Upserts \ {w} : Open(v)' = Open(v)
    BY <1>5 DEF Open
  <2>. QED
    BY <1>2, <1>5, <2>1, <2>2, <2>3 DEF IInv, LocksHeld
<1>7. TransactionsCurrent'
  BY <1>1, <1>2, <1>3, <1>5 DEF IInv, TransactionsCurrent, Open, ChunksOf, Ids
<1>. QED
  BY <1>1, <1>5, <1>6, <1>7, UncommittedStep DEF Done

LEMMA RebuildChunksKeepsIInv ==
  ASSUME IInv, NEW w \in Upserts, RebuildChunks(w)
  PROVE  IInv'
<1>1. /\ TypeOK /\ UNCHANGED <<document, chunks, plays, holder, removal, listener>>
      /\ upsert[w].pc = "rebuild" /\ upsert[w].ref \in Refs /\ upsert[w].body \in Bodies
  BY DEF IInv, RebuildChunks, TransactionsCurrent
<1>2. upsert[w].document \in Upserts
  BY <1>1, DocumentTypes DEF IInv, TransactionsCurrent, Open
<1>3. PICK id \in Upserts, b \in Bodies : id = upsert[w].document /\ b = upsert[w].body
  BY <1>1, <1>2
<1>4. upsert' = [upsert EXCEPT ![w].pc = "commit", ![w].deleted = Ids(ChunksOf(id)),
                               ![w].inserted = Cut(w, id, b)]
  BY <1>3 DEF RebuildChunks, Cut
<1>5. Ids(ChunksOf(id)) \in SUBSET ChunkId /\ Cut(w, id, b) \in SUBSET Chunk
  BY <1>1, ChunkTypes, CutFacts DEF Ids, ChunksOf
<1>6. /\ TypeOK' /\ \A v \in Upserts \ {w} : upsert'[v] = upsert[v]
      /\ upsert'[w].pc = "commit" /\ upsert'[w].ref = upsert[w].ref /\ upsert'[w].body = b
      /\ upsert'[w].document = id /\ upsert'[w].deleted = Ids(ChunksOf(id))
      /\ upsert'[w].inserted = Cut(w, id, b)
  <2>. DEFINE new == [upsert[w] EXCEPT !.pc = "commit", !.deleted = Ids(ChunksOf(id)),
                                       !.inserted = Cut(w, id, b)]
  <2>1. /\ new \in Transactions /\ new.pc = "commit" /\ new.deleted = Ids(ChunksOf(id))
        /\ new.inserted = Cut(w, id, b) /\ new.document = upsert[w].document
        /\ new.ref = upsert[w].ref /\ new.body = upsert[w].body
    BY <1>1, <1>5, UpsertTypes DEF Transactions
  <2>2. upsert' = [upsert EXCEPT ![w] = new]
    BY <1>1, <1>4, UpsertTypes
  <2>. HIDE DEF new
  <2>3. /\ upsert'[w] = new /\ \A v \in Upserts \ {w} : upsert'[v] = upsert[v]
        /\ upsert' \in [Upserts -> Transactions]
    BY <1>1, <2>1, <2>2, UpsertAssigned
  <2>4. TypeOK'
    BY <1>1, <2>3 DEF TypeOK, Transactions
  <2>. QED
    BY <1>3, <2>1, <2>3, <2>4
<1>7. LocksHeld'
  BY <1>1, <1>6 DEF IInv, LocksHeld, Open
<1>8. Ids(ChunksOf(id))' = Ids(ChunksOf(id))
  BY <1>1 DEF Ids, ChunksOf
<1>9. TransactionsCurrent'
  <2>1. ASSUME NEW v \in Upserts \ {w}, upsert[v].pc = "commit"
        PROVE  /\ upsert'[v].deleted = Ids(ChunksOf(upsert[v].document))'
               /\ upsert'[v].inserted = Cut(v, upsert'[v].document, upsert'[v].body)
    BY <1>1, <1>6, <2>1 DEF IInv, TransactionsCurrent, ChunksOf, Ids
  <2>. QED
    BY <1>1, <1>3, <1>6, <1>8, <2>1 DEF IInv, TransactionsCurrent, Open
<1>. QED
  BY <1>1, <1>6, <1>7, <1>9, UncommittedStep DEF Done

-----------------------------------------------------------------------------
(* Deletions: the plays of the deleted chunks go with them, and their ids do not come   *)
(* back.                                                                                *)
LEMMA OffersSurvive ==
  ASSUME IInv, NEW gone, Cascade(gone), UNCHANGED listener,
         \A w \in Upserts : Done(w) => Done(w)',
         \A c \in chunks' : Done(c.id[1]) => c \in chunks /\ c.id \notin gone
  PROVE  OffersRemembered' /\ OffersAreOneVersion'
<1>1. ASSUME NEW l \in Listeners, NEW c \in listener[l].offered
      PROVE  Done(c.id[1]) /\ Done(c.id[1])' /\ c \in Chunk
  BY DEF IInv, OffersRemembered, TypeOK, Chunk, ChunkId
<1>2. ASSUME NEW l \in Listeners, NEW i \in Ids(listener[l].offered) \cap Ids(chunks')
      PROVE  i \in Ids(listener[l].offered) \cap Ids(chunks) /\ i \notin gone
  <2>1. PICK c \in listener[l].offered, d \in chunks' : c.id = i /\ d.id = i
    BY <1>2 DEF Ids
  <2>. QED
    BY <1>1, <2>1 DEF Ids
<1>3. ASSUME NEW l \in Listeners, NEW i \in Reported(l), i \notin gone
      PROVE  i \in Reported(l)'
  BY <1>3 DEF Reported, Cascade
<1>4. OffersRemembered'
  <2>1. \A l \in Listeners : Ids(listener[l].offered)' = Ids(listener[l].offered)
    BY DEF Ids
  <2>2. Ids(chunks)' = Ids(chunks')
    BY DEF Ids
  <2>3. ASSUME NEW l \in Listeners
        PROVE  /\ listener[l].pc # "idle" => listener[l].user \in Users
               /\ listener[l].pc = "insert" =>
                    Ids(listener[l].offered) \cap Ids(chunks) \subseteq listener[l].found
               /\ listener[l].pc = "ok" =>
                    Ids(listener[l].offered) \cap Ids(chunks) \subseteq Reported(l)
    BY DEF IInv, OffersRemembered
  <2>4. ASSUME NEW l \in Listeners
        PROVE  /\ listener[l].pc = "insert" =>
                    Ids(listener[l].offered) \cap Ids(chunks)' \subseteq listener[l].found
               /\ listener[l].pc = "ok" =>
                    Ids(listener[l].offered) \cap Ids(chunks)' \subseteq Reported(l)'
    BY <1>2, <1>3, <2>2, <2>3
  <2>. QED
    BY <1>1, <2>1, <2>3, <2>4 DEF OffersRemembered
<1>. QED
  BY <1>4 DEF IInv, OffersAreOneVersion

(* What the commit of an upsert changes: the row of its document, the chunks of that     *)
(* document, and nothing of another.                                                     *)
Committed(w, r, b, id) ==
  /\ r = upsert[w].ref /\ b = upsert[w].body
  /\ id = IF document[r] = None THEN w ELSE document[r].id
  /\ chunks' = {c \in chunks : c.document # id} \cup Cut(w, id, b)
  /\ Cascade(Ids(ChunksOf(id)))
  /\ holder' = [holder EXCEPT ![r] = None]
  /\ upsert' = [upsert EXCEPT ![w] = [NotStarted EXCEPT !.pc = "done"]]
  /\ document'[r] = [id |-> id, body |-> b] /\ document'[r] # None
  /\ document'[r].id = id /\ document'[r].body = b
  /\ \A s \in Refs \ {r} : document'[s] = document[s]
  /\ document' \in [Refs -> Document \cup {None}]
  /\ \A s \in Refs \ {r} : document[s] # None => document[s].id # id


(* Which chunks a commit leaves: those of the call for its document, the others' as they were. *)
LEMMA CommittedChunks ==
  ASSUME NEW w \in Upserts, NEW r \in Refs, NEW b \in Bodies, NEW id \in Upserts,
         Committed(w, r, b, id)
  PROVE  /\ {c \in chunks' : c.document = id} = Cut(w, id, b)
         /\ \A other : other # id => {c \in chunks' : c.document = other} = ChunksOf(other)
         /\ \A c \in chunks' : c \in Cut(w, id, b) \/ (c \in chunks /\ c.document # id)
         /\ \A c \in Cut(w, id, b) : c.document = id /\ c.id[1] = w
<1>1. chunks' = {c \in chunks : c.document # id} \cup Cut(w, id, b)
  BY DEF Committed
<1>2. \A c \in Cut(w, id, b) : c.document = id /\ c.id[1] = w
  BY CutFacts
<1>3. {c \in chunks' : c.document = id} = Cut(w, id, b)
  BY <1>1, <1>2
<1>4. \A other : other # id => {c \in chunks' : c.document = other} = ChunksOf(other)
  BY <1>1, <1>2 DEF ChunksOf
<1>. QED
  BY <1>1, <1>2, <1>3, <1>4
LEMMA CommitFacts ==
  ASSUME IInv, NEW w \in Upserts, CommitUpsert(w)
  PROVE  \E r \in Refs, b \in Bodies, id \in Upserts : Committed(w, r, b, id)
<1>1. /\ TypeOK /\ UNCHANGED <<removal, listener>> /\ upsert[w].pc = "commit"
      /\ upsert[w].ref \in Refs /\ upsert[w].body \in Bodies /\ Open(w) /\ ~Done(w)
  BY DEF IInv, CommitUpsert, TransactionsCurrent, Open, Done
<1>2. PICK r \in Refs, b \in Bodies : r = upsert[w].ref /\ b = upsert[w].body
  BY <1>1
<1>3. PICK id \in Upserts : /\ id = upsert[w].document
                            /\ id = IF document[r] = None THEN w ELSE document[r].id
  BY <1>1, <1>2, DocumentTypes DEF IInv, TransactionsCurrent
<1>4. /\ document' = [document EXCEPT ![r] = [id |-> id, body |-> b]]
      /\ chunks' = {c \in chunks : c.id \notin Ids(ChunksOf(id))} \cup Cut(w, id, b)
      /\ Cascade(Ids(ChunksOf(id)))
      /\ holder' = [holder EXCEPT ![r] = None]
      /\ upsert' = [upsert EXCEPT ![w] = [NotStarted EXCEPT !.pc = "done"]]
  BY <1>1, <1>2, <1>3 DEF CommitUpsert, IInv, TransactionsCurrent
<1>5. chunks' = {c \in chunks : c.document # id} \cup Cut(w, id, b)
  BY <1>4, DeletedById DEF IInv
<1>6. /\ document'[r] = [id |-> id, body |-> b] /\ document'[r] # None
      /\ document'[r].id = id /\ document'[r].body = b
      /\ \A s \in Refs \ {r} : document'[s] = document[s]
      /\ document' \in [Refs -> Document \cup {None}]
  <2>1. [id |-> id, body |-> b] \in Document
    BY DEF Document
  <2>. QED
    BY <1>1, <1>4, <2>1, NoDocumentAssumption DEF TypeOK
<1>7. \A s \in Refs \ {r} : document[s] # None => document[s].id # id
  <2>. SUFFICES ASSUME NEW s \in Refs \ {r}, document[s] # None PROVE document[s].id # id
    OBVIOUS
  <2>1. Done(document[s].id)
    BY DEF IInv, Origins
  <2>. QED
    BY <1>1, <1>3, <2>1 DEF IInv, Origins
<1>8. Committed(w, r, b, id)
  BY <1>2, <1>3, <1>4, <1>5, <1>6, <1>7 DEF Committed
<1>. QED
  BY <1>8

LEMMA CommitKeepsIInv ==
  ASSUME IInv, NEW w \in Upserts, CommitUpsert(w)
  PROVE  IInv'
<1>1. /\ TypeOK /\ UNCHANGED <<removal, listener>> /\ upsert[w].pc = "commit"
      /\ upsert[w].ref \in Refs /\ upsert[w].body \in Bodies /\ Open(w) /\ ~Done(w)
  BY DEF IInv, CommitUpsert, TransactionsCurrent, Open, Done
<1>2. PICK r \in Refs, b \in Bodies, id \in Upserts : Committed(w, r, b, id)
  BY CommitFacts
<1>3. /\ upsert'[w].pc = "done" /\ \A v \in Upserts \ {w} : upsert'[v] = upsert[v]
      /\ upsert' \in [Upserts -> Transactions]
  <2>. DEFINE new == [NotStarted EXCEPT !.pc = "done"]
  <2>1. new \in Transactions /\ new.pc = "done"
    BY DEF NotStarted, Transactions
  <2>. QED
    BY <1>1, <1>2, <2>1, UpsertAssigned DEF Committed
<1>4. TypeOK'
  <2>1. chunks' \in SUBSET Chunk
    BY <1>1, <1>2, CutFacts, ChunkTypes DEF Committed
  <2>2. plays' \in SUBSET Play
    BY <1>1, <1>2 DEF Committed, Cascade, TypeOK
  <2>3. holder' \in [Refs -> Upserts \cup {None}]
    BY <1>1, <1>2 DEF Committed, TypeOK
  <2>. QED
    BY <1>1, <1>3, <1>2, <2>1, <2>2, <2>3 DEF Committed, TypeOK, Transactions
<1>5. LocksHeld'
  <2>1. holder[r] = w /\ holder'[r] = None /\ \A s \in Refs \ {r} : holder'[s] = holder[s]
    BY <1>1, <1>2 DEF Committed, IInv, LocksHeld, TypeOK
  <2>2. \A v \in Upserts \ {w} : ~(Open(v) /\ upsert[v].ref = r)
    BY <2>1 DEF IInv, LocksHeld
  <2>3. ~Open(w)' /\ \A v \in Upserts \ {w} : Open(v)' = Open(v)
    BY <1>3 DEF Open
  <2>4. ASSUME NEW s \in Refs, NEW v \in Upserts
        PROVE  holder'[s] = v <=> (Open(v)' /\ upsert'[v].ref = s)
    <3>1. CASE s = r
      BY <1>3, <2>1, <2>2, <2>3, <3>1, NoneAssumption
    <3>2. CASE s # r /\ v = w
      <4>1. r = upsert[w].ref
        BY <1>2 DEF Committed
      <4>2. holder[s] # w
        BY <3>2, <4>1 DEF IInv, LocksHeld
      <4>. QED
        BY <2>1, <2>3, <3>2, <4>2
    <3>3. CASE s # r /\ v # w
      BY <1>3, <2>1, <2>3, <3>3 DEF IInv, LocksHeld
    <3>. QED
      BY <3>1, <3>2, <3>3
  <2>. QED
    BY <2>4 DEF LocksHeld
<1>6. TransactionsCurrent'
  <2>1. ASSUME NEW v \in Upserts \ {w}, Open(v)
        PROVE  /\ upsert[v].ref \in Refs /\ upsert[v].ref # r
               /\ upsert[v].document # id
    <3>1. upsert[v].ref \in Refs /\ upsert[v].ref # r
      <4>1. upsert[v].ref \in Refs
        BY <2>1 DEF IInv, TransactionsCurrent, Open
      <4>2. r = upsert[w].ref
        BY <1>2 DEF Committed
      <4>3. holder[r] = w
        BY <1>1, <4>2 DEF IInv, LocksHeld
      <4>. QED
        BY <2>1, <4>1, <4>3 DEF IInv, LocksHeld
    <3>2. upsert[v].document = v \/ (document[upsert[v].ref] # None
                                     /\ upsert[v].document = document[upsert[v].ref].id)
      BY <2>1 DEF IInv, TransactionsCurrent
    <3>3. ~Done(v)
      BY <2>1 DEF Open, Done
    <3>4. v # id
      <4>1. ~Done(w) /\ v # w
        BY <1>1, <2>1
      <4>2. document[r] # None => Done(document[r].id)
        BY DEF IInv, Origins
      <4>3. id = IF document[r] = None THEN w ELSE document[r].id
        BY <1>2 DEF Committed
      <4>. QED
        BY <3>3, <4>1, <4>2, <4>3
    <3>. QED
      BY <1>2, <3>1, <3>2, <3>4 DEF Committed
  <2>2. ASSUME NEW v \in Upserts \ {w}, Open(v)
        PROVE  Ids(ChunksOf(upsert[v].document))' = Ids(ChunksOf(upsert[v].document))
    <3>1. {c \in chunks' : c.document = upsert[v].document}
            = {c \in chunks : c.document = upsert[v].document}
      BY <1>2, <2>1, <2>2, CutFacts DEF Committed
    <3>. QED
      BY <1>3, <3>1 DEF Ids, ChunksOf
  <2>3. ASSUME NEW v \in Upserts \ {w}
        PROVE  /\ upsert'[v].pc \notin {"idle", "done"} =>
                    upsert'[v].ref \in Refs /\ upsert'[v].body \in Bodies
               /\ Open(v)' => upsert'[v].document = IF document'[upsert'[v].ref] = None THEN v
                                                    ELSE document'[upsert'[v].ref].id
               /\ upsert'[v].pc = "commit" =>
                    /\ upsert'[v].deleted = Ids(ChunksOf(upsert[v].document))'
                    /\ upsert'[v].inserted = Cut(v, upsert'[v].document, upsert'[v].body)
    BY <1>3, <1>2, <2>1, <2>2 DEF Committed, IInv, TransactionsCurrent, Open
  <2>4. ~Open(w)' /\ upsert'[w].pc = "done"
    BY <1>3 DEF Open
  <2>. QED
    BY <1>3, <2>3, <2>4 DEF TransactionsCurrent
<1>7. \A v \in Upserts : Done(v) => Done(v)'
  BY <1>3 DEF Done
<1>8. Done(w)'
  BY <1>3 DEF Done
<1>9. Origins'
  <2>1. \A s \in Refs : document'[s] # None => upsert'[document'[s].id].pc = "done"
    <3>1. \A s \in Refs \ {r} : document[s] # None => upsert'[document[s].id].pc = "done"
      BY <1>1, <1>7, DocumentTypes DEF IInv, Origins, Done
    <3>2. upsert'[id].pc = "done"
      BY <1>2, <1>7, <1>8 DEF Committed, IInv, Origins, Done
    <3>. QED
      BY <1>2, <3>1, <3>2 DEF Committed
  <2>2. \A s, t \in Refs :
          (document'[s] # None /\ document'[t] # None /\ document'[s].id = document'[t].id) => s = t
    <3>1. \A s, t \in Refs :
            (document[s] # None /\ document[t] # None /\ document[s].id = document[t].id) => s = t
      BY DEF IInv, Origins
    <3>2. document'[r].id = id
      BY <1>2 DEF Committed
    <3>3. \A s \in Refs \ {r} : document'[s] = document[s] /\ (document[s] # None => document[s].id # id)
      BY <1>2 DEF Committed
    <3>. QED
      BY <3>1, <3>2, <3>3
  <2>3. ASSUME NEW c \in chunks'
        PROVE  /\ Done(c.id[1])'
               /\ \/ c \in chunks /\ c.id[1] # w /\ Done(c.id[1])
                  \/ c.id[1] = w /\ c.document = id
    <3>1. CASE c \in chunks
      BY <1>1, <1>7, <3>1, ChunkTypes DEF IInv, Origins
    <3>2. CASE c \in Cut(w, id, b)
      BY <1>8, <3>2, CutFacts
    <3>. QED
      BY <1>2, <3>1, <3>2 DEF Committed
  <2>4. \A c, d \in chunks' : c.id[1] = d.id[1] => c.document = d.document
    BY <2>3 DEF IInv, Origins
  <2>. QED
    BY <2>1, <2>2, <2>3, <2>4 DEF Origins, Done
<1>10. ChunksMatchDocument'
  <2>1. ASSUME NEW s \in Refs, document'[s] # None
        PROVE  \E v \in Upserts :
                 {c \in chunks' : c.document = document'[s].id}
                   = Cut(v, document'[s].id, document'[s].body)
    <3>1. CASE s = r
      <4>1. {c \in chunks' : c.document = id} = Cut(w, id, b)
        BY <1>2, CommittedChunks
      <4>2. document'[s].id = id /\ document'[s].body = b
        BY <1>2, <3>1 DEF Committed
      <4>. QED
        BY <4>1, <4>2
    <3>2. CASE s # r
      <4>1. document[s].id # id /\ document'[s] = document[s] /\ document[s] # None
        BY <1>2, <2>1, <3>2 DEF Committed
      <4>2. PICK v \in Upserts : ChunksOf(document[s].id)
                                   = Cut(v, document[s].id, document[s].body)
        BY <4>1 DEF IInv, ChunksMatchDocument, Cut
      <4>3. {c \in chunks' : c.document = document[s].id} = ChunksOf(document[s].id)
        BY <1>2, <4>1, CommittedChunks
      <4>. QED
        BY <4>1, <4>2, <4>3
    <3>. QED
      BY <3>1, <3>2
  <2>2. ASSUME NEW c \in chunks'
        PROVE  \E s \in Refs : document'[s] # None /\ document'[s].id = c.document
    <3>1. CASE c \in chunks
      <4>1. PICK s \in Refs : document[s] # None /\ document[s].id = c.document
        BY <3>1 DEF IInv, ChunksMatchDocument
      <4>. QED
        BY <1>2, <4>1 DEF Committed
    <3>2. CASE c \in Cut(w, id, b)
      <4>1. c.document = id
        BY <1>2, <3>2, CommittedChunks
      <4>2. document'[r] # None /\ document'[r].id = id
        BY <1>2 DEF Committed
      <4>. QED
        BY <4>1, <4>2
    <3>. QED
      BY <1>2, <3>1, <3>2 DEF Committed
  <2>3. ASSUME NEW p \in plays'
        PROVE  p.chunk \in Ids(chunks')
    <3>1. p \in plays /\ p.chunk \notin Ids(ChunksOf(id))
      BY <1>2 DEF Committed, Cascade
    <3>2. PICK c \in chunks : c.id = p.chunk
      BY <3>1 DEF IInv, ChunksMatchDocument, Ids
    <3>. QED
      BY <1>2, <3>1, <3>2 DEF Committed, Ids, ChunksOf
  <2>4. \A s \in Refs : ChunksOf(document[s].id)' = {c \in chunks' : c.document = document'[s].id}
    BY DEF ChunksOf
  <2>5. \A p \in plays' : p.chunk \in Ids(chunks)'
    BY <2>3 DEF Ids
  <2>. QED
    BY <2>1, <2>2, <2>4, <2>5 DEF ChunksMatchDocument, Cut
<1>11. OffersRemembered' /\ OffersAreOneVersion'
  <2>1. ASSUME NEW c \in chunks', Done(c.id[1])
        PROVE  c \in chunks /\ c.id \notin Ids(ChunksOf(id))
    <3>1. ~Done(w)
      BY <1>1
    <3>2. c \in chunks /\ c.document # id
      BY <1>2, <2>1, <3>1, CommittedChunks
    <3>. QED
      BY <3>2, DeletedById DEF IInv
  <2>. QED
    BY <1>1, <1>2, <1>7, <2>1, OffersSurvive DEF Committed
<1>. QED
  BY <1>4, <1>5, <1>6, <1>9, <1>10, <1>11 DEF IInv

LEMMA DeleteKeepsIInv ==
  ASSUME IInv, NEW x \in Deletes, NEW r \in Refs, DeleteDocument(x, r)
  PROVE  IInv'
<1>1. /\ TypeOK /\ document[r] # None /\ holder[r] = None /\ UNCHANGED <<holder, upsert, listener>>
      /\ removal' = [removal EXCEPT ![x] = r]
      /\ document' = [document EXCEPT ![r] = None]
  BY DEF IInv, DeleteDocument
<1>2. PICK id \in Upserts : id = document[r].id
  BY <1>1, DocumentTypes
<1>3. Cascade(Ids(ChunksOf(id))) /\ chunks' = {c \in chunks : c.document # id}
  BY <1>2 DEF DeleteDocument, ChunksOf
<1>4. /\ document'[r] = None /\ \A s \in Refs \ {r} : document'[s] = document[s]
      /\ document' \in [Refs -> Document \cup {None}]
  BY <1>1 DEF TypeOK
<1>5. TypeOK'
  <2>1. plays' \in SUBSET Play
    BY <1>1, <1>3 DEF Cascade, TypeOK
  <2>2. removal' \in [Deletes -> Refs \cup {None}] /\ chunks' \in SUBSET Chunk
    BY <1>1, <1>3 DEF TypeOK
  <2>. QED
    BY <1>1, <1>4, <2>1, <2>2 DEF TypeOK
<1>6. LocksHeld'
  BY <1>1 DEF IInv, LocksHeld, Open
<1>7. TransactionsCurrent'
  <2>1. ASSUME NEW v \in Upserts, Open(v)
        PROVE  /\ upsert[v].ref \in Refs /\ upsert[v].ref # r /\ upsert[v].document # id
    <3>1. upsert[v].ref \in Refs /\ upsert[v].ref # r
      BY <1>1, <2>1, NoneAssumption DEF IInv, TransactionsCurrent, LocksHeld, Open
    <3>2. upsert[v].document = v \/ (document[upsert[v].ref] # None
                                     /\ upsert[v].document = document[upsert[v].ref].id)
      BY <2>1 DEF IInv, TransactionsCurrent
    <3>3. ~Done(v) /\ Done(id)
      BY <1>1, <1>2, <2>1 DEF Open, Done, IInv, Origins
    <3>. QED
      BY <1>1, <1>2, <3>1, <3>2, <3>3 DEF IInv, Origins
  <2>2. ASSUME NEW v \in Upserts, Open(v)
        PROVE  Ids(ChunksOf(upsert[v].document))' = Ids(ChunksOf(upsert[v].document))
    <3>1. {c \in chunks' : c.document = upsert[v].document}
            = {c \in chunks : c.document = upsert[v].document}
      BY <1>3, <2>1, <2>2
    <3>. QED
      BY <1>1, <3>1 DEF Ids, ChunksOf
  <2>. QED
    BY <1>1, <1>4, <2>1, <2>2 DEF IInv, TransactionsCurrent, Open
<1>8. Origins'
  <2>1. \A s \in Refs : document'[s] # None => s # r /\ document'[s] = document[s]
    BY <1>4
  <2>2. \A c \in chunks' : c \in chunks
    BY <1>3
  <2>3. \A s \in Refs : document'[s] # None => upsert'[document'[s].id].pc = "done"
    BY <1>1, <2>1 DEF IInv, Origins, Done
  <2>4. \A c \in chunks' : upsert'[c.id[1]].pc = "done"
    BY <1>1, <2>2 DEF IInv, Origins, Done
  <2>5. \A s, t \in Refs :
          (document'[s] # None /\ document'[t] # None /\ document'[s].id = document'[t].id) => s = t
    BY <2>1 DEF IInv, Origins
  <2>6. \A c, d \in chunks' : c.id[1] = d.id[1] => c.document = d.document
    BY <2>2 DEF IInv, Origins
  <2>. QED
    BY <2>3, <2>4, <2>5, <2>6 DEF Origins, Done
<1>9. ChunksMatchDocument'
  <2>1. ASSUME NEW s \in Refs, document'[s] # None
        PROVE  \E v \in Upserts :
                 {c \in chunks' : c.document = document'[s].id}
                   = Cut(v, document'[s].id, document'[s].body)
    <3>1. document[s].id # id /\ document'[s] = document[s] /\ document[s] # None
      BY <1>1, <1>2, <1>4, <2>1 DEF IInv, Origins
    <3>2. PICK v \in Upserts : ChunksOf(document[s].id) = Cut(v, document[s].id, document[s].body)
      BY <3>1 DEF IInv, ChunksMatchDocument, Cut
    <3>3. {c \in chunks' : c.document = document[s].id} = ChunksOf(document[s].id)
      BY <1>3, <3>1 DEF ChunksOf
    <3>. QED
      BY <3>1, <3>2, <3>3
  <2>2. ASSUME NEW c \in chunks'
        PROVE  \E s \in Refs : document'[s] # None /\ document'[s].id = c.document
    <3>1. PICK s \in Refs : document[s] # None /\ document[s].id = c.document
      BY <1>3 DEF IInv, ChunksMatchDocument
    <3>. QED
      BY <1>2, <1>3, <1>4, <3>1
  <2>3. ASSUME NEW p \in plays'
        PROVE  p.chunk \in Ids(chunks')
    <3>1. p \in plays /\ p.chunk \notin Ids(ChunksOf(id))
      BY <1>3 DEF Cascade
    <3>2. PICK c \in chunks : c.id = p.chunk
      BY <3>1 DEF IInv, ChunksMatchDocument, Ids
    <3>. QED
      BY <1>3, <3>1, <3>2 DEF Ids, ChunksOf
  <2>4. \A s \in Refs : ChunksOf(document[s].id)' = {c \in chunks' : c.document = document'[s].id}
    BY DEF ChunksOf
  <2>5. \A p \in plays' : p.chunk \in Ids(chunks)'
    BY <2>3 DEF Ids
  <2>. QED
    BY <2>1, <2>2, <2>4, <2>5 DEF ChunksMatchDocument, Cut
<1>10. OffersRemembered' /\ OffersAreOneVersion'
  <2>1. \A c \in chunks' : c \in chunks /\ c.id \notin Ids(ChunksOf(id))
    BY <1>3, DeletedById DEF IInv
  <2>2. \A w \in Upserts : Done(w) => Done(w)'
    BY <1>1 DEF Done
  <2>. QED
    BY <1>1, <1>3, <2>1, <2>2, OffersSurvive
<1>. QED
  BY <1>5, <1>6, <1>7, <1>8, <1>9, <1>10 DEF IInv

-----------------------------------------------------------------------------
(* The listeners. *)

ListenerStates == [pc : {"idle", "offered", "insert", "ok", "failed"}, user : Users \cup {None},
                   offered : SUBSET Chunk, found : SUBSET ChunkId]

(* What OffersRemembered says of one listener. *)
Remembers(l) ==
  /\ listener[l].pc # "idle" => listener[l].user \in Users
  /\ \A c \in listener[l].offered : Done(c.id[1])
  /\ listener[l].pc = "insert" =>
       Ids(listener[l].offered) \cap Ids(chunks) \subseteq listener[l].found
  /\ listener[l].pc = "ok" =>
       Ids(listener[l].offered) \cap Ids(chunks) \subseteq Reported(l)

LEMMA ListenerTypes ==
  ASSUME TypeOK
  PROVE  listener \in [Listeners -> ListenerStates] /\ \A l \in Listeners : listener[l] \in ListenerStates
BY DEF TypeOK, ListenerStates

(* A step of one listener, which only adds plays. *)
LEMMA ListenerStep ==
  ASSUME IInv, UNCHANGED <<document, chunks, holder, upsert, removal>>, NEW l \in Listeners,
         NEW new \in ListenerStates, listener' = [listener EXCEPT ![l] = new],
         plays \subseteq plays', plays' \in SUBSET Play, \A p \in plays' \ plays : p.chunk \in Ids(chunks),
         Remembers(l)',
         \A c, d \in new.offered : c.document = d.document => c.body = d.body /\ c.id[1] = d.id[1]
  PROVE  IInv'
<1>1. listener'[l] = new /\ \A m \in Listeners \ {l} : listener'[m] = listener[m]
  BY ListenerTypes DEF IInv
<1>2. listener' \in [Listeners -> ListenerStates]
  BY ListenerTypes DEF IInv
<1>3. TypeOK'
  BY <1>2 DEF IInv, TypeOK, ListenerStates
<1>4. LocksHeld' /\ TransactionsCurrent' /\ Origins'
  BY DEF IInv, LocksHeld, TransactionsCurrent, Origins, Open, Done, ChunksOf, Ids
<1>5. ChunksMatchDocument'
  <2>1. \A p \in plays' : p.chunk \in Ids(chunks)
    BY DEF IInv, ChunksMatchDocument
  <2>2. Ids(chunks)' = Ids(chunks) /\ \A id : ChunksOf(id)' = ChunksOf(id)
    BY DEF Ids, ChunksOf
  <2>. QED
    BY <2>1, <2>2 DEF IInv, ChunksMatchDocument, ChunksOf
<1>6. OffersAreOneVersion'
  BY <1>1 DEF IInv, OffersAreOneVersion
<1>7. ASSUME NEW m \in Listeners \ {l}
      PROVE  Remembers(m)'
  <2>1. Remembers(m) /\ listener'[m] = listener[m]
    BY <1>1 DEF IInv, OffersRemembered, Remembers
  <2>2. \A c \in listener[m].offered : Done(c.id[1])'
    BY <2>1 DEF Remembers, Done
  <2>3. Reported(m) \subseteq Reported(m)'
    BY <2>1 DEF Reported
  <2>. QED
    BY <2>1, <2>2, <2>3 DEF Remembers, Ids
<1>8. OffersRemembered'
  BY <1>7 DEF OffersRemembered, Remembers
<1>. QED
  BY <1>3, <1>4, <1>5, <1>6, <1>8 DEF IInv

LEMMA LookupKeepsIInv ==
  ASSUME IInv, NEW l \in Listeners, Lookup(l)
  PROVE  IInv'
<1>1. PICK u \in Users, offered \in SUBSET chunks :
        listener' = [listener EXCEPT
          ![l] = [pc |-> "offered", user |-> u, offered |-> offered, found |-> {}]]
  BY DEF Lookup, Candidates
<1>2. UNCHANGED <<document, chunks, plays, holder, upsert, removal>>
  BY DEF Lookup
<1>. DEFINE new == [pc |-> "offered", user |-> u, offered |-> offered, found |-> {}]
<1>3. /\ new \in ListenerStates /\ new.pc = "offered" /\ new.user = u /\ new.offered = offered
      /\ listener' = [listener EXCEPT ![l] = new]
  BY <1>1 DEF IInv, TypeOK, ListenerStates
<1>. HIDE DEF new
<1>4. listener'[l] = new
  BY <1>3, ListenerTypes DEF IInv
<1>5. \A c \in offered : upsert'[c.id[1]].pc = "done"
  BY <1>2 DEF IInv, Origins, Done
<1>6. Remembers(l)'
  BY <1>3, <1>4, <1>5 DEF Remembers, Done
<1>7. \A c, d \in offered : c.document = d.document => c.body = d.body /\ c.id[1] = d.id[1]
  BY OneVersion DEF IInv
<1>. QED
  BY <1>2, <1>3, <1>6, <1>7, ListenerStep DEF IInv, TypeOK

LEMMA SelectPlayedKeepsIInv ==
  ASSUME IInv, NEW l \in Listeners, SelectPlayed(l)
  PROVE  IInv'
<1>. DEFINE found == Ids(listener[l].offered) \cap Ids(chunks)
            new == [listener[l] EXCEPT !.pc = "insert", !.found = found]
<1>1. /\ UNCHANGED <<document, chunks, plays, holder, upsert, removal>>
      /\ listener[l].pc \in {"offered", "failed", "ok"} /\ listener[l] \in ListenerStates
      /\ listener' = [listener EXCEPT ![l].pc = "insert", ![l].found = found]
  BY ListenerTypes DEF SelectPlayed, IInv
<1>2. found \in SUBSET ChunkId
  BY ChunkTypes DEF Ids, IInv
<1>3. listener' = [listener EXCEPT ![l] = new]
  BY <1>1, ListenerTypes DEF IInv
<1>4. /\ new \in ListenerStates /\ new.pc = "insert" /\ new.user = listener[l].user
      /\ new.offered = listener[l].offered /\ new.found = found
  BY <1>1, <1>2 DEF ListenerStates
<1>5. listener'[l] = new /\ Ids(chunks)' = Ids(chunks)
      /\ Ids(listener'[l].offered) = Ids(listener[l].offered)
  BY <1>1, <1>3, <1>4, ListenerTypes DEF IInv, Ids
<1>. HIDE DEF new
<1>6. Remembers(l)'
  <2>1. \A c \in listener[l].offered : upsert'[c.id[1]].pc = "done"
    BY <1>1 DEF IInv, OffersRemembered, Done
  <2>2. listener[l].user \in Users
    BY <1>1 DEF IInv, OffersRemembered
  <2>3. Ids(listener[l].offered)' = Ids(listener[l].offered)
    BY <1>4, <1>5 DEF Ids
  <2>. QED
    BY <1>4, <1>5, <2>1, <2>2, <2>3 DEF Remembers, Done
<1>7. \A c, d \in new.offered : c.document = d.document => c.body = d.body /\ c.id[1] = d.id[1]
  BY <1>4 DEF IInv, OffersAreOneVersion
<1>. QED
  BY <1>1, <1>3, <1>4, <1>6, <1>7, ListenerStep DEF IInv, TypeOK

LEMMA InsertPlaysKeepsIInv ==
  ASSUME IInv, NEW l \in Listeners, InsertPlays(l)
  PROVE  IInv'
<1>1. /\ UNCHANGED <<document, chunks, holder, upsert, removal>>
      /\ listener[l].pc = "insert" /\ listener[l] \in ListenerStates
  BY ListenerTypes DEF InsertPlays, IInv
<1>2. PICK pc \in {"ok", "failed"}, age \in Ages :
        /\ listener' = [listener EXCEPT ![l].pc = pc, ![l].found = {}]
        /\ pc = "ok" => listener[l].found \subseteq Ids(chunks) /\ plays' = plays \cup NewPlays(l, age)
        /\ pc = "failed" => plays' = plays
  BY DEF InsertPlays, Ages
<1>. DEFINE new == [listener[l] EXCEPT !.pc = pc, !.found = {}]
<1>3. listener' = [listener EXCEPT ![l] = new]
  BY <1>1, <1>2, ListenerTypes DEF IInv
<1>4. /\ new \in ListenerStates /\ new.pc = pc /\ new.user = listener[l].user
      /\ new.offered = listener[l].offered /\ new.found = {}
  BY <1>1, <1>2 DEF ListenerStates
<1>5. listener'[l] = new
  BY <1>3, ListenerTypes DEF IInv
<1>. HIDE DEF new
<1>6. /\ listener[l].user \in Users
      /\ Ids(listener[l].offered) \cap Ids(chunks) \subseteq listener[l].found
      /\ listener[l].found \subseteq ChunkId
  BY <1>1 DEF IInv, OffersRemembered, ListenerStates
<1>7. plays \subseteq plays' /\ plays' \in SUBSET Play /\ \A p \in plays' \ plays : p.chunk \in Ids(chunks)
  BY <1>2, <1>6 DEF NewPlays, Play, IInv, TypeOK
<1>8. pc = "ok" => listener[l].found \subseteq Reported(l)'
  <2>. SUFFICES ASSUME pc = "ok", NEW i \in listener[l].found
                PROVE  \E q \in plays' : q.user = listener'[l].user /\ q.event = l /\ q.chunk = i
    BY DEF Reported
  <2>. DEFINE p == [user |-> listener[l].user, event |-> l, chunk |-> i, age |-> age]
  <2>1. /\ p \in [user : {listener[l].user}, event : {l}, chunk : listener[l].found, age : {age}]
        /\ p.chunk = i /\ p.user = listener'[l].user /\ p.event = l
    BY <1>4, <1>5
  <2>. HIDE DEF p
  <2>2. CASE \E q \in plays : q.user = p.user /\ q.event = l /\ q.chunk = p.chunk
    BY <1>7, <2>1, <2>2
  <2>3. CASE ~\E q \in plays : q.user = p.user /\ q.event = l /\ q.chunk = p.chunk
    BY <1>2, <2>1, <2>3 DEF NewPlays
  <2>. QED
    BY <2>2, <2>3
<1>9. Remembers(l)'
  <2>1. \A c \in listener[l].offered : upsert'[c.id[1]].pc = "done"
    BY <1>1 DEF IInv, OffersRemembered, Done
  <2>2. Ids(listener[l].offered)' = Ids(listener[l].offered) /\ Ids(chunks)' = Ids(chunks)
    BY <1>1, <1>4, <1>5 DEF Ids
  <2>. QED
    BY <1>2, <1>4, <1>5, <1>6, <1>8, <2>1, <2>2 DEF Remembers, Done
<1>10. \A c, d \in new.offered : c.document = d.document => c.body = d.body /\ c.id[1] = d.id[1]
  BY <1>4 DEF IInv, OffersAreOneVersion
<1>. QED
  BY <1>1, <1>3, <1>4, <1>7, <1>9, <1>10, ListenerStep

(* The passing of time leaves every row, but for its age. *)
LEMMA AgeFacts ==
  ASSUME TypeOK, NEW u \in Users, NEW l \in Listeners, Age(u, l)
  PROVE  /\ plays' \in SUBSET Play
         /\ \A p \in plays : \E q \in plays' :
              /\ q.user = p.user /\ q.event = p.event /\ q.chunk = p.chunk
              /\ p.user # u => q.age = p.age
         /\ \A q \in plays' : \E p \in plays :
              /\ q.user = p.user /\ q.event = p.event /\ q.chunk = p.chunk
              /\ q.age = "recent" => p.age = "recent"
<1>. DEFINE Aged(p) == IF p.user = u /\ p.event = l THEN [p EXCEPT !.age = "old"] ELSE p
<1>1. plays' = {Aged(p) : p \in plays}
  BY DEF Age
<1>2. ASSUME NEW p \in plays
      PROVE  /\ Aged(p) \in Play
             /\ Aged(p).user = p.user /\ Aged(p).event = p.event /\ Aged(p).chunk = p.chunk
             /\ p.user # u => Aged(p).age = p.age
             /\ Aged(p).age = "recent" => p.age = "recent"
  BY DEF TypeOK, Play, Ages
<1>. HIDE DEF Aged
<1>. QED
  BY <1>1, <1>2

LEMMA AgeKeepsIInv ==
  ASSUME IInv, NEW u \in Users, NEW l \in Listeners, Age(u, l)
  PROVE  IInv'
<1>1. UNCHANGED <<document, chunks, holder, upsert, removal, listener>>
  BY DEF Age
<1>2. /\ plays' \in SUBSET Play
      /\ \A p \in plays : \E q \in plays' :
           q.user = p.user /\ q.event = p.event /\ q.chunk = p.chunk
      /\ \A q \in plays' : \E p \in plays : q.chunk = p.chunk
  BY AgeFacts DEF IInv
<1>3. TypeOK'
  BY <1>1, <1>2 DEF IInv, TypeOK
<1>4. LocksHeld' /\ TransactionsCurrent' /\ Origins'
  BY <1>1 DEF IInv, LocksHeld, TransactionsCurrent, Origins, Open, Done, ChunksOf, Ids
<1>5. Ids(chunks)' = Ids(chunks) /\ \A id : ChunksOf(id)' = ChunksOf(id)
  BY <1>1 DEF Ids, ChunksOf
<1>6. ChunksMatchDocument'
  <2>1. \A q \in plays' : q.chunk \in Ids(chunks)
    BY <1>2 DEF IInv, ChunksMatchDocument
  <2>. QED
    BY <1>1, <1>5, <2>1 DEF IInv, ChunksMatchDocument, ChunksOf
<1>7. OffersAreOneVersion'
  BY <1>1 DEF IInv, OffersAreOneVersion
<1>8. OffersRemembered'
  <2>1. \A m \in Listeners : Reported(m) \subseteq Reported(m)'
    BY <1>1, <1>2 DEF Reported
  <2>2. \A m \in Listeners : Ids(listener[m].offered)' = Ids(listener[m].offered)
    BY <1>1 DEF Ids
  <2>. QED
    BY <1>1, <1>5, <2>1, <2>2 DEF IInv, OffersRemembered, Done
<1>. QED
  BY <1>3, <1>4, <1>6, <1>7, <1>8 DEF IInv

LEMMA StutterKeepsIInv == ASSUME IInv, UNCHANGED vars PROVE IInv'
<1>1. UNCHANGED <<document, chunks, plays, holder, upsert, removal, listener>>
  BY DEF vars
<1>2. TypeOK' /\ LocksHeld' /\ TransactionsCurrent' /\ Origins'
  BY <1>1 DEF IInv, TypeOK, LocksHeld, TransactionsCurrent, Origins, Open, Done, ChunksOf, Ids
<1>3. ChunksMatchDocument' /\ OffersRemembered' /\ OffersAreOneVersion'
  <2>1. ChunksMatchDocument'
    BY <1>1 DEF IInv, ChunksMatchDocument, ChunksOf, Ids
  <2>2. OffersRemembered'
    BY <1>1 DEF IInv, OffersRemembered, Ids, Done, Reported
  <2>3. OffersAreOneVersion'
    BY <1>1 DEF IInv, OffersAreOneVersion
  <2>. QED
    BY <2>1, <2>2, <2>3
<1>. QED
  BY <1>2, <1>3 DEF IInv

LEMMA NextKeepsIInv == IInv /\ [Next]_vars => IInv'
<1>. SUFFICES ASSUME IInv, [Next]_vars PROVE IInv'
  OBVIOUS
<1>1. ASSUME NEW w \in Upserts, UpsertDocument(w) \/ Store(w) \/ FailUpsert(w) PROVE IInv'
  BY <1>1, BeforeTransaction, CallEnds, InsertDocumentKeepsIInv, RebuildChunksKeepsIInv,
     CommitKeepsIInv DEF Store
<1>2. ASSUME NEW x \in Deletes, NEW r \in Refs, DeleteDocument(x, r) PROVE IInv'
  BY <1>2, DeleteKeepsIInv
<1>3. ASSUME NEW l \in Listeners, Lookup(l) \/ SelectPlayed(l) \/ InsertPlays(l) PROVE IInv'
  BY <1>3, LookupKeepsIInv, SelectPlayedKeepsIInv, InsertPlaysKeepsIInv
<1>4. ASSUME NEW u \in Users, NEW l \in Listeners, Age(u, l) PROVE IInv'
  BY <1>4, AgeKeepsIInv
<1>. QED
  BY <1>1, <1>2, <1>3, <1>4, StutterKeepsIInv DEF Next

(* The inductive invariant holds of every reachable state. *)
THEOREM IInvHolds == Spec => []IInv
<1>1. Init => IInv
  BY InitIInv
<1>2. IInv /\ [Next]_vars => IInv'
  BY NextKeepsIInv
<1>. QED
  BY <1>1, <1>2, PTL DEF Spec

(* The state keeps its types. *)
THEOREM TypeOKHolds == Spec => []TypeOK
<1>1. IInv => TypeOK
  BY DEF IInv
<1>. QED
  BY <1>1, IInvHolds, PTL

(* upsert_document, in any number of interleaved calls, some of which fail, and          *)
(* delete_document leave every stored document with exactly the chunks of its body, and  *)
(* one SELECT of candidates sees one version of each document.                           *)
THEOREM WholeDocuments == Spec => []DocumentsAreWhole
<1>1. IInv => DocumentsAreWhole
  BY DEF IInv, DocumentsAreWhole
<1>. QED
  BY <1>1, IInvHolds, PTL

(* What NotToldAgain says of one step. *)
TellsOnce(l, m) ==
  (/\ listener[l].pc = "idle" /\ listener'[l].pc = "offered"
   /\ listener[m].pc = "ok" /\ listener[m].user = listener'[l].user) =>
    \A i \in Ids(listener'[l].offered) \cap Ids(listener[m].offered) :
      /\ \E p \in plays : p.user = listener[m].user /\ p.event = m /\ p.chunk = i
      /\ \A p \in plays : (p.user = listener[m].user /\ p.chunk = i) => p.age = "old"

LEMMA StepTellsOnce ==
  ASSUME IInv, Next, NEW l \in Listeners, NEW m \in Listeners
  PROVE  TellsOnce(l, m)
<1>. SUFFICES ASSUME listener[l].pc = "idle", listener'[l].pc = "offered",
                     listener[m].pc = "ok", listener[m].user = listener'[l].user,
                     NEW i \in Ids(listener'[l].offered) \cap Ids(listener[m].offered)
     PROVE  /\ \E p \in plays : p.user = listener[m].user /\ p.event = m /\ p.chunk = i
            /\ \A p \in plays : (p.user = listener[m].user /\ p.chunk = i) => p.age = "old"
  BY DEF TellsOnce
<1>1. Lookup(l)
  <2>1. \/ UNCHANGED listener
        \/ \E k \in Listeners : Lookup(k) \/ SelectPlayed(k) \/ InsertPlays(k)
    BY DEF Next, UpsertDocument, Store, CheckHash, Touch, InsertDocument, RebuildChunks,
           CommitUpsert, FailUpsert, DeleteDocument, Age
  <2>2. PICK k \in Listeners : Lookup(k) \/ SelectPlayed(k) \/ InsertPlays(k)
    BY <2>1
  <2>3. \A j \in Listeners \ {k} : listener'[j] = listener[j]
    BY <2>2, ListenerTypes DEF IInv, Lookup, SelectPlayed, InsertPlays
  <2>. QED
    BY <2>2, <2>3 DEF SelectPlayed, InsertPlays
<1>2. PICK u \in Users : \E offered \in SUBSET {c \in chunks : c.id \notin Recent(u)} :
        listener' = [listener EXCEPT
          ![l] = [pc |-> "offered", user |-> u, offered |-> offered, found |-> {}]]
  BY <1>1 DEF Lookup, Candidates
<1>3. PICK offered \in SUBSET {c \in chunks : c.id \notin Recent(u)} :
        listener'[l] = [pc |-> "offered", user |-> u, offered |-> offered, found |-> {}]
  BY <1>2, ListenerTypes DEF IInv
<1>4. i \in Ids(chunks) /\ i \notin Recent(u) /\ listener[m].user = u
  BY <1>3 DEF Ids
<1>5. i \in Reported(m)
  BY <1>4 DEF IInv, OffersRemembered
<1>6. \A p \in plays : (p.user = u /\ p.chunk = i) => p.age # "recent"
  BY <1>4 DEF Recent
<1>7. \A p \in plays : p.age \in Ages
  BY DEF IInv, TypeOK, Play
<1>. QED
  BY <1>4, <1>5, <1>6, <1>7 DEF Reported, Ages

(* Whatever is stored, deleted and reported meanwhile, no device is offered what a      *)
(* device of its account has been told is recorded as played, but after the 30 days.    *)
THEOREM PlayedIsNotOffered == Spec => NotToldAgain
<1>1. IInv /\ [Next]_vars => [\A l, m \in Listeners : TellsOnce(l, m)]_vars
  BY StepTellsOnce
<1>2. [][\A l, m \in Listeners : TellsOnce(l, m)]_vars => NotToldAgain
  BY PTL DEF NotToldAgain, TellsOnce
<1>. QED
  BY <1>1, <1>2, IInvHolds, PTL DEF Spec

-----------------------------------------------------------------------------
(* The store implements the library. *)

(* A device that has not asked was offered nothing; a statement that runs has chosen    *)
(* among what its device was offered.                                                    *)
Noted(l) ==
  /\ listener[l].pc = "idle" => listener[l] = NotAsked
  /\ listener[l].found \subseteq Ids(listener[l].offered)

LInv == IInv /\ \A l \in Listeners : Noted(l)

LEMMA InitLInv == Init => LInv
BY InitIInv DEF Init, LInv, Noted, NotAsked

LEMMA NextKeepsLInv == LInv /\ [Next]_vars => LInv'
<1>. SUFFICES ASSUME LInv, [Next]_vars PROVE \A l \in Listeners : Noted(l)'
  BY NextKeepsIInv DEF LInv
<1>. TAKE l \in Listeners
<1>1. listener \in [Listeners -> ListenerStates] /\ Noted(l)
  BY ListenerTypes DEF LInv, IInv
<1>2. CASE UNCHANGED listener
  BY <1>1, <1>2 DEF Noted, Ids
<1>3. ASSUME NEW k \in Listeners, Lookup(k) PROVE Noted(l)'
  <2>1. PICK u, offered : listener' = [listener EXCEPT
          ![k] = [pc |-> "offered", user |-> u, offered |-> offered, found |-> {}]]
    BY <1>3 DEF Lookup
  <2>2. CASE k = l
    <3>1. listener'[l].pc = "offered" /\ listener'[l].found = {}
      BY <1>1, <2>1, <2>2
    <3>. QED
      BY <3>1 DEF Noted
  <2>3. CASE k # l
    BY <1>1, <2>1, <2>3 DEF Noted, Ids
  <2>. QED
    BY <2>2, <2>3
<1>4. ASSUME NEW k \in Listeners, SelectPlayed(k) \/ InsertPlays(k) PROVE Noted(l)'
  <2>1. PICK pc \in {"insert", "ok", "failed"}, found \in {{}, Ids(listener[k].offered) \cap Ids(chunks)} :
          listener' = [listener EXCEPT ![k].pc = pc, ![k].found = found]
    BY <1>4 DEF SelectPlayed, InsertPlays
  <2>2. CASE k = l
    <3>1. /\ listener'[l].pc = pc /\ listener'[l].found = found
          /\ listener'[l].offered = listener[l].offered
      BY <1>1, <2>1, <2>2 DEF ListenerStates
    <3>. QED
      BY <2>1, <2>2, <3>1 DEF Noted, Ids
  <2>3. CASE k # l
    BY <1>1, <2>1, <2>3 DEF Noted, Ids
  <2>. QED
    BY <2>2, <2>3
<1>. QED
  BY <1>2, <1>3, <1>4 DEF Next, UpsertDocument, Store, CheckHash, Touch, InsertDocument,
     RebuildChunks, CommitUpsert, FailUpsert, DeleteDocument, Age, vars

(* Whatever is unchanged for the library. *)
LEMMA SameDocuments ==
  ASSUME UNCHANGED <<document, chunks>>
  PROVE  /\ \A r : BodyAt(r)' = BodyAt(r) /\ PassagesAt(r)' = PassagesAt(r)
BY DEF BodyAt, PassagesAt, Ids, ChunksOf

LEMMA SameOffers ==
  ASSUME UNCHANGED listener
  PROVE  \A l : OfferTo(l)' = OfferTo(l)
BY DEF OfferTo, Ids

LEMMA SamePlays ==
  ASSUME UNCHANGED plays
  PROVE  \A u : Heard(u)' = Heard(u) /\ Recent(u)' = Recent(u)
BY DEF Heard, Recent

(* One document becomes another, and what was played of the old one is forgotten. *)
LEMMA BecomeFacts ==
  ASSUME NEW r \in Refs, NEW b, NEW ids, BodyAt(r)' = b, PassagesAt(r)' = ids,
         \A s \in Refs \ {r} : BodyAt(s)' = BodyAt(s) /\ PassagesAt(s)' = PassagesAt(s),
         \A u \in Users : /\ Heard(u)' = Heard(u) \ PassagesAt(r)
                          /\ Recent(u)' = Recent(u) \ PassagesAt(r)
  PROVE  Library!Become(r, b, ids)
BY DEF Library!Become

(* A call of upsert_document that ends. *)
LEMMA EndFacts ==
  ASSUME TypeOK, NEW w \in Upserts, ~Done(w),
         upsert' = [upsert EXCEPT ![w] = [NotStarted EXCEPT !.pc = "done"]]
  PROVE  Library!End(w)
<1>1. /\ upsert'[w].pc = "done" /\ \A v \in Upserts \ {w} : upsert'[v] = upsert[v]
  BY DEF TypeOK, NotStarted
<1>. QED
  BY <1>1 DEF Library!End, Done

(* The commit of an upsert: the document gets its new text and all of its passages. *)
LEMMA CommitIsReplace ==
  ASSUME IInv, NEW w \in Upserts, CommitUpsert(w)
  PROVE  \E r \in Refs, b \in Bodies : Library!Replace(w, r, b)
<1>1. PICK r \in Refs, b \in Bodies, id \in Upserts : Committed(w, r, b, id)
  BY CommitFacts
<1>2. TypeOK /\ ~Done(w) /\ UNCHANGED listener
  BY DEF IInv, CommitUpsert, Done
<1>3. Library!End(w)
  BY <1>1, <1>2, EndFacts DEF Committed
<1>4. BodyAt(r)' = b
  BY <1>1 DEF Committed, BodyAt
<1>5. PassagesAt(r)' = Library!Cut(w, b)
  <2>1. ChunksOf(document[r].id)' = Cut(w, id, b)
    <3>1. {c \in chunks' : c.document = id} = Cut(w, id, b)
      BY <1>1, CommittedChunks
    <3>. QED
      BY <1>1, <3>1 DEF Committed, ChunksOf
  <2>2. {c.id : c \in Cut(w, id, b)} = {<<w, k>> : k \in 1 .. ChunkCount[b]}
    <3>1. \A c \in Cut(w, id, b) : \E k \in 1 .. ChunkCount[b] : c.id = <<w, k>>
      BY DEF Cut
    <3>2. ASSUME NEW k \in 1 .. ChunkCount[b] PROVE \E c \in Cut(w, id, b) : c.id = <<w, k>>
      <4>. DEFINE c == [id |-> <<w, k>>, document |-> id, body |-> b]
      <4>1. c \in Cut(w, id, b) /\ c.id = <<w, k>>
        BY DEF Cut
      <4>. QED
        BY <4>1
    <3>. QED
      BY <3>1, <3>2
  <2>. QED
    BY <1>1, <2>1, <2>2 DEF Committed, PassagesAt, Ids, Library!Cut
<1>6. ASSUME NEW s \in Refs \ {r}
      PROVE  BodyAt(s)' = BodyAt(s) /\ PassagesAt(s)' = PassagesAt(s)
  <2>1. document'[s] = document[s]
    BY <1>1 DEF Committed
  <2>2. document[s] # None => ChunksOf(document[s].id)' = ChunksOf(document[s].id)
    <3>. SUFFICES ASSUME document[s] # None
         PROVE  {c \in chunks' : c.document = document'[s].id}
                  = {c \in chunks : c.document = document[s].id}
      BY DEF ChunksOf
    <3>1. document[s].id # id
      BY <1>1 DEF Committed
    <3>. QED
      BY <1>1, <2>1, <3>1, CommittedChunks DEF ChunksOf
  <2>. QED
    BY <2>1, <2>2 DEF BodyAt, PassagesAt, Ids
<1>7. \A u \in Users : /\ Heard(u)' = Heard(u) \ PassagesAt(r)
                       /\ Recent(u)' = Recent(u) \ PassagesAt(r)
  <2>1. Ids(ChunksOf(id)) = PassagesAt(r)
    <3>1. CASE document[r] # None
      BY <1>1, <3>1 DEF Committed, PassagesAt
    <3>2. CASE document[r] = None
      <4>1. \A c \in chunks : c.document # w
        BY <1>2 DEF IInv, ChunksMatchDocument, Origins
      <4>. QED
        BY <1>1, <3>2, <4>1 DEF Committed, PassagesAt, Ids, ChunksOf
    <3>. QED
      BY <3>1, <3>2
  <2>2. plays' = {p \in plays : p.chunk \notin PassagesAt(r)}
    BY <1>1, <2>1 DEF Committed, Cascade
  <2>. QED
    BY <2>2 DEF Heard, Recent
<1>8. Library!Become(r, b, Library!Cut(w, b))
  BY <1>4, <1>5, <1>6, <1>7, BecomeFacts
<1>9. \A l \in Listeners : OfferTo(l)' = OfferTo(l)
  BY <1>2, SameOffers
<1>. QED
  BY <1>3, <1>8, <1>9 DEF Library!Replace

LEMMA DeleteIsRemove ==
  ASSUME IInv, NEW x \in Deletes, NEW r \in Refs, DeleteDocument(x, r)
  PROVE  Library!Remove(r)
<1>1. /\ document[r] # None /\ document' = [document EXCEPT ![r] = None]
      /\ chunks' = chunks \ ChunksOf(document[r].id)
      /\ plays' = {p \in plays : p.chunk \notin PassagesAt(r)}
      /\ UNCHANGED <<upsert, listener>>
  BY DEF DeleteDocument, Cascade, PassagesAt
<1>2. /\ document'[r] = None /\ \A s \in Refs \ {r} : document'[s] = document[s]
      /\ document[r].body # None
  BY <1>1, DocumentTypes, NoneAssumption DEF IInv, TypeOK
<1>3. BodyAt(r)' = None /\ PassagesAt(r)' = {} /\ BodyAt(r) # None
  BY <1>1, <1>2 DEF BodyAt, PassagesAt
<1>4. ASSUME NEW s \in Refs \ {r}
      PROVE  BodyAt(s)' = BodyAt(s) /\ PassagesAt(s)' = PassagesAt(s)
  <2>1. document[s] # None => ChunksOf(document[s].id)' = ChunksOf(document[s].id)
    <3>. SUFFICES ASSUME document[s] # None
         PROVE  {c \in chunks' : c.document = document'[s].id}
                  = {c \in chunks : c.document = document[s].id}
      BY DEF ChunksOf
    <3>1. document[s].id # document[r].id
      BY <1>1 DEF IInv, Origins
    <3>. QED
      BY <1>1, <1>2, <3>1 DEF ChunksOf
  <2>. QED
    BY <1>2, <2>1 DEF BodyAt, PassagesAt, Ids
<1>5. \A u \in Users : /\ Heard(u)' = Heard(u) \ PassagesAt(r)
                       /\ Recent(u)' = Recent(u) \ PassagesAt(r)
  BY <1>1 DEF Heard, Recent
<1>6. Library!Become(r, None, {})
  BY <1>3, <1>4, <1>5, BecomeFacts
<1>7. \A l \in Listeners : OfferTo(l)' = OfferTo(l)
  BY <1>1, SameOffers
<1>. QED
  BY <1>1, <1>3, <1>6, <1>7 DEF Library!Remove

(* Every existing passage is in the table of chunks, and the other way round. *)
LEMMA ExistingFacts == IInv => Library!Existing = Ids(chunks)
<1>. SUFFICES ASSUME IInv PROVE UNION {PassagesAt(r) : r \in Refs} = Ids(chunks)
  BY DEF Library!Existing
<1>1. ASSUME NEW r \in Refs, NEW i \in PassagesAt(r) PROVE i \in Ids(chunks)
  BY <1>1 DEF PassagesAt, Ids, ChunksOf
<1>2. ASSUME NEW c \in chunks PROVE \E r \in Refs : c.id \in PassagesAt(r)
  <2>1. PICK r \in Refs : document[r] # None /\ document[r].id = c.document
    BY DEF IInv, ChunksMatchDocument
  <2>. QED
    BY <2>1 DEF PassagesAt, Ids, ChunksOf
<1>. QED
  BY <1>1, <1>2 DEF Ids

(* A lookup sees the passages of one instant. *)
LEMMA LookupIsOffer ==
  ASSUME LInv, NEW l \in Listeners, Lookup(l)
  PROVE  \E u \in Users : Library!Offer(l, u)
<1>1. PICK u \in Users : \E offered \in SUBSET {c \in chunks : c.id \notin Recent(u)} :
        /\ offered # {}
        /\ Ids(chunks) \subseteq Heard(u) \/ ~(Ids(offered) \subseteq Heard(u))
        /\ listener' = [listener EXCEPT
             ![l] = [pc |-> "offered", user |-> u, offered |-> offered, found |-> {}]]
  BY DEF Lookup, Candidates
<1>2. PICK offered \in SUBSET {c \in chunks : c.id \notin Recent(u)} :
        /\ offered # {}
        /\ Ids(chunks) \subseteq Heard(u) \/ ~(Ids(offered) \subseteq Heard(u))
        /\ listener' = [listener EXCEPT
             ![l] = [pc |-> "offered", user |-> u, offered |-> offered, found |-> {}]]
  BY <1>1
<1>. DEFINE new == [user |-> u, passages |-> Ids(offered), recorded |-> FALSE]
<1>3. /\ Ids(offered) \in SUBSET (Library!Existing \ Recent(u)) /\ Ids(offered) # {}
      /\ Library!Existing \subseteq Heard(u) \/ ~(Ids(offered) \subseteq Heard(u))
  <2>1. Library!Existing = Ids(chunks)
    BY ExistingFacts DEF LInv
  <2>2. \A i \in Ids(offered) : i \in Ids(chunks) /\ i \notin Recent(u)
    BY <1>2 DEF Ids
  <2>3. Ids(offered) # {}
    BY <1>2 DEF Ids
  <2>. QED
    BY <1>2, <2>1, <2>2, <2>3
<1>4. OfferTo(l) = Library!NoOffer
  <2>1. listener[l] = NotAsked
    BY DEF LInv, Noted, Lookup
  <2>2. listener[l].user = None /\ listener[l].offered = {} /\ listener[l].pc # "ok"
    BY <2>1 DEF NotAsked
  <2>. QED
    BY <2>2 DEF OfferTo, Library!NoOffer, Ids
<1>5. OfferTo(l)' = new /\ \A m \in Listeners \ {l} : OfferTo(m)' = OfferTo(m)
  <2>1. listener \in [Listeners -> ListenerStates]
    BY ListenerTypes DEF LInv, IInv
  <2>2. /\ listener'[l] = [pc |-> "offered", user |-> u, offered |-> offered, found |-> {}]
        /\ \A m \in Listeners \ {l} : listener'[m] = listener[m]
    BY <1>2, <2>1
  <2>3. /\ listener'[l].pc = "offered" /\ listener'[l].user = u
        /\ listener'[l].offered = offered
    BY <2>2
  <2>. QED
    BY <2>2, <2>3 DEF OfferTo, Ids
<1>6. /\ \A r : BodyAt(r)' = BodyAt(r) /\ PassagesAt(r)' = PassagesAt(r)
      /\ \A v : Heard(v)' = Heard(v) /\ Recent(v)' = Recent(v)
      /\ upsert' = upsert
  BY SameDocuments, SamePlays DEF Lookup
<1>7. [m \in Listeners |-> OfferTo(m)'] = [[m \in Listeners |-> OfferTo(m)] EXCEPT ![l] = new]
  BY <1>5
<1>. HIDE DEF new
<1>8. \E ids \in SUBSET (Library!Existing \ Recent(u)) :
        /\ ids # {}
        /\ Library!Existing \subseteq Heard(u) \/ ~(ids \subseteq Heard(u))
        /\ [m \in Listeners |-> OfferTo(m)'] =
             [[m \in Listeners |-> OfferTo(m)] EXCEPT
                ![l] = [user |-> u, passages |-> ids, recorded |-> FALSE]]
  BY <1>3, <1>7 DEF new
<1>9. Heard(u) = [v \in Users |-> Heard(v)][u] /\ Recent(u) = [v \in Users |-> Recent(v)][u]
  OBVIOUS
<1>. QED
  BY <1>4, <1>6, <1>8, <1>9 DEF Library!Offer

(* What a step of a listener changes in what the library sees of it. *)
LEMMA OfferStep ==
  ASSUME TypeOK, NEW l \in Listeners, NEW pc, NEW found,
         listener' = [listener EXCEPT ![l].pc = pc, ![l].found = found]
  PROVE  /\ OfferTo(l)' = [OfferTo(l) EXCEPT !.recorded = (pc = "ok")]
         /\ \A m \in Listeners \ {l} : OfferTo(m)' = OfferTo(m)
<1>1. listener \in [Listeners -> ListenerStates]
  BY ListenerTypes
<1>2. /\ listener'[l].pc = pc /\ listener'[l].user = listener[l].user
      /\ listener'[l].offered = listener[l].offered
      /\ \A m \in Listeners \ {l} : listener'[m] = listener[m]
  BY <1>1 DEF ListenerStates
<1>3. /\ Ids(listener[l].offered)' = Ids(listener[l].offered)
      /\ \A m \in Listeners \ {l} : Ids(listener[m].offered)' = Ids(listener[m].offered)
  BY <1>2 DEF Ids
<1>4. OfferTo(l)' = [user |-> listener[l].user, passages |-> Ids(listener[l].offered),
                     recorded |-> (pc = "ok")]
  BY <1>2, <1>3 DEF OfferTo
<1>5. [OfferTo(l) EXCEPT !.recorded = (pc = "ok")] =
        [user |-> listener[l].user, passages |-> Ids(listener[l].offered),
         recorded |-> (pc = "ok")]
  BY DEF OfferTo
<1>6. \A m \in Listeners \ {l} : OfferTo(m)' = OfferTo(m)
  BY <1>2, <1>3 DEF OfferTo
<1>. QED
  BY <1>4, <1>5, <1>6

(* The first statement of a report records nothing; if there was an earlier report, the *)
(* device has yet to learn of this one.                                                 *)
LEMMA SelectPlayedIsRepeat ==
  ASSUME LInv, NEW l \in Listeners, SelectPlayed(l)
  PROVE  Library!Repeat(l) \/ UNCHANGED Library!vars
<1>1. /\ \A r : BodyAt(r)' = BodyAt(r) /\ PassagesAt(r)' = PassagesAt(r)
      /\ \A u : Heard(u)' = Heard(u) /\ Recent(u)' = Recent(u)
      /\ upsert' = upsert
  BY SameDocuments, SamePlays DEF SelectPlayed
<1>2. /\ OfferTo(l)' = [OfferTo(l) EXCEPT !.recorded = FALSE]
      /\ \A m \in Listeners \ {l} : OfferTo(m)' = OfferTo(m)
  <2>1. PICK found : listener' = [listener EXCEPT ![l].pc = "insert", ![l].found = found]
    BY DEF SelectPlayed
  <2>2. OfferTo(l)' = [OfferTo(l) EXCEPT !.recorded = ("insert" = "ok")]
        /\ \A m \in Listeners \ {l} : OfferTo(m)' = OfferTo(m)
    BY <2>1, OfferStep DEF LInv, IInv
  <2>. QED
    BY <2>2
<1>3. CASE OfferTo(l).recorded
  <2>1. [m \in Listeners |-> OfferTo(m)'] =
          [[m \in Listeners |-> OfferTo(m)] EXCEPT ![l] = [OfferTo(l) EXCEPT !.recorded = FALSE]]
    BY <1>2
  <2>. QED
    BY <1>1, <1>3, <2>1 DEF Library!Repeat
<1>4. CASE ~OfferTo(l).recorded
  <2>1. OfferTo(l)' = OfferTo(l)
    BY <1>2, <1>4 DEF OfferTo
  <2>. QED
    BY <1>1, <1>2, <2>1 DEF Library!vars
<1>. QED
  BY <1>3, <1>4

(* The second one records what the first has chosen, if all of it still exists: that is  *)
(* everything the device was offered and that exists, because no passage ever comes      *)
(* back; or it fails, and records nothing.                                               *)
LEMMA InsertPlaysIsRecord ==
  ASSUME LInv, NEW l \in Listeners, InsertPlays(l)
  PROVE  Library!Record(l) \/ UNCHANGED Library!vars
<1>1. /\ \A r : BodyAt(r)' = BodyAt(r) /\ PassagesAt(r)' = PassagesAt(r)
      /\ upsert' = upsert /\ TypeOK /\ listener[l].pc = "insert"
  BY SameDocuments DEF InsertPlays, LInv, IInv
<1>2. /\ listener[l].user \in Users
      /\ Ids(listener[l].offered) \cap Ids(chunks) \subseteq listener[l].found
      /\ listener[l].found \subseteq Ids(listener[l].offered)
  BY <1>1 DEF LInv, IInv, OffersRemembered, Noted
<1>3. ASSUME listener[l].found \subseteq Ids(chunks),
             NEW age \in Ages, plays' = plays \cup NewPlays(l, age),
             listener' = [listener EXCEPT ![l].pc = "ok", ![l].found = {}]
      PROVE  Library!Record(l)
  <2>1. /\ OfferTo(l)' = [OfferTo(l) EXCEPT !.recorded = TRUE]
        /\ \A m \in Listeners \ {l} : OfferTo(m)' = OfferTo(m)
    <3>1. OfferTo(l)' = [OfferTo(l) EXCEPT !.recorded = ("ok" = "ok")]
          /\ \A m \in Listeners \ {l} : OfferTo(m)' = OfferTo(m)
      BY <1>1, <1>3, OfferStep
    <3>. QED
      BY <3>1
  <2>2. [m \in Listeners |-> OfferTo(m)'] =
          [[m \in Listeners |-> OfferTo(m)] EXCEPT ![l] = [OfferTo(l) EXCEPT !.recorded = TRUE]]
    BY <2>1
  <2>3. OfferTo(l).user = listener[l].user /\ OfferTo(l).passages = Ids(listener[l].offered)
    BY DEF OfferTo
  <2>4. OfferTo(l) # Library!NoOffer
    BY <1>2, <2>3, NoneAssumption DEF Library!NoOffer
  <2>5. listener[l].found = OfferTo(l).passages \cap Library!Existing
    BY <1>2, <1>3, <2>3, ExistingFacts DEF LInv
  <2>6. ASSUME NEW u \in Users
        PROVE  Heard(u)' = IF u = OfferTo(l).user THEN Heard(u) \cup listener[l].found
                           ELSE Heard(u)
    <3>1. ASSUME NEW i
          PROVE  i \in Heard(u)' <=>
                   i \in Heard(u) \/ (u = listener[l].user /\ i \in listener[l].found)
      <4>1. i \in Heard(u)' <=> \E p \in plays \cup NewPlays(l, age) : p.user = u /\ p.chunk = i
        BY <1>3 DEF Heard
      <4>2. i \in Heard(u) <=> \E p \in plays : p.user = u /\ p.chunk = i
        BY DEF Heard
      <4>3. ASSUME u = listener[l].user, i \in listener[l].found
            PROVE  \E p \in plays \cup NewPlays(l, age) : p.user = u /\ p.chunk = i
        <5>. DEFINE p == [user |-> u, event |-> l, chunk |-> i, age |-> age]
        <5>1. /\ p \in [user : {listener[l].user}, event : {l}, chunk : listener[l].found,
                         age : {age}]
              /\ p.user = u /\ p.chunk = i
          BY <4>3
        <5>. HIDE DEF p
        <5>. QED
          BY <5>1 DEF NewPlays
      <4>4. \A p \in NewPlays(l, age) : p.user = listener[l].user /\ p.chunk \in listener[l].found
        BY DEF NewPlays
      <4>. QED
        BY <4>1, <4>2, <4>3, <4>4
    <3>. QED
      BY <2>3, <3>1
  <2>7. [u \in Users |-> Heard(u)'] =
          [[u \in Users |-> Heard(u)] EXCEPT
             ![OfferTo(l).user] = @ \cup (OfferTo(l).passages \cap Library!Existing)]
    BY <1>2, <2>3, <2>5, <2>6
  <2>. DEFINE news == {p.chunk : p \in {q \in NewPlays(l, age) : q.age = "recent"}}
  <2>8. news \in SUBSET (OfferTo(l).passages \cap Library!Existing)
    BY <2>5 DEF NewPlays
  <2>9. ASSUME NEW u \in Users
        PROVE  Recent(u)' = IF u = OfferTo(l).user THEN Recent(u) \cup news ELSE Recent(u)
    <3>1. \A p \in NewPlays(l, age) : p.user = OfferTo(l).user
      BY <2>3 DEF NewPlays
    <3>. QED
      BY <1>3, <3>1 DEF Recent
  <2>10. [u \in Users |-> Recent(u)'] =
           [[u \in Users |-> Recent(u)] EXCEPT ![OfferTo(l).user] = @ \cup news]
    BY <1>2, <2>3, <2>9
  <2>. HIDE DEF news
  <2>. QED
    BY <1>1, <2>2, <2>4, <2>7, <2>8, <2>10 DEF Library!Record
<1>4. CASE /\ listener' = [listener EXCEPT ![l].pc = "failed", ![l].found = {}]
           /\ UNCHANGED plays
  <2>1. OfferTo(l)' = [OfferTo(l) EXCEPT !.recorded = ("failed" = "ok")]
        /\ \A m \in Listeners \ {l} : OfferTo(m)' = OfferTo(m)
    BY <1>1, <1>4, OfferStep
  <2>2. OfferTo(l)' = OfferTo(l)
    BY <1>1, <2>1 DEF OfferTo
  <2>3. \A u : Heard(u)' = Heard(u) /\ Recent(u)' = Recent(u)
    BY <1>4, SamePlays
  <2>. QED
    BY <1>1, <2>1, <2>2, <2>3 DEF Library!vars
<1>. QED
  BY <1>3, <1>4 DEF InsertPlays

(* Nothing but what is recent changes with time. *)
LEMMA AgeIsFade ==
  ASSUME LInv, NEW u \in Users, NEW l \in Listeners, Age(u, l)
  PROVE  Library!Fade(u)
<1>1. UNCHANGED <<document, chunks, upsert, listener>>
  BY DEF Age
<1>2. /\ \A r : BodyAt(r)' = BodyAt(r) /\ PassagesAt(r)' = PassagesAt(r)
      /\ \A m : OfferTo(m)' = OfferTo(m)
  BY <1>1, SameDocuments, SameOffers
<1>3. /\ plays \in SUBSET Play
      /\ \A p \in plays : \E q \in plays' :
           /\ q.user = p.user /\ q.chunk = p.chunk
           /\ p.user # u => q.age = p.age
      /\ \A q \in plays' : \E p \in plays :
           /\ q.user = p.user /\ q.chunk = p.chunk
           /\ q.age = "recent" => p.age = "recent"
  BY AgeFacts DEF LInv, IInv, TypeOK
<1>4. \A v : Heard(v)' = Heard(v)
  BY <1>3 DEF Heard
<1>5. \A v : Recent(v)' \subseteq Recent(v)
  BY <1>3 DEF Recent
<1>6. \A v : v # u => Recent(v)' = Recent(v)
  <2>1. \A v : v # u => Recent(v) \subseteq Recent(v)'
    BY <1>3 DEF Recent
  <2>. QED
    BY <1>5, <2>1
<1>7. [v \in Users |-> Recent(v)'] = [[v \in Users |-> Recent(v)] EXCEPT ![u] = Recent(u)']
  BY <1>6
<1>8. \E rest \in SUBSET [v \in Users |-> Recent(v)][u] :
        [v \in Users |-> Recent(v)'] = [[v \in Users |-> Recent(v)] EXCEPT ![u] = rest]
  BY <1>5, <1>7
<1>. QED
  BY <1>1, <1>2, <1>4, <1>8 DEF Library!Fade

(* The other steps of upsert_document: nobody sees them before the commit. *)
LEMMA UpsertIsUnseen ==
  ASSUME IInv, NEW w \in Upserts, UpsertDocument(w) \/ Store(w) \/ FailUpsert(w)
  PROVE  \/ Library!ChangeNothing(w)
         \/ \E r \in Refs, b \in Bodies : Library!Replace(w, r, b)
         \/ UNCHANGED Library!vars
<1>1. CASE CommitUpsert(w)
  BY <1>1, CommitIsReplace
<1>2. CASE ~CommitUpsert(w)
  <2>1. UNCHANGED <<document, chunks, plays, listener>>
    BY <1>2 DEF UpsertDocument, Store, CheckHash, Touch, InsertDocument, RebuildChunks, FailUpsert
  <2>2. /\ \A r : BodyAt(r)' = BodyAt(r) /\ PassagesAt(r)' = PassagesAt(r)
        /\ \A u : Heard(u)' = Heard(u) /\ Recent(u)' = Recent(u)
        /\ \A l : OfferTo(l)' = OfferTo(l)
    BY <2>1, SameDocuments, SamePlays, SameOffers
  <2>3. CASE Touch(w) \/ FailUpsert(w)
    <3>1. /\ ~Done(w) /\ TypeOK
          /\ upsert' = [upsert EXCEPT ![w] = [NotStarted EXCEPT !.pc = "done"]]
      BY <2>3 DEF Touch, FailUpsert, Done, IInv
    <3>2. Library!End(w)
      BY <3>1, EndFacts
    <3>. QED
      BY <2>2, <3>2 DEF Library!ChangeNothing
  <2>4. CASE UpsertDocument(w) \/ CheckHash(w) \/ InsertDocument(w) \/ RebuildChunks(w)
    <3>1. \A v \in Upserts : upsert'[v].pc = "done" <=> upsert[v].pc = "done"
      <4>0. upsert \in [Upserts -> Transactions]
        BY DEF IInv, TypeOK, Transactions
      <4>1. \A v \in Upserts \ {w} : upsert'[v] = upsert[v]
        BY <2>4, <4>0 DEF UpsertDocument, CheckHash, InsertDocument, RebuildChunks
      <4>2. upsert[w].pc # "done" /\ upsert'[w].pc # "done"
        <5>1. CASE UpsertDocument(w)
          <6>1. PICK s \in Refs, b \in Bodies :
                  upsert' = [upsert EXCEPT ![w].pc = "check", ![w].ref = s, ![w].body = b]
            BY <5>1 DEF UpsertDocument
          <6>2. upsert[w].pc = "idle"
            BY <5>1 DEF UpsertDocument
          <6>3. upsert'[w].pc = "check"
            BY <4>0, <6>1 DEF Transactions
          <6>. QED
            BY <6>2, <6>3
        <5>2. CASE CheckHash(w)
          BY <4>0, <5>2 DEF CheckHash, Transactions
        <5>3. CASE InsertDocument(w)
          BY <4>0, <5>3 DEF InsertDocument, Transactions
        <5>4. CASE RebuildChunks(w)
          BY <4>0, <5>4 DEF RebuildChunks, Transactions
        <5>. QED
          BY <2>4, <5>1, <5>2, <5>3, <5>4
      <4>. QED
        BY <4>1, <4>2
    <3>. QED
      BY <2>2, <3>1 DEF Library!vars
  <2>. QED
    BY <1>2, <2>3, <2>4 DEF Store
<1>. QED
  BY <1>1, <1>2

LEMMA NextIsLibraryNext == LInv /\ [Next]_vars => [Library!Next]_Library!vars
<1>. SUFFICES ASSUME LInv, [Next]_vars PROVE [Library!Next]_Library!vars
  OBVIOUS
<1>1. ASSUME NEW w \in Upserts, UpsertDocument(w) \/ Store(w) \/ FailUpsert(w)
      PROVE  [Library!Next]_Library!vars
  BY <1>1, UpsertIsUnseen DEF LInv, Library!Next
<1>2. ASSUME NEW x \in Deletes, NEW r \in Refs, DeleteDocument(x, r) PROVE Library!Next
  BY <1>2, DeleteIsRemove DEF LInv, Library!Next
<1>3. ASSUME NEW l \in Listeners, Lookup(l) \/ SelectPlayed(l) \/ InsertPlays(l)
      PROVE  [Library!Next]_Library!vars
  BY <1>3, LookupIsOffer, SelectPlayedIsRepeat, InsertPlaysIsRecord DEF Library!Next
<1>4. ASSUME NEW u \in Users, NEW l \in Listeners, Age(u, l) PROVE Library!Next
  BY <1>4, AgeIsFade DEF Library!Next
<1>5. CASE UNCHANGED vars
  <2>1. UNCHANGED <<document, chunks, plays, upsert, listener>>
    BY <1>5 DEF vars
  <2>2. /\ \A r : BodyAt(r)' = BodyAt(r) /\ PassagesAt(r)' = PassagesAt(r)
        /\ \A u : Heard(u)' = Heard(u) /\ Recent(u)' = Recent(u)
        /\ \A l : OfferTo(l)' = OfferTo(l)
    BY <2>1, SameDocuments, SamePlays, SameOffers
  <2>. QED
    BY <2>1, <2>2 DEF Library!vars
<1>. QED
  BY <1>1, <1>2, <1>3, <1>4, <1>5 DEF Next

(* The transactions of upsert_document, the cascades of delete_document, the lookups and *)
(* the two steps of record_plays are instants of the library: a lookup that runs         *)
(* meanwhile, or an upsert that fails, never shows that they are not.                    *)
THEOREM StoreIsALibrary == Spec => ImplementsLibrary
<1>1. Init => Library!Init
  <2>. SUFFICES ASSUME Init PROVE Library!Init
    OBVIOUS
  <2>1. \A r \in Refs : BodyAt(r) = None /\ PassagesAt(r) = {}
    BY DEF Init, BodyAt, PassagesAt
  <2>2. \A u \in Users : Heard(u) = {} /\ Recent(u) = {}
    BY DEF Init, Heard, Recent
  <2>3. ASSUME NEW l \in Listeners PROVE OfferTo(l) = Library!NoOffer
    <3>1. listener[l].user = None /\ listener[l].offered = {} /\ listener[l].pc # "ok"
      BY DEF Init, NotAsked
    <3>. QED
      BY <3>1 DEF OfferTo, Library!NoOffer, Ids
  <2>4. {w \in Upserts : upsert[w].pc = "done"} = {}
    BY DEF Init, NotStarted
  <2>. QED
    BY <2>1, <2>2, <2>3, <2>4 DEF Library!Init
<1>2. Init => LInv
  BY InitLInv
<1>3. LInv /\ [Next]_vars => LInv'
  BY NextKeepsLInv
<1>4. LInv /\ [Next]_vars => [Library!Next]_Library!vars
  BY NextIsLibraryNext
<1>. QED
  BY <1>1, <1>2, <1>3, <1>4, PTL DEF Spec, ImplementsLibrary, Library!Spec

=============================================================================
