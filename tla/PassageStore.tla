---------------------------- MODULE PassageStore ----------------------------
(***************************************************************************)
(* The DJ passage store: documents, the chunks they are cut into, and who  *)
(* has heard which chunk.  Ingest workers and administrators store and     *)
(* delete documents while listeners are offered chunks and report them as  *)
(* played.                                                                 *)
(*                                                                         *)
(* PostgreSQL at READ COMMITTED.  A body is a model value with a fixed     *)
(* number of chunks; embeddings, match keys and fetched_at are left out    *)
(* (they choose among chunks and decide what a source is asked for): every *)
(* chunk is about the track that is asked for.  Ids come from sequences: a *)
(* document's id is the call that inserted it, a chunk's the call that     *)
(* inserted it and its ord.                                                *)
(***************************************************************************)
EXTENDS Integers, FiniteSets

CONSTANTS
  Refs,       \* (source, source_ref) pairs
  Bodies,
  ChunkCount, \* ChunkCount[b]: into how many chunks body b is cut
  Upserts,    \* calls of upsert_document
  Deletes,    \* calls of delete_document
  Listeners,  \* devices; each makes one lookup and reports it
  Users,
  None

ASSUME ChunkCountAssumption == ChunkCount \in [Bodies -> Nat]
ASSUME NoneAssumption == None \notin Refs \cup Bodies \cup Upserts \cup Deletes \cup Users

VARIABLES
  document,  \* document[r]: the committed row, or None
  chunks,    \* the committed rows of dj_chunks
  plays,     \* the committed rows of dj_passage_plays
  holder,    \* holder[r]: the transaction that holds r's row, or None
  upsert,    \* upsert[w]: where call w is, and its open transaction
  removal,   \* removal[x]: where the delete call x is
  listener   \* listener[l]: where listener l is

vars == <<document, chunks, plays, holder, upsert, removal, listener>>

ChunkId == Upserts \X Nat
Document == [id : Upserts, body : Bodies]
Chunk == [id : ChunkId, document : Upserts, body : Bodies]

(* Whether less than EXCLUSION_DAYS have passed since played_at, which is the client's. *)
Ages == {"recent", "old"}
Play == [user : Users, event : Listeners, chunk : ChunkId, age : Ages]

ASSUME NoDocumentAssumption == None \notin Document

NotStarted == [pc |-> "idle", ref |-> None, body |-> None, document |-> None,
               deleted |-> {}, inserted |-> {}]
NotAsked == [pc |-> "idle", user |-> None, offered |-> {}, found |-> {}]

ChunksOf(id) == {c \in chunks : c.document = id}
Ids(cs) == {c.id : c \in cs}

Init ==
  /\ document = [r \in Refs |-> None]
  /\ chunks = {}
  /\ plays = {}
  /\ holder = [r \in Refs |-> None]
  /\ upsert = [w \in Upserts |-> NotStarted]
  /\ removal = [x \in Deletes |-> None]
  /\ listener = [l \in Listeners |-> NotAsked]

-----------------------------------------------------------------------------
(* upsert_document.                                                        *)

(* Called with what a source has just sent, or with an admin's note. *)
UpsertDocument(w) ==
  /\ upsert[w].pc = "idle"
  /\ \E r \in Refs, b \in Bodies :
       upsert' = [upsert EXCEPT ![w].pc = "check", ![w].ref = r, ![w].body = b]
  /\ UNCHANGED <<document, chunks, plays, holder, removal, listener>>

SameBody(w) ==
  LET row == document[upsert[w].ref] IN row # None /\ row.body = upsert[w].body

(* SELECT id, content_hash, without a lock.  Chunking and embedding follow, outside any *)
(* transaction and as slow as the model is.                                             *)
CheckHash(w) ==
  LET row == document[upsert[w].ref] IN
  /\ upsert[w].pc = "check"
  /\ upsert' = [upsert EXCEPT ![w].pc = IF SameBody(w) THEN "touch" ELSE "insert",
                              ![w].document = IF row = None THEN None ELSE row.id]
  /\ UNCHANGED <<document, chunks, plays, holder, removal, listener>>

(* UPDATE fetched_at WHERE id: waits for the row, and matches nothing if it is gone. *)
Touch(w) ==
  /\ upsert[w].pc = "touch"
  /\ holder[upsert[w].ref] = None
  /\ upsert' = [upsert EXCEPT ![w] = [NotStarted EXCEPT !.pc = "done"]]
  /\ UNCHANGED <<document, chunks, plays, holder, removal, listener>>

(* A bug for the mutant runs: the INSERT runs on the pool, outside the transaction. *)
InsertOutsideTransaction(w) ==
  LET r == upsert[w].ref
      id == IF document[r] = None THEN w ELSE document[r].id
  IN  /\ upsert[w].pc = "insert"
      /\ holder[r] = None
      /\ document' = [document EXCEPT ![r] = [id |-> id, body |-> upsert[w].body]]
      /\ upsert' = [upsert EXCEPT ![w].pc = "rebuild", ![w].document = id]
      /\ UNCHANGED <<chunks, plays, holder, removal, listener>>

(* INSERT ... ON CONFLICT (source, source_ref) DO UPDATE RETURNING id: waits for a      *)
(* transaction that has inserted or updated the same row.                               *)
InsertDocument(w) ==
  LET r == upsert[w].ref IN
  /\ upsert[w].pc = "insert"
  /\ holder[r] = None
  /\ holder' = [holder EXCEPT ![r] = w]
  /\ upsert' = [upsert EXCEPT ![w].pc = "rebuild",
                              ![w].document = IF document[r] = None THEN w
                                              ELSE document[r].id]
  /\ UNCHANGED <<document, chunks, plays, removal, listener>>

(* DELETE FROM dj_chunks WHERE document_id, then the INSERTs: nobody sees them before   *)
(* the commit, but the deleted rows are locked from here on.                            *)
RebuildChunks(w) ==
  LET b == upsert[w].body IN
  /\ upsert[w].pc = "rebuild"
  /\ upsert' = [upsert EXCEPT
       ![w].pc = "commit",
       ![w].deleted = Ids(ChunksOf(upsert[w].document)),
       ![w].inserted = {[id |-> <<w, k>>, document |-> upsert[w].document, body |-> b] :
                          k \in 1 .. ChunkCount[b]}]
  /\ UNCHANGED <<document, chunks, plays, holder, removal, listener>>

(* ON DELETE CASCADE: the plays of a deleted chunk go with it. *)
Cascade(gone) == plays' = {p \in plays : p.chunk \notin gone}

CommitUpsert(w) ==
  LET r == upsert[w].ref IN
  /\ upsert[w].pc = "commit"
  /\ document' = [document EXCEPT ![r] = [id |-> upsert[w].document, body |-> upsert[w].body]]
  /\ chunks' = {c \in chunks : c.id \notin upsert[w].deleted} \cup upsert[w].inserted
  /\ Cascade(upsert[w].deleted)
  /\ holder' = [holder EXCEPT ![r] = None]
  /\ upsert' = [upsert EXCEPT ![w] = [NotStarted EXCEPT !.pc = "done"]]
  /\ UNCHANGED <<removal, listener>>

(* A bug for the mutant runs: the failed transaction is left open. *)
FailWithoutRollback(w) ==
  /\ upsert[w].pc \notin {"idle", "done"}
  /\ upsert' = [upsert EXCEPT ![w] = [NotStarted EXCEPT !.pc = "done"]]
  /\ UNCHANGED <<document, chunks, plays, holder, removal, listener>>

(* A statement or the embedder fails, or the process stops: the transaction rolls back. *)
FailUpsert(w) ==
  /\ upsert[w].pc \notin {"idle", "done"}
  /\ upsert' = [upsert EXCEPT ![w] = [NotStarted EXCEPT !.pc = "done"]]
  /\ holder' = [r \in Refs |-> IF holder[r] = w THEN None ELSE holder[r]]
  /\ UNCHANGED <<document, chunks, plays, removal, listener>>

-----------------------------------------------------------------------------
(* delete_document: DELETE WHERE id, one statement, which waits for the row.            *)

DeleteDocument(x, r) ==
  /\ removal[x] = None
  /\ document[r] # None /\ holder[r] = None
  /\ removal' = [removal EXCEPT ![x] = r]
  /\ document' = [document EXCEPT ![r] = None]
  /\ chunks' = chunks \ ChunksOf(document[r].id)
  /\ Cascade(Ids(ChunksOf(document[r].id)))
  /\ UNCHANGED <<holder, upsert, listener>>

-----------------------------------------------------------------------------
(* Listeners: GET a passage, then POST that it was played.                 *)

(* A bug for the mutant runs: the chunks of open transactions are offered too. *)
DirtyCandidates == chunks \cup UNION {upsert[w].inserted : w \in Upserts}

Candidates == chunks

Heard(u) == {p.chunk : p \in {q \in plays : q.user = u}}
Recent(u) == {p.chunk : p \in {q \in plays : q.user = u /\ q.age = "recent"}}

(* candidates (one SELECT) and select, at its instant: chunks the user has not heard    *)
(* recently, at most two of a document (PER_DOCUMENT).  The best is always taken, and   *)
(* one never heard is better than any other.                                            *)
Lookup(l) ==
  /\ listener[l].pc = "idle"
  /\ \E u \in Users : \E offered \in SUBSET {c \in Candidates : c.id \notin Recent(u)} :
       /\ offered # {}
       /\ Ids(Candidates) \subseteq Heard(u) \/ ~(Ids(offered) \subseteq Heard(u))
       /\ \A c \in offered : Cardinality({d \in offered : d.document = c.document}) <= 2
       /\ listener' = [listener EXCEPT
            ![l] = [pc |-> "offered", user |-> u, offered |-> offered, found |-> {}]]
  /\ UNCHANGED <<document, chunks, plays, holder, upsert, removal>>

(* record_plays: the SELECT of the statement; a client that got no answer may send the  *)
(* same event again.                                                                    *)
SelectPlayed(l) ==
  /\ listener[l].pc \in {"offered", "failed", "ok"}
  /\ listener' = [listener EXCEPT
       ![l].pc = "insert",
       ![l].found = Ids(listener[l].offered) \cap Ids(chunks)]
  /\ UNCHANGED <<document, chunks, plays, holder, upsert, removal>>

Deleting == UNION {upsert[w].deleted : w \in Upserts}

(* A bug for the mutant runs: one row per (user, event), the key of dj_fact_plays. *)
OnePlayPerEvent(l, age) ==
  {p \in [user : {listener[l].user}, event : {l}, chunk : listener[l].found, age : {age}] :
     /\ ~\E q \in plays : q.user = p.user /\ q.event = l
     /\ \A c \in listener[l].found : c[2] >= p.chunk[2]}

(* ON CONFLICT (user_id, event_id, chunk_id) DO NOTHING: a repeated report changes no row. *)
NewPlays(l, age) ==
  {p \in [user : {listener[l].user}, event : {l}, chunk : listener[l].found, age : {age}] :
     ~\E q \in plays : q.user = p.user /\ q.event = l /\ q.chunk = p.chunk}

(* The INSERT of the statement: its foreign key check waits for a transaction that is   *)
(* deleting a chunk, and fails the whole statement when the chunk is gone.  played may   *)
(* be told any time in the past.                                                         *)
InsertPlays(l) ==
  /\ listener[l].pc = "insert"
  /\ listener[l].found \cap Deleting = {}
  /\ \/ /\ listener[l].found \subseteq Ids(chunks)
        /\ \E age \in Ages : plays' = plays \cup NewPlays(l, age)
        /\ listener' = [listener EXCEPT ![l].pc = "ok", ![l].found = {}]
     \/ /\ ~(listener[l].found \subseteq Ids(chunks))
        /\ listener' = [listener EXCEPT ![l].pc = "failed", ![l].found = {}]
        /\ UNCHANGED plays
  /\ UNCHANGED <<document, chunks, holder, upsert, removal>>

(* EXCLUSION_DAYS after played_at. *)
Age(u, l) ==
  /\ \E p \in plays : p.user = u /\ p.event = l /\ p.age = "recent"
  /\ plays' = {IF p.user = u /\ p.event = l THEN [p EXCEPT !.age = "old"] ELSE p : p \in plays}
  /\ UNCHANGED <<document, chunks, holder, upsert, removal, listener>>

Store(w) == CheckHash(w) \/ Touch(w) \/ InsertDocument(w) \/ RebuildChunks(w) \/ CommitUpsert(w)

Next ==
  \/ \E w \in Upserts : UpsertDocument(w) \/ Store(w) \/ FailUpsert(w)
  \/ \E x \in Deletes, r \in Refs : DeleteDocument(x, r)
  \/ \E l \in Listeners : Lookup(l) \/ SelectPlayed(l) \/ InsertPlays(l)
  \/ \E u \in Users, l \in Listeners : Age(u, l)

(* The runtime runs every call on, and PostgreSQL grants a lock that is free to whoever *)
(* waits for it.                                                                        *)
Fairness == \A w \in Upserts : WF_vars(Store(w))

Spec == Init /\ [][Next]_vars
FairSpec == Spec /\ Fairness

-----------------------------------------------------------------------------
(* The passages as lookups see them, and a device with what it was offered. *)
BodyAt(r) == IF document[r] = None THEN None ELSE document[r].body
PassagesAt(r) == IF document[r] = None THEN {} ELSE Ids(ChunksOf(document[r].id))
OfferTo(l) == [user |-> listener[l].user, passages |-> Ids(listener[l].offered),
               recorded |-> listener[l].pc = "ok"]

Library == INSTANCE PassageLibrary WITH
  body <- [r \in Refs |-> BodyAt(r)],
  passages <- [r \in Refs |-> PassagesAt(r)],
  told <- [u \in Users |-> Heard(u)],
  recent <- [u \in Users |-> Recent(u)],
  offer <- [l \in Listeners |-> OfferTo(l)],
  ended <- {w \in Upserts : upsert[w].pc = "done"}

-----------------------------------------------------------------------------
TypeOK ==
  /\ document \in [Refs -> Document \cup {None}]
  /\ chunks \in SUBSET Chunk
  /\ plays \in SUBSET Play
  /\ holder \in [Refs -> Upserts \cup {None}]
  /\ upsert \in [Upserts -> [pc : {"idle", "check", "touch", "insert", "rebuild", "commit",
                                   "done"},
                             ref : Refs \cup {None}, body : Bodies \cup {None},
                             document : Upserts \cup {None},
                             deleted : SUBSET ChunkId, inserted : SUBSET Chunk]]
  /\ removal \in [Deletes -> Refs \cup {None}]
  /\ listener \in [Listeners -> [pc : {"idle", "offered", "insert", "ok", "failed"},
                                 user : Users \cup {None}, offered : SUBSET Chunk,
                                 found : SUBSET ChunkId]]

(* However upserts of one document, deletions and failures interleave: a stored document *)
(* has exactly the chunks of its body, cut by one call; no chunk is left without its     *)
(* document, and no play without its chunk.                                              *)
ChunksMatchDocument ==
  /\ \A r \in Refs : document[r] # None =>
       \E w \in Upserts :
         ChunksOf(document[r].id) =
           {[id |-> <<w, k>>, document |-> document[r].id, body |-> document[r].body] :
              k \in 1 .. ChunkCount[document[r].body]}
  /\ \A c \in chunks : \E r \in Refs : document[r] # None /\ document[r].id = c.document
  /\ \A p \in plays : p.chunk \in Ids(chunks)

(* One answer never mixes two versions of a document, nor shows a version that was never *)
(* stored, even while the document is being replaced.                                    *)
OffersAreOneVersion ==
  \A l \in Listeners : \A c, d \in listener[l].offered :
    c.document = d.document => c.body = d.body /\ c.id[1] = d.id[1]

(* A document is whole at rest and whole in every answer that was made of it: an upsert  *)
(* that is rebuilding it, one that fails half way and a deletion are never seen between  *)
(* their statements, neither by a later lookup nor by one that runs at the same time.    *)
DocumentsAreWhole == ChunksMatchDocument /\ OffersAreOneVersion

(* Once a device was answered that its passages are recorded as played, a device of the  *)
(* same account is offered one of them only when 30 days have passed since the time that *)
(* was reported: retries, re-ingests and deletions in between lose a play only together  *)
(* with the passage, and the play of another device or time does not stand for it.       *)
NotToldAgain ==
  [][\A l, m \in Listeners :
       (/\ listener[l].pc = "idle" /\ listener'[l].pc = "offered"
        /\ listener[m].pc = "ok" /\ listener[m].user = listener'[l].user) =>
         \A i \in Ids(listener'[l].offered) \cap Ids(listener[m].offered) :
           /\ \E p \in plays : p.user = listener[m].user /\ p.event = m /\ p.chunk = i
           /\ \A p \in plays : (p.user = listener[m].user /\ p.chunk = i) => p.age = "old"]_vars

(* upsert_document, delete_document, candidates and record_plays are the library's      *)
(* instants: an upsert's is its commit, a report's the INSERT of its statement, although *)
(* that has chosen its rows before and waits for whoever is deleting one.               *)
ImplementsLibrary == Library!Spec

(* Nobody waits for ever on a row: of the finitely many upserts, all that are called     *)
(* end, whoever else is storing, deleting or listening to the document.                  *)
UpsertsEnd == <>[](\A w \in Upserts : upsert[w].pc \in {"idle", "done"})
=============================================================================
