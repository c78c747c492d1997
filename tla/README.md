# Verification of any-player-sync-server

TLA+ models of the sync server (`src/`), TLC configurations that check them, and
TLAPS proofs. Source references below are relative to `src/`, so `src/db.rs:407`
is the file the repository calls `src/db.rs`.

## 1. Inventory of the system

The server is one Rust process (axum, tokio), possibly several replicas of it on
one PostgreSQL database. Replicas share nothing but the database.

| Component | Source | State | Operations | Correct when |
|---|---|---|---|---|
| Sync document | `db.rs` 268-595, `handlers.rs` 98-124, 290-337 | `user_sync_document`: per user one row of four JSON domains and a version | `GET/PUT /v1/snapshot`, `GET/PUT /v1/state/<ns>` | a PUT changes what it names and nothing else; 409 when the expected version is not the current one; versions count writes; answers say what happened |
| Live updates | `state.rs`, `ws.rs`, `handlers.rs` 339-348 | per process: map user -> broadcast channel (ring of 64); per connection: a receiver | `subscribe_user`, `send_user_event`, the WebSocket loop | no live listener is cut off; events arrive in order and are lost only to lag |
| Passage ingest queue | `passages/jobs.rs`, `worker.rs`, `api.rs` | `dj_ingest_jobs` | `enqueue`, `claim`, `process`, `finish`, quota | one worker per job within a lease; answers kept over retries; every job settles |
| Passage store | `passages/store.rs`, `schema.rs`, `api.rs` | `dj_documents`, `dj_chunks`, `dj_passage_plays` | `upsert_document`, `delete_document`, `candidates`, `record_plays` | chunks are those of the document's body; plays are kept as long as the passage; what was told is not told again within 30 days |
| Accounts and tokens | `db.rs` 217-266, 302-346, 597-802 | `users`, `auth_tokens` | create, disable, issue, revoke, authenticate, bootstrap | revoked and disabled credentials stay refused; someone can administrate |
| Schema migration | `db.rs` 43-215, `passages/schema.rs` | the tables | `ensure_schema`, `ensure` at every start | replicas may start at once; idempotent |
| Ranking, chunking | `passages/rank.rs`, `chunk.rs` | none kept; the loops' variables | `select`, `chunk` | budget, variety, exclusion, new before old; chunks fit the model and nothing of a body is lost |
| DJ facts | `dj_facts.rs` | `dj_facts`, `dj_fact_plays` | contribute, lookup, played | stored facts were confirmed; one row per fact, one play per event; what was told is not told again within 30 days |
| Fact verification | `dj_fact_sources.rs` | none kept | fetch, verify | an outage is not a rejection |
| Passage sources, HTTP client | `passages/sources/*`, `worker.rs` 40-107 | a rate limiter per host | fetch, `store_results` | outcomes say what happened; found means stored; few enough requests for the lease |
| Match keys | `match_keys.rs` | none | `artist_parts`, keys | - |
| Model and voice catalogs | `main.rs` 37-247, `handlers.rs` | immutable after start | info, download | - |
| Sync clients | external; `docs/app-integration.md` | `lastSyncedVersion`, a local copy | startup, write and realtime flows | replace nothing unseen; converge on the server's document |

Interactions: a PUT handler commits in the database and then calls
`send_user_event` of its own process; a WebSocket handler subscribes and hands the
receiver to the connection's task. A passage lookup reads the store and, when the
song is unknown, counts the quota and enqueues a job; a worker claims it, upserts
what the sources return into the store and finishes the job. A contributed fact is
checked against its source, by one request or two, before it is inserted. Devices
hold the sockets and snapshots of the document and write it. Administrators write
jobs, documents and accounts beside all of that.

What is hard: every handler is a series of database statements at READ COMMITTED
with awaits between them, in any interleaving with the others; a handler may be
dropped at any await (client hung up) and a process may stop between two
statements; the version check reads without a lock; events leave after the
commit; receivers lag; leases run out under a worker that is still at work; hash
and quota are checked long before they are used; sources fail, change between two
requests, or answer one language and not the other. `PROJECT.json` lists the
hazards at their lines with the properties that address them.

## 2. Modules

| Module | Models |
|---|---|
| `SyncDocument` | abstract: the document as one atomic value with a version |
| `SyncStore` | the four document handlers, one step per statement |
| `SyncProperties` | what they guarantee, and the refinement of `SyncDocument` |
| `LiveUpdates` | abstract: one queue of events per connection |
| `UserChannels` | the channel map and the WebSocket connections; implements `LiveUpdates` |
| `IngestJobs` | the ingest queue, its callers and its workers |
| `PassageSources` | what a worker does for one source of a job: scope, requests, storing, outcome |
| `PassageLibrary` | abstract: documents that change, and reports that are recorded, at one instant |
| `PassageStore` | documents, chunks and plays; implements `PassageLibrary` |
| `DjFacts` | contributing, verifying, telling and reporting facts |
| `SyncClients` | composes `SyncDocument` with devices and what their sockets can lose |
| `Accounts` | users and tokens: server starts, authentication, the admin handlers |
| `Chunking` | the loop of `chunk()` over the pieces of each body |
| `Ranking` | one call of `select()` |
| `Retrieval` | composes the two: bodies are chunked, a lookup selects among their chunks |
| `LiveUpdatesProofs` | the TLAPS proofs about `UserChannels` and `SyncClients` |
| `*Proofs` | those about `SyncStore`, `IngestJobs`, `PassageSources`, `PassageStore`, `DjFacts`, `Accounts`, `Retrieval` |
| `MC*` | TLC instances |

How they compose. `SyncStore` implements `SyncDocument` (run `sync_one_writer`, theorem
`StoreImplementsDocument`), and `SyncClients` uses `SyncDocument`'s actions as the server
its devices talk to, so that what devices see does not depend on statements and locks.
`UserChannels` implements `LiveUpdates` (run `channels`, theorem `ChannelsAreLiveUpdates`), whose
queues are the sockets of `SyncClients` (lemma `SocketsAreQueues`). `PassageStore` implements
`PassageLibrary` (run `passages`, theorem `StoreIsALibrary`).
`IngestJobs` takes a source's outcome as any of its values, which `PassageSources` then
explains; `PassageSources` takes the store's upsert by its effect on rows, which
`PassageStore` details. `Retrieval` puts `Chunking` before `Ranking`.

Definitions named "A bug for the mutant runs" are not part of the model. Each is a
plausible bug put in place of the definition that follows it, to show that a
property notices; `PROJECT.json` pairs them.

### SyncStore

`rows[u]` is the sequence of committed versions of a user's row: what a SELECT
sees is its last element. `holder[u]` is the transaction that has updated the row
and not ended. A request goes through `pc`: `ensure` (the INSERT ... ON CONFLICT DO
NOTHING, a transaction of its own), then `load` for a GET, or `version`, `update`,
`commit`, `send` for a PUT. The order in the code is exactly that; the early
return of the 409 is in `ReadVersion`. `Locking` is the only place that waits: an
UPDATE of a locked row. `ColumnsKept` reads the row as committed when the lock is
granted, not when the version was read, as PostgreSQL re-evaluates the row at READ
COMMITTED. `Fail` is an error of any statement, a dropped handler or a crash:
PostgreSQL rolls the open transaction back, and after the commit only the event
and the answer are lost. A domain's JSON is abstracted to the request that wrote
it, which is all the properties tell apart.

`OneWriter` is a switch on the environment: TRUE restricts arrivals so that a
user's PUTs never overlap. The code has nothing that enforces it. It separates
what holds always (run `sync_concurrent`) from what the API documents and the code
provides only without overlap (run `sync_one_writer`); run `sync_lost_update` shows
the difference.

### UserChannels

A channel is named after the connection that created it; `sent` is its whole
history, of which tokio's ring keeps the last `Capacity`. `SendUserEvent` is the
read-locked section and `Cleanup` the write-locked one of `send_user_event`:
between them anybody may subscribe. `Abandon` is the handler dropped while it
waits for the write lock. A connection is `subscribed` (receiver made, 101 not yet
out), `open` (in its `select!`), `writing` (awaiting the socket, deaf to the
client) or `closed`. `Stop` is the graceful shutdown: `AppContext` goes, and with it
all senders; connections drain what the ring holds and end. Versions and payloads
play no part: an event is the call that sent it.

`Updates` maps it to `LiveUpdates`: a connection listens while its receiver exists, and what is
to come for it is what its receiver has yet to take of its channel, at most the ring
(`ToCome`). An event that is being written to the socket has been taken: the ring no
longer holds it for this receiver.

### IngestJobs

Each SQL statement of `enqueue`, `claim` and `finish` is a step. Time is
abstracted to what the statements compare: `due` (next_attempt_at has come) and the
`age` of updated_at (within the lease, beyond it, beyond 30 days). `Lookup` reads the
quota and `AutoEnqueue` is the statement that uses it; the ghost `raced` records that
two lookups of a user were between the two at once. `Finish` stands for `process` and
`finish`: all pending sources are asked and each has an outcome. found and no_match are
one value, because neither the queue nor the worker tells them apart. `Crash` is a killed
process or a failed `finish`. `LeaseEnds` may fire while a worker is still at work; the
ghost `overrun` records that, and the safety properties are conditioned on its absence.
That is the assumption the comment at `src/passages/jobs.rs:123` makes ("far longer than
one job takes"), and `PassageSources` bounds what it rests on.

### PassageSources

The source is chosen at the start, and each behaves as its file says: what it searches
for, which hits it looks at and until when, which request follows which. A request is a
step and may be answered anything, a failure included (transient: no answer in time, 429,
5xx, a panic; permanent: any other status, a body too large, no JSON). Wikipedia's
languages are lanes that proceed in any order, and the first failure ends them all, as
`try_join_all` does. `ReadFreshness` is one statement of `scope_for`: other jobs write the
table meanwhile, so it may find anything. A document is its page, subject and credited
artist; `rows` says what this call made of a page's row: the keys of the document, or those
the row had (`Kept`), because an upsert of the same body only makes it fresh
(`src/passages/store.rs:32`). `StoreFails` ends with an error and with rows written.

`RequestsBounded` is the number of requests one lane makes. With the code's limits (a
credit of at most 16 parts, 5 hits, 2 works) MusicBrainz makes 16 * 6 + 2 = 98 at most, which
is well within the 30 minutes of a lease. Wikipedia makes 17 * (1 + `MaxTitles`), and `MaxTitles`
is no limit of the code: the search is asked for 5 (`srlimit` in the URL), but every matching
title of its answer is looked at (`src/passages/sources/wikipedia.rs:162`), as many as the body
holds. If the server keeps to the 5 these are 102 requests, 918 seconds at 8 seconds and the 1
second of spacing, half of a lease. Chunking and embedding what was found comes on top and is
not bounded by anything in the code.

### PassageStore

`upsert_document` is the unlocked hash check, the embedding (no step of its own,
only time between two steps), then one transaction: the upsert of the document row,
which takes its lock and waits for others, the rebuild of the chunks, the commit.
`delete_document` is one statement that waits for the same lock. `record_plays` is
one INSERT ... SELECT: its snapshot (`SelectPlayed`) may be older than its foreign
key check (`InsertPlays`), which waits for a transaction that is deleting the chunk
and fails the statement once it is gone. A play is `recent` or `old`: whether the 30 days
(`EXCLUSION_DAYS`) since its `played_at` are over, which is the client's time, so a report may
be of an old play (`InsertPlays` takes either age, and a repeated report changes no row). `Age`
is the end of the 30 days. `Lookup` takes any choice `select` could make of the passages the user
has not heard recently, those never heard first.

`Library` maps it to `PassageLibrary`, which knows of a document its text and the ids of its
passages, as a lookup sees them, and of an account which of the passages that exist it was
told, ever (`told`) and within 30 days (`recent`, which `Fade` shrinks). There a document is replaced at one instant and a report is recorded at one; here
these are the commit of the transaction and the `INSERT` of the plays.

### DjFacts

A fact stands for its fingerprint, and all of them are about one track, so that each
lookup may choose among them. `Contribute` is the checks that need no network;
`FetchSucceeds` and `FetchFails` are one request: Wikidata's facts take two, the entity and
then the labels of its performers, and what each was answered is remembered
(`read`, of which every part begins as `unread`), since the source may be edited in between.
`FetchFails` is a source that is out, which is asked again and then given up, or one that refuses. `Insert` is the one statement whose
`ON CONFLICT ... RETURNING` gives whoever comes second the row that is there. `InsertPlay`
and `ReadPlay` are the two statements of a report. `Answers` is what `lookup` may choose: facts
never told to the account, then those whose plays are all more than 30 days old. A client
that goes away takes its handler along, but not the statement under way.

### SyncClients

The devices are those of `docs/app-integration.md`: WebSocket, then snapshot; PUTs with the
version last synced with; a 409 or a newer event makes them fetch the snapshot; their own
events and old ones are ignored. A user's PUTs do not overlap (`Write` waits for those
under way): nothing in the code sees to that, but it is the condition under which the
handlers implement `SyncDocument`, and with overlap the atomic `PutNamespace` would
not be what they do. The document is `SyncDocument`; of a connection only what it
can lose is kept: `Keep` is the ring's last events, `Backlog` of them. `GiveUp` is an answer that
does not arrive: the handler was dropped before its commit, after it and before its event,
or with the answer under way, and the device does not know which. Two ghosts name
what the protocol cannot repair: `unsent`, versions no event was ever sent for, and
`unaware`, devices whose own write was applied and whose own event they ignore.

### Accounts

A user is its name (unique, never changed, never deleted). `users` and `tokens` are the
rows. A request arrives at a replica that is up, authenticates in one statement, which
also reads the flags `require_admin` and the disabled check look at, and executes its own
statement later, on whatever the tables have become; `create_token` is two statements. A
replica starts with `EnsureSchema` and `EnsureBootstrapAdmin`, one transaction each: what
they write is locked until the commit, and nothing of it is seen before, so each is one
step. `Crash` cuts off the requests of the replica between two statements. A document is its version
here; the legacy table is the constant `LegacyVersion`, and it is there at every start
because the code never drops it. Each request remembers which requests had been
answered when it arrived: the properties are about that order in real time.

### Chunking, Ranking, Retrieval

A text is its token counts: `upto[i + 1]` is the count of its first `i` pieces. The
tokenizer splits at blanks and adds no special tokens (`src/passages/embed.rs:108`), so
the count of joined pieces is the sum. Pieces are sentences within `MAX_TOKENS` or the
parts `split_oversized` makes of longer ones; how long each is, is any choice of
`PieceSizes`. `current`, `added` and `chunks` are the variables of the code, `current` as
the piece it starts at. `AddPiece` is one turn of the loop, as the composition of its
`if`s in their order; `EndOfBody` is what follows it.

`select` scores by embeddings, so `Consider` takes the remaining passages in any order
that puts those never played first, and whether a passage is a near duplicate is any
answer. The cap per document, the budget, `break` against `continue` and the three
empty answers are those of the code. `played` is the last play against the window of 30
days. `Retrieval` gives `select` the passages and counts that `chunk` produced, because
the budget depends on it: the first passage is taken unchecked.

## 3. Runs

| Run | Shows | Bounds |
|---|---|---|
| `sync_concurrent` | guarantees under every interleaving | 2 users, 3 requests, 2 domains, versions 0..1 |
| `sync_one_writer` | guarantees without overlapping PUTs; the handlers implement the atomic document | 1 user, 3 requests, versions 0..2 |
| `sync_lost_update` | violated: 409 on a stale expected version | 1 user |
| `channels` | the channels implement the live updates; delivery, order, catching up | 2 connections, 4 sends, capacity 2 |
| `channels_lagged` | violated: lagged clients are told | same |
| `ingest_jobs` | leases, retries, verdicts, the quota, kept answers, settling | 2 jobs, 2 sources, 2 workers, 2 calls, 2 faults, MaxAttempts 2, AutoLimit 1 |
| `sources` | outcomes are earned, found means stored, requests are bounded, fetches end | 6 sources, credits of 1 and 2 parts, 2 languages, 1 page, 2 titles, 3 hits, 2 works |
| `passages` | the store implements the library; chunks match bodies, answers show one version, no passage is told again within 30 days, upserts end | 1 document, 2 bodies (2 chunks and 1), 3 upserts, 1 deletion, 2 devices |
| `dj_facts` | facts are confirmed, racing reports agree, nothing is told again | 2 facts (one of Wikidata), 2 contributions, 2 reports, 2 users, 2 event ids, 1 retry |
| `sync_clients` | nothing unseen is replaced, same version same content, nobody is left behind, devices converge | 2 devices, 2 domains, 3 writes, capacity 1, 1 broken connection |
| `retrieval` | chunks fit and lose nothing; answers keep the budget and prefer new passages | bodies of 3 and 2 pieces, counts 1, 3, 5 and one too long, target 4, limit 5, budget 9, 2 per document |
| `accounts` | orders about credentials hold, credentials work, the legacy document is kept | 3 users, 2 tokens, 2 replicas of which one bootstraps, 2 starts, 3 requests of 9 kinds |

Why the bounds are enough. A race on the document needs two writers and a reader or
a third writer to see the result; users share no state, a second one is there to
show that answers and locks do not cross. A subscription racing a cleanup needs one
call and two connections; lag needs more sends than the capacity by two. The queue's
rows interact only through the quota, which two jobs and a limit of one exhaust; a takeover
needs two workers, and two faults are a crash and the overrun of the lease that follows, or
two crashes. A source's loop over hits, parts or works is entered, continued and left with
two of each; whether one language's failure hides the other's needs two languages. In the
store, one upsert puts the document there and two more race to replace it. Two
contributions race for one fact and two reports for one event id; one retry shows
both that a 503 is asked again and that it ends. Of three writes the first makes a version
to be stale of, the other two come from different devices; capacity 1 makes every second
event a lag. Three requests are the shortest story about a credential (issue it, withdraw
it, use it), a disabling and an enabling that overlap need no more, and two starts show what
the second does to the first's rows. The limit of a chunk is one above its target and the
counts lie on both sides of either, so that every `if` of `chunk` is taken both ways; three
chunks of one document exceed the cap of two, and two passages can exceed the budget. The
proofs do without these bounds. Symmetry is used only in runs without liveness.

A violation run reports a disagreement between the code and what a comment, a test
or a document says of it; the findings in `PROJECT.json` quote the line.

Deadlock checking is off: every model ends when its finitely many requests, calls
or sends are used up.

### Further disagreements

These came up while modelling and have no run of their own.

- The quota of automatic jobs is read before it is used (`src/passages/api.rs:153`): two
  lookups of a user that overlap may both pass. `QuotaRespected` holds up to that, which is
  what `raced` is for.
- Two upserts of one document with the same new body both rebuild its chunks, and the plays
  of the first's go with them: the test `upsert_rebuilds_chunks_only_when_body_changes`
  (`src/passages/store.rs:243`) holds for upserts one after the other.
- A forced `enqueue` whose job finishes between the UPDATE that did not match it and the
  SELECT of its status (`src/passages/jobs.rs:99`) is answered `recently_done`, and nothing
  is queued; an administrator can only repeat the call.
- With overlapping PUTs (`OneWriter = FALSE`) two commits may carry the same version, and
  then a device can stay behind: it ignores the event of the second as old. `SyncClients`
  leaves that out.
- The lease is "far longer than one job takes" (`src/passages/jobs.rs:123`) only as long as
  Wikipedia's search answers with the 5 titles it is asked for
  (`src/passages/sources/wikipedia.rs:158`): more are all fetched.
- `join_concat`'s comment (`src/passages/sources/wikipedia.rs:231`) calls its short circuit the
  same as awaiting in sequence: the error that comes first in time decides, so that
  a permanent error of one language can end a fetch in which another was about to be
  transient, and the source counts as answered.
- Artist documents of Wikipedia are fetched under the artists a credit names, never under
  the whole credit, while `scope_for` also asks whether the whole credit is fresh: for a
  credit of several artists it never is, against the comment at
  `src/passages/sources/mod.rs:24`.
- The fingerprint of a fact keeps Unicode dashes that `match_key` folds: one fact
  contributed with two kinds of dash is two facts.

### Fairness

- `UserChannels`: each connection's task is polled and its client reads. The first is
  the runtime's; the second is an assumption: nothing in the code times out a client
  that does not read (`src/ws.rs:21`), and then its task waits for ever.
- `IngestJobs`: workers loop without end (`src/passages/worker.rs:23`), and clocks move on.
  Nothing forces a call, a fault or the 30 days.
- `PassageSources`: whatever the worker awaits ends. A request ends, in every lane, by its
  answer or by the 8 seconds of `src/passages/sources/http.rs:47`, once it has its turn, and the
  rate limiter gives turns in order; a statement, and the row lock it may wait for, by its
  answer or an error; the embedding is a computation on a thread of its own.
- `PassageStore`: a started upsert is run on and PostgreSQL grants a free lock.
- `SyncClients`: requests are answered and devices go on with what they have begun.
  Nothing makes a device write, and connections break `MaxDrops` times at most: a device
  that is cut off again and again need not converge.
- Safety runs use no fairness.

## 4. Proofs

Every theorem holds for all values of the constants that satisfy the named assumptions of
the module it is about (mostly that `None`, `Absent` and the like are none of the values they
stand beside, and that limits are natural numbers). Where there is an inductive invariant
it is called `IInv`, one lemma per action shows that it is kept, and the theorems follow from it.
All safety properties, action properties and refinements of the passing runs are proved.

### SyncStore

Proved of any interleaving: `StoreOtherDomainsKept`, `StoreAnswersMatchTable`, `StoreUndisturbedWriteIsAtomic`, `StoreEventsFollowCommits`,
`StoreLocksReleased`. Proved if PUTs of a user do not overlap (`ASSUME OneWriter`):
`StoreVersionsCountWrites`, `StoreEventsInVersionOrder`, `StoreNoLostUpdate`,
`StoreNotModified`, and the refinement `StoreImplementsDocument`.

The argument. The properties are not inductive: that a commit leaves other domains
alone depends on what the pending row was computed from, and that on who holds the
lock. `IInv` adds five facts: a request that has arrived is well formed
(`RequestsWellFormed`); a row read is a committed row (`ReadsRemembered`); the pending
row of the lock's holder is the last committed row with the holder's domains replaced,
which stays true because nobody else can commit while the lock is held (`PendingRows`);
a committed row's writer has passed its commit, so nobody commits twice
(`RowsHaveWriters`); and a request past its commit has exactly its row in the table
(`CommittedWrites`). One lemma per action shows that `IInv` is kept. `EInv` extends it
for the events: each announces a committed row of a request past `send`
(`EventsHaveSources`), and a 200 implies its event (`OkAnnounced`).

Without overlap, `OInv` adds that one PUT of a user is under way at most (`OnePut`: it is
what the environment's restriction gives), and so that the row a PUT has read is still the
last when it commits, and its own row still the last when its event leaves (`Undisturbed`).
From there versions count writes, because each is one more than the last; an
expected version is that of the row replaced; and each event is newer than those before.
For the refinement the mapped variables have names of their own (`Documents`, `Outcomes`):
an arrival is a `Submit`; the commit is an `Apply`; a 409 is a `Reject`; an answered read or
a failure before the commit is a `Close`; and everything else, the event and a failure
after the commit included, changes neither.

### UserChannels

`NoListenerIsCutOff`, `EventsAreAccountedFor`, and the refinement `ChannelsAreLiveUpdates`.
`ListenersAreMapped` is nearly inductive by
itself: a cleanup removes a channel only if it sees no receiver under the write lock, and a
subscription makes its receiver under the same lock. Accounting needs to know where
each task is: what was written or skipped is behind its cursor, which is between the
subscription and the end of the channel (`Progress`), and the event being written is
counted once (`Taken`).

For the refinement `RInv` adds that a channel is only ever listened to by connections of the
user it was made for (`Owned`), without which an event would reach a stranger, and that a
call that has not begun has no user yet (`Uncalled`). A send appends to one channel: for
every connection listening there, that appends to what is to come and drops the oldest if
that is more than the ring holds (`SentIsKept`, over the arithmetic of `FirstFacts`: where the
queue begins is the cursor or the start of the ring, whichever is later). A receive takes
the first (`TakenIsFirst`); a `Lagged` error only moves the cursor to where the queue begins
already, so it is a stutter (`LaggedKeepsPending`), and so are the cleanup, the upgrade, the
write to the socket and the shutdown.

### SyncClients

For any devices, domains, requests and capacity, where a user's PUTs do not overlap:
`DevicesAgree`, `NothingUnseen`, `DevicesGoForward` (no device goes back to an older version)
and `NobodyIsLeft`. They say nothing of PUTs that overlap, for then the server may store one
version twice, with different contents (run `sync_lost_update`).

The argument. `SameVersionSameContent` says nothing of the answers and events on their way, so
it is not inductive. `CInv` speaks of history instead: there is a function that gives the
content of the document at each version it has had; the document, what every device holds
and every snapshot that was answered agree with it at their versions, and nothing is of a
version that has not been yet. A PUT extends the function at one new point, which is why
no older copy is disturbed; that a version has not been yet follows from versions counting the
PUTs applied (`VersionsCountWrites`). The rest of `CInv` says where a device is: the request it has
under way is its own, open, and of the version it holds (`Writing`); a PUT that was
answered is one version newer than its device, with the content the device is about to
compute itself (`Answered`); a socket is open but for a device that is off (`Started`).

`NobodyIsLeftBehind` is the safety that convergence rests on, and needs to know which event is
lost: a ring that drops its oldest event never drops the one of the newest version.
`OneAtATime` (one PUT is between its start and its event) gives `SendsTheNewest`: whoever is about
to send an event sends that of the current version. `Informed` is the property by device.
Its excuses name what the protocol cannot repair: an event that was never sent, and a
device that never learned of its own write.

### IngestJobs

`OneHolder`, `VerdictsEarned`, `QuotaHolds`, `AnswersAreKept`. While no lease ran out under a
worker (`Leased`), the row is as its one holder claimed it, and a running row nobody holds
has cost a fault: that is what keeps attempts within `MaxAttempts + faults`. A lookup
that is about to insert and that nothing raced with has room in the quota (`HasRoom`); the
jobs made so far are finitely many, so that they can be counted.

### PassageSources

`OutcomesAreEarned`, `FetchIsBounded`, `DocumentsAreStored`. `OnBudget` bounds the requests of a
lane: those made and those its stage may still make (`Ahead`) are within those of the
targets up to the present one (`Through`); going to the next target, the least one in scope
(which exists because numbers are well founded), makes a new allowance. `Aimed` says that a
lane works on a subject in scope, and `Written` that the documents up to `stored` are in the
table and that every row this call touched has a key of a document or its old one.

### PassageStore

`WholeDocuments`, `PlayedIsNotOffered`, and the refinement `StoreIsALibrary`. The lock of a row belongs to the
one open transaction on it (`LocksHeld`); therefore what that transaction read of the
document is still so when it commits (`TransactionsCurrent`). Ids are of calls that have
ended and are never used again (`Origins`), so a chunk of an answer that exists is the one
that was offered; and a device whose report was answered has a play of each passage of its
answer that still exists, recent or old (`OffersRemembered`). That `Lookup` leaves out what has
any recent play, whichever device reported it, does the rest.

For the refinement `LInv` adds what a listener has to do with its offer (`Noted`). A commit is a
`Replace`: because deleting by id deletes the chunks of the one document (`DeletedById`), the
document's passages afterwards are those of the new text, and no other's changed; a
deletion is a `Remove`. A report's `INSERT` is a `Record` although its rows were chosen by an
earlier snapshot: if all of these still exist they are everything the device was offered
and that exists, since no passage ever comes back, and otherwise the foreign key lets
nothing be recorded. All other steps change nothing the library knows of.

### DjFacts

`OnlyConfirmedFacts`, `ReportsAgree`, `FactsAreNotToldAgain`. A row's contribution has ended and
has read support from every part (`Confirmed`); a contribution that is about to insert is
supported, and its answer, once given, stays true, since rows never go away (`Truthful`). Whatever
comes before the request under way was answered (`Reading`), so that a good contribution is
rejected for what was read, or for a refusal, and never for a source that is out. A
report that inserted nothing of a fact that was known has met another play under its event
id, which no one can remove (`ReportSound`).

### Accounts

`OrdersHold`, `NobodyIsLockedOut`, `LegacyIsKept`. `OrdersOK`: an order that was carried out
is still in force, for nothing revives a token but the bootstrap, and nobody enables a user but
by an order, which then is not older. `RowsOK` is the converse: what is revoked or disabled
was so by an order. `Obeyed` carries the refusal from the one statement of
authentication to the answer. `DocumentOK` counts the default user's writes: its version is
the legacy one and those.

### Retrieval

All five invariants of run `retrieval`, for any documents and bodies, any limits and any
history of plays. `TextInv` is the loop invariant of `chunk`: what `current` holds follows the
last chunk, with the overlap or without it, and without it only because it did not fit
(`CurrentFollows`); it never exceeds the limit; every chunk was closed for one of the two
reasons (`ClosedWell`). Between the reading of a piece and its push the loop leaves it
half-way, so `Base(t, p)` states it for the first `p` pieces, and there is one lemma per
`if` of the loop. `Increasing` makes the counts natural numbers, which is what the
budget needs from `chunk`. `RankInv` adds to the properties of an answer that an old passage is chosen
only when no new one is left (`NewFirst`), and that until the budget ends the selection
nothing new is out without a reason (`Accounted`).

### Only model-checked

All liveness (`ListenersCatchUp`, `JobsSettle`, `FetchEnds`,
`UpsertsEnd`, `DevicesConverge`). Out of the prover's reach: liveness under fairness, ENABLED,
induction over data, recursive operators (the models have none).

## 5. Not modelled

- The embedding model: numeric inference, neither state nor control.
- The text predicates of fact verification and of the sources (does this page name that
  artist, does the sentence support the claim): the models take any answer.
- Match keys but for the number of parts of a credit: string normalisation.
- Model and voice catalogs (immutable after start), configuration and routing, the static
  admin pages.
- The DDL and the rewriting of dash variants in `ensure_schema`, `schema.rs`: of a start, the
  models keep the transaction, the legacy document and the bootstrap.
- `list_users`, `list` and `misses` only read. `last_used_at` of tokens and timestamps of
  rows (but ages that statements compare) decide nothing modelled here.
- Which passages and facts match a track, and their scores: any choice the code could
  make is taken.

## 6. Plan

Done: 1. `SyncStore` with its properties, refinement and proofs; 2. `UserChannels`;
3. `IngestJobs`; 4. `PassageStore`; 5. `Chunking`, `Ranking`, `Retrieval`; 6. `Accounts`;
7. `DjFacts`; 8. `PassageSources`; 9. `SyncClients`; 10. the proofs of all of them;
11. the abstract `LiveUpdates` and `PassageLibrary`, with the refinements as runs and theorems.

Left, in this order:

12. `candidates` with its tiers of match keys, in `PassageStore`.
13. The migration of fact keys at a start, racing contributions of another replica.
