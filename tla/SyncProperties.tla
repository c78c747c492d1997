--------------------------- MODULE SyncProperties ---------------------------
(* What the sync document's handlers guarantee, and what they guarantee    *)
(* only when a user's PUTs do not overlap.                                 *)
EXTENDS SyncStore

TypeOK ==
  /\ rows \in [Users -> Seq(Row)]
  /\ holder \in [Users -> Requests \cup {NoRequest}]
  /\ request \in [Requests -> Request \cup {NoRequest}]
  /\ pc \in [Requests -> {"idle", "ensure", "load", "version", "update", "commit",
                          "send", "done"}]
  /\ current \in [Requests -> Int]
  /\ readAt \in [Requests -> Nat]
  /\ row \in [Requests -> Row]
  /\ status \in [Requests -> {"none", "ok", "not_modified", "conflict", "failed"}]
  /\ published \in [Users -> Seq(Event)]

-----------------------------------------------------------------------------
(* Under every interleaving.                                               *)

(* A committed PUT replaces exactly the domains it names: the other domains of the row *)
(* are those of the row committed just before it, whichever versions the two writers   *)
(* read.  (update_namespace sets one column; two devices that write different domains  *)
(* at once never undo each other's content.)                                           *)
OtherDomainsKept ==
  \A u \in Users : \A i \in 1 .. Len(rows[u]) :
    i > 1 =>
      /\ rows[u][i].by \in Requests
      /\ rows[u][i].data =
           [d \in Domains |-> IF d \in request[rows[u][i].by].domains
                                THEN rows[u][i].by ELSE rows[u][i-1].data[d]]

(* The answer tells the client what happened to its write: 200 means that exactly the  *)
(* returned row was committed to the caller's own document, 409 that nothing of the    *)
(* request ever was; and no request is ever applied twice or to another user's row.    *)
AnswersMatchTable ==
  /\ \A r \in Requests :
       (request[r] # NoRequest /\ IsWrite(r) /\ status[r] = "ok") =>
         \E i \in 1 .. Len(rows[User(r)]) : rows[User(r)][i] = row[r] /\ row[r].by = r
  /\ \A u \in Users : \A i \in 1 .. Len(rows[u]) :
       LET w == rows[u][i].by IN
       w # NoRequest =>
         /\ User(w) = u
         /\ status[w] # "conflict"
         /\ \A j \in 1 .. Len(rows[u]) : rows[u][j].by = w => j = i

(* A subscriber is told of a write only after it is durable, with the version it was   *)
(* stored under, and once; and a PUT is answered 200 only after its event was sent.    *)
(* (The converse fails: a commit whose handler is dropped is never announced.)         *)
EventsFollowCommits ==
  /\ \A u \in Users : \A k \in 1 .. Len(published[u]) :
       LET e == published[u][k] IN
       /\ \E i \in 1 .. Len(rows[u]) :
            rows[u][i].by = e.source /\ rows[u][i].version = e.version
       /\ \A m \in 1 .. Len(published[u]) : published[u][m].source = e.source => m = k
  /\ \A r \in Requests :
       (request[r] # NoRequest /\ IsWrite(r) /\ status[r] = "ok") =>
         \E k \in 1 .. Len(published[User(r)]) : published[User(r)][k].source = r

(* The exact condition under which the optimistic check means what it says: a PUT that *)
(* commits on the very row whose version it read steps the version by one, and its     *)
(* expected_version, when it sent one, was the version of that row.                    *)
UndisturbedWriteIsAtomic ==
  \A u \in Users : \A i \in 1 .. Len(rows[u]) :
    (i > 1 /\ rows[u][i].by \in Requests /\ readAt[rows[u][i].by] = i - 1) =>
      /\ rows[u][i].version = rows[u][i-1].version + 1
      /\ request[rows[u][i].by].version \in {Absent, rows[u][i-1].version}

(* The row lock is held by an open transaction of the row's own user and by no other:  *)
(* commit, rollback and a dropped handler all release it, so no PUT waits for ever.    *)
LocksReleased ==
  \A u \in Users, r \in Requests :
    (holder[u] = r) <=> (pc[r] = "commit" /\ User(r) = u)

-----------------------------------------------------------------------------
(* Only when a user's PUTs do not overlap (OneWriter).                     *)

(* "Each write increments a global version": the i-th write stores version i.          *)
VersionsCountWrites ==
  \A u \in Users : \A i \in 1 .. Len(rows[u]) : rows[u][i].version = i - 1

(* "If expected_version is provided and does not match current server version, server  *)
(* returns 409": a PUT answered 200 replaced the version it expected.                  *)
NoLostUpdate ==
  \A u \in Users : \A i \in 1 .. Len(rows[u]) :
    LET w == rows[u][i].by IN
    (w # NoRequest /\ status[w] = "ok") =>
      request[w].version \in {Absent, rows[u][i-1].version}

(* "304 Not Modified when unchanged": whoever was given version v of the document and  *)
(* now gets 304 for since_version = v still holds the current content.                 *)
NotModifiedMeansUnchanged ==
  [][\A r \in Requests :
       (status[r] # "not_modified" /\ status'[r] = "not_modified") =>
         \A i \in 1 .. Len(rows[User(r)]) :
           rows[User(r)][i].version = request[r].version =>
             rows[User(r)][i].data = CommittedRow(User(r)).data]_vars

(* Events leave in the order of the versions they announce, so a client that ignores   *)
(* events at or below its last synced version ignores none that is news to it.         *)
EventsInVersionOrder ==
  \A u \in Users : \A k, m \in 1 .. Len(published[u]) :
    k < m => published[u][k].version < published[u][m].version

(* The handlers implement the atomic document: a write takes effect at its commit.     *)
Applied(r) == \E i \in 1 .. Len(rows[User(r)]) : rows[User(r)][i].by = r

Document == INSTANCE SyncDocument WITH
  document <- [u \in Users |->
    IF rows[u] = <<>> THEN [version |-> 0, data |-> [d \in Domains |-> NoRequest]]
    ELSE [version |-> CommittedRow(u).version, data |-> CommittedRow(u).data]],
  outcome <- [r \in Requests |->
    IF pc[r] = "idle" THEN "open"
    ELSE IF Applied(r) THEN "applied"
    ELSE IF status[r] = "conflict" THEN "rejected"
    ELSE IF pc[r] = "done" THEN "closed" ELSE "open"]

ImplementsSyncDocument == Document!Spec
=============================================================================
