----------------------------- MODULE SyncStore -----------------------------
(***************************************************************************)
(* The per-user sync document (table user_sync_document) and the four      *)
(* HTTP handlers on it, one step per database statement.                   *)
(*                                                                         *)
(* PostgreSQL at READ COMMITTED, as the code uses it: a SELECT sees the    *)
(* last committed version of a row and takes no lock; an UPDATE waits for  *)
(* the row's lock, works on the row as last committed, and keeps the lock  *)
(* until the transaction commits or rolls back.  rows[u] is the sequence   *)
(* of committed versions of u's row, oldest first.                         *)
(*                                                                         *)
(* The content of a domain is abstracted to the request that wrote it      *)
(* (NoRequest: the JSON default the row is created with).                  *)
(***************************************************************************)
EXTENDS Integers, Sequences

CONSTANTS
  Users,
  Domains,    \* app_state, playlists, provider_configuration, settings
  Requests,   \* HTTP requests; each arrives at most once
  NoRequest,
  Versions,   \* the numbers clients send as expected_version or since_version
  Absent,     \* the optional version left out of a request
  OneWriter   \* TRUE: a user's PUTs never overlap; FALSE: any interleaving

VARIABLES
  rows,       \* rows[u]: the committed versions of u's row
  holder,     \* holder[u]: the request whose transaction holds the row lock
  request,    \* request[r]: what r asks for; NoRequest before it arrives
  pc,         \* pc[r]: the statement the handler of r is about to run
  current,    \* current[r]: the version read by the transaction of r
  readAt,     \* readAt[r]: ghost, Len(rows[u]) when r read it
  row,        \* row[r]: the row r wrote or loaded
  status,     \* status[r]: the HTTP answer
  published   \* published[u]: events passed to send_user_event, in order

vars == <<rows, holder, request, pc, current, readAt, row, status, published>>

Content == [Domains -> Requests \cup {NoRequest}]
Row == [by : Requests \cup {NoRequest}, version : Int, data : Content]
Ops == {"get_snapshot", "get_namespace", "put_namespace", "put_snapshot"}
Request == [user : Users, op : Ops, domains : SUBSET Domains,
            version : Versions \cup {Absent}]

ASSUME NoRequestAssumption == NoRequest \notin Requests \cup Request
ASSUME VersionsAssumption == Versions \subseteq Int /\ Absent \notin Int
ASSUME OneWriterAssumption == OneWriter \in BOOLEAN

Event == [domains : SUBSET Domains, version : Int, source : Requests]

Blank == [by |-> NoRequest, version |-> 0, data |-> [d \in Domains |-> NoRequest]]

IsWrite(r) == request[r].op \in {"put_namespace", "put_snapshot"}
User(r) == request[r].user
CommittedRow(u) == rows[u][Len(rows[u])]
WriteInFlight(u) ==
  \E r \in Requests : /\ pc[r] \notin {"idle", "done"}
                      /\ User(r) = u /\ IsWrite(r)

Init ==
  /\ rows = [u \in Users |-> <<>>]
  /\ holder = [u \in Users |-> NoRequest]
  /\ request = [r \in Requests |-> NoRequest]
  /\ pc = [r \in Requests |-> "idle"]
  /\ current = [r \in Requests |-> 0]
  /\ readAt = [r \in Requests |-> 0]
  /\ row = [r \in Requests |-> Blank]
  /\ status = [r \in Requests |-> "none"]
  /\ published = [u \in Users |-> <<>>]

-----------------------------------------------------------------------------
(* Handlers: an authenticated request arrives.                             *)

Arrive(r, q) ==
  /\ pc[r] = "idle"
  /\ request' = [request EXCEPT ![r] = q]
  /\ pc' = [pc EXCEPT ![r] = "ensure"]
  /\ UNCHANGED <<rows, holder, current, readAt, row, status, published>>

GetSnapshot(r) ==
  \E u \in Users, since \in Versions \cup {Absent} :
    Arrive(r, [user |-> u, op |-> "get_snapshot", domains |-> Domains, version |-> since])

GetNamespace(r) ==
  \E u \in Users, d \in Domains :
    Arrive(r, [user |-> u, op |-> "get_namespace", domains |-> {d}, version |-> Absent])

PutSnapshot(r) ==
  \E u \in Users, expected \in Versions \cup {Absent} :
    /\ OneWriter => ~WriteInFlight(u)
    /\ Arrive(r, [user |-> u, op |-> "put_snapshot", domains |-> Domains,
                  version |-> expected])

PutNamespace(r) ==
  \E u \in Users, d \in Domains, expected \in Versions \cup {Absent} :
    /\ OneWriter => ~WriteInFlight(u)
    /\ Arrive(r, [user |-> u, op |-> "put_namespace", domains |-> {d},
                  version |-> expected])

-----------------------------------------------------------------------------
(* Statements shared by the handlers.                                      *)

AfterEnsure(r) == IF IsWrite(r) THEN "version" ELSE "load"

(* A bug for the mutant runs: ON CONFLICT DO UPDATE instead of DO NOTHING. *)
EnsureResetsTheRow(r) ==
  /\ pc[r] = "ensure"
  /\ rows' = [rows EXCEPT ![User(r)] = Append(@, Blank)]
  /\ pc' = [pc EXCEPT ![r] = AfterEnsure(r)]
  /\ UNCHANGED <<holder, request, current, readAt, row, status, published>>

(* INSERT ... ON CONFLICT (user_id, id) DO NOTHING, in its own transaction. *)
EnsureUserDocument(r) ==
  /\ pc[r] = "ensure"
  /\ rows' = [rows EXCEPT ![User(r)] = IF @ = <<>> THEN <<Blank>> ELSE @]
  /\ pc' = [pc EXCEPT ![r] = AfterEnsure(r)]
  /\ UNCHANGED <<holder, request, current, readAt, row, status, published>>

(* A bug for the mutant runs: the comparison off by one. *)
NotModifiedOffByOne(version, since) == since # Absent /\ version <= since + 1

NotModified(version, since) == since # Absent /\ version <= since

LoadSnapshot(r) ==
  LET seen == CommittedRow(User(r)) IN
  /\ pc[r] = "load"
  /\ row' = [row EXCEPT ![r] = seen]
  /\ status' = [status EXCEPT ![r] =
       IF NotModified(seen.version, request[r].version) THEN "not_modified" ELSE "ok"]
  /\ pc' = [pc EXCEPT ![r] = "done"]
  /\ UNCHANGED <<rows, holder, request, current, readAt, published>>

-----------------------------------------------------------------------------
(* The transaction of a PUT.                                               *)

Conflict(expected, version) == expected # Absent /\ expected # version

(* A bug for the mutant runs: the expected version is never compared. *)
ReadVersionUnchecked(r) ==
  LET u == User(r) IN
  /\ pc[r] = "version"
  /\ current' = [current EXCEPT ![r] = CommittedRow(u).version]
  /\ readAt' = [readAt EXCEPT ![r] = Len(rows[u])]
  /\ pc' = [pc EXCEPT ![r] = "update"]
  /\ UNCHANGED <<rows, holder, request, row, status, published>>

(* A bug for the mutant runs: the 409 is answered and the handler goes on. *)
ReadVersionWithoutReturn(r) ==
  LET u == User(r)
      version == CommittedRow(u).version
  IN  /\ pc[r] = "version"
      /\ current' = [current EXCEPT ![r] = version]
      /\ readAt' = [readAt EXCEPT ![r] = Len(rows[u])]
      /\ status' = [status EXCEPT ![r] =
           IF Conflict(request[r].version, version) THEN "conflict" ELSE @]
      /\ pc' = [pc EXCEPT ![r] = "update"]
      /\ UNCHANGED <<rows, holder, request, row, published>>

(* SELECT version (no FOR UPDATE), then the optimistic check. *)
ReadVersion(r) ==
  LET u == User(r)
      version == CommittedRow(u).version
  IN  /\ pc[r] = "version"
      /\ current' = [current EXCEPT ![r] = version]
      /\ readAt' = [readAt EXCEPT ![r] = Len(rows[u])]
      /\ IF Conflict(request[r].version, version)
           THEN /\ pc' = [pc EXCEPT ![r] = "done"]
                /\ status' = [status EXCEPT ![r] = "conflict"]
           ELSE /\ pc' = [pc EXCEPT ![r] = "update"]
                /\ UNCHANGED status
      /\ UNCHANGED <<rows, holder, request, row, published>>

(* A bug for the mutant runs: SET of every column, from the row as it was at the SELECT. *)
StaleColumnsKept(r) ==
  [d \in Domains |->
     IF d \in request[r].domains THEN r ELSE rows[User(r)][readAt[r]].data[d]]

(* SET names the written columns only; the others are those of the locked row. *)
ColumnsKept(r) ==
  [d \in Domains |->
     IF d \in request[r].domains THEN r ELSE CommittedRow(User(r)).data[d]]

(* A bug for the mutant runs: the read version is written back. *)
SameVersion(r) == current[r]

NewVersion(r) == current[r] + 1

Locking(r) ==
  /\ pc[r] = "update"
  /\ holder[User(r)] = NoRequest
  /\ holder' = [holder EXCEPT ![User(r)] = r]
  /\ pc' = [pc EXCEPT ![r] = "commit"]
  /\ UNCHANGED <<rows, request, current, readAt, status, published>>

UpdateNamespace(r) ==
  /\ Locking(r)
  /\ request[r].op = "put_namespace"
  /\ row' = [row EXCEPT ![r] =
       [by |-> r, version |-> NewVersion(r), data |-> ColumnsKept(r)]]

ReplaceSnapshot(r) ==
  /\ Locking(r)
  /\ request[r].op = "put_snapshot"
  /\ row' = [row EXCEPT ![r] =
       [by |-> r, version |-> NewVersion(r), data |-> [d \in Domains |-> r]]]

Notice(r) == [domains |-> request[r].domains, version |-> row[r].version, source |-> r]

(* A bug for the mutant runs: the event leaves before the commit. *)
AnnounceThenCommit(r) ==
  \/ /\ pc[r] = "commit"
     /\ published' = [published EXCEPT ![User(r)] = Append(@, Notice(r))]
     /\ pc' = [pc EXCEPT ![r] = "announced"]
     /\ UNCHANGED <<rows, holder, request, current, readAt, row, status>>
  \/ /\ pc[r] = "announced"
     /\ rows' = [rows EXCEPT ![User(r)] = Append(@, row[r])]
     /\ holder' = [holder EXCEPT ![User(r)] = NoRequest]
     /\ status' = [status EXCEPT ![r] = "ok"]
     /\ pc' = [pc EXCEPT ![r] = "done"]
     /\ UNCHANGED <<request, current, readAt, row, published>>

Commit(r) ==
  /\ pc[r] = "commit"
  /\ rows' = [rows EXCEPT ![User(r)] = Append(@, row[r])]
  /\ holder' = [holder EXCEPT ![User(r)] = NoRequest]
  /\ pc' = [pc EXCEPT ![r] = "send"]
  /\ UNCHANGED <<request, current, readAt, row, status, published>>

(* send_user_event, then the 200. *)
SendUserEvent(r) ==
  /\ pc[r] = "send"
  /\ published' = [published EXCEPT ![User(r)] = Append(@, Notice(r))]
  /\ status' = [status EXCEPT ![r] = "ok"]
  /\ pc' = [pc EXCEPT ![r] = "done"]
  /\ UNCHANGED <<rows, holder, request, current, readAt, row>>

-----------------------------------------------------------------------------
(* A database error, a dropped handler future (the client hung up) or a    *)
(* server crash: an open transaction rolls back; after the commit only the *)
(* event and the answer are lost.                                          *)

InFlight(r) == pc[r] \notin {"idle", "done"}

(* A bug for the mutant runs: the connection goes back with its transaction open. *)
FailWithoutRollback(r) ==
  /\ InFlight(r)
  /\ status' = [status EXCEPT ![r] = "failed"]
  /\ pc' = [pc EXCEPT ![r] = "done"]
  /\ UNCHANGED <<rows, request, holder, current, readAt, row, published>>

Fail(r) ==
  /\ InFlight(r)
  /\ status' = [status EXCEPT ![r] = "failed"]
  /\ pc' = [pc EXCEPT ![r] = "done"]
  /\ holder' = [u \in Users |-> IF holder[u] = r THEN NoRequest ELSE holder[u]]
  /\ UNCHANGED <<rows, request, current, readAt, row, published>>

Step(r) ==
  \/ EnsureUserDocument(r)
  \/ LoadSnapshot(r)
  \/ ReadVersion(r)
  \/ UpdateNamespace(r)
  \/ ReplaceSnapshot(r)
  \/ Commit(r)
  \/ SendUserEvent(r)

Next ==
  \E r \in Requests :
    \/ GetSnapshot(r)
    \/ GetNamespace(r)
    \/ PutSnapshot(r)
    \/ PutNamespace(r)
    \/ Step(r)
    \/ Fail(r)

(* Every request that arrived is run by the tokio runtime until it ends, and PostgreSQL *)
(* grants a free row lock.  Nothing makes a request arrive or fail.                     *)
Fairness == \A r \in Requests : WF_vars(Step(r))

Spec == Init /\ [][Next]_vars
FairSpec == Spec /\ Fairness
=============================================================================
