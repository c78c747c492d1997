--------------------------- MODULE SyncStoreProofs ---------------------------
(* The invariants of SyncStore hold for any set of users, domains, requests and version *)
(* numbers, under every interleaving (whatever OneWriter is).                           *)
EXTENDS SyncProperties, TLAPS

(* What a request asks for agrees with the handler that accepted it and with where the  *)
(* handler is.                                                                          *)
RequestsWellFormed ==
  \A r \in Requests :
    /\ pc[r] = "idle" <=> request[r] = NoRequest
    /\ pc[r] # "done" => status[r] = "none"
    /\ pc[r] \in {"version", "update", "commit", "send"} => IsWrite(r)
    /\ pc[r] = "load" => ~IsWrite(r)
    /\ (pc[r] # "idle" /\ request[r].op = "put_snapshot") => request[r].domains = Domains
    /\ pc[r] \in {"load", "version", "update", "commit", "send"} => rows[User(r)] # <<>>

(* What a transaction knows after its SELECT: some committed row had the version it     *)
(* read, and its expected_version, if any, was that version.                            *)
HasRead(r) ==
  /\ readAt[r] \in 1 .. Len(rows[User(r)])
  /\ current[r] = rows[User(r)][readAt[r]].version
  /\ request[r].version \in {Absent, current[r]}

ReadsRemembered ==
  \A r \in Requests : pc[r] \in {"update", "commit", "send"} => HasRead(r)

(* What the holder of the row lock is about to commit.                                  *)
PendingRows ==
  \A r \in Requests :
    pc[r] = "commit" =>
      row[r] = [by |-> r, version |-> current[r] + 1,
                data |-> [d \in Domains |->
                            IF d \in request[r].domains THEN r
                            ELSE CommittedRow(User(r)).data[d]]]

(* Where the committed row i of u comes from.                                           *)
RowHasWriter(u, i) ==
  LET w == rows[u][i].by IN
  /\ w \in Requests
  /\ pc[w] \in {"send", "done"}
  /\ IsWrite(w)
  /\ User(w) = u
  /\ status[w] # "conflict"
  /\ HasRead(w)
  /\ readAt[w] < i
  /\ rows[u][i].version = current[w] + 1
  /\ row[w] = rows[u][i]
  /\ \A j \in 1 .. Len(rows[u]) : rows[u][j].by = w => j = i

RowsHaveWriters ==
  \A u \in Users :
    /\ rows[u] # <<>> => rows[u][1] = Blank
    /\ \A i \in 1 .. Len(rows[u]) : i > 1 => RowHasWriter(u, i)

(* A write whose commit succeeded has its row in the table.                             *)
CommittedWrites ==
  \A r \in Requests :
    (pc[r] = "send" \/ (pc[r] = "done" /\ IsWrite(r) /\ status[r] = "ok")) =>
      \E i \in 1 .. Len(rows[User(r)]) : rows[User(r)][i] = row[r] /\ row[r].by = r

IInv ==
  /\ TypeOK
  /\ RequestsWellFormed
  /\ LocksReleased
  /\ ReadsRemembered
  /\ PendingRows
  /\ RowsHaveWriters
  /\ OtherDomainsKept
  /\ CommittedWrites

-----------------------------------------------------------------------------
LEMMA AppendFacts ==
  ASSUME NEW S, NEW s \in Seq(S), NEW e \in S
  PROVE  /\ Append(s, e) \in Seq(S)
         /\ Len(Append(s, e)) = Len(s) + 1
         /\ \A i \in 1 .. Len(s) : Append(s, e)[i] = s[i]
         /\ Append(s, e)[Len(s) + 1] = e
         /\ Append(s, e) # <<>>
         /\ Len(s) \in Nat
OBVIOUS

(* The initial state has no rows and no request. *)
LEMMA InitIInv == Init => IInv
<1>. SUFFICES ASSUME Init PROVE IInv
  OBVIOUS
<1>1. TypeOK
  <2>1. Blank \in Row
    BY DEF Blank, Row, Content
  <2>. QED
    BY <2>1 DEF Init, TypeOK
<1>2. RequestsWellFormed
  BY DEF Init, RequestsWellFormed
<1>3. LocksReleased
  BY NoRequestAssumption DEF Init, LocksReleased
<1>4. ReadsRemembered /\ PendingRows
  BY DEF Init, ReadsRemembered, PendingRows
<1>5. RowsHaveWriters /\ OtherDomainsKept
  BY DEF Init, RowsHaveWriters, OtherDomainsKept
<1>6. CommittedWrites
  BY DEF Init, CommittedWrites
<1>. QED
  BY <1>1, <1>2, <1>3, <1>4, <1>5, <1>6 DEF IInv

(* Requests other than r are where they were. *)
OthersUnchanged(r) ==
  \A s \in Requests : s # r =>
    /\ request'[s] = request[s]
    /\ pc'[s] = pc[s]
    /\ current'[s] = current[s]
    /\ readAt'[s] = readAt[s]
    /\ row'[s] = row[s]
    /\ status'[s] = status[s]

(* What the table says of its rows survives a step that does not touch the table, of a  *)
(* request that has not committed.                                                      *)
LEMMA TableUntouched ==
  ASSUME IInv, NEW r \in Requests, OthersUnchanged(r), rows' = rows,
         pc[r] \notin {"send", "done"}
  PROVE  RowsHaveWriters' /\ OtherDomainsKept'
<1>1. \A u \in Users : \A i \in 1 .. Len(rows[u]) :
        i > 1 => rows[u][i].by \in Requests /\ rows[u][i].by # r
  BY DEF IInv, RowsHaveWriters, RowHasWriter
<1>2. ASSUME NEW u \in Users, NEW i \in 1 .. Len(rows[u]), i > 1
      PROVE  RowHasWriter(u, i)'
  <2>1. PICK w \in Requests : w = rows[u][i].by /\ w # r
    BY <1>1, <1>2
  <2>2. RowHasWriter(u, i)
    BY <1>2 DEF IInv, RowsHaveWriters
  <2>3. HasRead(w)'
    BY <2>1, <2>2 DEF RowHasWriter, OthersUnchanged, HasRead, User
  <2>. QED
    BY <2>1, <2>2, <2>3 DEF RowHasWriter, OthersUnchanged, IsWrite, User
<1>3. RowsHaveWriters'
  BY <1>2 DEF IInv, RowsHaveWriters
<1>4. \A w \in Requests : w # r => request'[w] = request[w]
  BY DEF OthersUnchanged
<1>5. ASSUME NEW u \in Users, NEW i \in 1 .. Len(rows[u]), i > 1
      PROVE  /\ rows[u][i].by \in Requests
             /\ rows[u][i].data = [d \in Domains |->
                                    IF d \in request'[rows[u][i].by].domains
                                    THEN rows[u][i].by
                                    ELSE rows[u][i - 1].data[d]]
  <2>1. rows[u][i].by \in Requests /\ request'[rows[u][i].by] = request[rows[u][i].by]
    BY <1>1, <1>4, <1>5
  <2>2. OtherDomainsKept
    BY DEF IInv
  <2>. QED
    BY <2>1, <2>2, <1>5 DEF OtherDomainsKept
<1>6. OtherDomainsKept'
  BY <1>5 DEF OtherDomainsKept
<1>. QED
  BY <1>3, <1>6

(* What the pending transactions are about to commit survives a step that does not      *)
(* touch the table, of a request that is not about to commit.                           *)
LEMMA PendingUntouched ==
  ASSUME IInv, NEW r \in Requests, OthersUnchanged(r), rows' = rows, pc'[r] # "commit"
  PROVE  PendingRows'
<1>1. SUFFICES ASSUME NEW s \in Requests, pc'[s] = "commit"
               PROVE  row'[s] = [by |-> s, version |-> current'[s] + 1,
                                 data |-> [d \in Domains |->
                                             IF d \in request'[s].domains THEN s
                                             ELSE CommittedRow(User(s))'.data[d]]]
  BY DEF PendingRows
<1>2. /\ pc[s] = "commit" /\ row'[s] = row[s] /\ current'[s] = current[s]
      /\ request'[s] = request[s]
  BY <1>1 DEF OthersUnchanged
<1>3. CommittedRow(User(s))' = CommittedRow(User(s))
  BY <1>2 DEF CommittedRow, User
<1>. QED
  BY <1>2, <1>3 DEF IInv, PendingRows

(* ... and the last step of a request, answered or failed, after its commit or not. *)
LEMMA TableKeptAtEnd ==
  ASSUME IInv, rows' = rows, request' = request, row' = row, readAt' = readAt,
         current' = current,
         \A s \in Requests :
           /\ pc[s] \in {"send", "done"} => pc'[s] \in {"send", "done"}
           /\ status[s] # "conflict" => status'[s] # "conflict"
  PROVE  RowsHaveWriters' /\ OtherDomainsKept'
<1>1. ASSUME NEW u \in Users, NEW i \in 1 .. Len(rows[u]), i > 1
      PROVE  RowHasWriter(u, i)'
  <2>1. RowHasWriter(u, i)
    BY <1>1 DEF IInv, RowsHaveWriters
  <2>2. PICK w \in Requests : w = rows[u][i].by
    BY <2>1 DEF RowHasWriter
  <2>3. HasRead(w)'
    BY <2>1, <2>2 DEF RowHasWriter, HasRead, User
  <2>. QED
    BY <2>1, <2>2, <2>3 DEF RowHasWriter, IsWrite, User
<1>2. RowsHaveWriters'
  BY <1>1 DEF IInv, RowsHaveWriters
<1>. QED
  BY <1>2 DEF IInv, OtherDomainsKept

(* A handler accepts a request. *)
LEMMA ArriveIInv ==
  ASSUME IInv, NEW r \in Requests, NEW q \in Request, Arrive(r, q),
         q.op = "put_snapshot" => q.domains = Domains
  PROVE  IInv'
<1>1. TypeOK'
  BY DEF IInv, TypeOK, Arrive
<1>2. request'[r] = q /\ request'[r] # NoRequest /\ pc[r] = "idle" /\ pc'[r] = "ensure"
  BY NoRequestAssumption DEF IInv, TypeOK, Arrive
<1>3. OthersUnchanged(r) /\ rows' = rows /\ holder' = holder
  BY DEF IInv, TypeOK, Arrive, OthersUnchanged
<1>4. RequestsWellFormed'
  BY <1>2, <1>3 DEF IInv, Arrive, RequestsWellFormed, OthersUnchanged, IsWrite, User
<1>5. LocksReleased'
  BY <1>2, <1>3 DEF IInv, LocksReleased, OthersUnchanged, User
<1>6. ReadsRemembered'
  BY <1>2, <1>3 DEF IInv, ReadsRemembered, OthersUnchanged, User, HasRead
<1>7. PendingRows'
  BY <1>2, <1>3, PendingUntouched
<1>8. RowsHaveWriters' /\ OtherDomainsKept'
  BY <1>2, <1>3, TableUntouched
<1>9. CommittedWrites'
  BY <1>2, <1>3 DEF IInv, CommittedWrites, OthersUnchanged, User, IsWrite,
     Arrive, RequestsWellFormed
<1>. QED
  BY <1>1, <1>4, <1>5, <1>6, <1>7, <1>8, <1>9 DEF IInv
(* The row is created when it is missing, and kept when it is there. *)
LEMMA EnsureIInv ==
  ASSUME IInv, NEW r \in Requests, EnsureUserDocument(r)
  PROVE  IInv'
<1>. DEFINE u0 == User(r)
<1>1. /\ pc[r] = "ensure" /\ pc'[r] \in {"version", "load"} /\ request[r] # NoRequest
      /\ u0 \in Users /\ request' = request /\ status' = status /\ row' = row
      /\ pc'[r] = IF IsWrite(r) THEN "version" ELSE "load"
      /\ \A s \in Requests : s # r => pc'[s] = pc[s]
  BY DEF IInv, TypeOK, RequestsWellFormed, EnsureUserDocument, AfterEnsure, User, Request
<1>2. \A u \in Users : /\ (rows'[u] # <<>> /\ u = u0) \/ rows'[u] = rows[u]
                       /\ rows[u] # <<>> => rows'[u] = rows[u]
                       /\ rows[u] = <<>> => rows'[u] = <<>> \/ rows'[u] = <<Blank>>
  BY <1>1 DEF IInv, TypeOK, EnsureUserDocument
<1>3. rows'[u0] # <<>>
  BY <1>1 DEF IInv, TypeOK, EnsureUserDocument
<1>4. Blank \in Row /\ <<Blank>> \in Seq(Row) /\ Len(<<Blank>>) = 1 /\ <<Blank>>[1] = Blank /\ Len(<<>>) = 0
  BY DEF Blank, Row, Content
<1>5. TypeOK'
  <2>1. rows' \in [Users -> Seq(Row)]
    BY <1>2, <1>4 DEF IInv, TypeOK, EnsureUserDocument
  <2>. QED
    BY <2>1, <1>1 DEF IInv, TypeOK, EnsureUserDocument
<1>6. RequestsWellFormed'
  <2>. SUFFICES ASSUME NEW s \in Requests
                PROVE  /\ pc'[s] = "idle" <=> request'[s] = NoRequest
                       /\ pc'[s] # "done" => status'[s] = "none"
                       /\ pc'[s] \in {"version", "update", "commit", "send"} => IsWrite(s)'
                       /\ pc'[s] = "load" => ~IsWrite(s)'
                       /\ (pc'[s] # "idle" /\ request'[s].op = "put_snapshot")
                            => request'[s].domains = Domains
                       /\ pc'[s] \in {"load", "version", "update", "commit", "send"}
                            => rows'[User(s)'] # <<>>
    BY DEF RequestsWellFormed
  <2>1. IsWrite(s)' = IsWrite(s) /\ User(s)' = User(s)
    BY <1>1 DEF IsWrite, User
  <2>2. pc[s] # "idle" => User(s) \in Users
    BY DEF IInv, TypeOK, RequestsWellFormed, User, Request
  <2>3. CASE s = r
    BY <2>1, <2>3, <1>1, <1>3 DEF IInv, RequestsWellFormed
  <2>4. CASE s # r
    BY <2>1, <2>2, <2>4, <1>1, <1>2 DEF IInv, RequestsWellFormed
  <2>. QED
    BY <2>3, <2>4
<1>7. LocksReleased'
  BY <1>1 DEF IInv, LocksReleased, EnsureUserDocument, User
<1>8. \A s \in Requests : HasRead(s) /\ User(s) \in Users => HasRead(s)'
  <2>. SUFFICES ASSUME NEW s \in Requests, HasRead(s), User(s) \in Users PROVE HasRead(s)'
    OBVIOUS
  <2>1. User(s)' = User(s) /\ readAt' = readAt /\ current' = current /\ request' = request
    BY <1>1 DEF EnsureUserDocument, User
  <2>2. rows'[User(s)] = rows[User(s)]
    <3>1. rows[User(s)] # <<>>
      BY DEF HasRead
    <3>. QED
      BY <1>2, <3>1
  <2>. QED
    BY <2>1, <2>2 DEF HasRead
<1>9. \A s \in Requests : pc[s] # "idle" => User(s) \in Users
  BY DEF IInv, TypeOK, RequestsWellFormed, User, Request
<1>10. ReadsRemembered'
  BY <1>1, <1>8, <1>9 DEF IInv, ReadsRemembered
<1>11. PendingRows'
  <2>. SUFFICES ASSUME NEW s \in Requests, pc'[s] = "commit"
                PROVE  row'[s] = [by |-> s, version |-> current'[s] + 1,
                                  data |-> [d \in Domains |->
                                              IF d \in request'[s].domains THEN s
                                              ELSE CommittedRow(User(s))'.data[d]]]
    BY DEF PendingRows
  <2>1. pc[s] = "commit" /\ rows[User(s)] # <<>> /\ User(s) \in Users
    BY <1>1, <1>9 DEF IInv, RequestsWellFormed
  <2>2. CommittedRow(User(s))' = CommittedRow(User(s))
    BY <2>1, <1>1, <1>2 DEF CommittedRow, User
  <2>. QED
    BY <2>1, <2>2 DEF IInv, PendingRows, EnsureUserDocument
<1>12. ASSUME NEW u \in Users, NEW i \in 1 .. Len(rows'[u]), i > 1
       PROVE  rows'[u] = rows[u]
  <2>1. ASSUME rows[u] = <<>> PROVE Len(rows'[u]) <= 1
    <3>1. CASE rows'[u] = <<>>
      BY <3>1
    <3>2. CASE rows'[u] = <<Blank>>
      BY <3>2
    <3>. QED
      BY <3>1, <3>2, <2>1, <1>2
  <2>. QED
    BY <2>1, <1>12, <1>2
<1>13. RowsHaveWriters'
  <2>1. ASSUME NEW u \in Users, NEW i \in 1 .. Len(rows'[u]), i > 1
        PROVE  RowHasWriter(u, i)'
    <3>1. rows'[u] = rows[u]
      BY <2>1, <1>12
    <3>2. RowHasWriter(u, i)
      BY <2>1, <3>1 DEF IInv, RowsHaveWriters
    <3>3. PICK w \in Requests : w = rows[u][i].by
      BY <3>2 DEF RowHasWriter
    <3>4. HasRead(w)'
      BY <3>2, <3>3, <1>8 DEF RowHasWriter
    <3>. QED
      BY <3>1, <3>2, <3>3, <3>4, <1>1
      DEF RowHasWriter, EnsureUserDocument, IsWrite, User
  <2>2. \A u \in Users : rows'[u] # <<>> => rows'[u][1] = Blank
    BY <1>2, <1>4 DEF IInv, RowsHaveWriters
  <2>. QED
    BY <2>1, <2>2 DEF RowsHaveWriters
<1>14. OtherDomainsKept'
  <2>. SUFFICES ASSUME NEW u \in Users, NEW i \in 1 .. Len(rows'[u]), i > 1
                PROVE  /\ rows'[u][i].by \in Requests
                       /\ rows'[u][i].data =
                            [d \in Domains |->
                               IF d \in request'[rows'[u][i].by].domains
                               THEN rows'[u][i].by ELSE rows'[u][i-1].data[d]]
    BY Zenon DEF OtherDomainsKept
  <2>1. rows'[u] = rows[u] /\ request' = request
    BY <1>1, <1>12
  <2>2. OtherDomainsKept
    BY DEF IInv
  <2>. QED
    BY <2>1, <2>2 DEF OtherDomainsKept
<1>15. CommittedWrites'
  <2>1. \A s \in Requests : \A i \in 1 .. Len(rows[User(s)]) :
          (User(s) \in Users) => /\ i \in 1 .. Len(rows'[User(s)])
                                 /\ rows'[User(s)][i] = rows[User(s)][i]
    BY <1>2 DEF IInv, TypeOK
  <2>2. \A s \in Requests : User(s)' = User(s) /\ IsWrite(s)' = IsWrite(s)
    BY <1>1 DEF User, IsWrite
  <2>3. CommittedWrites'
    BY <2>1, <2>2, <1>1, <1>9 DEF IInv, CommittedWrites
  <2>. QED
    BY <2>3
<1>. QED
  BY <1>5, <1>6, <1>7, <1>10, <1>11, <1>13, <1>14, <1>15 DEF IInv

(* A GET is answered with the committed row. *)
LEMMA LoadSnapshotIInv ==
  ASSUME IInv, NEW r \in Requests, LoadSnapshot(r)
  PROVE  IInv'
<1>1. /\ pc[r] = "load" /\ pc'[r] = "done" /\ request' = request /\ rows' = rows
      /\ holder' = holder /\ row'[r] = CommittedRow(User(r))
      /\ status'[r] \in {"ok", "not_modified"}
  BY DEF IInv, TypeOK, LoadSnapshot
<1>2. OthersUnchanged(r)
  BY DEF IInv, TypeOK, LoadSnapshot, OthersUnchanged
<1>3. User(r) \in Users /\ rows[User(r)] # <<>> /\ ~IsWrite(r)
  BY <1>1 DEF IInv, TypeOK, RequestsWellFormed, User, Request
<1>4. /\ Len(rows[User(r)]) \in 1 .. Len(rows[User(r)])
      /\ CommittedRow(User(r)) \in Row
  BY <1>3 DEF IInv, TypeOK, CommittedRow
<1>5. TypeOK'
  BY <1>4 DEF IInv, TypeOK, LoadSnapshot
<1>6. RequestsWellFormed'
  BY <1>1, <1>2 DEF IInv, RequestsWellFormed, OthersUnchanged, IsWrite, User
<1>7. LocksReleased'
  BY <1>1, <1>2 DEF IInv, LocksReleased, OthersUnchanged, User
<1>8. ReadsRemembered'
  BY <1>1, <1>2 DEF IInv, ReadsRemembered, OthersUnchanged, User, HasRead
<1>9. PendingRows'
  BY <1>1, <1>2, PendingUntouched
<1>10. RowsHaveWriters' /\ OtherDomainsKept'
  BY <1>1, <1>2, TableUntouched
<1>11. CommittedWrites'
  BY <1>1, <1>2, <1>3 DEF IInv, CommittedWrites, OthersUnchanged, User, IsWrite
<1>. QED
  BY <1>5, <1>6, <1>7, <1>8, <1>9, <1>10, <1>11 DEF IInv
(* The SELECT and the optimistic check: a conflict ends the request. *)
LEMMA ReadVersionIInv ==
  ASSUME IInv, NEW r \in Requests, ReadVersion(r)
  PROVE  IInv'
<1>1. /\ pc[r] = "version" /\ request' = request /\ rows' = rows /\ holder' = holder
      /\ row' = row /\ published' = published
      /\ current'[r] = CommittedRow(User(r)).version
      /\ readAt'[r] = Len(rows[User(r)])
      /\ \/ pc'[r] = "done" /\ status'[r] = "conflict"
         \/ /\ pc'[r] = "update" /\ status'[r] = status[r]
            /\ request[r].version \in {Absent, current'[r]}
  BY DEF IInv, TypeOK, ReadVersion, Conflict
<1>2. OthersUnchanged(r)
  BY DEF IInv, TypeOK, ReadVersion, OthersUnchanged
<1>3. User(r) \in Users /\ rows[User(r)] # <<>> /\ IsWrite(r) /\ status[r] = "none"
  BY <1>1 DEF IInv, TypeOK, RequestsWellFormed, User, Request
<1>4. /\ Len(rows[User(r)]) \in 1 .. Len(rows[User(r)])
      /\ CommittedRow(User(r)) \in Row
  BY <1>3 DEF IInv, TypeOK, CommittedRow
<1>5. TypeOK'
  <2>1. CommittedRow(User(r)).version \in Int /\ Len(rows[User(r)]) \in Nat
    BY <1>4 DEF Row
  <2>2. /\ current' = [current EXCEPT ![r] = CommittedRow(User(r)).version]
        /\ readAt' = [readAt EXCEPT ![r] = Len(rows[User(r)])]
        /\ pc' \in {[pc EXCEPT ![r] = p] : p \in {"done", "update"}}
        /\ status' \in {status, [status EXCEPT ![r] = "conflict"]}
    BY DEF ReadVersion
  <2>3. /\ current' \in [Requests -> Int]
        /\ readAt' \in [Requests -> Nat]
    BY <2>1, <2>2 DEF IInv, TypeOK
  <2>4. /\ pc' \in [Requests -> {"idle", "ensure", "load", "version", "update", "commit",
                                "send", "done"}]
        /\ status' \in [Requests -> {"none", "ok", "not_modified", "conflict", "failed"}]
    <3>1. /\ pc \in [Requests -> {"idle", "ensure", "load", "version", "update", "commit",
                                  "send", "done"}]
          /\ status \in [Requests -> {"none", "ok", "not_modified", "conflict", "failed"}]
      BY DEF IInv, TypeOK
    <3>. QED
      BY <2>2, <3>1, Zenon
  <2>. QED
    BY <2>3, <2>4, <1>1 DEF IInv, TypeOK
<1>6. RequestsWellFormed'
  BY <1>1, <1>2, <1>3, SMTT(30) DEF IInv, RequestsWellFormed, OthersUnchanged, IsWrite, User
<1>7. LocksReleased'
  BY <1>1, <1>2 DEF IInv, LocksReleased, OthersUnchanged, User
<1>8. ReadsRemembered'
  BY <1>1, <1>2, <1>3, <1>4 DEF IInv, ReadsRemembered, OthersUnchanged, User, HasRead,
     CommittedRow
<1>9. PendingRows'
  BY <1>1, <1>2, PendingUntouched
<1>10. RowsHaveWriters' /\ OtherDomainsKept'
  BY <1>1, <1>2, TableUntouched
<1>11. CommittedWrites'
  BY <1>1, <1>2, <1>3 DEF IInv, CommittedWrites, OthersUnchanged, User, IsWrite
<1>. QED
  BY <1>5, <1>6, <1>7, <1>8, <1>9, <1>10, <1>11 DEF IInv

(* The UPDATE takes the free row lock and works on the row as last committed. *)
LEMMA UpdateIInv ==
  ASSUME IInv, NEW r \in Requests, UpdateNamespace(r) \/ ReplaceSnapshot(r)
  PROVE  IInv'
<1>1. /\ pc[r] = "update" /\ pc'[r] = "commit" /\ request' = request /\ rows' = rows
      /\ readAt' = readAt /\ current' = current /\ status' = status
      /\ published' = published
  BY DEF IInv, TypeOK, UpdateNamespace, ReplaceSnapshot, Locking
<1>2. User(r) \in Users /\ rows[User(r)] # <<>> /\ IsWrite(r) /\ request[r] \in Request
  BY <1>1 DEF IInv, TypeOK, RequestsWellFormed, User, Request
<1>3. /\ holder[User(r)] = NoRequest
      /\ holder' = [holder EXCEPT ![User(r)] = r]
  BY DEF UpdateNamespace, ReplaceSnapshot, Locking
<1>4. OthersUnchanged(r)
  BY DEF IInv, TypeOK, UpdateNamespace, ReplaceSnapshot, Locking, OthersUnchanged
<1>5. row'[r] = [by |-> r, version |-> current[r] + 1,
                 data |-> [d \in Domains |-> IF d \in request[r].domains THEN r
                                             ELSE CommittedRow(User(r)).data[d]]]
  <2>1. CASE UpdateNamespace(r)
    BY <2>1 DEF IInv, TypeOK, UpdateNamespace, NewVersion, ColumnsKept
  <2>2. CASE ReplaceSnapshot(r)
    <3>1. request[r].domains = Domains
      BY <2>2, <1>1 DEF IInv, RequestsWellFormed, ReplaceSnapshot
    <3>. QED
      BY <2>2, <3>1 DEF IInv, TypeOK, ReplaceSnapshot, NewVersion
  <2>. QED
    BY <2>1, <2>2
<1>6. row'[r] \in Row
  <2>1. CommittedRow(User(r)) \in Row /\ current[r] \in Int
    BY <1>2 DEF IInv, TypeOK, CommittedRow
  <2>. QED
    BY <2>1, <1>5 DEF Row, Content
<1>7. TypeOK'
  <2>1. row' \in [Requests -> Row]
    BY <1>6 DEF IInv, TypeOK, UpdateNamespace, ReplaceSnapshot
  <2>2. pc' = [pc EXCEPT ![r] = "commit"]
    BY DEF UpdateNamespace, ReplaceSnapshot, Locking
  <2>. QED
    BY <2>1, <2>2, <1>1, <1>3 DEF IInv, TypeOK
<1>8. RequestsWellFormed'
  BY <1>1, <1>4, <1>2 DEF IInv, RequestsWellFormed, OthersUnchanged, IsWrite, User
<1>9. LocksReleased'
  <2>. SUFFICES ASSUME NEW u \in Users, NEW s \in Requests
                PROVE  (holder'[u] = s) <=> (pc'[s] = "commit" /\ User(s)' = u)
    BY DEF LocksReleased
  <2>1. User(s)' = User(s)
    BY <1>1 DEF User
  <2>2. CASE u = User(r)
    <3>1. holder'[u] = r /\ ~(pc[s] = "commit" /\ User(s) = u)
      BY <2>2, <1>2, <1>3, NoRequestAssumption DEF IInv, TypeOK, LocksReleased
    <3>. QED
      BY <3>1, <2>1, <2>2, <1>1, <1>4 DEF OthersUnchanged
  <2>3. CASE u # User(r)
    BY <2>1, <2>3, <1>1, <1>3, <1>4 DEF IInv, TypeOK, LocksReleased, OthersUnchanged
  <2>. QED
    BY <2>2, <2>3
<1>10. ReadsRemembered'
  BY <1>1, <1>4 DEF IInv, ReadsRemembered, OthersUnchanged, User, HasRead
<1>11. PendingRows'
  <2>. SUFFICES ASSUME NEW s \in Requests, pc'[s] = "commit"
                PROVE  row'[s] = [by |-> s, version |-> current'[s] + 1,
                                  data |-> [d \in Domains |->
                                              IF d \in request'[s].domains THEN s
                                              ELSE CommittedRow(User(s))'.data[d]]]
    BY DEF PendingRows
  <2>1. CommittedRow(User(s))' = CommittedRow(User(s))
    BY <1>1 DEF CommittedRow, User
  <2>2. CASE s = r
    BY <2>1, <2>2, <1>1, <1>5
  <2>3. CASE s # r
    <3>1. pc[s] = "commit" /\ row'[s] = row[s]
      BY <2>3, <1>4 DEF OthersUnchanged
    <3>. QED
      BY <3>1, <2>1, <1>1 DEF IInv, PendingRows
  <2>. QED
    BY <2>2, <2>3
<1>12. RowsHaveWriters' /\ OtherDomainsKept'
  BY <1>1, <1>4, TableUntouched
<1>13. CommittedWrites'
  BY <1>1, <1>4 DEF IInv, CommittedWrites, OthersUnchanged, User, IsWrite
<1>. QED
  BY <1>7, <1>8, <1>9, <1>10, <1>11, <1>12, <1>13 DEF IInv

(* After the commit: the event and the answer. *)
LEMMA SendUserEventIInv ==
  ASSUME IInv, NEW r \in Requests, SendUserEvent(r)
  PROVE  IInv'
<1>1. /\ pc[r] = "send" /\ pc'[r] = "done" /\ request' = request /\ rows' = rows
      /\ holder' = holder /\ row' = row /\ readAt' = readAt /\ current' = current
      /\ status'[r] = "ok"
  BY DEF IInv, TypeOK, SendUserEvent
<1>2. OthersUnchanged(r)
  BY DEF IInv, TypeOK, SendUserEvent, OthersUnchanged
<1>3. User(r) \in Users /\ IsWrite(r) /\ request[r] \in Request
  BY <1>1 DEF IInv, TypeOK, RequestsWellFormed, User, Request
<1>4. TypeOK'
  <2>1. Notice(r) \in Event
    BY <1>3 DEF IInv, TypeOK, Notice, Event, Request, Row
  <2>2. published' \in [Users -> Seq(Event)]
    BY <2>1, <1>3, AppendFacts DEF IInv, TypeOK, SendUserEvent
  <2>. QED
    BY <2>2, <1>1 DEF IInv, TypeOK, SendUserEvent
<1>5. RequestsWellFormed'
  BY <1>1, <1>2 DEF IInv, RequestsWellFormed, OthersUnchanged, IsWrite, User
<1>6. LocksReleased'
  BY <1>1, <1>2 DEF IInv, LocksReleased, OthersUnchanged, User
<1>7. ReadsRemembered' /\ PendingRows'
  BY <1>1, <1>2, SMTT(30) DEF IInv, ReadsRemembered, PendingRows, OthersUnchanged, User, HasRead,
     CommittedRow
<1>8. \A s \in Requests : /\ pc[s] \in {"send", "done"} => pc'[s] \in {"send", "done"}
                          /\ status[s] # "conflict" => status'[s] # "conflict"
  BY <1>1, <1>2 DEF OthersUnchanged
<1>9. RowsHaveWriters' /\ OtherDomainsKept'
  BY <1>1, <1>8, TableKeptAtEnd
<1>10. CommittedWrites'
  BY <1>1, <1>2 DEF IInv, CommittedWrites, OthersUnchanged, User, IsWrite
<1>. QED
  BY <1>4, <1>5, <1>6, <1>7, <1>9, <1>10 DEF IInv

(* A request that fails releases the lock it holds. *)
LEMMA FailIInv ==
  ASSUME IInv, NEW r \in Requests, Fail(r)
  PROVE  IInv'
<1>1. /\ pc[r] \notin {"idle", "done"} /\ pc'[r] = "done" /\ request' = request
      /\ rows' = rows /\ row' = row /\ readAt' = readAt /\ current' = current
      /\ status'[r] = "failed" /\ published' = published
      /\ \A u \in Users : holder'[u] = IF holder[u] = r THEN NoRequest ELSE holder[u]
  BY DEF IInv, TypeOK, Fail, InFlight
<1>2. OthersUnchanged(r)
  BY DEF IInv, TypeOK, Fail, OthersUnchanged
<1>3. TypeOK'
  BY <1>1 DEF IInv, TypeOK, Fail
<1>4. RequestsWellFormed'
  BY <1>1, <1>2 DEF IInv, RequestsWellFormed, OthersUnchanged, IsWrite, User
<1>5. LocksReleased'
  BY <1>1, <1>2, NoRequestAssumption DEF IInv, LocksReleased, OthersUnchanged, User
<1>6. ReadsRemembered' /\ PendingRows'
  BY <1>1, <1>2, SMTT(30) DEF IInv, ReadsRemembered, PendingRows, OthersUnchanged, User, HasRead,
     CommittedRow
<1>7. \A s \in Requests : /\ pc[s] \in {"send", "done"} => pc'[s] \in {"send", "done"}
                          /\ status[s] # "conflict" => status'[s] # "conflict"
  BY <1>1, <1>2 DEF OthersUnchanged
<1>8. RowsHaveWriters' /\ OtherDomainsKept'
  BY <1>1, <1>7, TableKeptAtEnd
<1>9. CommittedWrites'
  BY <1>1, <1>2 DEF IInv, CommittedWrites, OthersUnchanged, User, IsWrite
<1>. QED
  BY <1>3, <1>4, <1>5, <1>6, <1>8, <1>9 DEF IInv
(* The commit appends the pending row to the table and releases the lock. *)
LEMMA CommitIInv ==
  ASSUME IInv, NEW r \in Requests, Commit(r)
  PROVE  IInv'
<1>0. User(r) \in Users
  BY DEF IInv, TypeOK, Commit, RequestsWellFormed, User, Request
<1>. PICK u0 \in Users : u0 = User(r)
  BY <1>0
<1>. PICK n \in Nat : n = Len(rows[u0])
  BY DEF IInv, TypeOK
<1>1. /\ pc[r] = "commit" /\ pc'[r] = "send" /\ request' = request /\ row' = row
      /\ readAt' = readAt /\ current' = current /\ status' = status
      /\ published' = published
  BY DEF IInv, TypeOK, Commit
<1>2. u0 \in Users /\ rows[u0] # <<>> /\ IsWrite(r) /\ request[r] \in Request
  BY <1>1 DEF IInv, TypeOK, RequestsWellFormed, User, Request
<1>3. OthersUnchanged(r)
  BY DEF IInv, TypeOK, Commit, OthersUnchanged
<1>4. /\ rows[u0] \in Seq(Row) /\ n \in Nat /\ n >= 1 /\ row[r] \in Row
      /\ rows'[u0] = Append(rows[u0], row[r])
      /\ \A u \in Users : u # u0 => rows'[u] = rows[u]
  BY <1>2 DEF IInv, TypeOK, Commit
<1>5. /\ rows'[u0] \in Seq(Row) /\ Len(rows'[u0]) = n + 1
      /\ \A i \in 1 .. n : rows'[u0][i] = rows[u0][i]
      /\ rows'[u0][n + 1] = row[r] /\ rows'[u0] # <<>>
  BY <1>4, AppendFacts
<1>6. \A u \in Users : /\ Len(rows[u]) \in Nat
                       /\ \A i \in 1 .. Len(rows[u]) : /\ i \in 1 .. Len(rows'[u])
                                                       /\ rows'[u][i] = rows[u][i]
                       /\ rows[u] # <<>> => rows'[u] # <<>>
  <2>. TAKE u \in Users
  <2>1. rows[u] \in Seq(Row) /\ Len(rows[u]) \in Nat
    BY DEF IInv, TypeOK
  <2>2. CASE u = u0
    BY <2>1, <2>2, <1>4, <1>5
  <2>3. CASE u # u0
    BY <2>1, <2>3, <1>4
  <2>. QED
    BY <2>2, <2>3
<1>7. /\ row[r].by = r /\ row[r].version = current[r] + 1
      /\ row[r].data = [d \in Domains |-> IF d \in request[r].domains THEN r
                                          ELSE rows[u0][n].data[d]]
  <2>1. row[r] = [by |-> r, version |-> current[r] + 1,
                  data |-> [d \in Domains |-> IF d \in request[r].domains THEN r
                                              ELSE CommittedRow(u0).data[d]]]
    BY <1>1 DEF IInv, PendingRows
  <2>2. CommittedRow(u0) = rows[u0][n]
    BY DEF CommittedRow
  <2>. QED
    BY <2>1, <2>2
<1>8. \A u \in Users : \A i \in 1 .. Len(rows[u]) : rows[u][i].by # r
  <2>1. \A u \in Users : \A i \in 1 .. Len(rows[u]) : i > 1 => rows[u][i].by # r
    BY <1>1 DEF IInv, RowsHaveWriters, RowHasWriter
  <2>2. \A u \in Users : rows[u] # <<>> => rows[u][1].by # r
    BY NoRequestAssumption DEF IInv, RowsHaveWriters, Blank
  <2>. QED
    BY <2>1, <2>2, <1>6
<1>9. \A s \in Requests : pc[s] # "idle" => User(s) \in Users
  BY DEF IInv, TypeOK, RequestsWellFormed, User, Request
<1>10. \A s \in Requests : HasRead(s) /\ User(s) \in Users => HasRead(s)'
  BY <1>1, <1>6 DEF HasRead, User
<1>11. TypeOK'
  <2>1. rows' \in [Users -> Seq(Row)]
    BY <1>4, <1>5 DEF IInv, TypeOK, Commit
  <2>. QED
    BY <2>1, <1>1 DEF IInv, TypeOK, Commit
<1>12. RequestsWellFormed'
  <2>1. \A s \in Requests : IsWrite(s)' = IsWrite(s) /\ User(s)' = User(s)
    BY <1>1 DEF IsWrite, User
  <2>2. \A s \in Requests : pc'[s] \in {"load", "version", "update", "commit", "send"} =>
          rows'[User(s)] # <<>>
    BY <1>1, <1>2, <1>3, <1>6, <1>9 DEF IInv, RequestsWellFormed, OthersUnchanged
  <2>3. \A s \in Requests :
          /\ pc'[s] = "idle" <=> request'[s] = NoRequest
          /\ pc'[s] # "done" => status'[s] = "none"
          /\ pc'[s] \in {"version", "update", "commit", "send"} => IsWrite(s)
          /\ pc'[s] = "load" => ~IsWrite(s)
          /\ (pc'[s] # "idle" /\ request'[s].op = "put_snapshot") =>
               request'[s].domains = Domains
    BY <1>1, <1>2, <1>3 DEF IInv, RequestsWellFormed, OthersUnchanged
  <2>. QED
    BY <2>1, <2>2, <2>3 DEF RequestsWellFormed
<1>13. LocksReleased'
  <2>. SUFFICES ASSUME NEW u \in Users, NEW s \in Requests
                PROVE  (holder'[u] = s) <=> (pc'[s] = "commit" /\ User(s)' = u)
    BY DEF LocksReleased
  <2>1. User(s)' = User(s)
    BY <1>1 DEF User
  <2>2. holder' = [holder EXCEPT ![u0] = NoRequest]
    BY DEF Commit
  <2>3. holder[u0] = r
    BY <1>1, <1>2 DEF IInv, LocksReleased
  <2>4. CASE u = u0
    <3>1. holder'[u] = NoRequest
      BY <2>2, <2>4 DEF IInv, TypeOK
    <3>2. s # r => ~(pc[s] = "commit" /\ User(s) = u)
      BY <2>3, <2>4 DEF IInv, LocksReleased
    <3>. QED
      BY <3>1, <3>2, <2>1, <1>1, <1>3, NoRequestAssumption DEF OthersUnchanged
  <2>5. CASE u # u0
    BY <2>1, <2>2, <2>5, <1>1, <1>3 DEF IInv, TypeOK, LocksReleased, OthersUnchanged
  <2>. QED
    BY <2>4, <2>5
<1>14. ReadsRemembered'
  BY <1>1, <1>3, <1>9, <1>10 DEF IInv, ReadsRemembered, OthersUnchanged
<1>15. PendingRows'
  <2>. SUFFICES ASSUME NEW s \in Requests, pc'[s] = "commit"
                PROVE  row'[s] = [by |-> s, version |-> current'[s] + 1,
                                  data |-> [d \in Domains |->
                                              IF d \in request'[s].domains THEN s
                                              ELSE CommittedRow(User(s))'.data[d]]]
    BY DEF PendingRows
  <2>1. pc[s] = "commit" /\ s # r
    BY <1>1, <1>3 DEF OthersUnchanged
  <2>2. User(s) # u0 /\ User(s) \in Users
    BY <2>1, <1>1, <1>2, <1>9 DEF IInv, LocksReleased
  <2>3. CommittedRow(User(s))' = CommittedRow(User(s))
    BY <2>2, <1>1, <1>4 DEF CommittedRow, User
  <2>. QED
    BY <2>1, <2>3, <1>1 DEF IInv, PendingRows
<1>16. RowsHaveWriters'
  <2>1. ASSUME NEW u \in Users, NEW i \in 1 .. Len(rows[u]), i > 1
        PROVE  RowHasWriter(u, i)'
    <3>1. RowHasWriter(u, i)
      BY <2>1 DEF IInv, RowsHaveWriters
    <3>2. PICK w \in Requests : w = rows[u][i].by
      BY <3>1 DEF RowHasWriter
    <3>3. w # r
      BY <3>2, <1>8
    <3>4. HasRead(w)'
      BY <3>1, <3>2, <1>10 DEF RowHasWriter
    <3>5. rows'[u][i] = rows[u][i]
      BY <1>6
    <3>6. \A j \in 1 .. Len(rows'[u]) : rows'[u][j].by = w => j = i
      <4>1. \A j \in 1 .. Len(rows[u]) : rows[u][j].by = w => j = i
        BY <3>1, <3>2 DEF RowHasWriter
      <4>2. CASE u = u0
        BY <4>1, <4>2, <3>3, <1>4, <1>5, <1>7
      <4>3. CASE u # u0
        BY <4>1, <4>3, <1>4
      <4>. QED
        BY <4>2, <4>3
    <3>. QED
      BY <3>1, <3>2, <3>3, <3>4, <3>5, <3>6, <1>1, <1>3
      DEF RowHasWriter, IsWrite, User, OthersUnchanged
  <2>2. RowHasWriter(u0, n + 1)'
    <3>1. HasRead(r)
      BY <1>1 DEF IInv, ReadsRemembered
    <3>2. HasRead(r)' /\ readAt'[r] < n + 1
      BY <3>1, <1>1, <1>2, <1>4, <1>10 DEF HasRead
    <3>3. \A j \in 1 .. Len(rows'[u0]) : rows'[u0][j].by = r => j = n + 1
      BY <1>2, <1>4, <1>5, <1>8
    <3>4. status'[r] # "conflict"
      BY <1>1 DEF IInv, RequestsWellFormed
    <3>. QED
      <4>1. rows'[u0][n + 1] = row'[r] /\ rows'[u0][n + 1].by = r
        BY <1>1, <1>5, <1>7
      <4>2. rows'[u0][n + 1].version = current'[r] + 1
        BY <1>1, <1>5, <1>7
      <4>. QED
        BY <4>1, <4>2, <3>2, <3>3, <3>4, <1>1, <1>2 DEF RowHasWriter, IsWrite, User
  <2>3. \A u \in Users : rows'[u] # <<>> => rows'[u][1] = Blank
    BY <1>2, <1>4, <1>5 DEF IInv, RowsHaveWriters
  <2>4. \A u \in Users : \A i \in 1 .. Len(rows'[u]) :
          i \in 1 .. Len(rows[u]) \/ (u = u0 /\ i = n + 1)
    BY <1>4, <1>5
  <2>. QED
    BY <2>1, <2>2, <2>3, <2>4 DEF RowsHaveWriters
<1>17. OtherDomainsKept'
  <2>1. ASSUME NEW u \in Users, NEW i \in 1 .. Len(rows[u]), i > 1
        PROVE  /\ rows'[u][i] = rows[u][i] /\ rows'[u][i-1] = rows[u][i-1]
    BY <2>1, <1>6
  <2>2. /\ rows'[u0][n+1] = row[r] /\ rows'[u0][n] = rows[u0][n]
    BY <1>4, <1>5
  <2>3. \A u \in Users : \A i \in 1 .. Len(rows'[u]) :
          i \in 1 .. Len(rows[u]) \/ (u = u0 /\ i = n + 1)
    BY <1>4, <1>5
  <2>4. ASSUME NEW u \in Users, NEW i \in 1 .. Len(rows'[u]), i > 1
        PROVE  /\ rows'[u][i].by \in Requests
               /\ rows'[u][i].data =
                    [d \in Domains |-> IF d \in request'[rows'[u][i].by].domains
                                         THEN rows'[u][i].by ELSE rows'[u][i-1].data[d]]
    <3>1. CASE i \in 1 .. Len(rows[u])
      <4>1. /\ rows[u][i].by \in Requests
            /\ rows[u][i].data =
                 [d \in Domains |-> IF d \in request[rows[u][i].by].domains
                                      THEN rows[u][i].by ELSE rows[u][i-1].data[d]]
        BY <3>1, <2>4 DEF IInv, OtherDomainsKept
      <4>. QED
        BY <4>1, <3>1, <2>1, <2>4, <1>1
    <3>2. CASE u = u0 /\ i = n + 1
      <4>1. i - 1 = n
        BY <3>2, <1>4
      <4>. QED
        BY <3>2, <4>1, <2>2, <1>7, <1>1
    <3>. QED
      BY <3>1, <3>2, <2>3
  <2>. QED
    BY <2>4 DEF OtherDomainsKept
<1>18. CommittedWrites'
  <2>1. ASSUME NEW s \in Requests, s # r,
               pc[s] = "send" \/ (pc[s] = "done" /\ IsWrite(s) /\ status[s] = "ok")
        PROVE  \E i \in 1 .. Len(rows'[User(s)]) : rows'[User(s)][i] = row[s] /\ row[s].by = s
    <3>1. PICK i \in 1 .. Len(rows[User(s)]) : rows[User(s)][i] = row[s] /\ row[s].by = s
      BY <2>1 DEF IInv, CommittedWrites
    <3>. QED
      BY <3>1, <2>1, <1>6, <1>9
  <2>2. \E i \in 1 .. Len(rows'[u0]) : rows'[u0][i] = row[r] /\ row[r].by = r
    <3>1. n + 1 \in 1 .. Len(rows'[u0])
      BY <1>4, <1>5
    <3>. QED
      BY <3>1, <1>5, <1>7
  <2>. QED
    BY <2>1, <2>2, <1>1, <1>3 DEF CommittedWrites, OthersUnchanged, IsWrite, User
<1>. QED
  BY <1>11, <1>12, <1>13, <1>14, <1>15, <1>16, <1>17, <1>18 DEF IInv
-----------------------------------------------------------------------------
(* Every step of the specification is one of those above. *)
LEMMA NextIInv == IInv /\ [Next]_vars => IInv'
<1>. SUFFICES ASSUME IInv, [Next]_vars
              PROVE  IInv'
  OBVIOUS
<1>1. CASE UNCHANGED vars
  <2>1. TypeOK' /\ RequestsWellFormed' /\ LocksReleased'
    BY <1>1 DEF vars, IInv, TypeOK, RequestsWellFormed, LocksReleased, IsWrite, User
  <2>2. ReadsRemembered' /\ PendingRows'
    BY <1>1 DEF vars, IInv, ReadsRemembered, PendingRows, HasRead, CommittedRow, User
  <2>3. RowsHaveWriters' /\ OtherDomainsKept'
    BY <1>1, TableKeptAtEnd DEF vars
  <2>4. CommittedWrites'
    BY <1>1 DEF vars, IInv, CommittedWrites, IsWrite, User
  <2>. QED
    BY <2>1, <2>2, <2>3, <2>4 DEF IInv
<1>2. ASSUME NEW r \in Requests,
             GetSnapshot(r) \/ GetNamespace(r) \/ PutSnapshot(r) \/ PutNamespace(r)
      PROVE  IInv'
  <2>1. PICK q \in Request : /\ Arrive(r, q)
                             /\ q.op = "put_snapshot" => q.domains = Domains
    <3>1. CASE GetSnapshot(r)
      BY <3>1 DEF GetSnapshot, Request, Ops
    <3>2. CASE GetNamespace(r)
      BY <3>2 DEF GetNamespace, Request, Ops
    <3>3. CASE PutSnapshot(r)
      BY <3>3 DEF PutSnapshot, Request, Ops
    <3>4. CASE PutNamespace(r)
      BY <3>4 DEF PutNamespace, Request, Ops
    <3>. QED
      BY <1>2, <3>1, <3>2, <3>3, <3>4
  <2>. QED
    BY <2>1, ArriveIInv
<1>3. ASSUME NEW r \in Requests, Step(r)
      PROVE  IInv'
  BY <1>3, EnsureIInv, LoadSnapshotIInv, ReadVersionIInv, UpdateIInv, CommitIInv,
     SendUserEventIInv DEF Step
<1>4. ASSUME NEW r \in Requests, Fail(r)
      PROVE  IInv'
  BY <1>4, FailIInv
<1>. QED
  BY <1>1, <1>2, <1>3, <1>4 DEF Next

(* Every reachable state satisfies IInv, however requests overlap. *)
THEOREM StoreInvariant == Spec => []IInv
  BY InitIInv, NextIInv, PTL DEF Spec

(* TypeOK: every variable of the sync store keeps its type. *)
THEOREM StoreTypeOK == Spec => []TypeOK
<1>1. IInv => TypeOK
  BY DEF IInv
<1>. QED
  BY <1>1, StoreInvariant, PTL

(* A PUT of one domain never undoes another domain, whichever writers overlap. *)
THEOREM StoreOtherDomainsKept == Spec => []OtherDomainsKept
<1>1. IInv => OtherDomainsKept
  BY DEF IInv
<1>. QED
  BY <1>1, StoreInvariant, PTL

(* No row lock outlives its transaction. *)
THEOREM StoreLocksReleased == Spec => []LocksReleased
<1>1. IInv => LocksReleased
  BY DEF IInv
<1>. QED
  BY <1>1, StoreInvariant, PTL

(* 200 and 409 say what happened to the caller's write, and each write happens once. *)
THEOREM StoreAnswersMatchTable == Spec => []AnswersMatchTable
<1>1. IInv => AnswersMatchTable
  <2>. SUFFICES ASSUME IInv PROVE AnswersMatchTable
    OBVIOUS
  <2>1. \A r \in Requests :
          (request[r] # NoRequest /\ IsWrite(r) /\ status[r] = "ok") =>
            \E i \in 1 .. Len(rows[User(r)]) : rows[User(r)][i] = row[r] /\ row[r].by = r
    BY DEF IInv, RequestsWellFormed, CommittedWrites
  <2>2. ASSUME NEW u \in Users, NEW i \in 1 .. Len(rows[u]), rows[u][i].by # NoRequest
        PROVE  RowHasWriter(u, i)
    <3>1. i > 1
      BY <2>2 DEF IInv, TypeOK, RowsHaveWriters, Blank
    <3>. QED
      BY <3>1 DEF IInv, RowsHaveWriters
  <2>. QED
    BY <2>1, <2>2 DEF AnswersMatchTable, RowHasWriter
<1>. QED
  BY <1>1, StoreInvariant, PTL

(* A PUT that commits on the row it read is an atomic compare-and-set. *)
THEOREM StoreUndisturbedWriteIsAtomic == Spec => []UndisturbedWriteIsAtomic
<1>1. IInv => UndisturbedWriteIsAtomic
  <2>. SUFFICES ASSUME IInv, NEW u \in Users, NEW i \in 1 .. Len(rows[u]), i > 1,
                       rows[u][i].by \in Requests, readAt[rows[u][i].by] = i - 1
                PROVE  /\ rows[u][i].version = rows[u][i-1].version + 1
                       /\ request[rows[u][i].by].version \in {Absent, rows[u][i-1].version}
    BY DEF UndisturbedWriteIsAtomic
  <2>1. RowHasWriter(u, i)
    BY DEF IInv, RowsHaveWriters
  <2>. QED
    BY <2>1 DEF RowHasWriter, HasRead
<1>. QED
  BY <1>1, StoreInvariant, PTL

-----------------------------------------------------------------------------
(* Events.  Every published event comes from a request that has been answered 200, and   *)
(* every PUT answered 200 has one.                                                       *)
EventHasSource(u, k) ==
  LET s == published[u][k].source IN
  /\ s \in Requests
  /\ pc[s] = "done"
  /\ IsWrite(s)
  /\ User(s) = u
  /\ status[s] = "ok"
  /\ published[u][k].version = row[s].version
  /\ \A m \in 1 .. Len(published[u]) : published[u][m].source = s => m = k

EventsHaveSources ==
  \A u \in Users : \A k \in 1 .. Len(published[u]) : EventHasSource(u, k)

OkAnnounced ==
  \A r \in Requests :
    (request[r] # NoRequest /\ IsWrite(r) /\ status[r] = "ok") =>
      \E k \in 1 .. Len(published[User(r)]) : published[User(r)][k].source = r

EInv == IInv /\ EventsHaveSources /\ OkAnnounced

(* A step that publishes nothing, of a request that it does not answer 200 unless it is *)
(* a read.                                                                              *)
LEMMA QuietStep ==
  ASSUME EInv, NEW r \in Requests, OthersUnchanged(r), published' = published,
         pc[r] # "done", status'[r] = "ok" => ~IsWrite(r)'
  PROVE  EventsHaveSources' /\ OkAnnounced'
<1>1. ASSUME NEW u \in Users, NEW k \in 1 .. Len(published[u])
      PROVE  EventHasSource(u, k)'
  <2>1. EventHasSource(u, k)
    BY <1>1 DEF EInv, EventsHaveSources
  <2>2. PICK s \in Requests : s = published[u][k].source /\ s # r
    BY <2>1 DEF EventHasSource
  <2>. QED
    BY <2>1, <2>2 DEF EventHasSource, OthersUnchanged, IsWrite, User
<1>2. OkAnnounced'
  BY DEF EInv, OkAnnounced, OthersUnchanged, IsWrite, User
<1>. QED
  BY <1>1, <1>2 DEF EventsHaveSources

(* The one step that publishes. *)
LEMMA SendUserEventEInv ==
  ASSUME EInv, NEW r \in Requests, SendUserEvent(r)
  PROVE  EventsHaveSources' /\ OkAnnounced'
<1>1. /\ pc[r] = "send" /\ pc'[r] = "done" /\ request' = request /\ row' = row
      /\ status'[r] = "ok"
  BY DEF EInv, IInv, TypeOK, SendUserEvent
<1>2. OthersUnchanged(r)
  BY DEF EInv, IInv, TypeOK, SendUserEvent, OthersUnchanged
<1>3. User(r) \in Users /\ IsWrite(r) /\ request[r] \in Request
  BY <1>1 DEF EInv, IInv, TypeOK, RequestsWellFormed, User, Request
<1>. PICK u0 \in Users : u0 = User(r)
  BY <1>3
<1>. PICK n \in Nat : n = Len(published[u0])
  BY DEF EInv, IInv, TypeOK
<1>4. Notice(r) \in Event /\ Notice(r).source = r /\ Notice(r).version = row[r].version
  BY <1>3 DEF EInv, IInv, TypeOK, Notice, Event, Request, Row
<1>5. /\ published'[u0] = Append(published[u0], Notice(r))
      /\ \A u \in Users : u # u0 => published'[u] = published[u]
      /\ published[u0] \in Seq(Event)
  BY DEF EInv, IInv, TypeOK, SendUserEvent
<1>6. /\ Len(published'[u0]) = n + 1
      /\ \A k \in 1 .. n : published'[u0][k] = published[u0][k]
      /\ published'[u0][n + 1] = Notice(r)
  BY <1>4, <1>5, AppendFacts
<1>7. ASSUME NEW u \in Users, NEW k \in 1 .. Len(published[u])
      PROVE  EventHasSource(u, k)'
  <2>1. EventHasSource(u, k)
    BY <1>7 DEF EInv, EventsHaveSources
  <2>2. PICK s \in Requests : s = published[u][k].source /\ s # r
    BY <2>1, <1>1 DEF EventHasSource
  <2>3. /\ published'[u][k] = published[u][k]
        /\ \A m \in 1 .. Len(published'[u]) : published'[u][m].source = s => m = k
    <3>1. \A m \in 1 .. Len(published[u]) : published[u][m].source = s => m = k
      BY <2>1, <2>2 DEF EventHasSource
    <3>2. CASE u = u0
      BY <3>1, <3>2, <2>2, <1>4, <1>6, <1>7, SMTT(30)
    <3>3. CASE u # u0
      BY <3>1, <3>3, <1>5
    <3>. QED
      BY <3>2, <3>3
  <2>. QED
    BY <2>1, <2>2, <2>3, <1>1, <1>2 DEF EventHasSource, OthersUnchanged, IsWrite, User
<1>8. EventHasSource(u0, n + 1)'
  <2>1. \A m \in 1 .. n : published[u0][m].source # r
    BY <1>1 DEF EInv, EventsHaveSources, EventHasSource
  <2>2. \A m \in 1 .. Len(published'[u0]) : published'[u0][m].source = r => m = n + 1
    BY <2>1, <1>6
  <2>3. published'[u0][n + 1].source = r /\ published'[u0][n + 1].version = row'[r].version
    BY <1>1, <1>4, <1>6
  <2>. QED
    BY <2>2, <2>3, <1>1, <1>3 DEF EventHasSource, IsWrite, User
<1>9. \A u \in Users : \A k \in 1 .. Len(published'[u]) :
        k \in 1 .. Len(published[u]) \/ (u = u0 /\ k = n + 1)
  BY <1>5, <1>6
<1>10. OkAnnounced'
  <2>. SUFFICES ASSUME NEW s \in Requests, request'[s] # NoRequest, IsWrite(s)',
                       status'[s] = "ok"
                PROVE  \E k \in 1 .. Len(published'[User(s)']) :
                         published'[User(s)'][k].source = s
    BY DEF OkAnnounced
  <2>1. User(s)' = User(s)
    BY <1>1 DEF User
  <2>2. CASE s = r
    <3>1. n + 1 \in 1 .. Len(published'[u0])
      BY <1>6
    <3>. QED
      BY <3>1, <2>1, <2>2, <1>4, <1>6
  <2>3. CASE s # r
    <3>1. User(s) \in Users
      BY <1>1 DEF EInv, IInv, TypeOK, User, Request
    <3>2. PICK k \in 1 .. Len(published[User(s)]) : published[User(s)][k].source = s
      BY <2>3, <1>1, <1>2 DEF EInv, OkAnnounced, OthersUnchanged, IsWrite
    <3>3. k \in 1 .. Len(published'[User(s)]) /\ published'[User(s)][k] = published[User(s)][k]
      BY <3>1, <3>2, <1>5, <1>6
    <3>. QED
      BY <3>2, <3>3, <2>1
  <2>. QED
    BY <2>2, <2>3
<1>. QED
  BY <1>7, <1>8, <1>9, <1>10 DEF EventsHaveSources

(* The initial state has no event. *)
LEMMA InitEInv == Init => EInv
<1>. SUFFICES ASSUME Init PROVE EInv
  OBVIOUS
<1>1. EventsHaveSources /\ OkAnnounced
  BY DEF Init, EventsHaveSources, OkAnnounced
<1>. QED
  BY <1>1, InitIInv DEF EInv

LEMMA NextEInv == EInv /\ [Next]_vars => EInv'
<1>. SUFFICES ASSUME EInv, [Next]_vars
              PROVE  EventsHaveSources' /\ OkAnnounced'
  BY NextIInv DEF EInv
<1>1. CASE UNCHANGED vars
  BY <1>1 DEF vars, EInv, EventsHaveSources, EventHasSource, OkAnnounced, IsWrite, User
<1>2. ASSUME NEW r \in Requests,
             GetSnapshot(r) \/ GetNamespace(r) \/ PutSnapshot(r) \/ PutNamespace(r)
      PROVE  EventsHaveSources' /\ OkAnnounced'
  <2>1. PICK q : Arrive(r, q)
    BY <1>2 DEF GetSnapshot, GetNamespace, PutSnapshot, PutNamespace
  <2>2. /\ OthersUnchanged(r) /\ published' = published /\ pc[r] = "idle"
        /\ status'[r] # "ok"
    BY <2>1 DEF EInv, IInv, TypeOK, Arrive, OthersUnchanged, RequestsWellFormed
  <2>. QED
    BY <2>2, QuietStep
<1>3. ASSUME NEW r \in Requests,
             \/ EnsureUserDocument(r) \/ LoadSnapshot(r) \/ ReadVersion(r)
             \/ UpdateNamespace(r) \/ ReplaceSnapshot(r) \/ Commit(r) \/ Fail(r)
      PROVE  EventsHaveSources' /\ OkAnnounced'
  <2>1. /\ published' = published /\ request' = request /\ pc[r] # "done"
        /\ pc[r] # "idle"
    BY <1>3 DEF EnsureUserDocument, LoadSnapshot, ReadVersion, UpdateNamespace,
       ReplaceSnapshot, Locking, Commit, Fail, InFlight
  <2>2. OthersUnchanged(r)
    BY <1>3 DEF EInv, IInv, TypeOK, EnsureUserDocument, LoadSnapshot, ReadVersion,
       UpdateNamespace, ReplaceSnapshot, Locking, Commit, Fail, OthersUnchanged
  <2>3. status'[r] = "ok" => pc[r] = "load"
    BY <1>3, <2>1 DEF EInv, IInv, TypeOK, RequestsWellFormed, EnsureUserDocument,
       LoadSnapshot, ReadVersion, UpdateNamespace, ReplaceSnapshot, Locking, Commit, Fail
  <2>4. status'[r] = "ok" => ~IsWrite(r)'
    BY <2>1, <2>3 DEF EInv, IInv, RequestsWellFormed, IsWrite
  <2>. QED
    BY <2>1, <2>2, <2>4, QuietStep
<1>. QED
  BY <1>1, <1>2, <1>3, SendUserEventEInv DEF Next, Step

(* Events announce committed versions, once each, before the 200. *)
THEOREM StoreEventsFollowCommits == Spec => []EventsFollowCommits
<1>1. EInv => EventsFollowCommits
  <2>. SUFFICES ASSUME EInv PROVE EventsFollowCommits
    OBVIOUS
  <2>1. ASSUME NEW u \in Users, NEW k \in 1 .. Len(published[u])
        PROVE  /\ \E i \in 1 .. Len(rows[u]) : /\ rows[u][i].by = published[u][k].source
                                               /\ rows[u][i].version = published[u][k].version
               /\ \A m \in 1 .. Len(published[u]) :
                    published[u][m].source = published[u][k].source => m = k
    <3>1. EventHasSource(u, k)
      BY <2>1 DEF EInv, EventsHaveSources
    <3>2. PICK s \in Requests : s = published[u][k].source
      BY <3>1 DEF EventHasSource
    <3>3. PICK i \in 1 .. Len(rows[u]) : rows[u][i] = row[s] /\ row[s].by = s
      BY <3>1, <3>2 DEF EventHasSource, EInv, IInv, CommittedWrites
    <3>. QED
      BY <3>1, <3>2, <3>3 DEF EventHasSource
  <2>. QED
    BY <2>1 DEF EventsFollowCommits, EInv, OkAnnounced
<1>. QED
  BY <1>1, InitEInv, NextEInv, PTL DEF Spec

-----------------------------------------------------------------------------
(* When a user's PUTs do not overlap.                                                   *)

Writing(r) == InFlight(r) /\ IsWrite(r)

OnePut == \A r, s \in Requests : Writing(r) /\ Writing(s) /\ User(r) = User(s) => r = s

(* Nobody has committed since the PUT under way read the row, and the row it committed  *)
(* is the last one until its event is out.                                              *)
Undisturbed ==
  \A r \in Requests :
    /\ pc[r] \in {"update", "commit"} => readAt[r] = Len(rows[User(r)])
    /\ pc[r] = "send" => CommittedRow(User(r)).by = r

OInv == EInv /\ OnePut /\ Undisturbed /\ VersionsCountWrites /\ EventsInVersionOrder

LEMMA InitOInv == Init => OInv
  BY InitEInv DEF Init, OInv, OnePut, Undisturbed, VersionsCountWrites, EventsInVersionOrder,
     Writing, InFlight

(* What a step of r that is no arrival leaves alone. *)
LEMMA StepFacts ==
  ASSUME IInv, NEW r \in Requests, Step(r) \/ Fail(r)
  PROVE  /\ request' = request /\ InFlight(r)
         /\ \A s \in Requests : s # r =>
              pc'[s] = pc[s] /\ readAt'[s] = readAt[s] /\ status'[s] = status[s] /\ row'[s] = row[s]
         /\ User(r) \in Users
<1>1. request' = request /\ InFlight(r)
  BY DEF Step, EnsureUserDocument, LoadSnapshot, ReadVersion, UpdateNamespace, ReplaceSnapshot,
     Locking, Commit, SendUserEvent, Fail, InFlight
<1>2. \A s \in Requests : s # r =>
        pc'[s] = pc[s] /\ readAt'[s] = readAt[s] /\ status'[s] = status[s] /\ row'[s] = row[s]
  BY DEF IInv, TypeOK, Step, EnsureUserDocument, LoadSnapshot, ReadVersion, UpdateNamespace,
     ReplaceSnapshot, Locking, Commit, SendUserEvent, Fail
<1>3. User(r) \in Users
  BY <1>1 DEF IInv, TypeOK, RequestsWellFormed, InFlight, User, Request
<1>. QED
  BY <1>1, <1>2, <1>3

(* A PUT arrives only when none of its user is under way. *)
LEMMA OnePutKept ==
  ASSUME OneWriter, OInv, [Next]_vars
  PROVE  OnePut'
<1>1. CASE UNCHANGED vars
  BY <1>1 DEF vars, OInv, OnePut, Writing, InFlight, IsWrite, User
<1>2. ASSUME NEW r \in Requests, NEW q \in Request, Arrive(r, q),
             q.op \in {"put_namespace", "put_snapshot"} => ~WriteInFlight(q.user)
      PROVE  OnePut'
  <2>1. request'[r] = q /\ \A s \in Requests : s # r => request'[s] = request[s] /\ pc'[s] = pc[s]
    BY <1>2 DEF OInv, EInv, IInv, TypeOK, Arrive
  <2>2. \A s \in Requests : s # r => Writing(s)' = Writing(s) /\ User(s)' = User(s)
    BY <2>1 DEF Writing, InFlight, IsWrite, User
  <2>3. Writing(r)' => \A s \in Requests : Writing(s) => User(s) # User(r)'
    BY <1>2, <2>1 DEF Writing, InFlight, IsWrite, User, WriteInFlight
  <2>. QED
    BY <2>2, <2>3 DEF OInv, OnePut
<1>3. ASSUME NEW r \in Requests,
             GetSnapshot(r) \/ GetNamespace(r) \/ PutSnapshot(r) \/ PutNamespace(r)
      PROVE  OnePut'
  <2>1. CASE GetSnapshot(r)
    BY <1>2, <2>1 DEF GetSnapshot, Request, Ops
  <2>2. CASE GetNamespace(r)
    BY <1>2, <2>2 DEF GetNamespace, Request, Ops
  <2>3. CASE PutSnapshot(r)
    BY <1>2, <2>3 DEF PutSnapshot, Request, Ops
  <2>4. CASE PutNamespace(r)
    BY <1>2, <2>4 DEF PutNamespace, Request, Ops
  <2>. QED
    BY <1>3, <2>1, <2>2, <2>3, <2>4
<1>4. ASSUME NEW r \in Requests, Step(r) \/ Fail(r)
      PROVE  OnePut'
  <2>1. \A s \in Requests : /\ Writing(s)' => Writing(s)
                            /\ User(s)' = User(s)
    BY <1>4, StepFacts DEF OInv, EInv, Writing, InFlight, IsWrite, User
  <2>. QED
    BY <2>1 DEF OInv, OnePut
<1>. QED
  BY <1>1, <1>3, <1>4 DEF Next

(* A step that leaves the table and the events alone. *)
LEMMA TableAndEventsAlone ==
  ASSUME OInv, rows' = rows, published' = published,
         \A s \in Requests :
           /\ pc'[s] \in {"update", "commit"} =>
                /\ request'[s] = request[s]
                /\ \/ pc[s] \in {"update", "commit"} /\ readAt'[s] = readAt[s]
                   \/ readAt'[s] = Len(rows[User(s)])
           /\ pc'[s] = "send" => pc[s] = "send" /\ request'[s] = request[s]
  PROVE  Undisturbed' /\ VersionsCountWrites' /\ EventsInVersionOrder'
<1>1. Undisturbed'
  BY DEF OInv, Undisturbed, CommittedRow, User
<1>. QED
  BY <1>1 DEF OInv, VersionsCountWrites, EventsInVersionOrder

LEMMA EnsureOInv ==
  ASSUME OInv, NEW r \in Requests, EnsureUserDocument(r)
  PROVE  Undisturbed' /\ VersionsCountWrites' /\ EventsInVersionOrder'
<1>1. /\ request' = request /\ readAt' = readAt /\ published' = published
      /\ \A s \in Requests : pc'[s] \in {"update", "commit", "send"} => pc'[s] = pc[s]
      /\ \A u \in Users : rows'[u] = rows[u] \/ (rows[u] = <<>> /\ rows'[u] = <<Blank>>)
  BY DEF OInv, EInv, IInv, TypeOK, EnsureUserDocument, AfterEnsure
<1>2. \A s \in Requests : pc'[s] \in {"update", "commit", "send"} =>
        User(s) \in Users /\ rows[User(s)] # <<>>
  BY <1>1 DEF OInv, EInv, IInv, TypeOK, RequestsWellFormed, User, Request
<1>3. Undisturbed'
  BY <1>1, <1>2 DEF OInv, Undisturbed, CommittedRow, User
<1>4. VersionsCountWrites'
  <2>. SUFFICES ASSUME NEW u \in Users, NEW i \in 1 .. Len(rows'[u])
                PROVE  rows'[u][i].version = i - 1
    BY DEF VersionsCountWrites
  <2>1. CASE rows'[u] = rows[u]
    BY <2>1 DEF OInv, VersionsCountWrites
  <2>2. CASE rows'[u] = <<Blank>>
    BY <2>2 DEF Blank
  <2>. QED
    BY <2>1, <2>2, <1>1
<1>. QED
  BY <1>1, <1>3, <1>4 DEF OInv, EventsInVersionOrder

(* The last row is the one that was read, so that the new one is one version on. *)
LEMMA CommitOInv ==
  ASSUME OInv, NEW r \in Requests, Commit(r)
  PROVE  Undisturbed' /\ VersionsCountWrites' /\ EventsInVersionOrder'
<1>. DEFINE u0 == User(r)
            n == Len(rows[u0])
<1>1. /\ pc[r] = "commit" /\ pc' = [pc EXCEPT ![r] = "send"] /\ pc'[r] = "send"
      /\ request' = request /\ readAt' = readAt /\ published' = published
      /\ u0 \in Users /\ IsWrite(r) /\ rows[u0] \in Seq(Row) /\ row[r] \in Row /\ n \in Nat
  BY DEF OInv, EInv, IInv, TypeOK, Commit, RequestsWellFormed, User, Request
<1>2. /\ rows'[u0] = Append(rows[u0], row[r])
      /\ \A u \in Users : u # u0 => rows'[u] = rows[u]
  BY <1>1 DEF OInv, EInv, IInv, TypeOK, Commit
<1>3. /\ Len(rows'[u0]) = n + 1 /\ rows'[u0][n + 1] = row[r]
      /\ \A i \in 1 .. n : rows'[u0][i] = rows[u0][i]
  BY <1>1, <1>2, AppendFacts
<1>4. row[r].by = r /\ row[r].version = n
  <2>1. /\ HasRead(r) /\ readAt[r] = n
        /\ row[r].by = r /\ row[r].version = current[r] + 1
    <3>1. HasRead(r) /\ readAt[r] = n
      BY <1>1 DEF OInv, EInv, IInv, ReadsRemembered, Undisturbed
    <3>2. row[r] = [by |-> r, version |-> current[r] + 1,
                    data |-> [d \in Domains |-> IF d \in request[r].domains THEN r
                                                ELSE CommittedRow(u0).data[d]]]
      BY <1>1 DEF OInv, EInv, IInv, PendingRows
    <3>. QED
      BY <3>1, <3>2
  <2>2. n \in 1 .. n /\ current[r] = rows[u0][n].version
    BY <2>1 DEF HasRead
  <2>3. rows[u0][n].version = n - 1
    BY <1>1, <2>2 DEF OInv, VersionsCountWrites
  <2>. QED
    BY <1>1, <2>1, <2>2, <2>3
<1>5. VersionsCountWrites'
  <2>. SUFFICES ASSUME NEW u \in Users, NEW i \in 1 .. Len(rows'[u])
                PROVE  rows'[u][i].version = i - 1
    BY DEF VersionsCountWrites
  <2>1. CASE u # u0
    BY <2>1, <1>2 DEF OInv, VersionsCountWrites
  <2>2. CASE u = u0 /\ i = n + 1
    BY <2>2, <1>1, <1>3, <1>4
  <2>3. CASE u = u0 /\ i # n + 1
    <3>1. i \in 1 .. n
      BY <2>3, <1>1, <1>3
    <3>. QED
      BY <2>3, <3>1, <1>3 DEF OInv, VersionsCountWrites
  <2>. QED
    BY <2>1, <2>2, <2>3
<1>6. Undisturbed'
  <2>. SUFFICES ASSUME NEW s \in Requests, pc'[s] \in {"update", "commit", "send"}
                PROVE  /\ pc'[s] \in {"update", "commit"} => readAt'[s] = Len(rows'[User(s)])
                       /\ pc'[s] = "send" => CommittedRow(User(s))'.by = s
    BY <1>1 DEF Undisturbed, User
  <2>0. User(s)' = User(s)
    BY <1>1 DEF User
  <2>1. CASE s = r
    BY <2>0, <2>1, <1>1, <1>3, <1>4 DEF CommittedRow
  <2>2. CASE s # r
    <3>1. pc'[s] = pc[s] /\ User(s) \in Users /\ Writing(s) /\ Writing(r)
      BY <2>2, <1>1 DEF OInv, EInv, IInv, TypeOK, RequestsWellFormed, User, Request, Writing, InFlight
    <3>2. rows'[User(s)] = rows[User(s)]
      BY <2>2, <3>1, <1>2 DEF OInv, OnePut
    <3>. QED
      BY <2>0, <3>1, <3>2, <1>1 DEF OInv, Undisturbed, CommittedRow
  <2>. QED
    BY <2>1, <2>2
<1>. QED
  BY <1>1, <1>5, <1>6 DEF OInv, EventsInVersionOrder

(* The row announced is the last one: what was announced before are earlier ones. *)
LEMMA SendUserEventOInv ==
  ASSUME OInv, NEW r \in Requests, SendUserEvent(r)
  PROVE  Undisturbed' /\ VersionsCountWrites' /\ EventsInVersionOrder'
<1>. DEFINE u0 == User(r)
            n == Len(rows[u0])
            m == Len(published[u0])
<1>1. /\ pc[r] = "send" /\ pc' = [pc EXCEPT ![r] = "done"]
      /\ request' = request /\ readAt' = readAt /\ rows' = rows
      /\ u0 \in Users /\ IsWrite(r) /\ rows[u0] \in Seq(Row) /\ n \in Nat
      /\ Notice(r) \in Event /\ Notice(r).version = row[r].version
      /\ published[u0] \in Seq(Event) /\ m \in Nat
  <2>1. /\ pc[r] = "send" /\ pc' = [pc EXCEPT ![r] = "done"]
        /\ request' = request /\ readAt' = readAt /\ rows' = rows
    BY DEF SendUserEvent
  <2>2. request[r] \in Request /\ row[r] \in Row /\ IsWrite(r)
    BY <2>1 DEF OInv, EInv, IInv, TypeOK, RequestsWellFormed
  <2>3. u0 \in Users /\ Notice(r) \in Event /\ Notice(r).version = row[r].version
    BY <2>2 DEF User, Request, Notice, Event, Row
  <2>4. /\ rows[u0] \in Seq(Row) /\ n \in Nat
        /\ published[u0] \in Seq(Event) /\ m \in Nat
    BY <2>3 DEF OInv, EInv, IInv, TypeOK
  <2>. QED
    BY <2>1, <2>2, <2>3, <2>4
<1>2. /\ published'[u0] = Append(published[u0], Notice(r))
      /\ \A u \in Users : u # u0 => published'[u] = published[u]
  BY <1>1 DEF OInv, EInv, IInv, TypeOK, SendUserEvent
<1>3. /\ Len(published'[u0]) = m + 1 /\ published'[u0][m + 1] = Notice(r)
      /\ \A k \in 1 .. m : published'[u0][k] = published[u0][k]
  BY <1>1, <1>2, AppendFacts
<1>4. rows[u0] # <<>> /\ n >= 1 /\ rows[u0][n].by = r
  BY <1>1 DEF OInv, EInv, IInv, RequestsWellFormed, Undisturbed, CommittedRow
<1>5. row[r].version = n - 1
  <2>1. n > 1
    BY <1>1, <1>4, NoRequestAssumption DEF OInv, EInv, IInv, RowsHaveWriters, Blank
  <2>2. row[r] = rows[u0][n]
    BY <1>1, <1>4, <2>1 DEF OInv, EInv, IInv, RowsHaveWriters, RowHasWriter
  <2>. QED
    BY <1>1, <1>4, <2>2 DEF OInv, VersionsCountWrites
<1>6. \A k \in 1 .. m : published[u0][k].version < n - 1
  <2>. TAKE k \in 1 .. m
  <2>1. EventHasSource(u0, k)
    BY <1>1 DEF OInv, EInv, EventsHaveSources
  <2>2. PICK s \in Requests : s = published[u0][k].source /\ s # r
    BY <1>1, <2>1 DEF EventHasSource
  <2>3. PICK i \in 1 .. n : rows[u0][i] = row[s] /\ row[s].by = s
    BY <2>1, <2>2 DEF EventHasSource, OInv, EInv, IInv, CommittedWrites
  <2>4. i # n
    BY <1>4, <2>2, <2>3
  <2>5. published[u0][k].version = i - 1
    BY <1>1, <2>1, <2>2, <2>3 DEF EventHasSource, OInv, VersionsCountWrites
  <2>. QED
    BY <1>1, <2>4, <2>5
<1>7. EventsInVersionOrder'
  <2>. SUFFICES ASSUME NEW u \in Users, NEW k \in 1 .. Len(published'[u]),
                       NEW l \in 1 .. Len(published'[u]), k < l
                PROVE  published'[u][k].version < published'[u][l].version
    BY DEF EventsInVersionOrder
  <2>1. CASE u # u0
    BY <2>1, <1>2 DEF OInv, EventsInVersionOrder
  <2>2. CASE u = u0 /\ l = m + 1
    <3>1. k \in 1 .. m
      BY <2>2, <1>1, <1>3
    <3>. QED
      BY <2>2, <3>1, <1>1, <1>3, <1>5, <1>6
  <2>3. CASE u = u0 /\ l # m + 1
    <3>1. k \in 1 .. m /\ l \in 1 .. m
      BY <2>3, <1>1, <1>3
    <3>. QED
      BY <2>3, <3>1, <1>3 DEF OInv, EventsInVersionOrder
  <2>. QED
    BY <2>1, <2>2, <2>3
<1>8. Undisturbed'
  BY <1>1 DEF OInv, EInv, IInv, TypeOK, Undisturbed, CommittedRow, User
<1>. QED
  BY <1>1, <1>7, <1>8 DEF OInv, VersionsCountWrites

LEMMA NextOInv ==
  ASSUME OneWriter, OInv, [Next]_vars
  PROVE  OInv'
<1>1. EInv' /\ OnePut'
  BY NextEInv, OnePutKept DEF OInv
<1>2. CASE UNCHANGED vars
  BY <1>1, <1>2 DEF vars, OInv, Undisturbed, VersionsCountWrites, EventsInVersionOrder, CommittedRow,
     User
<1>3. ASSUME NEW r \in Requests,
             GetSnapshot(r) \/ GetNamespace(r) \/ PutSnapshot(r) \/ PutNamespace(r)
      PROVE  Undisturbed' /\ VersionsCountWrites' /\ EventsInVersionOrder'
  <2>1. PICK q : Arrive(r, q)
    BY <1>3 DEF GetSnapshot, GetNamespace, PutSnapshot, PutNamespace
  <2>2. \A s \in Requests : pc'[s] \in {"update", "commit", "send"} =>
          pc[s] = pc'[s] /\ request'[s] = request[s]
    BY <2>1 DEF OInv, EInv, IInv, TypeOK, Arrive
  <2>. QED
    BY <2>1, <2>2, TableAndEventsAlone DEF Arrive
<1>4. ASSUME NEW r \in Requests,
             \/ LoadSnapshot(r) \/ ReadVersion(r) \/ UpdateNamespace(r)
             \/ ReplaceSnapshot(r) \/ Fail(r)
      PROVE  Undisturbed' /\ VersionsCountWrites' /\ EventsInVersionOrder'
  <2>1. rows' = rows /\ published' = published /\ request' = request
    BY <1>4 DEF LoadSnapshot, ReadVersion, UpdateNamespace, ReplaceSnapshot, Locking, Fail
  <2>2. \A s \in Requests : s # r => pc'[s] = pc[s] /\ readAt'[s] = readAt[s]
    BY <1>4, StepFacts DEF OInv, EInv, Step
  <2>3. /\ pc'[r] # "send"
        /\ pc'[r] \in {"update", "commit"} =>
             \/ pc[r] \in {"update", "commit"} /\ readAt'[r] = readAt[r]
             \/ readAt'[r] = Len(rows[User(r)])
    BY <1>4 DEF OInv, EInv, IInv, TypeOK, LoadSnapshot, ReadVersion, UpdateNamespace, ReplaceSnapshot,
       Locking, Fail
  <2>. QED
    BY <2>1, <2>2, <2>3, TableAndEventsAlone
<1>. QED
  BY <1>1, <1>2, <1>3, <1>4, EnsureOInv, CommitOInv, SendUserEventOInv DEF Next, Step, OInv

(* Every reachable state satisfies OInv, if PUTs of a user do not overlap. *)
THEOREM StoreOneWriter == ASSUME OneWriter PROVE Spec => []OInv
<1>1. OInv /\ [Next]_vars => OInv'
  BY NextOInv
<1>. QED
  BY <1>1, InitOInv, PTL DEF Spec

(* Without overlapping PUTs the i-th write of a user stores version i. *)
THEOREM StoreVersionsCountWrites == ASSUME OneWriter PROVE Spec => []VersionsCountWrites
<1>1. OInv => VersionsCountWrites
  BY DEF OInv
<1>. QED
  BY <1>1, StoreOneWriter, PTL

(* Without overlapping PUTs events leave in the order of their versions. *)
THEOREM StoreEventsInVersionOrder == ASSUME OneWriter PROVE Spec => []EventsInVersionOrder
<1>1. OInv => EventsInVersionOrder
  BY DEF OInv
<1>. QED
  BY <1>1, StoreOneWriter, PTL

(* Without overlapping PUTs a PUT that is answered 200 replaced the version it expected. *)
THEOREM StoreNoLostUpdate == ASSUME OneWriter PROVE Spec => []NoLostUpdate
<1>1. OInv => NoLostUpdate
  <2>. SUFFICES ASSUME OInv, NEW u \in Users, NEW i \in 1 .. Len(rows[u]),
                       rows[u][i].by # NoRequest
                PROVE  request[rows[u][i].by].version \in {Absent, rows[u][i-1].version}
    BY DEF NoLostUpdate
  <2>1. i > 1 /\ Len(rows[u]) \in Nat
    BY DEF OInv, EInv, IInv, TypeOK, RowsHaveWriters, Blank
  <2>2. PICK w \in Requests : w = rows[u][i].by /\ RowHasWriter(u, i)
    BY <2>1 DEF OInv, EInv, IInv, RowsHaveWriters, RowHasWriter
  <2>3. /\ HasRead(w) /\ User(w) = u /\ rows[u][i].version = current[w] + 1
    BY <2>2 DEF RowHasWriter
  <2>4. rows[u][i].version = i - 1 /\ rows[u][i-1].version = i - 2
    BY <2>1 DEF OInv, VersionsCountWrites
  <2>5. current[w] \in Int
    BY DEF OInv, EInv, IInv, TypeOK
  <2>6. request[w].version \in {Absent, current[w]}
    BY <2>3 DEF HasRead
  <2>7. current[w] = rows[u][i-1].version
    BY <2>1, <2>3, <2>4, <2>5
  <2>. QED
    BY <2>2, <2>6, <2>7
<1>. QED
  BY <1>1, StoreOneWriter, PTL

(* Without overlapping PUTs a 304 means that the caller still holds the content. *)
THEOREM StoreNotModified == ASSUME OneWriter PROVE Spec => NotModifiedMeansUnchanged
<1>1. OInv /\ [Next]_vars =>
        [\A r \in Requests :
          (status[r] # "not_modified" /\ status'[r] = "not_modified") =>
            \A i \in 1 .. Len(rows[User(r)]) :
              rows[User(r)][i].version = request[r].version =>
                rows[User(r)][i].data = CommittedRow(User(r)).data]_vars
  <2>. SUFFICES ASSUME OInv, Next, NEW r \in Requests,
                       status[r] # "not_modified", status'[r] = "not_modified",
                       NEW i \in 1 .. Len(rows[User(r)]),
                       rows[User(r)][i].version = request[r].version
                PROVE  rows[User(r)][i].data = CommittedRow(User(r)).data
    BY DEF vars
  <2>1. LoadSnapshot(r)
    BY DEF Next, Step, GetSnapshot, GetNamespace, PutSnapshot, PutNamespace, Arrive, EnsureUserDocument,
       LoadSnapshot, ReadVersion, UpdateNamespace, ReplaceSnapshot, Locking, Commit, SendUserEvent,
       Fail, OInv, EInv, IInv, TypeOK
  <2>. DEFINE u == User(r)
              n == Len(rows[u])
  <2>2. u \in Users /\ rows[u] \in Seq(Row) /\ n \in Nat /\ n >= 1
    BY <2>1 DEF LoadSnapshot, OInv, EInv, IInv, TypeOK, RequestsWellFormed, User, Request
  <2>3. rows[u][n].version <= request[r].version
    BY <2>1 DEF LoadSnapshot, OInv, EInv, IInv, TypeOK, NotModified, CommittedRow
  <2>4. rows[u][n].version = n - 1 /\ rows[u][i].version = i - 1
    BY <2>2 DEF OInv, VersionsCountWrites
  <2>5. i = n
    BY <2>2, <2>3, <2>4
  <2>. QED
    BY <2>5 DEF CommittedRow
<1>. QED
  BY <1>1, StoreOneWriter, PTL DEF Spec, NotModifiedMeansUnchanged

-----------------------------------------------------------------------------
(* Refinement.  What SyncDocument sees of the store, by the names of its variables.      *)
DocumentOf(u) ==
  IF rows[u] = <<>> THEN [version |-> 0, data |-> [d \in Domains |-> NoRequest]]
  ELSE [version |-> CommittedRow(u).version, data |-> CommittedRow(u).data]

OutcomeOf(r) ==
  IF pc[r] = "idle" THEN "open"
  ELSE IF Applied(r) THEN "applied"
  ELSE IF status[r] = "conflict" THEN "rejected"
  ELSE IF pc[r] = "done" THEN "closed" ELSE "open"

Documents == [u \in Users |-> DocumentOf(u)]
Outcomes == [r \in Requests |-> OutcomeOf(r)]

(* A write is in the table once it has passed its commit, and a read never is. *)
LEMMA AppliedFacts ==
  ASSUME IInv, NEW r \in Requests, pc[r] # "idle"
  PROVE  /\ Applied(r) => pc[r] \in {"send", "done"} /\ IsWrite(r)
         /\ pc[r] = "send" => Applied(r)
<1>. DEFINE u == User(r)
<1>1. u \in Users
  BY DEF IInv, TypeOK, RequestsWellFormed, User, Request
<1>2. ASSUME NEW i \in 1 .. Len(rows[u]), rows[u][i].by = r
      PROVE  pc[r] \in {"send", "done"} /\ IsWrite(r)
  <2>1. i > 1
    BY <1>1, <1>2, NoRequestAssumption DEF IInv, TypeOK, RowsHaveWriters, Blank
  <2>. QED
    BY <1>1, <1>2, <2>1 DEF IInv, RowsHaveWriters, RowHasWriter
<1>3. pc[r] = "send" => \E i \in 1 .. Len(rows[u]) : rows[u][i].by = r
  BY DEF IInv, CommittedWrites
<1>. QED
  BY <1>2, <1>3 DEF Applied

(* Where the table is left alone, a request that is left alone keeps its outcome. *)
LEMMA OutcomeAlone ==
  ASSUME NEW r \in Requests, pc'[r] = pc[r], status'[r] = status[r], request'[r] = request[r],
         pc[r] # "idle" => rows'[User(r)] = rows[User(r)]
  PROVE  OutcomeOf(r)' = OutcomeOf(r)
<1>1. pc[r] # "idle" => Applied(r)' = Applied(r)
  BY DEF Applied, User
<1>. QED
  BY <1>1 DEF OutcomeOf

(* An arrival is a Submit. *)
LEMMA ArriveRefines ==
  ASSUME IInv, NEW r \in Requests, NEW q \in Request, Arrive(r, q)
  PROVE  Document!Submit(r)
<1>1. /\ request[r] = NoRequest /\ request' = [request EXCEPT ![r] = q] /\ rows' = rows
      /\ pc[r] = "idle" /\ pc'[r] = "ensure" /\ status'[r] = "none" /\ request'[r] = q
      /\ \A s \in Requests : s # r =>
           pc'[s] = pc[s] /\ status'[s] = status[s] /\ request'[s] = request[s]
  BY DEF IInv, TypeOK, RequestsWellFormed, Arrive
<1>2. ~Applied(r)'
  <2>. SUFFICES ASSUME NEW i \in 1 .. Len(rows[q.user]), rows[q.user][i].by = r
                PROVE  FALSE
    BY <1>1 DEF Applied, User
  <2>1. q.user \in Users
    BY DEF Request
  <2>2. i > 1
    BY <2>1, NoRequestAssumption DEF IInv, TypeOK, RowsHaveWriters, Blank
  <2>. QED
    BY <1>1, <2>1, <2>2 DEF IInv, RowsHaveWriters, RowHasWriter
<1>3. OutcomeOf(r)' = OutcomeOf(r)
  BY <1>1, <1>2 DEF OutcomeOf
<1>4. \A s \in Requests : s # r => OutcomeOf(s)' = OutcomeOf(s)
  BY <1>1, OutcomeAlone
<1>5. Documents' = Documents /\ Outcomes' = Outcomes
  BY <1>1, <1>3, <1>4 DEF Documents, Outcomes, DocumentOf, CommittedRow
<1>6. q \in Document!Request
  BY DEF Request, Ops, Document!Request
<1>. QED
  BY <1>1, <1>5, <1>6
  DEF Document!Submit, Documents, Outcomes, DocumentOf, OutcomeOf

(* Ensuring the row changes nothing that is seen: a missing row is a blank one. *)
LEMMA EnsureRefines ==
  ASSUME IInv, NEW r \in Requests, EnsureUserDocument(r)
  PROVE  Documents' = Documents /\ Outcomes' = Outcomes
<1>1. /\ request' = request /\ status' = status
      /\ pc[r] = "ensure" /\ pc'[r] \in {"version", "load"}
      /\ \A s \in Requests : s # r => pc'[s] = pc[s]
      /\ \A u \in Users : rows'[u] = rows[u] \/ (rows[u] = <<>> /\ rows'[u] = <<Blank>>)
  BY DEF IInv, TypeOK, EnsureUserDocument, AfterEnsure
<1>2. \A u \in Users : DocumentOf(u)' = DocumentOf(u)
  BY <1>1 DEF DocumentOf, CommittedRow, Blank
<1>3. \A s \in Requests : pc[s] # "idle" => Applied(s)' = Applied(s)
  <2>. SUFFICES ASSUME NEW s \in Requests, pc[s] # "idle" PROVE Applied(s)' = Applied(s)
    OBVIOUS
  <2>1. User(s) \in Users /\ User(s)' = User(s)
    BY <1>1 DEF IInv, TypeOK, RequestsWellFormed, User, Request
  <2>2. CASE rows'[User(s)] = rows[User(s)]
    BY <2>1, <2>2 DEF Applied
  <2>3. CASE rows[User(s)] = <<>> /\ rows'[User(s)] = <<Blank>>
    BY <2>1, <2>3, NoRequestAssumption DEF Applied, Blank
  <2>. QED
    BY <1>1, <2>1, <2>2, <2>3
<1>4. \A s \in Requests : OutcomeOf(s)' = OutcomeOf(s)
  BY <1>1, <1>3 DEF OutcomeOf
<1>. QED
  BY <1>2, <1>4 DEF Documents, Outcomes

(* Answering a read, failing before the commit: a Close; 409: a Reject; the rest shows  *)
(* nothing, the event included.                                                         *)
LEMMA QuietRefines ==
  ASSUME IInv, NEW r \in Requests,
         \/ LoadSnapshot(r) \/ ReadVersion(r) \/ UpdateNamespace(r) \/ ReplaceSnapshot(r)
         \/ SendUserEvent(r) \/ Fail(r)
  PROVE  \/ Document!Close(r) \/ Document!Reject(r)
         \/ Documents' = Documents /\ request' = request /\ Outcomes' = Outcomes
<1>1. /\ request' = request /\ rows' = rows /\ InFlight(r) /\ request[r] # NoRequest
      /\ \A s \in Requests : s # r => pc'[s] = pc[s] /\ status'[s] = status[s]
  <2>1. Step(r) \/ Fail(r)
    BY DEF Step
  <2>2. rows' = rows
    BY DEF LoadSnapshot, ReadVersion, UpdateNamespace, ReplaceSnapshot, Locking, SendUserEvent, Fail
  <2>. QED
    BY <2>1, <2>2, StepFacts DEF IInv, RequestsWellFormed, InFlight
<1>2. Documents' = Documents
  BY <1>1 DEF Documents, DocumentOf, CommittedRow
<1>3. \A s \in Requests : s # r => OutcomeOf(s)' = OutcomeOf(s)
  BY <1>1, OutcomeAlone
<1>4. /\ Applied(r)' = Applied(r)
      /\ Applied(r) => pc[r] = "send" /\ IsWrite(r)
      /\ pc[r] = "send" => Applied(r)
      /\ status[r] = "none" /\ pc[r] \notin {"idle", "done"}
  BY <1>1, AppliedFacts DEF IInv, RequestsWellFormed, Applied, User, InFlight
<1>5. CASE OutcomeOf(r)' = OutcomeOf(r)
  BY <1>1, <1>2, <1>3, <1>5 DEF Outcomes
<1>6. CASE OutcomeOf(r) = "open" /\ OutcomeOf(r)' = "closed"
  <2>1. Outcomes' = [Outcomes EXCEPT ![r] = "closed"] /\ Outcomes[r] = "open"
    BY <1>3, <1>6 DEF Outcomes
  <2>. QED
    BY <1>1, <1>2, <2>1
    DEF Document!Close, Document!Open, Documents, Outcomes, DocumentOf, OutcomeOf
<1>7. CASE OutcomeOf(r) = "open" /\ OutcomeOf(r)' = "rejected"
  <2>1. Outcomes' = [Outcomes EXCEPT ![r] = "rejected"] /\ Outcomes[r] = "open"
    BY <1>3, <1>7 DEF Outcomes
  <2>2. /\ pc[r] = "version" /\ IsWrite(r)
        /\ Conflict(request[r].version, CommittedRow(User(r)).version)
    BY <1>4, <1>7 DEF IInv, TypeOK, RequestsWellFormed, OutcomeOf, LoadSnapshot, ReadVersion,
       UpdateNamespace, ReplaceSnapshot, Locking, SendUserEvent, Fail
  <2>3. User(r) \in Users /\ rows[User(r)] # <<>>
    BY <2>2 DEF IInv, TypeOK, RequestsWellFormed, User, Request
  <2>4. request[r].version \notin {Absent, Documents[request[r].user].version}
    BY <2>2, <2>3 DEF Conflict, Documents, DocumentOf, User
  <2>. QED
    BY <1>1, <1>2, <2>1, <2>2, <2>4
    DEF Document!Reject, Document!Open, Document!IsWrite, IsWrite, Documents, Outcomes, DocumentOf,
        OutcomeOf
<1>8. \/ OutcomeOf(r)' = OutcomeOf(r)
      \/ OutcomeOf(r) = "open" /\ OutcomeOf(r)' \in {"closed", "rejected"}
  BY <1>4 DEF OutcomeOf, IInv, TypeOK, LoadSnapshot, ReadVersion, UpdateNamespace, ReplaceSnapshot,
     Locking, SendUserEvent, Fail
<1>. QED
  BY <1>5, <1>6, <1>7, <1>8

(* The commit is where a write takes effect. *)
LEMMA CommitRefines ==
  ASSUME OInv, NEW r \in Requests, Commit(r)
  PROVE  Document!Apply(r)
<1>0. User(r) \in Users
  BY DEF OInv, EInv, IInv, TypeOK, Commit, RequestsWellFormed, User, Request
<1>. PICK u0 \in Users : u0 = User(r)
  BY <1>0
<1>. PICK n \in Nat : n = Len(rows[u0])
  BY DEF OInv, EInv, IInv, TypeOK
<1>1. /\ pc[r] = "commit" /\ pc'[r] = "send" /\ request' = request /\ status' = status
      /\ \A s \in Requests : s # r => pc'[s] = pc[s]
      /\ status[r] = "none" /\ request[r] # NoRequest
      /\ u0 \in Users /\ IsWrite(r) /\ rows[u0] \in Seq(Row) /\ rows[u0] # <<>>
      /\ row[r] \in Row /\ n \in Nat
  BY DEF OInv, EInv, IInv, TypeOK, Commit, RequestsWellFormed, User, Request
<1>2. /\ rows'[u0] = Append(rows[u0], row[r])
      /\ \A u \in Users : u # u0 => rows'[u] = rows[u]
  BY <1>1 DEF OInv, EInv, IInv, TypeOK, Commit
<1>3. /\ Len(rows'[u0]) = n + 1 /\ rows'[u0][n + 1] = row[r] /\ rows'[u0] # <<>>
      /\ \A i \in 1 .. n : rows'[u0][i] = rows[u0][i]
  BY <1>1, <1>2, AppendFacts
<1>4. row[r] = [by |-> r, version |-> current[r] + 1,
                data |-> [d \in Domains |-> IF d \in request[r].domains THEN r
                                            ELSE CommittedRow(u0).data[d]]]
  BY <1>1 DEF OInv, EInv, IInv, PendingRows
<1>5. current[r] = CommittedRow(u0).version /\ request[r].version \in {Absent, current[r]}
  <2>1. HasRead(r) /\ readAt[r] = n
    BY <1>1 DEF OInv, EInv, IInv, ReadsRemembered, Undisturbed
  <2>. QED
    BY <2>1 DEF HasRead, CommittedRow
<1>6. /\ Documents[u0] = [version |-> CommittedRow(u0).version, data |-> CommittedRow(u0).data]
      /\ DocumentOf(u0)' = [version |-> row[r].version, data |-> row[r].data]
      /\ \A u \in Users : u # u0 => DocumentOf(u)' = DocumentOf(u)
  <2>1. Documents[u0] = [version |-> CommittedRow(u0).version, data |-> CommittedRow(u0).data]
    BY <1>1 DEF Documents, DocumentOf
  <2>2. \A u : DocumentOf(u)' =
          IF rows'[u] = <<>> THEN [version |-> 0, data |-> [d \in Domains |-> NoRequest]]
          ELSE [version |-> rows'[u][Len(rows'[u])].version, data |-> rows'[u][Len(rows'[u])].data]
    BY DEF DocumentOf, CommittedRow
  <2>3. DocumentOf(u0)' = [version |-> row[r].version, data |-> row[r].data]
    BY <1>3, <2>2
  <2>4. \A u \in Users : u # u0 => DocumentOf(u)' = DocumentOf(u)
    BY <1>2, <2>2 DEF DocumentOf, CommittedRow
  <2>. QED
    BY <2>1, <2>3, <2>4
<1>7. Documents' = [Documents EXCEPT ![u0] =
        [version |-> Documents[u0].version + 1,
         data |-> [d \in Domains |-> IF d \in request[r].domains THEN r ELSE Documents[u0].data[d]]]]
  <2>1. DocumentOf(u0)' =
        [version |-> Documents[u0].version + 1,
         data |-> [d \in Domains |-> IF d \in request[r].domains THEN r ELSE Documents[u0].data[d]]]
    <3>1. Documents[u0].version = current[r] /\ Documents[u0].data = CommittedRow(u0).data
      BY <1>5, <1>6
    <3>2. /\ row[r].version = current[r] + 1
          /\ row[r].data = [d \in Domains |-> IF d \in request[r].domains THEN r
                                              ELSE CommittedRow(u0).data[d]]
      BY <1>4
    <3>. QED
      BY <1>6, <3>1, <3>2
  <2>. QED
    BY <1>6, <2>1 DEF Documents
<1>8. Outcomes' = [Outcomes EXCEPT ![r] = "applied"] /\ Outcomes[r] = "open"
  <2>1. OutcomeOf(r) = "open"
    BY <1>1, AppliedFacts DEF OInv, EInv, OutcomeOf
  <2>2. OutcomeOf(r)' = "applied"
    <3>1. n + 1 \in 1 .. Len(rows'[u0]) /\ rows'[u0][n + 1].by = r
      BY <1>1, <1>3, <1>4
    <3>. QED
      BY <3>1, <1>1 DEF OutcomeOf, Applied, User
  <2>3. ASSUME NEW s \in Requests, s # r
        PROVE  OutcomeOf(s)' = OutcomeOf(s)
    <3>1. CASE pc[s] = "idle" \/ User(s) # u0
      <4>1. pc[s] # "idle" => User(s) \in Users
        BY DEF OInv, EInv, IInv, TypeOK, RequestsWellFormed, User, Request
      <4>. QED
        BY <3>1, <4>1, <2>3, <1>1, <1>2, OutcomeAlone
    <3>2. CASE pc[s] # "idle" /\ User(s) = u0
      <4>1. User(s)' = u0
        BY <3>2, <1>1 DEF User
      <4>2. Applied(s)' = Applied(s)
        BY <4>1, <3>2, <2>3, <1>1, <1>3, <1>4 DEF Applied
      <4>. QED
        BY <4>2, <2>3, <1>1 DEF OutcomeOf
    <3>. QED
      BY <3>1, <3>2
  <2>. QED
    BY <2>1, <2>2, <2>3 DEF Outcomes
<1>9. request[r].version \in {Absent, Documents[request[r].user].version}
  BY <1>5, <1>6 DEF User
<1>10. Document!Open(r) /\ Document!IsWrite(r)
  BY <1>1, <1>8 DEF Document!Open, Document!IsWrite, IsWrite, Outcomes, OutcomeOf
<1>11. request[r].user = u0
  BY DEF User
<1>. QED
  <2>1. UNCHANGED request
    BY <1>1
  <2>. QED
    BY <1>7, <1>8, <1>9, <1>10, <1>11, <2>1
    DEF Document!Apply, Documents, Outcomes, DocumentOf, OutcomeOf

(* Without overlapping PUTs the handlers implement the atomic document. *)
THEOREM StoreImplementsDocument == ASSUME OneWriter PROVE Spec => ImplementsSyncDocument
<1>1. Init => Document!Init
  BY DEF Init, Document!Init, Document!Blank
<1>2. OInv /\ [Next]_vars => [Document!Next]_(Document!vars)
  <2>. SUFFICES ASSUME OInv, [Next]_vars
                PROVE  Document!Next \/ UNCHANGED Document!vars
    OBVIOUS
  <2>1. ASSUME Documents' = Documents, request' = request, Outcomes' = Outcomes
        PROVE  UNCHANGED Document!vars
    BY <2>1 DEF Document!vars, Documents, Outcomes, DocumentOf, OutcomeOf
  <2>2. CASE UNCHANGED vars
    <3>1. Documents' = Documents /\ Outcomes' = Outcomes
      BY <2>2 DEF vars, Documents, Outcomes, DocumentOf, OutcomeOf, Applied, User, CommittedRow
    <3>. QED
      BY <2>1, <2>2, <3>1 DEF vars
  <2>3. ASSUME NEW r \in Requests,
               GetSnapshot(r) \/ GetNamespace(r) \/ PutSnapshot(r) \/ PutNamespace(r)
        PROVE  Document!Next
    <3>1. PICK q \in Request : Arrive(r, q)
      <4>1. CASE GetSnapshot(r)
        BY <4>1 DEF GetSnapshot, Request, Ops
      <4>2. CASE GetNamespace(r)
        BY <4>2 DEF GetNamespace, Request, Ops
      <4>3. CASE PutSnapshot(r)
        BY <4>3 DEF PutSnapshot, Request, Ops
      <4>4. CASE PutNamespace(r)
        BY <4>4 DEF PutNamespace, Request, Ops
      <4>. QED
        BY <2>3, <4>1, <4>2, <4>3, <4>4
    <3>2. Document!Submit(r)
      BY <3>1, ArriveRefines DEF OInv, EInv
    <3>. QED
      BY <3>2 DEF Document!Next
  <2>4. ASSUME NEW r \in Requests, EnsureUserDocument(r)
        PROVE  UNCHANGED Document!vars
    <3>1. Documents' = Documents /\ Outcomes' = Outcomes
      BY <2>4, EnsureRefines DEF OInv, EInv
    <3>. QED
      BY <2>1, <2>4, <3>1 DEF EnsureUserDocument
  <2>5. ASSUME NEW r \in Requests, Commit(r)
        PROVE  Document!Next
    <3>1. Document!Apply(r)
      BY <2>5, CommitRefines
    <3>. QED
      BY <3>1 DEF Document!Next
  <2>6. ASSUME NEW r \in Requests,
               \/ LoadSnapshot(r) \/ ReadVersion(r) \/ UpdateNamespace(r) \/ ReplaceSnapshot(r)
               \/ SendUserEvent(r) \/ Fail(r)
        PROVE  Document!Next \/ UNCHANGED Document!vars
    <3>1. \/ Document!Close(r) \/ Document!Reject(r)
          \/ Documents' = Documents /\ request' = request /\ Outcomes' = Outcomes
      BY <2>6, QuietRefines DEF OInv, EInv
    <3>. QED
      BY <3>1, <2>1 DEF Document!Next
  <2>. QED
    BY <2>2, <2>3, <2>4, <2>5, <2>6 DEF Next, Step
<1>. QED
  BY <1>1, <1>2, StoreOneWriter, PTL DEF Spec, ImplementsSyncDocument, Document!Spec

=============================================================================
