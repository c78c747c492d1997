---------------------------- MODULE AccountsProofs ----------------------------
(* Orders to refuse somebody hold, credentials work and the legacy document is kept for *)
(* any users, tokens, requests, replicas and number of starts.                          *)
EXTENDS Accounts, FiniteSetTheorems, TLAPS

Pcs == {"authenticate", "execute", "insert", "done"}
Arrived(r) == requests[r].pc \in Pcs

Enabled(u, q) == \E e \in Requests : Switched(e, u, FALSE) /\ e \notin requests[q].before

(* RefusalsHold, of a request that is authenticated; "none" is no refusal. *)
Obeyed(r) ==
  LET t == requests[r].token IN
  \A q \in requests[r].before :
    /\ Did(q, "revoke_token") /\ requests[q].op.token = t /\ t # AdminToken
         => requests[r].answer = "unauthorized"
    /\ \A u \in Users :
         tokens[t] # NoToken /\ tokens[t].user = u /\ Switched(q, u, TRUE) /\ ~Enabled(u, q)
         => Refused(r)

(* CredentialsWork, of one request. *)
Justified(r) ==
  LET t == requests[r].token IN
  requests[r].issued =>
    \/ \E q \in Requests : Did(q, "revoke_token") /\ requests[q].op.token = t
    \/ \E q \in Requests : Switched(q, tokens[t].user, TRUE)
    \/ /\ AdminOp(requests[r].op) /\ ~users[tokens[t].user].admin
       /\ requests[r].answer = "forbidden"

RequestOK(r) ==
  LET v == requests[r] IN
  /\ \A q \in v.before : requests[q].pc = "done"
  /\ v.issued => tokens[v.token] # NoToken
  /\ v.pc # "done" => v.answer = "none"
  /\ v.pc # "authenticate" /\ ~Refused(r) => tokens[v.token] # NoToken
  /\ v.pc \in {"execute", "insert"} => v.caller = tokens[v.token].user
  /\ v.pc = "insert" => v.op.kind = "create_token" /\ users[v.op.user] # NoUser
  /\ v.pc # "authenticate" => Obeyed(r)
  /\ v.pc = "done" /\ Refused(r) => Justified(r)

(* An administrator is there before the first token is, and flags and tokens are only   *)
(* changed by orders.                                                                   *)
RowsOK ==
  /\ users[Admin] # NoUser => users[Admin].admin
  /\ \A t \in Tokens : tokens[t] # NoToken => users[Admin] # NoUser
  /\ tokens[AdminToken] # NoToken => tokens[AdminToken].user = Admin
  /\ \A t \in Tokens : tokens[t] # NoToken /\ tokens[t].revoked =>
       \E q \in Requests : Did(q, "revoke_token") /\ requests[q].op.token = t
  /\ \A u \in Users : users[u] # NoUser /\ users[u].disabled =>
       \E q \in Requests : Switched(q, u, TRUE)

(* Orders that were carried out are still in force. *)
OrdersOK ==
  \A q \in Requests :
    /\ Did(q, "revoke_token") /\ requests[q].op.token # AdminToken =>
         tokens[requests[q].op.token] # NoToken /\ tokens[requests[q].op.token].revoked
    /\ \A u \in Users : Switched(q, u, TRUE) /\ ~Enabled(u, q) =>
         users[u] # NoUser /\ users[u].disabled

Writes == {r \in Requests : Did(r, "put_snapshot") /\ requests[r].caller = Default}

DocumentOK ==
  /\ IsFiniteSet(Writes)
  /\ (\E s \in Replicas : replicas[s] # "down") \/ (\E r \in Requests : Arrived(r)) =>
       versions[Default] # Absent
  /\ IF versions[Default] = Absent THEN Writes = {}
     ELSE versions[Default] = LegacyVersion + Cardinality(Writes)

IInv ==
  /\ TypeOK /\ RowsOK /\ OrdersOK /\ DocumentOK
  /\ \A r \in Requests : Arrived(r) => RequestOK(r)

-----------------------------------------------------------------------------
(* Types *)

LEMMA OpTypes ==
  ASSUME NEW op \in Ops
  PROVE  /\ op.kind = "create_user" => op.user \in Users /\ op.admin \in BOOLEAN
         /\ op.kind = "create_token" => op.user \in Users
         /\ op.kind = "revoke_token" => op.token \in Tokens
         /\ op.kind = "set_user_disabled" => op.user \in Users /\ op.disabled \in BOOLEAN
BY AccountsAssumption DEF AllOps

LEMMA RequestTypes ==
  ASSUME TypeOK, NEW r \in Requests
  PROVE  /\ Arrived(r) => requests[r] \in Request
         /\ ~Arrived(r) => requests[r] \in {NotArrived, Lost} /\ requests[r].pc \in {"new", "lost"}
         /\ requests[r].pc = "done" => Arrived(r)
BY DEF TypeOK, Arrived, Pcs, Request, NotArrived, Lost

LEMMA ArrivedTypes ==
  ASSUME TypeOK, NEW r \in Requests, Arrived(r)
  PROVE  /\ requests[r].op \in Ops /\ requests[r].token \in Tokens
         /\ requests[r].before \in SUBSET Requests /\ requests[r].issued \in BOOLEAN
         /\ requests[r].caller \in Users \cup {Nobody} /\ requests[r].pc \in Pcs
BY RequestTypes DEF Request, Pcs

LEMMA RowTypes ==
  ASSUME TypeOK
  PROVE  /\ \A u \in Users : users[u] # NoUser => users[u] \in User
                               /\ users[u].admin \in BOOLEAN /\ users[u].disabled \in BOOLEAN
         /\ \A t \in Tokens : tokens[t] # NoToken => tokens[t] \in Token
                               /\ tokens[t].user \in Users /\ tokens[t].revoked \in BOOLEAN
                               /\ users[tokens[t].user] # NoUser
BY DEF TypeOK, User, Token

(* New rows are rows. *)
LEMMA NewUser ==
  ASSUME NEW a \in BOOLEAN, NEW d \in BOOLEAN
  PROVE  [admin |-> a, disabled |-> d] \in User /\ [admin |-> a, disabled |-> d] # NoUser
BY AccountsAssumption DEF User

LEMMA NewToken ==
  ASSUME NEW u \in Users, NEW d \in BOOLEAN
  PROVE  [user |-> u, revoked |-> d] \in Token /\ [user |-> u, revoked |-> d] # NoToken
BY AccountsAssumption DEF Token

-----------------------------------------------------------------------------
(* What no step undoes *)

RowsStay ==
  /\ \A u \in Users : users[u] # NoUser => users'[u] # NoUser /\ users'[u].admin = users[u].admin
  /\ \A t \in Tokens : tokens[t] # NoToken =>
       tokens'[t] # NoToken /\ tokens'[t].user = tokens[t].user

DoneStay == \A q \in Requests : requests[q].pc = "done" => requests'[q] = requests[q]

LEMMA OrdersStay ==
  ASSUME DoneStay, NEW q \in Requests
  PROVE  /\ \A kind : Did(q, kind) => Did(q, kind)' /\ requests'[q] = requests[q]
         /\ \A u \in Users, b \in BOOLEAN : Switched(q, u, b) =>
              Switched(q, u, b)' /\ requests'[q] = requests[q]
BY DEF DoneStay, Did, Switched

LEMMA EnabledStays ==
  ASSUME DoneStay, NEW q \in Requests, requests'[q] = requests[q], NEW u \in Users, Enabled(u, q)
  PROVE  Enabled(u, q)'
BY OrdersStay DEF Enabled

(* A request that does not move stays in order. *)
LEMMA RequestStays ==
  ASSUME IInv, RowsStay, DoneStay, NEW r \in Requests, Arrived(r), requests'[r] = requests[r]
  PROVE  RequestOK(r)'
<1>0. PICK v, t : v = requests[r] /\ v = requests'[r] /\ t = v.token
  OBVIOUS
<1>1. /\ RequestOK(r) /\ v.op \in Ops /\ t \in Tokens /\ v.before \in SUBSET Requests
      /\ v.pc \in Pcs
  BY <1>0, ArrivedTypes DEF IInv
<1>2. \A q \in v.before : requests[q].pc = "done" /\ requests'[q] = requests[q]
  BY <1>0, <1>1 DEF RequestOK, DoneStay
<1>3. tokens[t] # NoToken => tokens'[t] # NoToken /\ tokens'[t].user = tokens[t].user
  BY <1>1 DEF RowsStay
<1>4. Refused(r)' = Refused(r)
  BY DEF Refused
<1>5. ASSUME v.pc # "authenticate" PROVE Obeyed(r)'
  <2>1. Obeyed(r) /\ (~Refused(r) => tokens[t] # NoToken)
    BY <1>0, <1>1, <1>5 DEF RequestOK
  <2>2. ASSUME NEW q \in v.before, Did(q, "revoke_token")', requests'[q].op.token = t, t # AdminToken
        PROVE  v.answer = "unauthorized"
    <3>1. Did(q, "revoke_token") /\ requests[q].op.token = t
      BY <1>2, <2>2 DEF Did
    <3>. QED
      BY <1>0, <2>1, <2>2, <3>1 DEF Obeyed
  <2>3. ASSUME NEW q \in v.before, NEW u \in Users,
               tokens'[t] # NoToken, tokens'[t].user = u, Switched(q, u, TRUE)', ~Enabled(u, q)'
        PROVE  Refused(r)
    <3>1. q \in Requests /\ requests'[q] = requests[q]
      BY <1>1, <1>2
    <3>2. Switched(q, u, TRUE) /\ ~Enabled(u, q)
      BY <2>3, <3>1, EnabledStays DEF Switched, Did
    <3>. QED
      BY <1>0, <1>3, <2>1, <2>3, <3>2 DEF Obeyed
  <2>. QED
    BY <1>0, <1>4, <2>2, <2>3 DEF Obeyed
<1>6. ASSUME v.pc = "done", Refused(r) PROVE Justified(r)'
  <2>. SUFFICES ASSUME v.issued PROVE Justified(r)'
    BY <1>0 DEF Justified
  <2>1. PICK w : w = tokens[t].user
    OBVIOUS
  <2>2. tokens[t] # NoToken /\ tokens'[t].user = w /\ w \in Users /\ users[w] # NoUser
    BY <1>0, <1>1, <1>3, <2>1, RowTypes DEF RequestOK, IInv
  <2>3. users'[w].admin = users[w].admin
    BY <2>2 DEF RowsStay
  <2>4. \/ \E q \in Requests : Did(q, "revoke_token") /\ requests[q].op.token = t
        \/ \E q \in Requests : Switched(q, w, TRUE)
        \/ AdminOp(v.op) /\ ~users[w].admin /\ v.answer = "forbidden"
    BY <1>0, <1>1, <1>6, <2>1 DEF RequestOK, Justified
  <2>5. CASE \E q \in Requests : Did(q, "revoke_token") /\ requests[q].op.token = t
    <3>1. \E q \in Requests : Did(q, "revoke_token")' /\ requests'[q].op.token = t
      BY <2>5, OrdersStay
    <3>. QED
      BY <1>0, <3>1 DEF Justified
  <2>6. CASE \E q \in Requests : Switched(q, w, TRUE)
    <3>1. PICK q \in Requests : Switched(q, w, TRUE)
      BY <2>6
    <3>2. Switched(q, w, TRUE)'
      BY <2>2, <3>1, OrdersStay
    <3>. QED
      BY <1>0, <2>2, <3>2 DEF Justified, Switched
  <2>7. CASE AdminOp(v.op) /\ ~users[w].admin /\ v.answer = "forbidden"
    BY <1>0, <2>2, <2>3, <2>7 DEF Justified
  <2>. QED
    BY <2>4, <2>5, <2>6, <2>7
<1>7. v.pc = "insert" => users'[v.op.user] # NoUser /\ v.op.kind = "create_token"
  BY <1>0, <1>1, OpTypes DEF RequestOK, RowsStay
<1>8. v.pc # "authenticate" /\ ~Refused(r) => tokens'[t] # NoToken
  BY <1>0, <1>1, <1>3 DEF RequestOK
<1>9. v.pc \in {"execute", "insert"} => v.caller = tokens'[t].user
  <2>1. v.pc \in {"execute", "insert"} => v.caller = tokens[t].user /\ v.answer = "none"
    BY <1>0, <1>1 DEF RequestOK
  <2>2. v.answer = "none" => ~Refused(r)
    BY <1>0 DEF Refused
  <2>. QED
    BY <1>0, <1>1, <1>3, <2>1, <2>2 DEF RequestOK
<1>10. (v.issued => tokens'[t] # NoToken) /\ (v.pc # "done" => v.answer = "none")
  BY <1>0, <1>1, <1>3 DEF RequestOK
<1>. QED
  BY <1>0, <1>2, <1>4, <1>5, <1>6, <1>7, <1>8, <1>9, <1>10 DEF RequestOK

(* One request moves: the others stay in order. *)
LEMMA OneMoves ==
  ASSUME IInv, RowsStay, NEW r \in Requests, requests[r].pc # "done",
         NEW new \in Request, requests' = [requests EXCEPT ![r] = new]
  PROVE  /\ DoneStay
         /\ requests' \in [Requests -> Request \cup {NotArrived, Lost}]
         /\ requests'[r] = new /\ new.pc \in Pcs
         /\ \A q \in Requests : q # r => requests'[q] = requests[q]
         /\ \A q \in Requests : q # r /\ Arrived(q)' => RequestOK(q)'
<1>1. /\ requests' \in [Requests -> Request \cup {NotArrived, Lost}]
      /\ requests'[r] = new
      /\ \A q \in Requests : q # r => requests'[q] = requests[q]
  BY DEF IInv, TypeOK
<1>2. DoneStay
  BY <1>1 DEF DoneStay
<1>3. ASSUME NEW q \in Requests, q # r, Arrived(q)' PROVE RequestOK(q)'
  <2>1. Arrived(q)
    BY <1>1, <1>3 DEF Arrived
  <2>. QED
    BY <1>1, <1>2, <1>3, <2>1, RequestStays
<1>. QED
  BY <1>1, <1>2, <1>3 DEF Request, Pcs

(* A step that carries out no order leaves those that were in force. *)
LEMMA NoNewOrder ==
  ASSUME IInv, RowsStay, DoneStay,
         \A q \in Requests : requests[q].pc # "done" =>
           ~Did(q, "revoke_token")' /\ ~Did(q, "set_user_disabled")',
         \A t \in Tokens : t # AdminToken /\ tokens[t] # NoToken /\ tokens[t].revoked => tokens'[t].revoked,
         \A u \in Users : users[u] # NoUser /\ users[u].disabled => users'[u].disabled
  PROVE  OrdersOK'
<1>1. ASSUME NEW q \in Requests, Did(q, "revoke_token")', requests'[q].op.token # AdminToken
      PROVE  tokens'[requests'[q].op.token] # NoToken /\ tokens'[requests'[q].op.token].revoked
  <2>1. requests[q].pc = "done" /\ requests'[q] = requests[q]
    BY <1>1 DEF DoneStay
  <2>2. Did(q, "revoke_token")
    BY <1>1, <2>1 DEF Did
  <2>3. requests[q].op.token \in Tokens
    BY <2>1, <2>2, RequestTypes, ArrivedTypes, OpTypes DEF IInv, Did
  <2>4. tokens[requests[q].op.token] # NoToken /\ tokens[requests[q].op.token].revoked
    BY <1>1, <2>1, <2>2 DEF IInv, OrdersOK
  <2>. QED
    BY <1>1, <2>1, <2>3, <2>4 DEF RowsStay
<1>2. ASSUME NEW q \in Requests, NEW u \in Users, Switched(q, u, TRUE)', ~Enabled(u, q)'
      PROVE  users'[u] # NoUser /\ users'[u].disabled
  <2>1. requests[q].pc = "done" /\ requests'[q] = requests[q]
    BY <1>2 DEF DoneStay, Switched
  <2>2. Switched(q, u, TRUE) /\ ~Enabled(u, q)
    BY <1>2, <2>1, EnabledStays DEF Switched, Did
  <2>. QED
    BY <2>2 DEF IInv, OrdersOK, RowsStay
<1>. QED
  BY <1>1, <1>2 DEF OrdersOK

(* The rows that are not changed, and those that are new, are in order. *)
LEMMA RowsStayOK ==
  ASSUME IInv, RowsStay, DoneStay,
         users'[Admin] # NoUser => users'[Admin].admin,
         \A t \in Tokens : tokens'[t] # NoToken => tokens[t] # NoToken \/ users'[Admin] # NoUser,
         tokens'[AdminToken] # NoToken => tokens'[AdminToken].user = Admin,
         \A t \in Tokens : tokens'[t] # NoToken /\ tokens'[t].revoked =>
           \/ tokens[t] # NoToken /\ tokens[t].revoked
           \/ \E q \in Requests : Did(q, "revoke_token")' /\ requests'[q].op.token = t,
         \A u \in Users : users'[u] # NoUser /\ users'[u].disabled =>
           \/ users[u] # NoUser /\ users[u].disabled
           \/ \E q \in Requests : Switched(q, u, TRUE)'
  PROVE  RowsOK'
<1>1. \A t \in Tokens : tokens'[t] # NoToken => users'[Admin] # NoUser
  BY AccountsAssumption DEF IInv, RowsOK, RowsStay
<1>2. ASSUME NEW t \in Tokens, tokens[t] # NoToken, tokens[t].revoked
      PROVE  \E q \in Requests : Did(q, "revoke_token")' /\ requests'[q].op.token = t
  <2>1. PICK q \in Requests : Did(q, "revoke_token") /\ requests[q].op.token = t
    BY <1>2 DEF IInv, RowsOK
  <2>. QED
    BY <2>1, OrdersStay
<1>3. ASSUME NEW u \in Users, users[u] # NoUser, users[u].disabled
      PROVE  \E q \in Requests : Switched(q, u, TRUE)'
  <2>1. PICK q \in Requests : Switched(q, u, TRUE)
    BY <1>3 DEF IInv, RowsOK
  <2>. QED
    BY <2>1, OrdersStay
<1>. QED
  BY <1>1, <1>2, <1>3 DEF RowsOK

(* A step that is no PUT of the default user leaves its document alone. *)
LEMMA NoWrite ==
  ASSUME IInv, DoneStay, UNCHANGED <<versions, replicas>>,
         \A q \in Requests : requests[q].pc # "done" => ~Did(q, "put_snapshot")',
         \A q \in Requests : Arrived(q)' => Arrived(q) \/ \E s \in Replicas : replicas[s] = "up"
  PROVE  DocumentOK'
<1>1. \A q \in Requests : (q \in Writes)' <=> q \in Writes
  BY OrdersStay DEF Writes, DoneStay, Did
<1>2. Writes' = Writes
  BY <1>1 DEF Writes
<1>3. (\E s \in Replicas : replicas[s] # "down") \/ (\E r \in Requests : Arrived(r)')
        => versions[Default] # Absent
  BY DEF IInv, DocumentOK
<1>. QED
  BY <1>2, <1>3 DEF IInv, DocumentOK

-----------------------------------------------------------------------------
(* Requests that move *)

Answers == {"ok", "unauthorized", "forbidden", "not_found", "conflict"}

LEMMA AnsweredFacts ==
  ASSUME IInv, NEW r \in Requests, Arrived(r), NEW a \in Answers, requests' = Answered(r, a)
  PROVE  \E new \in Request :
           /\ requests' = [requests EXCEPT ![r] = new]
           /\ new.pc = "done" /\ new.answer = a /\ new.op = requests[r].op
           /\ new.token = requests[r].token /\ new.caller = requests[r].caller
           /\ new.before = requests[r].before /\ new.issued = requests[r].issued
<1>1. requests[r] \in Request
  BY RequestTypes DEF IInv
<1>2. PICK v : v = requests[r]
  OBVIOUS
<1>3. PICK new : new = [v EXCEPT !.pc = "done", !.answer = a, !.at = Nobody]
  OBVIOUS
<1>4. /\ new \in Request /\ new.pc = "done" /\ new.answer = a /\ new.op = v.op
      /\ new.token = v.token /\ new.caller = v.caller
      /\ new.before = v.before /\ new.issued = v.issued
  BY <1>1, <1>2, <1>3 DEF Request, Answers
<1>5. requests' = [requests EXCEPT ![r] = new]
  BY <1>2, <1>3 DEF Answered
<1>. QED
  BY <1>2, <1>4, <1>5

(* Whoever executes was obeyed, and stays so. *)
LEMMA ObeyedStays ==
  ASSUME IInv, RowsStay, DoneStay, NEW r \in Requests, requests[r].pc \in {"execute", "insert"},
         NEW v, v = requests'[r], v.token = requests[r].token, v.before = requests[r].before
  PROVE  Obeyed(r)'
<1>1. PICK old, t : old = requests[r] /\ t = old.token
  OBVIOUS
<1>2. /\ RequestOK(r) /\ t \in Tokens /\ old.before \in SUBSET Requests /\ old.answer = "none"
      /\ Obeyed(r) /\ ~Refused(r) /\ tokens[t] # NoToken
  <2>1. Arrived(r) /\ RequestOK(r)
    BY DEF IInv, Arrived, Pcs
  <2>2. old.answer = "none" /\ Obeyed(r)
    BY <1>1, <2>1 DEF RequestOK
  <2>3. ~Refused(r)
    BY <1>1, <2>2 DEF Refused
  <2>. QED
    BY <1>1, <2>1, <2>2, <2>3, ArrivedTypes DEF RequestOK, IInv
<1>3. tokens'[t] # NoToken /\ tokens'[t].user = tokens[t].user
  BY <1>2 DEF RowsStay
<1>4. \A q \in old.before : requests[q].pc = "done" /\ requests'[q] = requests[q] /\ q \in Requests
  BY <1>1, <1>2 DEF RequestOK, DoneStay
<1>5. ASSUME NEW q \in old.before, Did(q, "revoke_token")', requests'[q].op.token = t, t # AdminToken
      PROVE  FALSE
  <2>1. Did(q, "revoke_token") /\ requests[q].op.token = t
    BY <1>4, <1>5 DEF Did
  <2>. QED
    BY <1>1, <1>2, <1>5, <2>1 DEF Obeyed
<1>6. ASSUME NEW q \in old.before, NEW u \in Users,
             tokens'[t].user = u, Switched(q, u, TRUE)', ~Enabled(u, q)'
      PROVE  FALSE
  <2>1. Switched(q, u, TRUE) /\ ~Enabled(u, q)
    BY <1>4, <1>6, EnabledStays DEF Switched, Did
  <2>. QED
    BY <1>1, <1>2, <1>3, <1>6, <2>1 DEF Obeyed
<1>. QED
  BY <1>1, <1>5, <1>6 DEF Obeyed

(* A statement of a handler was executed. *)
LEMMA Executed ==
  ASSUME IInv, RowsStay, NEW r \in Requests, requests[r].pc \in {"execute", "insert"},
         NEW new \in Request, requests' = [requests EXCEPT ![r] = new],
         new.op = requests[r].op, new.token = requests[r].token, new.caller = requests[r].caller,
         new.before = requests[r].before, new.issued = requests[r].issued,
         \/ new.pc = "done" /\ new.answer \in {"ok", "not_found", "conflict"}
         \/ /\ new.pc = "insert" /\ new.answer = "none"
            /\ new.op.kind = "create_token" /\ users'[new.op.user] # NoUser
  PROVE  /\ RequestOK(r)' /\ DoneStay
         /\ requests' \in [Requests -> Request \cup {NotArrived, Lost}]
         /\ requests'[r] = new /\ new.caller \in Users /\ new.caller # Nobody
         /\ \A q \in Requests : q # r => requests'[q] = requests[q]
         /\ \A q \in Requests : Arrived(q)' => RequestOK(q)' /\ Arrived(q)
<1>1. Arrived(r) /\ RequestOK(r) /\ requests[r].token \in Tokens
  BY ArrivedTypes DEF IInv, Arrived, Pcs
<1>2. /\ DoneStay /\ requests'[r] = new
      /\ requests' \in [Requests -> Request \cup {NotArrived, Lost}]
      /\ \A q \in Requests : q # r => requests'[q] = requests[q]
      /\ \A q \in Requests : q # r /\ Arrived(q)' => RequestOK(q)'
  BY OneMoves
<1>3. Obeyed(r)'
  BY <1>2, ObeyedStays
<1>4. ~Refused(r)'
  BY <1>2 DEF Refused
<1>5. PICK t : t = requests[r].token
  OBVIOUS
<1>6. /\ requests[r].answer = "none" /\ requests[r].caller = tokens[t].user
      /\ (requests[r].issued => tokens[t] # NoToken)
  BY <1>1, <1>5 DEF RequestOK
<1>7. tokens[t] # NoToken
  BY <1>1, <1>5, <1>6 DEF RequestOK, Refused
<1>8. tokens'[t] # NoToken /\ tokens'[t].user = tokens[t].user /\ tokens[t].user \in Users
  BY <1>1, <1>5, <1>7, RowTypes DEF RowsStay, IInv
<1>9. \A q \in new.before : requests'[q].pc = "done"
  <2>1. \A q \in new.before : requests[q].pc = "done" /\ q \in Requests
    BY <1>1, ArrivedTypes DEF RequestOK, IInv
  <2>. QED
    BY <1>2, <2>1 DEF DoneStay
<1>10. RequestOK(r)'
  BY <1>2, <1>3, <1>4, <1>5, <1>6, <1>8, <1>9 DEF RequestOK
<1>11. \A q \in Requests : Arrived(q)' => Arrived(q)
  BY <1>1, <1>2 DEF Arrived
<1>. QED
  BY <1>2, <1>5, <1>6, <1>8, <1>10, <1>11, AccountsAssumption

LEMMA ArriveKeepsIInv ==
  ASSUME IInv, NEW r \in Requests, Arrive(r)
  PROVE  IInv'
<1>1. requests[r].pc = "new" /\ UNCHANGED <<users, tokens, versions, replicas, starts>>
  BY DEF Arrive
<1>2. PICK op \in Ops, t \in Tokens, s \in Replicas :
        /\ replicas[s] = "up"
        /\ requests' = [requests EXCEPT ![r] =
             [op |-> op, token |-> t, at |-> s, caller |-> Nobody, pc |-> "authenticate",
              answer |-> "none", before |-> {q \in Requests : requests[q].pc = "done"},
              issued |-> tokens[t] # NoToken]]
  BY DEF Arrive
<1>3. PICK new \in Request :
        /\ requests' = [requests EXCEPT ![r] = new]
        /\ new.pc = "authenticate" /\ new.answer = "none" /\ new.token = t
        /\ new.before = {q \in Requests : requests[q].pc = "done"}
        /\ new.issued => tokens[t] # NoToken
  <2>1. PICK before, issued :
          /\ before = {q \in Requests : requests[q].pc = "done"}
          /\ issued = (tokens[t] # NoToken)
    OBVIOUS
  <2>2. before \in SUBSET Requests /\ issued \in BOOLEAN
    BY <2>1
  <2>3. PICK new : new = [op |-> op, token |-> t, at |-> s, caller |-> Nobody, pc |-> "authenticate",
                          answer |-> "none", before |-> before, issued |-> issued]
    OBVIOUS
  <2>4. new \in Request
    BY <2>2, <2>3 DEF Request
  <2>5. requests' = [requests EXCEPT ![r] = new]
    BY <1>2, <2>1, <2>3
  <2>. QED
    BY <2>1, <2>3, <2>4, <2>5
<1>4. RowsStay
  BY <1>1 DEF RowsStay
<1>5. /\ DoneStay /\ requests'[r] = new
      /\ requests' \in [Requests -> Request \cup {NotArrived, Lost}]
      /\ \A q \in Requests : q # r => requests'[q] = requests[q]
      /\ \A q \in Requests : q # r /\ Arrived(q)' => RequestOK(q)'
  BY <1>1, <1>2, <1>3, <1>4, OneMoves
<1>6. TypeOK'
  BY <1>1, <1>3, <1>5 DEF IInv, TypeOK
<1>7. RequestOK(r)'
  <2>1. \A q \in new.before : requests'[q].pc = "done"
    BY <1>3, <1>5 DEF DoneStay
  <2>. QED
    BY <1>1, <1>3, <1>5, <2>1 DEF RequestOK
<1>8. \A q \in Requests : requests[q].pc # "done" => requests'[q].pc # "done"
  BY <1>3, <1>5
<1>9. OrdersOK'
  BY <1>1, <1>4, <1>5, <1>8, NoNewOrder DEF Did
<1>10. RowsOK'
  BY <1>1, <1>4, <1>5, RowsStayOK DEF IInv, RowsOK
<1>11. DocumentOK'
  BY <1>1, <1>2, <1>5, <1>8, NoWrite DEF Did
<1>. QED
  BY <1>5, <1>6, <1>7, <1>9, <1>10, <1>11 DEF IInv

(* A token that was revoked before the request arrived is not active, and the user of   *)
(* an active one is disabled, if the request is to be refused.                          *)
LEMMA AuthenticateKeepsIInv ==
  ASSUME IInv, NEW r \in Requests, Authenticate(r)
  PROVE  IInv'
<1>1. requests[r].pc = "authenticate" /\ UNCHANGED <<users, tokens, versions, replicas, starts>>
  BY DEF Authenticate
<1>2. PICK v, t : v = requests[r] /\ t = v.token
  OBVIOUS
<1>3. /\ Arrived(r) /\ RequestOK(r) /\ v \in Request /\ t \in Tokens /\ v.before \in SUBSET Requests
      /\ v.answer = "none"
  BY <1>1, <1>2, RequestTypes, ArrivedTypes DEF IInv, Arrived, Pcs, RequestOK
<1>4. PICK new \in Request :
        /\ requests' = [requests EXCEPT ![r] = new]
        /\ new.op = v.op /\ new.token = t /\ new.before = v.before /\ new.issued = v.issued
        /\ \/ ~Active(t) /\ new.pc = "done" /\ new.answer = "unauthorized"
           \/ /\ Active(t) /\ new.pc = "done" /\ new.answer = "forbidden"
              /\ \/ users[tokens[t].user].disabled
                 \/ AdminOp(v.op) /\ ~users[tokens[t].user].admin
           \/ /\ Active(t) /\ new.pc = "execute" /\ new.answer = "none"
              /\ new.caller = tokens[t].user /\ ~users[tokens[t].user].disabled
  <2>1. CASE ~Active(t)
    <3>1. requests' = Answered(r, "unauthorized")
      BY <1>2, <2>1 DEF Authenticate
    <3>. QED
      BY <1>2, <1>3, <2>1, <3>1, AnsweredFacts DEF Answers
  <2>2. CASE Active(t) /\ (users[tokens[t].user].disabled
                             \/ (AdminOp(v.op) /\ ~users[tokens[t].user].admin))
    <3>1. requests' = Answered(r, "forbidden")
      BY <1>2, <2>2 DEF Authenticate
    <3>2. PICK new \in Request :
            /\ requests' = [requests EXCEPT ![r] = new]
            /\ new.pc = "done" /\ new.answer = "forbidden" /\ new.op = v.op
            /\ new.token = t /\ new.before = v.before /\ new.issued = v.issued
      BY <1>2, <1>3, <3>1, AnsweredFacts DEF Answers
    <3>. QED
      BY <2>2, <3>2
  <2>3. CASE Active(t) /\ ~users[tokens[t].user].disabled
             /\ ~(AdminOp(v.op) /\ ~users[tokens[t].user].admin)
    <3>1. PICK u : u = tokens[t].user
      OBVIOUS
    <3>2. u \in Users
      BY <1>3, <2>3, <3>1, RowTypes DEF Active, IInv
    <3>3. PICK new : new = [v EXCEPT !.pc = "execute", !.caller = u]
      OBVIOUS
    <3>4. /\ new \in Request /\ new.pc = "execute" /\ new.caller = u /\ new.answer = v.answer
          /\ new.op = v.op /\ new.token = v.token /\ new.before = v.before /\ new.issued = v.issued
      BY <1>3, <3>2, <3>3 DEF Request
    <3>5. requests' = [requests EXCEPT ![r] = new]
      BY <1>2, <2>3, <3>1, <3>3 DEF Authenticate
    <3>. QED
      BY <1>2, <1>3, <2>3, <3>1, <3>4, <3>5
  <2>. QED
    BY <2>1, <2>2, <2>3
<1>5. RowsStay
  BY <1>1 DEF RowsStay
<1>6. /\ DoneStay /\ requests'[r] = new
      /\ requests' \in [Requests -> Request \cup {NotArrived, Lost}]
      /\ \A q \in Requests : q # r => requests'[q] = requests[q]
      /\ \A q \in Requests : q # r /\ Arrived(q)' => RequestOK(q)'
  BY <1>1, <1>4, <1>5, OneMoves
<1>7. tokens[t] # NoToken => tokens[t].user \in Users /\ users[tokens[t].user] # NoUser
  BY <1>3, RowTypes DEF IInv
<1>8. new.pc = "execute" => new.caller # Nobody /\ tokens[t] # NoToken
  BY <1>4, <1>7, AccountsAssumption DEF Active
<1>9. TypeOK'
  BY <1>1, <1>4, <1>6, <1>8 DEF IInv, TypeOK
<1>10. \A q \in new.before : requests[q].pc = "done" /\ requests'[q] = requests[q] /\ q \in Requests
  <2>1. \A q \in v.before : requests[q].pc = "done"
    BY <1>2, <1>3 DEF RequestOK
  <2>2. new.before = v.before /\ v.before \in SUBSET Requests
    BY <1>3, <1>4
  <2>. QED
    BY <2>1, <2>2, <1>6 DEF DoneStay
<1>11. Obeyed(r)'
  <2>1. ASSUME NEW q \in new.before, Did(q, "revoke_token")', requests'[q].op.token = t, t # AdminToken
        PROVE  new.answer = "unauthorized"
    <3>1. Did(q, "revoke_token") /\ requests[q].op.token = t
      BY <1>10, <2>1 DEF Did
    <3>2. ~Active(t)
      BY <1>10, <2>1, <3>1 DEF IInv, OrdersOK, Active
    <3>. QED
      BY <1>4, <3>2
  <2>2. ASSUME NEW q \in new.before, NEW u \in Users,
               tokens'[t] # NoToken, tokens'[t].user = u, Switched(q, u, TRUE)', ~Enabled(u, q)'
        PROVE  new.answer \in {"unauthorized", "forbidden"}
    <3>1. Switched(q, u, TRUE) /\ ~Enabled(u, q)
      BY <1>6, <1>10, <2>2, EnabledStays DEF Switched, Did
    <3>2. users[tokens[t].user].disabled
      BY <1>1, <1>10, <2>2, <3>1 DEF IInv, OrdersOK
    <3>. QED
      BY <1>4, <3>2
  <2>. QED
    BY <1>4, <1>6, <2>1, <2>2 DEF Obeyed, Refused
<1>12. Refused(r)' => Justified(r)'
  <2>1. SUFFICES ASSUME Refused(r)', new.issued PROVE Justified(r)'
    BY <1>6 DEF Justified
  <2>2. tokens[t] # NoToken
    BY <1>2, <1>3, <1>4, <2>1 DEF RequestOK
  <2>3. CASE new.answer = "unauthorized"
    <3>1. tokens[t].revoked
      BY <1>4, <2>2, <2>3 DEF Active
    <3>2. PICK q \in Requests : Did(q, "revoke_token") /\ requests[q].op.token = t
      BY <1>3, <2>2, <3>1 DEF IInv, RowsOK
    <3>3. Did(q, "revoke_token")' /\ requests'[q].op.token = t
      BY <1>6, <3>2, OrdersStay
    <3>. QED
      BY <1>4, <1>6, <3>3 DEF Justified
  <2>4. CASE new.answer = "forbidden" /\ users[tokens[t].user].disabled
    <3>1. PICK u \in Users : u = tokens[t].user /\ users[u] # NoUser
      BY <1>7, <2>2
    <3>2. PICK q \in Requests : Switched(q, u, TRUE)
      BY <2>4, <3>1 DEF IInv, RowsOK
    <3>3. Switched(q, u, TRUE)'
      BY <1>6, <3>2, OrdersStay
    <3>4. tokens'[t].user = u
      BY <1>1, <3>1
    <3>. QED
      BY <1>4, <1>6, <3>3, <3>4 DEF Justified, Switched
  <2>5. CASE new.answer = "forbidden" /\ AdminOp(v.op) /\ ~users[tokens[t].user].admin
    BY <1>1, <1>4, <1>6, <2>5 DEF Justified
  <2>. QED
    BY <1>4, <1>6, <2>1, <2>3, <2>4, <2>5 DEF Refused
<1>13. RequestOK(r)'
  <2>1. new.issued => tokens'[t] # NoToken
    BY <1>1, <1>2, <1>3, <1>4 DEF RequestOK
  <2>2. ~Refused(r)' => tokens'[t] # NoToken
    BY <1>1, <1>4, <1>6, <1>8 DEF Refused
  <2>. QED
    BY <1>1, <1>4, <1>6, <1>8, <1>10, <1>11, <1>12, <2>1, <2>2 DEF RequestOK
<1>14. \A q \in Requests : requests[q].pc # "done" =>
         requests'[q].pc # "done" \/ requests'[q].answer # "ok"
  BY <1>4, <1>6
<1>15. OrdersOK'
  BY <1>1, <1>5, <1>6, <1>14, NoNewOrder DEF Did
<1>16. RowsOK'
  BY <1>1, <1>5, <1>6, RowsStayOK DEF IInv, RowsOK
<1>17. \A q \in Requests : Arrived(q)' => Arrived(q)
  BY <1>3, <1>6 DEF Arrived
<1>18. DocumentOK'
  BY <1>1, <1>6, <1>14, <1>17, NoWrite DEF Did
<1>. QED
  BY <1>6, <1>9, <1>13, <1>15, <1>16, <1>18 DEF IInv

LEMMA ExecutingFacts ==
  ASSUME IInv, NEW r \in Requests, requests[r].pc \in {"execute", "insert"}
  PROVE  /\ Arrived(r) /\ requests[r].pc # "done" /\ requests[r].op \in Ops
         /\ users[Admin] # NoUser /\ users[Admin].admin
         /\ versions[Default] # Absent
         /\ requests[r].caller \in Users /\ users[requests[r].caller] # NoUser
<1>1. Arrived(r) /\ RequestOK(r) /\ requests[r].op \in Ops /\ requests[r].token \in Tokens
  BY ArrivedTypes DEF IInv, Arrived, Pcs
<1>2. tokens[requests[r].token] # NoToken /\ requests[r].caller = tokens[requests[r].token].user
  BY <1>1 DEF RequestOK, Refused
<1>3. users[Admin] # NoUser /\ users[Admin].admin
  BY <1>1, <1>2 DEF IInv, RowsOK
<1>. QED
  BY <1>1, <1>2, <1>3, RowTypes DEF IInv, DocumentOK

(* The answer of a handler that has changed users or tokens, or nothing.                *)
LEMMA AnswerKeepsIInv ==
  ASSUME IInv, NEW r \in Requests, requests[r].pc \in {"execute", "insert"}, RowsStay,
         NEW a \in {"ok", "not_found", "conflict"}, requests' = Answered(r, a),
         UNCHANGED <<versions, replicas, starts>>,
         a # "ok" \/ requests[r].op.kind # "put_snapshot",
         users' \in [Users -> User \cup {NoUser}], tokens' \in [Tokens -> Token \cup {NoToken}],
         \A t \in Tokens : tokens'[t] # NoToken => users'[tokens'[t].user] # NoUser,
         DoneStay /\ requests'[r].pc = "done" /\ requests'[r].answer = a
           /\ requests'[r].op = requests[r].op
           /\ (\A q \in Requests : q # r => requests'[q] = requests[q]) => RowsOK' /\ OrdersOK'
  PROVE  IInv'
<1>1. Arrived(r) /\ requests[r].pc # "done" /\ requests[r].op \in Ops
  BY ExecutingFacts
<1>2. PICK new \in Request :
        /\ requests' = [requests EXCEPT ![r] = new]
        /\ new.pc = "done" /\ new.answer = a /\ new.op = requests[r].op
        /\ new.token = requests[r].token /\ new.caller = requests[r].caller
        /\ new.before = requests[r].before /\ new.issued = requests[r].issued
  BY <1>1, AnsweredFacts DEF Answers
<1>3. /\ RequestOK(r)' /\ DoneStay
      /\ requests' \in [Requests -> Request \cup {NotArrived, Lost}]
      /\ requests'[r] = new
      /\ \A q \in Requests : q # r => requests'[q] = requests[q]
      /\ \A q \in Requests : Arrived(q)' => RequestOK(q)' /\ Arrived(q)
  BY <1>2, Executed
<1>4. TypeOK'
  <2>1. \A u \in Users : versions'[u] # Absent => users'[u] # NoUser
    BY DEF IInv, TypeOK, RowsStay
  <2>2. \A q \in Requests : requests'[q].pc \in {"execute", "insert"} => requests'[q].caller # Nobody
    BY <1>2, <1>3 DEF IInv, TypeOK
  <2>. QED
    BY <1>3, <2>1, <2>2 DEF IInv, TypeOK
<1>5. RowsOK' /\ OrdersOK'
  BY <1>2, <1>3
<1>6. DocumentOK'
  <2>1. \A q \in Requests : requests[q].pc # "done" => ~Did(q, "put_snapshot")'
    BY <1>2, <1>3 DEF Did
  <2>. QED
    BY <1>3, <2>1, NoWrite
<1>. QED
  BY <1>3, <1>4, <1>5, <1>6 DEF IInv

LEMMA CreateUserKeepsIInv ==
  ASSUME IInv, NEW r \in Requests, CreateUser(r)
  PROVE  IInv'
<1>. DEFINE op == requests[r].op
<1>1. /\ requests[r].pc = "execute" /\ op.kind = "create_user"
      /\ UNCHANGED <<tokens, versions, replicas, starts>>
  BY DEF CreateUser, Executes
<1>2. PICK u \in Users, a \in BOOLEAN : u = op.user /\ a = op.admin
  BY <1>1, ExecutingFacts, OpTypes
<1>3. users[Admin] # NoUser /\ users[Admin].admin
  BY <1>1, ExecutingFacts
<1>4. CASE users[u] # NoUser
  <2>1. UNCHANGED users /\ requests' = Answered(r, "conflict")
    BY <1>2, <1>4 DEF CreateUser
  <2>2. RowsStay
    BY <1>1, <2>1 DEF RowsStay
  <2>3. ASSUME DoneStay, requests'[r].answer = "conflict",
               \A q \in Requests : q # r => requests'[q] = requests[q]
        PROVE  RowsOK' /\ OrdersOK'
    <3>1. OrdersOK'
      BY <1>1, <2>1, <2>2, <2>3, NoNewOrder DEF Did
    <3>2. RowsOK'
      BY <1>1, <2>1, <2>2, <2>3, RowsStayOK DEF IInv, RowsOK
    <3>. QED
      BY <3>1, <3>2
  <2>. QED
    BY <1>1, <2>1, <2>2, <2>3, AnswerKeepsIInv DEF IInv, TypeOK
<1>5. CASE users[u] = NoUser
  <2>. DEFINE row == [admin |-> a, disabled |-> FALSE]
  <2>1. users' = [users EXCEPT ![u] = row] /\ requests' = Answered(r, "ok")
    BY <1>2, <1>5 DEF CreateUser
  <2>2. row \in User /\ row # NoUser /\ ~row.disabled
    BY NewUser
  <2>. HIDE DEF row
  <2>3. /\ users' \in [Users -> User \cup {NoUser}] /\ users'[u] = row
        /\ \A w \in Users : w # u => users'[w] = users[w]
    BY <2>1, <2>2 DEF IInv, TypeOK
  <2>4. RowsStay
    BY <1>1, <1>5, <2>3 DEF RowsStay
  <2>5. users'[Admin] = users[Admin]
    BY <1>3, <1>5, <2>3, AccountsAssumption
  <2>6. ASSUME DoneStay, requests'[r].op = op,
               \A q \in Requests : q # r => requests'[q] = requests[q]
        PROVE  RowsOK' /\ OrdersOK'
    <3>1. OrdersOK'
      BY <1>1, <1>5, <2>2, <2>3, <2>4, <2>6, NoNewOrder DEF Did
    <3>2. RowsOK'
      BY <1>1, <1>3, <2>2, <2>3, <2>4, <2>5, <2>6, RowsStayOK DEF IInv, RowsOK
    <3>. QED
      BY <3>1, <3>2
  <2>7. \A t \in Tokens : tokens'[t] # NoToken => users'[tokens'[t].user] # NoUser
    BY <1>1, <2>4, RowTypes DEF IInv, RowsStay
  <2>. QED
    BY <1>1, <2>1, <2>3, <2>4, <2>6, <2>7, AnswerKeepsIInv DEF IInv, TypeOK
<1>. QED
  BY <1>4, <1>5

LEMMA CheckUserKeepsIInv ==
  ASSUME IInv, NEW r \in Requests, CheckUser(r)
  PROVE  IInv'
<1>1. /\ requests[r].pc = "execute" /\ requests[r].op.kind = "create_token"
      /\ UNCHANGED <<users, tokens, versions, replicas, starts>>
  BY DEF CheckUser, Executes
<1>2. RowsStay
  BY <1>1 DEF RowsStay
<1>3. CASE users[requests[r].op.user] = NoUser
  <2>1. requests' = Answered(r, "not_found")
    BY <1>3 DEF CheckUser
  <2>2. ASSUME DoneStay, requests'[r].answer = "not_found",
               \A q \in Requests : q # r => requests'[q] = requests[q]
        PROVE  RowsOK' /\ OrdersOK'
    <3>1. OrdersOK'
      BY <1>1, <1>2, <2>2, NoNewOrder DEF Did
    <3>2. RowsOK'
      BY <1>1, <1>2, <2>2, RowsStayOK DEF IInv, RowsOK
    <3>. QED
      BY <3>1, <3>2
  <2>. QED
    BY <1>1, <1>2, <2>1, <2>2, AnswerKeepsIInv DEF IInv, TypeOK
<1>4. CASE users[requests[r].op.user] # NoUser
  <2>1. PICK v : v = requests[r]
    OBVIOUS
  <2>2. PICK new : new = [v EXCEPT !.pc = "insert"]
    OBVIOUS
  <2>3. Arrived(r) /\ v \in Request /\ RequestOK(r) /\ v.answer = "none"
    BY <1>1, <2>1, ExecutingFacts, RequestTypes DEF IInv, RequestOK
  <2>4. /\ new \in Request /\ new.pc = "insert" /\ new.answer = "none" /\ new.op = v.op
        /\ new.token = v.token /\ new.caller = v.caller
        /\ new.before = v.before /\ new.issued = v.issued
    BY <2>2, <2>3 DEF Request
  <2>5. requests' = [requests EXCEPT ![r] = new]
    BY <1>4, <2>1, <2>2 DEF CheckUser
  <2>6. /\ DoneStay /\ requests'[r] = new /\ new.caller # Nobody
        /\ requests' \in [Requests -> Request \cup {NotArrived, Lost}]
        /\ \A q \in Requests : q # r => requests'[q] = requests[q]
        /\ \A q \in Requests : Arrived(q)' => RequestOK(q)' /\ Arrived(q)
    BY <1>1, <1>2, <1>4, <2>1, <2>4, <2>5, Executed
  <2>7. TypeOK'
    BY <1>1, <2>4, <2>6 DEF IInv, TypeOK
  <2>8. \A q \in Requests : requests[q].pc # "done" => requests'[q].pc # "done"
    BY <2>4, <2>6
  <2>9. OrdersOK'
    BY <1>1, <1>2, <2>6, <2>8, NoNewOrder DEF Did
  <2>10. RowsOK'
    BY <1>1, <1>2, <2>6, RowsStayOK DEF IInv, RowsOK
  <2>11. DocumentOK'
    BY <1>1, <2>6, <2>8, NoWrite DEF Did
  <2>. QED
    BY <2>6, <2>7, <2>9, <2>10, <2>11 DEF IInv
<1>. QED
  BY <1>3, <1>4

LEMMA InsertTokenKeepsIInv ==
  ASSUME IInv, NEW r \in Requests, InsertToken(r)
  PROVE  IInv'
<1>1. /\ requests[r].pc = "insert" /\ UNCHANGED <<users, versions, replicas, starts>>
      /\ requests' = Answered(r, "ok")
  BY DEF InsertToken
<1>2. Arrived(r) /\ RequestOK(r) /\ requests[r].op.kind = "create_token"
      /\ requests[r].op.user \in Users /\ users[requests[r].op.user] # NoUser
  BY <1>1, ExecutingFacts, OpTypes DEF IInv, RequestOK
<1>3. PICK u \in Users : u = requests[r].op.user
  BY <1>2
<1>4. PICK t \in Tokens \ {AdminToken} :
        tokens[t] = NoToken /\ tokens' = [tokens EXCEPT ![t] = [user |-> u, revoked |-> FALSE]]
  BY <1>3 DEF InsertToken
<1>. DEFINE row == [user |-> u, revoked |-> FALSE]
<1>5. row \in Token /\ row # NoToken /\ row.user = u /\ ~row.revoked
  BY NewToken
<1>6. tokens' = [tokens EXCEPT ![t] = row]
  BY <1>4
<1>. HIDE DEF row
<1>7. /\ tokens' \in [Tokens -> Token \cup {NoToken}] /\ tokens'[t] = row
      /\ \A k \in Tokens : k # t => tokens'[k] = tokens[k]
  BY <1>5, <1>6 DEF IInv, TypeOK
<1>8. RowsStay
  BY <1>1, <1>4, <1>7 DEF RowsStay
<1>9. users[Admin] # NoUser /\ users[Admin].admin
  BY <1>1, ExecutingFacts
<1>10. \A k \in Tokens : tokens'[k] # NoToken => users'[tokens'[k].user] # NoUser
  BY <1>1, <1>2, <1>3, <1>5, <1>7, RowTypes DEF IInv
<1>11. ASSUME DoneStay, requests'[r].op = requests[r].op,
              \A q \in Requests : q # r => requests'[q] = requests[q]
       PROVE  RowsOK' /\ OrdersOK'
  <2>1. OrdersOK'
    BY <1>1, <1>2, <1>4, <1>7, <1>8, <1>11, NoNewOrder DEF Did
  <2>2. RowsOK'
    <3>1. tokens'[AdminToken] = tokens[AdminToken] /\ AdminToken \in Tokens
      BY <1>4, <1>7, AccountsAssumption
    <3>2. \A k \in Tokens : tokens'[k] # NoToken /\ tokens'[k].revoked =>
            tokens[k] # NoToken /\ tokens[k].revoked
      BY <1>5, <1>7
    <3>. QED
      BY <1>1, <1>8, <1>9, <1>11, <3>1, <3>2, RowsStayOK DEF IInv, RowsOK
  <2>. QED
    BY <2>1, <2>2
<1>. QED
  BY <1>1, <1>2, <1>7, <1>8, <1>10, <1>11, AnswerKeepsIInv DEF IInv, TypeOK

LEMMA RevokeTokenKeepsIInv ==
  ASSUME IInv, NEW r \in Requests, RevokeToken(r)
  PROVE  IInv'
<1>1. /\ requests[r].pc = "execute" /\ requests[r].op.kind = "revoke_token"
      /\ UNCHANGED <<users, versions, replicas, starts>>
  BY DEF RevokeToken, Executes
<1>2. PICK t \in Tokens : t = requests[r].op.token
  BY <1>1, ExecutingFacts, OpTypes
<1>3. CASE ~Active(t)
  <2>1. requests' = Answered(r, "not_found") /\ UNCHANGED tokens
    BY <1>2, <1>3 DEF RevokeToken, Target
  <2>2. RowsStay
    BY <1>1, <2>1 DEF RowsStay
  <2>3. ASSUME DoneStay, requests'[r].answer = "not_found",
               \A q \in Requests : q # r => requests'[q] = requests[q]
        PROVE  RowsOK' /\ OrdersOK'
    <3>1. OrdersOK'
      BY <1>1, <2>1, <2>2, <2>3, NoNewOrder DEF Did
    <3>2. RowsOK'
      BY <1>1, <2>1, <2>2, <2>3, RowsStayOK DEF IInv, RowsOK
    <3>. QED
      BY <3>1, <3>2
  <2>. QED
    BY <1>1, <2>1, <2>2, <2>3, AnswerKeepsIInv DEF IInv, TypeOK
<1>4. CASE Active(t)
  <2>1. /\ requests' = Answered(r, "ok")
        /\ tokens' = [tokens EXCEPT ![t].revoked = TRUE]
    BY <1>2, <1>4 DEF RevokeToken, Target
  <2>2. tokens[t] \in Token /\ tokens[t] # NoToken
    BY <1>4, RowTypes DEF IInv, Active
  <2>3. PICK row : row = [tokens[t] EXCEPT !.revoked = TRUE]
    OBVIOUS
  <2>4. row \in Token /\ row.user = tokens[t].user /\ row.revoked = TRUE
    BY <2>2, <2>3 DEF Token
  <2>5. row # NoToken
    BY <2>4, AccountsAssumption DEF Token
  <2>6. /\ tokens' \in [Tokens -> Token \cup {NoToken}] /\ tokens'[t] = row
        /\ \A k \in Tokens : k # t => tokens'[k] = tokens[k]
    BY <2>1, <2>3, <2>4 DEF IInv, TypeOK
  <2>7. RowsStay
    BY <1>1, <2>2, <2>4, <2>5, <2>6 DEF RowsStay
  <2>8. \A k \in Tokens : tokens'[k] # NoToken => users'[tokens'[k].user] # NoUser
    BY <1>1, <2>2, <2>4, <2>6, RowTypes DEF IInv
  <2>9. ASSUME DoneStay, requests'[r].pc = "done", requests'[r].answer = "ok",
               requests'[r].op = requests[r].op,
               \A q \in Requests : q # r => requests'[q] = requests[q]
        PROVE  RowsOK' /\ OrdersOK'
    <3>1. Did(r, "revoke_token")' /\ requests'[r].op.token = t
      BY <1>1, <1>2, <2>9 DEF Did
    <3>2. RowsOK'
      <4>1. tokens'[AdminToken] # NoToken => tokens'[AdminToken].user = Admin
        BY <2>2, <2>4, <2>6, AccountsAssumption DEF IInv, RowsOK
      <4>2. \A k \in Tokens : tokens'[k] # NoToken /\ tokens'[k].revoked =>
              (tokens[k] # NoToken /\ tokens[k].revoked)
              \/ \E q \in Requests : Did(q, "revoke_token")' /\ requests'[q].op.token = k
        BY <2>6, <3>1
      <4>3. \A k \in Tokens : tokens'[k] # NoToken => tokens[k] # NoToken
        BY <2>2, <2>6
      <4>. QED
        BY <1>1, <2>7, <2>9, <4>1, <4>2, <4>3, RowsStayOK DEF IInv, RowsOK
    <3>3. ASSUME NEW q \in Requests, Did(q, "revoke_token")', requests'[q].op.token # AdminToken
          PROVE  tokens'[requests'[q].op.token] # NoToken /\ tokens'[requests'[q].op.token].revoked
      <4>1. CASE q = r
        BY <2>4, <2>5, <2>6, <3>1, <4>1
      <4>2. CASE q # r
        <5>1. requests'[q] = requests[q] /\ Did(q, "revoke_token")
          BY <2>9, <3>3, <4>2 DEF Did
        <5>2. requests[q].op.token \in Tokens
          BY <5>1, RequestTypes, ArrivedTypes, OpTypes DEF IInv, Did
        <5>3. tokens[requests[q].op.token] # NoToken /\ tokens[requests[q].op.token].revoked
          BY <3>3, <5>1 DEF IInv, OrdersOK
        <5>. QED
          BY <2>4, <2>5, <2>6, <5>1, <5>2, <5>3
      <4>. QED
        BY <4>1, <4>2
    <3>4. ASSUME NEW q \in Requests, NEW u \in Users, Switched(q, u, TRUE)', ~Enabled(u, q)'
          PROVE  users'[u] # NoUser /\ users'[u].disabled
      <4>1. q # r
        BY <1>1, <2>9, <3>4 DEF Switched, Did
      <4>2. requests'[q] = requests[q]
        BY <2>9, <4>1
      <4>3. Switched(q, u, TRUE) /\ ~Enabled(u, q)
        BY <2>9, <3>4, <4>2, EnabledStays DEF Switched, Did
      <4>. QED
        BY <1>1, <4>3 DEF IInv, OrdersOK
    <3>5. OrdersOK'
      BY <3>3, <3>4 DEF OrdersOK
    <3>. QED
      BY <3>2, <3>5
  <2>. QED
    BY <1>1, <2>1, <2>6, <2>7, <2>8, <2>9, AnswerKeepsIInv DEF IInv, TypeOK
<1>. QED
  BY <1>3, <1>4

(* An order to disable stays in force until one to enable is carried out, which was not *)
(* done when the former arrived.                                                        *)
LEMMA SetUserDisabledKeepsIInv ==
  ASSUME IInv, NEW r \in Requests, SetUserDisabled(r)
  PROVE  IInv'
<1>1. /\ requests[r].pc = "execute" /\ requests[r].op.kind = "set_user_disabled"
      /\ UNCHANGED <<tokens, versions, replicas, starts>>
  BY DEF SetUserDisabled, Executes
<1>2. PICK u \in Users, d \in BOOLEAN : u = requests[r].op.user /\ d = requests[r].op.disabled
  BY <1>1, ExecutingFacts, OpTypes
<1>3. CASE users[u] = NoUser
  <2>1. requests' = Answered(r, "not_found") /\ UNCHANGED users
    BY <1>2, <1>3 DEF SetUserDisabled
  <2>2. RowsStay
    BY <1>1, <2>1 DEF RowsStay
  <2>3. ASSUME DoneStay, requests'[r].answer = "not_found",
               \A q \in Requests : q # r => requests'[q] = requests[q]
        PROVE  RowsOK' /\ OrdersOK'
    <3>1. OrdersOK'
      BY <1>1, <2>1, <2>2, <2>3, NoNewOrder DEF Did
    <3>2. RowsOK'
      BY <1>1, <2>1, <2>2, <2>3, RowsStayOK DEF IInv, RowsOK
    <3>. QED
      BY <3>1, <3>2
  <2>. QED
    BY <1>1, <2>1, <2>2, <2>3, AnswerKeepsIInv DEF IInv, TypeOK
<1>4. CASE users[u] # NoUser
  <2>1. /\ requests' = Answered(r, "ok")
        /\ users' = [users EXCEPT ![u].disabled = d]
    BY <1>2, <1>4 DEF SetUserDisabled
  <2>2. users[u] \in User
    BY <1>4, RowTypes DEF IInv
  <2>3. PICK row : row = [users[u] EXCEPT !.disabled = d]
    OBVIOUS
  <2>4. row \in User /\ row.admin = users[u].admin /\ row.disabled = d
    BY <2>2, <2>3 DEF User
  <2>5. row # NoUser
    BY <2>4, AccountsAssumption DEF User
  <2>6. /\ users' \in [Users -> User \cup {NoUser}] /\ users'[u] = row
        /\ \A w \in Users : w # u => users'[w] = users[w]
    BY <2>1, <2>3, <2>4 DEF IInv, TypeOK
  <2>7. RowsStay
    BY <1>1, <2>4, <2>5, <2>6 DEF RowsStay
  <2>8. \A t \in Tokens : tokens'[t] # NoToken => users'[tokens'[t].user] # NoUser
    BY <1>1, <2>7, RowTypes DEF IInv, RowsStay
  <2>9. ASSUME DoneStay, requests'[r].pc = "done", requests'[r].answer = "ok",
               requests'[r].op = requests[r].op,
               \A q \in Requests : q # r => requests'[q] = requests[q]
        PROVE  RowsOK' /\ OrdersOK'
    <3>1. Switched(r, u, d)'
      BY <1>1, <1>2, <2>9 DEF Switched, Did
    <3>2. RowsOK'
      <4>1. \A w \in Users : users'[w] # NoUser /\ users'[w].disabled =>
              (users[w] # NoUser /\ users[w].disabled) \/ \E q \in Requests : Switched(q, w, TRUE)'
        <5>1. d => Switched(r, u, TRUE)'
          BY <3>1 DEF Switched
        <5>. QED
          BY <2>4, <2>6, <5>1
      <4>2. users'[Admin] # NoUser => users'[Admin].admin
        BY <2>4, <2>6, <1>4, AccountsAssumption DEF IInv, RowsOK
      <4>. QED
        BY <1>1, <2>7, <2>9, <4>1, <4>2, RowsStayOK DEF IInv, RowsOK
    <3>3. ASSUME NEW q \in Requests, Did(q, "revoke_token")', requests'[q].op.token # AdminToken
          PROVE  tokens'[requests'[q].op.token] # NoToken /\ tokens'[requests'[q].op.token].revoked
      <4>1. q # r
        BY <1>1, <2>9, <3>3 DEF Did
      <4>2. requests'[q] = requests[q] /\ Did(q, "revoke_token")
        BY <2>9, <3>3, <4>1 DEF Did
      <4>. QED
        BY <1>1, <3>3, <4>2 DEF IInv, OrdersOK
    <3>4. ASSUME NEW q \in Requests, NEW w \in Users, Switched(q, w, TRUE)', ~Enabled(w, q)'
          PROVE  users'[w] # NoUser /\ users'[w].disabled
      <4>1. CASE q = r
        <5>1. w = u /\ d = TRUE
          BY <1>2, <2>9, <3>4, <4>1 DEF Switched
        <5>. QED
          BY <2>4, <2>5, <2>6, <5>1
      <4>2. CASE q # r
        <5>1. requests'[q] = requests[q]
          BY <2>9, <4>2
        <5>2. Switched(q, w, TRUE) /\ ~Enabled(w, q)
          BY <2>9, <3>4, <5>1, EnabledStays DEF Switched, Did
        <5>3. users[w] # NoUser /\ users[w].disabled
          BY <5>2 DEF IInv, OrdersOK
        <5>4. r \notin requests[q].before
          <6>1. requests[q].pc = "done"
            BY <5>2 DEF Switched, Did
          <6>2. RequestOK(q)
            BY <6>1 DEF IInv, Arrived, Pcs
          <6>. QED
            BY <1>1, <6>2 DEF RequestOK
        <5>5. w = u => d = TRUE
          <6>1. SUFFICES ASSUME w = u, d = FALSE PROVE FALSE
            OBVIOUS
          <6>2. Switched(r, w, FALSE)'
            BY <3>1, <6>1 DEF Switched
          <6>3. Enabled(w, q)'
            BY <5>1, <5>4, <6>2 DEF Enabled
          <6>. QED
            BY <3>4, <6>3
        <5>. QED
          BY <2>4, <2>5, <2>6, <5>3, <5>5
      <4>. QED
        BY <4>1, <4>2
    <3>5. OrdersOK'
      BY <3>3, <3>4 DEF OrdersOK
    <3>. QED
      BY <3>2, <3>5
  <2>. QED
    BY <1>1, <2>1, <2>6, <2>7, <2>8, <2>9, AnswerKeepsIInv DEF IInv, TypeOK
<1>. QED
  BY <1>3, <1>4

LEMMA PutSnapshotKeepsIInv ==
  ASSUME IInv, NEW r \in Requests, PutSnapshot(r)
  PROVE  IInv'
<1>1. /\ requests[r].pc = "execute" /\ requests[r].op.kind = "put_snapshot"
      /\ requests' = Answered(r, "ok") /\ UNCHANGED <<users, tokens, replicas, starts>>
  BY DEF PutSnapshot, Executes
<1>2. /\ Arrived(r) /\ versions[Default] # Absent
      /\ requests[r].caller \in Users /\ users[requests[r].caller] # NoUser
  BY <1>1, ExecutingFacts
<1>3. PICK c \in Users : c = requests[r].caller
  BY <1>2
<1>4. PICK n : n = (IF versions[c] = Absent THEN 0 ELSE versions[c]) + 1
  OBVIOUS
<1>5. versions' = [versions EXCEPT ![c] = n]
  BY <1>3, <1>4 DEF PutSnapshot
<1>6. n \in Nat /\ n # Absent
  BY <1>4 DEF IInv, TypeOK, Absent
<1>7. /\ versions' \in [Users -> Nat \cup {Absent}] /\ versions'[c] = n
      /\ \A u \in Users : u # c => versions'[u] = versions[u]
  BY <1>5, <1>6 DEF IInv, TypeOK
<1>8. PICK new \in Request :
        /\ requests' = [requests EXCEPT ![r] = new]
        /\ new.pc = "done" /\ new.answer = "ok" /\ new.op = requests[r].op
        /\ new.token = requests[r].token /\ new.caller = requests[r].caller
        /\ new.before = requests[r].before /\ new.issued = requests[r].issued
  BY <1>1, <1>2, AnsweredFacts DEF Answers
<1>9. RowsStay
  BY <1>1 DEF RowsStay
<1>10. /\ DoneStay /\ requests'[r] = new
       /\ requests' \in [Requests -> Request \cup {NotArrived, Lost}]
       /\ \A q \in Requests : q # r => requests'[q] = requests[q]
       /\ \A q \in Requests : Arrived(q)' => RequestOK(q)' /\ Arrived(q)
  BY <1>1, <1>8, <1>9, Executed
<1>11. TypeOK'
  BY <1>1, <1>2, <1>3, <1>7, <1>8, <1>10 DEF IInv, TypeOK
<1>12. OrdersOK'
  <2>1. \A q \in Requests : requests[q].pc # "done" =>
          ~Did(q, "revoke_token")' /\ ~Did(q, "set_user_disabled")'
    BY <1>1, <1>8, <1>10 DEF Did
  <2>. QED
    BY <1>1, <1>9, <1>10, <2>1, NoNewOrder
<1>13. RowsOK'
  BY <1>1, <1>9, <1>10, RowsStayOK DEF IInv, RowsOK
<1>14. DocumentOK'
  <2>1. \A q \in Requests : q # r => ((q \in Writes)' <=> q \in Writes)
    BY <1>10 DEF Writes, Did
  <2>2. r \notin Writes /\ (r \in Writes' <=> c = Default)
    BY <1>1, <1>3, <1>8, <1>10 DEF Writes, Did
  <2>3. Writes \subseteq Requests /\ Writes' \subseteq Requests
    BY DEF Writes
  <2>4. /\ IsFiniteSet(Writes) /\ Default \in Users /\ LegacyVersion \in Nat
        /\ versions[Default] = LegacyVersion + Cardinality(Writes)
    BY <1>2, AccountsAssumption DEF IInv, DocumentOK
  <2>5. CASE c = Default
    <3>1. Writes' = Writes \cup {r}
      BY <2>1, <2>2, <2>3, <2>5
    <3>2. IsFiniteSet(Writes') /\ Cardinality(Writes') = Cardinality(Writes) + 1
      BY <2>2, <2>4, <3>1, FS_AddElement
    <3>3. Cardinality(Writes) \in Nat
      BY <2>4, FS_CardinalityType
    <3>4. versions'[Default] = versions[Default] + 1
      BY <1>2, <1>4, <1>7, <2>5
    <3>5. versions'[Default] = LegacyVersion + Cardinality(Writes')
      BY <2>4, <3>2, <3>3, <3>4
    <3>6. versions'[Default] # Absent
      BY <1>6, <1>7, <2>5
    <3>. QED
      BY <3>2, <3>5, <3>6 DEF DocumentOK, Absent
  <2>6. CASE c # Default
    <3>1. Writes' = Writes
      BY <2>1, <2>2, <2>3, <2>6
    <3>2. versions'[Default] = versions[Default]
      BY <1>7, <2>4, <2>6
    <3>. QED
      BY <1>2, <2>4, <3>1, <3>2 DEF DocumentOK, Absent
  <2>. QED
    BY <2>5, <2>6
<1>. QED
  BY <1>10, <1>11, <1>12, <1>13, <1>14 DEF IInv

-----------------------------------------------------------------------------
(* Starts and crashes *)

LEMMA NobodyMoves ==
  ASSUME IInv, RowsStay, UNCHANGED requests
  PROVE  /\ DoneStay /\ \A q \in Requests : Arrived(q)' => RequestOK(q)'
         /\ \A kind : \A q \in Requests : Did(q, kind)' = Did(q, kind)
         /\ \A q \in Requests : Arrived(q)' = Arrived(q)
         /\ Writes' = Writes
<1>1. DoneStay
  BY DEF DoneStay
<1>2. \A q \in Requests : Arrived(q)' = Arrived(q) /\ (Arrived(q)' => RequestOK(q)')
  BY <1>1, RequestStays DEF Arrived
<1>3. \A kind : \A q \in Requests : Did(q, kind)' = Did(q, kind)
  BY DEF Did
<1>4. Writes' = Writes
  BY DEF Writes, Did
<1>. QED
  BY <1>1, <1>2, <1>3, <1>4

LEMMA EnsureSchemaKeepsIInv ==
  ASSUME IInv, NEW s \in Replicas, EnsureSchema(s)
  PROVE  IInv'
<1>1. /\ UNCHANGED <<tokens, requests>> /\ starts' = starts + 1 /\ starts < MaxStarts
      /\ replicas' = [replicas EXCEPT ![s] = "schema"]
  BY DEF EnsureSchema
<1>2. Default \in Users /\ Admin \in Users /\ Admin # Default /\ LegacyVersion \in Nat /\ MaxStarts \in Nat
  BY AccountsAssumption
<1>3. PICK row : row = IF users[Default] = NoUser THEN [admin |-> FALSE, disabled |-> FALSE] ELSE users[Default]
  OBVIOUS
<1>4. row \in User /\ row # NoUser /\ (users[Default] = NoUser => ~row.disabled)
  BY <1>2, <1>3, NewUser, RowTypes DEF IInv
<1>5. users' = [users EXCEPT ![Default] = row]
  BY <1>3 DEF EnsureSchema
<1>6. /\ users' \in [Users -> User \cup {NoUser}] /\ users'[Default] = row
      /\ \A u \in Users : u # Default => users'[u] = users[u]
  BY <1>2, <1>4, <1>5 DEF IInv, TypeOK
<1>7. PICK n : n = Migrate(versions[Default])
  OBVIOUS
<1>8. versions' = [versions EXCEPT ![Default] = n] /\ n \in Nat
      /\ n = IF versions[Default] = Absent THEN LegacyVersion ELSE versions[Default]
  BY <1>2, <1>7 DEF EnsureSchema, Migrate, IInv, TypeOK
<1>9. /\ versions' \in [Users -> Nat \cup {Absent}] /\ versions'[Default] = n
      /\ \A u \in Users : u # Default => versions'[u] = versions[u]
  BY <1>2, <1>8 DEF IInv, TypeOK
<1>10. RowsStay
  BY <1>1, <1>3, <1>6 DEF RowsStay
<1>11. /\ DoneStay /\ Writes' = Writes
       /\ \A q \in Requests : Arrived(q)' => RequestOK(q)'
       /\ \A kind : \A q \in Requests : Did(q, kind)' = Did(q, kind)
  BY <1>1, <1>10, NobodyMoves
<1>12. TypeOK'
  <2>1. \A t \in Tokens : tokens'[t] # NoToken => users'[tokens'[t].user] # NoUser
    BY <1>1, <1>10, RowTypes DEF IInv, RowsStay
  <2>2. \A u \in Users : versions'[u] # Absent => users'[u] # NoUser
    BY <1>4, <1>6, <1>9 DEF IInv, TypeOK
  <2>3. starts' \in 0 .. MaxStarts
    BY <1>1, <1>2 DEF IInv, TypeOK
  <2>4. replicas' \in [Replicas -> {"down", "schema", "up"}]
    BY <1>1 DEF IInv, TypeOK
  <2>. QED
    BY <1>1, <1>6, <1>9, <2>1, <2>2, <2>3, <2>4 DEF IInv, TypeOK
<1>13. OrdersOK'
  <2>1. \A u \in Users : users[u] # NoUser /\ users[u].disabled => users'[u].disabled
    BY <1>3, <1>6
  <2>. QED
    BY <1>1, <1>10, <1>11, <2>1, NoNewOrder DEF Did
<1>14. RowsOK'
  <2>1. \A u \in Users : users'[u] # NoUser /\ users'[u].disabled => users[u] # NoUser /\ users[u].disabled
    BY <1>3, <1>4, <1>6
  <2>. QED
    BY <1>1, <1>2, <1>6, <1>10, <1>11, <2>1, RowsStayOK DEF IInv, RowsOK
<1>15. DocumentOK'
  <2>1. versions'[Default] # Absent
    BY <1>8, <1>9 DEF Absent
  <2>2. versions'[Default] = LegacyVersion + Cardinality(Writes)
    <3>1. CASE versions[Default] = Absent
      BY <1>2, <1>8, <1>9, <3>1, FS_EmptySet DEF IInv, DocumentOK
    <3>2. CASE versions[Default] # Absent
      BY <1>8, <1>9, <3>2 DEF IInv, DocumentOK
    <3>. QED
      BY <3>1, <3>2
  <2>. QED
    BY <1>11, <2>1, <2>2 DEF IInv, DocumentOK, Absent
<1>. QED
  BY <1>11, <1>12, <1>13, <1>14, <1>15 DEF IInv

LEMMA EnsureBootstrapAdminKeepsIInv ==
  ASSUME IInv, NEW s \in Replicas, EnsureBootstrapAdmin(s)
  PROVE  IInv'
<1>1. /\ UNCHANGED <<versions, starts, requests>> /\ replicas[s] = "schema"
      /\ replicas' = [replicas EXCEPT ![s] = "up"]
  BY DEF EnsureBootstrapAdmin
<1>2. replicas' \in [Replicas -> {"down", "schema", "up"}]
      /\ ((\E k \in Replicas : replicas'[k] # "down") => \E k \in Replicas : replicas[k] # "down")
  BY <1>1 DEF IInv, TypeOK
<1>3. Admin \in Users /\ AdminToken \in Tokens
  BY AccountsAssumption
<1>4. /\ RowsStay
      /\ users' \in [Users -> User \cup {NoUser}] /\ tokens' \in [Tokens -> Token \cup {NoToken}]
      /\ \A t \in Tokens : tokens'[t] # NoToken => users'[tokens'[t].user] # NoUser
      /\ users'[Admin] # NoUser => users'[Admin].admin
      /\ tokens'[AdminToken] # NoToken => tokens'[AdminToken].user = Admin
      /\ \A t \in Tokens : tokens'[t] # NoToken => tokens[t] # NoToken \/ users'[Admin] # NoUser
      /\ \A t \in Tokens : tokens'[t] # NoToken /\ tokens'[t].revoked => tokens[t] # NoToken /\ tokens[t].revoked
      /\ \A u \in Users : users'[u] # NoUser /\ users'[u].disabled => users[u] # NoUser /\ users[u].disabled
      /\ \A t \in Tokens : t # AdminToken /\ tokens[t] # NoToken /\ tokens[t].revoked => tokens'[t].revoked
      /\ \A u \in Users : users[u] # NoUser /\ users[u].disabled => users'[u].disabled
  <2>1. CASE s \notin Bootstraps
    <3>1. UNCHANGED <<users, tokens>>
      BY <2>1 DEF EnsureBootstrapAdmin
    <3>. QED
      BY <3>1, <1>3 DEF RowsStay, IInv, RowsOK, TypeOK
  <2>2. CASE s \in Bootstraps
    <3>1. PICK row : row = IF users[Admin] = NoUser THEN [admin |-> TRUE, disabled |-> FALSE]
                           ELSE [users[Admin] EXCEPT !.admin = TRUE]
      OBVIOUS
    <3>2. /\ row \in User /\ row.admin = TRUE
          /\ row.disabled => users[Admin] # NoUser /\ users[Admin].disabled
          /\ users[Admin] # NoUser /\ users[Admin].disabled => row.disabled
      <4>1. CASE users[Admin] = NoUser
        BY <3>1, <4>1 DEF User
      <4>2. CASE users[Admin] # NoUser
        <5>1. users[Admin] \in User
          BY <1>3, <4>2, RowTypes DEF IInv
        <5>. QED
          BY <3>1, <4>2, <5>1 DEF User
      <4>. QED
        BY <4>1, <4>2
    <3>3. row # NoUser
      BY <3>2, AccountsAssumption DEF User
    <3>4. PICK token : token = [user |-> Admin, revoked |-> FALSE]
      OBVIOUS
    <3>5. token \in Token /\ token # NoToken /\ token.user = Admin /\ token.revoked = FALSE
      BY <1>3, <3>4, NewToken
    <3>6. users' = [users EXCEPT ![Admin] = row] /\ tokens' = [tokens EXCEPT ![AdminToken] = token]
      BY <2>2, <3>1, <3>4 DEF EnsureBootstrapAdmin
    <3>7. /\ users' \in [Users -> User \cup {NoUser}] /\ users'[Admin] = row
          /\ \A u \in Users : u # Admin => users'[u] = users[u]
      BY <1>3, <3>2, <3>6 DEF IInv, TypeOK
    <3>8. /\ tokens' \in [Tokens -> Token \cup {NoToken}] /\ tokens'[AdminToken] = token
          /\ \A t \in Tokens : t # AdminToken => tokens'[t] = tokens[t]
      BY <1>3, <3>5, <3>6 DEF IInv, TypeOK
    <3>9. RowsStay
      BY <3>2, <3>3, <3>5, <3>7, <3>8 DEF RowsStay, IInv, RowsOK
    <3>10. \A t \in Tokens : tokens'[t] # NoToken => users'[tokens'[t].user] # NoUser
      BY <1>3, <3>3, <3>5, <3>7, <3>8, <3>9, RowTypes DEF RowsStay, IInv
    <3>11. \A t \in Tokens : tokens'[t] # NoToken /\ tokens'[t].revoked => tokens[t] # NoToken /\ tokens[t].revoked
      BY <3>5, <3>8
    <3>12. /\ \A u \in Users : users'[u] # NoUser /\ users'[u].disabled => users[u] # NoUser /\ users[u].disabled
           /\ \A u \in Users : users[u] # NoUser /\ users[u].disabled => users'[u].disabled
      BY <3>2, <3>7
    <3>. QED
      BY <3>2, <3>3, <3>5, <3>7, <3>8, <3>9, <3>10, <3>11, <3>12
  <2>. QED
    BY <2>1, <2>2
<1>5. /\ DoneStay /\ Writes' = Writes
      /\ \A q \in Requests : Arrived(q)' => RequestOK(q)' /\ Arrived(q)
      /\ \A kind : \A q \in Requests : Did(q, kind)' = Did(q, kind)
  BY <1>1, <1>4, NobodyMoves
<1>6. TypeOK'
  <2>1. \A u \in Users : versions'[u] # Absent => users'[u] # NoUser
    BY <1>1, <1>4 DEF IInv, TypeOK, RowsStay
  <2>. QED
    BY <1>1, <1>2, <1>4, <2>1 DEF IInv, TypeOK
<1>7. OrdersOK'
  BY <1>1, <1>4, <1>5, NoNewOrder DEF Did
<1>8. RowsOK'
  BY <1>1, <1>4, <1>5, RowsStayOK
<1>9. DocumentOK'
  BY <1>1, <1>2, <1>5 DEF IInv, DocumentOK
<1>. QED
  BY <1>5, <1>6, <1>7, <1>8, <1>9 DEF IInv

LEMMA CrashKeepsIInv ==
  ASSUME IInv, NEW s \in Replicas, Crash(s)
  PROVE  IInv'
<1>1. /\ UNCHANGED <<users, tokens, versions, starts>> /\ replicas[s] # "down"
      /\ replicas' = [replicas EXCEPT ![s] = "down"]
      /\ requests' = [r \in Requests |->
           IF requests[r].pc \in {"authenticate", "execute", "insert"} /\ requests[r].at = s
           THEN Lost ELSE requests[r]]
  BY DEF Crash
<1>2. \A q \in Requests : requests'[q] = requests[q] \/ (requests'[q] = Lost /\ requests[q].pc # "done")
  BY <1>1
<1>3. DoneStay /\ RowsStay
  BY <1>1, <1>2 DEF DoneStay, RowsStay
<1>4. Lost.pc = "lost"
  BY DEF Lost
<1>5. \A q \in Requests : Arrived(q)' => requests'[q] = requests[q] /\ Arrived(q)
  BY <1>2, <1>4 DEF Arrived, Pcs
<1>6. \A q \in Requests : Arrived(q)' => RequestOK(q)'
  BY <1>3, <1>5, RequestStays
<1>7. \A q \in Requests : requests[q].pc # "done" => requests'[q].pc # "done"
  BY <1>2, <1>4
<1>8. TypeOK'
  <2>1. requests' \in [Requests -> Request \cup {NotArrived, Lost}]
    BY <1>1 DEF IInv, TypeOK
  <2>2. replicas' \in [Replicas -> {"down", "schema", "up"}]
    BY <1>1 DEF IInv, TypeOK
  <2>3. \A r \in Requests : requests'[r].pc \in {"execute", "insert"} => requests'[r].caller # Nobody
    BY <1>2, <1>4 DEF IInv, TypeOK
  <2>. QED
    BY <1>1, <2>1, <2>2, <2>3 DEF IInv, TypeOK
<1>9. OrdersOK'
  BY <1>1, <1>3, <1>7, NoNewOrder DEF Did
<1>10. RowsOK'
  BY <1>1, <1>3, RowsStayOK DEF IInv, RowsOK
<1>11. DocumentOK'
  <2>1. \A q \in Requests : (q \in Writes)' <=> q \in Writes
    BY <1>2, <1>4, <1>7 DEF Writes, Did
  <2>2. Writes' = Writes
    BY <2>1 DEF Writes
  <2>3. (\E k \in Replicas : replicas'[k] # "down") => \E k \in Replicas : replicas[k] # "down"
    BY <1>1 DEF IInv, TypeOK
  <2>. QED
    BY <1>1, <1>5, <2>2, <2>3 DEF IInv, DocumentOK
<1>. QED
  BY <1>6, <1>8, <1>9, <1>10, <1>11 DEF IInv

-----------------------------------------------------------------------------
LEMMA InitEstablishesIInv ==
  ASSUME Init
  PROVE  IInv
<1>1. \A r \in Requests : requests[r] = NotArrived /\ requests[r].pc = "new"
  BY DEF Init, NotArrived
<1>2. TypeOK
  BY <1>1, AccountsAssumption DEF Init, TypeOK
<1>3. RowsOK /\ OrdersOK /\ \A r \in Requests : ~Arrived(r)
  BY <1>1, AccountsAssumption DEF Init, RowsOK, OrdersOK, Did, Switched, Arrived, Pcs
<1>4. Writes = {}
  BY <1>1 DEF Writes, Did
<1>5. DocumentOK
  BY <1>3, <1>4, FS_EmptySet, AccountsAssumption DEF Init, DocumentOK
<1>. QED
  BY <1>2, <1>3, <1>5 DEF IInv

LEMMA NextKeepsIInv ==
  ASSUME IInv, [Next]_vars
  PROVE  IInv'
<1>1. CASE Start
  BY <1>1, EnsureSchemaKeepsIInv, EnsureBootstrapAdminKeepsIInv DEF Start
<1>2. CASE Stop
  BY <1>2, CrashKeepsIInv DEF Stop
<1>3. ASSUME NEW r \in Requests, Arrive(r) \/ Handle(r) PROVE IInv'
  BY <1>3, ArriveKeepsIInv, AuthenticateKeepsIInv, CreateUserKeepsIInv, CheckUserKeepsIInv,
     InsertTokenKeepsIInv, RevokeTokenKeepsIInv, SetUserDisabledKeepsIInv, PutSnapshotKeepsIInv
     DEF Handle
<1>4. CASE UNCHANGED vars
  <2>1. UNCHANGED <<users, tokens, versions, replicas, starts, requests>>
    BY <1>4 DEF vars
  <2>2. RowsStay
    BY <2>1 DEF RowsStay
  <2>3. /\ DoneStay /\ Writes' = Writes
        /\ \A q \in Requests : Arrived(q)' => RequestOK(q)' /\ Arrived(q)
        /\ \A kind : \A q \in Requests : Did(q, kind)' = Did(q, kind)
    BY <2>1, <2>2, NobodyMoves
  <2>4. TypeOK'
    BY <2>1 DEF IInv, TypeOK
  <2>5. OrdersOK'
    BY <2>1, <2>2, <2>3, NoNewOrder DEF Did
  <2>6. RowsOK'
    BY <2>1, <2>2, <2>3, RowsStayOK DEF IInv, RowsOK
  <2>7. DocumentOK'
    BY <2>1, <2>3 DEF IInv, DocumentOK
  <2>. QED
    BY <2>3, <2>4, <2>5, <2>6, <2>7 DEF IInv
<1>. QED
  BY <1>1, <1>2, <1>3, <1>4 DEF Next

-----------------------------------------------------------------------------
(* In every reachable state the rows are what the orders made of them, every order that *)
(* was carried out is in force, and every request was answered accordingly.             *)
THEOREM IInvHolds == Spec => []IInv
<1>1. Init => IInv
  BY InitEstablishesIInv
<1>2. IInv /\ [Next]_vars => IInv'
  BY NextKeepsIInv
<1>. QED
  BY <1>1, <1>2, PTL DEF Spec

(* Every variable stays in its type, and the rows refer to each other.                  *)
THEOREM TypeOKHolds == Spec => []TypeOK
<1>1. IInv => TypeOK
  BY DEF IInv
<1>. QED
  BY <1>1, IInvHolds, PTL

(* A revoked token and a disabled user stay refused, whatever interleaves, crashes or   *)
(* is started again.                                                                    *)
THEOREM OrdersHold == Spec => []RefusalsHold
<1>1. ASSUME IInv PROVE RefusalsHold
  <2>1. ASSUME NEW r \in Requests, requests[r].pc = "done"
        PROVE  Obeyed(r) /\ requests[r].before \in SUBSET Requests
    BY <1>1, <2>1, ArrivedTypes DEF IInv, Arrived, Pcs, RequestOK
  <2>. QED
    BY <2>1 DEF RefusalsHold, Obeyed, Enabled
<1>. QED
  BY <1>1, IInvHolds, PTL

(* Nobody is refused without an order to do so.                                         *)
THEOREM NobodyIsLockedOut == Spec => []CredentialsWork
<1>1. ASSUME IInv PROVE CredentialsWork
  <2>1. ASSUME NEW r \in Requests, requests[r].pc = "done", Refused(r)
        PROVE  Justified(r)
    BY <1>1, <2>1 DEF IInv, Arrived, Pcs, RequestOK
  <2>. QED
    BY <2>1 DEF CredentialsWork, Justified
<1>. QED
  BY <1>1, IInvHolds, PTL

(* Every write of the default user is on top of the legacy document, which is migrated  *)
(* once.                                                                                *)
THEOREM LegacyIsKept == Spec => []LegacyKept
<1>1. ASSUME IInv PROVE LegacyKept
  BY <1>1 DEF IInv, DocumentOK, LegacyKept, Writes
<1>. QED
  BY <1>1, IInvHolds, PTL
=============================================================================
