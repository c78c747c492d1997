------------------------------ MODULE Accounts ------------------------------
(***************************************************************************)
(* Users and tokens: the server's start (schema, legacy document, boot-    *)
(* strap), authentication, and the handlers of the admin API.              *)
(*                                                                         *)
(* A user is its name, which is unique and never changes; users are never  *)
(* deleted.  Every statement is a step.  ensure_schema and                 *)
(* ensure_bootstrap_admin are a transaction each whose rows appear at the  *)
(* commit; what it inserts or updates is locked until then, so that each   *)
(* is one step.  A document is its version: SyncStore models how it is     *)
(* written.                                                                *)
(***************************************************************************)
EXTENDS Integers, FiniteSets

CONSTANTS
  Users, Tokens, Requests, Replicas,
  NoUser, NoToken, Nobody,
  Admin,           \* ADMIN_BOOTSTRAP_NAME
  AdminToken,      \* ADMIN_BOOTSTRAP_TOKEN
  Bootstraps,      \* the replicas that are configured with it
  Default,         \* the owner of the legacy document
  LegacyVersion,
  Ops,             \* what the requests may ask for
  MaxStarts        \* a bound on the starts of all replicas

AllOps ==
  [kind : {"create_user"}, user : Users, admin : BOOLEAN]
  \cup [kind : {"create_token"}, user : Users]
  \cup [kind : {"revoke_token"}, token : Tokens]
  \cup [kind : {"set_user_disabled"}, user : Users, disabled : BOOLEAN]
  \cup [kind : {"put_snapshot"}]

ASSUME AccountsAssumption ==
  /\ Ops \subseteq AllOps
  /\ Admin \in Users /\ Default \in Users /\ Admin # Default
  /\ AdminToken \in Tokens /\ Bootstraps \subseteq Replicas
  /\ LegacyVersion \in Nat /\ MaxStarts \in Nat
  /\ NoUser \notin [admin : BOOLEAN, disabled : BOOLEAN]
  /\ NoToken \notin [user : Users, revoked : BOOLEAN]
  /\ Nobody \notin Users /\ Nobody \notin Replicas

VARIABLES
  users,      \* users[u]: the row, or NoUser
  tokens,     \* tokens[t]: the row of the token's hash, or NoToken
  versions,   \* versions[u]: the version of u's document, or Absent
  replicas,   \* "down", "schema" (ensure_schema is done) or "up"
  starts,
  requests    \* requests[r]: see Request

Absent == -1

vars == <<users, tokens, versions, replicas, starts, requests>>

User == [admin : BOOLEAN, disabled : BOOLEAN]
Token == [user : Users, revoked : BOOLEAN]

AdminOp(op) == op.kind # "put_snapshot"

(* at: the replica that serves it; caller: who authenticated.  Ghosts, of the moment *)
(* it arrived: the requests answered before, and whether its token had been issued.  *)
Request ==
  [op : Ops, token : Tokens, at : Replicas \cup {Nobody}, caller : Users \cup {Nobody},
   pc : {"authenticate", "execute", "insert", "done"},
   answer : {"none", "ok", "unauthorized", "forbidden", "not_found", "conflict"},
   before : SUBSET Requests, issued : BOOLEAN]

NotArrived == [pc |-> "new"]
Lost == [pc |-> "lost"]

Init ==
  /\ users = [u \in Users |-> NoUser]
  /\ tokens = [t \in Tokens |-> NoToken]
  /\ versions = [u \in Users |-> Absent]
  /\ replicas = [s \in Replicas |-> "down"]
  /\ starts = 0
  /\ requests = [r \in Requests |-> NotArrived]

-----------------------------------------------------------------------------
(* The start of a replica. *)

(* A bug for the mutant runs: ON CONFLICT ... DO UPDATE for the legacy document. *)
MigrateAgain(v) == LegacyVersion
Migrate(v) == IF v = Absent THEN LegacyVersion ELSE v

EnsureSchema(s) ==
  /\ replicas[s] = "down" /\ starts < MaxStarts
  /\ users' = [users EXCEPT ![Default] =
                 IF @ = NoUser THEN [admin |-> FALSE, disabled |-> FALSE] ELSE @]
  /\ versions' = [versions EXCEPT ![Default] = Migrate(@)]
  /\ replicas' = [replicas EXCEPT ![s] = "schema"]
  /\ starts' = starts + 1
  /\ UNCHANGED <<tokens, requests>>

EnsureBootstrapAdmin(s) ==
  /\ replicas[s] = "schema"
  /\ replicas' = [replicas EXCEPT ![s] = "up"]
  /\ IF s \in Bootstraps
     THEN /\ users' = [users EXCEPT ![Admin] =
                IF @ = NoUser THEN [admin |-> TRUE, disabled |-> FALSE]
                ELSE [@ EXCEPT !.admin = TRUE]]
          /\ tokens' = [tokens EXCEPT ![AdminToken] =
                [user |-> Admin, revoked |-> FALSE]]
     ELSE UNCHANGED <<users, tokens>>
  /\ UNCHANGED <<versions, starts, requests>>

(* The process ends; what it was doing is cut off between two statements. *)
Crash(s) ==
  /\ replicas[s] # "down"
  /\ replicas' = [replicas EXCEPT ![s] = "down"]
  /\ requests' = [r \in Requests |->
       IF requests[r].pc \in {"authenticate", "execute", "insert"} /\ requests[r].at = s
       THEN Lost ELSE requests[r]]
  /\ UNCHANGED <<users, tokens, versions, starts>>

-----------------------------------------------------------------------------
(* Requests. *)

Arrive(r) ==
  /\ requests[r].pc = "new"
  /\ \E op \in Ops, t \in Tokens, s \in Replicas :
       /\ replicas[s] = "up"
       /\ requests' = [requests EXCEPT ![r] =
            [op |-> op, token |-> t, at |-> s, caller |-> Nobody, pc |-> "authenticate",
             answer |-> "none", before |-> {q \in Requests : requests[q].pc = "done"},
             issued |-> tokens[t] # NoToken]]
  /\ UNCHANGED <<users, tokens, versions, replicas, starts>>

Answered(r, a) == [requests EXCEPT ![r].pc = "done", ![r].answer = a, ![r].at = Nobody]

(* A bug for the mutant runs: revoked_at is not looked at. *)
AnyToken(t) == tokens[t] # NoToken
Active(t) == tokens[t] # NoToken /\ ~tokens[t].revoked

(* authenticate_token, and require_admin on what it read. *)
Authenticate(r) ==
  LET t == requests[r].token IN
  /\ requests[r].pc = "authenticate"
  /\ \/ /\ ~Active(t)
        /\ requests' = Answered(r, "unauthorized")
     \/ /\ Active(t)
        /\ LET u == users[tokens[t].user] IN
           IF u.disabled \/ (AdminOp(requests[r].op) /\ ~u.admin)
           THEN requests' = Answered(r, "forbidden")
           ELSE requests' = [requests EXCEPT ![r].pc = "execute",
                                             ![r].caller = tokens[t].user]
  /\ UNCHANGED <<users, tokens, versions, replicas, starts>>

Executes(r, kind) == requests[r].pc = "execute" /\ requests[r].op.kind = kind

CreateUser(r) ==
  LET op == requests[r].op IN
  /\ Executes(r, "create_user")
  /\ \/ /\ users[op.user] = NoUser
        /\ users' = [users EXCEPT ![op.user] = [admin |-> op.admin, disabled |-> FALSE]]
        /\ requests' = Answered(r, "ok")
     \/ /\ users[op.user] # NoUser
        /\ requests' = Answered(r, "conflict")
        /\ UNCHANGED users
  /\ UNCHANGED <<tokens, versions, replicas, starts>>

(* create_token: SELECT, then INSERT with a token nobody has. *)
CheckUser(r) ==
  /\ Executes(r, "create_token")
  /\ requests' = IF users[requests[r].op.user] = NoUser THEN Answered(r, "not_found")
                 ELSE [requests EXCEPT ![r].pc = "insert"]
  /\ UNCHANGED <<users, tokens, versions, replicas, starts>>

InsertToken(r) ==
  /\ requests[r].pc = "insert"
  /\ \E t \in Tokens \ {AdminToken} :
       /\ tokens[t] = NoToken
       /\ tokens' = [tokens EXCEPT ![t] =
            [user |-> requests[r].op.user, revoked |-> FALSE]]
  /\ requests' = Answered(r, "ok")
  /\ UNCHANGED <<users, versions, replicas, starts>>

(* A bug for the mutant runs: the token the request came with. *)
OwnToken(r) == requests[r].token
Target(r) == requests[r].op.token

RevokeToken(r) ==
  /\ Executes(r, "revoke_token")
  /\ \/ /\ Active(Target(r))
        /\ tokens' = [tokens EXCEPT ![Target(r)].revoked = TRUE]
        /\ requests' = Answered(r, "ok")
     \/ /\ ~Active(Target(r))
        /\ requests' = Answered(r, "not_found")
        /\ UNCHANGED tokens
  /\ UNCHANGED <<users, versions, replicas, starts>>

SetUserDisabled(r) ==
  LET op == requests[r].op IN
  /\ Executes(r, "set_user_disabled")
  /\ \/ /\ users[op.user] # NoUser
        /\ users' = [users EXCEPT ![op.user].disabled = op.disabled]
        /\ requests' = Answered(r, "ok")
     \/ /\ users[op.user] = NoUser
        /\ requests' = Answered(r, "not_found")
        /\ UNCHANGED users
  /\ UNCHANGED <<tokens, versions, replicas, starts>>

(* ensure_user_document and replace_snapshot. *)
PutSnapshot(r) ==
  /\ Executes(r, "put_snapshot")
  /\ versions' = [versions EXCEPT ![requests[r].caller] = (IF @ = Absent THEN 0 ELSE @) + 1]
  /\ requests' = Answered(r, "ok")
  /\ UNCHANGED <<users, tokens, replicas, starts>>

Start == \E s \in Replicas : EnsureSchema(s) \/ EnsureBootstrapAdmin(s)
Stop == \E s \in Replicas : Crash(s)
Handle(r) ==
  \/ Authenticate(r) \/ CreateUser(r) \/ CheckUser(r) \/ InsertToken(r)
  \/ RevokeToken(r) \/ SetUserDisabled(r) \/ PutSnapshot(r)

Next == Start \/ Stop \/ \E r \in Requests : Arrive(r) \/ Handle(r)

Spec == Init /\ [][Next]_vars

-----------------------------------------------------------------------------
(* The rows refer to each other, and a request executes only for who authenticated. *)
TypeOK ==
  /\ users \in [Users -> User \cup {NoUser}]
  /\ tokens \in [Tokens -> Token \cup {NoToken}]
  /\ versions \in [Users -> Nat \cup {Absent}]
  /\ replicas \in [Replicas -> {"down", "schema", "up"}] /\ starts \in 0 .. MaxStarts
  /\ requests \in [Requests -> Request \cup {NotArrived, Lost}]
  /\ \A t \in Tokens : tokens[t] # NoToken => users[tokens[t].user] # NoUser
  /\ \A u \in Users : versions[u] # Absent => users[u] # NoUser
  /\ \A r \in Requests :
       requests[r].pc \in {"execute", "insert"} => requests[r].caller # Nobody

Did(q, kind) == requests[q].pc = "done" /\ requests[q].answer = "ok" /\ requests[q].op.kind = kind
Switched(q, u, disabled) ==
  Did(q, "set_user_disabled") /\ requests[q].op.user = u /\ requests[q].op.disabled = disabled
Refused(r) == requests[r].answer \in {"unauthorized", "forbidden"}

(* An order to refuse somebody holds for every request that arrives after its answer:  *)
(* a revoked token stays refused (but the bootstrap token, which every start activates *)
(* again), and so does a disabled user who was not enabled meanwhile; whichever        *)
(* replica serves, and however many are restarted.                                     *)
RefusalsHold ==
  \A r \in Requests : requests[r].pc = "done" =>
    \A q \in requests[r].before :
      LET t == requests[r].token IN
      /\ Did(q, "revoke_token") /\ requests[q].op.token = t /\ t # AdminToken
           => requests[r].answer = "unauthorized"
      /\ \A u \in Users :
           /\ tokens[t] # NoToken /\ tokens[t].user = u /\ Switched(q, u, TRUE)
           /\ \A e \in Requests : Switched(e, u, FALSE) => e \in requests[q].before
           => Refused(r)

(* Nobody is refused without such an order: a request with a token that was issued     *)
(* before it arrived is refused only if the token was revoked, or its user disabled or *)
(* not an administrator; README.md:32, `this token is activated', for the bootstrap    *)
(* token.                                                                              *)
CredentialsWork ==
  \A r \in Requests : requests[r].pc = "done" /\ Refused(r) =>
    LET t == requests[r].token IN
    requests[r].issued =>
      \/ \E q \in Requests : Did(q, "revoke_token") /\ requests[q].op.token = t
      \/ \E q \in Requests : Switched(q, tokens[t].user, TRUE)
      \/ /\ AdminOp(requests[r].op) /\ ~users[tokens[t].user].admin
         /\ requests[r].answer = "forbidden"

(* The legacy document is migrated before anybody is served, once: the starts that     *)
(* follow leave the writes made since alone.                                           *)
LegacyKept ==
  (\E s \in Replicas : replicas[s] = "up") =>
    versions[Default] = LegacyVersion
      + Cardinality({r \in Requests : Did(r, "put_snapshot") /\ requests[r].caller = Default})
=============================================================================
