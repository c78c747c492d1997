---------------------------- MODULE SyncDocument ----------------------------
(***************************************************************************)
(* What the sync API promises about one user's document, whatever the      *)
(* server does inside: the four domains and their version are ONE value,   *)
(* a PUT replaces the domains it names and steps the version by one, and   *)
(* a PUT that names an expected version takes effect only on that version. *)
(* SyncStore implements this specification when a user's writes do not     *)
(* overlap, and does not when they do.                                     *)
(***************************************************************************)
EXTENDS Integers

CONSTANTS Users, Domains, Requests, NoRequest, Versions, Absent

VARIABLES
  document,  \* document[u]: the version and, per domain, the request that wrote it
  request,   \* request[r]: what r asks for, or NoRequest before r arrives
  outcome    \* outcome[r]: "open", "applied", "rejected" or "closed"

Blank == [version |-> 0, data |-> [d \in Domains |-> NoRequest]]

Request == [user : Users,
            op : {"get_snapshot", "get_namespace", "put_namespace", "put_snapshot"},
            domains : SUBSET Domains, version : Versions \cup {Absent}]

IsWrite(r) == request[r].op \in {"put_namespace", "put_snapshot"}

Init ==
  /\ document = [u \in Users |-> Blank]
  /\ request = [r \in Requests |-> NoRequest]
  /\ outcome = [r \in Requests |-> "open"]

Submit(r) ==
  /\ request[r] = NoRequest
  /\ \E q \in Request : request' = [request EXCEPT ![r] = q]
  /\ UNCHANGED <<document, outcome>>

Open(r) == request[r] # NoRequest /\ outcome[r] = "open"

Apply(r) ==
  LET u   == request[r].user
      old == document[u]
  IN  /\ Open(r) /\ IsWrite(r)
      /\ request[r].version \in {Absent, old.version}
      /\ document' = [document EXCEPT ![u] =
           [version |-> old.version + 1,
            data    |-> [d \in Domains |->
                           IF d \in request[r].domains THEN r ELSE old.data[d]]]]
      /\ outcome' = [outcome EXCEPT ![r] = "applied"]
      /\ UNCHANGED request

Reject(r) ==
  /\ Open(r) /\ IsWrite(r)
  /\ request[r].version \notin {Absent, document[request[r].user].version}
  /\ outcome' = [outcome EXCEPT ![r] = "rejected"]
  /\ UNCHANGED <<document, request>>

(* A read that was answered, or a request that failed before it had an effect. *)
Close(r) ==
  /\ Open(r)
  /\ outcome' = [outcome EXCEPT ![r] = "closed"]
  /\ UNCHANGED <<document, request>>

Next == \E r \in Requests : Submit(r) \/ Apply(r) \/ Reject(r) \/ Close(r)

vars == <<document, request, outcome>>
Spec == Init /\ [][Next]_vars
=============================================================================
