----------------------------- MODULE LiveUpdates -----------------------------
(***************************************************************************)
(* What the live updates promise to whoever listens, whatever channels and *)
(* locks the server does it with: each connection has a queue of the       *)
(* events that are to come, every event of its user from the subscription  *)
(* on enters it, and only events that are more than Capacity old fall out  *)
(* of it unread.                                                           *)
(* UserChannels implements this specification; SyncClients builds on it.   *)
(***************************************************************************)
EXTENDS Integers, Sequences

CONSTANTS Users, Connections, Senders, None, Capacity

VARIABLES
  listener,  \* listener[c]: the user whose events c gets, or None
  toCome,    \* toCome[c]: the events that c has yet to take, the oldest first
  called     \* called[s]: the user whose event the call s sends, or None before it

Init ==
  /\ listener = [c \in Connections |-> None]
  /\ toCome = [c \in Connections |-> <<>>]
  /\ called = [s \in Senders |-> None]

(* A connection gets what is sent from now on. *)
Listen(c, u) ==
  /\ listener[c] = None
  /\ listener' = [listener EXCEPT ![c] = u]
  /\ UNCHANGED <<toCome, called>>

(* A full queue loses its oldest event. *)
Keep(events, e) ==
  LET all == Append(events, e) IN
  SubSeq(all, IF Len(all) > Capacity THEN Len(all) - Capacity + 1 ELSE 1, Len(all))

(* An event of u: for all of u's connections, and for nobody else's. *)
Send(s, u) ==
  /\ called[s] = None
  /\ called' = [called EXCEPT ![s] = u]
  /\ toCome' = [c \in Connections |-> IF listener[c] = u THEN Keep(toCome[c], s) ELSE toCome[c]]
  /\ UNCHANGED listener

Take(c) ==
  /\ toCome[c] # <<>>
  /\ toCome' = [toCome EXCEPT ![c] = Tail(@)]
  /\ UNCHANGED <<listener, called>>

(* The connection ends, with what was to come. *)
Leave(c) ==
  /\ listener[c] # None
  /\ listener' = [listener EXCEPT ![c] = None]
  /\ toCome' = [toCome EXCEPT ![c] = <<>>]
  /\ UNCHANGED called

Next ==
  \/ \E c \in Connections : (\E u \in Users : Listen(c, u)) \/ Take(c) \/ Leave(c)
  \/ \E s \in Senders, u \in Users : Send(s, u)

vars == <<listener, toCome, called>>
Spec == Init /\ [][Next]_vars
=============================================================================
