---------------------------- MODULE UserChannels ----------------------------
(***************************************************************************)
(* Live updates: the map of per-user broadcast channels in AppContext and  *)
(* the WebSocket connections that listen on them.                          *)
(*                                                                         *)
(* A channel is named after the connection whose subscription created it.  *)
(* sent[x] is everything ever sent on channel x; tokio's ring keeps the    *)
(* last Capacity of them.  The critical sections under the RwLock hold no  *)
(* await, so each is one step; the lock is free between the read section   *)
(* of send_user_event and its write section.                               *)
(***************************************************************************)
EXTENDS Integers, Sequences

CONSTANTS
  Users,
  Connections,  \* WebSocket connections; each is opened at most once
  Senders,      \* calls of send_user_event
  None,
  Capacity      \* USER_CHANNEL_CAPACITY

ASSUME CapacityAssumption == Capacity \in Nat \ {0}
ASSUME NoneAssumption == None \notin Connections \cup Senders \cup Users

VARIABLES
  userChannel,  \* userChannel[u]: the channel in the map, or None
  sent,         \* sent[x]: the calls whose event went out on channel x
  ws,           \* ws[c]: where connection c is
  wsUser,       \* wsUser[c]: the user c authenticated as
  channel,      \* channel[c]: the channel c's receiver belongs to
  start,        \* start[c]: ghost, the index of the first event sent after c subscribed
  next,         \* next[c]: the index of the next event c receives
  delivered,    \* delivered[c]: the indices written to c's socket, in order
  skipped,      \* skipped[c]: the indices c lost to a Lagged error
  call,         \* call[s]: where the call s is
  callUser,     \* callUser[s]: the user whose event s sends
  serving       \* FALSE once the server has shut down and dropped AppContext

channelVars == <<userChannel, sent>>
wsVars == <<ws, wsUser, channel, start, next, delivered, skipped>>
callVars == <<call, callUser>>
vars == <<channelVars, wsVars, callVars, serving>>

(* A receiver exists from the subscription to the end of the connection's task. *)
Listening(c) == ws[c] \in {"subscribed", "open", "writing"}
Receivers(x) == {c \in Connections : Listening(c) /\ channel[c] = x}
Last(x) == Len(sent[x])

Init ==
  /\ userChannel = [u \in Users |-> None]
  /\ sent = [x \in Connections |-> <<>>]
  /\ ws = [c \in Connections |-> "idle"]
  /\ wsUser = [c \in Connections |-> None]
  /\ channel = [c \in Connections |-> None]
  /\ start = [c \in Connections |-> 1]
  /\ next = [c \in Connections |-> 1]
  /\ delivered = [c \in Connections |-> <<>>]
  /\ skipped = [c \in Connections |-> {}]
  /\ call = [s \in Senders |-> "idle"]
  /\ callUser = [s \in Senders |-> None]
  /\ serving = TRUE

-----------------------------------------------------------------------------
(* subscribe_user, under the write lock: the user's channel, made if missing. *)
Subscribe(c, u) ==
  LET x == IF userChannel[u] = None THEN c ELSE userChannel[u] IN
  /\ serving /\ ws[c] = "idle"
  /\ ws' = [ws EXCEPT ![c] = "subscribed"]
  /\ wsUser' = [wsUser EXCEPT ![c] = u]
  /\ userChannel' = [userChannel EXCEPT ![u] = x]
  /\ channel' = [channel EXCEPT ![c] = x]
  /\ start' = [start EXCEPT ![c] = Last(x) + 1]
  /\ next' = [next EXCEPT ![c] = Last(x) + 1]
  /\ UNCHANGED <<sent, delivered, skipped, callVars, serving>>

(* The answer 101 is out and the connection's task runs; or the upgrade fails. *)
Upgrade(c) ==
  /\ ws[c] = "subscribed"
  /\ \E state \in {"open", "closed"} : ws' = [ws EXCEPT ![c] = state]
  /\ UNCHANGED <<channelVars, wsUser, channel, start, next, delivered, skipped, callVars, serving>>

(* send_user_event, under the read lock.  A broadcast fails when nobody listens. *)
SendUserEvent(s, u) ==
  LET x == userChannel[u] IN
  /\ serving /\ call[s] = "idle"
  /\ callUser' = [callUser EXCEPT ![s] = u]
  /\ \/ /\ x = None
        /\ call' = [call EXCEPT ![s] = "done"]
        /\ UNCHANGED sent
     \/ /\ x # None /\ Receivers(x) = {}
        /\ call' = [call EXCEPT ![s] = "cleanup"]
        /\ UNCHANGED sent
     \/ /\ x # None /\ Receivers(x) # {}
        /\ call' = [call EXCEPT ![s] = "done"]
        /\ sent' = [sent EXCEPT ![x] = Append(@, s)]
  /\ UNCHANGED <<userChannel, wsVars, serving>>

(* A bug for the mutant runs: the receivers are not counted again under the write lock. *)
CleanupUnchecked(s) ==
  /\ call[s] = "cleanup"
  /\ call' = [call EXCEPT ![s] = "done"]
  /\ userChannel' = [userChannel EXCEPT ![callUser[s]] = None]
  /\ UNCHANGED <<sent, wsVars, callUser, serving>>

(* The write section: a subscriber may have come since the read section. *)
Cleanup(s) ==
  /\ call[s] = "cleanup"
  /\ call' = [call EXCEPT ![s] = "done"]
  /\ userChannel' =
       [userChannel EXCEPT ![callUser[s]] =
          IF @ # None /\ Receivers(@) = {} THEN None ELSE @]
  /\ UNCHANGED <<sent, wsVars, callUser, serving>>

(* The handler that called send_user_event is dropped while it waits for the write lock. *)
Abandon(s) ==
  /\ call[s] = "cleanup"
  /\ call' = [call EXCEPT ![s] = "done"]
  /\ UNCHANGED <<channelVars, wsVars, callUser, serving>>

(* Graceful shutdown: the handlers have ended and AppContext is dropped, with the map's *)
(* senders; the connections' tasks hold only receivers.                                 *)
Stop ==
  /\ serving
  /\ \A s \in Senders : call[s] # "cleanup"
  /\ \A c \in Connections : ws[c] # "subscribed"
  /\ serving' = FALSE
  /\ userChannel' = [u \in Users |-> None]
  /\ UNCHANGED <<sent, wsVars, callVars>>

-----------------------------------------------------------------------------
(* handle_ws_connection: one iteration of the select loop per step. *)

Behind(c) == Last(channel[c]) - next[c] + 1

(* A bug for the mutant runs: on Lagged the loop reads on from where it was. *)
LaggedStaysBehind(c) ==
  /\ ws[c] = "open" /\ Behind(c) > Capacity
  /\ UNCHANGED vars

(* recv() returns Lagged: the receiver moves to the oldest event the ring holds, and *)
(* the loop continues.                                                               *)
Lagged(c) ==
  LET oldest == Last(channel[c]) - Capacity + 1 IN
  /\ ws[c] = "open" /\ Behind(c) > Capacity
  /\ next' = [next EXCEPT ![c] = oldest]
  /\ skipped' = [skipped EXCEPT ![c] = @ \cup (next[c] .. oldest - 1)]
  /\ UNCHANGED <<channelVars, ws, wsUser, channel, start, delivered, callVars, serving>>

(* recv() returns an event; the task starts to write it to the socket. *)
Receive(c) ==
  /\ ws[c] = "open" /\ Behind(c) \in 1 .. Capacity
  /\ ws' = [ws EXCEPT ![c] = "writing"]
  /\ next' = [next EXCEPT ![c] = @ + 1]
  /\ UNCHANGED <<channelVars, wsUser, channel, start, delivered, skipped, callVars, serving>>

(* recv() returns Closed: no sender is left and the ring is drained. *)
ChannelClosed(c) ==
  /\ ws[c] = "open" /\ Behind(c) = 0 /\ userChannel[wsUser[c]] # channel[c]
  /\ ws' = [ws EXCEPT ![c] = "closed"]
  /\ UNCHANGED <<channelVars, wsUser, channel, start, next, delivered, skipped, callVars, serving>>

(* A bug for the mutant runs: a message of the client that comes in meanwhile cancels the *)
(* write, as it would if the write were a branch of the select.                           *)
WriteCancelled(c) ==
  /\ ws[c] = "writing"
  /\ ws' = [ws EXCEPT ![c] = "open"]
  /\ \/ delivered' = [delivered EXCEPT ![c] = Append(@, next[c] - 1)]
     \/ UNCHANGED delivered
  /\ UNCHANGED <<channelVars, wsUser, channel, start, next, skipped, callVars, serving>>

(* The write ends: the loop is back in its select. *)
Written(c) ==
  /\ ws[c] = "writing"
  /\ ws' = [ws EXCEPT ![c] = "open"]
  /\ delivered' = [delivered EXCEPT ![c] = Append(@, next[c] - 1)]
  /\ UNCHANGED <<channelVars, wsUser, channel, start, next, skipped, callVars, serving>>

(* A failed write, or a Close, an error or the end of the client's stream: both end the *)
(* task.  The client's stream is only looked at in the select.                          *)
Disconnect(c) ==
  /\ ws[c] \in {"open", "writing"}
  /\ ws' = [ws EXCEPT ![c] = "closed"]
  /\ UNCHANGED <<channelVars, wsUser, channel, start, next, delivered, skipped, callVars, serving>>

Serve(c) == Lagged(c) \/ Receive(c) \/ ChannelClosed(c) \/ Written(c)

Next ==
  \/ \E c \in Connections : \/ \E u \in Users : Subscribe(c, u)
                            \/ Upgrade(c)
                            \/ Serve(c)
                            \/ Disconnect(c)
  \/ \E s \in Senders : \/ \E u \in Users : SendUserEvent(s, u)
                        \/ Cleanup(s)
                        \/ Abandon(s)
  \/ Stop

(* The runtime polls every connection's task and the client of the connection reads its *)
(* socket (a client that does not is never timed out, and its task may stay in a write). *)
Fairness == \A c \in Connections : WF_vars(Upgrade(c)) /\ WF_vars(Serve(c))

Spec == Init /\ [][Next]_vars
FairSpec == Spec /\ Fairness

-----------------------------------------------------------------------------
(* What c's receiver has yet to take: a receiver that is further behind than the ring is *)
(* long gets what the ring holds.                                                        *)
ToCome(c) ==
  LET x == channel[c]
      first == IF Behind(c) > Capacity THEN Last(x) - Capacity + 1 ELSE next[c] IN
  IF Listening(c) THEN SubSeq(sent[x], first, Last(x)) ELSE <<>>

Updates == INSTANCE LiveUpdates WITH
  listener <- [c \in Connections |-> IF Listening(c) THEN wsUser[c] ELSE None],
  toCome <- [c \in Connections |-> ToCome(c)],
  called <- callUser

-----------------------------------------------------------------------------
TypeOK ==
  /\ userChannel \in [Users -> Connections \cup {None}]
  /\ sent \in [Connections -> Seq(Senders)]
  /\ ws \in [Connections -> {"idle", "subscribed", "open", "writing", "closed"}]
  /\ wsUser \in [Connections -> Users \cup {None}]
  /\ channel \in [Connections -> Connections \cup {None}]
  /\ start \in [Connections -> Nat \ {0}]
  /\ next \in [Connections -> Nat \ {0}]
  /\ delivered \in [Connections -> Seq(Nat \ {0})]
  /\ skipped \in [Connections -> SUBSET (Nat \ {0})]
  /\ call \in [Senders -> {"idle", "cleanup", "done"}]
  /\ callUser \in [Senders -> Users \cup {None}]
  /\ serving \in BOOLEAN

(* Whoever listens is reached: the channel of every live connection is the one in its   *)
(* user's map entry, so no cleanup that raced with a subscription cut a client off.     *)
ListenersAreMapped ==
  serving => \A c \in Connections : Listening(c) => userChannel[wsUser[c]] = channel[c]

(* What a live client has missed is accounted for: every event sent since it subscribed *)
(* and taken by its task was written to the socket, is being written, or was lost to a  *)
(* Lagged error; nothing is written twice or out of order; and only what is more than   *)
(* Capacity events old is ever lost.                                                    *)
EveryEventAccountedFor ==
  \A c \in Connections :
    LET written == {delivered[c][k] : k \in DOMAIN delivered[c]} IN
    /\ Listening(c) =>
         start[c] .. (next[c] - 1) =
           written \cup skipped[c] \cup (IF ws[c] = "writing" THEN {next[c] - 1} ELSE {})
    /\ written \cap skipped[c] = {}
    /\ \A j, k \in DOMAIN delivered[c] : j < k => delivered[c][j] < delivered[c][k]
    /\ \A i \in skipped[c] : i <= Last(channel[c]) - Capacity

(* subscribe_user, send_user_event and the connections' tasks are live updates: however  *)
(* their steps on the map of channels interleave, each call queues its event for every   *)
(* connection of its user that listens at that moment, for nobody else's, and in order.  *)
ImplementsLiveUpdates == Updates!Spec

(* A client that keeps reading catches up with its channel, or its connection ends.     *)
ListenersCatchUp ==
  \A c \in Connections :
    (ws[c] = "open" /\ Behind(c) > 0) ~>
      (ws[c] = "closed" \/ (ws[c] = "open" /\ Behind(c) = 0))

(* "Slow WebSocket clients that fall more than this many messages behind will receive a *)
(* Lagged error and must refresh": a client that lost events is told, by a message or   *)
(* by the end of the connection; no message exists, so its connection has ended.        *)
LaggedClientIsTold ==
  \A c \in Connections : skipped[c] # {} => ws[c] \notin {"open", "writing"}
=============================================================================
