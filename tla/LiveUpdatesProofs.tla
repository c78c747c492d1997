------------------------- MODULE LiveUpdatesProofs --------------------------
(***************************************************************************)
(* The safety of the live updates, from the server's channels to what the  *)
(* devices do with their events: the properties of UserChannels, for any   *)
(* users, connections, calls and capacity; that a connection loses of its  *)
(* events what SyncClients lets a socket lose; and the properties of       *)
(* SyncClients, where the PUTs of a user do not overlap, for any devices,  *)
(* domains and requests.                                                   *)
(***************************************************************************)
EXTENDS UserChannels, SyncClients, FiniteSetTheorems, TLAPS

-----------------------------------------------------------------------------
(* The channels. *)

(* Who listens has a user and a channel, and so has a call that cleans up.              *)
WellFormed ==
  /\ \A c \in Connections : ws[c] # "idle" => wsUser[c] \in Users /\ channel[c] \in Connections
  /\ \A s \in Senders : call[s] = "cleanup" => callUser[s] \in Users

(* The index up to which c's task is through with its channel.                          *)
Taken(c) == IF ws[c] = "writing" THEN next[c] - 2 ELSE next[c] - 1

(* A cursor is between the subscription and the end of the channel, and what was        *)
(* written or skipped is behind it.                                                     *)
Progress(c) ==
  /\ ws[c] = "idle" => delivered[c] = <<>> /\ skipped[c] = {}
  /\ Listening(c) => /\ start[c] <= Taken(c) + 1
                     /\ next[c] <= Last(channel[c]) + 1
                     /\ \A k \in DOMAIN delivered[c] : delivered[c][k] <= Taken(c)
                     /\ \A i \in skipped[c] : i <= Taken(c)

Wrote(c) == {delivered[c][k] : k \in DOMAIN delivered[c]}

(* EveryEventAccountedFor, of one connection.                                           *)
Accounted(c) ==
  /\ Listening(c) => start[c] .. Taken(c) = Wrote(c) \cup skipped[c]
  /\ Wrote(c) \cap skipped[c] = {}
  /\ \A j, k \in DOMAIN delivered[c] : j < k => delivered[c][j] < delivered[c][k]
  /\ \A i \in skipped[c] : i <= Last(channel[c]) - Capacity

InOrder == \A c \in Connections : Progress(c) /\ Accounted(c)

IInv == TypeOK /\ WellFormed /\ ListenersAreMapped /\ InOrder

-----------------------------------------------------------------------------
LEMMA AppendFacts ==
  ASSUME NEW S, NEW s \in Seq(S), NEW e \in S
  PROVE  /\ Append(s, e) \in Seq(S)
         /\ Len(Append(s, e)) = Len(s) + 1
         /\ \A i \in 1 .. Len(s) : Append(s, e)[i] = s[i]
         /\ Append(s, e)[Len(s) + 1] = e
         /\ DOMAIN s = 1 .. Len(s)
         /\ DOMAIN Append(s, e) = 1 .. Len(s) + 1
         /\ Len(s) \in Nat
OBVIOUS

(* The types of one connection's state. *)
LEMMA Types ==
  ASSUME TypeOK, NEW c \in Connections
  PROVE  /\ start[c] \in Nat \ {0} /\ next[c] \in Nat \ {0}
         /\ delivered[c] \in Seq(Nat \ {0}) /\ skipped[c] \in SUBSET (Nat \ {0})
         /\ Taken(c) \in Int
         /\ ws[c] \in {"idle", "subscribed", "open", "writing", "closed"}
BY DEF TypeOK, Taken

LEMMA LastTypes ==
  ASSUME TypeOK, NEW x \in Connections
  PROVE  sent[x] \in Seq(Senders) /\ Last(x) \in Nat
BY DEF TypeOK, Last

(* What the module asks of a connection is what is kept of it here. *)
LEMMA AccountedForIsAccounted ==
  ASSUME TypeOK, InOrder
  PROVE  EveryEventAccountedFor
<1>. SUFFICES ASSUME NEW c \in Connections, Progress(c), Accounted(c)
     PROVE  Listening(c) =>
              start[c] .. (next[c] - 1) =
                Wrote(c) \cup skipped[c] \cup (IF ws[c] = "writing" THEN {next[c] - 1} ELSE {})
  BY DEF InOrder, Accounted, Wrote, EveryEventAccountedFor
<1>. SUFFICES ASSUME Listening(c)
     PROVE  start[c] .. (next[c] - 1) =
              Wrote(c) \cup skipped[c] \cup (IF ws[c] = "writing" THEN {next[c] - 1} ELSE {})
  OBVIOUS
<1>1. start[c] .. Taken(c) = Wrote(c) \cup skipped[c] /\ start[c] <= Taken(c) + 1
  BY DEF Accounted, Progress
<1>2. CASE ws[c] = "writing"
  <2>1. start[c] .. (next[c] - 1) = (start[c] .. (next[c] - 2)) \cup {next[c] - 1}
    BY <1>1, <1>2, Types DEF Taken
  <2>. QED
    BY <1>1, <1>2, <2>1 DEF Taken
<1>3. CASE ws[c] # "writing"
  BY <1>1, <1>3 DEF Taken
<1>. QED
  BY <1>2, <1>3

(* A connection is as it was, or its task ended, and nothing was taken off its channel. *)
LEMMA Unaffected ==
  ASSUME TypeOK, WellFormed, NEW c \in Connections, Progress(c), Accounted(c),
         ws'[c] \in {ws[c], "closed"}, ws[c] = "idle" => ws'[c] = "idle",
         channel'[c] = channel[c], start'[c] = start[c], next'[c] = next[c],
         delivered'[c] = delivered[c], skipped'[c] = skipped[c],
         \A x \in Connections : Len(sent'[x]) \in Nat /\ Len(sent'[x]) >= Len(sent[x])
  PROVE  Progress(c)' /\ Accounted(c)'
<1>1. Wrote(c)' = Wrote(c)
  BY DEF Wrote
<1>2. Listening(c)' => Listening(c) /\ Taken(c)' = Taken(c) /\ ws'[c] = ws[c]
  BY DEF Listening, Taken
<1>3. ws[c] # "idle" => /\ channel[c] \in Connections
                        /\ Last(channel[c])' >= Last(channel[c]) /\ Last(channel[c])' \in Nat
                        /\ Last(channel[c]) \in Nat
  BY LastTypes DEF WellFormed, Last
<1>4. Progress(c)'
  <2>1. ws'[c] = "idle" => delivered'[c] = <<>> /\ skipped'[c] = {}
    BY DEF Progress
  <2>2. ASSUME Listening(c)'
        PROVE  /\ start'[c] <= Taken(c)' + 1 /\ next'[c] <= Last(channel[c])' + 1
               /\ \A k \in DOMAIN delivered'[c] : delivered'[c][k] <= Taken(c)'
               /\ \A i \in skipped'[c] : i <= Taken(c)'
    <3>1. Listening(c) /\ Taken(c)' = Taken(c) /\ ws[c] # "idle"
      BY <1>2, <2>2 DEF Listening
    <3>2. next[c] <= Last(channel[c]) + 1 /\ next[c] \in Nat
      BY <3>1, Types DEF Progress
    <3>3. next'[c] <= Last(channel[c])' + 1
      BY <1>3, <3>1, <3>2
    <3>. QED
      BY <3>1, <3>3 DEF Progress
  <2>. QED
    BY <2>1, <2>2 DEF Progress
<1>5. \A i \in skipped'[c] : i <= Last(channel[c])' - Capacity
  <2>1. CASE ws[c] = "idle"
    BY <2>1 DEF Progress
  <2>2. CASE ws[c] # "idle"
    BY <1>3, <2>2, Types, CapacityAssumption DEF Accounted
  <2>. QED
    BY <2>1, <2>2
<1>6. Accounted(c)'
  BY <1>1, <1>2, <1>5 DEF Accounted
<1>. QED
  BY <1>4, <1>6

(* A step that leaves the connections alone, except that some end. *)
LEMMA ConnectionsUnaffected ==
  ASSUME IInv,
         \A c \in Connections : ws'[c] \in {ws[c], "closed"} /\ (ws[c] = "idle" => ws'[c] = "idle"),
         UNCHANGED <<channel, start, next, delivered, skipped>>,
         \A x \in Connections : Len(sent'[x]) \in Nat /\ Len(sent'[x]) >= Len(sent[x])
  PROVE  InOrder'
<1>1. ASSUME NEW c \in Connections
      PROVE  Progress(c)' /\ Accounted(c)'
  BY Unaffected DEF IInv, InOrder
<1>. QED
  BY <1>1 DEF InOrder

LEMMA SentUnchanged ==
  ASSUME TypeOK, UNCHANGED sent
  PROVE  \A x \in Connections : Len(sent'[x]) \in Nat /\ Len(sent'[x]) >= Len(sent[x])
BY LastTypes DEF Last

(* The step of one connection that stays alive: the others are as they were. *)
LEMMA OneConnection ==
  ASSUME IInv, NEW c \in Connections, UNCHANGED sent,
         \A d \in Connections \ {c} :
           /\ ws'[d] = ws[d] /\ channel'[d] = channel[d] /\ start'[d] = start[d]
           /\ next'[d] = next[d] /\ delivered'[d] = delivered[d] /\ skipped'[d] = skipped[d],
         Progress(c)', Accounted(c)'
  PROVE  InOrder'
<1>1. ASSUME NEW d \in Connections \ {c}
      PROVE  Progress(d)' /\ Accounted(d)'
  BY SentUnchanged, Unaffected DEF IInv, InOrder
<1>. QED
  BY <1>1 DEF InOrder

-----------------------------------------------------------------------------
LEMMA InitIInv == Init => IInv
<1>. SUFFICES ASSUME Init PROVE IInv
  OBVIOUS
<1>1. TypeOK
  BY DEF Init, TypeOK
<1>2. WellFormed /\ ListenersAreMapped
  BY DEF Init, WellFormed, ListenersAreMapped, Listening
<1>3. ASSUME NEW c \in Connections
      PROVE  Progress(c) /\ Accounted(c)
  BY DEF Init, Progress, Accounted, Wrote, Listening
<1>. QED
  BY <1>1, <1>2, <1>3 DEF IInv, InOrder

LEMMA SubscribeKeepsIInv ==
  ASSUME IInv, NEW c \in Connections, NEW u \in Users, Subscribe(c, u)
  PROVE  IInv'
<1>0. PICK x \in Connections : x = IF userChannel[u] = None THEN c ELSE userChannel[u]
  BY DEF IInv, TypeOK
<1>1. Last(x) \in Nat
  BY LastTypes DEF IInv
<1>2. /\ serving /\ ws[c] = "idle" /\ serving' = serving
      /\ ws' = [ws EXCEPT ![c] = "subscribed"] /\ wsUser' = [wsUser EXCEPT ![c] = u]
      /\ userChannel' = [userChannel EXCEPT ![u] = x] /\ channel' = [channel EXCEPT ![c] = x]
      /\ start' = [start EXCEPT ![c] = Last(x) + 1] /\ next' = [next EXCEPT ![c] = Last(x) + 1]
      /\ UNCHANGED <<sent, delivered, skipped, call, callUser>>
  BY <1>0 DEF Subscribe, callVars
<1>3. userChannel[u] # None => x = userChannel[u]
  BY <1>0
<1>4. TypeOK'
  BY SMTT(30), <1>1, <1>2 DEF IInv, TypeOK
<1>5. WellFormed'
  BY <1>1, <1>2 DEF IInv, WellFormed, TypeOK
<1>6. ListenersAreMapped'
  <2>1. ASSUME NEW d \in Connections, Listening(d)'
        PROVE  userChannel'[wsUser'[d]] = channel'[d]
    <3>1. CASE d = c
      BY <1>2, <3>1 DEF IInv, TypeOK
    <3>2. CASE d # c
      <4>1. Listening(d) /\ wsUser'[d] = wsUser[d] /\ channel'[d] = channel[d]
        BY <1>2, <2>1, <3>2 DEF IInv, TypeOK, Listening
      <4>2. userChannel[wsUser[d]] = channel[d] /\ channel[d] \in Connections /\ wsUser[d] \in Users
        BY <1>2, <4>1 DEF IInv, ListenersAreMapped, WellFormed, Listening
      <4>3. wsUser[d] = u => x = channel[d]
        BY <1>3, <4>2, NoneAssumption
      <4>. QED
        BY <1>2, <4>1, <4>2, <4>3 DEF IInv, TypeOK
    <3>. QED
      BY <3>1, <3>2
  <2>. QED
    BY <2>1 DEF ListenersAreMapped
<1>7. InOrder'
  <2>1. delivered'[c] = <<>> /\ skipped'[c] = {}
    BY <1>2 DEF IInv, InOrder, Progress
  <2>2. ws'[c] = "subscribed" /\ start'[c] = Last(x) + 1 /\ next'[c] = Last(x) + 1 /\ channel'[c] = x
    BY <1>2 DEF IInv, TypeOK
  <2>3. Taken(c)' = Last(x) /\ Last(x)' = Last(x)
    BY <1>1, <1>2, <2>2 DEF Taken, Last
  <2>4. Wrote(c)' = {}
    BY <2>1 DEF Wrote
  <2>5. Progress(c)'
    BY <1>1, <1>2, <2>1, <2>2, <2>3 DEF Progress, Last
  <2>6. start'[c] .. Taken(c)' = {}
    BY <1>1, <2>2, <2>3
  <2>7. Accounted(c)'
    BY <2>1, <2>4, <2>6 DEF Accounted
  <2>. QED
    BY <1>2, <2>5, <2>7, OneConnection DEF IInv, TypeOK
<1>. QED
  BY <1>4, <1>5, <1>6, <1>7 DEF IInv

LEMMA UpgradeKeepsIInv ==
  ASSUME IInv, NEW c \in Connections, Upgrade(c)
  PROVE  IInv'
<1>1. PICK state \in {"open", "closed"} : ws' = [ws EXCEPT ![c] = state]
  BY DEF Upgrade
<1>2. /\ ws[c] = "subscribed"
      /\ UNCHANGED <<userChannel, sent, wsUser, channel, start, next, delivered, skipped, call,
                     callUser, serving>>
  BY DEF Upgrade, channelVars, callVars
<1>3. TypeOK' /\ WellFormed' /\ ListenersAreMapped'
  BY <1>1, <1>2 DEF IInv, TypeOK, WellFormed, ListenersAreMapped, Listening
<1>4. Progress(c)' /\ Accounted(c)'
  <2>1. Progress(c) /\ Accounted(c) /\ Listening(c) /\ Taken(c)' = Taken(c)
    BY <1>1, <1>2 DEF IInv, InOrder, Listening, TypeOK, Taken
  <2>2. ws'[c] # "idle" /\ Wrote(c)' = Wrote(c) /\ Last(channel[c])' = Last(channel[c])
    BY <1>1, <1>2 DEF IInv, TypeOK, Wrote, Last
  <2>. QED
    BY <1>2, <2>1, <2>2 DEF Progress, Accounted
<1>5. InOrder'
  BY <1>1, <1>2, <1>4, OneConnection DEF IInv, TypeOK
<1>. QED
  BY <1>3, <1>5 DEF IInv

LEMMA SendUserEventKeepsIInv ==
  ASSUME IInv, NEW s \in Senders, NEW u \in Users, SendUserEvent(s, u)
  PROVE  IInv'
<1>1. UNCHANGED <<userChannel, ws, wsUser, channel, start, next, delivered, skipped, serving>>
  BY DEF SendUserEvent, wsVars
<1>2. /\ callUser' = [callUser EXCEPT ![s] = u]
      /\ \E state \in {"cleanup", "done"} : call' = [call EXCEPT ![s] = state]
  BY DEF SendUserEvent
<1>3. \/ sent' = sent
      \/ \E x \in Connections : sent' = [sent EXCEPT ![x] = Append(@, s)]
  BY DEF SendUserEvent, IInv, TypeOK
<1>4. /\ sent' \in [Connections -> Seq(Senders)]
      /\ \A x \in Connections : Len(sent'[x]) \in Nat /\ Len(sent'[x]) >= Len(sent[x])
  <2>1. CASE sent' = sent
    BY <2>1, SentUnchanged DEF IInv, TypeOK
  <2>2. ASSUME NEW y \in Connections, sent' = [sent EXCEPT ![y] = Append(@, s)]
        PROVE  /\ sent' \in [Connections -> Seq(Senders)]
               /\ \A x \in Connections : Len(sent'[x]) \in Nat /\ Len(sent'[x]) >= Len(sent[x])
    <3>1. ASSUME NEW x \in Connections
          PROVE  sent'[x] \in Seq(Senders) /\ Len(sent'[x]) \in Nat /\ Len(sent'[x]) >= Len(sent[x])
      <4>1. sent[x] \in Seq(Senders)
        BY DEF IInv, TypeOK
      <4>2. sent'[x] \in {sent[x], Append(sent[x], s)}
        BY <2>2 DEF IInv, TypeOK
      <4>. QED
        BY SMTT(30), <4>1, <4>2, AppendFacts
    <3>. QED
      BY <2>2, <3>1 DEF IInv, TypeOK
  <2>. QED
    BY <1>3, <2>1, <2>2
<1>5. TypeOK'
  BY <1>1, <1>2, <1>4 DEF IInv, TypeOK
<1>6. WellFormed' /\ ListenersAreMapped'
  BY <1>1, <1>2 DEF IInv, TypeOK, WellFormed, ListenersAreMapped, Listening
<1>7. InOrder'
  BY <1>1, <1>4, ConnectionsUnaffected
<1>. QED
  BY <1>5, <1>6, <1>7 DEF IInv

LEMMA CleanupKeepsIInv ==
  ASSUME IInv, NEW s \in Senders, Cleanup(s)
  PROVE  IInv'
<1>1. UNCHANGED <<sent, ws, wsUser, channel, start, next, delivered, skipped, callUser, serving>>
  BY DEF Cleanup, wsVars
<1>2. /\ call[s] = "cleanup" /\ call' = [call EXCEPT ![s] = "done"]
      /\ userChannel' = [userChannel EXCEPT ![callUser[s]] =
                           IF @ # None /\ Receivers(@) = {} THEN None ELSE @]
  BY DEF Cleanup
<1>3. callUser[s] \in Users
  BY <1>2 DEF IInv, WellFormed
<1>4. TypeOK' /\ WellFormed'
  BY <1>1, <1>2, <1>3 DEF IInv, TypeOK, WellFormed
<1>5. ASSUME serving, NEW c \in Connections, Listening(c)
      PROVE  userChannel'[wsUser[c]] = channel[c]
  <2>1. userChannel[wsUser[c]] = channel[c] /\ wsUser[c] \in Users /\ c \in Receivers(channel[c])
    BY <1>5 DEF IInv, ListenersAreMapped, WellFormed, Listening, Receivers
  <2>. QED
    BY <1>2, <1>3, <2>1 DEF IInv, TypeOK
<1>6. ListenersAreMapped'
  BY <1>1, <1>5 DEF ListenersAreMapped, Listening
<1>7. InOrder'
  BY <1>1, ConnectionsUnaffected, SentUnchanged DEF IInv
<1>. QED
  BY <1>4, <1>6, <1>7 DEF IInv

LEMMA AbandonKeepsIInv ==
  ASSUME IInv, NEW s \in Senders, Abandon(s)
  PROVE  IInv'
<1>1. /\ UNCHANGED <<userChannel, sent, ws, wsUser, channel, start, next, delivered, skipped,
                     callUser, serving>>
      /\ call' = [call EXCEPT ![s] = "done"]
  BY DEF Abandon, channelVars, wsVars
<1>2. TypeOK' /\ WellFormed' /\ ListenersAreMapped'
  BY <1>1 DEF IInv, TypeOK, WellFormed, ListenersAreMapped, Listening
<1>3. InOrder'
  BY <1>1, ConnectionsUnaffected, SentUnchanged DEF IInv
<1>. QED
  BY <1>2, <1>3 DEF IInv

LEMMA StopKeepsIInv ==
  ASSUME IInv, Stop
  PROVE  IInv'
<1>1. /\ UNCHANGED <<sent, ws, wsUser, channel, start, next, delivered, skipped, call, callUser>>
      /\ serving' = FALSE /\ userChannel' = [u \in Users |-> None]
  BY DEF Stop, wsVars, callVars
<1>2. TypeOK' /\ WellFormed' /\ ListenersAreMapped'
  BY <1>1 DEF IInv, TypeOK, WellFormed, ListenersAreMapped
<1>3. InOrder'
  BY <1>1, ConnectionsUnaffected, SentUnchanged DEF IInv
<1>. QED
  BY <1>2, <1>3 DEF IInv

LEMMA LaggedKeepsIInv ==
  ASSUME IInv, NEW c \in Connections, Lagged(c)
  PROVE  IInv'
<1>. DEFINE oldest == Last(channel[c]) - Capacity + 1
<1>1. /\ ws[c] = "open" /\ Last(channel[c]) - next[c] + 1 > Capacity
      /\ next' = [next EXCEPT ![c] = oldest]
      /\ skipped' = [skipped EXCEPT ![c] = @ \cup (next[c] .. oldest - 1)]
      /\ UNCHANGED <<userChannel, sent, ws, wsUser, channel, start, delivered, call, callUser, serving>>
  BY DEF Lagged, Behind, channelVars, callVars
<1>2. /\ channel[c] \in Connections /\ Last(channel[c]) \in Nat /\ next[c] \in Nat \ {0}
      /\ start[c] \in Nat \ {0} /\ Progress(c) /\ Accounted(c) /\ Listening(c)
  BY <1>1, LastTypes, Types DEF IInv, WellFormed, InOrder, Listening
<1>3. oldest \in Nat \ {0} /\ next[c] < oldest /\ Taken(c) = next[c] - 1
  BY <1>1, <1>2, CapacityAssumption DEF Taken
<1>4. next'[c] = oldest /\ skipped'[c] = skipped[c] \cup (next[c] .. oldest - 1)
  BY <1>1 DEF IInv, TypeOK
<1>5. Taken(c)' = oldest - 1
  BY <1>1, <1>4 DEF Taken
<1>6. TypeOK'
  <2>1. next' \in [Connections -> Nat \ {0}]
    BY <1>1, <1>3 DEF IInv, TypeOK
  <2>2. skipped' \in [Connections -> SUBSET (Nat \ {0})]
    <3>1. next[c] .. oldest - 1 \in SUBSET (Nat \ {0})
      BY <1>2, <1>3
    <3>. QED
      BY <1>1, <3>1 DEF IInv, TypeOK
  <2>. QED
    BY <1>1, <2>1, <2>2 DEF IInv, TypeOK
<1>7. WellFormed' /\ ListenersAreMapped'
  BY <1>1 DEF IInv, WellFormed, ListenersAreMapped, Listening
<1>8. Progress(c)'
  <2>1. /\ \A k \in DOMAIN delivered[c] : delivered[c][k] <= next[c] - 1
        /\ \A i \in skipped[c] : i <= next[c] - 1
        /\ start[c] <= next[c]
    BY <1>2, <1>3 DEF Progress
  <2>2. \A k \in DOMAIN delivered[c] : delivered[c][k] \in Nat
    BY Types DEF IInv
  <2>3. /\ \A k \in DOMAIN delivered[c] : delivered[c][k] <= oldest - 1
        /\ \A i \in skipped'[c] : i <= oldest - 1
        /\ start[c] <= oldest
    BY <1>2, <1>3, <1>4, <2>1, <2>2, Types DEF IInv
  <2>4. ws'[c] # "idle" /\ next'[c] <= Last(channel[c])' + 1
    BY <1>1, <1>2, <1>4, CapacityAssumption DEF Last
  <2>. QED
    BY <1>1, <1>3, <1>5, <2>3, <2>4 DEF Progress
<1>9. Accounted(c)'
  <2>1. Wrote(c)' = Wrote(c) /\ Last(channel[c])' = Last(channel[c]) /\ Listening(c)'
    BY <1>1, <1>2 DEF Wrote, Last, Listening
  <2>2. /\ start[c] .. (next[c] - 1) = Wrote(c) \cup skipped[c] /\ Wrote(c) \cap skipped[c] = {}
        /\ start[c] <= next[c]
    BY <1>2, <1>3 DEF Accounted, Progress
  <2>3. start[c] .. (oldest - 1) = (start[c] .. (next[c] - 1)) \cup (next[c] .. (oldest - 1))
    BY <1>2, <1>3, <2>2
  <2>4. start[c] .. (oldest - 1) = Wrote(c) \cup skipped'[c]
    BY <1>4, <2>2, <2>3
  <2>5. \A i \in Wrote(c) : i \notin next[c] .. (oldest - 1)
    BY <1>2, <1>3, <2>2
  <2>6. Wrote(c) \cap skipped'[c] = {}
    BY <1>4, <2>2, <2>5
  <2>7. \A i \in skipped'[c] : i <= Last(channel[c]) - Capacity
    <3>1. \A i \in skipped[c] : i <= Last(channel[c]) - Capacity
      BY <1>2 DEF Accounted
    <3>. QED
      BY <1>2, <1>4, <3>1, CapacityAssumption
  <2>8. \A j, k \in DOMAIN delivered[c] : j < k => delivered[c][j] < delivered[c][k]
    BY <1>2 DEF Accounted
  <2>. QED
    BY <1>1, <1>5, <2>1, <2>4, <2>6, <2>7, <2>8 DEF Accounted
<1>10. InOrder'
  BY <1>1, <1>8, <1>9, OneConnection DEF IInv, TypeOK
<1>. QED
  BY <1>6, <1>7, <1>10 DEF IInv

LEMMA ReceiveKeepsIInv ==
  ASSUME IInv, NEW c \in Connections, Receive(c)
  PROVE  IInv'
<1>1. /\ ws[c] = "open" /\ Last(channel[c]) - next[c] + 1 >= 1
      /\ ws' = [ws EXCEPT ![c] = "writing"] /\ next' = [next EXCEPT ![c] = @ + 1]
      /\ UNCHANGED <<userChannel, sent, wsUser, channel, start, delivered, skipped, call, callUser,
                     serving>>
  BY DEF Receive, Behind, channelVars, callVars
<1>2. /\ channel[c] \in Connections /\ Last(channel[c]) \in Nat /\ next[c] \in Nat \ {0}
      /\ Progress(c) /\ Accounted(c) /\ Listening(c)
  BY <1>1, LastTypes, Types DEF IInv, WellFormed, InOrder, Listening
<1>3. TypeOK'
  BY SMTT(30), <1>1, <1>2 DEF IInv, TypeOK
<1>4. WellFormed' /\ ListenersAreMapped'
  BY <1>1 DEF IInv, TypeOK, WellFormed, ListenersAreMapped, Listening
<1>5. /\ ws'[c] = "writing" /\ next'[c] = next[c] + 1 /\ Listening(c)'
      /\ Last(channel[c])' = Last(channel[c]) /\ Wrote(c)' = Wrote(c)
  BY <1>1 DEF IInv, TypeOK, Listening, Last, Wrote
<1>6. Taken(c)' = Taken(c)
  BY <1>1, <1>2, <1>5 DEF Taken
<1>7. next'[c] <= Last(channel[c])' + 1
  BY <1>1, <1>2, <1>5
<1>8. Progress(c)'
  BY <1>1, <1>2, <1>5, <1>6, <1>7 DEF Progress
<1>9. Accounted(c)'
  BY <1>1, <1>2, <1>5, <1>6 DEF Accounted
<1>10. InOrder'
  BY <1>1, <1>8, <1>9, OneConnection DEF IInv, TypeOK
<1>. QED
  BY <1>3, <1>4, <1>10 DEF IInv

(* ChannelClosed and Disconnect: the task ends. *)
LEMMA EndKeepsIInv ==
  ASSUME IInv, NEW c \in Connections, ChannelClosed(c) \/ Disconnect(c)
  PROVE  IInv'
<1>1. /\ ws[c] \in {"open", "writing"} /\ ws' = [ws EXCEPT ![c] = "closed"]
      /\ UNCHANGED <<userChannel, sent, wsUser, channel, start, next, delivered, skipped, call,
                     callUser, serving>>
  BY DEF ChannelClosed, Disconnect, channelVars, callVars
<1>2. TypeOK' /\ WellFormed' /\ ListenersAreMapped'
  BY <1>1 DEF IInv, TypeOK, WellFormed, ListenersAreMapped, Listening
<1>3. InOrder'
  BY <1>1, ConnectionsUnaffected, SentUnchanged DEF IInv, TypeOK
<1>. QED
  BY <1>2, <1>3 DEF IInv

LEMMA WrittenKeepsIInv ==
  ASSUME IInv, NEW c \in Connections, Written(c)
  PROVE  IInv'
<1>. DEFINE e == next[c] - 1
<1>1. /\ ws[c] = "writing" /\ ws' = [ws EXCEPT ![c] = "open"]
      /\ delivered' = [delivered EXCEPT ![c] = Append(@, e)]
      /\ UNCHANGED <<userChannel, sent, wsUser, channel, start, next, skipped, call, callUser, serving>>
  BY DEF Written, channelVars, callVars
<1>2. /\ channel[c] \in Connections /\ Last(channel[c]) \in Nat /\ next[c] \in Nat \ {0}
      /\ start[c] \in Nat \ {0} /\ Progress(c) /\ Accounted(c) /\ Listening(c)
  BY <1>1, LastTypes, Types DEF IInv, WellFormed, InOrder, Listening
<1>3. Taken(c) = e - 1 /\ start[c] <= e /\ e \in Nat \ {0}
  BY <1>1, <1>2 DEF Taken, Progress
<1>4. delivered[c] \in Seq(Nat \ {0}) /\ delivered'[c] = Append(delivered[c], e)
  BY <1>1, Types DEF IInv, TypeOK
<1>5. /\ delivered'[c] \in Seq(Nat \ {0}) /\ DOMAIN delivered[c] = 1 .. Len(delivered[c])
      /\ DOMAIN delivered'[c] = 1 .. Len(delivered[c]) + 1 /\ Len(delivered[c]) \in Nat
      /\ \A k \in DOMAIN delivered[c] : delivered'[c][k] = delivered[c][k]
      /\ delivered'[c][Len(delivered[c]) + 1] = e
  BY <1>3, <1>4, AppendFacts
<1>6. TypeOK'
  BY <1>1, <1>4, <1>5 DEF IInv, TypeOK
<1>7. WellFormed' /\ ListenersAreMapped'
  BY <1>1 DEF IInv, TypeOK, WellFormed, ListenersAreMapped, Listening
<1>8. /\ ws'[c] = "open" /\ Listening(c)' /\ Last(channel[c])' = Last(channel[c])
      /\ Taken(c)' = e
  BY <1>1 DEF IInv, TypeOK, Listening, Last, Taken
<1>9. Wrote(c)' = Wrote(c) \cup {e}
  <2>1. Wrote(c)' = {delivered'[c][k] : k \in 1 .. Len(delivered[c]) + 1}
    BY <1>5 DEF Wrote
  <2>2. \A k \in 1 .. Len(delivered[c]) + 1 :
          k \in DOMAIN delivered[c] \/ k = Len(delivered[c]) + 1
    BY <1>5
  <2>3. DOMAIN delivered[c] \subseteq 1 .. Len(delivered[c]) + 1
        /\ Len(delivered[c]) + 1 \in 1 .. Len(delivered[c]) + 1
    BY <1>5
  <2>. QED
    BY <1>5, <2>1, <2>2, <2>3, Zenon DEF Wrote
<1>10. \A k \in DOMAIN delivered[c] : delivered[c][k] <= e - 1 /\ delivered[c][k] \in Nat
  BY <1>2, <1>3, <1>4 DEF Progress
<1>11. Progress(c)'
  <2>1. \A k \in DOMAIN delivered'[c] : delivered'[c][k] <= e
    BY SMTT(30), <1>3, <1>5, <1>10
  <2>2. \A i \in skipped[c] : i <= e
    BY <1>2, <1>3, Types DEF Progress, IInv
  <2>3. start[c] <= e + 1 /\ next[c] <= Last(channel[c]) + 1
    BY <1>2, <1>3 DEF Progress
  <2>. QED
    BY <1>1, <1>8, <2>1, <2>2, <2>3 DEF Progress
<1>12. Accounted(c)'
  <2>1. start[c] .. (e - 1) = Wrote(c) \cup skipped[c]
    BY <1>2, <1>3 DEF Accounted
  <2>2. start[c] .. e = (start[c] .. (e - 1)) \cup {e}
    BY <1>2, <1>3
  <2>3. start[c] .. e = Wrote(c)' \cup skipped[c]
    BY <1>9, <2>1, <2>2
  <2>4. Wrote(c)' \cap skipped[c] = {}
    <3>1. \A i \in skipped[c] : i <= e - 1
      BY <1>2, <1>3 DEF Progress
    <3>2. e \notin skipped[c]
      BY <1>3, <3>1
    <3>. QED
      BY <1>2, <1>9, <3>2 DEF Accounted
  <2>5. ASSUME NEW j \in DOMAIN delivered'[c], NEW k \in DOMAIN delivered'[c], j < k
        PROVE  delivered'[c][j] < delivered'[c][k]
    <3>1. j \in DOMAIN delivered[c]
      BY <1>5, <2>5
    <3>2. CASE k \in DOMAIN delivered[c]
      BY <1>2, <1>5, <2>5, <3>1, <3>2 DEF Accounted
    <3>3. CASE k \notin DOMAIN delivered[c]
      <4>1. k = Len(delivered[c]) + 1
        BY <1>5, <3>3
      <4>. QED
        BY SMTT(30), <1>3, <1>5, <1>10, <3>1, <4>1
    <3>. QED
      BY <3>2, <3>3
  <2>6. \A i \in skipped[c] : i <= Last(channel[c]) - Capacity
    BY <1>2 DEF Accounted
  <2>. QED
    BY <1>1, <1>8, <2>3, <2>4, <2>5, <2>6 DEF Accounted
<1>13. InOrder'
  BY <1>1, <1>11, <1>12, OneConnection DEF IInv, TypeOK
<1>. QED
  BY <1>6, <1>7, <1>13 DEF IInv

LEMMA StutterKeepsIInv == ASSUME IInv, UNCHANGED vars PROVE IInv'
<1>1. UNCHANGED <<userChannel, sent, ws, wsUser, channel, start, next, delivered, skipped, call,
                  callUser, serving>>
  BY DEF vars, channelVars, wsVars, callVars
<1>2. TypeOK' /\ WellFormed' /\ ListenersAreMapped'
  BY <1>1 DEF IInv, TypeOK, WellFormed, ListenersAreMapped, Listening
<1>3. InOrder'
  BY <1>1, ConnectionsUnaffected, SentUnchanged DEF IInv
<1>. QED
  BY <1>2, <1>3 DEF IInv

LEMMA NextKeepsIInv == IInv /\ [Next]_vars => IInv'
<1>. SUFFICES ASSUME IInv, [Next]_vars PROVE IInv'
  OBVIOUS
<1>1. ASSUME NEW c \in Connections, NEW u \in Users, Subscribe(c, u) PROVE IInv'
  BY <1>1, SubscribeKeepsIInv
<1>2. ASSUME NEW c \in Connections, Upgrade(c) PROVE IInv'
  BY <1>2, UpgradeKeepsIInv
<1>3. ASSUME NEW c \in Connections, Serve(c) \/ Disconnect(c) PROVE IInv'
  BY <1>3, LaggedKeepsIInv, ReceiveKeepsIInv, EndKeepsIInv, WrittenKeepsIInv DEF Serve
<1>4. ASSUME NEW s \in Senders, NEW u \in Users, SendUserEvent(s, u) PROVE IInv'
  BY <1>4, SendUserEventKeepsIInv
<1>5. ASSUME NEW s \in Senders, Cleanup(s) \/ Abandon(s) PROVE IInv'
  BY <1>5, CleanupKeepsIInv, AbandonKeepsIInv
<1>. QED
  BY <1>1, <1>2, <1>3, <1>4, <1>5, StopKeepsIInv, StutterKeepsIInv DEF Next

(* The inductive invariant holds of every reachable state. *)
THEOREM IInvHolds == Spec => []IInv
<1>1. Init => IInv
  BY InitIInv
<1>2. IInv /\ [Next]_vars => IInv'
  BY NextKeepsIInv
<1>. QED
  BY <1>1, <1>2, PTL DEF Spec

(* The state keeps its types: no cursor, index or call leaves its range. *)
THEOREM TypeOKHolds == Spec => []TypeOK
<1>1. IInv => TypeOK
  BY DEF IInv
<1>. QED
  BY <1>1, IInvHolds, PTL

(* subscribe_user and the cleanup of send_user_event, under the write lock each: however *)
(* many of them race, whoever listens has the channel that is in the map.                *)
THEOREM NoListenerIsCutOff == Spec => []ListenersAreMapped
<1>1. IInv => ListenersAreMapped
  BY DEF IInv
<1>. QED
  BY <1>1, IInvHolds, PTL

(* handle_ws_connection writes, in order and once, every event since the subscription    *)
(* that the channel still held, whatever the capacity and however far a client lags.     *)
THEOREM EventsAreAccountedFor == Spec => []EveryEventAccountedFor
<1>1. IInv => EveryEventAccountedFor
  BY AccountedForIsAccounted DEF IInv
<1>. QED
  BY <1>1, IInvHolds, PTL

-----------------------------------------------------------------------------
(* The channels implement the live updates. *)

(* A channel is its user's, and a call that has not been made has no user. *)
Owned ==
  \A u \in Users : userChannel[u] # None =>
    ws[userChannel[u]] # "idle" /\ wsUser[userChannel[u]] = u

Uncalled == \A s \in Senders : call[s] = "idle" => callUser[s] = None

RInv == IInv /\ Owned /\ Uncalled

(* The first of a channel's n events that a receiver gets which takes the i-th next, and *)
(* all that it gets of a channel's events s.                                             *)
First(n, i) == IF n - i + 1 > Capacity THEN n - Capacity + 1 ELSE i
Pending(s, i) == SubSeq(s, First(Len(s), i), Len(s))

LEMMA SuffixFacts ==
  ASSUME NEW S, NEW s \in Seq(S), NEW i \in 1 .. Len(s) + 1
  PROVE  /\ SubSeq(s, i, Len(s)) \in Seq(S) /\ Len(s) \in Nat
         /\ Len(SubSeq(s, i, Len(s))) = Len(s) - i + 1
         /\ DOMAIN SubSeq(s, i, Len(s)) = 1 .. Len(s) - i + 1
         /\ \A k \in 1 .. Len(s) - i + 1 : SubSeq(s, i, Len(s))[k] = s[i + k - 1]
OBVIOUS

LEMMA SameSequence ==
  ASSUME NEW S, NEW s \in Seq(S), NEW t \in Seq(S), Len(s) = Len(t),
         \A k \in 1 .. Len(s) : s[k] = t[k]
  PROVE  s = t
OBVIOUS

LEMMA TailFacts ==
  ASSUME NEW S, NEW s \in Seq(S), s # <<>>
  PROVE  /\ Tail(s) \in Seq(S) /\ Head(s) \in S /\ Len(Tail(s)) = Len(s) - 1 /\ Len(s) \in Nat
         /\ Head(s) = s[1] /\ DOMAIN s = 1 .. Len(s) /\ DOMAIN Tail(s) = 1 .. Len(s) - 1
         /\ \A k \in 1 .. Len(s) - 1 : Tail(s)[k] = s[k + 1]
OBVIOUS

(* Where what is pending starts, and how one more event moves that. *)
LEMMA FirstFacts ==
  ASSUME NEW n \in Nat, NEW i \in 1 .. n + 1
  PROVE  /\ First(n, i) \in i .. n + 1 /\ First(n, i) \in 1 .. n + 1
         /\ n - First(n, i) + 1 \in 0 .. Capacity
         /\ First(n + 1, i) =
              First(n, i) + (IF n - First(n, i) + 2 > Capacity THEN 1 ELSE 0)
BY CapacityAssumption DEF First

LEMMA PendingFacts ==
  ASSUME NEW S, NEW s \in Seq(S), NEW i \in 1 .. Len(s) + 1
  PROVE  /\ Pending(s, i) \in Seq(S) /\ First(Len(s), i) \in 1 .. Len(s) + 1
         /\ Len(Pending(s, i)) = Len(s) - First(Len(s), i) + 1
         /\ \A k \in 1 .. Len(Pending(s, i)) : Pending(s, i)[k] = s[First(Len(s), i) + k - 1]
<1>1. First(Len(s), i) \in 1 .. Len(s) + 1
  BY FirstFacts
<1>2. Pending(s, i) = SubSeq(s, First(Len(s), i), Len(s))
  BY DEF Pending
<1>. QED
  BY <1>1, <1>2, SuffixFacts

(* An event that is sent is queued, and a full queue loses its oldest. *)
LEMMA SentIsKept ==
  ASSUME NEW S, NEW s \in Seq(S), NEW i \in 1 .. Len(s) + 1, NEW e \in S
  PROVE  Pending(Append(s, e), i) = Updates!Keep(Pending(s, i), e)
<1>0. PICK n \in Nat : n = Len(s)
  OBVIOUS
<1>1. i \in 1 .. n + 1 /\ i \in 1 .. (n + 1) + 1 /\ n + 1 \in Nat
  BY <1>0
<1>2. PICK a \in Int, b \in Int : a = First(n, i) /\ b = First(n + 1, i)
  <2>1. First(n, i) \in 1 .. n + 1 /\ First(n + 1, i) \in 1 .. (n + 1) + 1
    BY <1>1, FirstFacts
  <2>2. First(n, i) \in Int /\ First(n + 1, i) \in Int
    BY <2>1
  <2>. QED
    BY <2>2
<1>3. /\ 1 <= a /\ a <= n + 1 /\ n - a + 1 <= Capacity /\ Capacity \in Int
      /\ 1 <= Capacity
      /\ n - a + 2 > Capacity => b = a + 1
      /\ ~(n - a + 2 > Capacity) => b = a
  <2>1. /\ First(n, i) \in 1 .. n + 1 /\ n - First(n, i) + 1 \in 0 .. Capacity
        /\ First(n + 1, i) = First(n, i) + (IF n - First(n, i) + 2 > Capacity THEN 1 ELSE 0)
    BY <1>1, FirstFacts
  <2>. QED
    BY SMTT(30), <1>2, <2>1, CapacityAssumption
<1>4. PICK t : t = Append(s, e)
  OBVIOUS
<1>5. /\ t \in Seq(S) /\ Len(t) = n + 1 /\ t[n + 1] = e
      /\ \A k \in 1 .. n : t[k] = s[k]
  BY <1>0, <1>4, AppendFacts
<1>6. /\ Pending(s, i) \in Seq(S) /\ Len(Pending(s, i)) = n - a + 1
      /\ \A k \in 1 .. n - a + 1 : Pending(s, i)[k] = s[a + k - 1]
  <2>1. /\ Pending(s, i) \in Seq(S) /\ Len(Pending(s, i)) = Len(s) - First(Len(s), i) + 1
        /\ \A k \in 1 .. Len(Pending(s, i)) : Pending(s, i)[k] = s[First(Len(s), i) + k - 1]
    BY PendingFacts
  <2>. QED
    BY <1>0, <1>2, <2>1
<1>7. /\ Pending(t, i) \in Seq(S) /\ Len(Pending(t, i)) = (n + 1) - b + 1
      /\ \A k \in 1 .. (n + 1) - b + 1 : Pending(t, i)[k] = t[b + k - 1]
  <2>1. i \in 1 .. Len(t) + 1
    BY <1>1, <1>5
  <2>2. /\ Pending(t, i) \in Seq(S) /\ Len(Pending(t, i)) = Len(t) - First(Len(t), i) + 1
        /\ \A k \in 1 .. Len(Pending(t, i)) : Pending(t, i)[k] = t[First(Len(t), i) + k - 1]
    <3>1. t \in Seq(S)
      BY <1>5
    <3>. QED
      BY <2>1, <3>1, PendingFacts
  <2>. QED
    BY <1>2, <1>5, <2>2
<1>8. PICK q : q = Append(Pending(s, i), e)
  OBVIOUS
<1>9. /\ q \in Seq(S) /\ Len(q) = (n - a + 1) + 1 /\ q[(n - a + 1) + 1] = e
      /\ \A k \in 1 .. n - a + 1 : q[k] = Pending(s, i)[k]
  BY <1>6, <1>8, AppendFacts
<1>10. PICK skip : skip = IF Len(q) > Capacity THEN Len(q) - Capacity + 1 ELSE 1
  OBVIOUS
<1>11. skip \in Int /\ 1 <= skip /\ skip <= n - a + 2 /\ b = a + skip - 1
  <2>1. CASE n - a + 2 > Capacity
    <3>1. Len(q) > Capacity /\ Len(q) - Capacity + 1 = 2
      BY <1>3, <1>9, <2>1
    <3>2. skip = 2
      BY <1>10, <3>1
    <3>. QED
      BY <1>3, <2>1, <3>2
  <2>2. CASE ~(n - a + 2 > Capacity)
    <3>1. ~(Len(q) > Capacity)
      BY <1>3, <1>9, <2>2
    <3>2. skip = 1
      BY <1>10, <3>1
    <3>. QED
      BY <1>3, <2>2, <3>2
  <2>. QED
    BY <2>1, <2>2
<1>12. Updates!Keep(Pending(s, i), e) = SubSeq(q, skip, Len(q))
  BY <1>8, <1>10 DEF Updates!Keep
<1>13. /\ SubSeq(q, skip, Len(q)) \in Seq(S)
       /\ Len(SubSeq(q, skip, Len(q))) = Len(q) - skip + 1
       /\ \A k \in 1 .. Len(q) - skip + 1 : SubSeq(q, skip, Len(q))[k] = q[skip + k - 1]
  <2>1. skip \in 1 .. Len(q) + 1
    BY <1>9, <1>11
  <2>. QED
    BY <1>9, <2>1, SuffixFacts
<1>14. Len(q) - skip + 1 = (n + 1) - b + 1
  BY <1>9, <1>11
<1>15. ASSUME NEW k \in Int, 1 <= k, k <= (n + 1) - b + 1
       PROVE  t[b + k - 1] = q[skip + k - 1]
  <2>1. CASE k = (n + 1) - b + 1
    <3>1. b + k - 1 = n + 1 /\ skip + k - 1 = (n - a + 1) + 1
      BY <1>11, <2>1
    <3>. QED
      BY <1>5, <1>9, <3>1
  <2>2. CASE k # (n + 1) - b + 1
    <3>1. /\ b + k - 1 \in 1 .. n /\ skip + k - 1 \in 1 .. n - a + 1
          /\ a + (skip + k - 1) - 1 = b + k - 1
      BY <1>3, <1>11, <1>15, <2>2
    <3>2. t[b + k - 1] = s[b + k - 1]
      BY <1>5, <3>1
    <3>3. q[skip + k - 1] = s[a + (skip + k - 1) - 1]
      BY <1>6, <1>9, <3>1
    <3>. QED
      BY <3>1, <3>2, <3>3
  <2>. QED
    BY <2>1, <2>2
<1>16. \A k \in 1 .. Len(q) - skip + 1 : Pending(t, i)[k] = SubSeq(q, skip, Len(q))[k]
  <2>1. ASSUME NEW k \in 1 .. (n + 1) - b + 1
        PROVE  Pending(t, i)[k] = SubSeq(q, skip, Len(q))[k]
    <3>1. k \in Int /\ 1 <= k /\ k <= (n + 1) - b + 1
      OBVIOUS
    <3>2. t[b + k - 1] = q[skip + k - 1]
      BY <1>15, <3>1
    <3>. QED
      BY <1>7, <1>13, <1>14, <3>2
  <2>. QED
    BY <1>14, <2>1
<1>17. Pending(t, i) = SubSeq(q, skip, Len(q))
  BY <1>7, <1>13, <1>14, <1>16, SameSequence
<1>. QED
  BY <1>4, <1>12, <1>17

(* An event that is taken is the oldest. *)
LEMMA TakenIsFirst ==
  ASSUME NEW S, NEW s \in Seq(S), NEW i \in 1 .. Len(s), Len(s) - i + 1 <= Capacity
  PROVE  Pending(s, i) # <<>> /\ Pending(s, i + 1) = Tail(Pending(s, i))
<1>1. PICK n \in Nat : n = Len(s)
  OBVIOUS
<1>2. /\ i \in Int /\ 1 <= i /\ i <= n /\ i \in 1 .. n + 1 /\ i + 1 \in 1 .. n + 1
      /\ i = First(n, i) /\ i + 1 = First(n, i + 1) /\ i + 1 \in Int
  BY <1>1, CapacityAssumption DEF First
<1>3. /\ Pending(s, i) \in Seq(S) /\ Len(Pending(s, i)) = n - i + 1
      /\ \A k \in 1 .. n - i + 1 : Pending(s, i)[k] = s[i + k - 1]
  <2>1. i \in 1 .. Len(s) + 1
    BY <1>1, <1>2
  <2>2. /\ Pending(s, i) \in Seq(S) /\ Len(Pending(s, i)) = Len(s) - First(Len(s), i) + 1
        /\ \A k \in 1 .. Len(Pending(s, i)) : Pending(s, i)[k] = s[First(Len(s), i) + k - 1]
    BY <2>1, PendingFacts
  <2>. QED
    BY <1>1, <1>2, <2>2
<1>4. /\ Pending(s, i + 1) \in Seq(S) /\ Len(Pending(s, i + 1)) = n - (i + 1) + 1
      /\ \A k \in 1 .. n - (i + 1) + 1 : Pending(s, i + 1)[k] = s[(i + 1) + k - 1]
  <2>1. i + 1 \in 1 .. Len(s) + 1
    BY <1>1, <1>2
  <2>2. /\ Pending(s, i + 1) \in Seq(S)
        /\ Len(Pending(s, i + 1)) = Len(s) - First(Len(s), i + 1) + 1
        /\ \A k \in 1 .. Len(Pending(s, i + 1)) :
             Pending(s, i + 1)[k] = s[First(Len(s), i + 1) + k - 1]
    BY <2>1, PendingFacts
  <2>. QED
    BY <1>1, <1>2, <2>2
<1>5. Pending(s, i) # <<>>
  BY <1>2, <1>3
<1>6. /\ Tail(Pending(s, i)) \in Seq(S) /\ Len(Tail(Pending(s, i))) = Len(Pending(s, i)) - 1
      /\ \A k \in 1 .. Len(Pending(s, i)) - 1 : Tail(Pending(s, i))[k] = Pending(s, i)[k + 1]
  BY <1>3, <1>5, TailFacts
<1>7. ASSUME NEW k \in Int, 1 <= k, k <= n - (i + 1) + 1
      PROVE  Pending(s, i + 1)[k] = Tail(Pending(s, i))[k]
  <2>1. /\ k + 1 \in 1 .. n - i + 1 /\ k \in 1 .. (n - i + 1) - 1 /\ k \in 1 .. n - (i + 1) + 1
        /\ i + (k + 1) - 1 = (i + 1) + k - 1
    BY <1>2, <1>7
  <2>2. Tail(Pending(s, i))[k] = Pending(s, i)[k + 1]
    BY <1>3, <1>6, <2>1
  <2>3. Pending(s, i)[k + 1] = s[i + (k + 1) - 1]
    BY <1>3, <2>1
  <2>. QED
    BY <1>4, <2>1, <2>2, <2>3
<1>8. Len(Tail(Pending(s, i))) = n - (i + 1) + 1
  BY <1>2, <1>3, <1>6
<1>9. ASSUME NEW k \in 1 .. n - (i + 1) + 1
      PROVE  Pending(s, i + 1)[k] = Tail(Pending(s, i))[k]
  <2>1. k \in Int /\ 1 <= k /\ k <= n - (i + 1) + 1
    BY <1>2
  <2>. QED
    BY <1>7, <2>1
<1>. QED
  BY <1>4, <1>5, <1>6, <1>8, <1>9, SameSequence

(* Moving a receiver to the oldest event of the ring changes nothing of what it gets. *)
LEMMA LaggedKeepsPending ==
  ASSUME NEW S, NEW s \in Seq(S), NEW i \in Nat, Len(s) - i + 1 > Capacity
  PROVE  Pending(s, Len(s) - Capacity + 1) = Pending(s, i)
BY CapacityAssumption DEF Pending, First

LEMMA InitRInv == Init => RInv
<1>1. Init => Owned /\ Uncalled
  BY DEF Init, Owned, Uncalled
<1>. QED
  BY <1>1, InitIInv DEF RInv

LEMMA NextKeepsRInv == ASSUME RInv, [Next]_vars PROVE RInv'
<1>1. /\ TypeOK /\ IInv' /\ Owned /\ Uncalled
      /\ \A u \in Users : userChannel[u] \in Connections \cup {None}
      /\ \A c \in Connections : ws[c] # "idle" => wsUser[c] \in Users
  BY NextKeepsIInv DEF RInv, IInv, TypeOK, WellFormed
<1>2. ASSUME NEW c \in Connections, NEW u \in Users, Subscribe(c, u) PROVE Owned' /\ Uncalled'
  <2>1. PICK x : x = IF userChannel[u] = None THEN c ELSE userChannel[u]
    OBVIOUS
  <2>2. /\ ws[c] = "idle" /\ ws' = [ws EXCEPT ![c] = "subscribed"]
        /\ wsUser' = [wsUser EXCEPT ![c] = u] /\ userChannel' = [userChannel EXCEPT ![u] = x]
        /\ UNCHANGED <<call, callUser>>
    BY <1>2, <2>1 DEF Subscribe, callVars
  <2>3. \A d \in Connections : d # c => ws'[d] = ws[d] /\ wsUser'[d] = wsUser[d]
    BY <1>1, <2>2 DEF TypeOK
  <2>4. ws'[c] # "idle" /\ wsUser'[c] = u
    BY <1>1, <2>2 DEF TypeOK
  <2>5. ASSUME NEW v \in Users, userChannel'[v] # None
        PROVE  ws'[userChannel'[v]] # "idle" /\ wsUser'[userChannel'[v]] = v
    <3>1. CASE v = u
      <4>1. userChannel'[v] = x
        BY <1>1, <2>2, <3>1 DEF TypeOK
      <4>2. CASE userChannel[u] = None
        BY <2>1, <2>4, <3>1, <4>1, <4>2
      <4>3. CASE userChannel[u] # None
        <5>1. x = userChannel[u] /\ x \in Connections /\ ws[x] # "idle" /\ wsUser[x] = u
          BY <1>1, <2>1, <4>3 DEF Owned
        <5>2. x # c
          BY <2>2, <5>1
        <5>. QED
          BY <2>3, <3>1, <4>1, <5>1, <5>2
      <4>. QED
        BY <4>2, <4>3
    <3>2. CASE v # u
      <4>1. userChannel'[v] = userChannel[v]
        BY <1>1, <2>2, <3>2 DEF TypeOK
      <4>2. /\ userChannel[v] \in Connections /\ ws[userChannel[v]] # "idle"
            /\ wsUser[userChannel[v]] = v
        BY <1>1, <2>5, <4>1 DEF Owned
      <4>3. userChannel[v] # c
        BY <2>2, <4>2
      <4>. QED
        BY <2>3, <4>1, <4>2, <4>3
    <3>. QED
      BY <3>1, <3>2
  <2>. QED
    BY <1>1, <2>2, <2>5 DEF Owned, Uncalled
<1>3. ASSUME UNCHANGED <<wsUser, call, callUser>>,
             \A u \in Users : userChannel'[u] \in {userChannel[u], None},
             \A c \in Connections : ws[c] # "idle" => ws'[c] # "idle"
      PROVE  Owned' /\ Uncalled'
  <2>1. ASSUME NEW u \in Users, userChannel'[u] # None
        PROVE  ws'[userChannel'[u]] # "idle" /\ wsUser'[userChannel'[u]] = u
    <3>1. userChannel'[u] = userChannel[u] /\ userChannel[u] \in Connections
      BY <1>1, <1>3, <2>1
    <3>2. ws[userChannel[u]] # "idle" /\ wsUser[userChannel[u]] = u
      BY <1>1, <2>1, <3>1 DEF Owned
    <3>. QED
      BY <1>3, <3>1, <3>2
  <2>. QED
    BY <1>1, <1>3, <2>1 DEF Owned, Uncalled
<1>4. ASSUME NEW c \in Connections, Upgrade(c) \/ Serve(c) \/ Disconnect(c)
      PROVE  Owned' /\ Uncalled'
  <2>1. UNCHANGED <<userChannel, wsUser, call, callUser>>
    BY <1>4 DEF Upgrade, Serve, Lagged, Receive, ChannelClosed, Written, Disconnect, channelVars,
       callVars
  <2>2. ws' = ws \/ \E state \in {"open", "writing", "closed"} : ws' = [ws EXCEPT ![c] = state]
    BY <1>4 DEF Upgrade, Serve, Lagged, Receive, ChannelClosed, Written, Disconnect
  <2>3. \A d \in Connections : ws[d] # "idle" => ws'[d] # "idle"
    BY <1>1, <2>2 DEF TypeOK
  <2>. QED
    BY <1>3, <2>1, <2>3
<1>5. ASSUME NEW s \in Senders, NEW u \in Users, SendUserEvent(s, u) PROVE Owned' /\ Uncalled'
  <2>1. /\ UNCHANGED <<userChannel, ws, wsUser>> /\ callUser' = [callUser EXCEPT ![s] = u]
        /\ \E state \in {"cleanup", "done"} : call' = [call EXCEPT ![s] = state]
    BY <1>5 DEF SendUserEvent, wsVars
  <2>2. Owned'
    BY <1>1, <2>1 DEF Owned
  <2>3. Uncalled'
    BY <1>1, <2>1 DEF Uncalled, TypeOK
  <2>. QED
    BY <2>2, <2>3
<1>6. ASSUME NEW s \in Senders, Cleanup(s) \/ Abandon(s) PROVE Owned' /\ Uncalled'
  <2>1. /\ UNCHANGED <<ws, wsUser, callUser>> /\ call' = [call EXCEPT ![s] = "done"]
        /\ \A u \in Users : userChannel'[u] \in {userChannel[u], None}
    BY <1>1, <1>6 DEF Cleanup, Abandon, wsVars, channelVars, TypeOK
  <2>2. Uncalled'
    BY <1>1, <2>1 DEF Uncalled, TypeOK
  <2>3. Owned'
    BY <1>1, <2>1 DEF Owned
  <2>. QED
    BY <2>2, <2>3
<1>7. ASSUME Stop PROVE Owned' /\ Uncalled'
  BY <1>3, <1>7 DEF Stop, wsVars, callVars
<1>8. ASSUME UNCHANGED vars PROVE Owned' /\ Uncalled'
  BY <1>3, <1>8 DEF vars, channelVars, wsVars, callVars
<1>. QED
  BY <1>1, <1>2, <1>4, <1>5, <1>6, <1>7, <1>8 DEF RInv, Next

(* What the abstract queues are. *)
Listener == [c \in Connections |-> IF Listening(c) THEN wsUser[c] ELSE None]
Queues == [c \in Connections |-> ToCome(c)]

LEMMA ToComeFacts ==
  ASSUME RInv, NEW c \in Connections, Listening(c)
  PROVE  /\ channel[c] \in Connections /\ sent[channel[c]] \in Seq(Senders)
         /\ next[c] \in 1 .. Len(sent[channel[c]]) + 1
         /\ ToCome(c) = Pending(sent[channel[c]], next[c])
         /\ wsUser[c] \in Users /\ wsUser[c] # None
<1>1. /\ channel[c] \in Connections /\ wsUser[c] \in Users
      /\ next[c] <= Last(channel[c]) + 1 /\ next[c] \in Nat \ {0}
  BY Types DEF RInv, IInv, WellFormed, InOrder, Progress, Listening
<1>2. sent[channel[c]] \in Seq(Senders)
  BY <1>1, LastTypes DEF RInv, IInv
<1>3. ToCome(c) = Pending(sent[channel[c]], next[c])
  BY DEF ToCome, Pending, First, Behind, Last
<1>. QED
  BY <1>1, <1>2, <1>3, NoneAssumption DEF Last

(* A step that takes nothing, and ends no connection. *)
LEMMA UnseenStep ==
  ASSUME UNCHANGED <<callUser, wsUser>>,
         \A c \in Connections :
           (Listening(c)' <=> Listening(c)) /\ (Listening(c) => ToCome(c)' = ToCome(c))
  PROVE  UNCHANGED Updates!vars
<1>1. \A c \in Connections : ToCome(c)' = ToCome(c)
  BY DEF ToCome
<1>2. Listener' = Listener
  BY DEF Listener
<1>3. Queues' = Queues
  BY <1>1 DEF Queues
<1>. QED
  BY <1>2, <1>3 DEF Updates!vars, Listener, Queues

LEMMA SubscribeIsListen ==
  ASSUME RInv, RInv', NEW c \in Connections, NEW u \in Users, Subscribe(c, u)
  PROVE  Updates!Listen(c, u)
<1>1. PICK x : x = IF userChannel[u] = None THEN c ELSE userChannel[u]
  OBVIOUS
<1>2. x \in Connections /\ TypeOK /\ Last(x) \in Nat
  BY <1>1, LastTypes DEF RInv, IInv, TypeOK
<1>3. /\ ws[c] = "idle" /\ ws' = [ws EXCEPT ![c] = "subscribed"]
      /\ wsUser' = [wsUser EXCEPT ![c] = u] /\ channel' = [channel EXCEPT ![c] = x]
      /\ next' = [next EXCEPT ![c] = Last(x) + 1] /\ sent' = sent /\ callUser' = callUser
  BY <1>1 DEF Subscribe, callVars
<1>4. ~Listening(c) /\ Listening(c)' /\ channel'[c] = x /\ next'[c] = Last(x) + 1 /\ wsUser'[c] = u
  BY <1>2, <1>3 DEF Listening, TypeOK
<1>5. ASSUME NEW d \in Connections, d # c
      PROVE  /\ Listening(d)' <=> Listening(d)
             /\ wsUser'[d] = wsUser[d] /\ ToCome(d)' = ToCome(d)
  <2>1. ws'[d] = ws[d] /\ wsUser'[d] = wsUser[d] /\ channel'[d] = channel[d] /\ next'[d] = next[d]
    BY <1>2, <1>3, <1>5 DEF TypeOK
  <2>. QED
    BY <1>3, <2>1 DEF Listening, ToCome, Behind, Last
<1>6. ToCome(c) = <<>> /\ ToCome(c)' = <<>>
  <2>1. ToCome(c)' = Pending(sent[x], Last(x) + 1)
    <3>1. Last(x)' = Last(x) /\ Behind(c)' = Last(x) - (Last(x) + 1) + 1
      BY <1>3, <1>4 DEF Behind, Last
    <3>2. ToCome(c)' = SubSeq(sent'[x], IF Behind(c)' > Capacity THEN Last(x)' - Capacity + 1
                                        ELSE next'[c], Last(x)')
      BY <1>4 DEF ToCome
    <3>. QED
      BY <1>3, <1>4, <3>1, <3>2 DEF Pending, First, Last
  <2>2. First(Last(x), Last(x) + 1) = Last(x) + 1
    BY <1>2, CapacityAssumption DEF First
  <2>3. Pending(sent[x], Last(x) + 1) = SubSeq(sent[x], Last(x) + 1, Last(x))
    BY <2>2 DEF Pending, Last
  <2>4. SubSeq(sent[x], Last(x) + 1, Last(x)) = <<>>
    <3>1. sent[x] \in Seq(Senders)
      BY <1>2, LastTypes
    <3>. QED
      BY <1>2, <3>1 DEF Last
  <2>. QED
    BY <1>4, <2>1, <2>3, <2>4 DEF ToCome
<1>7. Listener' = [Listener EXCEPT ![c] = u] /\ Listener[c] = None
  BY <1>4, <1>5 DEF Listener
<1>8. Queues' = Queues
  BY <1>5, <1>6 DEF Queues
<1>. QED
  BY <1>3, <1>7, <1>8 DEF Updates!Listen, Listener, Queues

(* The end of a connection. *)
LEMMA ClosedIsLeave ==
  ASSUME RInv, NEW c \in Connections, Listening(c), ws' = [ws EXCEPT ![c] = "closed"],
         UNCHANGED <<sent, wsUser, channel, next, callUser>>
  PROVE  Updates!Leave(c)
<1>1. TypeOK /\ wsUser[c] # None
  BY ToComeFacts DEF RInv, IInv
<1>2. ~Listening(c)'
  BY <1>1 DEF Listening, TypeOK
<1>3. ASSUME NEW d \in Connections, d # c
      PROVE  (Listening(d)' <=> Listening(d)) /\ ToCome(d)' = ToCome(d)
  <2>1. ws'[d] = ws[d]
    BY <1>1, <1>3 DEF TypeOK
  <2>. QED
    BY <2>1 DEF Listening, ToCome, Behind, Last
<1>4. ToCome(c)' = <<>>
  BY <1>2 DEF ToCome
<1>5. Listener' = [Listener EXCEPT ![c] = None] /\ Listener[c] # None
  BY <1>1, <1>2, <1>3 DEF Listener
<1>6. Queues' = [Queues EXCEPT ![c] = <<>>]
  BY <1>3, <1>4 DEF Queues
<1>. QED
  BY <1>5, <1>6 DEF Updates!Leave, Listener, Queues

(* The call's event enters the queue of whoever listens for its user, and no other. *)
LEMMA SendIsSend ==
  ASSUME RInv, NEW s \in Senders, NEW u \in Users, SendUserEvent(s, u)
  PROVE  Updates!Send(s, u)
<1>1. PICK x \in Connections \cup {None} : x = userChannel[u]
  BY DEF RInv, IInv, TypeOK
<1>2. /\ serving /\ call[s] = "idle" /\ callUser' = [callUser EXCEPT ![s] = u]
      /\ UNCHANGED <<ws, wsUser, channel, next>>
      /\ \/ (x = None \/ Receivers(x) = {}) /\ UNCHANGED sent
         \/ x # None /\ sent' = [sent EXCEPT ![x] = Append(@, s)]
  BY <1>1 DEF SendUserEvent, wsVars
<1>3. TypeOK /\ callUser[s] = None
  BY <1>2 DEF RInv, IInv, Uncalled
<1>4. ASSUME NEW c \in Connections
      PROVE  /\ Listening(c)' <=> Listening(c)
             /\ Listening(c) /\ wsUser[c] = u => ToCome(c)' = Updates!Keep(ToCome(c), s)
             /\ ~(Listening(c) /\ wsUser[c] = u) => ToCome(c)' = ToCome(c)
  <2>1. Listening(c)' <=> Listening(c)
    BY <1>2 DEF Listening
  <2>2. CASE ~Listening(c)
    BY <2>1, <2>2 DEF ToCome
  <2>3. CASE Listening(c)
    <3>1. /\ channel[c] \in Connections /\ sent[channel[c]] \in Seq(Senders)
          /\ next[c] \in 1 .. Len(sent[channel[c]]) + 1
          /\ ToCome(c) = Pending(sent[channel[c]], next[c])
          /\ userChannel[wsUser[c]] = channel[c] /\ wsUser[c] \in Users
      BY <1>2, <2>3, ToComeFacts DEF RInv, IInv, ListenersAreMapped
    <3>2. ToCome(c)' = Pending(sent'[channel[c]], next[c])
      BY <1>2, <2>1, <2>3 DEF ToCome, Pending, First, Behind, Last
    <3>3. CASE wsUser[c] = u
      <4>1. channel[c] = x /\ x # None
        BY <1>1, <3>1, <3>3, NoneAssumption
      <4>2. Receivers(x) # {}
        BY <2>3, <4>1 DEF Receivers
      <4>3. sent'[channel[c]] = Append(sent[channel[c]], s)
        BY <1>2, <1>3, <3>1, <4>1, <4>2 DEF TypeOK
      <4>. QED
        BY <2>1, <2>3, <3>1, <3>2, <3>3, <4>3, SentIsKept
    <3>4. CASE wsUser[c] # u
      <4>1. x = channel[c] => wsUser[channel[c]] = u /\ wsUser[channel[c]] = wsUser[c]
        BY <1>1, <3>1, NoneAssumption DEF RInv, Owned
      <4>2. x # channel[c]
        BY <3>4, <4>1
      <4>3. sent'[channel[c]] = sent[channel[c]]
        BY <1>2, <1>3, <3>1, <4>2 DEF TypeOK
      <4>. QED
        BY <2>1, <3>1, <3>2, <3>4, <4>3
    <3>. QED
      BY <3>3, <3>4
  <2>. QED
    BY <2>2, <2>3
<1>5. Listener' = Listener
  BY <1>2, <1>4 DEF Listener
<1>6. u # None
  BY NoneAssumption
<1>7. \A c \in Connections :
        ToCome(c)' = IF Listener[c] = u THEN Updates!Keep(Queues[c], s) ELSE Queues[c]
  BY <1>4, <1>6 DEF Listener, Queues
<1>8. Queues' = [c \in Connections |-> IF Listener[c] = u THEN Updates!Keep(Queues[c], s)
                                       ELSE Queues[c]]
  BY <1>7 DEF Queues
<1>. QED
  BY <1>2, <1>3, <1>5, <1>8 DEF Updates!Send, Listener, Queues

LEMMA ReceiveIsTake ==
  ASSUME RInv, NEW c \in Connections, Receive(c)
  PROVE  Updates!Take(c)
<1>1. /\ ws[c] = "open" /\ ws' = [ws EXCEPT ![c] = "writing"]
      /\ next' = [next EXCEPT ![c] = @ + 1] /\ Behind(c) \in 1 .. Capacity
      /\ UNCHANGED <<sent, wsUser, channel, callUser>>
  BY DEF Receive, channelVars, callVars
<1>2. TypeOK /\ Listening(c)
  BY <1>1 DEF RInv, IInv, Listening
<1>3. PICK q : q = sent[channel[c]]
  OBVIOUS
<1>4. q \in Seq(Senders) /\ next[c] \in 1 .. Len(q) + 1 /\ ToCome(c) = Pending(q, next[c])
  BY <1>2, <1>3, ToComeFacts
<1>5. next[c] \in 1 .. Len(q) /\ Len(q) - next[c] + 1 <= Capacity
  BY <1>1, <1>3, <1>4, CapacityAssumption DEF Behind, Last
<1>6. Listening(c)' /\ next'[c] = next[c] + 1
  BY <1>1, <1>2 DEF Listening, TypeOK
<1>7. ToCome(c)' = Pending(q, next[c] + 1)
  BY <1>1, <1>3, <1>6 DEF ToCome, Pending, First, Behind, Last
<1>8. ToCome(c) # <<>> /\ ToCome(c)' = Tail(ToCome(c))
  BY <1>4, <1>5, <1>7, TakenIsFirst
<1>9. ASSUME NEW d \in Connections, d # c
      PROVE  (Listening(d)' <=> Listening(d)) /\ ToCome(d)' = ToCome(d)
  <2>1. ws'[d] = ws[d] /\ next'[d] = next[d]
    BY <1>1, <1>2, <1>9 DEF TypeOK
  <2>. QED
    BY <1>1, <2>1 DEF Listening, ToCome, Behind, Last
<1>10. Listener' = Listener
  BY <1>1, <1>2, <1>6, <1>9 DEF Listener
<1>11. Queues' = [Queues EXCEPT ![c] = Tail(@)] /\ Queues[c] # <<>>
  BY <1>8, <1>9 DEF Queues
<1>. QED
  BY <1>1, <1>10, <1>11 DEF Updates!Take, Listener, Queues

LEMMA LaggedIsUnseen ==
  ASSUME RInv, NEW c \in Connections, Lagged(c)
  PROVE  UNCHANGED Updates!vars
<1>1. /\ Behind(c) > Capacity /\ next' = [next EXCEPT ![c] = Last(channel[c]) - Capacity + 1]
      /\ ws[c] = "open" /\ UNCHANGED <<sent, ws, wsUser, channel, callUser>>
  BY DEF Lagged, channelVars, callVars
<1>2. TypeOK /\ Listening(c) /\ \A d \in Connections : Listening(d)' <=> Listening(d)
  BY <1>1 DEF RInv, IInv, Listening
<1>3. PICK q : q = sent[channel[c]]
  OBVIOUS
<1>4. q \in Seq(Senders) /\ next[c] \in 1 .. Len(q) + 1 /\ ToCome(c) = Pending(q, next[c])
  BY <1>2, <1>3, ToComeFacts
<1>5. ToCome(c)' = Pending(q, Len(q) - Capacity + 1)
  <2>1. next'[c] = Len(q) - Capacity + 1
    BY <1>1, <1>2, <1>3 DEF TypeOK, Last
  <2>. QED
    BY <1>1, <1>2, <1>3, <2>1 DEF ToCome, Pending, First, Behind, Last
<1>6. Len(q) - next[c] + 1 > Capacity
  BY <1>1, <1>3 DEF Behind, Last
<1>7. ToCome(c)' = ToCome(c)
  BY <1>4, <1>5, <1>6, LaggedKeepsPending
<1>8. ASSUME NEW d \in Connections, d # c PROVE ToCome(d)' = ToCome(d)
  <2>1. next'[d] = next[d]
    BY <1>1, <1>2, <1>8 DEF TypeOK
  <2>. QED
    BY <1>1, <2>1 DEF Listening, ToCome, Behind, Last
<1>. QED
  BY <1>1, <1>2, <1>7, <1>8, UnseenStep

(* The steps that change neither who listens nor what is to come. *)
LEMMA OthersAreUnseen ==
  ASSUME UNCHANGED <<callUser, wsUser, channel, next, sent>>,
         \A c \in Connections : Listening(c)' <=> Listening(c)
  PROVE  UNCHANGED Updates!vars
<1>1. \A c \in Connections : ToCome(c)' = ToCome(c)
  BY DEF ToCome, Behind, Last
<1>. QED
  BY <1>1, UnseenStep

LEMMA NextIsUpdatesNext ==
  ASSUME RInv, RInv', [Next]_vars
  PROVE  [Updates!Next]_Updates!vars
<1>0. TypeOK
  BY DEF RInv, IInv
<1>1. ASSUME NEW c \in Connections, NEW u \in Users, Subscribe(c, u) PROVE Updates!Next
  BY <1>1, SubscribeIsListen DEF Updates!Next
<1>2. ASSUME NEW c \in Connections, Upgrade(c) \/ ChannelClosed(c) \/ Disconnect(c) \/ Written(c)
      PROVE  [Updates!Next]_Updates!vars
  <2>1. /\ Listening(c) /\ UNCHANGED <<sent, wsUser, channel, next, callUser>>
        /\ \E state \in {"open", "closed"} : ws' = [ws EXCEPT ![c] = state]
    BY <1>2 DEF Upgrade, ChannelClosed, Disconnect, Written, Listening, channelVars, callVars
  <2>2. CASE ws' = [ws EXCEPT ![c] = "open"]
    <3>1. \A d \in Connections : Listening(d)' <=> Listening(d)
      BY <1>0, <2>1, <2>2 DEF Listening, TypeOK
    <3>. QED
      BY <2>1, <3>1, OthersAreUnseen
  <2>3. CASE ws' = [ws EXCEPT ![c] = "closed"]
    BY <2>1, <2>3, ClosedIsLeave DEF Updates!Next
  <2>. QED
    BY <2>1, <2>2, <2>3
<1>3. ASSUME NEW c \in Connections, Lagged(c) \/ Receive(c)
      PROVE  [Updates!Next]_Updates!vars
  BY <1>3, LaggedIsUnseen, ReceiveIsTake DEF Updates!Next
<1>4. ASSUME NEW s \in Senders, NEW u \in Users, SendUserEvent(s, u) PROVE Updates!Next
  BY <1>4, SendIsSend DEF Updates!Next
<1>5. ASSUME \/ \E s \in Senders : Cleanup(s) \/ Abandon(s)
             \/ Stop
             \/ UNCHANGED vars
      PROVE  UNCHANGED Updates!vars
  <2>1. UNCHANGED <<callUser, ws, wsUser, channel, next, sent>>
    BY <1>5 DEF Cleanup, Abandon, Stop, vars, channelVars, wsVars, callVars
  <2>2. \A c \in Connections : Listening(c)' <=> Listening(c)
    BY <2>1 DEF Listening
  <2>. QED
    BY <2>1, <2>2, OthersAreUnseen
<1>. QED
  BY <1>1, <1>2, <1>3, <1>4, <1>5 DEF Next, Serve

(* subscribe_user, send_user_event with its cleanup, and the connections' tasks do what  *)
(* the live updates promise: every call queues its event for every connection of its     *)
(* user that listens, whatever channel the map names, and a lagging connection keeps the *)
(* newest Capacity of them.                                                              *)
THEOREM ChannelsAreLiveUpdates == Spec => ImplementsLiveUpdates
<1>1. Init => Updates!Init
  BY DEF Init, Updates!Init, Listening, ToCome
<1>2. Init => RInv
  BY InitRInv
<1>3. RInv /\ [Next]_vars => RInv'
  BY NextKeepsRInv
<1>4. RInv /\ RInv' /\ [Next]_vars => [Updates!Next]_Updates!vars
  BY NextIsUpdatesNext
<1>. QED
  BY <1>1, <1>2, <1>3, <1>4, PTL DEF Spec, ImplementsLiveUpdates, Updates!Spec

(* A device's socket loses of its events what a connection loses: the sockets of         *)
(* SyncClients are the queues of the live updates.                                       *)
LEMMA SocketsAreQueues ==
  ASSUME Backlog = Capacity PROVE \A events, e : Keep(events, e) = Updates!Keep(events, e)
BY DEF Keep, Updates!Keep

-----------------------------------------------------------------------------
(* The devices. *)

Version == Current.version

(* content is a history of the document: what it was at each version so far.  Whatever a *)
(* device holds, or was answered, is the content of the version it goes by.              *)
Remembers(content) ==
  /\ content[Version] = Current.data
  /\ \A d \in Devices : LET r == device[d] IN
       /\ r.synced # Absent => r.synced \in 0 .. Version /\ r.data = content[r.synced]
       /\ r.answer.version # Absent =>
            r.answer.version \in 0 .. Version /\ r.answer.data = content[r.answer.version]

HasHistory == \E content \in [Nat -> Data] : Remembers(content)

(* A PUT under way names the version its device holds. *)
Writing(d) ==
  LET r == device[d] IN
  r.pc \in {"put", "sending", "accepted"} =>
    /\ r.put \in Requests /\ request[r.put] # NoRequest
    /\ request[r.put].version = r.synced

(* What an answer that is kept says: of a PUT, what the device held with the write in    *)
(* it; of a GET, nothing older than what the device holds.                               *)
Answered(d) ==
  LET r == device[d] IN
  /\ r.pc \notin {"got", "sending", "accepted"} => r.answer = NoAnswer
  /\ r.pc = "got" /\ r.synced # Absent /\ r.answer # NoAnswer =>
       r.answer.version >= r.synced
  /\ r.answer.version = Absent => r.answer = NoAnswer
  /\ r.pc \in {"sending", "accepted"} =>
       /\ r.answer.version = r.synced + 1
       /\ r.answer.data = [x \in Domains |-> IF x \in request[r.put].domains THEN r.put ELSE r.data[x]]

(* A device that has started has a socket; past its first snapshot it holds a version;   *)
(* and a GET it sends names that version or none.                                        *)
Started(d) ==
  LET r == device[d] IN
  /\ r.pc # "off" => socket[d].open
  /\ r.pc = "get" => r.since \in {Absent, r.synced}
  /\ r.pc \in {"idle", "put", "sending", "accepted", "conflict"} => r.synced # Absent
  /\ r.pc = "got" /\ r.answer = NoAnswer => r.synced # Absent

Local(d) == Writing(d) /\ Answered(d) /\ Started(d)

VersionsCountWrites == Version = Cardinality({r \in Requests : outcome[r] = "applied"})

CInv == ClientsTypeOK /\ (\A d \in Devices : Local(d)) /\ VersionsCountWrites /\ HasHistory

-----------------------------------------------------------------------------
LEMMA ClientTypes ==
  ASSUME ClientsTypeOK
  PROVE  /\ Versions \subseteq Nat /\ Absent \notin Nat
         /\ Version \in Versions /\ Current.data \in Data
         /\ Current = document[User]
         /\ \A d \in Devices : device[d] \in Device /\ socket[d] \in Socket
<1>1. Cardinality(Requests) \in Nat
  BY FS_CardinalityType, ConstantsAssumption
<1>2. Versions \subseteq Nat /\ Absent \notin Nat
  BY <1>1, ConstantsAssumption DEF Versions
<1>3. document[User] \in [version : Versions, data : Data]
  BY DEF ClientsTypeOK
<1>4. \A d \in Devices : device[d] \in Device /\ socket[d] \in Socket
  BY DEF ClientsTypeOK
<1>. QED
  BY <1>2, <1>3, <1>4 DEF Current, Version

(* The fields of a device, one by one. *)
LEMMA DeviceFields ==
  ASSUME NEW r \in Device
  PROVE  /\ r.pc \in {"off", "get", "got", "idle", "put", "sending", "accepted", "conflict"}
         /\ r.synced \in Versions \cup {Absent} /\ r.data \in Data
         /\ r.since \in Versions \cup {Absent} /\ r.put \in Requests \cup {NoRequest}
         /\ r.answer \in [version : Versions \cup {Absent}, data : Data]
         /\ r.answer.version \in Versions \cup {Absent} /\ r.answer.data \in Data
BY DEF Device

LEMMA NoAnswerTypes ==
  /\ NoData \in Data
  /\ NoAnswer \in [version : Versions \cup {Absent}, data : Data]
  /\ NoAnswer.version = Absent
BY DEF NoAnswer, NoData, Data

(* A step that replaces one device's state. *)
LEMMA SetFacts ==
  ASSUME ClientsTypeOK, NEW d \in Devices, NEW r \in Device, Set(d, r)
  PROVE  /\ device' \in [Devices -> Device] /\ device'[d] = r
         /\ \A x \in Devices : x # d => device'[x] = device[x]
BY DEF ClientsTypeOK, Set

(* What the other devices know of themselves stays true: their PUTs are where they were, *)
(* and their sockets open.                                                               *)
LEMMA OthersKeepLocal ==
  ASSUME NEW d \in Devices, \A x \in Devices : Local(x),
         \A x \in Devices : x # d => device'[x] = device[x] /\ socket'[x].open = socket[x].open,
         \A s \in Requests : request[s] # NoRequest => request'[s] = request[s],
         Local(d)'
  PROVE  \A x \in Devices : Local(x)'
<1>. SUFFICES ASSUME NEW x \in Devices, x # d PROVE Local(x)'
  OBVIOUS
<1>1. device'[x] = device[x] /\ socket'[x].open = socket[x].open /\ Local(x)
  OBVIOUS
<1>2. Writing(x)'
  BY <1>1 DEF Local, Writing
<1>3. Answered(x)'
  BY <1>1 DEF Local, Writing, Answered
<1>4. Started(x)'
  BY <1>1 DEF Local, Started
<1>. QED
  BY <1>2, <1>3, <1>4 DEF Local

(* The document is as it was, and what one device holds now was held before or is the    *)
(* document's: the history goes on.                                                      *)
LEMMA HistoryGoesOn ==
  ASSUME CInv, document' = document, NEW d \in Devices,
         \A x \in Devices : x # d => device'[x] = device[x],
         \/ device'[d].synced = Absent
         \/ device'[d].synced = device[d].synced /\ device'[d].data = device[d].data
         \/ /\ device[d].answer.version # Absent
            /\ device'[d].synced = device[d].answer.version
            /\ device'[d].data = device[d].answer.data,
         \/ device'[d].answer.version = Absent
         \/ device'[d].answer = device[d].answer
         \/ device'[d].answer = Current
  PROVE  HasHistory'
<1>1. PICK content \in [Nat -> Data] : Remembers(content)
  BY DEF CInv, HasHistory
<1>2. Version' = Version /\ Current' = Current
  BY DEF Version, Current
<1>3. /\ Version = Current.version /\ content[Version] = Current.data
      /\ Version \in 0 .. Version
  BY <1>1, ClientTypes DEF Remembers, Version, CInv
<1>4. \A x \in Devices :
        /\ device[x].synced # Absent => /\ device[x].synced \in 0 .. Version
                                       /\ device[x].data = content[device[x].synced]
        /\ device[x].answer.version # Absent => /\ device[x].answer.version \in 0 .. Version
                                               /\ device[x].answer.data = content[device[x].answer.version]
  BY <1>1 DEF Remembers
<1>5. ASSUME NEW x \in Devices
      PROVE  /\ device'[x].synced # Absent => /\ device'[x].synced \in 0 .. Version
                                             /\ device'[x].data = content[device'[x].synced]
             /\ device'[x].answer.version # Absent =>
                  /\ device'[x].answer.version \in 0 .. Version
                  /\ device'[x].answer.data = content[device'[x].answer.version]
  <2>1. CASE x # d
    BY <1>4, <2>1
  <2>2. CASE x = d
    BY <1>3, <1>4, <2>2
  <2>. QED
    BY <2>1, <2>2
<1>6. Remembers(content)'
  BY <1>2, <1>3, <1>5 DEF Remembers
<1>. QED
  BY <1>6 DEF HasHistory

LEMMA InitCInv == ASSUME ClientsInit PROVE CInv
<1>1. Versions \subseteq Nat /\ 0 \in Versions
  BY FS_CardinalityType, ConstantsAssumption DEF Versions
<1>2. /\ document[User] = [version |-> 0, data |-> [x \in Domains |-> NoRequest]]
      /\ document = [u \in {User} |-> document[User]]
      /\ request = [s \in Requests |-> NoRequest] /\ outcome = [s \in Requests |-> "open"]
      /\ device = [d \in Devices |-> NewDevice]
      /\ socket = [d \in Devices |-> Closed] /\ drops = 0 /\ unsent = {}
      /\ unaware = [d \in Devices |-> FALSE]
  BY DEF ClientsInit, Document!Init, Document!Blank
<1>3. NewDevice \in Device /\ Closed \in Socket
  BY NoAnswerTypes DEF NewDevice, Device, Closed, Socket
<1>4. Version = 0 /\ Current.data = NoData /\ NoData \in Data
  BY <1>2, NoAnswerTypes DEF Version, Current, NoData
<1>5. document \in [{User} -> [version : Versions, data : Data]]
  BY <1>1, <1>2, NoAnswerTypes DEF NoData
<1>6. ClientsTypeOK
  BY <1>2, <1>3, <1>5, ConstantsAssumption DEF ClientsTypeOK
<1>7. ASSUME NEW d \in Devices
      PROVE  /\ device[d].pc = "off" /\ device[d].synced = Absent
             /\ device[d].answer = NoAnswer /\ device[d].answer.version = Absent
  BY <1>2, NoAnswerTypes DEF NewDevice
<1>8. \A d \in Devices : Local(d)
  BY <1>7 DEF Local, Writing, Answered, Started
<1>9. VersionsCountWrites
  <2>1. {s \in Requests : outcome[s] = "applied"} = {}
    BY <1>2
  <2>. QED
    BY <1>4, <2>1, FS_EmptySet DEF VersionsCountWrites
<1>10. HasHistory
  <2>1. [v \in Nat |-> NoData] \in [Nat -> Data]
    BY <1>4
  <2>2. Remembers([v \in Nat |-> NoData])
    BY <1>4, <1>7 DEF Remembers
  <2>. QED
    BY <2>1, <2>2 DEF HasHistory
<1>. QED
  BY <1>6, <1>8, <1>9, <1>10 DEF CInv

(* What a step of device d leaves alone unless it writes the document, and what is left  *)
(* to show of it.                                                                        *)
LEMMA DeviceStep ==
  ASSUME CInv, NEW d \in Devices, NEW r \in Device,
         Set(d, r), document' = document,
         \A s \in Requests : request[s] # NoRequest => request'[s] = request[s],
         request' \in [Requests -> Document!Request \cup {NoRequest}],
         outcome' \in [Requests -> {"open", "applied", "rejected", "closed"}],
         \A s \in Requests : outcome'[s] = "applied" <=> outcome[s] = "applied",
         socket' \in [Devices -> Socket],
         \A x \in Devices : x # d => socket'[x].open = socket[x].open,
         drops' \in 0 .. MaxDrops, unsent' \in SUBSET Versions,
         unaware' \in [Devices -> BOOLEAN],
         \/ r.synced = Absent
         \/ r.synced = device[d].synced /\ r.data = device[d].data
         \/ /\ device[d].answer.version # Absent
            /\ r.synced = device[d].answer.version /\ r.data = device[d].answer.data,
         \/ r.answer.version = Absent
         \/ r.answer = device[d].answer
         \/ r.answer = Current,
         Local(d)'
  PROVE  CInv'
<1>1. /\ device' \in [Devices -> Device] /\ device'[d] = r
      /\ \A x \in Devices : x # d => device'[x] = device[x]
  BY SetFacts DEF CInv
<1>2. ClientsTypeOK'
  BY <1>1 DEF CInv, ClientsTypeOK
<1>3. \A x \in Devices : Local(x)'
  BY <1>1, OthersKeepLocal DEF CInv
<1>4. HasHistory'
  BY <1>1, HistoryGoesOn
<1>5. VersionsCountWrites'
  <2>1. {s \in Requests : outcome'[s] = "applied"} = {s \in Requests : outcome[s] = "applied"}
    OBVIOUS
  <2>2. Version' = Version
    BY DEF Version, Current
  <2>. QED
    BY <2>1, <2>2 DEF CInv, VersionsCountWrites
<1>. QED
  BY <1>2, <1>3, <1>4, <1>5 DEF CInv

(* The facts every step of a device starts from. *)
LEMMA DeviceFacts ==
  ASSUME CInv, NEW d \in Devices
  PROVE  /\ device[d] \in Device /\ Writing(d) /\ Answered(d) /\ Started(d)
         /\ Absent \notin Nat /\ Version \in Nat /\ Version = Current.version
         /\ Current \in [version : Versions, data : Data]
         /\ device[d].synced # Absent => device[d].synced \in 0 .. Version
         /\ device[d].answer.version # Absent => device[d].answer.version \in 0 .. Version
<1>1. PICK content \in [Nat -> Data] : Remembers(content)
  BY DEF CInv, HasHistory
<1>2. document[User] \in [version : Versions, data : Data]
  BY DEF CInv, ClientsTypeOK
<1>. QED
  BY <1>1, <1>2, ClientTypes DEF CInv, Local, Remembers, Version

LEMMA ClientUnchanged ==
  ASSUME CInv
  PROVE  /\ request \in [Requests -> Document!Request \cup {NoRequest}]
         /\ outcome \in [Requests -> {"open", "applied", "rejected", "closed"}]
         /\ socket \in [Devices -> Socket] /\ drops \in 0 .. MaxDrops
         /\ unsent \in SUBSET Versions /\ unaware \in [Devices -> BOOLEAN]
BY DEF CInv, ClientsTypeOK

-----------------------------------------------------------------------------
LEMMA GetSnapshotKeepsCInv ==
  ASSUME CInv, NEW d \in Devices, GetSnapshot(d)
  PROVE  CInv'
<1>. DEFINE r == [device[d] EXCEPT !.pc = "got",
                    !.answer = IF Unchanged(device[d].since) THEN NoAnswer
                               ELSE Current]
<1>1. /\ device[d].pc = "get" /\ Set(d, r)
      /\ UNCHANGED <<document, request, outcome, socket, drops, unsent, unaware>>
  BY DEF GetSnapshot, docVars
<1>2. /\ device[d] \in Device /\ Writing(d) /\ Answered(d) /\ Started(d)
      /\ Absent \notin Nat /\ Version \in Nat /\ Version = Current.version
      /\ Current \in [version : Versions, data : Data]
      /\ device[d].synced # Absent => device[d].synced \in 0 .. Version
  BY DeviceFacts
<1>3. r \in Device
  BY <1>2, NoAnswerTypes DEF Device
<1>4. /\ r.pc = "got" /\ r.synced = device[d].synced /\ r.data = device[d].data
      /\ \/ r.answer = NoAnswer /\ Unchanged(device[d].since)
         \/ r.answer = Current
  BY <1>2 DEF Device
<1>5. device'[d] = r
  BY <1>1, <1>3, SetFacts DEF CInv
<1>6. Local(d)'
  <2>1. r.answer = NoAnswer => r.synced # Absent
    BY <1>1, <1>2, <1>4, NoAnswerTypes DEF Started, Unchanged
  <2>2. r.answer.version = Absent => r.answer = NoAnswer
    BY <1>2, <1>4
  <2>3. r.synced # Absent /\ r.answer # NoAnswer => r.answer.version >= r.synced
    BY <1>2, <1>4
  <2>4. socket'[d].open
    BY <1>1, <1>2 DEF Started
  <2>. HIDE DEF r
  <2>5. Writing(d)' /\ Answered(d)' /\ Started(d)'
    BY <1>4, <1>5, <2>1, <2>2, <2>3, <2>4 DEF Writing, Answered, Started
  <2>. QED
    BY <2>5 DEF Local
<1>. HIDE DEF r
<1>. QED
  BY <1>1, <1>3, <1>4, <1>6, NoAnswerTypes, ClientUnchanged, DeviceStep

LEMMA TakeSnapshotKeepsCInv ==
  ASSUME CInv, NEW d \in Devices, TakeSnapshot(d)
  PROVE  CInv'
<1>. DEFINE idle == [device[d] EXCEPT !.pc = "idle", !.answer = NoAnswer]
            r == IF device[d].answer = NoAnswer THEN idle
                 ELSE [idle EXCEPT !.synced = device[d].answer.version,
                                   !.data = device[d].answer.data]
<1>1. /\ device[d].pc = "got" /\ Set(d, r)
      /\ unaware' \in {unaware, [unaware EXCEPT ![d] = FALSE]}
      /\ UNCHANGED <<document, request, outcome, socket, drops, unsent>>
  BY DEF TakeSnapshot, docVars
<1>2. /\ device[d] \in Device /\ Writing(d) /\ Answered(d) /\ Started(d)
      /\ device[d].answer.version \in Versions \cup {Absent}
      /\ device[d].answer.data \in Data
  BY DeviceFacts, DeviceFields
<1>3. r \in Device
  <2>1. idle \in Device
    BY <1>2, NoAnswerTypes DEF Device
  <2>. HIDE DEF idle
  <2>2. [idle EXCEPT !.synced = device[d].answer.version, !.data = device[d].answer.data]
          \in Device
    BY <1>2, <2>1 DEF Device
  <2>. QED
    BY <2>1, <2>2
<1>4. /\ r.pc = "idle" /\ r.answer = NoAnswer
      /\ \/ /\ r.synced = device[d].synced /\ r.data = device[d].data
            /\ device[d].answer = NoAnswer
         \/ /\ device[d].answer.version # Absent
            /\ r.synced = device[d].answer.version /\ r.data = device[d].answer.data
  BY <1>1, <1>2 DEF Device, Answered
<1>5. device'[d] = r
  BY <1>1, <1>3, SetFacts DEF CInv
<1>6. unaware' \in [Devices -> BOOLEAN]
  BY <1>1, ClientUnchanged
<1>7. Local(d)'
  <2>1. r.synced # Absent /\ socket'[d].open
    BY <1>1, <1>2, <1>4 DEF Started
  <2>. HIDE DEF r
  <2>2. Writing(d)' /\ Answered(d)' /\ Started(d)'
    BY <1>4, <1>5, <2>1 DEF Writing, Answered, Started
  <2>. QED
    BY <2>2 DEF Local
<1>. HIDE DEF r
<1>. QED
  BY <1>1, <1>3, <1>4, <1>6, <1>7, NoAnswerTypes, ClientUnchanged, DeviceStep

LEMMA OpenKeepsCInv ==
  ASSUME CInv, NEW d \in Devices, Open(d)
  PROVE  CInv'
<1>. DEFINE r == [device[d] EXCEPT !.pc = "get", !.since = Absent]
<1>1. /\ device[d].pc = "off" /\ Set(d, r)
      /\ socket' = [socket EXCEPT ![d] = [open |-> TRUE, events |-> <<>>]]
      /\ UNCHANGED <<document, request, outcome, drops, unsent, unaware>>
  BY DEF Open, docVars
<1>2. device[d] \in Device /\ Writing(d) /\ Answered(d) /\ Started(d)
  BY DeviceFacts
<1>3. r \in Device
  BY <1>2 DEF Device
<1>4. /\ r.pc = "get" /\ r.since = Absent /\ r.synced = device[d].synced /\ r.data = device[d].data
      /\ r.answer = device[d].answer /\ r.answer = NoAnswer
  BY <1>1, <1>2 DEF Device, Answered
<1>5. device'[d] = r
  BY <1>1, <1>3, SetFacts DEF CInv
<1>6. /\ socket' \in [Devices -> Socket] /\ socket'[d].open
      /\ \A x \in Devices : x # d => socket'[x].open = socket[x].open
  BY <1>1, ClientUnchanged DEF Socket
<1>7. Local(d)'
  <2>. HIDE DEF r
  <2>1. Writing(d)' /\ Answered(d)' /\ Started(d)'
    BY <1>4, <1>5, <1>6 DEF Writing, Answered, Started
  <2>. QED
    BY <2>1 DEF Local
<1>. HIDE DEF r
<1>. QED
  BY <1>1, <1>3, <1>4, <1>6, <1>7, ClientUnchanged, DeviceStep

LEMMA AcceptedKeepsCInv ==
  ASSUME CInv, NEW d \in Devices, Accepted(d)
  PROVE  CInv'
<1>. DEFINE r == [device[d] EXCEPT !.pc = "idle", !.synced = device[d].answer.version,
                    !.put = NoRequest, !.answer = NoAnswer,
                    !.data = [x \in Domains |-> IF x \in request[device[d].put].domains
                                                THEN device[d].put ELSE @[x]]]
<1>1. /\ device[d].pc = "accepted" /\ Set(d, r)
      /\ UNCHANGED <<document, request, outcome, socket, drops, unsent, unaware>>
  BY DEF Accepted, docVars
<1>2. /\ device[d] \in Device /\ Writing(d) /\ Answered(d) /\ Started(d)
      /\ device[d].answer.version \in Versions \cup {Absent}
      /\ device[d].answer.data \in Data
      /\ Absent \notin Nat /\ device[d].synced \in Nat
  BY <1>1, DeviceFacts, DeviceFields DEF Started
<1>3. /\ r.pc = "idle" /\ r.answer = NoAnswer
      /\ r.synced = device[d].answer.version /\ r.data = device[d].answer.data
  BY <1>1, <1>2 DEF Device, Answered
<1>4. device[d].answer.version # Absent
  BY <1>1, <1>2 DEF Answered
<1>5. r \in Device
  <2>1. r = [device[d] EXCEPT !.pc = "idle", !.synced = device[d].answer.version,
               !.put = NoRequest, !.answer = NoAnswer, !.data = device[d].answer.data]
    BY <1>1, <1>2 DEF Device, Answered
  <2>. HIDE DEF r
  <2>. QED
    BY <1>2, <2>1, NoAnswerTypes DEF Device
<1>6. device'[d] = r
  BY <1>1, <1>5, SetFacts DEF CInv
<1>7. Local(d)'
  <2>1. socket'[d].open
    BY <1>1, <1>2 DEF Started
  <2>. HIDE DEF r
  <2>2. Writing(d)' /\ Answered(d)' /\ Started(d)'
    BY <1>3, <1>4, <1>6, <2>1 DEF Writing, Answered, Started
  <2>. QED
    BY <2>2 DEF Local
<1>. HIDE DEF r
<1>. QED
  BY <1>1, <1>3, <1>4, <1>5, <1>7, NoAnswerTypes, ClientUnchanged, DeviceStep

LEMMA RefusedKeepsCInv ==
  ASSUME CInv, NEW d \in Devices, Refused(d)
  PROVE  CInv'
<1>. DEFINE r == [device[d] EXCEPT !.pc = "get", !.put = NoRequest, !.since = Absent]
<1>1. /\ device[d].pc = "conflict" /\ Set(d, r)
      /\ UNCHANGED <<document, request, outcome, socket, drops, unsent, unaware>>
  BY DEF Refused, docVars
<1>2. device[d] \in Device /\ Writing(d) /\ Answered(d) /\ Started(d)
  BY DeviceFacts
<1>3. r \in Device
  BY <1>2 DEF Device
<1>4. /\ r.pc = "get" /\ r.since = Absent /\ r.synced = device[d].synced /\ r.data = device[d].data
      /\ r.answer = device[d].answer /\ r.answer = NoAnswer
  BY <1>1, <1>2 DEF Device, Answered
<1>5. device'[d] = r
  BY <1>1, <1>3, SetFacts DEF CInv
<1>6. Local(d)'
  <2>1. socket'[d].open
    BY <1>1, <1>2 DEF Started
  <2>. HIDE DEF r
  <2>2. Writing(d)' /\ Answered(d)' /\ Started(d)'
    BY <1>4, <1>5, <2>1 DEF Writing, Answered, Started
  <2>. QED
    BY <2>2 DEF Local
<1>. HIDE DEF r
<1>. QED
  BY <1>1, <1>3, <1>4, <1>6, ClientUnchanged, DeviceStep

LEMMA WriteKeepsCInv ==
  ASSUME CInv, NEW d \in Devices, Write(d)
  PROVE  CInv'
<1>1. PICK s \in Requests, y \in Domains :
        /\ request[s] = NoRequest
        /\ request' = [request EXCEPT ![s] = [user |-> User, op |-> "put_namespace",
                                              domains |-> {y}, version |-> device[d].synced]]
        /\ Set(d, [device[d] EXCEPT !.pc = "put", !.put = s])
  BY DEF Write
<1>2. /\ device[d].pc = "idle" /\ device[d].synced # Absent
      /\ UNCHANGED <<document, outcome, socket, drops, unsent, unaware>>
  BY DEF Write
<1>. DEFINE q == [user |-> User, op |-> "put_namespace", domains |-> {y}, version |-> device[d].synced]
            r == [device[d] EXCEPT !.pc = "put", !.put = s]
<1>3. /\ device[d] \in Device /\ Writing(d) /\ Answered(d) /\ Started(d)
      /\ device[d].synced \in Versions \cup {Absent}
  BY DeviceFacts, DeviceFields
<1>4. q \in Document!Request /\ q # NoRequest
  BY <1>3, ConstantsAssumption DEF Document!Request
<1>5. /\ request' \in [Requests -> Document!Request \cup {NoRequest}]
      /\ request'[s] = q
      /\ \A t \in Requests : request[t] # NoRequest => request'[t] = request[t]
  BY <1>1, <1>4, ClientUnchanged
<1>6. r \in Device
  BY <1>3 DEF Device
<1>7. /\ r.pc = "put" /\ r.put = s /\ r.synced = device[d].synced /\ r.data = device[d].data
      /\ r.answer = device[d].answer /\ r.answer = NoAnswer
  BY <1>2, <1>3 DEF Device, Answered
<1>8. device'[d] = r
  BY <1>1, <1>6, SetFacts DEF CInv
<1>9. Local(d)'
  <2>1. socket'[d].open /\ q.version = device[d].synced
    BY <1>2, <1>3 DEF Started
  <2>. HIDE DEF r, q
  <2>2. Writing(d)' /\ Answered(d)' /\ Started(d)'
    BY <1>2, <1>4, <1>5, <1>7, <1>8, <2>1 DEF Writing, Answered, Started
  <2>. QED
    BY <2>2 DEF Local
<1>10. Set(d, r)
  BY <1>1
<1>. HIDE DEF r
<1>. QED
  BY <1>2, <1>5, <1>6, <1>7, <1>9, <1>10, ClientUnchanged, DeviceStep

LEMMA GiveUpKeepsCInv ==
  ASSUME CInv, NEW d \in Devices, GiveUp(d)
  PROVE  CInv'
<1>. DEFINE r == [device[d] EXCEPT !.pc = "idle", !.put = NoRequest, !.answer = NoAnswer]
<1>1. /\ device[d].pc \in {"put", "sending", "accepted"} /\ Set(d, r)
      /\ document' = document /\ request' = request
      /\ \/ outcome' = outcome
         \/ /\ outcome[device[d].put] = "open"
            /\ outcome' = [outcome EXCEPT ![device[d].put] = "closed"]
      /\ unaware' \in {unaware, [unaware EXCEPT ![d] = TRUE]}
      /\ unsent' \in {unsent, unsent \cup {device[d].answer.version}}
      /\ unsent' # unsent => device[d].pc = "sending"
      /\ UNCHANGED <<socket, drops>>
  BY DEF GiveUp, docVars, Document!Close, Document!Open
<1>2. /\ device[d] \in Device /\ Writing(d) /\ Answered(d) /\ Started(d)
      /\ device[d].answer.version \in Versions \cup {Absent}
      /\ Absent \notin Nat /\ device[d].synced \in Nat
  BY <1>1, DeviceFacts, DeviceFields DEF Started
<1>3. r \in Device
  BY <1>2, NoAnswerTypes DEF Device
<1>4. /\ r.pc = "idle" /\ r.synced = device[d].synced /\ r.data = device[d].data
      /\ r.answer = NoAnswer
  BY <1>2 DEF Device
<1>5. device'[d] = r
  BY <1>1, <1>3, SetFacts DEF CInv
<1>6. /\ outcome' \in [Requests -> {"open", "applied", "rejected", "closed"}]
      /\ \A s \in Requests : outcome'[s] = "applied" <=> outcome[s] = "applied"
  BY <1>1, ClientUnchanged
<1>7. unsent' \in SUBSET Versions /\ unaware' \in [Devices -> BOOLEAN]
  <2>1. device[d].pc = "sending" => device[d].answer.version \in Versions
    BY <1>2 DEF Answered
  <2>. QED
    BY <1>1, <2>1, ClientUnchanged
<1>8. Local(d)'
  <2>1. socket'[d].open /\ r.synced # Absent
    BY <1>1, <1>2, <1>4 DEF Started
  <2>. HIDE DEF r
  <2>2. Writing(d)' /\ Answered(d)' /\ Started(d)'
    BY <1>4, <1>5, <2>1 DEF Writing, Answered, Started
  <2>. QED
    BY <2>2 DEF Local
<1>. HIDE DEF r
<1>. QED
  BY <1>1, <1>3, <1>4, <1>6, <1>7, <1>8, NoAnswerTypes, ClientUnchanged, DeviceStep

LEMMA DisconnectKeepsCInv ==
  ASSUME CInv, NEW d \in Devices, LoseConnection(d)
  PROVE  CInv'
<1>. DEFINE r == [device[d] EXCEPT !.pc = "off", !.answer = NoAnswer]
<1>1. /\ drops < MaxDrops /\ drops' = drops + 1 /\ Set(d, r)
      /\ socket' = [socket EXCEPT ![d] = Closed]
      /\ UNCHANGED <<document, request, outcome, unsent, unaware>>
  BY DEF LoseConnection, docVars
<1>2. device[d] \in Device /\ Writing(d) /\ Answered(d) /\ Started(d)
  BY DeviceFacts
<1>3. r \in Device
  BY <1>2, NoAnswerTypes DEF Device
<1>4. /\ r.pc = "off" /\ r.synced = device[d].synced /\ r.data = device[d].data
      /\ r.answer = NoAnswer
  BY <1>2 DEF Device
<1>5. device'[d] = r
  BY <1>1, <1>3, SetFacts DEF CInv
<1>6. /\ socket' \in [Devices -> Socket] /\ drops' \in 0 .. MaxDrops
      /\ \A x \in Devices : x # d => socket'[x].open = socket[x].open
  BY <1>1, ClientUnchanged, ConstantsAssumption DEF Socket, Closed
<1>7. Local(d)'
  <2>. HIDE DEF r
  <2>1. Writing(d)' /\ Answered(d)' /\ Started(d)'
    BY <1>4, <1>5 DEF Writing, Answered, Started
  <2>. QED
    BY <2>1 DEF Local
<1>. HIDE DEF r
<1>. QED
  BY <1>1, <1>3, <1>4, <1>6, <1>7, NoAnswerTypes, ClientUnchanged, DeviceStep

-----------------------------------------------------------------------------
(* The sockets' events. *)

(* The newest event is always kept. *)
LEMMA KeepFacts ==
  ASSUME NEW S, NEW s \in Seq(S), NEW e \in S
  PROVE  /\ Keep(s, e) \in Seq(S)
         /\ \E k \in DOMAIN Keep(s, e) : Keep(s, e)[k] = e
<1>. DEFINE all == Append(s, e)
            first == IF Len(all) > Backlog THEN Len(all) - Backlog + 1 ELSE 1
<1>1. /\ all \in Seq(S) /\ Len(all) = Len(s) + 1 /\ Len(s) \in Nat /\ all[Len(s) + 1] = e
  BY AppendFacts
<1>2. first \in 1 .. Len(all)
  BY <1>1, BacklogAssumption
<1>3. Keep(s, e) = SubSeq(all, first, Len(all))
  BY DEF Keep
<1>. HIDE DEF all, first
<1>4. /\ SubSeq(all, first, Len(all)) \in Seq(S)
      /\ Len(SubSeq(all, first, Len(all))) = Len(all) - first + 1
      /\ \A k \in 1 .. Len(all) - first + 1 : SubSeq(all, first, Len(all))[k] = all[first + k - 1]
      /\ DOMAIN SubSeq(all, first, Len(all)) = 1 .. Len(all) - first + 1
  BY <1>1, <1>2
<1>5. Len(all) - first + 1 \in DOMAIN Keep(s, e)
  BY <1>1, <1>2, <1>3, <1>4
<1>6. Keep(s, e)[Len(all) - first + 1] = e
  BY <1>1, <1>2, <1>3, <1>4, <1>5
<1>. QED
  BY <1>3, <1>4, <1>5, <1>6

LEMMA ReceiveKeepsCInv ==
  ASSUME CInv, NEW d \in Devices, ReceiveUpdate(d)
  PROVE  CInv'
<1>. DEFINE get == [device[d] EXCEPT !.pc = "get", !.since = device[d].synced]
<1>1. /\ device[d].pc = "idle" /\ socket[d].events # <<>>
      /\ socket' = [socket EXCEPT ![d].events = Tail(@)]
      /\ device' \in {device, [device EXCEPT ![d] = get]}
      /\ UNCHANGED <<document, request, outcome, drops, unsent, unaware>>
  BY DEF ReceiveUpdate, docVars
<1>2. /\ device[d] \in Device /\ Writing(d) /\ Answered(d) /\ Started(d)
      /\ device[d].synced \in Versions \cup {Absent}
  BY DeviceFacts, DeviceFields
<1>3. PICK r \in {device[d], get} : Set(d, r)
  BY <1>1 DEF Set, CInv, ClientsTypeOK
<1>4. r \in Device
  BY <1>2, <1>3 DEF Device
<1>5. /\ r.pc \in {"idle", "get"}
      /\ r.pc = "get" => r.since = r.synced
      /\ r.synced = device[d].synced /\ r.data = device[d].data
      /\ r.answer = device[d].answer /\ r.answer = NoAnswer
  <2>1. device[d].answer = NoAnswer
    BY <1>1, <1>2 DEF Answered
  <2>2. CASE r = device[d]
    BY <1>1, <2>1, <2>2
  <2>3. CASE r = get
    BY <1>2, <2>1, <2>3 DEF Device
  <2>. QED
    BY <1>3, <2>2, <2>3
<1>6. device'[d] = r
  BY <1>3, <1>4, SetFacts DEF CInv
<1>7. /\ socket' \in [Devices -> Socket] /\ socket'[d].open = socket[d].open
      /\ \A x \in Devices : x # d => socket'[x].open = socket[x].open
  <2>1. socket[d] \in [open : BOOLEAN, events : Seq(Event)]
    BY ClientUnchanged DEF Socket
  <2>2. Tail(socket[d].events) \in Seq(Event)
    BY <1>1, <2>1, TailFacts
  <2>3. /\ socket'[d] = [socket[d] EXCEPT !.events = Tail(@)]
        /\ \A x \in Devices : x # d => socket'[x] = socket[x]
    BY <1>1, ClientUnchanged
  <2>4. socket'[d] \in Socket /\ socket'[d].open = socket[d].open
    BY <2>1, <2>2, <2>3 DEF Socket
  <2>5. DOMAIN socket = Devices /\ \A x \in Devices : socket[x] \in Socket
    BY ClientUnchanged
  <2>6. socket' = [x \in Devices |-> socket'[x]]
    BY <1>1, <2>5
  <2>7. \A x \in Devices : socket'[x] \in Socket
    BY <2>3, <2>4, <2>5
  <2>8. socket' \in [Devices -> Socket]
    BY <2>6, <2>7
  <2>. QED
    BY <2>3, <2>4, <2>8
<1>8. Local(d)'
  <2>1. socket'[d].open /\ r.synced # Absent
    BY <1>1, <1>2, <1>5, <1>7 DEF Started
  <2>2. Writing(d)' /\ Answered(d)' /\ Started(d)'
    BY <1>5, <1>6, <2>1 DEF Writing, Answered, Started
  <2>. QED
    BY <2>2 DEF Local
<1>. QED
  BY <1>1, <1>3, <1>4, <1>5, <1>7, <1>8, ClientUnchanged, DeviceStep

(* What send_user_event does to the sockets. *)
LEMMA SendFacts ==
  ASSUME CInv, NEW d \in Devices, AnnounceWrite(d)
  PROVE  /\ [version |-> device[d].answer.version, source |-> d] \in Event
         /\ socket' \in [Devices -> Socket]
         /\ \A x \in Devices :
              /\ socket'[x].open = socket[x].open
              /\ socket[x].open => socket'[x].events =
                   Keep(socket[x].events, [version |-> device[d].answer.version, source |-> d])
<1>. DEFINE e == [version |-> device[d].answer.version, source |-> d]
<1>1. /\ device[d].pc = "sending"
      /\ socket' = [x \in Devices |-> IF socket[x].open
                                      THEN [socket[x] EXCEPT !.events = Keep(@, e)]
                                      ELSE socket[x]]
  BY DEF AnnounceWrite
<1>2. e \in Event
  <2>1. /\ device[d] \in Device /\ Answered(d) /\ Started(d) /\ Absent \notin Nat
        /\ device[d].synced # Absent => device[d].synced \in Nat
    BY DeviceFacts
  <2>2. device[d].answer.version \in Versions \cup {Absent}
    BY <2>1, DeviceFields
  <2>3. device[d].answer.version \in Versions
    BY <1>1, <2>1, <2>2 DEF Answered, Started
  <2>. QED
    BY <2>3 DEF Event
<1>. HIDE DEF e
<1>3. ASSUME NEW x \in Devices
      PROVE  /\ socket'[x] \in Socket /\ socket'[x].open = socket[x].open
             /\ socket[x].open => socket'[x].events = Keep(socket[x].events, e)
  <2>1. socket[x] \in [open : BOOLEAN, events : Seq(Event)]
    BY ClientUnchanged DEF Socket
  <2>2. Keep(socket[x].events, e) \in Seq(Event)
    BY <1>2, <2>1, KeepFacts
  <2>. QED
    BY <1>1, <2>1, <2>2 DEF Socket
<1>4. socket' \in [Devices -> Socket]
  BY <1>1, <1>3
<1>. QED
  BY <1>2, <1>3, <1>4 DEF e

LEMMA SendUserEventKeepsCInv ==
  ASSUME CInv, NEW d \in Devices, AnnounceWrite(d)
  PROVE  CInv'
<1>. DEFINE r == [device[d] EXCEPT !.pc = "accepted"]
<1>1. /\ device[d].pc = "sending" /\ Set(d, r)
      /\ UNCHANGED <<document, request, outcome, drops, unsent, unaware>>
  BY DEF AnnounceWrite, docVars
<1>2. device[d] \in Device /\ Writing(d) /\ Answered(d) /\ Started(d)
  BY DeviceFacts
<1>3. r \in Device
  BY <1>2 DEF Device
<1>4. /\ r.pc = "accepted" /\ r.synced = device[d].synced /\ r.data = device[d].data
      /\ r.answer = device[d].answer /\ r.put = device[d].put
  BY <1>2 DEF Device
<1>5. device'[d] = r
  BY <1>1, <1>3, SetFacts DEF CInv
<1>6. /\ socket' \in [Devices -> Socket]
      /\ \A x \in Devices : socket'[x].open = socket[x].open
  BY SendFacts
<1>7. Local(d)'
  <2>. HIDE DEF r
  <2>1. Writing(d)' /\ Answered(d)' /\ Started(d)'
    BY <1>1, <1>2, <1>4, <1>5, <1>6 DEF Writing, Answered, Started
  <2>. QED
    BY <2>1 DEF Local
<1>. HIDE DEF r
<1>. QED
  BY <1>1, <1>3, <1>4, <1>6, <1>7, ClientUnchanged, DeviceStep

-----------------------------------------------------------------------------
(* The commit of a PUT.                                                                  *)

(* A PUT that is applied replaces the version its device holds, and what was there is    *)
(* what the device holds: this is where expected_version protects what others wrote.     *)
LEMMA AppliedFacts ==
  ASSUME CInv, NEW d \in Devices, device[d].pc = "put",
         Document!Apply(device[d].put)
  PROVE  /\ device[d].put \in Requests /\ outcome[device[d].put] = "open"
         /\ device[d].synced = Version /\ device[d].data = Current.data
         /\ document'[User] = [version |-> Version + 1,
              data |-> [x \in Domains |-> IF x \in request[device[d].put].domains THEN device[d].put
                                          ELSE device[d].data[x]]]
         /\ document' = [u \in {User} |-> document'[User]]
         /\ outcome' = [outcome EXCEPT ![device[d].put] = "applied"] /\ request' = request
<1>1. /\ Writing(d) /\ Started(d) /\ Version \in Nat /\ Version = Current.version
      /\ Current = document[User]
  BY DeviceFacts DEF Current
<1>2. PICK s \in Requests : s = device[d].put
  BY <1>1 DEF Writing
<1>3. request[s].version = device[d].synced /\ device[d].synced # Absent /\ request[s].user = User
  <2>1. request[s] \in Document!Request
    BY <1>1, <1>2, ClientUnchanged DEF Writing
  <2>. QED
    BY <1>1, <1>2, <2>1 DEF Writing, Started, Document!Request
<1>4. /\ outcome[s] = "open" /\ request' = request
      /\ outcome' = [outcome EXCEPT ![s] = "applied"]
      /\ request[s].version \in {Absent, document[User].version}
      /\ document' = [document EXCEPT ![User] =
           [version |-> document[User].version + 1,
            data |-> [x \in Domains |-> IF x \in request[s].domains THEN s
                                        ELSE document[User].data[x]]]]
  BY <1>2, <1>3 DEF Document!Apply, Document!Open
<1>5. device[d].synced = Version
  BY <1>1, <1>3, <1>4
<1>6. device[d].data = Current.data
  <2>1. PICK content \in [Nat -> Data] : Remembers(content)
    BY DEF CInv, HasHistory
  <2>. QED
    BY <1>3, <1>5, <2>1 DEF Remembers
<1>7. document \in [{User} -> [version : Versions, data : Data]]
  BY DEF CInv, ClientsTypeOK
<1>. QED
  BY <1>1, <1>2, <1>4, <1>5, <1>6, <1>7

(* Each version is a write: there are no more versions than requests. *)
LEMMA CountsGoOn ==
  ASSUME CInv, NEW s \in Requests, outcome[s] = "open",
         outcome' = [outcome EXCEPT ![s] = "applied"], Version' = Version + 1
  PROVE  VersionsCountWrites' /\ Version + 1 \in Versions
<1>. DEFINE applied == {t \in Requests : outcome[t] = "applied"}
<1>1. {t \in Requests : outcome'[t] = "applied"} = applied \cup {s} /\ s \notin applied
  BY ClientUnchanged
<1>2. IsFiniteSet(Requests) /\ IsFiniteSet(applied)
  <2>1. IsFiniteSet(Requests)
    BY ConstantsAssumption
  <2>. QED
    BY <2>1, FS_Subset
<1>3. Cardinality(applied \cup {s}) = Cardinality(applied) + 1
  BY <1>1, <1>2, FS_AddElement
<1>4. Cardinality(applied \cup {s}) <= Cardinality(Requests)
  BY <1>2, FS_Subset
<1>5. Version = Cardinality(applied) /\ Cardinality(applied) \in Nat /\ Cardinality(Requests) \in Nat
  BY <1>2, FS_CardinalityType DEF CInv, VersionsCountWrites
<1>. HIDE DEF applied
<1>6. VersionsCountWrites'
  BY <1>1, <1>3, <1>5 DEF VersionsCountWrites
<1>7. Version + 1 \in Versions
  BY <1>3, <1>4, <1>5 DEF Versions
<1>. QED
  BY <1>6, <1>7

LEMMA PutNamespaceKeepsCInv ==
  ASSUME CInv, NEW d \in Devices, PutNamespace(d)
  PROVE  CInv'
<1>0. /\ device[d] \in Device /\ Writing(d) /\ Answered(d) /\ Started(d)
      /\ device[d].pc = "put" /\ UNCHANGED <<socket, drops, unsent, unaware>>
  BY DeviceFacts DEF PutNamespace
<1>1. CASE Document!Reject(device[d].put)
           /\ Set(d, [device[d] EXCEPT !.pc = "conflict"])
  <2>. DEFINE r == [device[d] EXCEPT !.pc = "conflict"]
  <2>1. /\ document' = document /\ request' = request /\ outcome[device[d].put] = "open"
        /\ outcome' = [outcome EXCEPT ![device[d].put] = "rejected"]
    BY <1>1 DEF Document!Reject, Document!Open
  <2>2. r \in Device /\ Set(d, r)
    BY <1>0, <1>1 DEF Device
  <2>3. /\ r.pc = "conflict" /\ r.synced = device[d].synced /\ r.data = device[d].data
        /\ r.answer = device[d].answer /\ r.answer = NoAnswer
    BY <1>0 DEF Device, Answered
  <2>4. device'[d] = r
    BY <2>2, SetFacts DEF CInv
  <2>5. /\ outcome' \in [Requests -> {"open", "applied", "rejected", "closed"}]
        /\ \A s \in Requests : outcome'[s] = "applied" <=> outcome[s] = "applied"
    BY <2>1, ClientUnchanged
  <2>6. Local(d)'
    <3>1. socket'[d].open /\ r.synced # Absent
      BY <1>0, <2>3 DEF Started
    <3>. HIDE DEF r
    <3>2. Writing(d)' /\ Answered(d)' /\ Started(d)'
      BY <2>3, <2>4, <3>1 DEF Writing, Answered, Started
    <3>. QED
      BY <3>2 DEF Local
  <2>. HIDE DEF r
  <2>. QED
    BY <1>0, <2>1, <2>2, <2>3, <2>5, <2>6, ClientUnchanged, DeviceStep
<1>2. CASE Document!Apply(device[d].put)
           /\ Set(d, [device[d] EXCEPT !.pc = "sending", !.answer = document'[User]])
  <2>. DEFINE r == [device[d] EXCEPT !.pc = "sending", !.answer = document'[User]]
              new == [x \in Domains |-> IF x \in request[device[d].put].domains THEN device[d].put
                                        ELSE device[d].data[x]]
  <2>1. /\ device[d].put \in Requests /\ outcome[device[d].put] = "open" /\ request' = request
        /\ device[d].synced = Version /\ device[d].data = Current.data
        /\ document'[User] = [version |-> Version + 1, data |-> new]
        /\ document' = [u \in {User} |-> document'[User]]
        /\ outcome' = [outcome EXCEPT ![device[d].put] = "applied"]
    BY <1>0, <1>2, AppliedFacts
  <2>2. /\ Version \in Nat /\ Absent \notin Nat /\ device[d].data \in Data
        /\ Versions \subseteq Nat
    BY <1>0, DeviceFacts, DeviceFields, ClientTypes DEF CInv
  <2>3. new \in Data
    BY <2>1, <2>2 DEF Data
  <2>. HIDE DEF new
  <2>4. Version' = Version + 1 /\ Current' = document'[User] /\ Current.data' = new
    BY <2>1 DEF Version, Current
  <2>5. VersionsCountWrites' /\ Version + 1 \in Versions
    BY <2>1, <2>4, CountsGoOn
  <2>6. r \in Device
    <3>1. document'[User] \in [version : Versions \cup {Absent}, data : Data]
      BY <2>1, <2>3, <2>5
    <3>. QED
      BY <1>0, <3>1 DEF Device
  <2>7. /\ r.pc = "sending" /\ r.synced = device[d].synced /\ r.data = device[d].data
        /\ r.put = device[d].put /\ r.answer = [version |-> Version + 1, data |-> new]
    BY <1>0, <2>1 DEF Device
  <2>8. /\ device' \in [Devices -> Device] /\ device'[d] = r
        /\ \A x \in Devices : x # d => device'[x] = device[x]
    BY <1>2, <2>6, SetFacts DEF CInv
  <2>. HIDE DEF r
  <2>9. ClientsTypeOK'
    BY <1>0, <2>1, <2>3, <2>5, <2>8, ClientUnchanged DEF CInv, ClientsTypeOK
  <2>10. Local(d)'
    <3>1. Writing(d)'
      BY <1>0, <2>1, <2>7, <2>8 DEF Writing
    <3>2. Answered(d)'
      BY <2>1, <2>2, <2>7, <2>8 DEF Answered, new
    <3>3. Started(d)'
      BY <1>0, <2>7, <2>8 DEF Started
    <3>. QED
      BY <3>1, <3>2, <3>3 DEF Local
  <2>11. \A x \in Devices : Local(x)'
    BY <1>0, <2>1, <2>8, <2>10, OthersKeepLocal DEF CInv
  <2>12. HasHistory'
    <3>1. PICK content \in [Nat -> Data] : Remembers(content)
      BY DEF CInv, HasHistory
    <3>2. PICK content1 \in [Nat -> Data] :
            content1[Version + 1] = new /\ \A v \in 0 .. Version : content1[v] = content[v]
      <4>1. [content EXCEPT ![Version + 1] = new] \in [Nat -> Data]
        BY <2>2, <2>3
      <4>2. /\ [content EXCEPT ![Version + 1] = new][Version + 1] = new
            /\ \A v \in 0 .. Version : [content EXCEPT ![Version + 1] = new][v] = content[v]
        BY <2>2
      <4>. QED
        BY <4>1, <4>2
    <3>3. \A x \in Devices :
            /\ device[x].synced # Absent => /\ device[x].synced \in 0 .. Version
                                           /\ device[x].data = content[device[x].synced]
            /\ device[x].answer.version # Absent =>
                 /\ device[x].answer.version \in 0 .. Version
                 /\ device[x].answer.data = content[device[x].answer.version]
      BY <3>1 DEF Remembers
    <3>4. ASSUME NEW x \in Devices
          PROVE  /\ device'[x].synced # Absent => /\ device'[x].synced \in 0 .. Version + 1
                                                 /\ device'[x].data = content1[device'[x].synced]
                 /\ device'[x].answer.version # Absent =>
                      /\ device'[x].answer.version \in 0 .. Version + 1
                      /\ device'[x].answer.data = content1[device'[x].answer.version]
      <4>1. /\ device'[x].synced = device[x].synced /\ device'[x].data = device[x].data
            /\ x # d => device'[x].answer = device[x].answer
            /\ x = d => device'[x].answer = [version |-> Version + 1, data |-> new]
        BY <2>7, <2>8
      <4>2. \A v : v \in 0 .. Version => v \in 0 .. Version + 1 /\ content1[v] = content[v]
        BY <2>2, <3>2
      <4>3. device'[x].synced # Absent => /\ device'[x].synced \in 0 .. Version + 1
                                         /\ device'[x].data = content1[device'[x].synced]
        BY <3>3, <4>1, <4>2
      <4>4. device'[x].answer.version # Absent =>
              /\ device'[x].answer.version \in 0 .. Version + 1
              /\ device'[x].answer.data = content1[device'[x].answer.version]
        <5>1. CASE x # d
          BY <3>3, <4>1, <4>2, <5>1
        <5>2. CASE x = d
          BY <2>2, <3>2, <4>1, <5>2
        <5>. QED
          BY <5>1, <5>2
      <4>. QED
        BY <4>3, <4>4
    <3>5. Remembers(content1)'
      BY <2>4, <3>2, <3>4 DEF Remembers
    <3>. QED
      BY <3>2, <3>5 DEF HasHistory
  <2>. QED
    BY <2>5, <2>9, <2>11, <2>12 DEF CInv
<1>. QED
  BY <1>1, <1>2 DEF PutNamespace

LEMMA ClientStutterKeepsCInv == ASSUME CInv, UNCHANGED clientVars PROVE CInv'
<1>1. UNCHANGED <<document, request, outcome, device, socket, drops, unsent, unaware>>
  BY DEF clientVars, docVars
<1>2. ClientsTypeOK'
  BY <1>1 DEF CInv, ClientsTypeOK
<1>3. Version' = Version /\ Current' = Current
  BY <1>1 DEF Version, Current
<1>4. \A d \in Devices : Local(d)'
  BY <1>1 DEF CInv, Local, Writing, Answered, Started
<1>5. VersionsCountWrites' /\ HasHistory'
  BY <1>1, <1>3 DEF CInv, VersionsCountWrites, HasHistory, Remembers
<1>. QED
  BY <1>2, <1>4, <1>5 DEF CInv

LEMMA ClientNextKeepsCInv ==
  ASSUME CInv, [ClientsNext]_clientVars
  PROVE  CInv'
<1>1. ASSUME NEW d \in Devices, Step(d) PROVE CInv'
  BY <1>1, GetSnapshotKeepsCInv, PutNamespaceKeepsCInv, SendUserEventKeepsCInv, OpenKeepsCInv,
     TakeSnapshotKeepsCInv, AcceptedKeepsCInv, RefusedKeepsCInv, ReceiveKeepsCInv
  DEF Step
<1>2. ASSUME NEW d \in Devices, Write(d) \/ GiveUp(d) \/ LoseConnection(d)
      PROVE  CInv'
  BY <1>2, WriteKeepsCInv, GiveUpKeepsCInv, DisconnectKeepsCInv
<1>. QED
  BY <1>1, <1>2, ClientStutterKeepsCInv DEF ClientsNext

(* The inductive invariant of the devices. *)
THEOREM ClientInvariant ==
  ClientsSpec => []CInv
<1>1. ClientsInit => CInv
  BY InitCInv
<1>2. CInv /\ [ClientsNext]_clientVars => CInv'
  BY ClientNextKeepsCInv
<1>. QED
  BY <1>1, <1>2, PTL DEF ClientsSpec

(* The devices keep their types: no version is ever larger than the number of writes. *)
THEOREM ClientTypeOK == ClientsSpec => []ClientsTypeOK
<1>1. CInv => ClientsTypeOK
  BY DEF CInv
<1>. QED
  BY <1>1, ClientInvariant, PTL

(* Two devices at one version hold the same content, whatever was lost or came late:     *)
(* both hold what the document was at that version.                                      *)
THEOREM DevicesAgree ==
  ClientsSpec => []SameVersionSameContent
<1>1. CInv => SameVersionSameContent
  BY DeviceFacts DEF CInv, HasHistory, Remembers, SameVersionSameContent, Version
<1>. QED
  BY <1>1, ClientInvariant, PTL

(* A PUT replaces what its device holds and nothing else, whatever other devices do in   *)
(* between: put_namespace applies it to the version it names only.                       *)
THEOREM NothingUnseen ==
  ClientsSpec => NothingUnseenIsReplaced
<1>1. ASSUME CInv, [ClientsNext]_clientVars, NEW d \in Devices,
             device[d].pc = "put", document' # document, device'[d].pc = "sending"
      PROVE  device[d].data = Current.data
  <2>1. PICK x \in Devices : PutNamespace(x)
    BY <1>1 DEF ClientsNext, Step, clientVars, docVars, GetSnapshot,
       AnnounceWrite, Open, TakeSnapshot, Accepted,
       Refused, ReceiveUpdate, Write, GiveUp, LoseConnection,
       Document!Close
  <2>2. Document!Apply(device[x].put) /\ device[x].pc = "put"
        /\ Set(x, [device[x] EXCEPT !.pc = "sending", !.answer = document'[User]])
    BY <1>1, <2>1 DEF PutNamespace, Document!Reject
  <2>3. x = d
    BY <1>1, <2>2 DEF CInv, ClientsTypeOK, Set
  <2>. QED
    BY <1>1, <2>2, <2>3, AppliedFacts
<1>2. CInv /\ [ClientsNext]_clientVars =>
        [\A d \in Devices :
           (device[d].pc = "put" /\ document' # document /\ device'[d].pc = "sending") =>
             device[d].data = Current.data]_clientVars
  BY <1>1
<1>. QED
  BY <1>2, ClientInvariant, PTL DEF ClientsSpec, NothingUnseenIsReplaced

-----------------------------------------------------------------------------
(* Devices only go forward. *)

(* No answer, however late, takes a device back to an older version: not a snapshot that *)
(* was read before another write, nor the 200 of its own.                                *)
NeverBack ==
  [][\A d \in Devices :
       device[d].synced # Absent =>
         device'[d].synced # Absent /\ device'[d].synced >= device[d].synced]_clientVars

(* A step of one device, the other devices being as they were. *)
LEMMA DeviceSet ==
  ASSUME ClientsTypeOK, NEW d \in Devices, NEW r, Set(d, r)
  PROVE  device'[d] = r /\ \A x \in Devices : x # d => device'[x] = device[x]
BY DEF ClientsTypeOK, Set

LEMMA NewVersionsOnly ==
  ASSUME CInv, NEW d \in Devices, device[d].synced # Absent,
         Step(d) \/ Write(d) \/ GiveUp(d) \/ LoseConnection(d)
  PROVE  device'[d].synced # Absent /\ device'[d].synced >= device[d].synced
<1>1. /\ device[d] \in Device /\ Answered(d) /\ Absent \notin Nat /\ ClientsTypeOK
      /\ Version \in Nat /\ device[d].synced \in 0 .. Version
      /\ device[d].answer.version # Absent => device[d].answer.version \in 0 .. Version
  BY DeviceFacts DEF CInv
<1>2. device[d].synced \in Nat /\ device[d].synced >= device[d].synced
  BY <1>1
<1>3. CASE TakeSnapshot(d)
  <2>1. CASE device[d].answer = NoAnswer
    <3>1. device'[d] = [device[d] EXCEPT !.pc = "idle", !.answer = NoAnswer]
      BY <1>1, <1>3, <2>1, DeviceSet DEF TakeSnapshot
    <3>2. device'[d].synced = device[d].synced
      BY <1>1, <3>1 DEF Device
    <3>. QED
      BY <1>2, <3>2
  <2>2. CASE device[d].answer # NoAnswer
    <3>1. /\ device[d].pc = "got"
          /\ device'[d] = [[device[d] EXCEPT !.pc = "idle", !.answer = NoAnswer]
                           EXCEPT !.synced = device[d].answer.version,
                                  !.data = device[d].answer.data]
      BY <1>1, <1>3, <2>2, DeviceSet DEF TakeSnapshot
    <3>2. device'[d].synced = device[d].answer.version
      BY <1>1, <3>1 DEF Device
    <3>3. device[d].answer.version # Absent /\ device[d].answer.version >= device[d].synced
      BY <1>1, <2>2, <3>1 DEF Answered
    <3>. QED
      BY <3>2, <3>3
  <2>. QED
    BY <2>1, <2>2
<1>4. CASE Accepted(d)
  <2>1. /\ device[d].pc = "accepted"
        /\ \E data : device'[d] = [device[d] EXCEPT !.pc = "idle", !.synced = device[d].answer.version,
                       !.put = NoRequest, !.answer = NoAnswer, !.data = data]
    BY <1>1, <1>4, DeviceSet DEF Accepted
  <2>2. device'[d].synced = device[d].answer.version
    BY <1>1, <2>1 DEF Device
  <2>3. device[d].answer.version = device[d].synced + 1
    BY <1>1, <2>1 DEF Answered
  <2>. QED
    BY <1>1, <1>2, <2>2, <2>3
<1>5. CASE \/ GetSnapshot(d) \/ PutNamespace(d) \/ AnnounceWrite(d)
           \/ Open(d) \/ Refused(d) \/ ReceiveUpdate(d)
           \/ Write(d) \/ GiveUp(d) \/ LoseConnection(d)
  <2>1. device \in [Devices -> Device]
    BY <1>1 DEF ClientsTypeOK
  <2>2. device'[d].synced = device[d].synced
    <3>1. CASE GetSnapshot(d)
      BY <2>1, <3>1 DEF GetSnapshot, Set, Device
    <3>2. CASE PutNamespace(d)
      <4>1. PICK a, pc : \/ device' = [device EXCEPT ![d] = [device[d] EXCEPT !.pc = pc, !.answer = a]]
                         \/ device' = [device EXCEPT ![d] = [device[d] EXCEPT !.pc = pc]]
        BY <3>2 DEF PutNamespace, Set
      <4>2. \/ device'[d] = [device[d] EXCEPT !.pc = pc, !.answer = a]
            \/ device'[d] = [device[d] EXCEPT !.pc = pc]
        BY <2>1, <4>1
      <4>. QED
        BY <2>1, <4>2 DEF Device
    <3>3. CASE AnnounceWrite(d)
      BY <2>1, <3>3 DEF AnnounceWrite, Set, Device
    <3>4. CASE Open(d)
      BY <2>1, <3>4 DEF Open, Set, Device
    <3>5. CASE Refused(d)
      BY <2>1, <3>5 DEF Refused, Set, Device
    <3>6. CASE ReceiveUpdate(d)
      BY <2>1, <3>6 DEF ReceiveUpdate, Set, Device
    <3>7. CASE Write(d)
      <4>1. PICK s : device' = [device EXCEPT ![d] = [device[d] EXCEPT !.pc = "put", !.put = s]]
        BY <3>7 DEF Write, Set
      <4>. QED
        BY <2>1, <4>1 DEF Device
    <3>8. CASE GiveUp(d)
      BY <2>1, <3>8 DEF GiveUp, Set, Device
    <3>9. CASE LoseConnection(d)
      BY <2>1, <3>9 DEF LoseConnection, Set, Device
    <3>. QED
      BY <1>5, <3>1, <3>2, <3>3, <3>4, <3>5, <3>6, <3>7, <3>8, <3>9
  <2>. QED
    BY <1>2, <2>2
<1>. QED
  BY <1>3, <1>4, <1>5 DEF Step

(* A step moves one device. *)
LEMMA OneDeviceMoves ==
  ASSUME CInv, NEW x \in Devices, NEW d \in Devices, d # x,
         Step(x) \/ Write(x) \/ GiveUp(x) \/ LoseConnection(x)
  PROVE  device'[d] = device[d]
<1>1. \A r : Set(x, r) => device'[d] = device[d]
  BY DEF CInv, ClientsTypeOK, Set
<1>2. CASE Step(x) /\ ~ReceiveUpdate(x)
  BY <1>1, <1>2 DEF Step, GetSnapshot, PutNamespace, AnnounceWrite,
     Open, TakeSnapshot, Accepted, Refused
<1>3. CASE ReceiveUpdate(x)
  BY <1>3 DEF ReceiveUpdate, CInv, ClientsTypeOK
<1>4. CASE Write(x) \/ GiveUp(x) \/ LoseConnection(x)
  BY <1>1, <1>4 DEF Write, GiveUp, LoseConnection
<1>. QED
  BY <1>2, <1>3, <1>4

THEOREM DevicesGoForward == ClientsSpec => NeverBack
<1>1. ASSUME CInv, ClientsNext, NEW d \in Devices, device[d].synced # Absent
      PROVE  device'[d].synced # Absent /\ device'[d].synced >= device[d].synced
  <2>1. PICK x \in Devices :
          Step(x) \/ Write(x) \/ GiveUp(x) \/ LoseConnection(x)
    BY <1>1 DEF ClientsNext
  <2>2. CASE x = d
    BY <1>1, <2>1, <2>2, NewVersionsOnly
  <2>3. CASE x # d
    <3>1. device'[d] = device[d]
      BY <1>1, <2>1, <2>3, OneDeviceMoves
    <3>2. device[d].synced >= device[d].synced
      BY <1>1, DeviceFacts
    <3>. QED
      BY <1>1, <3>1, <3>2
  <2>. QED
    BY <2>2, <2>3
<1>2. CInv /\ [ClientsNext]_clientVars =>
        [\A d \in Devices :
           device[d].synced # Absent =>
             device'[d].synced # Absent /\ device'[d].synced >= device[d].synced]_clientVars
  BY <1>1
<1>. QED
  BY <1>2, ClientInvariant, PTL DEF ClientsSpec, NeverBack

-----------------------------------------------------------------------------
(* Nobody is left behind. *)

(* At most one device has a PUT before its event, and the version it has made, if it has *)
(* made one, is the document's.                                                          *)
OneAtATime ==
  \A d, x \in Devices :
    device[d].pc \in {"put", "sending"} /\ device[x].pc \in {"put", "sending"} => d = x

SendsTheNewest == \A d \in Devices : device[d].pc = "sending" => device[d].answer.version = Version

(* Of one device, what NobodyIsLeftBehind says of all. *)
Informed(d) ==
  \/ device[d].pc \in {"off", "get", "conflict"}
  \/ Seen(d) = Version
  \/ \E k \in DOMAIN socket[d].events :
       socket[d].events[k].version = Version /\ socket[d].events[k].source # d
  \/ \E x \in Devices : device[x].pc = "sending" /\ Seen(x) = Version
  \/ Version \in unsent
  \/ unaware[d] /\ device[d].answer = NoAnswer

LInv == CInv /\ OneAtATime /\ SendsTheNewest /\ \A d \in Devices : Informed(d)

LEMMA InformedAreNotLeftBehind == NobodyIsLeftBehind <=> \A d \in Devices : Informed(d)
BY DEF NobodyIsLeftBehind, Informed, Version

(* A step of a device whose event is not due, and that leaves the document, the others'  *)
(* events and their ignorance alone: only the device itself can be left behind by it.    *)
LEMMA QuietStep ==
  ASSUME CInv, OneAtATime, SendsTheNewest, \A x \in Devices : Informed(x),
         NEW d \in Devices, device[d].pc # "sending", document' = document,
         \A x \in Devices : x # d => device'[x] = device[x],
         \/ device'[d].pc \notin {"put", "sending"}
         \/ /\ device'[d].pc = "put"
            /\ \A x \in Devices : device[x].pc \notin {"put", "sending"},
         \A x \in Devices : x # d =>
           socket'[x].events = socket[x].events /\ unaware'[x] = unaware[x],
         unsent \subseteq unsent', Informed(d)'
  PROVE  OneAtATime' /\ SendsTheNewest' /\ \A x \in Devices : Informed(x)'
<1>1. Version' = Version
  BY DEF Version, Current
<1>2. OneAtATime'
  BY DEF OneAtATime
<1>3. SendsTheNewest'
  BY <1>1 DEF SendsTheNewest
<1>4. ASSUME NEW x \in Devices, x # d PROVE Informed(x)'
  <2>1. device'[x] = device[x] /\ Seen(x)' = Seen(x)
    BY <1>4 DEF Seen
  <2>2. (\E y \in Devices : device[y].pc = "sending" /\ Seen(y) = Version) =>
          \E y \in Devices : device'[y].pc = "sending" /\ Seen(y)' = Version
    BY DEF Seen
  <2>. QED
    BY <1>1, <1>4, <2>1, <2>2 DEF Informed
<1>. QED
  BY <1>2, <1>3, <1>4

LEMMA GetSnapshotInforms ==
  ASSUME LInv, NEW d \in Devices, GetSnapshot(d)
  PROVE  LInv'
<1>1. /\ CInv /\ CInv' /\ ClientsTypeOK /\ device[d] \in Device /\ Started(d)
      /\ Version \in Nat /\ Absent \notin Nat /\ NoAnswer.version = Absent
      /\ Version = Current.version
      /\ device[d].synced # Absent => device[d].synced \in 0 .. Version
  BY GetSnapshotKeepsCInv, DeviceFacts, NoAnswerTypes DEF LInv, CInv
<1>2. /\ device[d].pc = "get"
      /\ device'[d] = [device[d] EXCEPT !.pc = "got",
                         !.answer = IF Unchanged(device[d].since) THEN NoAnswer
                                    ELSE Current]
      /\ \A x \in Devices : x # d => device'[x] = device[x]
      /\ UNCHANGED <<document, socket, unsent, unaware>>
  BY <1>1, DeviceSet DEF GetSnapshot, docVars
<1>3. /\ device'[d].pc = "got" /\ device'[d].synced = device[d].synced
      /\ device'[d].answer = IF Unchanged(device[d].since) THEN NoAnswer
                             ELSE Current
  BY <1>1, <1>2 DEF Device
<1>4. Seen(d)' = Version
  <2>1. CASE Unchanged(device[d].since)
    <3>1. device[d].since = device[d].synced /\ device[d].since # Absent
          /\ Version <= device[d].since
      BY <1>1, <1>2, <2>1 DEF Started, Unchanged
    <3>2. device[d].synced = Version
      BY <1>1, <3>1
    <3>. QED
      BY <1>3, <2>1, <3>2 DEF Seen
  <2>2. CASE ~Unchanged(device[d].since)
    BY <1>1, <1>3, <2>2 DEF Seen
  <2>. QED
    BY <2>1, <2>2
<1>5. Informed(d)'
  BY <1>2, <1>4 DEF Informed, Version, Current
<1>. QED
  BY <1>1, <1>2, <1>3, <1>5, QuietStep DEF LInv

LEMMA TakeSnapshotInforms ==
  ASSUME LInv, NEW d \in Devices, TakeSnapshot(d)
  PROVE  LInv'
<1>1. /\ CInv /\ CInv' /\ ClientsTypeOK /\ device[d] \in Device /\ Informed(d)
      /\ unaware \in [Devices -> BOOLEAN]
  BY TakeSnapshotKeepsCInv, DeviceFacts, ClientUnchanged DEF LInv, CInv
<1>2. /\ device[d].pc = "got" /\ UNCHANGED <<document, socket, unsent>>
      /\ \A x \in Devices : x # d => device'[x] = device[x] /\ unaware'[x] = unaware[x]
      /\ \/ /\ device[d].answer = NoAnswer /\ unaware'[d] = unaware[d]
            /\ device'[d] = [device[d] EXCEPT !.pc = "idle", !.answer = NoAnswer]
         \/ /\ device[d].answer # NoAnswer
            /\ device'[d] = [[device[d] EXCEPT !.pc = "idle", !.answer = NoAnswer]
                             EXCEPT !.synced = device[d].answer.version,
                                    !.data = device[d].answer.data]
  BY <1>1, DeviceSet DEF TakeSnapshot, docVars
<1>3. /\ device'[d].pc = "idle" /\ device'[d].answer = NoAnswer
      /\ \/ /\ device[d].answer = NoAnswer /\ unaware'[d] = unaware[d]
            /\ device'[d].synced = device[d].synced
         \/ /\ device[d].answer # NoAnswer
            /\ device'[d].synced = device[d].answer.version
  BY <1>1, <1>2 DEF Device
<1>4. Seen(d)' = Seen(d) /\ Version' = Version
  BY <1>2, <1>3 DEF Seen, Version, Current
<1>5. \A x \in Devices : device[x].pc = "sending" =>
        device'[x].pc = "sending" /\ Seen(x)' = Seen(x)
  BY <1>2 DEF Seen
<1>6. Informed(d)'
  BY <1>1, <1>2, <1>3, <1>4, <1>5 DEF Informed
<1>. QED
  BY <1>1, <1>2, <1>3, <1>6, QuietStep DEF LInv

LEMMA OpenInforms ==
  ASSUME LInv, NEW d \in Devices,
         Open(d) \/ Refused(d) \/ LoseConnection(d)
  PROVE  LInv'
<1>1. /\ CInv /\ CInv' /\ ClientsTypeOK /\ device[d] \in Device
      /\ socket \in [Devices -> Socket]
  BY OpenKeepsCInv, RefusedKeepsCInv, DisconnectKeepsCInv, DeviceFacts, ClientUnchanged
  DEF LInv, CInv
<1>2. /\ device[d].pc \in {"off", "get", "got", "idle", "conflict"}
      /\ UNCHANGED <<document, unsent, unaware>>
      /\ \A x \in Devices : x # d => device'[x] = device[x] /\ socket'[x] = socket[x]
  BY <1>1, DeviceSet
  DEF Open, Refused, LoseConnection, docVars
<1>3. device'[d].pc \in {"off", "get"}
  <2>1. CASE Open(d)
    BY <1>1, <2>1 DEF Open, Set, ClientsTypeOK, Device
  <2>2. CASE Refused(d)
    BY <1>1, <2>2 DEF Refused, Set, ClientsTypeOK, Device
  <2>3. CASE LoseConnection(d)
    BY <1>1, <2>3 DEF LoseConnection, Set, ClientsTypeOK, Device
  <2>. QED
    BY <2>1, <2>2, <2>3
<1>4. Informed(d)'
  BY <1>3 DEF Informed
<1>. QED
  BY <1>1, <1>2, <1>3, <1>4, QuietStep DEF LInv

LEMMA WriteInforms ==
  ASSUME LInv, NEW d \in Devices, Write(d)
  PROVE  LInv'
<1>1. CInv /\ CInv' /\ ClientsTypeOK /\ device[d] \in Device /\ Informed(d)
  BY WriteKeepsCInv, DeviceFacts DEF LInv, CInv
<1>2. PICK s : device'[d] = [device[d] EXCEPT !.pc = "put", !.put = s]
  BY <1>1, DeviceSet DEF Write
<1>3. /\ device[d].pc = "idle" /\ \A x \in Devices : device[x].pc \notin {"put", "sending"}
      /\ UNCHANGED <<document, socket, unsent, unaware>>
      /\ \A x \in Devices : x # d => device'[x] = device[x]
  BY <1>1, DeviceSet DEF Write
<1>4. /\ device'[d].pc = "put" /\ device'[d].synced = device[d].synced
      /\ device'[d].answer = device[d].answer
  BY <1>1, <1>2 DEF Device
<1>5. Seen(d)' = Seen(d) /\ Version' = Version
  BY <1>3, <1>4 DEF Seen, Version, Current
<1>6. Informed(d)'
  BY <1>1, <1>3, <1>4, <1>5 DEF Informed
<1>. QED
  BY <1>1, <1>3, <1>4, <1>6, QuietStep DEF LInv

LEMMA AcceptedInforms ==
  ASSUME LInv, NEW d \in Devices, Accepted(d)
  PROVE  LInv'
<1>1. /\ CInv /\ CInv' /\ ClientsTypeOK /\ device[d] \in Device /\ Informed(d)
      /\ Answered(d) /\ Started(d) /\ Absent \notin Nat
      /\ device[d].synced # Absent => device[d].synced \in 0 .. Version
      /\ NoAnswer.version = Absent
  BY AcceptedKeepsCInv, DeviceFacts, NoAnswerTypes DEF LInv, CInv
<1>2. PICK data : device'[d] = [device[d] EXCEPT !.pc = "idle", !.synced = device[d].answer.version,
                                  !.put = NoRequest, !.answer = NoAnswer, !.data = data]
  BY <1>1, DeviceSet DEF Accepted
<1>3. /\ device[d].pc = "accepted" /\ UNCHANGED <<document, socket, unsent, unaware>>
      /\ \A x \in Devices : x # d => device'[x] = device[x]
  BY <1>1, DeviceSet DEF Accepted, docVars
<1>4. /\ device'[d].pc = "idle" /\ device'[d].synced = device[d].answer.version
      /\ device'[d].answer = NoAnswer
  BY <1>1, <1>2 DEF Device
<1>5. device[d].answer # NoAnswer
  BY <1>1, <1>3 DEF Answered, Started
<1>6. Seen(d)' = Seen(d) /\ Version' = Version
  BY <1>3, <1>4, <1>5 DEF Seen, Version, Current
<1>7. \A x \in Devices : device[x].pc = "sending" =>
        device'[x].pc = "sending" /\ Seen(x)' = Seen(x)
  BY <1>3 DEF Seen
<1>8. Informed(d)'
  BY <1>1, <1>3, <1>4, <1>5, <1>6, <1>7 DEF Informed
<1>. QED
  BY <1>1, <1>3, <1>4, <1>8, QuietStep DEF LInv

(* The head of the events is looked at: it makes the device fetch the document, or it is *)
(* none of those that the device still needs.                                            *)
LEMMA ReceiveInforms ==
  ASSUME LInv, NEW d \in Devices, ReceiveUpdate(d)
  PROVE  LInv'
<1>. DEFINE e == Head(socket[d].events)
            own == e.source = d \/ (device[d].synced # Absent /\ e.version <= device[d].synced)
<1>1. /\ CInv /\ CInv' /\ ClientsTypeOK /\ device[d] \in Device /\ Informed(d)
      /\ Answered(d) /\ Started(d) /\ Version \in Nat
      /\ device[d].synced # Absent => device[d].synced \in 0 .. Version
      /\ device \in [Devices -> Device]
      /\ socket \in [Devices -> Socket]
  BY ReceiveKeepsCInv, DeviceFacts, ClientUnchanged DEF LInv, CInv, ClientsTypeOK
<1>2. /\ device[d].pc = "idle" /\ socket[d].events # <<>>
      /\ UNCHANGED <<document, unsent, unaware>>
      /\ socket'[d] = [socket[d] EXCEPT !.events = Tail(@)]
      /\ \A x \in Devices : x # d => socket'[x] = socket[x]
      /\ device' = IF own THEN device
                   ELSE [device EXCEPT ![d] = [device[d] EXCEPT !.pc = "get",
                                                 !.since = device[d].synced]]
  BY <1>1 DEF ReceiveUpdate, docVars
<1>3. Version' = Version
  BY <1>2 DEF Version, Current
<1>4. /\ \A x \in Devices : x # d => device'[x] = device[x]
      /\ device'[d].pc \in {"idle", "get"}
  BY <1>1, <1>2 DEF Device
<1>5. CASE ~own
  <2>1. device'[d].pc = "get"
    BY <1>1, <1>2, <1>5 DEF Device
  <2>2. Informed(d)'
    BY <2>1 DEF Informed
  <2>. QED
    BY <1>1, <1>2, <1>4, <2>2, QuietStep DEF LInv
<1>6. CASE own
  <2>1. device' = device /\ \A x : Seen(x)' = Seen(x)
    BY <1>2, <1>6 DEF Seen
  <2>2. Seen(d) = device[d].synced /\ device[d].synced \in 0 .. Version
    BY <1>1, <1>2 DEF Answered, Started, Seen
  <2>3. Informed(d)'
    <3>1. CASE \E k \in DOMAIN socket[d].events :
                 socket[d].events[k].version = Version /\ socket[d].events[k].source # d
      <4>1. PICK k \in DOMAIN socket[d].events :
              socket[d].events[k].version = Version /\ socket[d].events[k].source # d
        BY <3>1
      <4>2. /\ socket[d].events \in Seq(Event)
            /\ socket'[d].events = Tail(socket[d].events)
        BY <1>1, <1>2 DEF Socket
      <4>3. /\ e = socket[d].events[1] /\ Len(socket[d].events) \in Nat
            /\ DOMAIN socket[d].events = 1 .. Len(socket[d].events)
            /\ DOMAIN socket'[d].events = 1 .. Len(socket[d].events) - 1
            /\ \A j \in 1 .. Len(socket[d].events) - 1 :
                 socket'[d].events[j] = socket[d].events[j + 1]
        BY <1>2, <4>2, TailFacts
      <4>. HIDE DEF e
      <4>4. CASE k = 1
        <5>1. Version <= device[d].synced
          BY <1>6, <4>1, <4>3, <4>4
        <5>2. Seen(d)' = Version'
          BY <1>1, <1>3, <2>1, <2>2, <5>1
        <5>. QED
          BY <5>2 DEF Informed
      <4>5. CASE k # 1
        <5>1. k - 1 \in DOMAIN socket'[d].events /\ socket'[d].events[k - 1] = socket[d].events[k]
          BY <4>1, <4>3, <4>5
        <5>. QED
          BY <1>3, <4>1, <5>1 DEF Informed
      <4>. QED
        BY <4>4, <4>5
    <3>2. CASE ~\E k \in DOMAIN socket[d].events :
                 socket[d].events[k].version = Version /\ socket[d].events[k].source # d
      BY <1>1, <1>2, <1>3, <2>1, <3>2 DEF Informed
    <3>. QED
      BY <3>1, <3>2
  <2>. HIDE DEF own
  <2>. QED
    BY <1>1, <1>2, <1>4, <2>3, QuietStep DEF LInv
<1>. QED
  BY <1>5, <1>6

(* A handler that is dropped before its event leaves its version among the unsent, one   *)
(* that is dropped after it a device that does not know of its own write.                *)
LEMMA GiveUpInforms ==
  ASSUME LInv, NEW d \in Devices, GiveUp(d)
  PROVE  LInv'
<1>1. /\ CInv /\ CInv' /\ ClientsTypeOK /\ device[d] \in Device /\ Informed(d)
      /\ Answered(d) /\ device \in [Devices -> Device]
      /\ unaware \in [Devices -> BOOLEAN]
  BY GiveUpKeepsCInv, DeviceFacts, ClientUnchanged DEF LInv, CInv, ClientsTypeOK
<1>2. /\ device[d].pc \in {"put", "sending", "accepted"}
      /\ device' = [device EXCEPT ![d] = [device[d] EXCEPT !.pc = "idle", !.put = NoRequest,
                                            !.answer = NoAnswer]]
      /\ UNCHANGED <<document, socket>>
      /\ device[d].pc = "put" => unaware' = unaware
      /\ device[d].pc # "put" => unaware' = [unaware EXCEPT ![d] = TRUE]
      /\ unsent' = IF device[d].pc = "sending" THEN unsent \cup {device[d].answer.version}
                   ELSE unsent
  BY DEF GiveUp, docVars, Set, Document!Close
<1>3. /\ device'[d].pc = "idle" /\ device'[d].answer = NoAnswer
      /\ device'[d].synced = device[d].synced
      /\ \A x \in Devices : x # d => device'[x] = device[x]
  BY <1>1, <1>2 DEF Device
<1>4. Version' = Version
  BY <1>2 DEF Version, Current
<1>5. CASE device[d].pc = "sending"
  <2>1. Version' \in unsent'
    BY <1>2, <1>4, <1>5 DEF LInv, SendsTheNewest
  <2>2. \A x \in Devices : Informed(x)'
    BY <2>1 DEF Informed
  <2>3. OneAtATime' /\ SendsTheNewest'
    BY <1>3, <1>4 DEF LInv, OneAtATime, SendsTheNewest
  <2>. QED
    BY <1>1, <2>2, <2>3 DEF LInv
<1>6. CASE device[d].pc # "sending"
  <2>1. /\ unsent' = unsent
        /\ \A x \in Devices : x # d => unaware'[x] = unaware[x] /\ socket'[x] = socket[x]
    BY <1>1, <1>2, <1>6
  <2>2. Informed(d)'
    <3>1. CASE device[d].pc = "put"
      <4>1. Seen(d)' = Seen(d)
        BY <1>1, <1>3, <3>1 DEF Answered, Seen
      <4>2. \A x \in Devices : device[x].pc = "sending" =>
              device'[x].pc = "sending" /\ Seen(x)' = Seen(x)
        BY <1>3, <3>1 DEF Seen
      <4>. QED
        BY <1>1, <1>2, <1>3, <1>4, <2>1, <3>1, <4>1, <4>2 DEF Informed
    <3>2. CASE device[d].pc # "put"
      <4>1. unaware'[d]
        BY <1>1, <1>2, <3>2
      <4>. QED
        BY <1>3, <4>1 DEF Informed
    <3>. QED
      BY <3>1, <3>2
  <2>. QED
    BY <1>1, <1>2, <1>3, <1>6, <2>1, <2>2, QuietStep DEF LInv
<1>. QED
  BY <1>5, <1>6

(* A commit: its device is about to send the event that everybody else needs. *)
LEMMA PutNamespaceInforms ==
  ASSUME LInv, NEW d \in Devices, PutNamespace(d)
  PROVE  LInv'
<1>1. /\ CInv /\ CInv' /\ ClientsTypeOK /\ device[d] \in Device
      /\ device \in [Devices -> Device]
      /\ Version \in Nat /\ Absent \notin Nat /\ NoAnswer.version = Absent
  BY PutNamespaceKeepsCInv, DeviceFacts, NoAnswerTypes DEF LInv, CInv, ClientsTypeOK
<1>2. device[d].pc = "put" /\ UNCHANGED <<socket, unsent, unaware>>
  BY DEF PutNamespace
<1>3. CASE Document!Reject(device[d].put)
           /\ Set(d, [device[d] EXCEPT !.pc = "conflict"])
  <2>1. /\ document' = document /\ device'[d].pc = "conflict"
        /\ \A x \in Devices : x # d => device'[x] = device[x]
    BY <1>1, <1>3 DEF Document!Reject, Set, Device
  <2>2. Informed(d)'
    BY <2>1 DEF Informed
  <2>. QED
    BY <1>1, <1>2, <2>1, <2>2, QuietStep DEF LInv
<1>4. CASE Document!Apply(device[d].put)
           /\ Set(d, [device[d] EXCEPT !.pc = "sending", !.answer = document'[User]])
  <2>1. /\ device'[d].pc = "sending" /\ device'[d].answer = document'[User]
        /\ \A x \in Devices : x # d => device'[x] = device[x]
    <3>. DEFINE r == [device[d] EXCEPT !.pc = "sending", !.answer = document'[User]]
    <3>1. Set(d, r)
      BY <1>4
    <3>2. r.pc = "sending" /\ r.answer = document'[User]
      BY <1>1 DEF Device
    <3>. HIDE DEF r
    <3>. QED
      BY <1>1, <3>1, <3>2, DeviceSet
  <2>2. document'[User].version = Version + 1
    <3>1. Document!Apply(device[d].put)
      BY <1>4
    <3>2. document'[User] = [version |-> Version + 1,
            data |-> [x \in Domains |-> IF x \in request[device[d].put].domains THEN device[d].put
                                        ELSE device[d].data[x]]]
      BY <1>1, <1>2, <3>1, AppliedFacts
    <3>. QED
      BY <3>2
  <2>3. Version' = Version + 1 /\ Version' = device'[d].answer.version
    BY <2>1, <2>2 DEF Version, Current
  <2>4. Seen(d)' = Version'
    BY <1>1, <2>1, <2>3 DEF Seen
  <2>5. \A x \in Devices : Informed(x)'
    BY <2>1, <2>4 DEF Informed
  <2>6. OneAtATime'
    BY <1>2, <2>1 DEF LInv, OneAtATime
  <2>7. SendsTheNewest'
    BY <1>2, <2>1, <2>3 DEF LInv, OneAtATime, SendsTheNewest
  <2>. QED
    BY <1>1, <2>5, <2>6, <2>7 DEF LInv
<1>. QED
  BY <1>3, <1>4 DEF PutNamespace

(* The event: whoever has a socket gets it, whatever else the socket loses. *)
LEMMA SendUserEventInforms ==
  ASSUME LInv, NEW d \in Devices, AnnounceWrite(d)
  PROVE  LInv'
<1>. DEFINE e == [version |-> device[d].answer.version, source |-> d]
<1>1. /\ CInv /\ CInv' /\ ClientsTypeOK /\ device[d] \in Device /\ Answered(d)
      /\ device \in [Devices -> Device]
      /\ Version \in Nat /\ Absent \notin Nat /\ NoAnswer.version = Absent
  BY SendUserEventKeepsCInv, DeviceFacts, NoAnswerTypes DEF LInv, CInv, ClientsTypeOK
<1>2. /\ device[d].pc = "sending" /\ UNCHANGED <<document, unsent, unaware>>
      /\ device' = [device EXCEPT ![d] = [device[d] EXCEPT !.pc = "accepted"]]
  BY DEF AnnounceWrite, docVars, Set
<1>3. /\ device'[d].pc = "accepted" /\ device'[d].answer = device[d].answer
      /\ \A x \in Devices : x # d => device'[x] = device[x]
  BY <1>1, <1>2 DEF Device
<1>4. Version' = Version /\ e.version = Version /\ e.source = d
  BY <1>2 DEF LInv, SendsTheNewest, Version, Current
<1>5. e \in Event /\ \A x \in Devices :
        socket[x].open => socket'[x].events = Keep(socket[x].events, e)
  BY <1>1, SendFacts
<1>. HIDE DEF e
<1>6. ASSUME NEW x \in Devices PROVE Informed(x)'
  <2>1. CASE x = d
    <3>1. Seen(d)' = Version'
      BY <1>1, <1>2, <1>3, <1>4 DEF e, Seen
    <3>. QED
      BY <2>1, <3>1 DEF Informed
  <2>2. CASE x # d /\ device[x].pc = "off"
    BY <1>3, <2>2 DEF Informed
  <2>3. CASE x # d /\ device[x].pc # "off"
    <3>1. socket[x].open /\ socket[x].events \in Seq(Event)
      BY <1>1, <2>3, ClientTypes, DeviceFacts DEF Started, Socket
    <3>2. \E k \in DOMAIN Keep(socket[x].events, e) :
            Keep(socket[x].events, e)[k] = e
      BY <1>5, <3>1, KeepFacts
    <3>3. \E k \in DOMAIN socket'[x].events : socket'[x].events[k] = e
      BY <1>5, <3>1, <3>2
    <3>. QED
      BY <1>4, <2>3, <3>3 DEF Informed
  <2>. QED
    BY <2>1, <2>2, <2>3
<1>7. OneAtATime' /\ SendsTheNewest'
  BY <1>3, <1>4 DEF LInv, OneAtATime, SendsTheNewest
<1>. QED
  BY <1>1, <1>6, <1>7 DEF LInv

LEMMA ClientNextKeepsLInv ==
  ASSUME LInv, [ClientsNext]_clientVars
  PROVE  LInv'
<1>1. ASSUME NEW d \in Devices, Step(d) PROVE LInv'
  BY <1>1, GetSnapshotInforms, PutNamespaceInforms, SendUserEventInforms, OpenInforms,
     TakeSnapshotInforms, AcceptedInforms, ReceiveInforms
  DEF Step
<1>2. ASSUME NEW d \in Devices, Write(d) \/ GiveUp(d) \/ LoseConnection(d)
      PROVE  LInv'
  BY <1>2, WriteInforms, GiveUpInforms, OpenInforms
<1>3. CASE UNCHANGED clientVars
  <2>1. CInv' /\ Version' = Version /\ \A x : Seen(x)' = Seen(x)
    BY <1>3, ClientStutterKeepsCInv
    DEF LInv, Version, Current, Seen, clientVars, docVars
  <2>2. UNCHANGED <<device, socket, unsent, unaware>>
    BY <1>3 DEF clientVars, docVars
  <2>3. \A x \in Devices : Informed(x)'
    BY <2>1, <2>2 DEF LInv, Informed
  <2>. QED
    BY <2>1, <2>2, <2>3 DEF LInv, OneAtATime, SendsTheNewest
<1>. QED
  BY <1>1, <1>2, <1>3 DEF ClientsNext

(* A device that has seen an older version than the document's and is not about to fetch *)
(* it has an event that makes it do so, or one is due: handle_ws_connection may lose any *)
(* event but the newest.                                                                 *)
THEOREM NobodyIsLeft ==
  ClientsSpec => []NobodyIsLeftBehind
<1>1. ClientsInit => LInv
  <2>. SUFFICES ASSUME ClientsInit PROVE LInv
    OBVIOUS
  <2>1. CInv
    BY InitCInv
  <2>2. \A d \in Devices : device[d].pc = "off"
    BY DEF ClientsInit, NewDevice
  <2>. QED
    BY <2>1, <2>2 DEF LInv, OneAtATime, SendsTheNewest, Informed
<1>2. LInv /\ [ClientsNext]_clientVars => LInv'
  BY ClientNextKeepsLInv
<1>3. LInv => NobodyIsLeftBehind
  BY InformedAreNotLeftBehind DEF LInv
<1>. QED
  BY <1>1, <1>2, <1>3, PTL DEF ClientsSpec

=============================================================================
