----------------------------- MODULE SyncClients -----------------------------
(***************************************************************************)
(* A user's devices, the document they share and the events that tell them *)
(* of each other's writes: the composition of the document (SyncDocument,  *)
(* which SyncStore implements when a user's writes do not overlap) with    *)
(* the live updates (UserChannels, of which only what a connection can     *)
(* lose is kept: its oldest events).                                       *)
(*                                                                         *)
(* The devices are not part of the repository: one has at most one request *)
(* under way, sends the version it last synced with, and looks at an event *)
(* when it has nothing else to do.  The handlers' answers and the messages *)
(* on the sockets are those of the server.  The names of the specification *)
(* are its own, so that one module can extend it and UserChannels.         *)
(***************************************************************************)
EXTENDS Integers, Sequences, FiniteSets

CONSTANTS
  Devices,
  Domains,
  User,
  Requests,     \* PUTs; each device takes the next unused one
  NoRequest,
  Absent,       \* no version
  Backlog,      \* USER_CHANNEL_CAPACITY
  MaxDrops      \* bound: connections that break

ASSUME BacklogAssumption == Backlog \in Nat \ {0}

VARIABLES
  document, request, outcome,  \* of SyncDocument
  device,    \* device[d]: see Device
  socket,    \* socket[d]: the events on the way to d's WebSocket, or closed
  drops,     \* connections that broke so far
  unsent,    \* ghost: versions whose event was never sent
  unaware    \* ghost, unaware[d]: d wrote a version and never learned of it

docVars == <<document, request, outcome>>
clientVars == <<docVars, device, socket, drops, unsent, unaware>>

Versions == 0 .. Cardinality(Requests)
Document == INSTANCE SyncDocument WITH Users <- {User}

ASSUME ConstantsAssumption ==
  /\ NoRequest \notin Requests \cup Document!Request /\ Absent \notin Int
  /\ MaxDrops \in Nat /\ IsFiniteSet(Requests)

Data == [Domains -> Requests \cup {NoRequest}]
Event == [version : Versions, source : Devices]

(* since: what the GET names as since_version.  put: the PUT under way.  answer: what   *)
(* the server has answered it.                                                          *)
Device ==
  [pc : {"off", "get", "got", "idle", "put", "sending", "accepted", "conflict"},
   synced : Versions \cup {Absent}, data : Data, since : Versions \cup {Absent},
   put : Requests \cup {NoRequest},
   answer : [version : Versions \cup {Absent}, data : Data]]
Socket == [open : BOOLEAN, events : Seq(Event)]

NoData == [d \in Domains |-> NoRequest]
NoAnswer == [version |-> Absent, data |-> NoData]
NewDevice ==
  [pc |-> "off", synced |-> Absent, data |-> NoData, since |-> Absent,
   put |-> NoRequest, answer |-> NoAnswer]
Closed == [open |-> FALSE, events |-> <<>>]

ClientsInit ==
  /\ Document!Init
  /\ device = [d \in Devices |-> NewDevice]
  /\ socket = [d \in Devices |-> Closed]
  /\ drops = 0
  /\ unsent = {}
  /\ unaware = [d \in Devices |-> FALSE]

Current == document[User]
Set(d, r) == device' = [device EXCEPT ![d] = r]

-----------------------------------------------------------------------------
(* The server. *)

(* A bug for the mutant runs: 304 for a document that is one version newer. *)
UnchangedOffByOne(since) == since # Absent /\ Current.version <= since + 1

Unchanged(since) == since # Absent /\ Current.version <= since

(* get_snapshot. *)
GetSnapshot(d) ==
  LET r == device[d] IN
  /\ r.pc = "get"
  /\ Set(d, [r EXCEPT !.pc = "got", !.answer = IF Unchanged(r.since) THEN NoAnswer ELSE Current])
  /\ UNCHANGED <<docVars, socket, drops, unsent, unaware>>

(* A bug for the mutant runs: the expected version is not compared. *)
PutUnchecked(d) ==
  LET r == device[d].put IN
  /\ device[d].pc = "put"
  /\ document' = [document EXCEPT ![User] =
       [version |-> @.version + 1,
        data |-> [x \in Domains |-> IF x \in request[r].domains THEN r ELSE @.data[x]]]]
  /\ outcome' = [outcome EXCEPT ![r] = "applied"]
  /\ Set(d, [device[d] EXCEPT !.pc = "sending", !.answer = document'[User]])
  /\ UNCHANGED <<request, socket, drops, unsent, unaware>>

(* put_namespace up to the commit of its transaction, or its 409. *)
PutNamespace(d) ==
  LET r == device[d] IN
  /\ r.pc = "put"
  /\ \/ Document!Apply(r.put) /\ Set(d, [r EXCEPT !.pc = "sending", !.answer = document'[User]])
     \/ Document!Reject(r.put) /\ Set(d, [r EXCEPT !.pc = "conflict"])
  /\ UNCHANGED <<socket, drops, unsent, unaware>>

(* A bug for the mutant runs: a full channel takes no more events. *)
KeepOldest(events, e) == IF Len(events) = Backlog THEN events ELSE Append(events, e)

(* What a receiver that is behind still gets: the last Backlog events. *)
Keep(events, e) ==
  LET all == Append(events, e) IN
  SubSeq(all, IF Len(all) > Backlog THEN Len(all) - Backlog + 1 ELSE 1, Len(all))

(* send_user_event, then the 200. *)
AnnounceWrite(d) ==
  LET r == device[d]
      e == [version |-> r.answer.version, source |-> d] IN
  /\ r.pc = "sending"
  /\ socket' = [x \in Devices |->
       IF socket[x].open THEN [socket[x] EXCEPT !.events = Keep(@, e)] ELSE socket[x]]
  /\ Set(d, [r EXCEPT !.pc = "accepted"])
  /\ UNCHANGED <<docVars, drops, unsent, unaware>>

-----------------------------------------------------------------------------
(* The devices. *)

(* Start: the WebSocket first, then the snapshot. *)
Open(d) ==
  /\ device[d].pc = "off"
  /\ socket' = [socket EXCEPT ![d] = [open |-> TRUE, events |-> <<>>]]
  /\ Set(d, [device[d] EXCEPT !.pc = "get", !.since = Absent])
  /\ UNCHANGED <<docVars, drops, unsent, unaware>>

TakeSnapshot(d) ==
  LET r == device[d]
      idle == [r EXCEPT !.pc = "idle", !.answer = NoAnswer] IN
  /\ r.pc = "got"
  /\ IF r.answer = NoAnswer THEN Set(d, idle) /\ UNCHANGED unaware
     ELSE /\ Set(d, [idle EXCEPT !.synced = r.answer.version, !.data = r.answer.data])
          /\ unaware' = [unaware EXCEPT ![d] = FALSE]
  /\ UNCHANGED <<docVars, socket, drops, unsent>>

(* The user changes something: expected_version is the version last synced with.  The   *)
(* PUTs of a user do not overlap: the server does not see to it, but when they do, two  *)
(* commits may carry one version, and it does not implement the document (SyncStore).   *)
Write(d) ==
  /\ device[d].pc = "idle" /\ device[d].synced # Absent
  /\ \A x \in Devices : device[x].pc \notin {"put", "sending"}
  /\ \E r \in Requests, x \in Domains :
       /\ request[r] = NoRequest
       /\ request' = [request EXCEPT ![r] =
            [user |-> User, op |-> "put_namespace", domains |-> {x}, version |-> device[d].synced]]
       /\ Set(d, [device[d] EXCEPT !.pc = "put", !.put = r])
  /\ UNCHANGED <<document, outcome, socket, drops, unsent, unaware>>

(* 200: the domain is updated, and the version. *)
Accepted(d) ==
  LET r == device[d] IN
  /\ r.pc = "accepted"
  /\ Set(d, [r EXCEPT !.pc = "idle", !.synced = r.answer.version, !.put = NoRequest, !.answer = NoAnswer,
       !.data = [x \in Domains |-> IF x \in request[r.put].domains THEN r.put ELSE @[x]]])
  /\ UNCHANGED <<docVars, socket, drops, unsent, unaware>>

(* 409: the snapshot is fetched, and the write is left to a later Write. *)
Refused(d) ==
  /\ device[d].pc = "conflict"
  /\ Set(d, [device[d] EXCEPT !.pc = "get", !.put = NoRequest, !.since = Absent])
  /\ UNCHANGED <<docVars, socket, drops, unsent, unaware>>

(* The PUT is given up: its handler is dropped, before its commit, before its event, or *)
(* with the answer on the way.  The device does not know which.                         *)
GiveUp(d) ==
  LET r == device[d] IN
  /\ r.pc \in {"put", "sending", "accepted"}
  /\ Set(d, [r EXCEPT !.pc = "idle", !.put = NoRequest, !.answer = NoAnswer])
  /\ IF r.pc = "put" THEN Document!Close(r.put) /\ UNCHANGED unaware
     ELSE unaware' = [unaware EXCEPT ![d] = TRUE] /\ UNCHANGED docVars
  /\ unsent' = IF r.pc = "sending" THEN unsent \cup {r.answer.version} ELSE unsent
  /\ UNCHANGED <<socket, drops>>

(* An event is ignored if it is the device's own or at most as new as what it has. *)
ReceiveUpdate(d) ==
  LET r == device[d]
      e == Head(socket[d].events) IN
  /\ r.pc = "idle" /\ socket[d].events # <<>>
  /\ socket' = [socket EXCEPT ![d].events = Tail(@)]
  /\ device' = IF e.source = d \/ (r.synced # Absent /\ e.version <= r.synced) THEN device
               ELSE [device EXCEPT ![d] = [r EXCEPT !.pc = "get", !.since = r.synced]]
  /\ UNCHANGED <<docVars, drops, unsent, unaware>>

(* The connection breaks, with what was on the way; the device starts anew. *)
LoseConnection(d) ==
  /\ device[d].pc \in {"get", "got", "idle"} /\ drops < MaxDrops
  /\ drops' = drops + 1
  /\ socket' = [socket EXCEPT ![d] = Closed]
  /\ Set(d, [device[d] EXCEPT !.pc = "off", !.answer = NoAnswer])
  /\ UNCHANGED <<docVars, unsent, unaware>>

-----------------------------------------------------------------------------
Step(d) ==
  \/ GetSnapshot(d) \/ PutNamespace(d) \/ AnnounceWrite(d)
  \/ Open(d) \/ TakeSnapshot(d) \/ Accepted(d) \/ Refused(d) \/ ReceiveUpdate(d)

ClientsNext == \E d \in Devices : Step(d) \/ Write(d) \/ GiveUp(d) \/ LoseConnection(d)

(* Requests are answered (or given up) and devices go on with what they have begun;     *)
(* nobody has to write, and connections break only so often.                            *)
ClientsSpec == ClientsInit /\ [][ClientsNext]_clientVars
FairClientsSpec == ClientsSpec /\ \A d \in Devices : WF_clientVars(Step(d))

-----------------------------------------------------------------------------
ClientsTypeOK ==
  /\ request \in [Requests -> Document!Request \cup {NoRequest}]
  /\ document \in [{User} -> [version : Versions, data : Data]]
  /\ outcome \in [Requests -> {"open", "applied", "rejected", "closed"}]
  /\ device \in [Devices -> Device]
  /\ socket \in [Devices -> Socket]
  /\ drops \in 0 .. MaxDrops
  /\ unsent \in SUBSET Versions
  /\ unaware \in [Devices -> BOOLEAN]

(* "Avoid overwriting newer remote changes": whatever a PUT replaces, its device had    *)
(* seen: the document it is applied to is the one the device holds, in every domain.    *)
NothingUnseenIsReplaced ==
  [][\A d \in Devices :
       (device[d].pc = "put" /\ document' # document /\ device'[d].pc = "sending") =>
         device[d].data = Current.data]_clientVars

(* "Keep app state consistent across clients": two devices at the same version have the *)
(* same content, and that of the document if it is its version, however snapshots,      *)
(* answers and late or lost events were interleaved.                                    *)
SameVersionSameContent ==
  \A d \in Devices :
    /\ device[d].synced = Current.version => device[d].data = Current.data
    /\ \A x \in Devices :
         device[d].synced # Absent /\ device[d].synced = device[x].synced =>
           device[d].data = device[x].data

(* The version d holds, or holds as soon as it looks at the answer it was given. *)
Seen(d) == IF device[d].answer = NoAnswer THEN device[d].synced ELSE device[d].answer.version

(* The safety that "near-real-time updates" rest on: a device that has seen an older     *)
(* version than the document's and is not about to fetch it has the event that makes it  *)
(* do so, or its writer is about to send it, however the device lagged, reconnected or   *)
(* wrote itself.  Left behind are all, when the event of that version was never sent,    *)
(* and a device that never learned that its own write was applied.                       *)
NobodyIsLeftBehind ==
  \A d \in Devices :
    \/ device[d].pc \in {"off", "get", "conflict"}
    \/ Seen(d) = Current.version
    \/ \E k \in DOMAIN socket[d].events : LET e == socket[d].events[k] IN
         e.version = Current.version /\ e.source # d
    \/ \E x \in Devices : device[x].pc = "sending" /\ Seen(x) = Current.version
    \/ Current.version \in unsent
    \/ unaware[d] /\ device[d].answer = NoAnswer

(* "Enable near-real-time updates": when nobody writes any more, every device ends up   *)
(* with the document, though it lagged, missed events or reconnected: the last event    *)
(* is the one that is not lost, and the snapshot it makes the device fetch holds        *)
(* everything.  Two kinds of devices are left behind: all, when the handler of the last *)
(* write was dropped before its event; and one that never learned that its own write    *)
(* was applied, for it ignores the event that says so.                                  *)
DevicesConverge ==
  \A d \in Devices :
    <>[](unaware[d] \/ Current.version \in unsent \/ device[d].synced = Current.version)
=============================================================================
