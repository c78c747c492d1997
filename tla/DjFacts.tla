------------------------------- MODULE DjFacts -------------------------------
(***************************************************************************)
(* DJ facts: a client contributes a sentence about a track, the server has *)
(* the named source confirm it and stores it; clients look facts up and    *)
(* report which they told.                                                 *)
(*                                                                         *)
(* A fact stands for its fingerprint (source, page, song, artist, claim);  *)
(* all of Facts are about one track, so that every lookup may choose among *)
(* them.  A row's id is the call that inserted it.  Every statement is its *)
(* own transaction and every request to a source a step; a source may be   *)
(* edited at any time, so each request may be answered anything.           *)
(***************************************************************************)
EXTENDS Integers, FiniteSets

CONSTANTS
  Facts,
  Structured,     \* the facts of Wikidata: an entity and the labels of its performers
  Contributions,  \* calls of contribute
  Reports,        \* calls of played
  Users,
  Events,         \* event ids that clients make up
  None,
  MaxRetries      \* of a request that was answered 503

ASSUME FactsAssumption ==
  /\ Structured \subseteq Facts
  /\ MaxRetries \in Nat
  /\ None \notin Facts \cup Contributions \cup Users \cup Events

VARIABLES
  facts,          \* facts[f]: the id of the row of f, or None
  contributions,  \* contributions[c]: see Contribution
  plays,          \* plays[u][e]: the row of dj_fact_plays, or None
  reports         \* reports[r]: see Report

vars == <<facts, contributions, plays, reports>>

Parts(f) == IF f \in Structured THEN {"entity", "labels"} ELSE {"page"}
AllParts == {"entity", "labels", "page"}
FirstPart(f) == IF f \in Structured THEN "entity" ELSE "page"

(* "missing": the page names no performer at all, or there is none.        *)
Sayings == {"supports", "other", "missing"}

(* What a client may send: a good contribution; one with a field that is   *)
(* not bounded or an identity that is not canonical; one whose evidence    *)
(* is not its claim, or whose URL is not the source's.                     *)
Forms == {"good", "malformed", "unfit"}

(* read: what the source answered so far.  Ghost: refused, whether it      *)
(* answered without a document; what was not asked or not answered stays   *)
(* "unread".                                                               *)
Contribution ==
  [pc : {"idle", "fetch", "insert", "done", "dropped"}, fact : Facts \cup {None}, form : Forms,
   part : AllParts, retries : 0 .. MaxRetries, read : [AllParts -> Sayings \cup {"unread"}],
   refused : BOOLEAN,
   answer : {"none", "created", "bad_request", "internal"},
   id : Contributions \cup {None}]

(* age: whether played_at, which the client chose, is 30 days ago.         *)
Ages == {"recent", "old"}
Play == [fact : Facts, age : Ages]

ASSUME NoPlayAssumption == None \notin Play

(* Ghost: known, whether the fact was stored when the report arrived.      *)
Report ==
  [pc : {"idle", "insert", "read", "done", "dropped"}, user : Users \cup {None},
   event : Events \cup {None}, fact : Facts \cup {None},
   known : BOOLEAN, answer : {"none", "no_content", "not_found", "bad_request", "internal"}]

NothingRead == [p \in AllParts |-> "unread"]
NotContributed ==
  [pc |-> "idle", fact |-> None, form |-> "good", part |-> "page", retries |-> 0,
   read |-> NothingRead, refused |-> FALSE, answer |-> "none", id |-> None]
NotReported ==
  [pc |-> "idle", user |-> None, event |-> None, fact |-> None,
   known |-> FALSE, answer |-> "none"]

Init ==
  /\ facts = [f \in Facts |-> None]
  /\ contributions = [c \in Contributions |-> NotContributed]
  /\ plays = [u \in Users |-> [e \in Events |-> None]]
  /\ reports = [r \in Reports |-> NotReported]

-----------------------------------------------------------------------------
(* contribute *)

Set(c, r) == contributions' = [contributions EXCEPT ![c] = r]
Answered(c, r, a) == Set(c, [r EXCEPT !.pc = "done", !.answer = a])
Failed(c) == Answered(c, NotContributed, "internal")

Contribute(c) ==
  /\ contributions[c].pc = "idle"
  /\ \E f \in Facts, form \in Forms :
       LET r == [NotContributed EXCEPT !.fact = f, !.form = form, !.part = FirstPart(f)] IN
       IF form = "malformed" THEN Answered(c, [NotContributed EXCEPT !.form = form], "bad_request")
                             ELSE Set(c, [r EXCEPT !.pc = "fetch"])
  /\ UNCHANGED <<facts, plays, reports>>

(* A bug for the mutant runs: an outage is answered as a refusal. *)
OutageRejects(c) ==
  LET r == contributions[c] IN
  /\ r.pc = "fetch"
  /\ \/ /\ r.retries < MaxRetries
        /\ Set(c, [r EXCEPT !.retries = @ + 1])
     \/ Answered(c, r, "bad_request")
     \/ Answered(c, [r EXCEPT !.refused = TRUE], "bad_request")
  /\ UNCHANGED <<facts, plays, reports>>

(* fetch, one request: 503 is retried MaxRetries times; no answer in time, any other   *)
(* 5xx and 429 are an outage; a redirect, any other status and a body that is too      *)
(* large or no JSON refuse the contribution.                                           *)
FetchFails(c) ==
  LET r == contributions[c] IN
  /\ r.pc = "fetch"
  /\ \/ /\ r.retries < MaxRetries
        /\ Set(c, [r EXCEPT !.retries = @ + 1])
     \/ Failed(c)
     \/ Answered(c, [r EXCEPT !.refused = TRUE], "bad_request")
  /\ UNCHANGED <<facts, plays, reports>>

(* check_wikipedia, check_musicbrainz and check_wikidata, on what was read, and the     *)
(* comparison of the URLs.                                                             *)
Supported(r) ==
  /\ r.form # "unfit"
  /\ \A p \in Parts(r.fact) : r.read[p] = "supports"

(* fetch succeeds, and verify goes on: with the second request of a Wikidata fact if   *)
(* the entity names a performer, otherwise to the checks.                              *)
FetchSucceeds(c) ==
  LET r == contributions[c] IN
  /\ r.pc = "fetch"
  /\ \E saying \in Sayings :
       LET read == [r EXCEPT !.read[r.part] = saying] IN
       \/ /\ r.part = "entity" /\ saying # "missing"
          /\ Set(c, [read EXCEPT !.part = "labels", !.retries = 0])
       \/ /\ r.part = "entity" => saying = "missing"
          /\ IF Supported(read)
             THEN Set(c, [read EXCEPT !.pc = "insert"])
             ELSE Answered(c, read, "bad_request")
  /\ UNCHANGED <<facts, plays, reports>>

(* INSERT ... ON CONFLICT (fingerprint) ... RETURNING: the row that is there, or a new one. *)
Insert(c) ==
  LET r == contributions[c]
      id == IF facts[r.fact] = None THEN c ELSE facts[r.fact] IN
  /\ r.pc = "insert"
  /\ facts' = [facts EXCEPT ![r.fact] = id]
  /\ Set(c, [r EXCEPT !.pc = "done", !.answer = "created", !.id = id])
  /\ UNCHANGED <<plays, reports>>

(* The statement fails, or the client goes away and the handler is dropped; what the   *)
(* database was told it may still do (and an error that hides a commit tells the       *)
(* client no more than no answer).                                                     *)
DropContribution(c) ==
  LET r == contributions[c] IN
  /\ r.pc \in {"fetch", "insert"}
  /\ \/ r.pc = "insert" /\ Failed(c) /\ UNCHANGED facts
     \/ Set(c, [NotContributed EXCEPT !.pc = "dropped"]) /\ UNCHANGED facts
     \/ /\ r.pc = "insert"
        /\ Set(c, [r EXCEPT !.pc = "dropped"])
        /\ facts' = [facts EXCEPT ![r.fact] = IF @ = None THEN c ELSE @]
  /\ UNCHANGED <<plays, reports>>

-----------------------------------------------------------------------------
(* played *)

Report_(r, v) == reports' = [reports EXCEPT ![r] = v]

(* "bad_request": an id or event id of the wrong form, or a time in the future. *)
Played(r) ==
  /\ reports[r].pc = "idle"
  /\ \E u \in Users, e \in Events, f \in Facts :
       LET v == [NotReported EXCEPT !.user = u, !.event = e, !.fact = f,
                                    !.known = facts[f] # None] IN
       \/ Report_(r, [v EXCEPT !.pc = "insert"])
       \/ Report_(r, [NotReported EXCEPT !.pc = "done", !.answer = "bad_request"])
  /\ UNCHANGED <<facts, contributions, plays>>

(* INSERT ... SELECT ... WHERE id = $3 ON CONFLICT (user_id, event_id) DO NOTHING. *)
InsertPlay(r) ==
  LET v == reports[r] IN
  /\ v.pc = "insert"
  /\ IF facts[v.fact] # None /\ plays[v.user][v.event] = None
     THEN /\ \E age \in Ages : plays' = [plays EXCEPT ![v.user][v.event] = [fact |-> v.fact, age |-> age]]
          /\ Report_(r, [v EXCEPT !.pc = "done", !.answer = "no_content"])
     ELSE Report_(r, [v EXCEPT !.pc = "read"]) /\ UNCHANGED plays
  /\ UNCHANGED <<facts, contributions>>

(* A bug for the mutant runs: a report that changed no row is taken for a repetition. *)
TakeForRepeated(r) ==
  /\ reports[r].pc = "read"
  /\ Report_(r, [reports[r] EXCEPT !.pc = "done", !.answer = "no_content"])
  /\ UNCHANGED <<facts, contributions, plays>>

(* No row was inserted: which fact does the event name? *)
ReadPlay(r) ==
  LET v == reports[r]
      row == plays[v.user][v.event] IN
  /\ v.pc = "read"
  /\ Report_(r, [v EXCEPT !.pc = "done",
       !.answer = IF row # None /\ row.fact = v.fact THEN "no_content" ELSE "not_found"])
  /\ UNCHANGED <<facts, contributions, plays>>

(* A statement fails, or the client goes away; an INSERT may still be executed. *)
DropReport(r) ==
  LET v == reports[r] IN
  /\ v.pc \in {"insert", "read"}
  /\ \/ Report_(r, [v EXCEPT !.pc = "done", !.answer = "internal"]) /\ UNCHANGED plays
     \/ Report_(r, [NotReported EXCEPT !.pc = "dropped"]) /\ UNCHANGED plays
     \/ /\ v.pc = "insert" /\ facts[v.fact] # None /\ plays[v.user][v.event] = None
        /\ \E age \in Ages : plays' = [plays EXCEPT ![v.user][v.event] = [fact |-> v.fact, age |-> age]]
        /\ Report_(r, [NotReported EXCEPT !.pc = "dropped"])
  /\ UNCHANGED <<facts, contributions>>

(* Thirty days after played_at. *)
Age ==
  /\ \E u \in Users, e \in Events :
       /\ plays[u][e] # None /\ plays[u][e].age = "recent"
       /\ plays' = [plays EXCEPT ![u][e].age = "old"]
  /\ UNCHANGED <<facts, contributions, reports>>

-----------------------------------------------------------------------------
(* lookup *)

PlaysOf(u, f) == {e \in Events : plays[u][e] # None /\ plays[u][e].fact = f}
Stored == {f \in Facts : facts[f] # None}
Untold(u) == {f \in Stored : PlaysOf(u, f) = {}}

(* A bug for the mutant runs: the last play of anybody else hides a fact, one's own do not. *)
OthersRecovered(u) ==
  {f \in Stored : \A w \in Users \ {u} : \A e \in PlaysOf(w, f) : plays[w][e].age = "old"}

Recovered(u) == {f \in Stored : \A e \in PlaysOf(u, f) : plays[u][e].age = "old"}

(* Facts never told to the account come first, then those told more than 30 days ago;  *)
(* the order among equals is left open.                                                *)
Answers(u) ==
  IF Recovered(u) = {} THEN {None}
  ELSE IF Untold(u) # {} THEN Untold(u) ELSE Recovered(u)

-----------------------------------------------------------------------------
Verify(c) == FetchFails(c) \/ FetchSucceeds(c) \/ Insert(c)
Record(r) == InsertPlay(r) \/ ReadPlay(r)

Next ==
  \/ Age
  \/ \E c \in Contributions : Contribute(c) \/ Verify(c) \/ DropContribution(c)
  \/ \E r \in Reports : Played(r) \/ Record(r) \/ DropReport(r)

Spec == Init /\ [][Next]_vars

-----------------------------------------------------------------------------
TypeOK ==
  /\ facts \in [Facts -> Contributions \cup {None}]
  /\ contributions \in [Contributions -> Contribution]
  /\ plays \in [Users -> [Events -> Play \cup {None}]]
  /\ reports \in [Reports -> Report]

(* What contribute answers is true.  A fact in the table was confirmed by every part   *)
(* of its source, at the time that part was read, however the source was edited        *)
(* between two requests; whoever was answered 201 was given the one row of the fact;   *)
(* and a good contribution is rejected only if the source refused the document or sent *)
(* one that was read and does not confirm it, never because the source could not be    *)
(* reached, so that the client knows when to try again.                                *)
ContributionsAreConfirmed ==
  /\ \A f \in Facts : facts[f] # None =>
       LET r == contributions[facts[f]] IN
       r.fact = f /\ r.form = "good" /\ \A p \in Parts(f) : r.read[p] = "supports"
  /\ \A c \in Contributions :
       LET r == contributions[c] IN
       /\ r.answer = "created" => r.id # None /\ r.id = facts[r.fact]
       /\ r.answer = "bad_request" /\ r.form = "good" =>
            r.refused \/ \E p \in Parts(r.fact) : r.read[p] \in {"other", "missing"}

(* Two reports with one event id and different facts: the event is recorded for one of *)
(* them, and whoever was answered 204 reported that one; a report of a stored fact is  *)
(* answered 404 only if its event is recorded for another one.  Repeating a report is  *)
(* harmless.                                                                           *)
PlayedAnswersAgree ==
  \A r \in Reports :
    LET v == reports[r] IN
    /\ v.answer = "no_content" =>
         plays[v.user][v.event] # None /\ plays[v.user][v.event].fact = v.fact
    /\ v.answer = "not_found" /\ v.known =>
         plays[v.user][v.event] # None /\ plays[v.user][v.event].fact # v.fact

(* An account that has reported a fact as told, and was answered so, is not told it    *)
(* again before 30 days have passed, on whichever device; a fact it was told is only   *)
(* offered when there is none it was not.                                              *)
NotToldAgain ==
  \A u \in Users, r \in Reports :
    LET v == reports[r] IN
    v.answer = "no_content" /\ v.user = u /\ v.fact \in Answers(u) =>
      /\ plays[u][v.event].age = "old"
      /\ \A g \in Facts : facts[g] # None =>
           \E e \in Events : plays[u][e] # None /\ plays[u][e].fact = g
=============================================================================
