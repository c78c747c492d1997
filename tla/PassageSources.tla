---------------------------- MODULE PassageSources ----------------------------
(***************************************************************************)
(* What a worker does for one source of a claimed job: it decides what to  *)
(* ask the source for, fetches, stores the documents and reports an        *)
(* outcome.  (IngestJobs composes the outcomes of all sources; here the    *)
(* source is chosen at the start, and each behaves in its own way.)        *)
(*                                                                         *)
(* Every request to a source is a step and may be answered anything.  A    *)
(* document is its page, its subject and the credited artist it is keyed   *)
(* by; bodies are left out.  The credit has parts 1 .. parts: the full     *)
(* credit is part 1, the artists it names, if more than one, are the rest. *)
(***************************************************************************)
EXTENDS Integers, Sequences, FiniteSets

CONSTANTS
  Languages,      \* the number of Wikipedias, each fetched by a future of its own
  Pages,          \* pages, recordings, entities of one host
  MaxParts,       \* of a credit: artist_parts cuts it off at 16
  MaxTitles,      \* of one answer of Wikipedia's search: asked for are 5, but whatever
                  \* the answer has, up to the size of a body, is looked at
  MaxCandidates,  \* hits of a search that MusicBrainz and Wikidata look at: 5
  MaxWorks,       \* works of a recording that are looked at: 2
  Untouched, Kept \* of a row: this call did not write it; it did, and left its keys

ASSUME BoundsAssumption ==
  /\ Languages \in Nat \ {0}
  /\ MaxParts \in Nat \ {0}
  /\ MaxTitles \in Nat
  /\ MaxCandidates \in Nat
  /\ MaxWorks \in Nat
  /\ Untouched # Kept /\ {Untouched, Kept} \cap [subject : {"song", "album", "artist"}, artist : Nat] = {}

VARIABLES
  source,
  parts,    \* the number of parts of the credit
  album,    \* whether the job names an album
  scope,    \* the subjects to fetch
  unread,   \* the part whose freshness is read next; parts + 1: the album's; then the fetch
  lane,     \* lane[l]: the future of language l; other sources have one lane
  rows,     \* rows[l][p]: what this call made of the row of the page
  outcome

vars == <<source, parts, album, scope, unread, lane, rows, outcome>>

Names == {"wikipedia", "musicbrainz", "wikidata", "songfacts", "lastfm", "genius"}
Subjects == {"song", "album", "artist"}
Lanes == 1 .. Languages
LanesOf(s) == IF s = "wikipedia" THEN Lanes ELSE {1}
Key == [subject : Subjects, artist : 1 .. MaxParts]
Document == [page : Pages, key : Key]

(* stage: the request to be made next.  left: candidates (or works) that may still be   *)
(* asked for.  artist: of the candidate that was accepted.  Ghost: requests, failure.   *)
Stages == {"search", "entities", "page", "more", "artist", "done"}
Lane ==
  [stage : Stages, target : Nat, left : Nat, artist : 1 .. MaxParts,
   docs : Seq(Document), stored : Nat, requests : Nat,
   failure : {"none", "transient", "permanent"}]
NewLane ==
  [stage |-> "search", target |-> 1, left |-> 0, artist |-> 1,
   docs |-> <<>>, stored |-> 0, requests |-> 0, failure |-> "none"]

Init ==
  /\ source \in Names
  /\ parts \in 1 .. MaxParts
  /\ album \in BOOLEAN
  /\ scope = {"song"}
  /\ unread = 1
  /\ lane = [l \in Lanes |-> NewLane]
  /\ rows = [l \in Lanes |-> [p \in Pages |-> Untouched]]
  /\ outcome = "none"

-----------------------------------------------------------------------------
(* scope_for: artists are asked for unless every part of the credit has a fresh        *)
(* document, the album unless some part has one; a statement that fails counts as not   *)
(* fresh.  Other jobs write the table all the time: each read may find anything.        *)
ReadFreshness ==
  /\ unread <= parts + 1
  /\ unread' = unread + 1
  /\ \E fresh \in BOOLEAN :
       scope' = IF unread <= parts
                  THEN IF fresh THEN scope ELSE scope \cup {"artist"}
                  ELSE IF fresh \/ ~album THEN scope ELSE scope \cup {"album"}
  /\ UNCHANGED <<source, parts, album, lane, rows, outcome>>

-----------------------------------------------------------------------------
(* Requests *)

(* Wikipedia asks for the song, the album and the artists the credit names (the whole   *)
(* credit if it names one); Last.fm for the three subjects of part 1, 2, ...;           *)
(* MusicBrainz for the song of part 1, 2, ...                                           *)
Targets ==
  CASE source = "wikipedia" -> 1 .. (IF parts = 1 THEN 3 ELSE parts + 1)
    [] source = "musicbrainz" -> 1 .. parts
    [] source = "lastfm" -> 1 .. 3 * parts
    [] OTHER -> {1}

SubjectOf(t) ==
  CASE source = "wikipedia" -> (IF t = 1 THEN "song" ELSE IF t = 2 THEN "album" ELSE "artist")
    [] source = "lastfm" -> <<"song", "album", "artist">>[1 + ((t - 1) % 3)]
    [] OTHER -> "song"

PartOf(t) ==
  CASE source = "wikipedia" -> (IF parts = 1 THEN 1 ELSE t - 1)
    [] source = "musicbrainz" -> t
    [] source = "lastfm" -> 1 + ((t - 1) \div 3)
    [] OTHER -> 1

Fetching(l, stage) ==
  /\ outcome = "none" /\ unread > parts + 1
  /\ l \in LanesOf(source) /\ lane[l].stage = stage

Set(l, c) ==
  /\ lane' = [lane EXCEPT ![l] = c]
  /\ UNCHANGED <<source, parts, album, scope, unread, rows, outcome>>

Asked(l) == [lane[l] EXCEPT !.requests = @ + 1]
Done(c) == [c EXCEPT !.stage = "done"]
Found(c, p, s, a) ==
  [c EXCEPT !.docs = Append(@, [page |-> p, key |-> [subject |-> s, artist |-> a]])]

(* The next target in scope, if any.  Last.fm stops after a part that had a document.   *)
Later(c) ==
  {t \in Targets : /\ t > c.target /\ SubjectOf(t) \in scope
                   /\ source = "lastfm" /\ c.docs # <<>> => PartOf(t) = PartOf(c.target)}
Advance(c) ==
  IF Later(c) = {} THEN Done(c)
  ELSE [c EXCEPT !.stage = "search",
                 !.target = CHOOSE t \in Later(c) : \A u \in Later(c) : t <= u]

(* After a search, with n hits to look at; after a candidate that was not accepted.     *)
Hits(c, n) == IF n = 0 THEN Advance(c) ELSE [c EXCEPT !.stage = "page", !.left = n]

(* A bug for the mutant runs: the same candidate is asked for again. *)
RejectedAgain(c) == IF c.left = 0 THEN Advance(c) ELSE c

Rejected(c) == IF c.left = 1 THEN Advance(c) ELSE [c EXCEPT !.left = @ - 1]

(* A bug for the mutant runs: a language that fails is left out. *)
RequestIsSkipped(l) ==
  \E stage \in Stages \ {"done"}, failure \in {"transient", "permanent"} :
    Fetching(l, stage) /\ Set(l, Done([Asked(l) EXCEPT !.failure = failure]))

(* No answer in time, 429 or 5xx is transient, and so is a panic; any other status, a   *)
(* body too large or no JSON is permanent.  It ends the fetch of every lane.            *)
RequestFails(l) ==
  \E stage \in Stages \ {"done"}, failure \in {"transient", "permanent"} :
    /\ Fetching(l, stage)
    /\ lane' = [lane EXCEPT ![l] = [Asked(l) EXCEPT !.failure = failure]]
    /\ outcome' = IF failure = "transient" THEN "error" ELSE "no_match"
    /\ UNCHANGED <<source, parts, album, scope, unread, rows>>

(* Wikipedia: the pages of all titles that match are fetched until one still matches    *)
(* and, for a song or an album, names a part of the credit.                             *)
WikipediaSearch(l) ==
  /\ source = "wikipedia" /\ Fetching(l, "search")
  /\ \E n \in 0 .. MaxTitles : Set(l, Hits(Asked(l), n))

WikipediaPage(l) ==
  LET c == Asked(l)
      s == SubjectOf(c.target) IN
  /\ source = "wikipedia" /\ Fetching(l, "page")
  /\ \/ Set(l, Rejected(c))
     \/ \E p \in Pages, a \in IF s = "artist" THEN {PartOf(c.target)} ELSE 1 .. parts :
          Set(l, Advance(Found(c, p, s, a)))

(* MusicBrainz: the first candidate that credits the part is the only document, once    *)
(* its works are read.                                                                  *)
MusicBrainzSearch(l) ==
  /\ source = "musicbrainz" /\ Fetching(l, "search")
  /\ \E n \in 0 .. MaxCandidates : Set(l, Hits(Asked(l), n))

Recording(c) == {Done(Found(c, p, "song", PartOf(c.target))) : p \in Pages}

MusicBrainzRecording(l) ==
  LET c == Asked(l) IN
  /\ source = "musicbrainz" /\ Fetching(l, "page")
  /\ \/ Set(l, Rejected(c))
     \/ \E d \in Recording(c) : Set(l, d)
     \/ \E works \in 1 .. MaxWorks : Set(l, [c EXCEPT !.stage = "more", !.left = works])

MusicBrainzWork(l) ==
  LET c == Asked(l) IN
  /\ source = "musicbrainz" /\ Fetching(l, "more")
  /\ IF c.left > 1 THEN Set(l, [c EXCEPT !.left = @ - 1])
                   ELSE \E d \in Recording(c) : Set(l, d)

(* Wikidata: the hits are fetched at once; of each that has performers their labels,    *)
(* until one is a part of the credit.                                                   *)
WikidataSearch(l) ==
  /\ source = "wikidata" /\ Fetching(l, "search")
  /\ \E n \in 0 .. MaxCandidates :
       Set(l, IF n = 0 THEN Done(Asked(l)) ELSE [Asked(l) EXCEPT !.stage = "entities", !.left = n])

WikidataEntities(l) ==
  /\ source = "wikidata" /\ Fetching(l, "entities")
  /\ \E performed \in 0 .. lane[l].left : Set(l, Hits(Asked(l), performed))

WikidataLabels(l) ==
  LET c == Asked(l) IN
  /\ source = "wikidata" /\ Fetching(l, "page")
  /\ \/ Set(l, Rejected(c))
     \/ \E p \in Pages, a \in 1 .. parts : Set(l, Done(Found(c, p, "song", a)))

(* Songfacts: one page at most, which may list no facts. *)
SongfactsSearch(l) ==
  /\ source = "songfacts" /\ Fetching(l, "search")
  /\ \/ Set(l, Done(Asked(l)))
     \/ \E a \in 1 .. parts : Set(l, [Asked(l) EXCEPT !.stage = "page", !.artist = a])

SongfactsPage(l) ==
  LET c == Asked(l) IN
  /\ source = "songfacts" /\ Fetching(l, "page")
  /\ \/ Set(l, Done(c))
     \/ \E p \in Pages : Set(l, Done(Found(c, p, "song", c.artist)))

(* Last.fm: one call per target; another item, or one without a text, is none.          *)
LastFmCall(l) ==
  LET c == Asked(l) IN
  /\ source = "lastfm" /\ Fetching(l, "search")
  /\ \/ Set(l, Advance(c))
     \/ \E p \in Pages :
          Set(l, Advance(Found(c, p, SubjectOf(c.target), PartOf(c.target))))

(* Genius: the first hit by a part of the credit; the song and its referents; the       *)
(* artist, if in scope.                                                                 *)
GeniusSearch(l) ==
  /\ source = "genius" /\ Fetching(l, "search")
  /\ \/ Set(l, Done(Asked(l)))
     \/ \E a \in 1 .. parts : Set(l, [Asked(l) EXCEPT !.stage = "page", !.artist = a])

GeniusSong(l) ==
  source = "genius" /\ Fetching(l, "page") /\ Set(l, [Asked(l) EXCEPT !.stage = "more"])

GeniusReferents(l) ==
  LET c == [Asked(l) EXCEPT !.stage = IF "artist" \in scope THEN "artist" ELSE "done"] IN
  /\ source = "genius" /\ Fetching(l, "more")
  /\ \/ Set(l, c)
     \/ \E p \in Pages : Set(l, Found(c, p, "song", c.artist))

GeniusArtist(l) ==
  LET c == Asked(l) IN
  /\ source = "genius" /\ Fetching(l, "artist")
  /\ \/ Set(l, Done(c))
     \/ \E p \in Pages : Set(l, Done(Found(c, p, "artist", c.artist)))

Request(l) ==
  \/ WikipediaSearch(l) \/ WikipediaPage(l)
  \/ MusicBrainzSearch(l) \/ MusicBrainzRecording(l) \/ MusicBrainzWork(l)
  \/ WikidataSearch(l) \/ WikidataEntities(l) \/ WikidataLabels(l)
  \/ SongfactsSearch(l) \/ SongfactsPage(l)
  \/ LastFmCall(l)
  \/ GeniusSearch(l) \/ GeniusSong(l) \/ GeniusReferents(l) \/ GeniusArtist(l)
  \/ RequestFails(l)

-----------------------------------------------------------------------------
(* store_results: the documents of the lanes, in the order of the languages.            *)

AllDone == \A l \in LanesOf(source) : lane[l].stage = "done"
Unstored == {l \in LanesOf(source) : lane[l].stored < Len(lane[l].docs)}

(* A bug for the mutant runs: no documents are taken for all of them stored, and the    *)
(* source is left without an outcome.                                                   *)
NothingIsPassedOver ==
  /\ outcome = "none" /\ unread > parts + 1 /\ AllDone
  /\ \A l \in LanesOf(source) : lane[l].docs = <<>>
  /\ UNCHANGED vars

NothingFound ==
  /\ outcome = "none" /\ unread > parts + 1 /\ AllDone
  /\ \A l \in LanesOf(source) : lane[l].docs = <<>>
  /\ outcome' = "no_match"
  /\ UNCHANGED <<source, parts, album, scope, unread, lane, rows>>

(* upsert_document: a row with the same body keeps its keys (which another track may    *)
(* have given it) and only becomes fresh; any other row is keyed anew.                  *)
Upserted(l, d) ==
  \E row \in {d.key, IF rows[l][d.page] = Untouched THEN Kept ELSE rows[l][d.page]} :
    rows' = [rows EXCEPT ![l][d.page] = row]

StoreDocument ==
  /\ outcome = "none" /\ unread > parts + 1 /\ AllDone
  /\ \E l \in Unstored :
       /\ \A k \in Unstored : l <= k
       /\ Upserted(l, lane[l].docs[lane[l].stored + 1])
       /\ lane' = [lane EXCEPT ![l].stored = @ + 1]
       /\ outcome' = IF Unstored = {l} /\ lane[l].stored + 1 = Len(lane[l].docs)
                       THEN "found" ELSE "none"
  /\ UNCHANGED <<source, parts, album, scope, unread>>

(* A bug for the mutant runs: a document that cannot be stored is passed over. *)
StoreGoesOn ==
  /\ outcome = "none" /\ unread > parts + 1 /\ AllDone
  /\ \E l \in Unstored :
       /\ \A k \in Unstored : l <= k
       /\ lane' = [lane EXCEPT ![l].stored = @ + 1]
       /\ outcome' = IF Unstored = {l} /\ lane[l].stored + 1 = Len(lane[l].docs)
                       THEN "found" ELSE "none"
  /\ UNCHANGED <<source, parts, album, scope, unread, rows>>

(* The rest is not stored.  (An error that hides a commit is one after which the row    *)
(* may be there.)                                                                       *)
StoreFails ==
  /\ outcome = "none" /\ unread > parts + 1 /\ AllDone
  /\ \E l \in Unstored :
       /\ \A k \in Unstored : l <= k
       /\ Upserted(l, lane[l].docs[lane[l].stored + 1]) \/ UNCHANGED rows
  /\ outcome' = "error"
  /\ UNCHANGED <<source, parts, album, scope, unread, lane>>

Next ==
  \/ ReadFreshness
  \/ \E l \in Lanes : Request(l)
  \/ NothingFound \/ StoreDocument \/ StoreFails

Spec == Init /\ [][Next]_vars

(* Whatever the worker awaits ends: a request within 8 seconds of its turn (and turns   *)
(* are given in order, one every interval of the RateLimiter); a statement of the       *)
(* database, and so the row locks it waits for, by an answer or an error; and the       *)
(* embedding of a document, which is computed on a thread of its own.                   *)
FairSpec ==
  /\ Spec
  /\ WF_vars(ReadFreshness \/ NothingFound \/ StoreDocument)
  /\ \A l \in Lanes : WF_vars(Request(l))

-----------------------------------------------------------------------------
TypeOK ==
  /\ source \in Names
  /\ parts \in 1 .. MaxParts
  /\ album \in BOOLEAN
  /\ scope \in SUBSET Subjects
  /\ unread \in 1 .. MaxParts + 2
  /\ lane \in [Lanes -> Lane]
  /\ rows \in [Lanes -> [Pages -> {Untouched, Kept} \cup Key]]
  /\ outcome \in {"none", "found", "no_match", "error"}

(* A source that could not be reached is asked again, one that has nothing is left      *)
(* alone for 30 days: whatever the languages answer and in which order, an outage that  *)
(* ended the fetch is an error, and no_match means that the source refused a request    *)
(* or that every request was answered and no document found.                            *)
OutcomeEarned ==
  LET failed(f) == \E l \in Lanes : lane[l].failure = f IN
  /\ outcome = "error" \/ ~failed("transient")
  /\ outcome = "no_match" =>
       failed("permanent") \/ (AllDone /\ \A l \in Lanes : lane[l].docs = <<>>)
  /\ outcome = "found" => AllDone /\ \E l \in Lanes : lane[l].docs # <<>>

(* A fetch that failed stores nothing; found means that every document found is in the  *)
(* table, keyed as this track's own lookups look for it (its subject was asked for, its *)
(* artist is a part of the credit) or else as the row with the same body was before.    *)
StoredAsFound ==
  /\ (\E l \in Lanes, p \in Pages : rows[l][p] # Untouched) => AllDone
  /\ \A l \in Lanes, p \in Pages :
       LET keys == {lane[l].docs[i].key : i \in {j \in DOMAIN lane[l].docs : lane[l].docs[j].page = p}} IN
       /\ outcome = "found" /\ keys # {} => rows[l][p] # Untouched
       /\ rows[l][p] \in {Untouched, Kept} \cup keys
       /\ \A k \in keys : k.subject \in scope /\ k.artist <= parts

(* "Far longer than one job takes": the most requests one future makes, each of at most *)
(* 8 seconds and the spacing of the source.  Wikipedia's is the server's to keep: the   *)
(* code limits what the search is asked for, not what it takes of the answer.           *)
MaxRequests ==
  CASE source = "wikipedia" -> (IF parts = 1 THEN 3 ELSE parts + 1) * (1 + MaxTitles)
    [] source = "musicbrainz" -> parts * (1 + MaxCandidates) + MaxWorks
    [] source = "wikidata" -> 2 + MaxCandidates
    [] source = "songfacts" -> 2
    [] source = "lastfm" -> 3 * parts
    [] source = "genius" -> 4

RequestsBounded == \A l \in Lanes : lane[l].requests <= MaxRequests

(* The worker is never stuck with a source. *)
FetchEnds == <>(outcome # "none")
=============================================================================
