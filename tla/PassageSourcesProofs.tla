------------------------ MODULE PassageSourcesProofs ------------------------
(* What PassageSources says of outcomes, documents and requests holds for any number of *)
(* languages, parts of a credit, titles, candidates and works: TLC sees two or three of *)
(* each, the code has up to 16 parts and 5 candidates.                                  *)
EXTENDS PassageSources, WellFoundedInduction, TLAPS

(* The most requests that are made for one target, apart from the works of MusicBrainz. *)
Each ==
  CASE source = "wikipedia" -> 1 + MaxTitles
    [] source = "musicbrainz" -> 1 + MaxCandidates
    [] source = "wikidata" -> 2 + MaxCandidates
    [] source = "songfacts" -> 2
    [] source = "genius" -> 4
    [] OTHER -> 1

Through(t) == t * Each
Works(c) == IF source = "musicbrainz" /\ c.stage = "more" THEN MaxWorks ELSE 0

(* The most requests lane c may still make for its target. *)
Ahead(c) ==
  CASE c.stage = "search" -> Each
    [] c.stage = "entities" -> 1 + c.left
    [] c.stage = "page" -> (IF source = "songfacts" THEN 1 ELSE IF source = "genius" THEN 3 ELSE c.left)
    [] c.stage = "more" -> (IF source = "genius" THEN 2 ELSE c.left)
    [] c.stage = "artist" -> 1
    [] OTHER -> 0

StagesOf ==
  CASE source = "wikipedia" -> {"search", "page", "done"}
    [] source = "musicbrainz" -> {"search", "page", "more", "done"}
    [] source = "wikidata" -> {"search", "entities", "page", "done"}
    [] source = "songfacts" -> {"search", "page", "done"}
    [] source = "genius" -> {"search", "page", "more", "artist", "done"}
    [] OTHER -> {"search", "done"}

OnBudget(c) ==
  /\ c.stage \in StagesOf
  /\ c.stage # "done" =>
       Ahead(c) >= 1 /\ c.requests + Ahead(c) <= Through(c.target) + Works(c)

(* A lane works on a target in scope, and so are the documents it has found. *)
Aimed(c) ==
  /\ c.target \in Targets /\ SubjectOf(c.target) \in scope
  /\ c.artist <= parts
  /\ c.stage = "artist" => "artist" \in scope
  /\ c.stored <= Len(c.docs)
  /\ \A i \in DOMAIN c.docs : c.docs[i].key.subject \in scope /\ c.docs[i].key.artist <= parts

(* The documents up to stored are in the table, and no row has a key that no document has. *)
Written(c, row) ==
  /\ \A i \in 1 .. c.stored : row[c.docs[i].page] # Untouched
  /\ \A p \in Pages : row[p] \in {Untouched, Kept} \/
       \E i \in DOMAIN c.docs : c.docs[i].page = p /\ row[p] = c.docs[i].key

LaneOK(l) ==
  /\ Aimed(lane[l]) /\ Written(lane[l], rows[l])
  /\ lane[l].requests <= MaxRequests
  /\ l \notin LanesOf(source) => lane[l] = NewLane
  /\ outcome = "none" => lane[l].failure = "none" /\ OnBudget(lane[l])
  /\ outcome = "found" => lane[l].stored = Len(lane[l].docs)

NoRowUnlessDone == \A l \in Lanes, p \in Pages : rows[l][p] = Untouched \/ AllDone

IInv ==
  /\ TypeOK /\ OutcomeEarned /\ NoRowUnlessDone
  /\ "song" \in scope /\ unread <= parts + 2
  /\ \A l \in Lanes : LaneOK(l)

-----------------------------------------------------------------------------
(* Arithmetic *)

(* A set of numbers that is not empty has a least one. *)
LEMMA Least ==
  ASSUME NEW S \in SUBSET Nat, S # {}
  PROVE  \E t \in S : \A u \in S : t <= u
<1>. DEFINE Less == {x \in Nat \X Nat : x[1] < x[2]}
<1>1. IsWellFoundedOn(Less, Nat)
  BY NatLessThanWellFounded DEF OpToRel
<1>2. PICK t \in S : \A u \in S : ~ (<<u, t>> \in Less)
  <2>. HIDE DEF Less
  <2>. QED
    BY <1>1, WFMin
<1>3. ASSUME NEW u \in S PROVE t <= u
  <2>1. u \in Nat /\ t \in Nat /\ ~ (<<u, t>> \in Less)
    BY <1>2
  <2>. QED
    BY <2>1
<1>. QED
  BY <1>3

LEMMA EachType == TypeOK => Each \in Nat \ {0}
BY BoundsAssumption DEF TypeOK, Names, Each

LEMMA Product ==
  ASSUME NEW t \in Nat, NEW u \in Nat, NEW e \in Nat
  PROVE  /\ t * e \in Nat /\ (t + 1) * e = t * e + e /\ 1 * e = e
         /\ t <= u => t * e <= u * e
OBVIOUS

LEMMA ThroughFacts ==
  ASSUME TypeOK, NEW t \in Nat \ {0}, NEW u \in Nat
  PROVE  /\ Through(t) \in Nat /\ Through(1) = Each
         /\ t < u => Through(t) + Each <= Through(u)
<1>1. Each \in Nat
  BY EachType
<1>2. Through(t) \in Nat /\ Through(1) = Each
  BY <1>1, Product DEF Through
<1>3. ASSUME t < u PROVE Through(t) + Each <= Through(u)
  <2>1. t + 1 \in Nat /\ t + 1 <= u
    BY <1>3
  <2>2. (t + 1) * Each <= u * Each /\ (t + 1) * Each = t * Each + Each
    BY <1>1, <2>1, Product
  <2>. QED
    BY <2>2 DEF Through
<1>. QED
  BY <1>2, <1>3

(* Each target is a part of the credit, and the requests for all of them are bounded. *)
LEMMA TargetFacts ==
  ASSUME TypeOK, NEW t \in Targets
  PROVE  /\ t \in Nat \ {0} /\ SubjectOf(t) \in Subjects
         /\ PartOf(t) \in 1 .. parts \/ (source = "wikipedia" /\ SubjectOf(t) # "artist")
         /\ Through(t) + (IF source = "musicbrainz" THEN MaxWorks ELSE 0) <= MaxRequests
         /\ Targets \in SUBSET (Nat \ {0}) /\ 1 \in Targets /\ SubjectOf(1) = "song"
<1>1. /\ parts \in Nat \ {0} /\ source \in Names
      /\ MaxTitles \in Nat /\ MaxCandidates \in Nat /\ MaxWorks \in Nat
  BY BoundsAssumption DEF TypeOK
<1>2. CASE source = "wikipedia"
  <2>. DEFINE n == IF parts = 1 THEN 3 ELSE parts + 1
  <2>1. Targets = 1 .. n /\ Each = 1 + MaxTitles /\ MaxRequests = n * (1 + MaxTitles)
    BY <1>2 DEF Targets, Each, MaxRequests
  <2>2. n \in Nat /\ t \in Nat /\ 1 <= t /\ t <= n /\ n >= 3
    BY <1>1, <2>1
  <2>3. t * Each <= n * Each
    BY <1>1, <2>1, <2>2, Product
  <2>4. SubjectOf(t) = (IF t = 1 THEN "song" ELSE IF t = 2 THEN "album" ELSE "artist")
        /\ PartOf(t) = (IF parts = 1 THEN 1 ELSE t - 1) /\ SubjectOf(1) = "song"
    BY <1>2 DEF SubjectOf, PartOf
  <2>5. SubjectOf(t) # "artist" \/ PartOf(t) \in 1 .. parts
    BY <1>1, <2>2, <2>4
  <2>6. SubjectOf(t) \in Subjects
    BY <2>4 DEF Subjects
  <2>7. t * Each \in Nat /\ n * Each = MaxRequests
    BY <1>1, <2>1, <2>2, Product
  <2>8. Targets \in SUBSET (Nat \ {0}) /\ 1 \in Targets
    BY <2>1, <2>2
  <2>. HIDE DEF n
  <2>. QED
    BY <1>2, <2>2, <2>3, <2>4, <2>5, <2>6, <2>7, <2>8 DEF Through
<1>3. CASE source = "musicbrainz"
  <2>1. Targets = 1 .. parts /\ Each = 1 + MaxCandidates
        /\ MaxRequests = parts * (1 + MaxCandidates) + MaxWorks
    BY <1>3 DEF Targets, Each, MaxRequests
  <2>2. t \in Nat /\ 1 <= t /\ t <= parts
    BY <1>1, <2>1
  <2>3. t * Each <= parts * Each /\ t * Each \in Nat /\ parts * Each \in Nat
    BY <1>1, <2>1, <2>2, Product
  <2>4. SubjectOf(t) = "song" /\ PartOf(t) = t /\ SubjectOf(1) = "song"
    BY <1>3 DEF SubjectOf, PartOf
  <2>5. Through(t) + MaxWorks <= MaxRequests
    <3>1. MaxRequests = parts * Each + MaxWorks
      BY <2>1
    <3>. QED
      BY <1>1, <2>3, <3>1 DEF Through
  <2>. QED
    BY <1>1, <1>3, <2>1, <2>2, <2>4, <2>5 DEF Subjects
<1>4. CASE source = "lastfm"
  <2>1. Targets = 1 .. 3 * parts /\ Each = 1 /\ MaxRequests = 3 * parts
    BY <1>4 DEF Targets, Each, MaxRequests
  <2>2. t \in Nat /\ 1 <= t /\ t <= 3 * parts /\ 3 * parts \in Nat
    BY <1>1, <2>1
  <2>3. SubjectOf(t) = <<"song", "album", "artist">>[1 + ((t - 1) % 3)]
        /\ PartOf(t) = 1 + ((t - 1) \div 3)
        /\ SubjectOf(1) = <<"song", "album", "artist">>[1 + ((1 - 1) % 3)]
    BY <1>4 DEF SubjectOf, PartOf
  <2>4. (t - 1) % 3 \in 0 .. 2 /\ (t - 1) \div 3 \in 0 .. parts - 1 /\ (1 - 1) % 3 = 0
    BY <1>1, <2>2
  <2>5. SubjectOf(t) \in Subjects /\ SubjectOf(1) = "song"
    BY <2>3, <2>4 DEF Subjects
  <2>6. PartOf(t) \in 1 .. parts
    BY <1>1, <2>3, <2>4
  <2>7. Through(t) = t
    BY <2>1, <2>2 DEF Through
  <2>. QED
    BY <1>1, <1>4, <2>1, <2>2, <2>5, <2>6, <2>7
<1>5. CASE source \in {"wikidata", "songfacts", "genius"}
  <2>1. Targets = {1} /\ t = 1 /\ SubjectOf(1) = "song" /\ PartOf(1) = 1
    BY <1>5 DEF Targets, SubjectOf, PartOf
  <2>2. Each = MaxRequests /\ Each \in Nat
    BY <1>1, <1>5 DEF Each, MaxRequests
  <2>3. Through(1) = Each
    BY <2>2 DEF Through
  <2>. QED
    BY <1>1, <1>5, <2>1, <2>2, <2>3 DEF Subjects
<1>. QED
  BY <1>1, <1>2, <1>3, <1>4, <1>5 DEF Names

-----------------------------------------------------------------------------
(* Lanes *)

(* Advance looks for the next target in scope, or is done. *)
LEMMA AdvanceFacts ==
  ASSUME TypeOK, NEW c \in Lane, Aimed(c),
         c.requests <= Through(c.target)
  PROVE  /\ Advance(c) \in Lane /\ Aimed(Advance(c)) /\ OnBudget(Advance(c))
         /\ Advance(c).docs = c.docs /\ Advance(c).stored = c.stored
         /\ Advance(c).requests = c.requests /\ Advance(c).failure = c.failure
<1>1. CASE Later(c) = {}
  <2>1. Advance(c) = [c EXCEPT !.stage = "done"]
    BY <1>1 DEF Advance, Done
  <2>2. [c EXCEPT !.stage = "done"] \in Lane
    BY DEF Lane, Stages
  <2>. DEFINE new == [c EXCEPT !.stage = "done"]
  <2>3. /\ new.docs = c.docs /\ new.stored = c.stored /\ new.requests = c.requests
        /\ new.failure = c.failure /\ new.stage = "done" /\ new.target = c.target
        /\ new.artist = c.artist
    BY DEF Lane
  <2>. HIDE DEF new
  <2>4. Aimed(new)
    BY <2>3 DEF Aimed
  <2>5. OnBudget(new)
    BY <2>3 DEF OnBudget, StagesOf
  <2>. QED
    BY <2>1, <2>2, <2>3, <2>4, <2>5 DEF new
<1>2. CASE Later(c) # {}
  <2>. DEFINE next == CHOOSE t \in Later(c) : \A u \in Later(c) : t <= u
              new == [c EXCEPT !.stage = "search", !.target = next]
  <2>1. c.target \in Targets /\ Targets \in SUBSET (Nat \ {0}) /\ c.target \in Nat \ {0}
    BY TargetFacts DEF Aimed
  <2>2. Later(c) \in SUBSET Nat
    BY <2>1 DEF Later
  <2>3. \E t \in Later(c) : \A u \in Later(c) : t <= u
    BY <1>2, <2>2, Least
  <2>4. next \in Later(c)
    BY <2>3
  <2>5. next \in Targets /\ next > c.target /\ SubjectOf(next) \in scope /\ next \in Nat \ {0}
    BY <2>1, <2>4 DEF Later
  <2>. HIDE DEF next
  <2>6. Advance(c) = new
    BY <1>2 DEF Advance, next
  <2>7. /\ new \in Lane /\ new.docs = c.docs /\ new.stored = c.stored /\ new.requests = c.requests
        /\ new.failure = c.failure /\ new.stage = "search" /\ new.target = next
        /\ new.artist = c.artist
    BY <2>5 DEF Lane, Stages
  <2>. HIDE DEF new
  <2>8. Aimed(new)
    BY <2>5, <2>7 DEF Aimed
  <2>9. Each \in Nat \ {0} /\ Through(c.target) + Each <= Through(next) /\ Through(next) \in Nat
        /\ Through(c.target) \in Nat
    BY <2>1, <2>5, EachType, ThroughFacts
  <2>10. Ahead(new) = Each /\ Works(new) = 0
    BY <2>7 DEF Ahead, Works
  <2>11. new.requests \in Nat
    BY <2>7 DEF Lane
  <2>12. "search" \in StagesOf
    BY DEF StagesOf
  <2>13. OnBudget(new)
    BY <2>7, <2>9, <2>10, <2>11, <2>12 DEF OnBudget
  <2>. QED
    BY <2>6, <2>7, <2>8, <2>13
<1>. QED
  BY <1>1, <1>2

Grown(docs, more) ==
  \A i \in DOMAIN docs : i \in DOMAIN more /\ more[i] = docs[i]

(* c may become lane l after the answer to a request, if it is on budget. *)
Ready(l, c) ==
  /\ c \in Lane /\ Aimed(c) /\ Grown(lane[l].docs, c.docs)
  /\ c.requests = lane[l].requests + 1
  /\ c.failure = "none" /\ c.stored = lane[l].stored

(* What is known of a lane that makes a request. *)
LEMMA AskedFacts ==
  ASSUME IInv, NEW l \in Lanes, NEW stage \in Stages \ {"done"}, Fetching(l, stage)
  PROVE  /\ Ready(l, Asked(l))
         /\ Asked(l).stage = stage /\ lane[l].stage = stage
         /\ Asked(l).target = lane[l].target /\ Asked(l).left = lane[l].left
         /\ Asked(l).artist = lane[l].artist /\ Asked(l).docs = lane[l].docs
         /\ lane[l] \in Lane /\ lane[l].requests \in Nat /\ Through(lane[l].target) \in Nat
         /\ stage \in StagesOf /\ Ahead(lane[l]) >= 1
         /\ lane[l].requests + Ahead(lane[l]) <= Through(lane[l].target) + Works(lane[l])
         /\ lane[l].requests + 1 <= MaxRequests
<1>1. /\ lane[l] \in Lane /\ lane[l].stage = stage /\ outcome = "none"
      /\ Aimed(lane[l]) /\ OnBudget(lane[l]) /\ lane[l].failure = "none"
  BY DEF Fetching, IInv, TypeOK, LaneOK
<1>. DEFINE c == [lane[l] EXCEPT !.requests = @ + 1]
<1>2. /\ c \in Lane /\ c.requests = lane[l].requests + 1 /\ c.stage = stage
      /\ c.target = lane[l].target /\ c.left = lane[l].left /\ c.artist = lane[l].artist
      /\ c.docs = lane[l].docs /\ c.stored = lane[l].stored /\ c.failure = lane[l].failure
  BY SMTT(30), <1>1 DEF Lane
<1>3. c = Asked(l)
  BY DEF Asked
<1>. HIDE DEF c
<1>4. Aimed(c)
  BY <1>1, <1>2 DEF Aimed
<1>5. Ready(l, c)
  BY <1>1, <1>2, <1>4 DEF Ready, Grown
<1>6. /\ stage \in StagesOf /\ Ahead(lane[l]) >= 1
      /\ lane[l].requests + Ahead(lane[l]) <= Through(lane[l].target) + Works(lane[l])
  BY <1>1 DEF OnBudget
<1>7. lane[l].requests \in Nat /\ lane[l].left \in Nat /\ lane[l].target \in Targets
  BY <1>1 DEF Lane, Aimed
<1>8. /\ Through(lane[l].target) + (IF source = "musicbrainz" THEN MaxWorks ELSE 0) <= MaxRequests
      /\ lane[l].target \in Nat \ {0}
  BY <1>7, TargetFacts DEF IInv
<1>9. Through(lane[l].target) \in Nat
  BY <1>8, ThroughFacts DEF IInv
<1>10. MaxRequests \in Int
  BY BoundsAssumption DEF MaxRequests, IInv, TypeOK, Names
<1>11. Ahead(lane[l]) \in Int
  BY <1>7, EachType DEF Ahead, IInv
<1>12. lane[l].requests + 1 <= MaxRequests
  BY <1>6, <1>7, <1>8, <1>9, <1>10, <1>11, BoundsAssumption DEF Works
<1>. QED
  BY <1>1, <1>2, <1>3, <1>5, <1>6, <1>7, <1>9, <1>12

LEMMA FoundFacts ==
  ASSUME IInv, NEW l \in Lanes, NEW c, Ready(l, c),
         NEW p \in Pages, NEW s \in Subjects, s \in scope, NEW a \in 1 .. parts
  PROVE  /\ Ready(l, Found(c, p, s, a))
         /\ Found(c, p, s, a).stage = c.stage /\ Found(c, p, s, a).target = c.target
         /\ Found(c, p, s, a).left = c.left /\ Found(c, p, s, a).requests = c.requests
<1>. DEFINE d == [page |-> p, key |-> [subject |-> s, artist |-> a]]
            docs == Append(c.docs, d)
            new == [c EXCEPT !.docs = docs]
<1>1. c \in Lane /\ c.docs \in Seq(Document) /\ a \in 1 .. MaxParts /\ Aimed(c)
  <2>1. c \in Lane /\ Aimed(c)
    BY DEF Ready
  <2>2. c.docs \in Seq(Document)
    BY <2>1 DEF Lane
  <2>3. parts \in 1 .. MaxParts /\ MaxParts \in Nat
    BY BoundsAssumption DEF IInv, TypeOK
  <2>. QED
    BY <2>1, <2>2, <2>3
<1>2. d \in Document /\ d.key.subject = s /\ d.key.artist = a
  BY <1>1 DEF Document, Key
<1>3. Found(c, p, s, a) = new
  BY <1>1 DEF Found
<1>. HIDE DEF d
<1>4. /\ docs \in Seq(Document) /\ Len(docs) = Len(c.docs) + 1 /\ docs[Len(c.docs) + 1] = d
      /\ DOMAIN docs = 1 .. Len(c.docs) + 1 /\ DOMAIN c.docs = 1 .. Len(c.docs)
      /\ \A i \in DOMAIN c.docs : docs[i] = c.docs[i]
      /\ Len(c.docs) \in Nat
  BY <1>1, <1>2
<1>. HIDE DEF docs
<1>5. /\ new \in Lane /\ new.docs = docs /\ new.stage = c.stage /\ new.target = c.target
      /\ new.left = c.left /\ new.artist = c.artist /\ new.requests = c.requests
      /\ new.stored = c.stored /\ new.failure = c.failure
  BY <1>1, <1>4 DEF Lane
<1>. HIDE DEF new
<1>6. \A i \in DOMAIN docs : docs[i].key.subject \in scope /\ docs[i].key.artist <= parts
  <2>1. \A i \in DOMAIN c.docs : c.docs[i].key.subject \in scope /\ c.docs[i].key.artist <= parts
    BY <1>1 DEF Aimed
  <2>2. \A i \in DOMAIN docs : i \in DOMAIN c.docs \/ i = Len(c.docs) + 1
    BY <1>4
  <2>3. d.key.subject \in scope /\ d.key.artist <= parts
    BY <1>2 DEF IInv, TypeOK
  <2>. QED
    BY <1>4, <2>1, <2>2, <2>3
<1>7. new.stored <= Len(new.docs)
  <2>1. c.stored <= Len(c.docs) /\ c.stored \in Nat
    BY <1>1 DEF Aimed, Lane
  <2>. QED
    BY <1>4, <1>5, <2>1
<1>8. Aimed(new)
  BY <1>1, <1>5, <1>6, <1>7 DEF Aimed
<1>9. Grown(lane[l].docs, docs)
  BY <1>4 DEF Ready, Grown
<1>. QED
  BY <1>3, <1>5, <1>8, <1>9 DEF Ready

(* Another stage of the same target. *)
LEMMA StageFacts ==
  ASSUME NEW l \in Lanes, NEW c, Ready(l, c), NEW new \in Lane,
         new.docs = c.docs, new.stored = c.stored, new.failure = c.failure,
         new.requests = c.requests, new.target = c.target,
         new.artist <= parts, new.stage = "artist" => "artist" \in scope,
         new.stage \in StagesOf, Ahead(new) >= 1,
         c.requests + Ahead(new) <= Through(c.target) + Works(new)
  PROVE  Ready(l, new) /\ OnBudget(new)
<1>1. Aimed(new)
  BY DEF Ready, Aimed
<1>. QED
  BY <1>1 DEF Ready, OnBudget

(* A lane that is done is on budget. *)
LEMMA DoneFacts ==
  ASSUME NEW l \in Lanes, NEW c, Ready(l, c)
  PROVE  Ready(l, Done(c)) /\ OnBudget(Done(c))
<1>. DEFINE new == [c EXCEPT !.stage = "done"]
<1>1. c \in Lane
  BY DEF Ready
<1>2. /\ new \in Lane /\ new.docs = c.docs /\ new.stage = "done" /\ new.target = c.target
      /\ new.left = c.left /\ new.artist = c.artist /\ new.requests = c.requests
      /\ new.stored = c.stored /\ new.failure = c.failure
  BY <1>1 DEF Lane, Stages
<1>3. Done(c) = new
  BY DEF Done
<1>. HIDE DEF new
<1>4. Aimed(new) /\ OnBudget(new)
  BY <1>2 DEF Ready, Aimed, OnBudget, StagesOf
<1>. QED
  BY <1>2, <1>3, <1>4 DEF Ready

LEMMA NextTarget ==
  ASSUME IInv, NEW l \in Lanes, NEW c, Ready(l, c), c.requests <= Through(c.target)
  PROVE  Ready(l, Advance(c)) /\ OnBudget(Advance(c))
BY AdvanceFacts DEF IInv, Ready

(* While the job and the scope stay, so does what is asked of a lane. *)
LEMMA SameTask ==
  ASSUME UNCHANGED <<source, parts, scope>>
  PROVE  /\ MaxRequests' = MaxRequests /\ LanesOf(source)' = LanesOf(source)
         /\ \A c : (Aimed(c) => Aimed(c)') /\ (OnBudget(c) => OnBudget(c)')
<1>1. /\ MaxRequests' = MaxRequests /\ LanesOf(source)' = LanesOf(source)
      /\ Targets' = Targets /\ StagesOf' = StagesOf /\ Each' = Each
  BY DEF MaxRequests, LanesOf, Targets, StagesOf, Each
<1>2. \A c : Aimed(c) => Aimed(c)'
  BY <1>1 DEF Aimed, SubjectOf
<1>3. \A c : Ahead(c)' = Ahead(c) /\ Works(c)' = Works(c)
  BY <1>1 DEF Ahead, Works
<1>4. \A c : Through(c.target)' = Through(c.target)
  BY <1>1 DEF Through
<1>5. \A c : OnBudget(c) => OnBudget(c)'
  BY <1>1, <1>3, <1>4 DEF OnBudget
<1>. QED
  BY <1>1, <1>2, <1>5

(* An answer that leaves the lane on budget preserves the invariant. *)
LEMMA AnswerKeepsIInv ==
  ASSUME IInv, NEW l \in Lanes, NEW stage \in Stages \ {"done"}, Fetching(l, stage),
         NEW c, Ready(l, c), OnBudget(c), Set(l, c)
  PROVE  IInv'
<1>1. /\ lane' = [lane EXCEPT ![l] = c] /\ l \in LanesOf(source) /\ outcome = "none"
      /\ UNCHANGED <<source, parts, album, scope, unread, rows, outcome>>
      /\ lane[l].stage # "done"
  BY DEF Set, Fetching
<1>2. lane' \in [Lanes -> Lane] /\ lane'[l] = c /\ \A k \in Lanes : k # l => lane'[k] = lane[k]
  BY <1>1 DEF IInv, TypeOK, Ready
<1>3. TypeOK'
  BY <1>1, <1>2 DEF IInv, TypeOK
<1>4. \A k \in Lanes, p \in Pages : rows[k][p] = Untouched
  BY <1>1 DEF IInv, NoRowUnlessDone, AllDone
<1>5. NoRowUnlessDone'
  BY <1>1, <1>4 DEF NoRowUnlessDone
<1>6. OutcomeEarned'
  <2>1. \A k \in Lanes : lane'[k].failure = "none"
    BY <1>1, <1>2 DEF IInv, LaneOK, Ready
  <2>. QED
    BY <1>1, <2>1 DEF OutcomeEarned
<1>7. \A k \in Lanes : LaneOK(k)'
  <2>1. ASSUME NEW k \in Lanes, k # l PROVE LaneOK(k)'
    <3>1. LaneOK(k) /\ lane'[k] = lane[k]
      BY <1>2, <2>1 DEF IInv
    <3>2. Aimed(lane[k])' /\ OnBudget(lane[k])'
      BY <1>1, <3>1, SameTask DEF LaneOK
    <3>3. Written(lane[k], rows[k])'
      BY <1>1, <3>1 DEF LaneOK, Written
    <3>4. MaxRequests' = MaxRequests /\ LanesOf(source') = LanesOf(source)
      BY <1>1, SameTask
    <3>. QED
      BY <1>1, <3>1, <3>2, <3>3, <3>4 DEF LaneOK
  <2>2. Aimed(c)' /\ OnBudget(c)'
    BY <1>1, SameTask DEF Ready
  <2>3. c.requests <= MaxRequests /\ MaxRequests' = MaxRequests /\ LanesOf(source') = LanesOf(source)
    BY <1>1, AskedFacts, SameTask DEF Ready
  <2>4. Written(c, rows[l])
    <3>1. /\ \A i \in 1 .. lane[l].stored : i \in DOMAIN lane[l].docs
          /\ lane[l].docs \in Seq(Document) /\ lane[l].stored \in Nat
      BY DEF IInv, LaneOK, Aimed, TypeOK, Lane
    <3>2. \A i \in 1 .. c.stored : c.docs[i] = lane[l].docs[i]
      BY <3>1 DEF Ready, Grown
    <3>3. \A i \in 1 .. lane[l].stored : rows[l][lane[l].docs[i].page] # Untouched
      BY DEF IInv, LaneOK, Written
    <3>4. c.stored = lane[l].stored
      BY DEF Ready
    <3>. QED
      BY <1>4, <3>2, <3>3, <3>4 DEF Written
  <2>5. LaneOK(l)'
    BY <1>1, <1>2, <2>2, <2>3, <2>4 DEF LaneOK, Ready
  <2>. QED
    BY <2>1, <2>5
<1>. QED
  BY <1>1, <1>3, <1>5, <1>6, <1>7 DEF IInv

-----------------------------------------------------------------------------
(* One lemma per request *)

LEMMA HitsFacts ==
  ASSUME IInv, NEW l \in Lanes, NEW c, Ready(l, c), NEW n \in Nat,
         c.requests + n <= Through(c.target), Through(c.target) \in Nat,
         source \in {"wikipedia", "musicbrainz", "wikidata"}
  PROVE  Ready(l, Hits(c, n)) /\ OnBudget(Hits(c, n))
<1>1. c \in Lane /\ c.requests \in Nat /\ c.artist <= parts
  BY DEF Ready, Lane, Aimed
<1>2. CASE n = 0
  BY <1>1, <1>2, NextTarget DEF Hits
<1>3. CASE n # 0
  <2>. DEFINE new == [c EXCEPT !.stage = "page", !.left = n]
  <2>1. /\ new \in Lane /\ new.docs = c.docs /\ new.stored = c.stored /\ new.failure = c.failure
        /\ new.requests = c.requests /\ new.target = c.target /\ new.artist = c.artist
        /\ new.stage = "page" /\ new.left = n
    BY <1>1 DEF Lane, Stages
  <2>2. Hits(c, n) = new
    BY <1>3 DEF Hits
  <2>. HIDE DEF new
  <2>3. Ahead(new) = n /\ Works(new) = 0 /\ "page" \in StagesOf
    BY <2>1 DEF Ahead, Works, StagesOf
  <2>. QED
    BY <1>1, <1>3, <2>1, <2>2, <2>3, StageFacts
<1>. QED
  BY <1>2, <1>3

(* The next candidate of a search is asked for: what is left of its budget. *)
LEMMA PageFacts ==
  ASSUME IInv, NEW l \in Lanes, Fetching(l, "page"),
         source \in {"wikipedia", "musicbrainz", "wikidata"}
  PROVE  LET c == Asked(l) IN
         /\ Ready(l, c) /\ c.left \in Nat \ {0}
         /\ c.requests + c.left <= Through(c.target) + 1
         /\ c.requests \in Nat /\ Through(c.target) \in Nat
<1>1. "page" \in Stages \ {"done"}
  BY DEF Stages
<1>. DEFINE c == Asked(l)
<1>2. /\ Ready(l, c) /\ c.left = lane[l].left /\ c.target = lane[l].target
      /\ lane[l].stage = "page" /\ lane[l] \in Lane
      /\ lane[l].requests \in Nat /\ Through(lane[l].target) \in Nat /\ Ahead(lane[l]) >= 1
      /\ lane[l].requests + Ahead(lane[l]) <= Through(lane[l].target) + Works(lane[l])
  BY <1>1, AskedFacts
<1>3. Ahead(lane[l]) = lane[l].left /\ Works(lane[l]) = 0
  BY <1>2 DEF Ahead, Works
<1>4. c.requests = lane[l].requests + 1
  BY <1>2 DEF Ready
<1>5. lane[l].left \in Nat
  BY <1>2 DEF Lane
<1>. HIDE DEF c
<1>6. /\ Ready(l, c) /\ c.left \in Nat \ {0}
      /\ c.requests + c.left <= Through(c.target) + 1
      /\ c.requests \in Nat /\ Through(c.target) \in Nat
  BY <1>2, <1>3, <1>4, <1>5
<1>. QED
  BY <1>6 DEF c

LEMMA RejectedFacts ==
  ASSUME IInv, NEW l \in Lanes, NEW c, Ready(l, c), c.left \in Nat \ {0}, c.stage = "page",
         c.requests + c.left <= Through(c.target) + 1,
         c.requests \in Nat, Through(c.target) \in Nat,
         source \in {"wikipedia", "musicbrainz", "wikidata"}
  PROVE  Ready(l, Rejected(c)) /\ OnBudget(Rejected(c))
<1>1. c \in Lane /\ c.artist <= parts
  BY DEF Ready, Aimed
<1>2. CASE c.left = 1
  BY <1>1, <1>2, NextTarget DEF Rejected
<1>3. CASE c.left # 1
  <2>. DEFINE new == [c EXCEPT !.left = @ - 1]
  <2>1. /\ new \in Lane /\ new.docs = c.docs /\ new.stored = c.stored /\ new.failure = c.failure
        /\ new.requests = c.requests /\ new.target = c.target /\ new.artist = c.artist
        /\ new.stage = "page" /\ new.left = c.left - 1
    BY <1>1, <1>3 DEF Lane
  <2>2. Rejected(c) = new
    BY <1>3 DEF Rejected
  <2>. HIDE DEF new
  <2>3. Ahead(new) = c.left - 1 /\ Works(new) = 0 /\ "page" \in StagesOf
    BY <2>1 DEF Ahead, Works, StagesOf
  <2>. QED
    BY <1>1, <1>3, <2>1, <2>2, <2>3, StageFacts
<1>. QED
  BY <1>2, <1>3

LEMMA SearchKeepsIInv ==
  ASSUME IInv, NEW l \in Lanes, WikipediaSearch(l) \/ MusicBrainzSearch(l)
  PROVE  IInv'
<1>1. Fetching(l, "search") /\ source \in {"wikipedia", "musicbrainz"}
  BY DEF WikipediaSearch, MusicBrainzSearch
<1>. DEFINE most == IF source = "wikipedia" THEN MaxTitles ELSE MaxCandidates
<1>2. PICK n \in 0 .. most : Set(l, Hits(Asked(l), n))
  BY <1>1 DEF WikipediaSearch, MusicBrainzSearch
<1>3. "search" \in Stages \ {"done"}
  BY DEF Stages
<1>4. /\ Ready(l, Asked(l)) /\ Asked(l).target = lane[l].target
      /\ lane[l].stage = "search"
      /\ lane[l].requests \in Nat /\ Through(lane[l].target) \in Nat
      /\ lane[l].requests + Ahead(lane[l]) <= Through(lane[l].target) + Works(lane[l])
  BY <1>1, <1>3, AskedFacts
<1>5. Ahead(lane[l]) = 1 + most /\ Works(lane[l]) = 0
  BY <1>1, <1>4 DEF Ahead, Works, Each
<1>6. Asked(l).requests = lane[l].requests + 1
  BY <1>4 DEF Ready
<1>7. n \in Nat /\ n <= most /\ most \in Nat
  BY BoundsAssumption
<1>8. Asked(l).requests + n <= Through(Asked(l).target) /\ Through(Asked(l).target) \in Nat
  BY <1>4, <1>5, <1>6, <1>7
<1>9. Ready(l, Hits(Asked(l), n)) /\ OnBudget(Hits(Asked(l), n))
  BY <1>1, <1>4, <1>7, <1>8, HitsFacts
<1>. QED
  BY <1>1, <1>2, <1>3, <1>9, AnswerKeepsIInv

LEMMA WikipediaPageKeepsIInv ==
  ASSUME IInv, NEW l \in Lanes, WikipediaPage(l)
  PROVE  IInv'
<1>1. Fetching(l, "page") /\ source = "wikipedia" /\ "page" \in Stages \ {"done"}
  BY DEF WikipediaPage, Stages
<1>. DEFINE c == Asked(l)
<1>2. /\ Ready(l, c) /\ c.left \in Nat \ {0} /\ c.stage = "page"
      /\ c.requests + c.left <= Through(c.target) + 1
      /\ c.requests \in Nat /\ Through(c.target) \in Nat
  BY <1>1, PageFacts, AskedFacts
<1>3. CASE Set(l, Rejected(c))
  BY <1>1, <1>2, <1>3, RejectedFacts, AnswerKeepsIInv
<1>4. ASSUME NEW p \in Pages,
             NEW a \in IF SubjectOf(c.target) = "artist" THEN {PartOf(c.target)} ELSE 1 .. parts,
             Set(l, Advance(Found(c, p, SubjectOf(c.target), a)))
      PROVE  IInv'
  <2>1. c.target \in Targets /\ SubjectOf(c.target) \in scope
    BY <1>2 DEF Ready, Aimed
  <2>2. SubjectOf(c.target) \in Subjects
        /\ (PartOf(c.target) \in 1 .. parts \/ SubjectOf(c.target) # "artist")
    BY <2>1, TargetFacts DEF IInv
  <2>3. a \in 1 .. parts
    BY <2>2
  <2>. DEFINE f == Found(c, p, SubjectOf(c.target), a)
  <2>4. Ready(l, f) /\ f.target = c.target /\ f.requests = c.requests
    BY <1>2, <2>1, <2>2, <2>3, FoundFacts
  <2>. HIDE DEF f
  <2>5. f.requests <= Through(f.target)
    BY <1>2, <2>4
  <2>6. Ready(l, Advance(f)) /\ OnBudget(Advance(f))
    BY <2>4, <2>5, NextTarget
  <2>. QED
    BY <1>1, <1>4, <2>6, AnswerKeepsIInv DEF f
<1>. QED
  BY <1>3, <1>4 DEF WikipediaPage

(* The lane is done, with or without a document of part a. *)
LEMMA LastAnswer ==
  ASSUME IInv, NEW l \in Lanes, NEW stage \in Stages \ {"done"}, Fetching(l, stage),
         NEW p \in Pages, NEW s \in Subjects, s \in scope, NEW a \in 1 .. parts,
         \/ Set(l, Done(Asked(l)))
         \/ Set(l, Done(Found(Asked(l), p, s, a)))
  PROVE  IInv'
<1>1. Ready(l, Asked(l)) /\ Ready(l, Found(Asked(l), p, s, a))
  BY AskedFacts, FoundFacts
<1>2. Ready(l, Done(Asked(l))) /\ Ready(l, Done(Found(Asked(l), p, s, a)))
      /\ OnBudget(Done(Asked(l))) /\ OnBudget(Done(Found(Asked(l), p, s, a)))
  BY <1>1, DoneFacts
<1>. QED
  BY <1>2, AnswerKeepsIInv

LEMMA LastAnswerNone ==
  ASSUME IInv, NEW l \in Lanes, NEW stage \in Stages \ {"done"}, Fetching(l, stage),
         Set(l, Done(Asked(l)))
  PROVE  IInv'
<1>1. Ready(l, Done(Asked(l))) /\ OnBudget(Done(Asked(l)))
  BY AskedFacts, DoneFacts
<1>. QED
  BY <1>1, AnswerKeepsIInv

LEMMA MusicBrainzRecordingKeepsIInv ==
  ASSUME IInv, NEW l \in Lanes, MusicBrainzRecording(l)
  PROVE  IInv'
<1>1. Fetching(l, "page") /\ source = "musicbrainz" /\ "page" \in Stages \ {"done"}
      /\ "song" \in scope /\ "song" \in Subjects
  BY DEF MusicBrainzRecording, Stages, IInv, Subjects
<1>. DEFINE c == Asked(l)
<1>2. /\ Ready(l, c) /\ c.left \in Nat \ {0} /\ c.stage = "page"
      /\ c.requests + c.left <= Through(c.target) + 1
      /\ c.requests \in Nat /\ Through(c.target) \in Nat
  BY <1>1, PageFacts, AskedFacts
<1>3. CASE Set(l, Rejected(c))
  BY <1>1, <1>2, <1>3, RejectedFacts, AnswerKeepsIInv
<1>4. c.target \in Targets /\ PartOf(c.target) \in 1 .. parts
  BY <1>1, <1>2, TargetFacts DEF IInv, Ready, Aimed
<1>5. ASSUME NEW p \in Pages, Set(l, Done(Found(c, p, "song", PartOf(c.target)))) PROVE IInv'
  BY <1>1, <1>4, <1>5, LastAnswer
<1>6. ASSUME NEW works \in 1 .. MaxWorks, Set(l, [c EXCEPT !.stage = "more", !.left = works])
      PROVE  IInv'
  <2>. DEFINE new == [c EXCEPT !.stage = "more", !.left = works]
  <2>1. works \in Nat /\ 1 <= works /\ works <= MaxWorks /\ MaxWorks \in Nat
    BY BoundsAssumption
  <2>2. c \in Lane /\ c.artist <= parts
    BY <1>2 DEF Ready, Aimed
  <2>3. /\ new \in Lane /\ new.docs = c.docs /\ new.stored = c.stored /\ new.failure = c.failure
        /\ new.requests = c.requests /\ new.target = c.target /\ new.artist = c.artist
        /\ new.stage = "more" /\ new.left = works
    BY <2>1, <2>2 DEF Lane, Stages
  <2>. HIDE DEF new
  <2>4. Ahead(new) = works /\ Works(new) = MaxWorks /\ "more" \in StagesOf
    BY <1>1, <2>3 DEF Ahead, Works, StagesOf
  <2>5. c.requests + works <= Through(c.target) + MaxWorks
    BY <1>2, <2>1
  <2>6. Ready(l, new) /\ OnBudget(new)
    BY <1>2, <2>1, <2>2, <2>3, <2>4, <2>5, StageFacts
  <2>. QED
    BY <1>1, <1>6, <2>6, AnswerKeepsIInv DEF new
<1>. QED
  BY <1>3, <1>5, <1>6 DEF MusicBrainzRecording, Recording

LEMMA MusicBrainzWorkKeepsIInv ==
  ASSUME IInv, NEW l \in Lanes, MusicBrainzWork(l)
  PROVE  IInv'
<1>1. Fetching(l, "more") /\ source = "musicbrainz" /\ "more" \in Stages \ {"done"}
      /\ "song" \in scope /\ "song" \in Subjects
  BY DEF MusicBrainzWork, Stages, IInv, Subjects
<1>. DEFINE c == Asked(l)
<1>2. /\ Ready(l, c) /\ c.stage = "more" /\ c.left = lane[l].left /\ c.target = lane[l].target
      /\ lane[l] \in Lane /\ lane[l].stage = "more"
      /\ lane[l].requests \in Nat /\ Through(lane[l].target) \in Nat
      /\ lane[l].requests + Ahead(lane[l]) <= Through(lane[l].target) + Works(lane[l])
  BY <1>1, AskedFacts
<1>3. Ahead(lane[l]) = c.left /\ Works(lane[l]) = MaxWorks /\ MaxWorks \in Nat
      /\ c.requests = lane[l].requests + 1 /\ c.left \in Nat
  BY <1>1, <1>2, BoundsAssumption DEF Ahead, Works, Ready, Lane
<1>4. CASE c.left > 1 /\ Set(l, [c EXCEPT !.left = @ - 1])
  <2>. DEFINE new == [c EXCEPT !.left = @ - 1]
  <2>1. c \in Lane /\ c.artist <= parts
    BY <1>2 DEF Ready, Aimed
  <2>2. /\ new \in Lane /\ new.docs = c.docs /\ new.stored = c.stored /\ new.failure = c.failure
        /\ new.requests = c.requests /\ new.target = c.target /\ new.artist = c.artist
        /\ new.stage = "more" /\ new.left = c.left - 1
    <3>1. c.left - 1 \in Nat
      BY <1>3, <1>4
    <3>. HIDE DEF c
    <3>. QED
      BY <1>2, <2>1, <3>1 DEF Lane
  <2>3. Set(l, new)
    BY <1>4
  <2>. HIDE DEF new
  <2>4. Ahead(new) = c.left - 1 /\ Works(new) = MaxWorks /\ "more" \in StagesOf
    BY <1>1, <2>2 DEF Ahead, Works, StagesOf
  <2>5. c.requests + (c.left - 1) <= Through(c.target) + MaxWorks /\ c.left - 1 >= 1
    BY <1>2, <1>3, <1>4
  <2>6. Ready(l, new) /\ OnBudget(new)
    BY <1>2, <2>1, <2>2, <2>4, <2>5, StageFacts
  <2>. QED
    BY <1>1, <2>3, <2>6, AnswerKeepsIInv
<1>5. c.target \in Targets /\ PartOf(c.target) \in 1 .. parts
  BY <1>1, <1>2, TargetFacts DEF IInv, Ready, Aimed
<1>6. ASSUME NEW p \in Pages, Set(l, Done(Found(c, p, "song", PartOf(c.target)))) PROVE IInv'
  BY <1>1, <1>5, <1>6, LastAnswer
<1>. QED
  BY <1>4, <1>6 DEF MusicBrainzWork, Recording

LEMMA WikidataSearchKeepsIInv ==
  ASSUME IInv, NEW l \in Lanes, WikidataSearch(l)
  PROVE  IInv'
<1>1. Fetching(l, "search") /\ source = "wikidata" /\ "search" \in Stages \ {"done"}
  BY DEF WikidataSearch, Stages
<1>. DEFINE c == Asked(l)
<1>2. /\ Ready(l, c) /\ c.target = lane[l].target
      /\ lane[l].stage = "search" /\ lane[l].requests \in Nat /\ Through(lane[l].target) \in Nat
      /\ lane[l].requests + Ahead(lane[l]) <= Through(lane[l].target) + Works(lane[l])
  BY <1>1, AskedFacts
<1>3. Ahead(lane[l]) = 2 + MaxCandidates /\ Works(lane[l]) = 0 /\ MaxCandidates \in Nat
      /\ c.requests = lane[l].requests + 1
  BY <1>1, <1>2, BoundsAssumption DEF Ahead, Works, Each, Ready
<1>4. PICK n \in 0 .. MaxCandidates :
        Set(l, IF n = 0 THEN Done(c) ELSE [c EXCEPT !.stage = "entities", !.left = n])
  BY DEF WikidataSearch
<1>5. CASE n = 0
  BY <1>1, <1>4, <1>5, LastAnswerNone
<1>6. CASE n # 0
  <2>. DEFINE new == [c EXCEPT !.stage = "entities", !.left = n]
  <2>1. c \in Lane /\ c.artist <= parts /\ n \in Nat /\ n <= MaxCandidates
    BY <1>2, <1>3 DEF Ready, Aimed
  <2>2. /\ new \in Lane /\ new.docs = c.docs /\ new.stored = c.stored /\ new.failure = c.failure
        /\ new.requests = c.requests /\ new.target = c.target /\ new.artist = c.artist
        /\ new.stage = "entities" /\ new.left = n
    BY <2>1 DEF Lane, Stages
  <2>3. Set(l, new)
    BY <1>4, <1>6
  <2>. HIDE DEF new
  <2>4. Ahead(new) = 1 + n /\ Works(new) = 0 /\ "entities" \in StagesOf
    BY <1>1, <2>2 DEF Ahead, Works, StagesOf
  <2>5. c.requests + (1 + n) <= Through(c.target) + 0 /\ 1 + n >= 1
    BY <1>2, <1>3, <2>1
  <2>6. Ready(l, new) /\ OnBudget(new)
    BY <1>2, <2>1, <2>2, <2>4, <2>5, StageFacts
  <2>. QED
    BY <1>1, <2>3, <2>6, AnswerKeepsIInv
<1>. QED
  BY <1>5, <1>6

LEMMA WikidataEntitiesKeepsIInv ==
  ASSUME IInv, NEW l \in Lanes, WikidataEntities(l)
  PROVE  IInv'
<1>1. Fetching(l, "entities") /\ source = "wikidata" /\ "entities" \in Stages \ {"done"}
  BY DEF WikidataEntities, Stages
<1>. DEFINE c == Asked(l)
<1>2. /\ Ready(l, c) /\ c.target = lane[l].target /\ lane[l] \in Lane
      /\ lane[l].stage = "entities" /\ lane[l].requests \in Nat /\ Through(lane[l].target) \in Nat
      /\ lane[l].requests + Ahead(lane[l]) <= Through(lane[l].target) + Works(lane[l])
  BY <1>1, AskedFacts
<1>3. Ahead(lane[l]) = 1 + lane[l].left /\ Works(lane[l]) = 0 /\ lane[l].left \in Nat
      /\ c.requests = lane[l].requests + 1
  BY <1>1, <1>2 DEF Ahead, Works, Ready, Lane
<1>4. PICK n \in 0 .. lane[l].left : Set(l, Hits(c, n))
  BY DEF WikidataEntities
<1>5. n \in Nat /\ c.requests + n <= Through(c.target) /\ Through(c.target) \in Nat
  BY <1>2, <1>3
<1>6. Ready(l, Hits(c, n)) /\ OnBudget(Hits(c, n))
  BY <1>1, <1>2, <1>5, HitsFacts
<1>. QED
  BY <1>1, <1>4, <1>6, AnswerKeepsIInv

LEMMA WikidataLabelsKeepsIInv ==
  ASSUME IInv, NEW l \in Lanes, WikidataLabels(l)
  PROVE  IInv'
<1>1. Fetching(l, "page") /\ source = "wikidata" /\ "page" \in Stages \ {"done"}
      /\ "song" \in scope /\ "song" \in Subjects
  BY DEF WikidataLabels, Stages, IInv, Subjects
<1>. DEFINE c == Asked(l)
<1>2. /\ Ready(l, c) /\ c.left \in Nat \ {0} /\ c.stage = "page"
      /\ c.requests + c.left <= Through(c.target) + 1
      /\ c.requests \in Nat /\ Through(c.target) \in Nat
  BY <1>1, PageFacts, AskedFacts
<1>3. CASE Set(l, Rejected(c))
  BY <1>1, <1>2, <1>3, RejectedFacts, AnswerKeepsIInv
<1>4. ASSUME NEW p \in Pages, NEW a \in 1 .. parts, Set(l, Done(Found(c, p, "song", a)))
      PROVE  IInv'
  BY <1>1, <1>4, LastAnswer
<1>. QED
  BY <1>3, <1>4 DEF WikidataLabels

LEMMA SongfactsKeepsIInv ==
  ASSUME IInv, NEW l \in Lanes, SongfactsSearch(l) \/ SongfactsPage(l)
  PROVE  IInv'
<1>. DEFINE c == Asked(l)
<1>1. "search" \in Stages \ {"done"} /\ "page" \in Stages \ {"done"}
      /\ "song" \in scope /\ "song" \in Subjects /\ source = "songfacts"
  BY DEF Stages, IInv, Subjects, SongfactsSearch, SongfactsPage
<1>2. CASE SongfactsSearch(l)
  <2>1. Fetching(l, "search")
    BY <1>2 DEF SongfactsSearch
  <2>2. CASE Set(l, Done(c))
    BY <1>1, <2>1, <2>2, LastAnswerNone
  <2>3. ASSUME NEW a \in 1 .. parts, Set(l, [c EXCEPT !.stage = "page", !.artist = a]) PROVE IInv'
    <3>. DEFINE new == [c EXCEPT !.stage = "page", !.artist = a]
    <3>1. /\ Ready(l, c) /\ c.target = lane[l].target
          /\ lane[l].stage = "search" /\ lane[l].requests \in Nat /\ Through(lane[l].target) \in Nat
          /\ lane[l].requests + Ahead(lane[l]) <= Through(lane[l].target) + Works(lane[l])
      BY <1>1, <2>1, AskedFacts
    <3>2. Ahead(lane[l]) = 2 /\ Works(lane[l]) = 0 /\ c.requests = lane[l].requests + 1
      BY <1>1, <3>1 DEF Ahead, Works, Each, Ready
    <3>3. c \in Lane /\ a \in 1 .. MaxParts /\ a <= parts
      BY <3>1, BoundsAssumption DEF Ready, IInv, TypeOK
    <3>4. /\ new \in Lane /\ new.docs = c.docs /\ new.stored = c.stored /\ new.failure = c.failure
          /\ new.requests = c.requests /\ new.target = c.target /\ new.artist = a
          /\ new.stage = "page"
      <4>. HIDE DEF c
      <4>. QED
        BY <3>3 DEF Lane, Stages
    <3>. HIDE DEF new
    <3>5. Ahead(new) = 1 /\ Works(new) = 0 /\ "page" \in StagesOf
      BY <1>1, <3>4 DEF Ahead, Works, StagesOf
    <3>6. c.requests + 1 <= Through(c.target) + 0
      BY <3>1, <3>2
    <3>7. Ready(l, new) /\ OnBudget(new)
      BY <3>1, <3>3, <3>4, <3>5, <3>6, StageFacts
    <3>. QED
      BY <1>1, <2>1, <2>3, <3>7, AnswerKeepsIInv DEF new
  <2>. QED
    BY <1>2, <2>2, <2>3 DEF SongfactsSearch
<1>3. CASE SongfactsPage(l)
  <2>1. Fetching(l, "page")
    BY <1>3 DEF SongfactsPage
  <2>2. CASE Set(l, Done(c))
    BY <1>1, <2>1, <2>2, LastAnswerNone
  <2>3. ASSUME NEW p \in Pages, Set(l, Done(Found(c, p, "song", c.artist))) PROVE IInv'
    <3>1. Ready(l, c)
      BY <1>1, <2>1, AskedFacts
    <3>2. c.artist \in 1 .. parts
      BY <3>1, BoundsAssumption DEF Ready, Aimed, Lane, IInv, TypeOK
    <3>. QED
      BY <1>1, <2>1, <2>3, <3>2, LastAnswer
  <2>. QED
    BY <1>3, <2>2, <2>3 DEF SongfactsPage
<1>. QED
  BY <1>2, <1>3

LEMMA LastFmCallKeepsIInv ==
  ASSUME IInv, NEW l \in Lanes, LastFmCall(l)
  PROVE  IInv'
<1>. DEFINE c == Asked(l)
<1>1. Fetching(l, "search") /\ source = "lastfm" /\ "search" \in Stages \ {"done"}
  BY DEF LastFmCall, Stages
<1>2. /\ Ready(l, c) /\ c.target = lane[l].target
      /\ lane[l].stage = "search" /\ lane[l].requests \in Nat /\ Through(lane[l].target) \in Nat
      /\ lane[l].requests + Ahead(lane[l]) <= Through(lane[l].target) + Works(lane[l])
  BY <1>1, AskedFacts
<1>3. Ahead(lane[l]) = 1 /\ Works(lane[l]) = 0 /\ c.requests = lane[l].requests + 1
  BY <1>1, <1>2 DEF Ahead, Works, Each, Ready
<1>4. c.requests <= Through(c.target)
  BY <1>2, <1>3
<1>5. CASE Set(l, Advance(c))
  BY <1>1, <1>2, <1>4, <1>5, NextTarget, AnswerKeepsIInv
<1>6. ASSUME NEW p \in Pages, Set(l, Advance(Found(c, p, SubjectOf(c.target), PartOf(c.target))))
      PROVE  IInv'
  <2>1. c.target \in Targets /\ SubjectOf(c.target) \in scope
    BY <1>2 DEF Ready, Aimed
  <2>2. SubjectOf(c.target) \in Subjects /\ PartOf(c.target) \in 1 .. parts
    BY <1>1, <2>1, TargetFacts DEF IInv
  <2>. DEFINE f == Found(c, p, SubjectOf(c.target), PartOf(c.target))
  <2>3. Ready(l, f) /\ f.target = c.target /\ f.requests = c.requests
    BY <1>2, <2>1, <2>2, FoundFacts
  <2>. HIDE DEF f
  <2>4. Ready(l, Advance(f)) /\ OnBudget(Advance(f))
    BY <1>4, <2>3, NextTarget
  <2>. QED
    BY <1>1, <1>6, <2>4, AnswerKeepsIInv DEF f
<1>. QED
  BY <1>5, <1>6 DEF LastFmCall

(* A stage of Genius after which at most n requests follow, for artist a. *)
LEMMA GeniusStep ==
  ASSUME IInv, NEW l \in Lanes, source = "genius",
         NEW stage \in Stages \ {"done"}, Fetching(l, stage),
         NEW c, Ready(l, c), c.target = lane[l].target,
         NEW new \in Lane, new.docs = c.docs, new.stored = c.stored, new.failure = c.failure,
         new.requests = c.requests, new.target = c.target, new.artist <= parts,
         <<stage, new.stage>> \in {<<"search", "page">>, <<"page", "more">>, <<"more", "artist">>},
         new.stage = "artist" => "artist" \in scope,
         Set(l, new)
  PROVE  IInv'
<1>1. /\ lane[l].stage = stage /\ lane[l].requests \in Nat /\ Through(lane[l].target) \in Nat
      /\ lane[l].requests + Ahead(lane[l]) <= Through(lane[l].target) + Works(lane[l])
  BY AskedFacts
<1>2. c.requests = lane[l].requests + 1
  BY DEF Ready
<1>3. Works(lane[l]) = 0 /\ Works(new) = 0 /\ new.stage \in StagesOf
  BY DEF Works, StagesOf
<1>4. Ahead(lane[l]) = Ahead(new) + 1 /\ Ahead(new) \in {1, 2, 3}
  BY <1>1 DEF Ahead, Each
<1>5. c.requests + Ahead(new) <= Through(c.target) + Works(new) /\ Ahead(new) >= 1
  BY <1>1, <1>2, <1>3, <1>4
<1>6. Ready(l, new) /\ OnBudget(new)
  BY <1>3, <1>5, StageFacts
<1>. QED
  BY <1>6, AnswerKeepsIInv

LEMMA GeniusKeepsIInv ==
  ASSUME IInv, NEW l \in Lanes,
         GeniusSearch(l) \/ GeniusSong(l) \/ GeniusReferents(l) \/ GeniusArtist(l)
  PROVE  IInv'
<1>. DEFINE c == Asked(l)
<1>1. /\ {"search", "page", "more", "artist"} \subseteq Stages \ {"done"}
      /\ "song" \in scope /\ "song" \in Subjects /\ "artist" \in Subjects /\ source = "genius"
  BY DEF Stages, IInv, Subjects, GeniusSearch, GeniusSong, GeniusReferents, GeniusArtist
<1>2. ASSUME NEW stage \in {"search", "page", "more", "artist"}, Fetching(l, stage)
      PROVE  /\ Ready(l, c) /\ c \in Lane /\ c.target = lane[l].target /\ lane[l].stage = stage
             /\ c.artist \in 1 .. parts /\ c.artist <= parts /\ Aimed(c)
  <2>1. Ready(l, c) /\ c.target = lane[l].target /\ lane[l].stage = stage
    BY <1>1, <1>2, AskedFacts
  <2>2. c \in Lane /\ c.artist <= parts /\ Aimed(c)
    BY <2>1 DEF Ready, Aimed
  <2>3. c.artist \in 1 .. MaxParts
    BY <2>2 DEF Lane
  <2>4. c.artist \in 1 .. parts
    BY <2>2, <2>3, BoundsAssumption DEF IInv, TypeOK
  <2>. QED
    BY <2>1, <2>2, <2>4
<1>3. CASE GeniusSearch(l)
  <2>1. Fetching(l, "search")
    BY <1>3 DEF GeniusSearch
  <2>2. CASE Set(l, Done(c))
    BY <1>1, <2>1, <2>2, LastAnswerNone
  <2>3. ASSUME NEW a \in 1 .. parts, Set(l, [c EXCEPT !.stage = "page", !.artist = a]) PROVE IInv'
    <3>. DEFINE new == [c EXCEPT !.stage = "page", !.artist = a]
    <3>1. Ready(l, c) /\ c \in Lane /\ c.target = lane[l].target
      BY <1>2, <2>1
    <3>2. a \in 1 .. MaxParts /\ a <= parts
      BY BoundsAssumption DEF IInv, TypeOK
    <3>3. /\ new \in Lane /\ new.docs = c.docs /\ new.stored = c.stored /\ new.failure = c.failure
          /\ new.requests = c.requests /\ new.target = c.target /\ new.artist = a
          /\ new.stage = "page"
      <4>. HIDE DEF c
      <4>. QED
        BY <3>1, <3>2 DEF Lane, Stages
    <3>4. Set(l, new)
      BY <2>3
    <3>. HIDE DEF new, c
    <3>. QED
      BY <1>1, <2>1, <3>1, <3>2, <3>3, <3>4, GeniusStep
  <2>. QED
    BY <1>3, <2>2, <2>3 DEF GeniusSearch
<1>4. CASE GeniusSong(l)
  <2>. DEFINE new == [c EXCEPT !.stage = "more"]
  <2>1. Fetching(l, "page") /\ Set(l, new)
    BY <1>4 DEF GeniusSong
  <2>2. Ready(l, c) /\ c \in Lane /\ c.target = lane[l].target /\ c.artist <= parts
    BY <1>2, <2>1
  <2>3. /\ new \in Lane /\ new.docs = c.docs /\ new.stored = c.stored /\ new.failure = c.failure
        /\ new.requests = c.requests /\ new.target = c.target /\ new.artist = c.artist
        /\ new.stage = "more"
    <3>. HIDE DEF c
    <3>. QED
      BY <2>2 DEF Lane, Stages
  <2>. HIDE DEF new, c
  <2>. QED
    BY <1>1, <2>1, <2>2, <2>3, GeniusStep
<1>5. CASE GeniusReferents(l)
  <2>. DEFINE next == IF "artist" \in scope THEN "artist" ELSE "done"
              after == [c EXCEPT !.stage = next]
  <2>1. Fetching(l, "more")
        /\ (Set(l, after) \/ \E p \in Pages : Set(l, Found(after, p, "song", after.artist)))
    BY <1>5 DEF GeniusReferents
  <2>2. /\ Ready(l, c) /\ c \in Lane /\ c.target = lane[l].target
        /\ c.artist \in 1 .. parts /\ c.artist <= parts
    BY <1>2, <2>1
  <2>3. next \in Stages /\ (next = "artist" => "artist" \in scope) /\ next \in {"artist", "done"}
    BY DEF Stages
  <2>4. /\ after \in Lane /\ after.docs = c.docs /\ after.stored = c.stored
        /\ after.failure = c.failure /\ after.requests = c.requests
        /\ after.target = c.target /\ after.artist = c.artist /\ after.stage = next
    <3>. HIDE DEF c, next
    <3>. QED
      BY <2>2, <2>3 DEF Lane
  <2>. HIDE DEF c, next, after
  <2>5. Ready(l, after)
    BY <2>2, <2>3, <2>4 DEF Ready, Aimed
  <2>6. ASSUME NEW new, Ready(l, new), new.stage = after.stage, new.target = after.target, Set(l, new)
        PROVE  IInv'
    <3>1. new \in Lane /\ new.artist <= parts
      BY <2>6 DEF Ready, Aimed
    <3>2. CASE next = "artist"
      <4>1. new.target = lane[l].target /\ new.stage = "artist" /\ "artist" \in scope
        BY <2>2, <2>3, <2>4, <2>6, <3>2
      <4>2. <<"more", new.stage>> \in {<<"search", "page">>, <<"page", "more">>, <<"more", "artist">>}
        BY <4>1
      <4>. QED
        BY <1>1, <2>1, <2>6, <3>1, <4>1, <4>2, GeniusStep
    <3>3. CASE next = "done"
      <4>1. OnBudget(new)
        BY <2>4, <2>6, <3>3, <1>1 DEF OnBudget, StagesOf
      <4>. QED
        BY <1>1, <2>1, <2>6, <4>1, AnswerKeepsIInv
    <3>. QED
      BY <2>3, <3>2, <3>3
  <2>7. ASSUME NEW p \in Pages, Set(l, Found(after, p, "song", after.artist)) PROVE IInv'
    BY <1>1, <2>2, <2>4, <2>5, <2>6, <2>7, FoundFacts
  <2>. QED
    BY <2>1, <2>5, <2>6, <2>7
<1>6. CASE GeniusArtist(l)
  <2>1. Fetching(l, "artist")
    BY <1>6 DEF GeniusArtist
  <2>2. CASE Set(l, Done(c))
    BY <1>1, <2>1, <2>2, LastAnswerNone
  <2>3. ASSUME NEW p \in Pages, Set(l, Done(Found(c, p, "artist", c.artist))) PROVE IInv'
    <3>1. c.artist \in 1 .. parts
      BY <1>2, <2>1
    <3>2. "artist" \in scope
      BY <2>1 DEF IInv, LaneOK, Aimed, Fetching
    <3>. QED
      BY <1>1, <2>1, <2>3, <3>1, <3>2, LastAnswer
  <2>. QED
    BY <1>6, <2>2, <2>3 DEF GeniusArtist
<1>. QED
  BY <1>3, <1>4, <1>5, <1>6

LEMMA RequestFailsKeepsIInv ==
  ASSUME IInv, NEW l \in Lanes, RequestFails(l)
  PROVE  IInv'
<1>1. PICK stage \in Stages \ {"done"}, failure \in {"transient", "permanent"} :
        /\ Fetching(l, stage)
        /\ lane' = [lane EXCEPT ![l] = [Asked(l) EXCEPT !.failure = failure]]
        /\ outcome' = IF failure = "transient" THEN "error" ELSE "no_match"
        /\ UNCHANGED <<source, parts, album, scope, unread, rows>>
  BY DEF RequestFails
<1>2. PICK c : c = Asked(l)
  OBVIOUS
<1>3. PICK new : new = [c EXCEPT !.failure = failure]
  OBVIOUS
<1>4. /\ Ready(l, c) /\ c.requests = lane[l].requests + 1 /\ c.requests <= MaxRequests
      /\ c.stage = stage /\ lane[l].stage = stage /\ c.docs = lane[l].docs /\ lane[l] \in Lane
  BY <1>1, <1>2, AskedFacts DEF Ready
<1>5. /\ new \in Lane /\ new.docs = c.docs /\ new.stored = c.stored
      /\ new.failure = failure /\ new.requests = c.requests
      /\ new.target = c.target /\ new.artist = c.artist /\ new.stage = c.stage
  BY <1>3, <1>4 DEF Ready, Lane
<1>6. /\ lane' \in [Lanes -> Lane] /\ lane'[l] = new
      /\ \A k \in Lanes : k # l => lane'[k] = lane[k]
  BY <1>1, <1>2, <1>3, <1>5 DEF IInv, TypeOK
<1>7. TypeOK'
  BY <1>1, <1>6 DEF IInv, TypeOK
<1>8. outcome = "none" /\ l \in LanesOf(source) /\ ~AllDone
  BY <1>1 DEF Fetching, AllDone
<1>9. \A k \in Lanes, p \in Pages : rows[k][p] = Untouched
  BY <1>8 DEF IInv, NoRowUnlessDone
<1>10. NoRowUnlessDone'
  BY <1>1, <1>9 DEF NoRowUnlessDone
<1>11. OutcomeEarned'
  <2>1. \A k \in Lanes : k # l => lane'[k].failure = "none"
    BY <1>6, <1>8 DEF IInv, LaneOK
  <2>2. lane'[l].failure = failure
    BY <1>5, <1>6
  <2>3. CASE failure = "transient"
    BY <1>1, <2>3 DEF OutcomeEarned
  <2>4. CASE failure = "permanent"
    <3>1. outcome' = "no_match" /\ lane'[l].failure = "permanent"
      BY <1>1, <2>2, <2>4
    <3>2. \A k \in Lanes : lane'[k].failure # "transient"
      BY <2>1, <3>1
    <3>. QED
      BY <3>1, <3>2 DEF OutcomeEarned
  <2>. QED
    BY <2>3, <2>4
<1>12. outcome' \in {"error", "no_match"}
  BY <1>1
<1>13. \A k \in Lanes : LaneOK(k)'
  <2>1. ASSUME NEW k \in Lanes, k # l PROVE LaneOK(k)'
    <3>1. LaneOK(k) /\ lane'[k] = lane[k]
      BY <1>6, <2>1 DEF IInv
    <3>2. Aimed(lane[k])'
      BY <1>1, <3>1, SameTask DEF LaneOK
    <3>3. Written(lane[k], rows[k])'
      <4>1. rows' = rows /\ lane'[k] = lane[k] /\ Written(lane[k], rows[k])
        BY <1>1, <3>1 DEF LaneOK
      <4>. QED
        BY <4>1 DEF Written
    <3>4. MaxRequests' = MaxRequests /\ LanesOf(source') = LanesOf(source)
      BY <1>1, SameTask
    <3>. QED
      BY <1>1, <1>12, <3>1, <3>2, <3>3, <3>4 DEF LaneOK
  <2>2. Aimed(new)'
    <3>1. Aimed(new)
      BY <1>4, <1>5 DEF Ready, Aimed
    <3>. QED
      BY <1>1, <3>1, SameTask
  <2>3. MaxRequests' = MaxRequests /\ LanesOf(source') = LanesOf(source)
    BY <1>1, SameTask
  <2>4. Written(new, rows[l])
    BY <1>4, <1>5, <1>9 DEF Written, IInv, LaneOK, Ready
  <2>5. LaneOK(l)'
    BY <1>1, <1>4, <1>5, <1>6, <1>8, <1>12, <2>2, <2>3, <2>4 DEF LaneOK
  <2>. QED
    BY <2>1, <2>5
<1>. QED
  BY <1>1, <1>7, <1>10, <1>11, <1>13 DEF IInv

-----------------------------------------------------------------------------
(* The steps that are no requests *)

LEMMA ReadFreshnessKeepsIInv ==
  ASSUME IInv, ReadFreshness
  PROVE  IInv'
<1>1. /\ UNCHANGED <<source, parts, album, lane, rows, outcome>>
      /\ unread <= parts + 1 /\ unread' = unread + 1
  BY DEF ReadFreshness
<1>2. scope' \in SUBSET Subjects /\ scope \subseteq scope'
  BY DEF ReadFreshness, IInv, TypeOK, Subjects
<1>3. unread' \in 1 .. MaxParts + 2 /\ unread' <= parts' + 2
  BY <1>1, BoundsAssumption DEF IInv, TypeOK
<1>4. TypeOK'
  BY <1>1, <1>2, <1>3 DEF IInv, TypeOK
<1>5. OutcomeEarned' /\ NoRowUnlessDone'
  BY <1>1 DEF IInv, OutcomeEarned, NoRowUnlessDone, AllDone, LanesOf
<1>6. \A l \in Lanes : LaneOK(l)'
  <2>1. /\ MaxRequests' = MaxRequests /\ LanesOf(source)' = LanesOf(source)
        /\ Targets' = Targets /\ StagesOf' = StagesOf /\ Each' = Each
    BY <1>1 DEF MaxRequests, LanesOf, Targets, StagesOf, Each
  <2>2. \A c : Aimed(c) => Aimed(c)'
    BY <1>1, <1>2, <2>1 DEF Aimed, SubjectOf
  <2>3. \A c : Ahead(c)' = Ahead(c) /\ Works(c)' = Works(c) /\ Through(c.target)' = Through(c.target)
    BY <1>1, <2>1 DEF Ahead, Works, Through
  <2>4. \A c : OnBudget(c) => OnBudget(c)'
    BY <1>1, <2>1, <2>3 DEF OnBudget
  <2>5. ASSUME NEW l \in Lanes PROVE LaneOK(l)'
    <3>1. LaneOK(l)
      BY DEF IInv
    <3>2. Aimed(lane[l])' /\ (OnBudget(lane[l]) => OnBudget(lane[l])')
      BY <1>1, <2>2, <2>4, <3>1 DEF LaneOK
    <3>3. Written(lane[l], rows[l])'
      BY <1>1, <3>1 DEF LaneOK, Written
    <3>. QED
      BY <1>1, <2>1, <3>1, <3>2, <3>3 DEF LaneOK
  <2>. QED
    BY <2>5
<1>. QED
  BY <1>2, <1>3, <1>4, <1>5, <1>6 DEF IInv

(* Of the lanes of other sources there is nothing. *)
LEMMA OtherLanes ==
  ASSUME IInv, NEW l \in Lanes, l \notin LanesOf(source)
  PROVE  lane[l].docs = <<>> /\ lane[l].stored = 0
BY DEF IInv, LaneOK, NewLane

LEMMA NothingFoundKeepsIInv ==
  ASSUME IInv, NothingFound
  PROVE  IInv'
<1>1. /\ UNCHANGED <<source, parts, album, scope, unread, lane, rows>>
      /\ outcome = "none" /\ outcome' = "no_match" /\ AllDone
      /\ \A l \in Lanes : lane[l].docs = <<>>
  BY OtherLanes DEF NothingFound
<1>2. TypeOK'
  BY <1>1 DEF IInv, TypeOK
<1>3. OutcomeEarned' /\ NoRowUnlessDone'
  BY <1>1 DEF IInv, LaneOK, OutcomeEarned, NoRowUnlessDone, AllDone, LanesOf
<1>4. ASSUME NEW l \in Lanes PROVE LaneOK(l)'
  <2>1. LaneOK(l)
    BY DEF IInv
  <2>2. MaxRequests' = MaxRequests /\ LanesOf(source') = LanesOf(source) /\ Aimed(lane[l])'
    BY <1>1, <2>1, SameTask DEF LaneOK
  <2>3. Written(lane[l], rows[l])'
    BY <1>1, <2>1 DEF LaneOK, Written
  <2>. QED
    BY <1>1, <2>1, <2>2, <2>3 DEF LaneOK
<1>. QED
  BY <1>1, <1>2, <1>3, <1>4 DEF IInv

LEMMA KeyIsNoMark ==
  ASSUME NEW d \in Document
  PROVE  d.key # Untouched /\ d.key # Kept /\ d.key \in Key /\ d.page \in Pages
<1>1. d.key \in [subject : {"song", "album", "artist"}, artist : Nat]
  BY BoundsAssumption DEF Document, Key, Subjects
<1>. QED
  BY <1>1, BoundsAssumption DEF Document

(* What upsert_document does to the row of document d of lane l, whose turn it is. *)
LEMMA UpsertedFacts ==
  ASSUME IInv, NEW l \in Lanes, NEW i \in DOMAIN lane[l].docs, Upserted(l, lane[l].docs[i])
  PROVE  /\ rows' \in [Lanes -> [Pages -> {Untouched, Kept} \cup Key]]
         /\ rows'[l][lane[l].docs[i].page] # Untouched
         /\ \A k \in Lanes : k # l => rows'[k] = rows[k]
         /\ \A j \in 1 .. lane[l].stored : rows'[l][lane[l].docs[j].page] # Untouched
         /\ \A p \in Pages : rows'[l][p] \in {Untouched, Kept} \/
              \E j \in DOMAIN lane[l].docs :
                lane[l].docs[j].page = p /\ rows'[l][p] = lane[l].docs[j].key
<1>1. PICK d : d = lane[l].docs[i]
  OBVIOUS
<1>2. d \in Document /\ lane[l].docs \in Seq(Document)
  BY <1>1 DEF IInv, TypeOK, Lane
<1>3. PICK row \in {d.key, IF rows[l][d.page] = Untouched THEN Kept ELSE rows[l][d.page]} :
        rows' = [rows EXCEPT ![l][d.page] = row]
  BY <1>1 DEF Upserted
<1>4. d.page \in Pages /\ d.key # Untouched /\ d.key \in Key /\ Kept # Untouched
  BY <1>2, KeyIsNoMark, BoundsAssumption
<1>5. rows \in [Lanes -> [Pages -> {Untouched, Kept} \cup Key]]
  BY DEF IInv, TypeOK
<1>6. row \in {Kept} \cup Key /\ row # Untouched /\ row \in {d.key, Kept, rows[l][d.page]}
  BY <1>3, <1>4, <1>5
<1>7. /\ rows' \in [Lanes -> [Pages -> {Untouched, Kept} \cup Key]]
      /\ rows'[l][d.page] = row
      /\ \A p \in Pages : p # d.page => rows'[l][p] = rows[l][p]
      /\ \A k \in Lanes : k # l => rows'[k] = rows[k]
  BY <1>3, <1>4, <1>5, <1>6
<1>8. Written(lane[l], rows[l])
  BY DEF IInv, LaneOK
<1>9. \A j \in 1 .. lane[l].stored : rows'[l][lane[l].docs[j].page] # Untouched
  <2>1. \A j \in 1 .. lane[l].stored : j \in DOMAIN lane[l].docs
    BY <1>2 DEF IInv, LaneOK, Aimed, TypeOK, Lane
  <2>2. \A j \in 1 .. lane[l].stored : lane[l].docs[j].page \in Pages
    BY <1>2, <2>1, KeyIsNoMark
  <2>. QED
    BY <1>6, <1>7, <1>8, <2>2 DEF Written
<1>10. ASSUME NEW p \in Pages
       PROVE  rows'[l][p] \in {Untouched, Kept} \/
                \E j \in DOMAIN lane[l].docs :
                  lane[l].docs[j].page = p /\ rows'[l][p] = lane[l].docs[j].key
  <2>1. CASE p # d.page
    <3>1. rows'[l][p] = rows[l][p]
      BY <1>7, <2>1
    <3>2. rows[l][p] \in {Untouched, Kept} \/
            \E j \in DOMAIN lane[l].docs :
              lane[l].docs[j].page = p /\ rows[l][p] = lane[l].docs[j].key
      BY <1>8 DEF Written
    <3>. QED
      BY <3>1, <3>2
  <2>2. CASE p = d.page /\ row = rows[l][d.page]
    <3>1. rows'[l][p] = rows[l][p]
      BY <1>7, <2>2
    <3>2. rows[l][p] \in {Untouched, Kept} \/
            \E j \in DOMAIN lane[l].docs :
              lane[l].docs[j].page = p /\ rows[l][p] = lane[l].docs[j].key
      BY <1>8 DEF Written
    <3>. QED
      BY <3>1, <3>2
  <2>3. CASE p = d.page /\ row = Kept
    BY <1>7, <2>3
  <2>4. CASE p = d.page /\ row = d.key
    <3>1. lane[l].docs[i].page = p /\ rows'[l][p] = lane[l].docs[i].key
      BY <1>1, <1>7, <2>4
    <3>. QED
      BY <3>1
  <2>. QED
    BY <1>6, <2>1, <2>2, <2>3, <2>4
<1>. QED
  BY <1>1, <1>6, <1>7, <1>9, <1>10

(* The document whose turn it is. *)
LEMMA NextDocument ==
  ASSUME IInv, NEW l \in Unstored
  PROVE  /\ l \in Lanes /\ l \in LanesOf(source) /\ lane[l] \in Lane
         /\ lane[l].stored + 1 \in DOMAIN lane[l].docs
         /\ lane[l].stored \in Nat /\ Len(lane[l].docs) \in Nat
<1>1. l \in LanesOf(source) /\ lane[l].stored < Len(lane[l].docs)
  BY DEF Unstored
<1>2. l \in Lanes
  BY <1>1, BoundsAssumption DEF LanesOf, Lanes
<1>3. lane[l] \in Lane
  BY <1>2 DEF IInv, TypeOK
<1>4. lane[l].docs \in Seq(Document) /\ lane[l].stored \in Nat
  BY <1>3 DEF Lane
<1>. QED
  BY <1>1, <1>2, <1>3, <1>4

LEMMA StoreDocumentKeepsIInv ==
  ASSUME IInv, StoreDocument
  PROVE  IInv'
<1>1. outcome = "none" /\ AllDone /\ UNCHANGED <<source, parts, album, scope, unread>>
  BY DEF StoreDocument
<1>2. PICK l \in Unstored :
        /\ Upserted(l, lane[l].docs[lane[l].stored + 1])
        /\ lane' = [lane EXCEPT ![l].stored = @ + 1]
        /\ outcome' = IF Unstored = {l} /\ lane[l].stored + 1 = Len(lane[l].docs)
                        THEN "found" ELSE "none"
  BY DEF StoreDocument
<1>3. /\ l \in Lanes /\ l \in LanesOf(source) /\ lane[l] \in Lane
      /\ lane[l].stored + 1 \in DOMAIN lane[l].docs
      /\ lane[l].stored \in Nat /\ Len(lane[l].docs) \in Nat
  BY NextDocument
<1>4. PICK new : new = [lane[l] EXCEPT !.stored = @ + 1]
  OBVIOUS
<1>5. /\ new \in Lane /\ new.docs = lane[l].docs /\ new.stored = lane[l].stored + 1
      /\ new.failure = lane[l].failure /\ new.requests = lane[l].requests
      /\ new.target = lane[l].target /\ new.artist = lane[l].artist /\ new.stage = lane[l].stage
      /\ new.left = lane[l].left
  BY SMTT(30), <1>3, <1>4 DEF Lane
<1>6. /\ lane' \in [Lanes -> Lane] /\ lane'[l] = new
      /\ \A k \in Lanes : k # l => lane'[k] = lane[k]
  BY <1>2, <1>3, <1>4, <1>5 DEF IInv, TypeOK
<1>7. /\ rows' \in [Lanes -> [Pages -> {Untouched, Kept} \cup Key]]
      /\ rows'[l][lane[l].docs[lane[l].stored + 1].page] # Untouched
      /\ \A k \in Lanes : k # l => rows'[k] = rows[k]
      /\ \A j \in 1 .. lane[l].stored : rows'[l][lane[l].docs[j].page] # Untouched
      /\ \A p \in Pages : rows'[l][p] \in {Untouched, Kept} \/
           \E j \in DOMAIN lane[l].docs :
             lane[l].docs[j].page = p /\ rows'[l][p] = lane[l].docs[j].key
  BY <1>2, <1>3, UpsertedFacts
<1>8. outcome' \in {"none", "found"}
  BY <1>2
<1>9. TypeOK'
  BY <1>1, <1>6, <1>7, <1>8 DEF IInv, TypeOK
<1>10. AllDone'
  <2>1. \A k \in LanesOf(source) : k \in Lanes
    BY BoundsAssumption DEF LanesOf, Lanes
  <2>. QED
    BY <1>1, <1>5, <1>6, <2>1 DEF AllDone, LanesOf
<1>11. \A k \in Lanes : lane'[k].failure = "none"
  BY <1>1, <1>5, <1>6 DEF IInv, LaneOK
<1>12. OutcomeEarned'
  <2>1. lane'[l].docs # <<>>
    BY <1>3, <1>5, <1>6
  <2>2. ~\E k \in Lanes : lane'[k].failure = "transient"
    BY <1>11
  <2>. QED
    BY <1>3, <1>8, <1>10, <2>1, <2>2 DEF OutcomeEarned
<1>13. ASSUME outcome' = "found", NEW k \in Lanes PROVE lane'[k].stored = Len(lane'[k].docs)
  <2>1. Unstored = {l} /\ lane[l].stored + 1 = Len(lane[l].docs)
    BY <1>2, <1>13
  <2>2. CASE k = l
    BY <1>5, <1>6, <2>1, <2>2
  <2>3. CASE k # l /\ k \in LanesOf(source)
    <3>1. ~(lane[k].stored < Len(lane[k].docs))
      BY <2>1, <2>3 DEF Unstored
    <3>2. lane[k].stored <= Len(lane[k].docs) /\ lane[k].stored \in Nat /\ lane[k].docs \in Seq(Document)
      BY DEF IInv, LaneOK, Aimed, TypeOK, Lane
    <3>. QED
      BY <1>6, <2>3, <3>1, <3>2
  <2>4. CASE k \notin LanesOf(source)
    <3>1. lane[k].docs = <<>> /\ lane[k].stored = 0 /\ k # l
      BY <1>3, <2>4, OtherLanes
    <3>. QED
      BY <1>6, <3>1
  <2>. QED
    BY <2>2, <2>3, <2>4
<1>14. ASSUME NEW k \in Lanes PROVE LaneOK(k)'
  <2>1. LaneOK(k) /\ LaneOK(l)
    BY <1>3 DEF IInv
  <2>2. MaxRequests' = MaxRequests /\ LanesOf(source') = LanesOf(source)
    BY <1>1, SameTask
  <2>3. CASE k # l
    <3>1. Aimed(lane[k])' /\ OnBudget(lane[k])'
      BY <1>1, <1>6, <2>1, <2>3, SameTask DEF LaneOK
    <3>2. rows'[k] = rows[k] /\ lane'[k] = lane[k] /\ Written(lane[k], rows[k])
      BY <1>6, <1>7, <2>1, <2>3 DEF LaneOK
    <3>3. Written(lane[k], rows[k])'
      BY <3>2 DEF Written
    <3>. QED
      BY <1>1, <1>8, <1>13, <2>1, <2>2, <3>1, <3>2, <3>3 DEF LaneOK
  <2>4. CASE k = l
    <3>1. Aimed(new)' /\ OnBudget(new)'
      <4>1. Aimed(lane[l]) /\ OnBudget(lane[l])
        BY <1>1, <2>1 DEF LaneOK
      <4>2. new.stored <= Len(new.docs)
        BY <1>3, <1>5
      <4>3. Aimed(new)
        BY <1>5, <4>1, <4>2 DEF Aimed
      <4>4. Ahead(new) = Ahead(lane[l]) /\ Works(new) = Works(lane[l])
        BY <1>5 DEF Ahead, Works
      <4>5. OnBudget(new)
        BY <1>5, <4>1, <4>4 DEF OnBudget
      <4>. QED
        BY <1>1, <4>3, <4>5, SameTask
    <3>2. Written(lane[l], rows[l])'
      <4>1. \A j \in 1 .. new.stored : j \in 1 .. lane[l].stored \/ j = lane[l].stored + 1
        BY <1>3, <1>5
      <4>2. \A j \in 1 .. new.stored : rows'[l][new.docs[j].page] # Untouched
        BY <1>5, <1>7, <4>1
      <4>3. \A p \in Pages : rows'[l][p] \in {Untouched, Kept} \/
              \E j \in DOMAIN new.docs : new.docs[j].page = p /\ rows'[l][p] = new.docs[j].key
        <5>1. PICK docs : docs = lane[l].docs
          OBVIOUS
        <5>2. \A p \in Pages : rows'[l][p] \in {Untouched, Kept} \/
                \E j \in DOMAIN docs : docs[j].page = p /\ rows'[l][p] = docs[j].key
          BY <1>7, <5>1
        <5>3. new.docs = docs
          BY <1>5, <5>1
        <5>. QED
          BY <5>2, <5>3
      <4>. QED
        BY <1>6, <4>2, <4>3 DEF Written
    <3>. QED
      BY <1>1, <1>3, <1>5, <1>6, <1>8, <1>13, <2>1, <2>2, <2>4, <3>1, <3>2 DEF LaneOK
  <2>. QED
    BY <2>3, <2>4
<1>. QED
  BY <1>1, <1>9, <1>10, <1>12, <1>14 DEF IInv, NoRowUnlessDone

LEMMA StoreFailsKeepsIInv ==
  ASSUME IInv, StoreFails
  PROVE  IInv'
<1>1. outcome = "none" /\ outcome' = "error" /\ AllDone
      /\ UNCHANGED <<source, parts, album, scope, unread, lane>>
  BY DEF StoreFails
<1>2. PICK l \in Unstored : Upserted(l, lane[l].docs[lane[l].stored + 1]) \/ UNCHANGED rows
  BY DEF StoreFails
<1>3. /\ l \in Lanes /\ lane[l].stored + 1 \in DOMAIN lane[l].docs
  BY NextDocument
<1>4. /\ rows' \in [Lanes -> [Pages -> {Untouched, Kept} \cup Key]]
      /\ \A k \in Lanes : Written(lane[k], rows'[k])
  <2>1. \A k \in Lanes : Written(lane[k], rows[k])
    BY DEF IInv, LaneOK
  <2>2. CASE UNCHANGED rows
    BY <2>1, <2>2 DEF IInv, TypeOK
  <2>3. CASE Upserted(l, lane[l].docs[lane[l].stored + 1])
    <3>1. /\ rows' \in [Lanes -> [Pages -> {Untouched, Kept} \cup Key]]
          /\ \A k \in Lanes : k # l => rows'[k] = rows[k]
          /\ Written(lane[l], rows'[l])
      BY <1>3, <2>3, UpsertedFacts DEF Written
    <3>2. ASSUME NEW k \in Lanes PROVE Written(lane[k], rows'[k])
      BY <2>1, <3>1
    <3>. QED
      BY <3>1, <3>2
  <2>. QED
    BY <1>2, <2>2, <2>3
<1>5. TypeOK'
  BY <1>1, <1>4 DEF IInv, TypeOK
<1>6. AllDone' /\ OutcomeEarned'
  BY <1>1 DEF IInv, LaneOK, OutcomeEarned, AllDone, LanesOf
<1>7. ASSUME NEW k \in Lanes PROVE LaneOK(k)'
  <2>1. LaneOK(k)
    BY DEF IInv
  <2>2. MaxRequests' = MaxRequests /\ LanesOf(source') = LanesOf(source) /\ Aimed(lane[k])'
    BY <1>1, <2>1, SameTask DEF LaneOK
  <2>3. Written(lane[k], rows[k])'
    <3>1. lane' = lane /\ Written(lane[k], rows'[k])
      BY <1>1, <1>4
    <3>. QED
      BY <3>1 DEF Written
  <2>. QED
    BY <1>1, <2>1, <2>2, <2>3 DEF LaneOK
<1>. QED
  BY <1>1, <1>5, <1>6, <1>7 DEF IInv, NoRowUnlessDone

-----------------------------------------------------------------------------
LEMMA InitEstablishesIInv ==
  ASSUME Init
  PROVE  IInv
<1>1. NewLane \in Lane
  BY BoundsAssumption DEF NewLane, Lane, Stages
<1>2. TypeOK
  BY <1>1, BoundsAssumption DEF Init, TypeOK, Subjects
<1>3. 1 \in Targets /\ SubjectOf(1) = "song"
  BY BoundsAssumption DEF Init, Targets, SubjectOf, Names
<1>4. \A l \in Lanes : lane[l] = NewLane
  BY DEF Init
<1>5. Aimed(NewLane)
  BY <1>3, BoundsAssumption DEF Aimed, Init, NewLane
<1>6. OnBudget(NewLane) /\ NewLane.requests <= MaxRequests
  <2>1. Each \in Nat \ {0} /\ Through(1) \in Nat /\ Through(1) = Each
    BY <1>2, EachType, ThroughFacts
  <2>2. Ahead(NewLane) = Each /\ Works(NewLane) = 0 /\ NewLane.stage \in StagesOf
    BY DEF Ahead, Works, StagesOf, NewLane
  <2>3. OnBudget(NewLane)
    BY <2>1, <2>2 DEF OnBudget, NewLane
  <2>4. MaxRequests \in Int
    BY <1>2, BoundsAssumption DEF MaxRequests, TypeOK, Names
  <2>5. 0 <= MaxRequests
    BY <1>2, <1>3, <2>1, <2>4, TargetFacts, BoundsAssumption
  <2>. QED
    BY <2>3, <2>5 DEF NewLane
<1>7. ASSUME NEW l \in Lanes PROVE Written(lane[l], rows[l])
  BY <1>4 DEF Written, Init, NewLane
<1>8. \A l \in Lanes : LaneOK(l)
  BY <1>4, <1>5, <1>6, <1>7 DEF LaneOK, Init, NewLane
<1>9. OutcomeEarned /\ NoRowUnlessDone
  BY <1>4 DEF OutcomeEarned, NoRowUnlessDone, Init, NewLane
<1>. QED
  BY <1>2, <1>8, <1>9, BoundsAssumption DEF IInv, Init

LEMMA NextKeepsIInv ==
  ASSUME IInv, [Next]_vars
  PROVE  IInv'
<1>1. CASE ReadFreshness
  BY <1>1, ReadFreshnessKeepsIInv
<1>2. ASSUME NEW l \in Lanes, Request(l) PROVE IInv'
  BY <1>2, SearchKeepsIInv, WikipediaPageKeepsIInv, MusicBrainzRecordingKeepsIInv,
     MusicBrainzWorkKeepsIInv, WikidataSearchKeepsIInv, WikidataEntitiesKeepsIInv,
     WikidataLabelsKeepsIInv, SongfactsKeepsIInv, LastFmCallKeepsIInv, GeniusKeepsIInv,
     RequestFailsKeepsIInv DEF Request
<1>3. CASE NothingFound
  BY <1>3, NothingFoundKeepsIInv
<1>4. CASE StoreDocument
  BY <1>4, StoreDocumentKeepsIInv
<1>5. CASE StoreFails
  BY <1>5, StoreFailsKeepsIInv
<1>6. CASE UNCHANGED vars
  <2>1. UNCHANGED <<source, parts, album, scope, unread, lane, rows, outcome>>
    BY <1>6 DEF vars
  <2>2. TypeOK' /\ OutcomeEarned' /\ NoRowUnlessDone'
    BY <2>1 DEF IInv, TypeOK, OutcomeEarned, NoRowUnlessDone, AllDone, LanesOf
  <2>3. ASSUME NEW l \in Lanes PROVE LaneOK(l)'
    <3>1. LaneOK(l)
      BY DEF IInv
    <3>2. /\ MaxRequests' = MaxRequests /\ LanesOf(source') = LanesOf(source)
          /\ Aimed(lane[l])' /\ (OnBudget(lane[l]) => OnBudget(lane[l])')
      BY <2>1, <3>1, SameTask DEF LaneOK
    <3>3. Written(lane[l], rows[l])'
      BY <2>1, <3>1 DEF LaneOK, Written
    <3>. QED
      BY <2>1, <3>1, <3>2, <3>3 DEF LaneOK
  <2>. QED
    BY <2>1, <2>2, <2>3 DEF IInv
<1>. QED
  BY <1>1, <1>2, <1>3, <1>4, <1>5, <1>6 DEF Next

-----------------------------------------------------------------------------
(* In every reachable state a lane is on budget, what it found is in scope, and a row   *)
(* is only written once every lane is done.                                             *)
THEOREM IInvHolds == Spec => []IInv
<1>1. Init => IInv
  BY InitEstablishesIInv
<1>2. IInv /\ [Next]_vars => IInv'
  BY NextKeepsIInv
<1>. QED
  BY <1>1, <1>2, PTL DEF Spec

(* Every variable stays in its type. *)
THEOREM TypeOKHolds == Spec => []TypeOK
<1>1. IInv => TypeOK
  BY DEF IInv
<1>. QED
  BY <1>1, IInvHolds, PTL

(* The outcome a worker reports for a source is what the source's answers say.          *)
THEOREM OutcomesAreEarned == Spec => []OutcomeEarned
<1>1. IInv => OutcomeEarned
  BY DEF IInv
<1>. QED
  BY <1>1, IInvHolds, PTL

(* The fetch of a source ends: no lane makes more requests than the bound, whatever is  *)
(* answered.                                                                            *)
THEOREM FetchIsBounded == Spec => []RequestsBounded
<1>1. IInv => RequestsBounded
  BY DEF IInv, LaneOK, RequestsBounded
<1>. QED
  BY <1>1, IInvHolds, PTL

(* What is found is stored, under the keys of this track, and nothing of a fetch that   *)
(* failed.                                                                              *)
THEOREM DocumentsAreStored == Spec => []StoredAsFound
<1>1. ASSUME IInv PROVE StoredAsFound
  <2>1. (\E l \in Lanes, p \in Pages : rows[l][p] # Untouched) => AllDone
    BY <1>1 DEF IInv, NoRowUnlessDone
  <2>2. ASSUME NEW l \in Lanes, NEW p \in Pages
        PROVE  LET keys == {lane[l].docs[i].key : i \in {j \in DOMAIN lane[l].docs : lane[l].docs[j].page = p}} IN
               /\ outcome = "found" /\ keys # {} => rows[l][p] # Untouched
               /\ rows[l][p] \in {Untouched, Kept} \cup keys
               /\ \A k \in keys : k.subject \in scope /\ k.artist <= parts
    <3>. DEFINE of == {j \in DOMAIN lane[l].docs : lane[l].docs[j].page = p}
                keys == {lane[l].docs[i].key : i \in of}
    <3>1. Aimed(lane[l]) /\ Written(lane[l], rows[l]) /\ lane[l].docs \in Seq(Document)
          /\ (outcome = "found" => lane[l].stored = Len(lane[l].docs))
      BY <1>1 DEF IInv, LaneOK, TypeOK, Lane
    <3>2. ASSUME outcome = "found", keys # {} PROVE rows[l][p] # Untouched
      <4>1. PICK i \in DOMAIN lane[l].docs : lane[l].docs[i].page = p
        BY <3>2
      <4>2. i \in 1 .. lane[l].stored
        BY <3>1, <3>2
      <4>. QED
        BY <3>1, <4>1, <4>2 DEF Written
    <3>3. rows[l][p] \in {Untouched, Kept} \cup keys
      BY <3>1 DEF Written
    <3>4. \A k \in keys : k.subject \in scope /\ k.artist <= parts
      BY <3>1 DEF Aimed
    <3>. QED
      BY <3>2, <3>3, <3>4
  <2>. QED
    BY <2>1, <2>2 DEF StoredAsFound
<1>. QED
  BY <1>1, IInvHolds, PTL
=============================================================================
