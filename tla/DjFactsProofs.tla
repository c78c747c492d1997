---------------------------- MODULE DjFactsProofs ----------------------------
(* The invariants of DjFacts hold for any facts, calls, users and events.               *)
EXTENDS DjFacts, TLAPS

(* A row's contribution has ended, and confirmed it; an answer says what the row is.    *)
Confirmed(f) ==
  facts[f] # None =>
    LET r == contributions[facts[f]] IN
    /\ r.pc \in {"done", "dropped"} /\ r.fact = f /\ r.form = "good"
    /\ \A p \in Parts(f) : r.read[p] = "supports"

(* The request under way is one of the fact's; whatever comes before it was answered.   *)
Reading(r) ==
  /\ r.part \in Parts(r.fact)
  /\ r.part = "labels" => r.read["entity"] \in Sayings

Truthful(c) ==
  LET r == contributions[c] IN
  /\ r.pc = "fetch" => Reading(r)
  /\ r.pc \in {"fetch", "insert"} => r.fact \in Facts /\ r.form # "malformed"
  /\ r.pc = "insert" => Supported(r)
  /\ r.pc # "done" => r.answer = "none"
  /\ r.answer = "created" => r.fact \in Facts /\ r.id # None /\ r.id = facts[r.fact]
  /\ (r.answer = "bad_request" /\ r.form = "good") =>
       r.refused \/ \E p \in Parts(r.fact) : r.read[p] \in {"other", "missing"}

ReportSound(r) ==
  LET v == reports[r] IN
  /\ (v.pc \in {"insert", "read"} \/ v.answer \in {"no_content", "not_found"}) =>
       v.user \in Users /\ v.event \in Events /\ v.fact \in Facts
  /\ v.known /\ v.pc \in {"insert", "read"} => facts[v.fact] # None
  /\ v.known /\ v.pc = "read" => plays[v.user][v.event] # None
  /\ v.answer = "no_content" =>
       plays[v.user][v.event] # None /\ plays[v.user][v.event].fact = v.fact
  /\ v.answer = "not_found" /\ v.known =>
       plays[v.user][v.event] # None /\ plays[v.user][v.event].fact # v.fact

IInv ==
  /\ TypeOK
  /\ \A f \in Facts : Confirmed(f)
  /\ \A c \in Contributions : Truthful(c)
  /\ \A r \in Reports : ReportSound(r)

-----------------------------------------------------------------------------
LEMMA InitIInv == Init => IInv
<1>. SUFFICES ASSUME Init PROVE IInv
  OBVIOUS
<1>1. NotContributed \in Contribution /\ NotReported \in Report
  BY FactsAssumption DEF NotContributed, Contribution, NotReported, Report, NothingRead, AllParts,
                         Sayings, Forms
<1>2. TypeOK
  BY <1>1 DEF Init, TypeOK
<1>3. \A f \in Facts : Confirmed(f)
  BY DEF Init, Confirmed
<1>4. \A c \in Contributions : Truthful(c)
  BY DEF Init, Truthful, NotContributed
<1>5. \A r \in Reports : ReportSound(r)
  BY DEF Init, ReportSound, NotReported
<1>. QED
  BY <1>2, <1>3, <1>4, <1>5 DEF IInv

(* A row, once there, stays. *)
RowsStay == \A f \in Facts : facts[f] # None => facts'[f] = facts[f]
(* An event, once recorded, names its fact for good. *)
EventsStay ==
  \A u \in Users, e \in Events :
    plays[u][e] # None => plays'[u][e] # None /\ plays'[u][e].fact = plays[u][e].fact

(* A step of one contribution, which may store its fact. *)
LEMMA ContributionStep ==
  ASSUME IInv, UNCHANGED <<plays, reports>>, NEW c \in Contributions, NEW new \in Contribution,
         contributions[c].pc \notin {"done", "dropped"},
         contributions' = [contributions EXCEPT ![c] = new],
         facts' \in [Facts -> Contributions \cup {None}], RowsStay,
         \A f \in Facts : facts[f] = None /\ facts'[f] # None =>
           /\ facts'[f] = c /\ new.pc \in {"done", "dropped"} /\ new.fact = f /\ new.form = "good"
           /\ \A p \in Parts(f) : new.read[p] = "supports",
         Truthful(c)'
  PROVE  IInv'
<1>1. contributions'[c] = new /\ \A d \in Contributions \ {c} : contributions'[d] = contributions[d]
  BY DEF IInv, TypeOK
<1>2. TypeOK'
  BY DEF IInv, TypeOK
<1>3. ASSUME NEW f \in Facts
      PROVE  Confirmed(f)'
  <2>1. CASE facts[f] # None
    <3>1. facts'[f] = facts[f] /\ facts[f] \in Contributions /\ facts[f] # c
      BY <2>1 DEF RowsStay, IInv, TypeOK, Confirmed
    <3>. QED
      BY <1>1, <2>1, <3>1 DEF IInv, Confirmed
  <2>2. CASE facts[f] = None
    BY <1>1, <2>2 DEF Confirmed
  <2>. QED
    BY <2>1, <2>2
<1>4. ASSUME NEW d \in Contributions \ {c}
      PROVE  Truthful(d)'
  <2>1. Truthful(d) /\ contributions'[d] = contributions[d]
    BY <1>1 DEF IInv
  <2>2. contributions[d].answer = "created" => facts'[contributions[d].fact] = facts[contributions[d].fact]
    BY <2>1 DEF Truthful, RowsStay
  <2>. QED
    BY <2>1, <2>2 DEF Truthful, Supported, Reading
<1>5. ASSUME NEW r \in Reports
      PROVE  ReportSound(r)'
  BY DEF IInv, ReportSound, RowsStay
<1>. QED
  BY <1>2, <1>3, <1>4, <1>5 DEF IInv

(* A step of one report, which may record its event. *)
LEMMA ReportStep ==
  ASSUME IInv, UNCHANGED <<facts, contributions>>, NEW r \in Reports, NEW new \in Report,
         reports' = [reports EXCEPT ![r] = new],
         plays' \in [Users -> [Events -> Play \cup {None}]], EventsStay, ReportSound(r)'
  PROVE  IInv'
<1>1. \A s \in Reports \ {r} : reports'[s] = reports[s]
  BY DEF IInv, TypeOK
<1>2. TypeOK'
  BY DEF IInv, TypeOK
<1>3. ASSUME NEW s \in Reports \ {r}
      PROVE  ReportSound(s)'
  BY <1>1 DEF IInv, ReportSound, EventsStay
<1>4. (\A f \in Facts : Confirmed(f)') /\ (\A c \in Contributions : Truthful(c)')
  BY DEF IInv, Confirmed, Truthful
<1>. QED
  BY <1>2, <1>3, <1>4 DEF IInv

-----------------------------------------------------------------------------
(* contribute *)

(* A step of one contribution that stores nothing. *)
LEMMA NothingStored ==
  ASSUME IInv, UNCHANGED <<facts, plays, reports>>, NEW c \in Contributions, NEW new \in Contribution,
         contributions[c].pc \notin {"done", "dropped"},
         contributions' = [contributions EXCEPT ![c] = new], Truthful(c)'
  PROVE  IInv'
<1>1. facts' \in [Facts -> Contributions \cup {None}] /\ RowsStay
  BY DEF IInv, TypeOK, RowsStay
<1>2. \A f \in Facts : ~(facts[f] = None /\ facts'[f] # None)
  OBVIOUS
<1>. QED
  BY <1>1, <1>2, ContributionStep

LEMMA NotContributedTypes == NotContributed \in Contribution
BY FactsAssumption DEF NotContributed, Contribution, NothingRead, AllParts, Sayings, Forms

LEMMA ContributeKeepsIInv ==
  ASSUME IInv, NEW c \in Contributions, Contribute(c)
  PROVE  IInv'
<1>1. /\ contributions[c].pc = "idle" /\ UNCHANGED <<facts, plays, reports>>
      /\ contributions \in [Contributions -> Contribution]
  BY DEF Contribute, IInv, TypeOK
<1>2. PICK f \in Facts, form \in Forms :
        LET r == [NotContributed EXCEPT !.fact = f, !.form = form, !.part = FirstPart(f)] IN
        IF form = "malformed" THEN Answered(c, [NotContributed EXCEPT !.form = form], "bad_request")
                              ELSE Set(c, [r EXCEPT !.pc = "fetch"])
  BY DEF Contribute
<1>3. CASE form = "malformed"
  <2>. DEFINE new == [[NotContributed EXCEPT !.form = form] EXCEPT !.pc = "done",
                                                                   !.answer = "bad_request"]
  <2>1. contributions' = [contributions EXCEPT ![c] = new]
    BY <1>2, <1>3 DEF Answered, Set
  <2>2. new \in Contribution /\ new.pc = "done" /\ new.answer = "bad_request" /\ new.form = "malformed"
    BY <1>3, NotContributedTypes DEF Contribution
  <2>. HIDE DEF new
  <2>3. contributions'[c] = new
    BY <1>1, <2>1
  <2>4. Truthful(c)'
    BY <2>2, <2>3 DEF Truthful
  <2>. QED
    BY <1>1, <2>1, <2>2, <2>4, NothingStored
<1>4. CASE form # "malformed"
  <2>. DEFINE new == [[NotContributed EXCEPT !.fact = f, !.form = form, !.part = FirstPart(f)]
                        EXCEPT !.pc = "fetch"]
  <2>1. contributions' = [contributions EXCEPT ![c] = new]
    BY <1>2, <1>4 DEF Set
  <2>2. /\ new \in Contribution /\ new.pc = "fetch" /\ new.fact = f /\ new.form = form
        /\ new.answer = "none" /\ new.part = FirstPart(f)
    <3>1. NotContributed.answer = "none"
      BY DEF NotContributed
    <3>. QED
      BY <3>1, NotContributedTypes DEF Contribution, FirstPart, AllParts
  <2>. HIDE DEF new
  <2>3. contributions'[c] = new
    BY <1>1, <2>1
  <2>4. Reading(new)
    BY <2>2 DEF Reading, FirstPart, Parts
  <2>5. Truthful(c)'
    BY <1>4, <2>2, <2>3, <2>4 DEF Truthful, Reading
  <2>. QED
    BY <1>1, <2>1, <2>2, <2>5, NothingStored
<1>. QED
  BY <1>3, <1>4

(* A contribution is given up: the request or a statement failed, or nobody waits. *)
LEMMA GivenUp ==
  ASSUME IInv, UNCHANGED <<facts, plays, reports>>, NEW c \in Contributions,
         contributions[c].pc \notin {"done", "dropped"},
         Failed(c) \/ Set(c, [NotContributed EXCEPT !.pc = "dropped"])
  PROVE  IInv'
<1>1. PICK new \in Contribution :
        /\ contributions' = [contributions EXCEPT ![c] = new]
        /\ \/ new.pc = "done" /\ new.answer = "internal"
           \/ new.pc = "dropped" /\ new.answer = "none"
  <2>1. NotContributed.answer = "none"
    BY DEF NotContributed
  <2>2. CASE Failed(c)
    <3>. DEFINE new == [NotContributed EXCEPT !.pc = "done", !.answer = "internal"]
    <3>1. new \in Contribution /\ new.pc = "done" /\ new.answer = "internal"
      BY NotContributedTypes DEF Contribution
    <3>2. contributions' = [contributions EXCEPT ![c] = new]
      BY <2>2 DEF Failed, Answered, Set
    <3>. QED
      BY <3>1, <3>2
  <2>3. CASE Set(c, [NotContributed EXCEPT !.pc = "dropped"])
    <3>. DEFINE new == [NotContributed EXCEPT !.pc = "dropped"]
    <3>1. new \in Contribution /\ new.pc = "dropped" /\ new.answer = "none"
      BY <2>1, NotContributedTypes DEF Contribution
    <3>2. contributions' = [contributions EXCEPT ![c] = new]
      BY <2>3 DEF Set
    <3>. QED
      BY <3>1, <3>2
  <2>. QED
    BY <2>2, <2>3
<1>2. contributions'[c] = new
  BY <1>1 DEF IInv, TypeOK
<1>3. Truthful(c)'
  BY <1>1, <1>2 DEF Truthful
<1>. QED
  BY <1>1, <1>3, NothingStored

LEMMA FetchFailsKeepsIInv ==
  ASSUME IInv, NEW c \in Contributions, FetchFails(c)
  PROVE  IInv'
<1>. DEFINE r == contributions[c]
<1>1. /\ r.pc = "fetch" /\ UNCHANGED <<facts, plays, reports>> /\ r \in Contribution /\ Truthful(c)
      /\ contributions \in [Contributions -> Contribution]
  BY DEF FetchFails, IInv, TypeOK
<1>2. CASE r.retries < MaxRetries /\ Set(c, [r EXCEPT !.retries = @ + 1])
  <2>. DEFINE new == [r EXCEPT !.retries = r.retries + 1]
  <2>1. r.retries + 1 \in 0 .. MaxRetries
    BY <1>1, <1>2, FactsAssumption DEF Contribution
  <2>2. new \in Contribution
    BY <1>1, <2>1 DEF Contribution
  <2>3. /\ new.pc = "fetch" /\ new.fact = r.fact /\ new.form = r.form /\ new.answer = r.answer
        /\ new.part = r.part /\ new.read = r.read
    BY <1>1 DEF Contribution
  <2>4. contributions' = [contributions EXCEPT ![c] = new]
    BY <1>2 DEF Set
  <2>. HIDE DEF new
  <2>5. contributions'[c] = new
    BY <1>1, <2>4
  <2>6. Truthful(c)'
    BY <1>1, <2>3, <2>5 DEF Truthful, Reading
  <2>. QED
    BY <1>1, <2>2, <2>4, <2>6, NothingStored
<1>3. CASE Failed(c)
  BY <1>1, <1>3, GivenUp
<1>4. CASE Answered(c, [r EXCEPT !.refused = TRUE], "bad_request")
  <2>. DEFINE new == [[r EXCEPT !.refused = TRUE] EXCEPT !.pc = "done", !.answer = "bad_request"]
  <2>1. new \in Contribution /\ new.pc = "done" /\ new.answer = "bad_request" /\ new.refused
    BY <1>1 DEF Contribution
  <2>2. contributions' = [contributions EXCEPT ![c] = new]
    BY <1>4 DEF Answered, Set
  <2>. HIDE DEF new
  <2>3. contributions'[c] = new
    BY <1>1, <2>2
  <2>4. Truthful(c)'
    BY <2>1, <2>3 DEF Truthful
  <2>. QED
    BY <1>1, <2>1, <2>2, <2>4, NothingStored
<1>. QED
  BY <1>2, <1>3, <1>4 DEF FetchFails

LEMMA FetchSucceedsKeepsIInv ==
  ASSUME IInv, NEW c \in Contributions, FetchSucceeds(c)
  PROVE  IInv'
<1>. DEFINE r == contributions[c]
<1>1. /\ r.pc = "fetch" /\ UNCHANGED <<facts, plays, reports>> /\ r \in Contribution /\ Truthful(c)
      /\ contributions \in [Contributions -> Contribution]
  BY DEF FetchSucceeds, IInv, TypeOK
<1>2. PICK saying \in Sayings :
        LET read == [r EXCEPT !.read[r.part] = saying] IN
        \/ r.part = "entity" /\ Set(c, [read EXCEPT !.part = "labels", !.retries = 0])
        \/ /\ r.part = "entity" => saying = "missing"
           /\ IF Supported(read) THEN Set(c, [read EXCEPT !.pc = "insert"])
                                 ELSE Answered(c, read, "bad_request")
  BY DEF FetchSucceeds
<1>3. PICK read \in Contribution :
        /\ read = [r EXCEPT !.read[r.part] = saying]
        /\ read.pc = "fetch" /\ read.fact = r.fact /\ read.form = r.form /\ read.answer = r.answer
        /\ read.part = r.part /\ read.read[r.part] = saying
        /\ \A p \in AllParts \ {r.part} : read.read[p] = r.read[p]
  <2>1. /\ [r.read EXCEPT ![r.part] = saying] \in [AllParts -> Sayings \cup {"unread"}]
        /\ [r.read EXCEPT ![r.part] = saying][r.part] = saying
        /\ \A p \in AllParts \ {r.part} : [r.read EXCEPT ![r.part] = saying][p] = r.read[p]
    BY <1>1 DEF Contribution
  <2>. DEFINE new == [r EXCEPT !.read = [r.read EXCEPT ![r.part] = saying]]
  <2>2. new \in Contribution /\ new.pc = r.pc /\ new.fact = r.fact /\ new.form = r.form
        /\ new.answer = r.answer /\ new.part = r.part
        /\ new.read = [r.read EXCEPT ![r.part] = saying]
    BY <1>1, <2>1 DEF Contribution
  <2>3. new = [r EXCEPT !.read[r.part] = saying]
    OBVIOUS
  <2>. QED
    BY <1>1, <2>1, <2>2, <2>3
<1>4. read.fact \in Facts /\ read.form # "malformed" /\ read.answer = "none"
  BY <1>1, <1>3 DEF Truthful
<1>5. CASE r.part = "entity" /\ Set(c, [read EXCEPT !.part = "labels", !.retries = 0])
  <2>. DEFINE new == [read EXCEPT !.part = "labels", !.retries = 0]
  <2>1. /\ new \in Contribution /\ new.pc = "fetch" /\ new.fact = read.fact /\ new.form = read.form
        /\ new.answer = read.answer /\ new.part = "labels" /\ new.read = read.read
    <3>1. 0 \in 0 .. MaxRetries /\ "labels" \in AllParts
      BY FactsAssumption DEF AllParts
    <3>. QED
      BY <1>3, <3>1 DEF Contribution
  <2>2. contributions' = [contributions EXCEPT ![c] = new]
    BY <1>5 DEF Set
  <2>. HIDE DEF new
  <2>3. contributions'[c] = new
    BY <1>1, <2>2
  <2>4. Reading(new)
    <3>1. r.part \in Parts(r.fact)
      BY <1>1 DEF Truthful, Reading
    <3>2. "labels" \in Parts(new.fact)
      BY <1>3, <1>5, <2>1, <3>1 DEF Parts
    <3>. QED
      BY <1>3, <1>5, <2>1, <3>2 DEF Reading
  <2>5. Truthful(c)'
    BY <1>4, <2>1, <2>3, <2>4 DEF Truthful, Reading
  <2>. QED
    BY <1>1, <2>1, <2>2, <2>5, NothingStored
<1>6. CASE Supported(read) /\ Set(c, [read EXCEPT !.pc = "insert"])
  <2>. DEFINE new == [read EXCEPT !.pc = "insert"]
  <2>1. /\ new \in Contribution /\ new.pc = "insert" /\ new.fact = read.fact /\ new.form = read.form
        /\ new.answer = read.answer /\ new.read = read.read
    BY <1>3 DEF Contribution
  <2>2. contributions' = [contributions EXCEPT ![c] = new]
    BY <1>6 DEF Set
  <2>. HIDE DEF new
  <2>3. contributions'[c] = new
    BY <1>1, <2>2
  <2>4. Supported(new)
    BY <1>6, <2>1 DEF Supported
  <2>5. Truthful(c)'
    BY <1>4, <2>1, <2>3, <2>4 DEF Truthful, Supported
  <2>. QED
    BY <1>1, <2>1, <2>2, <2>5, NothingStored
<1>7. CASE /\ r.part = "entity" => saying = "missing"
           /\ ~Supported(read) /\ Answered(c, read, "bad_request")
  <2>. DEFINE new == [read EXCEPT !.pc = "done", !.answer = "bad_request"]
  <2>1. /\ new \in Contribution /\ new.pc = "done" /\ new.fact = read.fact /\ new.form = read.form
        /\ new.answer = "bad_request" /\ new.read = read.read
    BY <1>3 DEF Contribution
  <2>2. contributions' = [contributions EXCEPT ![c] = new]
    BY <1>7 DEF Answered, Set
  <2>. HIDE DEF new
  <2>3. contributions'[c] = new
    BY <1>1, <2>2
  <2>4. new.form = "good" => \E p \in Parts(new.fact) : new.read[p] \in {"other", "missing"}
    <3>. SUFFICES ASSUME read.form = "good"
                  PROVE  \E p \in Parts(r.fact) : read.read[p] \in {"other", "missing"}
      BY <1>3, <2>1
    <3>1. PICK q \in Parts(r.fact) : read.read[q] # "supports"
      BY <1>3, <1>7 DEF Supported
    <3>2. r.part \in Parts(r.fact) /\ (r.part = "labels" => r.read["entity"] \in Sayings)
      BY <1>1 DEF Truthful, Reading
    <3>3. CASE r.part = "entity"
      BY <1>3, <1>7, <3>2, <3>3
    <3>4. CASE r.part = "labels"
      <4>1. "entity" \in AllParts \ {r.part} /\ q \in {"entity", "labels"}
        BY <3>1, <3>2, <3>4 DEF AllParts, Parts
      <4>2. read.read["entity"] \in Sayings /\ read.read["labels"] \in Sayings
        BY <1>3, <3>2, <3>4, <4>1
      <4>. QED
        BY <3>1, <4>1, <4>2 DEF Sayings
    <3>5. CASE r.part = "page"
      BY <1>3, <3>1, <3>2, <3>5 DEF Parts, Sayings
    <3>. QED
      BY <1>1, <3>3, <3>4, <3>5 DEF Contribution, AllParts
  <2>5. Truthful(c)'
    BY <2>1, <2>3, <2>4 DEF Truthful
  <2>. QED
    BY <1>1, <2>1, <2>2, <2>5, NothingStored
<1>. QED
  BY <1>2, <1>3, <1>5, <1>6, <1>7

(* The INSERT of c is executed, whether or not its answer is waited for. *)
LEMMA Stored_ ==
  ASSUME IInv, UNCHANGED <<plays, reports>>, NEW c \in Contributions, NEW new \in Contribution,
         contributions[c].pc = "insert", contributions' = [contributions EXCEPT ![c] = new],
         facts' = [facts EXCEPT ![contributions[c].fact] = IF @ = None THEN c ELSE @],
         new.fact = contributions[c].fact, new.form = contributions[c].form,
         new.read = contributions[c].read,
         \/ new.pc = "dropped" /\ new.answer = "none"
         \/ new.pc = "done" /\ new.answer = "created" /\ new.id = facts'[new.fact]
  PROVE  IInv'
<1>. DEFINE r == contributions[c]
<1>1. /\ r.fact \in Facts /\ r \in Contribution /\ r.form = "good"
      /\ \A p \in Parts(r.fact) : r.read[p] = "supports"
  BY DEF IInv, Truthful, Supported, TypeOK, Contribution, Forms
<1>2. c # None
  BY FactsAssumption
<1>3. /\ facts' \in [Facts -> Contributions \cup {None}] /\ facts'[r.fact] # None
      /\ \A f \in Facts : facts'[f] = facts[f] \/ (f = r.fact /\ facts[f] = None /\ facts'[f] = c)
  <2>1. PICK g \in Facts : g = r.fact
    BY <1>1
  <2>2. PICK row \in Contributions \cup {None} : row = (IF facts[g] = None THEN c ELSE facts[g])
    BY DEF IInv, TypeOK
  <2>3. facts' = [facts EXCEPT ![g] = row]
    BY <2>1, <2>2
  <2>4. facts \in [Facts -> Contributions \cup {None}]
    BY DEF IInv, TypeOK
  <2>5. /\ facts' \in [Facts -> Contributions \cup {None}] /\ facts'[g] = row
        /\ \A f \in Facts : f # g => facts'[f] = facts[f]
    BY <2>3, <2>4
  <2>. QED
    BY <1>2, <2>1, <2>2, <2>5
<1>4. RowsStay
  BY <1>3 DEF RowsStay
<1>5. contributions'[c] = new
  BY DEF IInv, TypeOK
<1>6. Truthful(c)'
  BY <1>1, <1>3, <1>5 DEF Truthful
<1>7. \A f \in Facts : facts[f] = None /\ facts'[f] # None =>
        /\ facts'[f] = c /\ new.pc \in {"done", "dropped"} /\ new.fact = f /\ new.form = "good"
        /\ \A p \in Parts(f) : new.read[p] = "supports"
  BY <1>1, <1>3
<1>. QED
  BY <1>3, <1>4, <1>6, <1>7, ContributionStep

LEMMA InsertKeepsIInv ==
  ASSUME IInv, NEW c \in Contributions, Insert(c)
  PROVE  IInv'
<1>. DEFINE r == contributions[c]
<1>1. /\ r.pc = "insert" /\ UNCHANGED <<plays, reports>> /\ r \in Contribution /\ r.fact \in Facts
      /\ facts \in [Facts -> Contributions \cup {None}]
  BY DEF Insert, IInv, TypeOK, Truthful
<1>2. PICK id \in Contributions : id = IF facts[r.fact] = None THEN c ELSE facts[r.fact]
  BY <1>1
<1>3. facts' = [facts EXCEPT ![r.fact] = id]
  BY <1>2 DEF Insert
<1>. DEFINE new == [r EXCEPT !.pc = "done", !.answer = "created", !.id = id]
<1>4. contributions' = [contributions EXCEPT ![c] = new]
  BY <1>2 DEF Insert, Set
<1>5. /\ new \in Contribution /\ new.pc = "done" /\ new.answer = "created" /\ new.id = id
      /\ new.fact = r.fact /\ new.form = r.form /\ new.read = r.read
  BY <1>1 DEF Contribution
<1>6. facts'[r.fact] = id /\ facts' = [facts EXCEPT ![r.fact] = IF @ = None THEN c ELSE @]
  BY <1>1, <1>2, <1>3
<1>. HIDE DEF new
<1>. QED
  BY <1>1, <1>4, <1>5, <1>6, Stored_

LEMMA DropContributionKeepsIInv ==
  ASSUME IInv, NEW c \in Contributions, DropContribution(c)
  PROVE  IInv'
<1>. DEFINE r == contributions[c]
<1>1. r.pc \in {"fetch", "insert"} /\ UNCHANGED <<plays, reports>> /\ r \in Contribution /\ Truthful(c)
  BY DEF DropContribution, IInv, TypeOK
<1>2. CASE UNCHANGED facts /\ (Failed(c) \/ Set(c, [NotContributed EXCEPT !.pc = "dropped"]))
  BY <1>1, <1>2, GivenUp
<1>3. CASE /\ r.pc = "insert" /\ Set(c, [r EXCEPT !.pc = "dropped"])
           /\ facts' = [facts EXCEPT ![r.fact] = IF @ = None THEN c ELSE @]
  <2>. DEFINE new == [r EXCEPT !.pc = "dropped"]
  <2>1. contributions' = [contributions EXCEPT ![c] = new]
    BY <1>3 DEF Set
  <2>2. /\ new \in Contribution /\ new.pc = "dropped" /\ new.answer = r.answer
        /\ new.fact = r.fact /\ new.form = r.form /\ new.read = r.read
    BY <1>1 DEF Contribution
  <2>3. r.answer = "none"
    BY <1>1 DEF Truthful
  <2>. HIDE DEF new
  <2>. QED
    BY <1>1, <1>3, <2>1, <2>2, <2>3, Stored_
<1>. QED
  BY <1>2, <1>3 DEF DropContribution

-----------------------------------------------------------------------------
(* played *)

LEMMA NotReportedTypes == NotReported \in Report /\ NotReported.answer = "none" /\ ~NotReported.known
BY DEF NotReported, Report

LEMMA PlayedKeepsIInv ==
  ASSUME IInv, NEW r \in Reports, Played(r)
  PROVE  IInv'
<1>1. /\ UNCHANGED <<facts, contributions, plays>> /\ EventsStay
      /\ plays' \in [Users -> [Events -> Play \cup {None}]]
  BY DEF Played, EventsStay, IInv, TypeOK
<1>2. PICK u \in Users, e \in Events, f \in Facts :
        LET v == [NotReported EXCEPT !.user = u, !.event = e, !.fact = f,
                                     !.known = facts[f] # None] IN
        \/ Report_(r, [v EXCEPT !.pc = "insert"])
        \/ Report_(r, [NotReported EXCEPT !.pc = "done", !.answer = "bad_request"])
  BY DEF Played
<1>3. PICK new \in Report :
        /\ reports' = [reports EXCEPT ![r] = new]
        /\ \/ /\ new.pc = "insert" /\ new.user = u /\ new.event = e /\ new.fact = f
              /\ (new.known => facts[f] # None) /\ new.answer = "none"
           \/ new.pc = "done" /\ new.answer = "bad_request"
  <2>. DEFINE known == facts[f] # None
              v == [NotReported EXCEPT !.user = u, !.event = e, !.fact = f, !.known = known]
              begun == [v EXCEPT !.pc = "insert"]
              refused == [NotReported EXCEPT !.pc = "done", !.answer = "bad_request"]
  <2>1. CASE Report_(r, begun)
    <3>1. reports' = [reports EXCEPT ![r] = begun]
      BY <2>1 DEF Report_
    <3>2. known \in BOOLEAN
      OBVIOUS
    <3>3. /\ v \in Report /\ v.user = u /\ v.event = e /\ v.fact = f /\ v.known = known
          /\ v.answer = "none"
      <4>. HIDE DEF known
      <4>. QED
        BY <3>2, NotReportedTypes DEF Report
    <3>4. /\ begun.pc = "insert" /\ begun.user = u /\ begun.event = e /\ begun.fact = f
          /\ begun.known = known /\ begun.answer = "none" /\ begun \in Report
      <4>. HIDE DEF v, known
      <4>. QED
        BY <3>2, <3>3 DEF Report
    <3>. HIDE DEF begun, v
    <3>. QED
      BY <3>1, <3>4
  <2>2. CASE Report_(r, refused)
    <3>1. refused \in Report /\ refused.pc = "done" /\ refused.answer = "bad_request"
      BY NotReportedTypes DEF Report
    <3>. QED
      BY <2>2, <3>1 DEF Report_
  <2>. QED
    BY <1>2, <2>1, <2>2
<1>4. reports'[r] = new
  BY <1>3 DEF IInv, TypeOK
<1>5. ReportSound(r)'
  BY <1>1, <1>3, <1>4 DEF ReportSound
<1>. QED
  BY <1>1, <1>3, <1>5, ReportStep

(* The event of a report that has none is recorded. *)
LEMMA Recorded ==
  ASSUME IInv, NEW u \in Users, NEW e \in Events, NEW f \in Facts, NEW age \in Ages,
         plays[u][e] = None, plays' = [plays EXCEPT ![u][e] = [fact |-> f, age |-> age]]
  PROVE  /\ EventsStay /\ plays' \in [Users -> [Events -> Play \cup {None}]]
         /\ plays'[u][e] # None /\ plays'[u][e].fact = f
<1>. DEFINE row == [fact |-> f, age |-> age]
<1>1. row \in Play /\ row # None /\ row.fact = f
  BY NoPlayAssumption DEF Play
<1>. HIDE DEF row
<1>2. /\ plays' \in [Users -> [Events -> Play \cup {None}]] /\ plays'[u][e] = row
      /\ \A w \in Users, d \in Events : w # u \/ d # e => plays'[w][d] = plays[w][d]
  BY <1>1 DEF IInv, TypeOK, row
<1>. QED
  BY <1>1, <1>2 DEF EventsStay

LEMMA InsertPlayKeepsIInv ==
  ASSUME IInv, NEW r \in Reports, InsertPlay(r)
  PROVE  IInv'
<1>. DEFINE v == reports[r]
<1>1. /\ v.pc = "insert" /\ v \in Report /\ v.user \in Users /\ v.event \in Events /\ v.fact \in Facts
      /\ UNCHANGED <<facts, contributions>> /\ (v.known => facts[v.fact] # None)
  BY DEF InsertPlay, IInv, ReportSound, TypeOK
<1>2. CASE /\ facts[v.fact] # None /\ plays[v.user][v.event] = None
           /\ Report_(r, [v EXCEPT !.pc = "done", !.answer = "no_content"])
  <2>1. PICK age \in Ages : plays' = [plays EXCEPT ![v.user][v.event] = [fact |-> v.fact, age |-> age]]
    BY <1>2 DEF InsertPlay
  <2>2. /\ EventsStay /\ plays' \in [Users -> [Events -> Play \cup {None}]]
        /\ plays'[v.user][v.event] # None /\ plays'[v.user][v.event].fact = v.fact
    BY <1>1, <1>2, <2>1, Recorded
  <2>. DEFINE new == [v EXCEPT !.pc = "done", !.answer = "no_content"]
  <2>3. /\ new \in Report /\ new.pc = "done" /\ new.answer = "no_content" /\ new.user = v.user
        /\ new.event = v.event /\ new.fact = v.fact
    BY <1>1 DEF Report
  <2>4. reports' = [reports EXCEPT ![r] = new] /\ reports'[r] = new
    BY <1>2 DEF Report_, IInv, TypeOK
  <2>. HIDE DEF new
  <2>5. ReportSound(r)'
    BY <1>1, <2>2, <2>3, <2>4 DEF ReportSound
  <2>. QED
    BY <1>1, <2>2, <2>3, <2>4, <2>5, ReportStep
<1>3. CASE /\ ~(facts[v.fact] # None /\ plays[v.user][v.event] = None)
           /\ Report_(r, [v EXCEPT !.pc = "read"]) /\ UNCHANGED plays
  <2>. DEFINE new == [v EXCEPT !.pc = "read"]
  <2>1. /\ new \in Report /\ new.pc = "read" /\ new.answer = v.answer /\ new.user = v.user
        /\ new.event = v.event /\ new.fact = v.fact /\ new.known = v.known
    BY <1>1 DEF Report
  <2>2. reports' = [reports EXCEPT ![r] = new] /\ reports'[r] = new
    BY <1>3 DEF Report_, IInv, TypeOK
  <2>. HIDE DEF new
  <2>3. ReportSound(r)
    BY DEF IInv
  <2>4. ReportSound(r)'
    BY <1>1, <1>3, <2>1, <2>2, <2>3 DEF ReportSound
  <2>5. EventsStay /\ plays' \in [Users -> [Events -> Play \cup {None}]]
    BY <1>3 DEF EventsStay, IInv, TypeOK
  <2>. QED
    BY <1>1, <2>1, <2>2, <2>4, <2>5, ReportStep
<1>. QED
  BY <1>2, <1>3 DEF InsertPlay

LEMMA ReadPlayKeepsIInv ==
  ASSUME IInv, NEW r \in Reports, ReadPlay(r)
  PROVE  IInv'
<1>. DEFINE v == reports[r]
            row == plays[v.user][v.event]
            answer == IF row # None /\ row.fact = v.fact THEN "no_content" ELSE "not_found"
            new == [v EXCEPT !.pc = "done", !.answer = answer]
<1>1. /\ v.pc = "read" /\ v \in Report /\ v.user \in Users /\ v.event \in Events /\ v.fact \in Facts
      /\ UNCHANGED <<facts, contributions, plays>> /\ (v.known => plays[v.user][v.event] # None)
  BY DEF ReadPlay, IInv, ReportSound, TypeOK
<1>2. /\ new \in Report /\ new.pc = "done" /\ new.answer = answer /\ new.user = v.user
      /\ new.event = v.event /\ new.fact = v.fact /\ new.known = v.known
  BY <1>1 DEF Report
<1>3. reports' = [reports EXCEPT ![r] = new] /\ reports'[r] = new
  BY DEF ReadPlay, Report_, IInv, TypeOK
<1>. HIDE DEF new
<1>4. ReportSound(r)'
  BY <1>1, <1>2, <1>3 DEF ReportSound
<1>5. EventsStay /\ plays' \in [Users -> [Events -> Play \cup {None}]]
  BY <1>1 DEF EventsStay, IInv, TypeOK
<1>. QED
  BY <1>1, <1>2, <1>3, <1>4, <1>5, ReportStep

LEMMA DropReportKeepsIInv ==
  ASSUME IInv, NEW r \in Reports, DropReport(r)
  PROVE  IInv'
<1>. DEFINE v == reports[r]
            failed == [v EXCEPT !.pc = "done", !.answer = "internal"]
            dropped == [NotReported EXCEPT !.pc = "dropped"]
<1>1. /\ v.pc \in {"insert", "read"} /\ v \in Report /\ v.user \in Users /\ v.event \in Events
      /\ v.fact \in Facts /\ UNCHANGED <<facts, contributions>>
  BY DEF DropReport, IInv, ReportSound, TypeOK
<1>2. /\ failed \in Report /\ failed.pc = "done" /\ failed.answer = "internal"
      /\ dropped \in Report /\ dropped.pc = "dropped" /\ dropped.answer = "none"
  BY <1>1, NotReportedTypes DEF Report
<1>3. PICK new \in Report : /\ reports' = [reports EXCEPT ![r] = new]
                            /\ \/ new.pc = "done" /\ new.answer = "internal"
                               \/ new.pc = "dropped" /\ new.answer = "none"
  <2>1. Report_(r, failed) \/ Report_(r, dropped)
    BY DEF DropReport
  <2>. QED
    BY <1>2, <2>1 DEF Report_
<1>4. reports'[r] = new
  BY <1>3 DEF IInv, TypeOK
<1>5. ReportSound(r)'
  BY <1>3, <1>4 DEF ReportSound
<1>6. EventsStay /\ plays' \in [Users -> [Events -> Play \cup {None}]]
  <2>1. CASE UNCHANGED plays
    BY <2>1 DEF EventsStay, IInv, TypeOK
  <2>2. CASE ~UNCHANGED plays
    <3>1. PICK age \in Ages :
            /\ plays[v.user][v.event] = None
            /\ plays' = [plays EXCEPT ![v.user][v.event] = [fact |-> v.fact, age |-> age]]
      BY <2>2 DEF DropReport
    <3>. QED
      BY <1>1, <3>1, Recorded
  <2>. QED
    BY <2>1, <2>2
<1>. QED
  BY <1>1, <1>3, <1>5, <1>6, ReportStep

LEMMA AgeKeepsIInv == ASSUME IInv, Age PROVE IInv'
<1>1. PICK u \in Users, e \in Events :
        plays[u][e] # None /\ plays' = [plays EXCEPT ![u][e].age = "old"]
  BY DEF Age
<1>2. UNCHANGED <<facts, contributions, reports>>
  BY DEF Age
<1>. DEFINE row == [plays[u][e] EXCEPT !.age = "old"]
<1>3. row \in Play /\ row # None /\ row.fact = plays[u][e].fact
  <2>1. plays[u][e] \in Play
    BY <1>1 DEF IInv, TypeOK
  <2>. QED
    BY <2>1, NoPlayAssumption DEF Play, Ages
<1>4. plays' = [plays EXCEPT ![u][e] = row]
  BY <1>1 DEF IInv, TypeOK
<1>. HIDE DEF row
<1>5. /\ plays' \in [Users -> [Events -> Play \cup {None}]] /\ plays'[u][e] = row
      /\ \A w \in Users, d \in Events : w # u \/ d # e => plays'[w][d] = plays[w][d]
  BY <1>3, <1>4 DEF IInv, TypeOK
<1>6. EventsStay
  BY <1>3, <1>5 DEF EventsStay
<1>7. \A r \in Reports : ReportSound(r)'
  BY <1>2, <1>6 DEF IInv, ReportSound, EventsStay
<1>8. (\A f \in Facts : Confirmed(f)') /\ (\A c \in Contributions : Truthful(c)')
  BY <1>2 DEF IInv, Confirmed, Truthful
<1>9. TypeOK'
  BY <1>2, <1>5 DEF IInv, TypeOK
<1>. QED
  BY <1>7, <1>8, <1>9 DEF IInv

LEMMA StutterKeepsIInv == ASSUME IInv, UNCHANGED vars PROVE IInv'
BY DEF IInv, vars, TypeOK, Confirmed, Truthful, ReportSound

LEMMA NextKeepsIInv == IInv /\ [Next]_vars => IInv'
<1>. SUFFICES ASSUME IInv, [Next]_vars PROVE IInv'
  OBVIOUS
<1>1. ASSUME NEW c \in Contributions, Contribute(c) \/ Verify(c) \/ DropContribution(c) PROVE IInv'
  BY <1>1, ContributeKeepsIInv, FetchFailsKeepsIInv, FetchSucceedsKeepsIInv, InsertKeepsIInv,
     DropContributionKeepsIInv DEF Verify
<1>2. ASSUME NEW r \in Reports, Played(r) \/ Record(r) \/ DropReport(r) PROVE IInv'
  BY <1>2, PlayedKeepsIInv, InsertPlayKeepsIInv, ReadPlayKeepsIInv, DropReportKeepsIInv DEF Record
<1>. QED
  BY <1>1, <1>2, AgeKeepsIInv, StutterKeepsIInv DEF Next

(* The inductive invariant holds of every reachable state. *)
THEOREM IInvHolds == Spec => []IInv
<1>1. Init => IInv
  BY InitIInv
<1>2. IInv /\ [Next]_vars => IInv'
  BY NextKeepsIInv
<1>. QED
  BY <1>1, <1>2, PTL DEF Spec

(* The state keeps its types. *)
THEOREM TypeOKHolds == Spec => []TypeOK
<1>1. IInv => TypeOK
  BY DEF IInv
<1>. QED
  BY <1>1, IInvHolds, PTL

(* contribute stores nothing its source has not confirmed and blames no client for an   *)
(* outage, however the source is edited between two requests.                           *)
THEOREM OnlyConfirmedFacts == Spec => []ContributionsAreConfirmed
<1>1. IInv => ContributionsAreConfirmed
  <2>. SUFFICES ASSUME IInv PROVE ContributionsAreConfirmed
    OBVIOUS
  <2>1. \A f \in Facts : Confirmed(f)
    BY DEF IInv
  <2>2. \A c \in Contributions : Truthful(c)
    BY DEF IInv
  <2>. QED
    BY <2>1, <2>2 DEF ContributionsAreConfirmed, Confirmed, Truthful
<1>. QED
  BY <1>1, IInvHolds, PTL

(* played answers truthfully whichever of two reports of one event comes first.         *)
THEOREM ReportsAgree == Spec => []PlayedAnswersAgree
<1>1. IInv => PlayedAnswersAgree
  BY DEF IInv, ReportSound, PlayedAnswersAgree
<1>. QED
  BY <1>1, IInvHolds, PTL

(* lookup tells no account again what it was told in the last 30 days, and prefers what *)
(* it was never told.                                                                   *)
THEOREM FactsAreNotToldAgain == Spec => []NotToldAgain
<1>1. IInv => NotToldAgain
  <2>. SUFFICES ASSUME IInv, NEW u \in Users, NEW r \in Reports,
                       reports[r].answer = "no_content", reports[r].user = u,
                       reports[r].fact \in Answers(u)
       PROVE  /\ plays[u][reports[r].event].age = "old"
              /\ \A g \in Facts : facts[g] # None =>
                   \E e \in Events : plays[u][e] # None /\ plays[u][e].fact = g
    BY DEF NotToldAgain
  <2>. DEFINE v == reports[r]
  <2>1. /\ v.fact \in Facts /\ v.event \in Events /\ plays[u][v.event] # None
        /\ plays[u][v.event].fact = v.fact
    BY DEF IInv, ReportSound
  <2>2. v.event \in PlaysOf(u, v.fact)
    BY <2>1 DEF PlaysOf
  <2>3. v.fact # None /\ v.fact \notin Untold(u)
    BY <2>1, <2>2, FactsAssumption DEF Untold
  <2>4. v.fact \in Recovered(u) /\ Untold(u) = {}
    BY <2>3 DEF Answers
  <2>5. plays[u][v.event].age = "old"
    BY <2>2, <2>4 DEF Recovered
  <2>6. ASSUME NEW g \in Facts, facts[g] # None
        PROVE  \E e \in Events : plays[u][e] # None /\ plays[u][e].fact = g
    BY <2>4, <2>6 DEF Untold, Stored, PlaysOf
  <2>. QED
    BY <2>5, <2>6
<1>. QED
  BY <1>1, IInvHolds, PTL

=============================================================================
