--------------------------- MODULE PassageLibrary ---------------------------
(***************************************************************************)
(* What the passage store promises to those who ask it for passages,       *)
(* whatever statements and locks it does it with: a document is replaced   *)
(* or removed at one instant, with all its passages and with what is       *)
(* remembered of them; an answer is taken from the passages of one         *)
(* instant, without those told recently and not all told before if some    *)
(* never were; and a report is recorded at one instant, or not at all.     *)
(* PassageStore implements this specification.                             *)
(***************************************************************************)
EXTENDS Integers

CONSTANTS Refs, Bodies, ChunkCount, Upserts, Listeners, Users, None

VARIABLES
  body,      \* body[r]: that of the document at r, or None
  passages,  \* passages[r]: the ids of the passages it was cut into
  told,      \* told[u]: the existing passages u has been told
  recent,    \* recent[u]: those of them that were told within 30 days
  offer,     \* offer[l]: what device l was offered, for whom, and whether it was recorded
  ended      \* the calls that have stored a document, or have failed to

NoOffer == [user |-> None, passages |-> {}, recorded |-> FALSE]

Init ==
  /\ body = [r \in Refs |-> None]
  /\ passages = [r \in Refs |-> {}]
  /\ told = [u \in Users |-> {}]
  /\ recent = [u \in Users |-> {}]
  /\ offer = [l \in Listeners |-> NoOffer]
  /\ ended = {}

Existing == UNION {passages[r] : r \in Refs}

(* Each passage of a new text is new, were it the same text. *)
Cut(w, b) == {<<w, k>> : k \in 1 .. ChunkCount[b]}

(* What is told of the old passages is forgotten with them. *)
Become(r, b, ids) ==
  /\ body' = [body EXCEPT ![r] = b]
  /\ passages' = [passages EXCEPT ![r] = ids]
  /\ told' = [u \in Users |-> told[u] \ passages[r]]
  /\ recent' = [u \in Users |-> recent[u] \ passages[r]]

End(w) == w \notin ended /\ ended' = ended \cup {w}

Replace(w, r, b) == End(w) /\ Become(r, b, Cut(w, b)) /\ UNCHANGED offer

(* The call finds the text it was to store, or fails. *)
ChangeNothing(w) == End(w) /\ UNCHANGED <<body, passages, told, recent, offer>>

Remove(r) == body[r] # None /\ Become(r, None, {}) /\ UNCHANGED <<offer, ended>>

Offer(l, u) ==
  /\ offer[l] = NoOffer
  /\ \E ids \in SUBSET (Existing \ recent[u]) :
       /\ ids # {}
       /\ Existing \subseteq told[u] \/ ~(ids \subseteq told[u])
       /\ offer' = [offer EXCEPT ![l] = [user |-> u, passages |-> ids, recorded |-> FALSE]]
  /\ UNCHANGED <<body, passages, told, recent, ended>>

(* Of what no longer exists nothing is remembered; and what is reported late, or once   *)
(* more, is not news.                                                                    *)
Record(l) ==
  LET o == offer[l] IN
  /\ o # NoOffer
  /\ offer' = [offer EXCEPT ![l] = [o EXCEPT !.recorded = TRUE]]
  /\ told' = [told EXCEPT ![o.user] = @ \cup (o.passages \cap Existing)]
  /\ \E news \in SUBSET (o.passages \cap Existing) :
       recent' = [recent EXCEPT ![o.user] = @ \cup news]
  /\ UNCHANGED <<body, passages, ended>>

(* The device reports once more, and does not know yet whether that is recorded. *)
Repeat(l) ==
  /\ offer[l].recorded
  /\ offer' = [offer EXCEPT ![l] = [@ EXCEPT !.recorded = FALSE]]
  /\ UNCHANGED <<body, passages, told, recent, ended>>

(* The 30 days of some passages are over. *)
Fade(u) ==
  /\ UNCHANGED <<body, passages, told, offer, ended>>
  /\ \E rest \in SUBSET recent[u] : recent' = [recent EXCEPT ![u] = rest]

Next ==
  \/ \E u \in Users : Fade(u)
  \/ \E w \in Upserts : ChangeNothing(w) \/ \E r \in Refs, b \in Bodies : Replace(w, r, b)
  \/ \E r \in Refs : Remove(r)
  \/ \E l \in Listeners : Record(l) \/ Repeat(l) \/ \E u \in Users : Offer(l, u)

vars == <<body, passages, told, recent, offer, ended>>
Spec == Init /\ [][Next]_vars
=============================================================================
