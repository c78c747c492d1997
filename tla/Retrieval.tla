----------------------------- MODULE Retrieval -----------------------------
(***************************************************************************)
(* From bodies to the passages of one answer: documents are chunked, and a *)
(* lookup selects among their chunks, with the token counts chunk() gave   *)
(* them.                                                                   *)
(***************************************************************************)
EXTENDS Chunking, Ranking

vars == <<text, candidates, remaining, chosen, used, duplicates, status>>

Init == ChunkingInit /\ RankingInit

Stored == {d \in Documents : text[d].ended}

(* The rows of dj_chunks, one passage per chunk. *)
Passages ==
  UNION {{[document |-> d, ord |-> k, tokens |-> ChunkTokens(text[d], k)]
            : k \in 1 .. Len(text[d].chunks)} : d \in Stored}

(* store::candidates joins the listener's plays, whatever they are. *)
Lookup ==
  \E last \in [Passages -> Played] :
    /\ Select({[document |-> p.document, ord |-> p.ord, tokens |-> p.tokens,
                played |-> last[p]] : p \in Passages})
    /\ UNCHANGED text

Ingest ==
  /\ status = "idle"
  /\ \E d \in Documents : AddPiece(d) \/ EndOfBody(d)
  /\ UNCHANGED rankingVars

Rank == ((\E c \in remaining : Consider(c)) \/ Answer) /\ UNCHANGED text

Next == Ingest \/ Lookup \/ Rank

Spec == Init /\ [][Next]_vars

-----------------------------------------------------------------------------
TypeOK ==
  /\ text \in [Documents -> Text]
  /\ \A d \in Documents : Pieces(text[d]) > 0 => text[d].first <= Pieces(text[d])
  /\ used \in Nat
  /\ remaining \subseteq candidates /\ chosen \subseteq candidates
  /\ status \in {"idle", "selecting", "none", "exhausted", "ok"}

(* chunk.rs:5, MAX_TOKENS: no chunk exceeds it, whatever the sentences are, with the   *)
(* overlap counted; the embedding model reads no more of a text than it has room for.  *)
ChunksFit ==
  \A d \in Documents : \A k \in 1 .. Len(text[d].chunks) :
    ChunkTokens(text[d], k) <= MaxTokens

(* Nothing of a body is lost or reordered: a chunk starts at the piece after the last  *)
(* one of the chunk before, or repeats that one (the overlap) and only that one, and   *)
(* goes beyond it; a body that is read is in its chunks to the last piece.             *)
NothingLost ==
  \A d \in Documents :
    LET t == text[d]
        n == Len(t.chunks)
    IN  /\ n > 0 => t.chunks[1].first = 1
        /\ \A k \in 1 .. n - 1 :
             /\ t.chunks[k + 1].first \in {t.chunks[k].last, t.chunks[k].last + 1}
             /\ t.chunks[k + 1].last > t.chunks[k].last
        /\ t.ended /\ Pieces(t) > 0 => n > 0 /\ t.chunks[n].last = Pieces(t)

(* chunk.rs:1-3: a chunk is smaller than TARGET_TOKENS only when the next piece would   *)
(* have made it too large, or the body ends; and the overlap is given up only when it   *)
(* does not fit with the next piece.                                                    *)
SmallOnlyWhenItMustBe ==
  \A d \in Documents :
    LET t == text[d] IN
    \A k \in 1 .. Len(t.chunks) - 1 :
      /\ ChunkTokens(t, k) >= TargetTokens
           \/ Tokens(t, t.chunks[k].first, t.chunks[k].last + 1) > MaxTokens
      /\ t.chunks[k + 1].first > t.chunks[k].last =>
           Tokens(t, t.chunks[k].last, t.chunks[k].last + 1) > MaxTokens

(* An answer stays within the budget.  select() lets the first passage exceed it       *)
(* (rank.rs:105), so this rests on chunk(): a chunk never exceeds MAX_TOKENS.           *)
BudgetKept == MaxTokens <= BudgetTokens => used <= BudgetTokens

(* A passage played before is told again only when no passage never played was left    *)
(* out for the budget: each of those is in the answer, or nearly, or its document is    *)
(* there as often as one may be.                                                        *)
NewBeforeOld ==
  (\E c \in chosen : c.played = "long_ago") =>
    \A c \in candidates : c.played = "never" =>
      c \in chosen \/ c \in duplicates \/ CapReached(c)
=============================================================================
