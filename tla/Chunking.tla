----------------------------- MODULE Chunking ------------------------------
(***************************************************************************)
(* How the body of a document becomes passages: the loop of chunk() over   *)
(* the pieces (sentences, or parts of oversized ones) of each document.    *)
(*                                                                         *)
(* A text is abstracted to its token counts.  Pieces are joined by blanks, *)
(* at which the tokenizer splits, so the count of a chunk is the sum of    *)
(* the counts of its pieces.  The local variable `current' of the code     *)
(* holds pieces first .. Pieces(t), the overlap included.                  *)
(***************************************************************************)
EXTENDS Integers, Sequences

CONSTANTS
  Documents,
  TargetTokens,
  MaxTokens,
  Sizes,      \* token counts of the sentences and words of a body
  MaxPieces   \* MaxPieces[d]: a bound on the pieces of d

VARIABLE
  text        \* text[d]: the progress of chunk() over the body of d

ASSUME TokensAssumption == /\ TargetTokens \in Nat \ {0} /\ MaxTokens \in Nat \ {0}
                           /\ Sizes \subseteq Nat
ASSUME MaxPiecesAssumption == MaxPieces \in [Documents -> Nat]

Chunk == [first : Nat, last : Nat]
Text == [upto : Seq(Nat),       \* upto[i + 1]: the tokens of the first i pieces
         first : Nat,           \* the first piece of `current'
         added : Nat,           \* pieces in `current' that no chunk holds yet
         chunks : Seq(Chunk),
         ended : BOOLEAN]

NoText == [upto |-> <<0>>, first |-> 1, added |-> 0, chunks |-> <<>>, ended |-> FALSE]

Pieces(t) == Len(t.upto) - 1
Tokens(t, first, last) == t.upto[last + 1] - t.upto[first]
ChunkTokens(t, k) == Tokens(t, t.chunks[k].first, t.chunks[k].last)

(* A bug for the mutant runs: long sentences are not split. *)
UnsplitPieces == Sizes
(* A piece is a sentence that fits a chunk, or a part of one that does not, cut *)
(* before it would exceed MAX_TOKENS.                                           *)
PieceSizes == {n \in Sizes : n <= MaxTokens}

ChunkingInit == text = [d \in Documents |-> NoText]

-----------------------------------------------------------------------------
(* The body of the loop: the piece has been read, and is not in `current'. *)

(* A chunk is out; its last piece stays, to open the next one. *)
Emit(t, last) ==
  [t EXCEPT !.chunks = Append(@, [first |-> t.first, last |-> last]),
            !.first = last, !.added = 0]

Overflows(t) == Tokens(t, t.first, Pieces(t)) > MaxTokens

(* A bug for the mutant runs: a piece that just fits opens a new chunk. *)
CloseWhenJustFull(t) ==
  IF t.added > 0 /\ Tokens(t, t.first, Pieces(t)) >= MaxTokens
  THEN Emit(t, Pieces(t) - 1) ELSE t
CloseWhenFull(t) ==
  IF t.added > 0 /\ Overflows(t) THEN Emit(t, Pieces(t) - 1) ELSE t

(* A bug for the mutant runs: the overlap is never given up. *)
KeepOverlap(t) == t
DropOverlap(t) ==
  IF t.added = 0 /\ Overflows(t) THEN [t EXCEPT !.first = Pieces(t)] ELSE t

CloseAtTarget(t) ==
  IF Tokens(t, t.first, Pieces(t)) >= TargetTokens THEN Emit(t, Pieces(t)) ELSE t

ReadPiece(t, n) == [t EXCEPT !.upto = Append(@, @[Len(@)] + n)]
PushPiece(t) == [t EXCEPT !.added = @ + 1]

AddPiece(d) ==
  /\ ~text[d].ended
  /\ Pieces(text[d]) < MaxPieces[d]
  /\ \E n \in PieceSizes :
       text' = [text EXCEPT ![d] =
         CloseAtTarget(PushPiece(DropOverlap(CloseWhenFull(ReadPiece(@, n)))))]

(* A bug for the mutant runs: a tail below TARGET_TOKENS is forgotten. *)
ForgetTail(d) ==
  /\ ~text[d].ended
  /\ text' = [text EXCEPT ![d].ended = TRUE]

(* The body is read: what no chunk holds yet is the last chunk. *)
EndOfBody(d) ==
  /\ ~text[d].ended
  /\ text' = [text EXCEPT ![d] =
       [(IF @.added > 0 THEN Emit(@, Pieces(@)) ELSE @) EXCEPT !.ended = TRUE]]
=============================================================================
