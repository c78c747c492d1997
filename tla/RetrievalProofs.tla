-------------------------- MODULE RetrievalProofs ---------------------------
(* Chunking and the token budget hold for any documents, any token counts and any      *)
(* limits.  Base(t, p) is what the loop of chunk() keeps of a text whose first p pieces *)
(* are in its chunks or in `current'; one more piece may have been read.               *)
EXTENDS Retrieval, FiniteSetTheorems, TLAPS

LastChunk(t) == t.chunks[Len(t.chunks)]

(* `current' against the last chunk. *)
CurrentFollows(t, p) ==
  IF t.chunks = <<>> THEN t.first = 1 /\ t.added = p
  ELSE /\ t.added = p - LastChunk(t).last
       /\ \/ t.first = LastChunk(t).last
          \/ /\ t.first = LastChunk(t).last + 1
             /\ t.first <= Pieces(t)
             /\ Tokens(t, LastChunk(t).last, t.first) > MaxTokens

ChunkSound(t, p, k) ==
  /\ t.chunks[k].first \in 1 .. t.chunks[k].last
  /\ t.chunks[k].last <= p
  /\ ChunkTokens(t, k) <= MaxTokens

(* Closed at TARGET_TOKENS, or before a piece that would not fit. *)
ClosedWell(t, k) ==
  \/ ChunkTokens(t, k) >= TargetTokens
  \/ /\ t.chunks[k].last < Pieces(t)
     /\ Tokens(t, t.chunks[k].first, t.chunks[k].last + 1) > MaxTokens

FollowsChunk(t, k) ==
  /\ t.chunks[k + 1].last > t.chunks[k].last
  /\ \/ t.chunks[k + 1].first = t.chunks[k].last
     \/ /\ t.chunks[k + 1].first = t.chunks[k].last + 1
        /\ Tokens(t, t.chunks[k].last, t.chunks[k].last + 1) > MaxTokens
  /\ ClosedWell(t, k)

Base(t, p) ==
  /\ t \in Text
  /\ Len(t.upto) >= 1 /\ p \in 0 .. Pieces(t)
  /\ \A i \in 1 .. Pieces(t) : Tokens(t, i, i) \in 0 .. MaxTokens
  /\ t.chunks # <<>> => t.chunks[1].first = 1
  /\ \A k \in 1 .. Len(t.chunks) : ChunkSound(t, p, k)
  /\ \A k \in 1 .. Len(t.chunks) - 1 : FollowsChunk(t, k)
  /\ CurrentFollows(t, p)
  /\ t.first \in 1 .. p + 1
  /\ t.first <= p => Tokens(t, t.first, p) <= MaxTokens

LastClosedWell(t) == t.chunks # <<>> => ClosedWell(t, Len(t.chunks))

TextInv(t) ==
  /\ Base(t, Pieces(t))
  /\ Pieces(t) > 0 => t.first <= Pieces(t)
  /\ IF t.ended THEN t.added = 0 ELSE LastClosedWell(t)

-----------------------------------------------------------------------------
LEMMA AppendFacts ==
  ASSUME NEW S, NEW s \in Seq(S), NEW e \in S
  PROVE  /\ Append(s, e) \in Seq(S)
         /\ Len(Append(s, e)) = Len(s) + 1
         /\ \A i \in 1 .. Len(s) : Append(s, e)[i] = s[i]
         /\ Append(s, e)[Len(s) + 1] = e
         /\ Append(s, e) # <<>>
         /\ Len(s) \in Nat
OBVIOUS

LEMMA TokensAreIntegers ==
  ASSUME NEW t \in Text, NEW a \in Nat, NEW b \in Nat, a >= 1, a <= b + 1, b <= Pieces(t)
  PROVE  Tokens(t, a, b) \in Int /\ Pieces(t) \in Int
<1>1. t.upto \in Seq(Nat) /\ Len(t.upto) \in Nat
  BY DEF Text
<1>2. a \in 1 .. Len(t.upto) /\ b + 1 \in 1 .. Len(t.upto)
  BY <1>1 DEF Pieces
<1>. QED
  BY <1>1, <1>2 DEF Tokens, Pieces

(* A text that has not begun. *)
LEMMA NoTextInv == TextInv(NoText)
<1>1. NoText \in Text /\ Pieces(NoText) = 0 /\ NoText.chunks = <<>>
  BY DEF NoText, Text, Pieces
<1>. QED
  BY <1>1, TokensAssumption
  DEF TextInv, Base, LastClosedWell, NoText, CurrentFollows, Pieces, Tokens

(* Emitting the pieces of `current' as a chunk. *)
LEMMA EmitBase ==
  ASSUME NEW t, NEW p, Base(t, p), LastClosedWell(t), t.first <= p, t.added > 0
  PROVE  /\ Base(Emit(t, p), p)
         /\ Emit(t, p).chunks # <<>>
         /\ Emit(t, p).upto = t.upto /\ Emit(t, p).first = p /\ Emit(t, p).added = 0
         /\ Emit(t, p).ended = t.ended
         /\ LastChunk(Emit(t, p)) = [first |-> t.first, last |-> p]
<1>. DEFINE n == Len(t.chunks)
            c == [first |-> t.first, last |-> p]
            e == Emit(t, p)
<1>1. /\ t \in Text /\ t.chunks \in Seq(Chunk) /\ n \in Nat /\ p \in Nat /\ p >= 1
      /\ t.first \in 1 .. p /\ c \in Chunk /\ p <= Pieces(t) /\ Pieces(t) \in Nat
      /\ t.upto \in Seq(Nat) /\ t.added \in Nat
  BY SMTT(30) DEF Base, Text, Chunk, Pieces
<1>2. /\ e.upto = t.upto /\ e.first = p /\ e.added = 0 /\ e.ended = t.ended
      /\ e.chunks = Append(t.chunks, c) /\ e \in Text
  BY <1>1, AppendFacts DEF Emit, Text
<1>3. /\ Len(e.chunks) = n + 1 /\ e.chunks # <<>> /\ e.chunks[n + 1] = c
      /\ \A k \in 1 .. n : e.chunks[k] = t.chunks[k]
  BY <1>1, <1>2, AppendFacts
<1>4. Pieces(e) = Pieces(t) /\ \A a, b : Tokens(e, a, b) = Tokens(t, a, b)
  BY <1>2 DEF Pieces, Tokens
<1>5. Tokens(t, t.first, p) <= MaxTokens
  BY DEF Base
<1>6. \A k \in 1 .. Len(e.chunks) : ChunkSound(e, p, k)
  <2>. SUFFICES ASSUME NEW k \in 1 .. Len(e.chunks) PROVE ChunkSound(e, p, k)
    OBVIOUS
  <2>1. CASE k = n + 1
    BY <2>1, <1>1, <1>3, <1>4, <1>5 DEF ChunkSound, ChunkTokens
  <2>2. CASE k # n + 1
    <3>1. k \in 1 .. n
      BY <2>2, <1>1, <1>3
    <3>2. ChunkSound(t, p, k)
      BY <3>1 DEF Base
    <3>. QED
      BY <3>1, <3>2, <1>3, <1>4 DEF ChunkSound, ChunkTokens
  <2>. QED
    BY <2>1, <2>2
<1>7. n > 0 => /\ t.chunks # <<>> /\ LastChunk(t) = t.chunks[n] /\ ClosedWell(t, n)
               /\ LastChunk(t).last \in Int /\ LastChunk(t).last < p
               /\ \/ t.first = LastChunk(t).last
                  \/ /\ t.first = LastChunk(t).last + 1
                     /\ Tokens(t, LastChunk(t).last, LastChunk(t).last + 1) > MaxTokens
  <2>. SUFFICES ASSUME n > 0
                PROVE  /\ t.chunks # <<>> /\ LastChunk(t) = t.chunks[n] /\ ClosedWell(t, n)
                       /\ LastChunk(t).last \in Int /\ LastChunk(t).last < p
                       /\ \/ t.first = LastChunk(t).last
                          \/ /\ t.first = LastChunk(t).last + 1
                             /\ Tokens(t, LastChunk(t).last, LastChunk(t).last + 1) > MaxTokens
    OBVIOUS
  <2>1. t.chunks # <<>> /\ LastChunk(t) = t.chunks[n] /\ t.chunks[n] \in Chunk
    BY <1>1 DEF LastChunk
  <2>2. LastChunk(t).last \in Nat
    BY <2>1 DEF Chunk
  <2>3. CurrentFollows(t, p)
    BY DEF Base
  <2>. QED
    BY <2>1, <2>2, <2>3, <1>1 DEF CurrentFollows, LastClosedWell
<1>8. \A k \in 1 .. Len(e.chunks) - 1 : FollowsChunk(e, k)
  <2>. SUFFICES ASSUME NEW k \in 1 .. Len(e.chunks) - 1 PROVE FollowsChunk(e, k)
    OBVIOUS
  <2>1. k \in 1 .. n /\ e.chunks[k] = t.chunks[k] /\ k + 1 \in 1 .. n + 1
    BY <1>1, <1>3
  <2>2. ClosedWell(t, k) => ClosedWell(e, k)
    BY <2>1, <1>4 DEF ClosedWell, ChunkTokens
  <2>3. CASE k = n
    BY <2>1, <2>2, <2>3, <1>1, <1>3, <1>4, <1>7 DEF FollowsChunk
  <2>4. CASE k # n
    <3>1. k \in 1 .. n - 1 /\ k + 1 \in 1 .. n
      BY <2>1, <2>4, <1>1
    <3>2. FollowsChunk(t, k) /\ e.chunks[k + 1] = t.chunks[k + 1]
      BY <3>1, <1>3 DEF Base
    <3>. QED
      BY <3>2, <2>1, <2>2, <1>4 DEF FollowsChunk
  <2>. QED
    BY <2>3, <2>4
<1>9. e.chunks[1].first = 1
  <2>1. CASE n = 0
    BY <2>1, <1>1, <1>3 DEF Base, CurrentFollows
  <2>2. CASE n > 0
    <3>1. e.chunks[1] = t.chunks[1] /\ t.chunks # <<>>
      BY <2>2, <1>1, <1>3, <1>7
    <3>. QED
      BY <3>1 DEF Base
  <2>. QED
    BY <2>1, <2>2, <1>1
<1>10. LastChunk(e) = c /\ CurrentFollows(e, p)
  BY <1>1, <1>2, <1>3 DEF LastChunk, CurrentFollows
<1>11. Tokens(e, p, p) <= MaxTokens /\ \A i \in 1 .. Pieces(e) : Tokens(e, i, i) \in 0 .. MaxTokens
  BY <1>1, <1>4, TokensAssumption DEF Base
<1>. QED
  BY SMTT(30), <1>1, <1>2, <1>3, <1>4, <1>6, <1>8, <1>9, <1>10, <1>11 DEF Base, Pieces

(* The loop of chunk(), one `if' at a time. *)
LEMMA ReadPieceBase ==
  ASSUME NEW t, NEW n \in PieceSizes, TextInv(t), ~t.ended
  PROVE  LET u == ReadPiece(t, n) IN
         /\ Base(u, Pieces(t)) /\ LastClosedWell(u)
         /\ Pieces(u) = Pieces(t) + 1
         /\ ~u.ended /\ (Pieces(t) > 0 => u.first <= Pieces(t))
<1>. DEFINE u == ReadPiece(t, n)
            p == Pieces(t)
<1>0. Base(t, p) /\ LastClosedWell(t) /\ Pieces(t) = p /\ (p > 0 => t.first <= p)
  BY DEF TextInv
<1>1. /\ t \in Text /\ t.upto \in Seq(Nat) /\ Len(t.upto) >= 1 /\ p \in Nat
      /\ Len(t.upto) = p + 1 /\ n \in Nat /\ n <= MaxTokens
      /\ t.chunks \in Seq(Chunk) /\ t.first \in 1 .. p + 1 /\ Len(t.chunks) \in Nat
  BY TokensAssumption DEF TextInv, Base, Text, Pieces, PieceSizes
<1>2. t.upto[Len(t.upto)] + n \in Nat
  BY <1>1
<1>3. /\ u \in Text /\ u.upto = Append(t.upto, t.upto[Len(t.upto)] + n)
      /\ u.first = t.first /\ u.added = t.added /\ u.chunks = t.chunks /\ u.ended = t.ended
  BY <1>1, <1>2, AppendFacts DEF ReadPiece, Text
<1>4. /\ Len(u.upto) = p + 2 /\ \A i \in 1 .. p + 1 : u.upto[i] = t.upto[i]
      /\ u.upto[p + 2] = t.upto[p + 1] + n
  BY <1>1, <1>2, <1>3, AppendFacts
<1>5. Pieces(u) = p + 1
  BY <1>1, <1>4 DEF Pieces
<1>. HIDE DEF u, p
<1>6. \A a \in 1 .. p + 1, b \in 0 .. p : Tokens(u, a, b) = Tokens(t, a, b)
  BY <1>1, <1>4 DEF Tokens
<1>7. \A i \in 1 .. Pieces(u) : Tokens(u, i, i) \in 0 .. MaxTokens
  <2>. SUFFICES ASSUME NEW i \in 1 .. p + 1 PROVE Tokens(u, i, i) \in 0 .. MaxTokens
    BY <1>5
  <2>1. CASE i = p + 1
    <3>1. t.upto[p + 1] \in Nat
      BY <1>1
    <3>2. Tokens(u, i, i) = n
      BY SMTT(30), <2>1, <3>1, <1>1, <1>4 DEF Tokens
    <3>. QED
      BY <3>2, <1>1, TokensAssumption
  <2>2. CASE i # p + 1
    <3>1. i \in 1 .. Pieces(t) /\ i \in 1 .. p + 1 /\ i \in 0 .. p
      BY <2>2, <1>0, <1>1
    <3>2. Tokens(t, i, i) \in 0 .. MaxTokens
      BY <3>1, <1>0 DEF Base
    <3>. QED
      BY <3>1, <3>2, <1>6
  <2>. QED
    BY <2>1, <2>2
<1>8. \A k \in 1 .. Len(t.chunks) :
        /\ t.chunks[k].first \in 1 .. p /\ t.chunks[k].last \in 1 .. p
        /\ t.chunks[k].first <= t.chunks[k].last
        /\ ChunkSound(t, p, k)
  <2>. SUFFICES ASSUME NEW k \in 1 .. Len(t.chunks)
                PROVE  /\ t.chunks[k].first \in 1 .. p /\ t.chunks[k].last \in 1 .. p
                       /\ t.chunks[k].first <= t.chunks[k].last
                       /\ ChunkSound(t, p, k)
    OBVIOUS
  <2>1. t.chunks[k] \in Chunk /\ ChunkSound(t, p, k)
    BY <1>0, <1>1 DEF Base
  <2>. QED
    BY SMTT(30), <2>1, <1>1 DEF ChunkSound, Chunk
<1>9. \A k \in 1 .. Len(u.chunks) : ChunkSound(u, p, k)
  BY SMTT(30), <1>1, <1>3, <1>6, <1>8 DEF ChunkSound, ChunkTokens
<1>10. \A k \in 1 .. Len(t.chunks) : ClosedWell(t, k) => ClosedWell(u, k)
  <2>. SUFFICES ASSUME NEW k \in 1 .. Len(t.chunks), ClosedWell(t, k) PROVE ClosedWell(u, k)
    OBVIOUS
  <2>1. ChunkTokens(u, k) = ChunkTokens(t, k)
    <3>1. t.chunks[k].first \in 1 .. p + 1 /\ t.chunks[k].last \in 0 .. p
      BY <1>1, <1>8
    <3>2. u.chunks[k] = t.chunks[k]
      BY <1>3
    <3>. QED
      BY <3>1, <3>2, <1>6 DEF ChunkTokens
  <2>2. t.chunks[k].last < p =>
          Tokens(u, t.chunks[k].first, t.chunks[k].last + 1)
            = Tokens(t, t.chunks[k].first, t.chunks[k].last + 1)
    BY SMTT(30), <1>1, <1>6, <1>8
  <2>. QED
    BY <2>1, <2>2, <1>0, <1>1, <1>3, <1>5, <1>8 DEF ClosedWell
<1>11. \A k \in 1 .. Len(u.chunks) - 1 : FollowsChunk(u, k)
  <2>. SUFFICES ASSUME NEW k \in 1 .. Len(t.chunks) - 1 PROVE FollowsChunk(u, k)
    BY <1>3
  <2>1. FollowsChunk(t, k) /\ k \in 1 .. Len(t.chunks) /\ k + 1 \in 1 .. Len(t.chunks)
    BY <1>0, <1>1 DEF Base
  <2>2. t.chunks[k].last + 1 <= p
    BY SMTT(30), <2>1, <1>1, <1>8 DEF FollowsChunk
  <2>3. Tokens(u, t.chunks[k].last, t.chunks[k].last + 1)
          = Tokens(t, t.chunks[k].last, t.chunks[k].last + 1)
    BY <2>1, <2>2, <1>1, <1>6, <1>8
  <2>. QED
    BY <2>1, <2>3, <1>3, <1>10 DEF FollowsChunk
<1>12. CurrentFollows(u, p)
  <2>1. CASE t.chunks = <<>>
    BY <1>0, <2>1, <1>3 DEF Base, CurrentFollows
  <2>2. CASE t.chunks # <<>>
    <3>1. Len(t.chunks) \in 1 .. Len(t.chunks)
      BY <2>2, <1>1
    <3>2. LastChunk(u) = LastChunk(t) /\ LastChunk(t).last \in 1 .. p
      BY <3>1, <1>3, <1>8 DEF LastChunk
    <3>3. CurrentFollows(t, p)
      BY <1>0 DEF Base
    <3>4. t.first <= p =>
            Tokens(u, LastChunk(t).last, t.first) = Tokens(t, LastChunk(t).last, t.first)
      BY <3>2, <1>1, <1>6
    <3>. QED
      BY <2>2, <3>2, <3>3, <3>4, <1>0, <1>1, <1>3, <1>5 DEF CurrentFollows
  <2>. QED
    BY <2>1, <2>2
<1>13. u.first <= p => Tokens(u, u.first, p) <= MaxTokens
  BY <1>0, <1>1, <1>3, <1>6 DEF Base
<1>14. LastClosedWell(u)
  <2>. SUFFICES ASSUME t.chunks # <<>> PROVE ClosedWell(u, Len(t.chunks))
    BY <1>3 DEF LastClosedWell
  <2>1. Len(t.chunks) \in 1 .. Len(t.chunks)
    BY <1>1
  <2>. QED
    BY <2>1, <1>0, <1>10 DEF LastClosedWell
<1>15. u.chunks # <<>> => u.chunks[1].first = 1
  BY <1>0, <1>3 DEF Base
<1>. QED
  BY <1>0, <1>1, <1>3, <1>4, <1>5, <1>7, <1>9, <1>11, <1>12, <1>13, <1>14, <1>15
  DEF Base, u, p

LEMMA CloseWhenFullBase ==
  ASSUME NEW t, Base(t, Pieces(t) - 1), LastClosedWell(t), Pieces(t) > 0,
         Pieces(t) > 1 => t.first < Pieces(t), ~t.ended
  PROVE  LET u == CloseWhenFull(t) IN
         /\ Base(u, Pieces(t) - 1) /\ LastClosedWell(u) /\ Pieces(u) = Pieces(t)
         /\ u.added > 0 => ~Overflows(u)
         /\ ~u.ended
<1>. DEFINE p == Pieces(t) - 1
            e == Emit(t, p)
<1>0. /\ p \in Nat /\ Pieces(t) \in Nat /\ t.chunks \in Seq(Chunk) /\ t.added \in Nat
      /\ t.first \in Nat
  BY DEF Base, Text, Pieces
<1>1. CASE t.added > 0 /\ Overflows(t)
  <2>1. t.first <= p
    <3>1. CASE p > 0
      BY <3>1, <1>0
    <3>2. CASE p = 0
      <4>1. CASE t.chunks = <<>>
        BY <4>1, <3>2, <1>0, <1>1 DEF Base, CurrentFollows
      <4>2. CASE t.chunks # <<>>
        <5>1. LastChunk(t) \in Chunk /\ Len(t.chunks) \in 1 .. Len(t.chunks)
          BY <4>2, <1>0 DEF LastChunk
        <5>2. ChunkSound(t, p, Len(t.chunks))
          BY <5>1 DEF Base
        <5>. QED
          BY <5>1, <5>2, <3>2 DEF ChunkSound, LastChunk, Chunk
      <4>. QED
        BY <4>1, <4>2
    <3>. QED
      BY <3>1, <3>2, <1>0
  <2>2. CloseWhenFull(t) = e
    BY <1>1 DEF CloseWhenFull
  <2>3. /\ Base(e, p) /\ e.chunks # <<>> /\ e.upto = t.upto /\ e.added = 0 /\ e.ended = t.ended
        /\ LastChunk(e) = [first |-> t.first, last |-> p]
    BY <1>1, <2>1, EmitBase
  <2>4. ClosedWell(e, Len(e.chunks))
    BY <2>3, <1>0, <1>1 DEF ClosedWell, LastChunk, Overflows, Tokens, Pieces
  <2>. QED
    BY <2>2, <2>3, <2>4 DEF LastClosedWell, Pieces
<1>2. CASE ~(t.added > 0 /\ Overflows(t))
  BY <1>2 DEF CloseWhenFull
<1>. QED
  BY <1>1, <1>2

LEMMA DropOverlapBase ==
  ASSUME NEW t, Base(t, Pieces(t) - 1), LastClosedWell(t), Pieces(t) > 0,
         t.added > 0 => ~Overflows(t), ~t.ended
  PROVE  LET u == DropOverlap(t) IN
         /\ Base(u, Pieces(t) - 1) /\ LastClosedWell(u) /\ Pieces(u) = Pieces(t)
         /\ ~Overflows(u) /\ ~u.ended
<1>. DEFINE p == Pieces(t) - 1
            u == [t EXCEPT !.first = Pieces(t)]
<1>0. /\ p \in Nat /\ t \in Text /\ t.chunks \in Seq(Chunk) /\ t.added \in Nat
      /\ t.first \in 1 .. p + 1 /\ Pieces(t) = p + 1 /\ Len(t.chunks) \in Nat
  BY DEF Base, Text, Pieces
<1>1. CASE t.added = 0 /\ Overflows(t)
  <2>1. /\ u \in Text /\ u.upto = t.upto /\ u.added = 0 /\ u.chunks = t.chunks
        /\ u.first = p + 1 /\ u.ended = t.ended
    BY <1>0, <1>1 DEF Text
  <2>2. /\ Pieces(u) = Pieces(t) /\ LastChunk(u) = LastChunk(t)
        /\ \A a, b : Tokens(u, a, b) = Tokens(t, a, b)
    BY <2>1 DEF Pieces, Tokens, LastChunk
  <2>3. \A k : /\ ChunkSound(u, p, k) <=> ChunkSound(t, p, k)
               /\ ClosedWell(u, k) <=> ClosedWell(t, k)
               /\ FollowsChunk(u, k) <=> FollowsChunk(t, k)
    BY <2>1, <2>2 DEF ChunkSound, ClosedWell, FollowsChunk, ChunkTokens
  <2>4. Tokens(t, p + 1, p + 1) \in 0 .. MaxTokens
    BY <1>0, TokensAssumption DEF Base
  <2>5. t.first <= p
    <3>. SUFFICES ASSUME t.first = p + 1 PROVE FALSE
      BY <1>0
    <3>1. t.first = Pieces(t) /\ p + 1 = Pieces(t)
      BY <1>0
    <3>2. Tokens(t, t.first, Pieces(t)) \in 0 .. MaxTokens
      BY <3>1, <2>4
    <3>. QED
      BY <3>2, <1>1, TokensAssumption DEF Overflows
  <2>6. CurrentFollows(u, p)
    <3>1. t.chunks # <<>>
      BY <2>5, <1>0, <1>1 DEF Base, CurrentFollows
    <3>2. LastChunk(t) \in Chunk
      BY <3>1, <1>0 DEF LastChunk
    <3>3. LastChunk(t).last = p /\ t.first = p
      BY <3>1, <3>2, <2>5, <1>0, <1>1 DEF Base, CurrentFollows, Chunk
    <3>. QED
      BY <3>1, <3>3, <2>1, <2>2, <1>0, <1>1 DEF CurrentFollows, Overflows
  <2>7. Base(u, p)
    BY SMTT(60), <2>1, <2>2, <2>3, <2>6, <1>0 DEF Base
  <2>8. ~Overflows(u)
    BY <2>1, <2>2, <2>4, <1>0, TokensAssumption DEF Overflows, Base
  <2>. QED
    BY <2>1, <2>2, <2>3, <2>7, <2>8, <1>1 DEF DropOverlap, LastClosedWell
<1>2. CASE ~(t.added = 0 /\ Overflows(t))
  BY <1>0, <1>2 DEF DropOverlap
<1>. QED
  BY <1>1, <1>2

(* The piece joins `current'. *)
LEMMA PushPieceBase ==
  ASSUME NEW t, Base(t, Pieces(t) - 1), LastClosedWell(t), Pieces(t) > 0,
         ~Overflows(t), ~t.ended
  PROVE  LET u == PushPiece(t) IN
         /\ Base(u, Pieces(t)) /\ LastClosedWell(u) /\ Pieces(u) = Pieces(t)
         /\ u.first <= Pieces(t) /\ u.added > 0 /\ ~u.ended
<1>. DEFINE p == Pieces(t)
            u == PushPiece(t)
<1>0. /\ p \in Nat /\ p - 1 \in Nat /\ t \in Text /\ t.chunks \in Seq(Chunk)
      /\ t.added \in Nat /\ t.first \in 1 .. p /\ Len(t.chunks) \in Nat
      /\ t.upto \in Seq(Nat) /\ Len(t.upto) = p + 1
  BY DEF Base, Text, Pieces
<1>1. /\ u \in Text /\ u.upto = t.upto /\ u.added = t.added + 1 /\ u.chunks = t.chunks
      /\ u.first = t.first /\ u.ended = t.ended
  <2>1. t \in Text /\ t.added + 1 \in Nat
    BY <1>0
  <2>. QED
    BY <2>1 DEF Text, PushPiece
<1>2. /\ Pieces(u) = p /\ LastChunk(u) = LastChunk(t)
      /\ \A a, b : Tokens(u, a, b) = Tokens(t, a, b)
  BY <1>1 DEF Pieces, Tokens, LastChunk
<1>3. \A k \in 1 .. Len(u.chunks) : ChunkSound(u, p, k)
  <2>. SUFFICES ASSUME NEW k \in 1 .. Len(t.chunks) PROVE ChunkSound(u, p, k)
    BY <1>1
  <2>1. ChunkSound(t, p - 1, k) /\ t.chunks[k] \in Chunk
    BY <1>0 DEF Base
  <2>. QED
    BY SMTT(30), <2>1, <1>0, <1>1, <1>2 DEF ChunkSound, ChunkTokens, Chunk
<1>4. \A k : /\ ClosedWell(u, k) <=> ClosedWell(t, k)
             /\ FollowsChunk(u, k) <=> FollowsChunk(t, k)
  BY <1>1, <1>2 DEF ClosedWell, FollowsChunk, ChunkTokens
<1>5. CurrentFollows(u, p)
  <2>1. CASE t.chunks = <<>>
    BY <2>1, <1>0, <1>1 DEF Base, CurrentFollows
  <2>2. CASE t.chunks # <<>>
    <3>1. LastChunk(t) \in Chunk
      BY <2>2, <1>0 DEF LastChunk
    <3>2. CurrentFollows(t, p - 1)
      BY DEF Base
    <3>. QED
      <4>1. /\ t.added = p - 1 - LastChunk(t).last
            /\ \/ t.first = LastChunk(t).last
               \/ /\ t.first = LastChunk(t).last + 1
                  /\ t.first <= p
                  /\ Tokens(t, LastChunk(t).last, t.first) > MaxTokens
        BY <2>2, <3>2 DEF CurrentFollows
      <4>2. /\ LastChunk(t).last \in Nat /\ u.added = p - LastChunk(u).last
            /\ Tokens(u, LastChunk(u).last, u.first) = Tokens(t, LastChunk(t).last, t.first)
        <5>1. LastChunk(t).last \in Nat
          BY <3>1 DEF Chunk
        <5>2. u.added = p - LastChunk(u).last
          BY SMTT(30), <5>1, <4>1, <1>0, <1>1, <1>2
        <5>3. Tokens(u, LastChunk(u).last, u.first) = Tokens(t, LastChunk(t).last, t.first)
          BY <1>1, <1>2
        <5>. QED
          BY <5>1, <5>2, <5>3
      <4>. QED
        BY <2>2, <4>1, <4>2, <1>1, <1>2 DEF CurrentFollows
  <2>. QED
    BY <2>1, <2>2
<1>6. Tokens(t, t.first, p) \in Int
  BY <1>0, TokensAreIntegers
<1>7. Tokens(t, t.first, p) <= MaxTokens
  BY <1>6, TokensAssumption DEF Overflows
<1>8. /\ \A i \in 1 .. Pieces(u) : Tokens(u, i, i) \in 0 .. MaxTokens
      /\ u.chunks # <<>> => u.chunks[1].first = 1
      /\ \A k \in 1 .. Len(u.chunks) - 1 : FollowsChunk(u, k)
  BY <1>1, <1>2, <1>4 DEF Base
<1>9. Base(u, p)
  BY <1>0, <1>1, <1>2, <1>3, <1>5, <1>7, <1>8 DEF Base
<1>. QED
  BY <1>0, <1>1, <1>2, <1>4, <1>9 DEF LastClosedWell

LEMMA CloseAtTargetInv ==
  ASSUME NEW t, Base(t, Pieces(t)), LastClosedWell(t), t.first <= Pieces(t), t.added > 0,
         ~t.ended
  PROVE  TextInv(CloseAtTarget(t))
<1>. DEFINE e == Emit(t, Pieces(t))
<1>0. Pieces(t) \in Nat
  BY DEF Base, Text, Pieces
<1>1. CASE Tokens(t, t.first, Pieces(t)) >= TargetTokens
  <2>1. /\ Base(e, Pieces(t)) /\ e.chunks # <<>> /\ e.upto = t.upto /\ e.first = Pieces(t)
        /\ e.ended = t.ended /\ LastChunk(e) = [first |-> t.first, last |-> Pieces(t)]
    BY EmitBase
  <2>2. Pieces(e) = Pieces(t)
    BY <2>1 DEF Pieces
  <2>3. ClosedWell(e, Len(e.chunks))
    BY <2>1, <1>1 DEF ClosedWell, ChunkTokens, LastChunk, Tokens
  <2>. QED
    BY <2>1, <2>2, <2>3, <1>0, <1>1 DEF CloseAtTarget, TextInv, LastClosedWell
<1>2. CASE ~(Tokens(t, t.first, Pieces(t)) >= TargetTokens)
  BY <1>2 DEF CloseAtTarget, TextInv
<1>. QED
  BY <1>1, <1>2

LEMMA AddPieceInv ==
  ASSUME NEW t, NEW n \in PieceSizes, TextInv(t), ~t.ended
  PROVE  TextInv(CloseAtTarget(PushPiece(DropOverlap(CloseWhenFull(ReadPiece(t, n))))))
<1>. DEFINE t1 == ReadPiece(t, n)
            t2 == CloseWhenFull(t1)
            t3 == DropOverlap(t2)
            t4 == PushPiece(t3)
<1>0. Pieces(t) \in Nat
  BY DEF TextInv, Base, Text, Pieces
<1>1. /\ Base(t1, Pieces(t)) /\ LastClosedWell(t1) /\ Pieces(t1) = Pieces(t) + 1
      /\ ~t1.ended /\ (Pieces(t) > 0 => t1.first <= Pieces(t))
  BY ReadPieceBase
<1>. HIDE DEF t1
<1>2. /\ Pieces(t1) - 1 = Pieces(t) /\ Pieces(t1) > 0
      /\ Pieces(t1) > 1 => t1.first < Pieces(t1)
  <2>1. t1.first \in Nat
    BY <1>1 DEF Base, Text
  <2>. QED
    BY <2>1, <1>0, <1>1
<1>3. /\ Base(t2, Pieces(t1) - 1) /\ LastClosedWell(t2) /\ Pieces(t2) = Pieces(t1)
      /\ t2.added > 0 => ~Overflows(t2)
      /\ ~t2.ended
  BY <1>1, <1>2, CloseWhenFullBase
<1>. HIDE DEF t2
<1>4. /\ Base(t3, Pieces(t2) - 1) /\ LastClosedWell(t3) /\ Pieces(t3) = Pieces(t2)
      /\ ~Overflows(t3) /\ ~t3.ended
  BY <1>2, <1>3, DropOverlapBase
<1>. HIDE DEF t3
<1>5. /\ Base(t4, Pieces(t3)) /\ LastClosedWell(t4) /\ Pieces(t4) = Pieces(t3)
      /\ t4.first <= Pieces(t3) /\ t4.added > 0 /\ ~t4.ended
  BY <1>2, <1>3, <1>4, PushPieceBase
<1>. HIDE DEF t4
<1>6. TextInv(CloseAtTarget(t4))
  BY <1>5, CloseAtTargetInv
<1>. QED
  BY <1>6 DEF t1, t2, t3, t4

LEMMA EndedBase ==
  ASSUME NEW t, NEW p, Base(t, p)
  PROVE  LET u == [t EXCEPT !.ended = TRUE] IN
         /\ Base(u, p) /\ Pieces(u) = Pieces(t) /\ u.ended
         /\ u.first = t.first /\ u.added = t.added /\ u.upto = t.upto
<1>. DEFINE u == [t EXCEPT !.ended = TRUE]
<1>1. t \in Text
  BY DEF Base
<1>2. /\ u \in Text /\ u.upto = t.upto /\ u.added = t.added /\ u.chunks = t.chunks
      /\ u.first = t.first /\ u.ended
  BY <1>1 DEF Text
<1>. HIDE DEF u
<1>3. Pieces(u) = Pieces(t) /\ LastChunk(u) = LastChunk(t)
  BY <1>2 DEF Pieces, LastChunk
<1>4. \A a, b : Tokens(u, a, b) = Tokens(t, a, b)
  BY <1>2 DEF Tokens
<1>5. \A k : /\ ChunkSound(u, p, k) <=> ChunkSound(t, p, k)
             /\ FollowsChunk(u, k) <=> FollowsChunk(t, k)
  BY <1>2, <1>3, <1>4 DEF ChunkSound, ClosedWell, FollowsChunk, ChunkTokens
<1>6. CurrentFollows(u, p)
  BY <1>2, <1>3, <1>4 DEF Base, CurrentFollows
<1>7. Base(u, p)
  BY <1>2, <1>3, <1>4, <1>5, <1>6 DEF Base
<1>. QED
  BY <1>2, <1>3, <1>7 DEF u

LEMMA EndOfBodyInv ==
  ASSUME NEW t, TextInv(t), ~t.ended
  PROVE  LET u == [(IF t.added > 0 THEN Emit(t, Pieces(t)) ELSE t) EXCEPT !.ended = TRUE] IN
         TextInv(u) /\ u.upto = t.upto
<1>. DEFINE e == Emit(t, Pieces(t))
<1>1. /\ Base(t, Pieces(t)) /\ LastClosedWell(t) /\ Pieces(t) \in Nat /\ t.added \in Nat
      /\ t.chunks \in Seq(Chunk) /\ (Pieces(t) > 0 => t.first <= Pieces(t))
  BY DEF TextInv, Base, Text, Pieces
<1>2. CASE t.added > 0
  <2>1. Pieces(t) > 0
    <3>1. CASE t.chunks = <<>>
      BY <3>1, <1>1, <1>2 DEF Base, CurrentFollows
    <3>2. CASE t.chunks # <<>>
      <4>1. LastChunk(t) \in Chunk
        BY <3>2, <1>1 DEF LastChunk
      <4>2. t.added = Pieces(t) - LastChunk(t).last
        BY <3>2, <1>1 DEF Base, CurrentFollows
      <4>. QED
        BY <4>1, <4>2, <1>1, <1>2 DEF Chunk
    <3>. QED
      BY <3>1, <3>2
  <2>2. /\ Base(e, Pieces(t)) /\ e.upto = t.upto /\ e.first = Pieces(t) /\ e.added = 0
    BY <2>1, <1>1, <1>2, EmitBase
  <2>3. Pieces(e) = Pieces(t)
    BY <2>2 DEF Pieces
  <2>4. TextInv([e EXCEPT !.ended = TRUE]) /\ [e EXCEPT !.ended = TRUE].upto = t.upto
    <3>. HIDE DEF e
    <3>. QED
      BY <2>2, <2>3, <1>1, EndedBase DEF TextInv
  <2>. QED
    BY <2>4, <1>2
<1>3. CASE ~(t.added > 0)
  <2>1. t.added = 0
    BY <1>1, <1>3
  <2>2. TextInv([t EXCEPT !.ended = TRUE]) /\ [t EXCEPT !.ended = TRUE].upto = t.upto
    BY <2>1, <1>1, EndedBase DEF TextInv
  <2>. QED
    BY <2>2, <1>3
<1>. QED
  BY <1>2, <1>3

(* What a text that keeps TextInv says of its chunks. *)
LEMMA ChunksOfText ==
  ASSUME NEW t, TextInv(t), NEW k \in 1 .. Len(t.chunks)
  PROVE  /\ t.chunks[k].first \in Nat /\ t.chunks[k].last \in Nat
         /\ t.chunks[k].first >= 1 /\ t.chunks[k].first <= t.chunks[k].last
         /\ t.chunks[k].last <= Pieces(t)
         /\ ChunkTokens(t, k) <= MaxTokens
<1>1. t.chunks[k] \in Chunk /\ ChunkSound(t, Pieces(t), k)
  BY DEF TextInv, Base, Text
<1>. QED
  BY <1>1 DEF ChunkSound, Chunk

-----------------------------------------------------------------------------
(* The properties of the texts follow. *)
LEMMA TextsAreRight ==
  ASSUME \A d \in Documents : TextInv(text[d])
  PROVE  ChunksFit /\ NothingLost /\ SmallOnlyWhenItMustBe
<1>1. ChunksFit
  BY ChunksOfText DEF ChunksFit
<1>2. ASSUME NEW d \in Documents, NEW t, t = text[d]
      PROVE  LET n == Len(t.chunks) IN
             /\ n > 0 => t.chunks[1].first = 1
             /\ \A k \in 1 .. n - 1 :
                  /\ t.chunks[k + 1].first \in {t.chunks[k].last, t.chunks[k].last + 1}
                  /\ t.chunks[k + 1].last > t.chunks[k].last
             /\ t.ended /\ Pieces(t) > 0 => n > 0 /\ t.chunks[n].last = Pieces(t)
  <2>1. /\ TextInv(t) /\ Base(t, Pieces(t)) /\ t.chunks \in Seq(Chunk)
        /\ Pieces(t) \in Nat /\ Len(t.chunks) \in Nat
    BY <1>2 DEF TextInv, Base, Text, Pieces
  <2>2. ASSUME t.ended, Pieces(t) > 0
        PROVE  Len(t.chunks) > 0 /\ t.chunks[Len(t.chunks)].last = Pieces(t)
    <3>1. t.added = 0 /\ CurrentFollows(t, Pieces(t))
      BY <2>1, <2>2 DEF TextInv, Base
    <3>2. t.chunks # <<>>
      BY <3>1, <2>1, <2>2 DEF CurrentFollows
    <3>3. t.chunks[Len(t.chunks)] \in Chunk /\ Len(t.chunks) > 0
      BY <3>2, <2>1
    <3>4. 0 = Pieces(t) - t.chunks[Len(t.chunks)].last
      BY <3>1, <3>2 DEF CurrentFollows, LastChunk
    <3>. QED
      BY <3>3, <3>4, <2>1 DEF Chunk
  <2>3. Len(t.chunks) > 0 => t.chunks[1].first = 1
    BY <2>1 DEF Base
  <2>4. \A k \in 1 .. Len(t.chunks) - 1 : FollowsChunk(t, k)
    BY <2>1 DEF Base
  <2>. QED
    BY <2>2, <2>3, <2>4 DEF FollowsChunk
<1>3. NothingLost
  BY <1>2 DEF NothingLost
<1>4. ASSUME NEW d \in Documents, NEW t, t = text[d], NEW k \in 1 .. Len(t.chunks) - 1
      PROVE  /\ \/ ChunkTokens(t, k) >= TargetTokens
                \/ Tokens(t, t.chunks[k].first, t.chunks[k].last + 1) > MaxTokens
             /\ t.chunks[k + 1].first > t.chunks[k].last =>
                  Tokens(t, t.chunks[k].last, t.chunks[k].last + 1) > MaxTokens
  <2>1. FollowsChunk(t, k) /\ t.chunks[k] \in Chunk
    BY <1>4 DEF TextInv, Base, Text
  <2>2. t.chunks[k].last \in Nat
    BY <2>1 DEF Chunk
  <2>. QED
    BY <2>1, <2>2 DEF FollowsChunk, ClosedWell
<1>5. SmallOnlyWhenItMustBe
  BY <1>4 DEF SmallOnlyWhenItMustBe
<1>. QED
  BY <1>1, <1>3, <1>5

-----------------------------------------------------------------------------
(* The counts of the chunks are natural numbers: upto never decreases. *)
Increasing(t) ==
  \A i \in 1 .. Len(t.upto) : \A j \in i .. Len(t.upto) : t.upto[i] <= t.upto[j]

LEMMA ReadPieceIncreasing ==
  ASSUME NEW t, NEW n \in PieceSizes, t \in Text, Len(t.upto) >= 1, Increasing(t)
  PROVE  Increasing(ReadPiece(t, n))
<1>. DEFINE u == ReadPiece(t, n)
            l == Len(t.upto)
<1>1. t.upto \in Seq(Nat) /\ l \in Nat /\ l >= 1 /\ n \in Nat /\ t.upto[l] \in Nat
  BY TokensAssumption DEF Text, PieceSizes
<1>2. u.upto = Append(t.upto, t.upto[l] + n)
  BY <1>1 DEF ReadPiece, Text
<1>. HIDE DEF u
<1>3. /\ Len(u.upto) = l + 1 /\ u.upto[l + 1] = t.upto[l] + n
      /\ \A i \in 1 .. l : u.upto[i] = t.upto[i]
  BY <1>1, <1>2, AppendFacts
<1>4. ASSUME NEW i \in 1 .. l + 1, NEW j \in i .. l + 1
      PROVE  u.upto[i] <= u.upto[j]
  <2>1. CASE j <= l
    <3>1. i \in 1 .. l /\ j \in i .. l /\ j \in 1 .. l
      BY <2>1, <1>1
    <3>. QED
      BY <3>1, <1>3 DEF Increasing
  <2>2. CASE i <= l /\ j = l + 1
    <3>1. i \in 1 .. l /\ l \in i .. l
      BY <2>2, <1>1
    <3>2. t.upto[i] <= t.upto[l] /\ t.upto[i] \in Nat
      BY SMTT(30), <3>1, <1>1 DEF Increasing
    <3>. QED
      BY <3>1, <3>2, <2>2, <1>1, <1>3
  <2>3. CASE i = l + 1
    BY <2>3, <1>1, <1>3
  <2>. QED
    BY <2>1, <2>2, <2>3, <1>1
<1>. QED
  BY <1>3, <1>4 DEF Increasing, u

(* The rest of the loop only moves `current' and the chunks. *)
LEMMA UptoKept ==
  ASSUME NEW t
  PROVE  /\ CloseAtTarget(t).upto = t.upto
         /\ PushPiece(t).upto = t.upto
         /\ DropOverlap(t).upto = t.upto
         /\ CloseWhenFull(t).upto = t.upto
BY DEF CloseAtTarget, PushPiece, DropOverlap, CloseWhenFull, Emit

LEMMA SameUptoIncreasing ==
  ASSUME NEW t, NEW u, u.upto = t.upto, Increasing(t)
  PROVE  Increasing(u)
BY DEF Increasing

LEMMA AddPieceIncreasing ==
  ASSUME NEW t, NEW n \in PieceSizes, TextInv(t), Increasing(t)
  PROVE  Increasing(CloseAtTarget(PushPiece(DropOverlap(CloseWhenFull(ReadPiece(t, n))))))
<1>1. Increasing(ReadPiece(t, n))
  BY ReadPieceIncreasing DEF TextInv, Base
<1>. QED
  BY <1>1, UptoKept, SameUptoIncreasing

LEMMA ChunkTokensNat ==
  ASSUME NEW t, TextInv(t), Increasing(t), NEW k \in 1 .. Len(t.chunks)
  PROVE  ChunkTokens(t, k) \in 0 .. MaxTokens
<1>. DEFINE a == t.chunks[k].first
            b == t.chunks[k].last
<1>1. /\ a \in Nat /\ b \in Nat /\ a >= 1 /\ a <= b /\ b <= Pieces(t)
      /\ ChunkTokens(t, k) <= MaxTokens
  BY ChunksOfText
<1>2. t.upto \in Seq(Nat) /\ Len(t.upto) \in Nat /\ Pieces(t) = Len(t.upto) - 1
  BY DEF TextInv, Base, Text, Pieces
<1>3. ChunkTokens(t, k) = t.upto[b + 1] - t.upto[a]
  BY DEF ChunkTokens, Tokens
<1>. HIDE DEF a, b
<1>4. a \in 1 .. Len(t.upto) /\ b + 1 \in a .. Len(t.upto) /\ b + 1 \in 1 .. Len(t.upto)
  BY <1>1, <1>2
<1>5. t.upto[a] \in Nat /\ t.upto[b + 1] \in Nat
  BY SMTT(30), <1>2, <1>4
<1>6. t.upto[a] <= t.upto[b + 1]
  BY <1>4 DEF Increasing
<1>. QED
  BY <1>1, <1>3, <1>5, <1>6, TokensAssumption

(* Every passage a lookup can meet has the count of a chunk. *)
LEMMA PassageTokens ==
  ASSUME \A d \in Documents : TextInv(text[d]) /\ Increasing(text[d]), NEW p \in Passages
  PROVE  p.tokens \in 0 .. MaxTokens
<1>1. PICK d \in Stored :
        p \in {[document |-> d, ord |-> k, tokens |-> ChunkTokens(text[d], k)]
                 : k \in 1 .. Len(text[d].chunks)}
  BY DEF Passages
<1>2. PICK k \in 1 .. Len(text[d].chunks) :
        p = [document |-> d, ord |-> k, tokens |-> ChunkTokens(text[d], k)]
  BY <1>1
<1>3. d \in Documents
  BY DEF Stored
<1>. QED
  BY <1>2, <1>3, ChunkTokensNat

-----------------------------------------------------------------------------
TextsInv ==
  /\ text \in [Documents -> Text]
  /\ \A d \in Documents : TextInv(text[d]) /\ Increasing(text[d])

RankTypes ==
  /\ status \in {"idle", "selecting", "none", "exhausted", "ok"}
  /\ used \in Nat
  /\ remaining \subseteq candidates /\ chosen \subseteq candidates
  /\ IsFiniteSet(chosen)
  /\ \A c \in candidates : c.tokens \in 0 .. MaxTokens
  /\ status = "idle" => chosen = {} /\ remaining = {}
  /\ chosen = {} => used = 0

(* A passage played before is chosen only when no other is left. *)
NewFirst ==
  (\E c \in chosen : c.played = "long_ago") => \A c \in remaining : c.played # "never"

(* Until the budget ends the selection, nothing never played is out without a reason. *)
Accounted ==
  remaining # {} =>
    \A c \in candidates : c.played = "never" =>
      c \in remaining \/ c \in chosen \/ c \in duplicates \/ CapReached(c)

RankInv == RankTypes /\ BudgetKept /\ NewFirst /\ Accounted /\ NewBeforeOld

IInv == TextsInv /\ RankInv

LEMMA InitInv == Init => IInv
<1>. SUFFICES ASSUME Init PROVE IInv
  OBVIOUS
<1>1. TextsInv
  <2>1. NoText \in Text
    BY DEF NoText, Text
  <2>2. Increasing(NoText)
    BY DEF NoText, Increasing
  <2>. QED
    BY <2>1, <2>2, NoTextInv DEF Init, ChunkingInit, TextsInv
<1>2. RankTypes
  BY FS_EmptySet DEF Init, RankingInit, RankTypes
<1>3. BudgetKept /\ NewFirst /\ Accounted /\ NewBeforeOld
  BY BudgetAssumption DEF Init, RankingInit, BudgetKept, NewFirst, Accounted, NewBeforeOld
<1>. QED
  BY <1>1, <1>2, <1>3 DEF IInv, RankInv

LEMMA StutterRank ==
  ASSUME RankInv, UNCHANGED rankingVars
  PROVE  RankInv'
BY DEF RankInv, rankingVars, RankTypes, BudgetKept, NewFirst, Accounted, NewBeforeOld,
       CapReached

LEMMA IngestInv == IInv /\ Ingest => IInv'
<1>. SUFFICES ASSUME IInv, Ingest PROVE IInv'
  OBVIOUS
<1>0. TextsInv /\ RankInv /\ UNCHANGED rankingVars
  BY DEF IInv, Ingest
<1>. PICK d \in Documents : AddPiece(d) \/ EndOfBody(d)
  BY DEF Ingest
<1>1. TextInv(text[d]) /\ Increasing(text[d]) /\ ~text[d].ended
  BY <1>0 DEF TextsInv, AddPiece, EndOfBody
<1>2. PICK u : text' = [text EXCEPT ![d] = u] /\ TextInv(u) /\ Increasing(u)
  <2>1. CASE AddPiece(d)
    <3>1. PICK n \in PieceSizes :
            text' = [text EXCEPT ![d] =
              CloseAtTarget(PushPiece(DropOverlap(CloseWhenFull(ReadPiece(text[d], n)))))]
      BY <2>1 DEF AddPiece
    <3>. QED
      BY <3>1, <1>1, AddPieceInv, AddPieceIncreasing
  <2>2. CASE EndOfBody(d)
    <3>. DEFINE v == [(IF text[d].added > 0 THEN Emit(text[d], Pieces(text[d])) ELSE text[d])
                       EXCEPT !.ended = TRUE]
    <3>1. text' = [text EXCEPT ![d] = v]
      BY <2>2 DEF EndOfBody
    <3>2. TextInv(v) /\ v.upto = text[d].upto
      BY <1>1, EndOfBodyInv
    <3>3. Increasing(v)
      BY <3>2, <1>1, SameUptoIncreasing
    <3>. QED
      BY <3>1, <3>2, <3>3
  <2>. QED
    BY <2>1, <2>2
<1>3. u \in Text
  BY <1>2 DEF TextInv, Base
<1>4. /\ text' \in [Documents -> Text]
      /\ \A e \in Documents : text'[e] = IF e = d THEN u ELSE text[e]
  BY <1>0, <1>2, <1>3 DEF TextsInv
<1>5. \A e \in Documents : TextInv(text'[e]) /\ Increasing(text'[e])
  BY <1>0, <1>2, <1>4 DEF TextsInv
<1>6. TextsInv'
  BY <1>4, <1>5 DEF TextsInv
<1>. QED
  BY <1>0, <1>6, StutterRank DEF IInv

LEMMA LookupInv == IInv /\ Lookup => IInv'
<1>. SUFFICES ASSUME IInv, Lookup PROVE IInv'
  OBVIOUS
<1>0. TextsInv /\ RankTypes /\ UNCHANGED text
  BY DEF IInv, RankInv, Lookup
<1>1. PICK last \in [Passages -> Played] :
        Select({[document |-> p.document, ord |-> p.ord, tokens |-> p.tokens,
                 played |-> last[p]] : p \in Passages})
  BY DEF Lookup
<1>. DEFINE cs == {[document |-> p.document, ord |-> p.ord, tokens |-> p.tokens,
                    played |-> last[p]] : p \in Passages}
<1>2. \A c \in cs : c.tokens \in 0 .. MaxTokens
  BY <1>0, PassageTokens DEF TextsInv
<1>. HIDE DEF cs
<1>3. /\ candidates' = cs /\ remaining' = {c \in cs : ~Excluded(c)}
      /\ chosen' = {} /\ used' = 0 /\ duplicates' = duplicates
      /\ status' \in {"none", "exhausted", "selecting"}
  BY <1>0, <1>1 DEF Select, RankTypes, cs
<1>4. RankTypes'
  BY <1>2, <1>3, FS_EmptySet DEF RankTypes
<1>5. Accounted'
  BY <1>3 DEF Accounted, Excluded
<1>6. BudgetKept' /\ NewFirst' /\ NewBeforeOld'
  BY <1>3, BudgetAssumption DEF BudgetKept, NewFirst, NewBeforeOld
<1>7. TextsInv'
  BY <1>0 DEF TextsInv
<1>. QED
  BY <1>4, <1>5, <1>6, <1>7 DEF IInv, RankInv

(* A document that is there as often as one may be stays so. *)
LEMMA CapStays ==
  ASSUME IsFiniteSet(chosen), NEW x, chosen' = chosen \/ chosen' = chosen \cup {x},
         NEW c, CapReached(c)
  PROVE  CapReached(c)'
<1>. DEFINE S == {y \in chosen : y.document = c.document}
            T == {y \in chosen' : y.document = c.document}
<1>1. IsFiniteSet(chosen') /\ chosen \subseteq chosen'
  BY FS_AddElement
<1>2. IsFiniteSet(T) /\ S \subseteq T
  BY <1>1, FS_Subset
<1>3. Cardinality(S) <= Cardinality(T) /\ IsFiniteSet(S)
  BY <1>2, FS_Subset
<1>4. Cardinality(S) \in Nat /\ Cardinality(T) \in Nat
  BY <1>2, <1>3, FS_CardinalityType
<1>5. Cardinality(S) >= PerDocument
  BY DEF CapReached
<1>6. Cardinality(T) >= PerDocument
  BY <1>3, <1>4, <1>5, BudgetAssumption
<1>. QED
  BY <1>6 DEF CapReached

LEMMA ConsiderInv ==
  ASSUME RankInv, NEW c \in remaining, Consider(c)
  PROVE  RankInv'
<1>0. /\ RankTypes /\ BudgetKept /\ NewFirst /\ Accounted /\ NewBeforeOld
      /\ candidates' = candidates /\ status' = status /\ status = "selecting"
      /\ NeverPlayedFirst(c) /\ c \in candidates
      /\ \A x \in candidates : CapReached(x) \/ ~CapReached(x)
  BY DEF RankInv, Consider, RankTypes
<1>1. CASE chosen' = chosen /\ used' = used
  <2>1. /\ remaining' \subseteq remaining /\ duplicates \subseteq duplicates'
        /\ \/ remaining' = {}
           \/ remaining' = remaining \ {c} /\ (c \in duplicates' \/ CapReached(c))
           \/ c \in chosen'
    BY <1>1 DEF Consider
  <2>2. \A x : CapReached(x) => CapReached(x)'
    BY <1>1 DEF CapReached
  <2>3. RankTypes' /\ BudgetKept' /\ NewFirst'
    BY <1>0, <1>1, <2>1 DEF RankTypes, BudgetKept, NewFirst
  <2>4. NewBeforeOld'
    BY <1>0, <1>1, <2>1, <2>2 DEF NewBeforeOld
  <2>5. Accounted'
    <3>. SUFFICES ASSUME remaining' # {}, NEW x \in candidates, x.played = "never"
                  PROVE  x \in remaining' \/ x \in chosen' \/ x \in duplicates' \/ CapReached(x)'
      BY <1>0 DEF Accounted
    <3>1. x \in remaining \/ x \in chosen \/ x \in duplicates \/ CapReached(x)
      BY <1>0 DEF Accounted
    <3>. QED
      BY <3>1, <1>1, <2>1, <2>2 DEF Consider
  <2>. QED
    BY <2>3, <2>4, <2>5 DEF RankInv
<1>2. CASE /\ ~OverBudget(c) /\ remaining' = remaining \ {c}
           /\ chosen' = chosen \cup {c} /\ used' = used + c.tokens
           /\ duplicates' = duplicates
  <2>1. \A x : CapReached(x) => CapReached(x)'
    BY <1>0, <1>2, CapStays DEF RankTypes
  <2>2. c.tokens \in Nat /\ c.tokens <= MaxTokens /\ used \in Nat
    BY <1>0, TokensAssumption DEF RankTypes
  <2>3. RankTypes'
    <3>1. IsFiniteSet(chosen')
      BY <1>0, <1>2, FS_AddElement DEF RankTypes
    <3>2. used' \in Nat /\ chosen' # {}
      BY <1>2, <2>2
    <3>. QED
      BY <3>1, <3>2, <1>0, <1>2 DEF RankTypes
  <2>4. BudgetKept'
    <3>1. CASE chosen = {}
      BY <3>1, <1>0, <1>2, <2>2, TokensAssumption, BudgetAssumption DEF RankTypes, BudgetKept
    <3>2. CASE chosen # {}
      BY <3>2, <1>2, <2>2, BudgetAssumption DEF OverBudget, BudgetKept
    <3>. QED
      BY <3>1, <3>2
  <2>5. NewFirst'
    BY <1>0, <1>2 DEF NewFirst, NeverPlayedFirst
  <2>6. Accounted'
    BY <1>0, <1>2, <2>1 DEF Accounted
  <2>7. NewBeforeOld'
    <3>. SUFFICES ASSUME NEW o \in chosen', o.played = "long_ago",
                         NEW x \in candidates, x.played = "never"
                  PROVE  x \in chosen' \/ x \in duplicates' \/ CapReached(x)'
      BY <1>0 DEF NewBeforeOld
    <3>1. CASE o \in chosen
      BY <3>1, <1>0, <1>2, <2>1 DEF NewBeforeOld
    <3>2. CASE o = c
      <4>1. x \notin remaining
        BY <3>2, <1>0 DEF NeverPlayedFirst
      <4>. QED
        BY <4>1, <1>0, <1>2, <2>1 DEF Accounted
    <3>. QED
      BY <3>1, <3>2, <1>2
  <2>. QED
    BY <2>3, <2>4, <2>5, <2>6, <2>7 DEF RankInv
<1>. QED
  BY <1>1, <1>2 DEF Consider

LEMMA RankStepInv == IInv /\ Rank => IInv'
<1>. SUFFICES ASSUME IInv, Rank PROVE IInv'
  OBVIOUS
<1>1. TextsInv'
  BY DEF IInv, Rank, TextsInv
<1>2. CASE \E c \in remaining : Consider(c)
  BY <1>1, <1>2, ConsiderInv DEF IInv
<1>3. CASE Answer
  <2>1. RankInv'
    BY <1>3 DEF IInv, RankInv, Answer, RankTypes, BudgetKept, NewFirst, Accounted,
               NewBeforeOld, CapReached
  <2>. QED
    BY <1>1, <2>1 DEF IInv
<1>. QED
  BY <1>2, <1>3 DEF Rank

LEMMA StutterInv == IInv /\ UNCHANGED vars => IInv'
<1>. SUFFICES ASSUME IInv, UNCHANGED vars PROVE IInv'
  OBVIOUS
<1>1. TextsInv' /\ UNCHANGED rankingVars
  BY DEF IInv, TextsInv, vars, rankingVars
<1>. QED
  BY <1>1, StutterRank DEF IInv

(* The inductive invariant: the loop invariant of chunk() for every body, and that of    *)
(* select() for the call in progress.                                                   *)
THEOREM RetrievalInvariant == Spec => []IInv
<1>1. IInv /\ [Next]_vars => IInv'
  BY IngestInv, LookupInv, RankStepInv, StutterInv DEF Next
<1>. QED
  BY <1>1, InitInv, PTL DEF Spec

LEMMA InvImplies ==
  IInv => TypeOK /\ ChunksFit /\ NothingLost /\ SmallOnlyWhenItMustBe
          /\ BudgetKept /\ NewBeforeOld
<1>. SUFFICES ASSUME IInv
              PROVE  TypeOK /\ ChunksFit /\ NothingLost /\ SmallOnlyWhenItMustBe
                     /\ BudgetKept /\ NewBeforeOld
  OBVIOUS
<1>1. TypeOK
  BY DEF IInv, TextsInv, TextInv, RankInv, RankTypes, TypeOK
<1>2. ChunksFit /\ NothingLost /\ SmallOnlyWhenItMustBe
  BY TextsAreRight DEF IInv, TextsInv
<1>. QED
  BY <1>1, <1>2 DEF IInv, RankInv

(* The state of chunk() and of select() has its type, and `current' always ends with the *)
(* last piece read, whatever the bodies are (chunk.rs:94).                              *)
THEOREM TypeCorrect == Spec => []TypeOK
BY RetrievalInvariant, InvImplies, PTL

(* No chunk of chunk() exceeds MAX_TOKENS, the overlap counted, for any bodies and limits. *)
THEOREM ChunksAlwaysFit == Spec => []ChunksFit
BY RetrievalInvariant, InvImplies, PTL

(* The chunks of chunk() are the whole body in its order, with one piece of overlap at most. *)
THEOREM NothingIsLost == Spec => []NothingLost
BY RetrievalInvariant, InvImplies, PTL

(* chunk() closes a chunk below TARGET_TOKENS, or gives up the overlap, only when it must. *)
THEOREM ChunksAreLargeEnough == Spec => []SmallOnlyWhenItMustBe
BY RetrievalInvariant, InvImplies, PTL

(* An answer of select() keeps the budget, its first passage included, because chunk() *)
(* bounds what a passage counts (rank.rs:105).                                         *)
THEOREM AnswerWithinBudget == Spec => []BudgetKept
BY RetrievalInvariant, InvImplies, PTL

(* select() repeats an old passage only when every passage never played is in the answer, *)
(* nearly in it, or of a document that is there as often as one may be (rank.rs:85-111).  *)
THEOREM NewPassagesFirst == Spec => []NewBeforeOld
BY RetrievalInvariant, InvImplies, PTL
=============================================================================
