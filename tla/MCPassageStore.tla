--------------------------- MODULE MCPassageStore ---------------------------
(* TLC instances of PassageStore: one body is cut into two chunks, the others into one. *)
EXTENDS PassageStore

CONSTANT LongBody

MCChunkCount == [b \in Bodies |-> IF b = LongBody THEN 2 ELSE 1]
=============================================================================
