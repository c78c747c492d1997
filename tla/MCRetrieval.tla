---------------------------- MODULE MCRetrieval ----------------------------
EXTENDS Retrieval, TLC
CONSTANTS d1, d2
MCMaxPieces == d1 :> 3 @@ d2 :> 2
=============================================================================
