------------------------------ MODULE MCDjFacts ------------------------------
(* Two facts, one of them of Wikidata; two contributions that may be the same fact;    *)
(* two reports, of one or two users, that may share an event id.                       *)
EXTENDS DjFacts, TLC

Symmetry == Permutations(Contributions) \cup Permutations(Reports) \cup Permutations(Users)
=============================================================================
