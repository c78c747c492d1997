----------------------------- MODULE MCSyncStore -----------------------------
(* TLC instances of SyncStore: model values for users, domains and requests. *)
EXTENDS SyncProperties, TLC

Symmetry == Permutations(Requests) \cup Permutations(Users)
==============================================================================
