--------------------------- MODULE MCUserChannels ---------------------------
(* TLC instances of UserChannels. *)
EXTENDS UserChannels
=============================================================================
