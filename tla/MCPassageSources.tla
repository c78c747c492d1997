--------------------------- MODULE MCPassageSources ---------------------------
(* Instance of PassageSources for TLC. *)
EXTENDS PassageSources, TLC

CONSTANTS p1
=============================================================================
