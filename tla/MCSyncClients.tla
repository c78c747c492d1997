---------------------------- MODULE MCSyncClients ----------------------------
(* TLC instance of SyncClients: two devices, three writes, a channel of one event. *)
EXTENDS SyncClients

CONSTANTS d1, d2, playlists, settings, r1, r2, r3
=============================================================================
