---------------------------- MODULE MCIngestJobs ----------------------------
(* TLC instances of IngestJobs. *)
EXTENDS IngestJobs, TLC
=============================================================================
