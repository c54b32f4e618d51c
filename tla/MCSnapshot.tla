----------------------------- MODULE MCSnapshot -----------------------------
(* Snapshot with two files and one request at a time. *)
EXTENDS Snapshot
=============================================================================
