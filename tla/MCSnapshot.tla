----------------------------- MODULE MCSnapshot -----------------------------
(* Values for the constants of Snapshot that a .cfg file cannot express.   *)
EXTENDS Snapshot

MCElapsed == {1, 4}
MCWaits == {1, 3}
=============================================================================
