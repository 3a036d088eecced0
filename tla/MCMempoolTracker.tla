-------------------------- MODULE MCMempoolTracker --------------------------
(* Instances of MempoolTracker for TLC. *)
EXTENDS MempoolTracker

NonceRange == 0 .. 2
=============================================================================
