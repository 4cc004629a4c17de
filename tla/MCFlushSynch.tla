---------------------------- MODULE MCFlushSynch ----------------------------
(***************************************************************************)
(* The flush synchronisation for TLC: any of three threads may flush.      *)
(***************************************************************************)
EXTENDS FlushSynch
=============================================================================
