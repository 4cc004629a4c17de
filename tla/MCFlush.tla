------------------------------ MODULE MCFlush ------------------------------
(***************************************************************************)
(* The flush protocol and delayed deletion for TLC.  Threads are           *)
(* interchangeable, and so are the fragments that may be deleted.          *)
(***************************************************************************)
EXTENDS Flush, TLC

Symmetry == Permutations(Threads) \cup Permutations(Frags \ {Kept})
=============================================================================
