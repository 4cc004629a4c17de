------------------------------ MODULE MCSynch ------------------------------
(***************************************************************************)
(* Synchronising all threads, for TLC.                                     *)
(***************************************************************************)
EXTENDS Synch

\* When no synch is in progress no thread at all is told of one (see the
\* README; a client thread that forbids its suspension once it has been
\* notified stays notified).
NobodyNotified ==
  all_threads_synch_lock = Nobody => \A u \in listed : pending_synch_count[u] = 0
=============================================================================
