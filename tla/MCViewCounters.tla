--------------------------- MODULE MCViewCounters ---------------------------
(* Small instances of ViewCounters for TLC.                                  *)
EXTENDS ViewCounters, TLC
=============================================================================
