--------------------------- MODULE MCTranscodingQueue ---------------------------
(* The small instances of TranscodingQueue are given by their configuration  *)
(* alone: two resolutions are enough for a sequence with a parent.           *)
EXTENDS TranscodingQueue, TLC
=============================================================================
