--------------------------- MODULE MCActorFollow ---------------------------
(* Small instances of ActorFollow for TLC.                                  *)
EXTENDS ActorFollow, TLC
=============================================================================
