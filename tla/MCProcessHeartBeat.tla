------------------------- MODULE MCProcessHeartBeat -------------------------
(* One worker of the main process itself and one of another node. *)
EXTENDS ProcessHeartBeat

CONSTANTS w1, w2

=============================================================================
