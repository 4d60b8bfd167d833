------------------------- MODULE MCRemoteBroadcast -------------------------
(* RemoteBroadcast with model values for the runners. *)
EXTENDS RemoteBroadcast

CONSTANTS r1, r2

=============================================================================
