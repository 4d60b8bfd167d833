---------------------------- MODULE MCEagerGraph ----------------------------
(* EagerGraph on small instances: model values come from the .cfg files. *)
EXTENDS EagerGraph

CONSTANTS cpu, gpu, a1, a2
=============================================================================
