----------------------------- MODULE MCCluster -----------------------------
(* Two workers, one with two GPUs and one with one, and two graphs, one of    *)
(* which needs broadcast addresses in any case.                               *)
EXTENDS Cluster
CONSTANTS w1, w2, g1, g2
MCGpus == [w \in Worker |-> IF w = w1 THEN 2 ELSE 1]
=============================================================================
