----------------------------- MODULE MCClusters -----------------------------
(* Clusters for TLC: the cfg files give the items, rows and workers.       *)
EXTENDS Clusters, TLC
=============================================================================
