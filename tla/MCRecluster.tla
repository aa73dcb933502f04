---------------------------- MODULE MCRecluster ----------------------------
(* The rebuild for TLC: the cfg files give the items, rows and workers.    *)
EXTENDS Recluster, TLC
=============================================================================
