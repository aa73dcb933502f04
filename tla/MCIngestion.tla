---------------------------- MODULE MCIngestion ----------------------------
(* Ingestion for TLC: three items, two of them posted at the same instant. *)
EXTENDS Ingestion, TLC

CONSTANTS i1, i2, i3

PostedAt == (i1 :> 1) @@ (i2 :> 2) @@ (i3 :> 2)
=============================================================================
