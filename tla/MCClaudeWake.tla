---------------------------- MODULE MCClaudeWake ----------------------------
(* A turn for TLC: one read, at a price of 1.                               *)
EXTENDS ClaudeWake, TLC

CONSTANT paid

BoundOf == paid :> 1
=============================================================================
