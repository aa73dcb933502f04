---------------------------- MODULE MCAgentRuns ----------------------------
(* AgentRuns for TLC: one run out of steps first, one out of money first.  *)
EXTENDS AgentRuns, TLC

CONSTANTS r1, r2

Steps == (r1 :> 2) @@ (r2 :> 4)
Money == (r1 :> 4) @@ (r2 :> 2)
=============================================================================
