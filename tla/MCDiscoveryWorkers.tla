------------------------- MODULE MCDiscoveryWorkers -------------------------
(* Small instances of DiscoveryWorkers for TLC.                            *)
EXTENDS DiscoveryWorkers, TLC

\* Workers and tokens are only compared with each other.
Symmetry == Permutations(Worker) \cup Permutations(Token)
=============================================================================
