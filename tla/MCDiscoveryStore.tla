-------------------------- MODULE MCDiscoveryStore --------------------------
(* A small instance of DiscoveryStore for TLC.                             *)
EXTENDS DiscoveryStore, TLC

\* Tokens are only compared with each other.
TokenSymmetry == Permutations(Token)
=============================================================================
