---------------------------- MODULE MCObjections ----------------------------
(* Small instances of Objections for TLC.                                  *)
EXTENDS Objections, TLC

\* Businesses and ids are only compared with each other.
Symmetry == Permutations(Business) \cup Permutations(Id)
=============================================================================
