------------------------------ MODULE Evidence ------------------------------
(***************************************************************************)
(* evidence_gaps of discovery/termination.py: whether the evidence that a  *)
(* proposal cites is enough for an acceptance.  Objections carries the     *)
(* answer as the proposal's "gaps".                                        *)
(*                                                                         *)
(* A piece of evidence is a record: its kind, its content (by its hash),   *)
(* the origin it was captured from, the origin that it was syndicated from *)
(* (original; no connector of the repository records one), and its place   *)
(* (at) among the rows, which are read in the order of their retrieval.    *)
(* Nowhere stands for an origin that is empty.                             *)
(***************************************************************************)
EXTENDS Integers

CONSTANT Nowhere

Usable(cited) == {e \in cited : e.kind # "search_snippet"}

\* Of the copies of one text only the first that is read counts.
Counted(cited) ==
  {e \in Usable(cited) : \A f \in Usable(cited) : f.content = e.content => e.at <= f.at}

SourceOrigin(e) == IF e.original # Nowhere THEN e.original ELSE e.origin

Origins(cited) == {SourceOrigin(e) : e \in {k \in Counted(cited) : k.origin # Nowhere}}

\* evidence_gaps is empty.
NoGaps(demand, competitors) ==
  /\ Usable(demand) # {}
  /\ Usable(competitors) # {}
  /\ \E s, t \in Origins(demand \cup competitors) : s # t
=============================================================================
