------------------------------ MODULE Clusters ------------------------------
(***************************************************************************)
(* The clusters of clusters/: items that ingestion assigns to the nearest  *)
(* cluster, the nightly refinement that corrects what the online stage     *)
(* left, the merge proposals it queues and the humans who apply them.  No  *)
(* row is deleted here: the command that clusters everything anew is       *)
(* Recluster's.                                                            *)
(*                                                                         *)
(* The size of a cluster is a column that every writer computes from what  *)
(* it read and saves without a lock; the members are the items that name   *)
(* the cluster.  The two agree only after a refinement.                    *)
(*                                                                         *)
(* Abstractions: an embedding is not represented, so the nearest cluster   *)
(* is any candidate or none, and any pair may be similar; titles, split    *)
(* proposals (approving one changes only its status) and the judge's       *)
(* opinion (advice to the human) are left out.  No code sets the statuses  *)
(* investigating, investigated and split.                                  *)
(***************************************************************************)
EXTENDS Integers, FiniteSets, FiniteSetsExt

CONSTANTS
  Item,        \* the items ingestion stores
  Cluster,     \* the rows there is room for
  Worker,      \* the processes that ingest
  Refiner,     \* the processes that refine: the nightly task and the API's
  NoCluster,   \* the cluster of an item not stored, no survivor
  MaxOverlaps, \* bound of the model: refinements started while another runs
  MaxIncidents \* bound of the model: deaths of a worker or a refinement

ASSUME ClusterAssumption == NoCluster \notin Cluster
ASSUME BoundsAssumption  == MaxOverlaps \in Nat /\ MaxIncidents \in Nat

VARIABLES
  member,       \* ClusterItem.cluster
  clusters,     \* Cluster: status, size and survivor of each row
  pending,      \* ClusterMergeProposal rows in pending_review: a, b and who made it
  assigning,    \* what each ingesting worker read in its open transaction
  refining,     \* what each refinement holds in memory
  overlaps, incidents

vars == <<member, clusters, pending, assigning, refining, overlaps, incidents>>

Status == {"free", "live", "merged"}
Free   == [status |-> "free", size |-> 0, into |-> NoCluster]
Row    == [status: Status, size: Nat, into: Cluster \cup {NoCluster}]
Size(n) == [status |-> "live", size |-> n, into |-> NoCluster]

NotAssigning == [item |-> {}, to |-> NoCluster, size |-> 0]
NotRefining  == [pc |-> "idle", todo |-> {}, cluster |-> NoCluster, count |-> 0, items |-> {},
                 moving |-> {}, to |-> NoCluster, size |-> 0]

Stored     == {i \in Item : member[i] # NoCluster}
Members(c) == {i \in Item : member[i] = c}

\* _candidate_clusters and Cluster.active: the statuses that occur here.
Live == {c \in Cluster : clusters[c].status = "live"}

Init ==
  /\ member = [i \in Item |-> NoCluster]
  /\ clusters = [c \in Cluster |-> Free]
  /\ pending = {}
  /\ assigning = [w \in Worker |-> NotAssigning]
  /\ refining = [r \in Refiner |-> NotRefining]
  /\ overlaps = 0
  /\ incidents = 0

-----------------------------------------------------------------------------
(* Ingestion: assign_item_to_cluster and the save of the item, in one      *)
(* transaction per item.  Each item is ingested by one worker: the unique  *)
(* constraint on its source and id is Ingestion's concern.                 *)

ReadNearest(w, i, c) ==
  /\ assigning[w] = NotAssigning
  /\ i \notin Stored
  /\ \A v \in Worker : i \notin assigning[v].item
  /\ c \in Live \cup {NoCluster}
  /\ assigning' = [assigning EXCEPT ![w] =
       [item |-> {i}, to |-> c, size |-> IF c = NoCluster THEN 0 ELSE clusters[c].size]]
  /\ UNCHANGED <<member, clusters, pending, refining, overlaps, incidents>>

\* The size it read plus one, whatever the row says by now.
Join(w) ==
  /\ assigning[w].to # NoCluster
  /\ member' = [i \in Item |-> IF i \in assigning[w].item THEN assigning[w].to ELSE member[i]]
  /\ clusters' = [clusters EXCEPT ![assigning[w].to].size = assigning[w].size + 1]
  /\ assigning' = [assigning EXCEPT ![w] = NotAssigning]
  /\ UNCHANGED <<pending, refining, overlaps, incidents>>

OpenSingleton(w, c) ==
  /\ assigning[w] # NotAssigning
  /\ assigning[w].to = NoCluster
  /\ clusters[c] = Free
  /\ member' = [i \in Item |-> IF i \in assigning[w].item THEN c ELSE member[i]]
  /\ clusters' = [clusters EXCEPT ![c] = Size(1)]
  /\ assigning' = [assigning EXCEPT ![w] = NotAssigning]
  /\ UNCHANGED <<pending, refining, overlaps, incidents>>

\* The transaction rolls back; the item is fetched again.
AbortIngest(w) ==
  /\ assigning[w] # NotAssigning
  /\ incidents < MaxIncidents
  /\ incidents' = incidents + 1
  /\ assigning' = [assigning EXCEPT ![w] = NotAssigning]
  /\ UNCHANGED <<member, clusters, pending, refining, overlaps>>

-----------------------------------------------------------------------------
(* recompute_centroid: the members are counted, the size is saved.  An     *)
(* empty cluster keeps the size it had.                                    *)

\* Variant: the centroid is saved without the size.
CentroidOnly(rows, c, count) == rows

Recomputed(rows, c, count) ==
  IF count = 0 THEN rows ELSE [rows EXCEPT ![c].size = count]

-----------------------------------------------------------------------------
(* refine_clusters_nightly: the beat starts it every night, the API at any *)
(* time, even while another one runs.                                      *)

At(r, pc) == refining[r].pc = pc

Busy(r) == ~At(r, "idle")

StartRefine(r) ==
  /\ At(r, "idle")
  /\ refining' = [refining EXCEPT ![r].pc = "recompute", ![r].todo = Live]
  /\ IF \E other \in Refiner : Busy(other)
       THEN overlaps < MaxOverlaps /\ overlaps' = overlaps + 1
       ELSE UNCHANGED overlaps
  /\ UNCHANGED <<member, clusters, pending, assigning, incidents>>

CountMembers(r, c) ==
  /\ At(r, "recompute")
  /\ c \in refining[r].todo
  /\ \/ /\ Members(c) = {}
        /\ refining' = [refining EXCEPT ![r].todo = @ \ {c}]
     \/ /\ Members(c) # {}
        /\ refining' = [refining EXCEPT ![r].pc = "save", ![r].todo = @ \ {c}, ![r].cluster = c,
                                        ![r].count = Cardinality(Members(c))]
  /\ UNCHANGED <<member, clusters, pending, assigning, overlaps, incidents>>

SaveSize(r) ==
  /\ At(r, "save")
  /\ clusters' = Recomputed(clusters, refining[r].cluster, refining[r].count)
  /\ refining' = [refining EXCEPT ![r].pc = "recompute", ![r].cluster = NoCluster, ![r].count = 0]
  /\ UNCHANGED <<member, pending, assigning, overlaps, incidents>>

\* The next phase takes a fresh list of the active clusters.
StartOrphans(r) ==
  /\ At(r, "recompute")
  /\ refining[r].todo = {}
  /\ refining' = [refining EXCEPT ![r].pc = "orphans", ![r].todo = Live]
  /\ UNCHANGED <<member, clusters, pending, assigning, overlaps, incidents>>

\* find_orphan_items: the members that fit another cluster better, if any.
FindOrphans(r, c, orphans) ==
  /\ At(r, "orphans")
  /\ refining[r].items = {}
  /\ c \in refining[r].todo
  /\ orphans \subseteq Members(c)
  /\ orphans # {} => Live \ {c} # {}
  /\ refining' = [refining EXCEPT ![r].todo = @ \ {c}, ![r].items = orphans,
                                  ![r].cluster = IF orphans = {} THEN NoCluster ELSE c]
  /\ UNCHANGED <<member, clusters, pending, assigning, overlaps, incidents>>

WithoutOrphan(memory, i) ==
  [memory EXCEPT !.items = @ \ {i},
                 !.cluster = IF memory.items = {i} THEN NoCluster ELSE @]

\* The members of c as the transaction of r sees them.
CountIn(r, c) ==
  LET mine == refining[r]
  IN  Cardinality({i \in Item : (IF i \in mine.moving THEN mine.to ELSE member[i]) = c})

\* The items whose rows open transactions have locked.
Moving == UNION {refining[r].moving : r \in Refiner}

\* One transaction, three steps: the item is saved, which keeps others from
\* its row, and the members of the two clusters are counted one after the
\* other.  The cluster it is taken from is the one it was found in, wherever
\* a merge has moved it since.
MoveOrphan(r, i, to) ==
  /\ At(r, "orphans")
  /\ i \in refining[r].items \ Moving
  /\ to \in Live \ {refining[r].cluster}
  /\ refining' = [refining EXCEPT ![r].pc = "moving", ![r].moving = {i}, ![r].to = to]
  /\ UNCHANGED <<member, clusters, pending, assigning, overlaps, incidents>>

CountSource(r) ==
  /\ At(r, "moving")
  /\ refining' = [refining EXCEPT ![r].pc = "counted", ![r].count = CountIn(r, refining[r].cluster)]
  /\ UNCHANGED <<member, clusters, pending, assigning, overlaps, incidents>>

CountTarget(r) ==
  /\ At(r, "counted")
  /\ refining' = [refining EXCEPT ![r].pc = "moved", ![r].size = CountIn(r, refining[r].to)]
  /\ UNCHANGED <<member, clusters, pending, assigning, overlaps, incidents>>

CommitMove(r) ==
  LET mine == refining[r] IN
  /\ At(r, "moved")
  /\ member' = [i \in Item |-> IF i \in mine.moving THEN mine.to ELSE member[i]]
  /\ clusters' = Recomputed(Recomputed(clusters, mine.cluster, mine.count), mine.to, mine.size)
  /\ refining' = [refining EXCEPT ![r] =
       [NotRefining EXCEPT !.pc = "orphans", !.todo = mine.todo, !.items = mine.items \ mine.moving,
                           !.cluster = IF mine.items = mine.moving THEN NoCluster ELSE mine.cluster]]
  /\ UNCHANGED <<pending, assigning, overlaps, incidents>>

\* No other candidate any more, or its own cluster is the nearest again.
KeepOrphan(r, i) ==
  /\ At(r, "orphans")
  /\ i \in refining[r].items
  /\ refining' = [refining EXCEPT ![r] = WithoutOrphan(@, i)]
  /\ UNCHANGED <<member, clusters, pending, assigning, overlaps, incidents>>

\* find_merge_candidates: the pairs of active clusters, as they are now.
StartMerges(r) ==
  /\ At(r, "orphans")
  /\ refining[r].todo = {} /\ refining[r].items = {}
  /\ refining' = [refining EXCEPT ![r].pc = "merges", ![r].todo = kSubset(2, Live)]
  /\ UNCHANGED <<member, clusters, pending, assigning, overlaps, incidents>>

\* Variant: only a proposal in the same direction counts.
PendingAsListed(a, b) == \E p \in pending : p.a = a /\ p.b = b

PendingPair(a, b) == \E p \in pending : {p.a, p.b} = {a, b}

\* Below the threshold, without a common tag, or proposed already.
SkipPair(r, pair) ==
  /\ At(r, "merges")
  /\ pair \in refining[r].todo
  /\ refining' = [refining EXCEPT ![r].todo = @ \ {pair}]
  /\ UNCHANGED <<member, clusters, pending, assigning, overlaps, incidents>>

\* judge_merge is asked, which refuses a cluster without items: the task fails.
JudgePair(r, pair) ==
  /\ At(r, "merges")
  /\ pair \in refining[r].todo
  /\ \E a, b \in pair : a # b /\ ~PendingPair(a, b)
  /\ \/ /\ \E c \in pair : Members(c) = {}
        /\ refining' = [refining EXCEPT ![r] = NotRefining]
     \/ /\ \A c \in pair : Members(c) # {}
        /\ refining' = [refining EXCEPT ![r].pc = "judged", ![r].todo = @ \ {pair},
                                        ![r].items = pair]
  /\ UNCHANGED <<member, clusters, pending, assigning, overlaps, incidents>>

\* The list is in the order of the query, which has no ORDER BY.
Propose(r, a, b) ==
  /\ At(r, "judged")
  /\ refining[r].items = {a, b} /\ a # b
  /\ pending' = pending \cup {[a |-> a, b |-> b, by |-> r]}
  /\ refining' = [refining EXCEPT ![r].pc = "merges", ![r].items = {}]
  /\ UNCHANGED <<member, clusters, assigning, overlaps, incidents>>

EndRefine(r) ==
  /\ At(r, "merges")
  /\ refining[r].todo = {}
  /\ refining' = [refining EXCEPT ![r] = NotRefining]
  /\ UNCHANGED <<member, clusters, pending, assigning, overlaps, incidents>>

\* The worker dies, or the model call raises.
AbortRefine(r) ==
  /\ Busy(r)
  /\ incidents < MaxIncidents
  /\ incidents' = incidents + 1
  /\ refining' = [refining EXCEPT ![r] = NotRefining]
  /\ UNCHANGED <<member, clusters, pending, assigning, overlaps>>

-----------------------------------------------------------------------------
(* Humans                                                                  *)

\* apply_merge_proposal: only the proposal is locked and looked at.  The
\* items of b are updated once no open transaction holds the row of one.
Apply(p) ==
  LET a == p.a
      b == p.b
      moved == [i \in Item |-> IF member[i] = b THEN a ELSE member[i]]
      grown == Recomputed(clusters, a, Cardinality({i \in Item : moved[i] = a}))
  IN
  /\ p \in pending
  /\ Moving \cap Members(b) = {}
  /\ pending' = pending \ {p}
  /\ member' = moved
  /\ clusters' = [grown EXCEPT ![b].status = "merged", ![b].into = a]
  /\ UNCHANGED <<assigning, refining, overlaps, incidents>>

Reject(p) ==
  /\ p \in pending
  /\ pending' = pending \ {p}
  /\ UNCHANGED <<member, clusters, assigning, refining, overlaps, incidents>>

-----------------------------------------------------------------------------
Ingest(w) ==
  \/ \E i \in Item, c \in Cluster \cup {NoCluster} : ReadNearest(w, i, c)
  \/ Join(w)
  \/ \E c \in Cluster : OpenSingleton(w, c)

Refine(r) ==
  \/ StartRefine(r)
  \/ \E c \in Cluster : \/ CountMembers(r, c)
                        \/ \E orphans \in SUBSET Item : FindOrphans(r, c, orphans)
  \/ SaveSize(r)
  \/ StartOrphans(r)
  \/ \E i \in Item : KeepOrphan(r, i) \/ \E c \in Cluster : MoveOrphan(r, i, c)
  \/ CountSource(r)
  \/ CountTarget(r)
  \/ CommitMove(r)
  \/ StartMerges(r)
  \/ \E pair \in kSubset(2, Cluster) : SkipPair(r, pair) \/ JudgePair(r, pair)
  \/ \E a, b \in Cluster : Propose(r, a, b)
  \/ EndRefine(r)

Human == \E p \in pending : Apply(p) \/ Reject(p)

Next ==
  \/ \E r \in Refiner : Refine(r) \/ AbortRefine(r)
  \/ Human
  \/ \E w \in Worker : Ingest(w) \/ AbortIngest(w)

\* The beat starts the task every night, a started task goes on, and a
\* worker finishes its transaction.
Fairness == (\A r \in Refiner : WF_vars(Refine(r))) /\ \A w \in Worker : WF_vars(Ingest(w))

Spec == Init /\ [][Next]_vars
FairSpec == Spec /\ Fairness

-----------------------------------------------------------------------------
(* Properties                                                              *)

\* Types, and no item, proposal or merge names a row that is not there.
TypeOK ==
  /\ member \in [Item -> {c \in Cluster : clusters[c] # Free} \cup {NoCluster}]
  /\ clusters \in [Cluster -> Row]
  /\ \A p \in pending : p.by \in Refiner /\ clusters[p.a] # Free /\ clusters[p.b] # Free
  /\ assigning \in [Worker -> [item: SUBSET Item, to: Cluster \cup {NoCluster}, size: Nat]]
  /\ \A r \in Refiner :
       refining[r].pc \in {"idle", "recompute", "save", "orphans", "moving", "counted", "moved", "merges", "judged"}

\* As long as refinements do not overlap, two clusters are proposed for
\* merging once at a time, in whichever order the nights list them and
\* whatever a night that died left behind: one proposal for each direction,
\* both applied, would leave no survivor.
OneProposalPerPair ==
  overlaps = 0 =>
    \A p, q \in pending : p.a # p.b /\ ({p.a, p.b} = {q.a, q.b} => p = q)

\* Sizes drift while items, merges and the refinement race, but once the
\* items are in, some night's refinement makes the size of every live
\* cluster with members right, and it stays right.
SizesHeal ==
  <>[](\A c \in Live : Members(c) # {} => clusters[c].size = Cardinality(Members(c)))
=============================================================================
