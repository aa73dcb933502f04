----------------------------- MODULE Recluster -----------------------------
(***************************************************************************)
(* The command re_cluster_items, statement by statement, beside workers    *)
(* that go on ingesting and investigations that go on being recorded.      *)
(*                                                                         *)
(* The command is one transaction under READ COMMITTED: each statement     *)
(* sees what is committed by then, nothing it writes is seen before it     *)
(* commits, and no lock keeps others from adding rows.  Deleting a cluster *)
(* deletes what references it (CASCADE): Django first selects the items    *)
(* and the investigations of the clusters it deletes, then deletes them.   *)
(*                                                                         *)
(* Left out: sizes, titles and the sentinel's own row; a refinement or a   *)
(* merge beside the command, which waits for the items it has parked and   *)
(* fails on the rows it has deleted (Clusters has them without it).        *)
(***************************************************************************)
EXTENDS Integers, FiniteSets

CONSTANTS
  Item,      \* the items ingestion stores
  Cluster,   \* cluster ids; an id is never used again
  Worker,    \* the processes that ingest
  NoCluster, \* the cluster of an item not stored
  MaxRuns    \* bound of the model: rebuilds started

ASSUME ClusterAssumption == NoCluster \notin Cluster
ASSUME RunsAssumption    == MaxRuns \in Nat

VARIABLES
  member,       \* ClusterItem.cluster, as committed
  rows,         \* the clusters: unused, there or gone, as committed
  investigated, \* the clusters an Investigation references, as committed
  seen,         \* the items fetched: one whose save failed is fetched again
  assigning,    \* what each ingesting worker read in its open transaction
  rebuild,      \* the open transaction of the command
  runs

vars == <<member, rows, investigated, seen, assigning, rebuild, runs>>

NotAssigning == [item |-> {}, to |-> NoCluster]

\* The step of the command and what its transaction did: the clusters it
\* protects, the items it parked, the clusters it deletes, the items and
\* investigations that go with them, the cluster of each item it reassigned.
\* found and done are history: the items and investigations it began with.
NotRebuilding ==
  [pc |-> "idle", protected |-> {}, parked |-> {}, doomed |-> {}, items |-> {}, work |-> {},
   home |-> [i \in Item |-> NoCluster], found |-> {}, done |-> {}]

Stored == {i \in Item : member[i] # NoCluster}
There  == {c \in Cluster : rows[c] = "there"}
Unused == {c \in Cluster : rows[c] = "unused" /\ \A i \in Item : rebuild.home[i] # c}

At(pc) == rebuild.pc = pc

\* The clusters whose rows the command has deleted and not committed.
Locked == IF rebuild.pc \in {"deleted", "assigned"} THEN rebuild.doomed ELSE {}

Init ==
  /\ member = [i \in Item |-> NoCluster]
  /\ rows = [c \in Cluster |-> "unused"]
  /\ investigated = {}
  /\ seen = {}
  /\ assigning = [w \in Worker |-> NotAssigning]
  /\ rebuild = NotRebuilding
  /\ runs = 0

-----------------------------------------------------------------------------
(* Ingestion: one transaction per item.                                    *)

ReadNearest(w, i, c) ==
  /\ assigning[w] = NotAssigning
  /\ i \notin seen
  /\ c \in There \cup {NoCluster}
  /\ seen' = seen \cup {i}
  /\ assigning' = [assigning EXCEPT ![w] = [item |-> {i}, to |-> c]]
  /\ UNCHANGED <<member, rows, investigated, rebuild, runs>>

StoreIn(w, c) ==
  /\ member' = [i \in Item |-> IF i \in assigning[w].item THEN c ELSE member[i]]
  /\ assigning' = [assigning EXCEPT ![w] = NotAssigning]

\* Saving the size of a cluster waits while the command holds its row, and
\* raises when the row is gone.
Join(w) ==
  /\ assigning[w].to \in There \ Locked
  /\ StoreIn(w, assigning[w].to)
  /\ UNCHANGED <<rows, investigated, seen, rebuild, runs>>

FailJoin(w) ==
  /\ assigning[w].to # NoCluster
  /\ assigning[w].to \notin There
  /\ assigning' = [assigning EXCEPT ![w] = NotAssigning]
  /\ seen' = seen \ assigning[w].item
  /\ UNCHANGED <<member, rows, investigated, rebuild, runs>>

OpenSingleton(w, c) ==
  /\ assigning[w] # NotAssigning
  /\ assigning[w].to = NoCluster
  /\ c \in Unused
  /\ rows' = [rows EXCEPT ![c] = "there"]
  /\ StoreIn(w, c)
  /\ UNCHANGED <<investigated, seen, rebuild, runs>>

\* The run that ends well on a cluster stores its Investigation; the foreign
\* key waits for a row the command has deleted.
Investigate(c) ==
  /\ c \in There \ Locked
  /\ investigated' = investigated \cup {c}
  /\ UNCHANGED <<member, rows, seen, assigning, rebuild, runs>>

-----------------------------------------------------------------------------
(* The command                                                             *)

Protected == investigated

Begin ==
  /\ At("idle")
  /\ runs < MaxRuns
  /\ runs' = runs + 1
  /\ rebuild' = [rebuild EXCEPT !.pc = "begun", !.protected = Protected,
                                  !.found = Stored, !.done = investigated]
  /\ UNCHANGED <<member, rows, investigated, seen, assigning>>

\* Variant: the items stay where they are.
NoneParked == {}

\* Every item, the protected clusters' too.
ParkedNow == Stored

Park ==
  /\ At("begun")
  /\ rebuild' = [rebuild EXCEPT !.pc = "parked", !.parked = ParkedNow]
  /\ UNCHANGED <<member, rows, investigated, seen, assigning, runs>>

\* What goes with the clusters: items that came after the park, and
\* investigations recorded after the snapshot.
Collect ==
  LET doomed == There \ rebuild.protected IN
  /\ At("parked")
  /\ rebuild' = [rebuild EXCEPT !.pc = "collected", !.doomed = doomed,
       !.items = {i \in Stored \ rebuild.parked : member[i] \in doomed},
       !.work = investigated \cap doomed]
  /\ UNCHANGED <<member, rows, investigated, seen, assigning, runs>>

Delete ==
  /\ At("collected")
  /\ rebuild' = [rebuild EXCEPT !.pc = "deleted"]
  /\ UNCHANGED <<member, rows, investigated, seen, assigning, runs>>

\* The query joins each item with its cluster: one that was added to a
\* deleted cluster after the collection is not in sight.
InSight == {i \in Stored : i \in rebuild.parked \/ member[i] \notin rebuild.doomed}

\* Every item in sight goes to a cluster in sight or to a new one.
Reassign(home) ==
  /\ At("deleted")
  /\ \A i \in Item :
       IF i \in InSight
         THEN home[i] \in (There \ rebuild.doomed) \cup Unused
         ELSE home[i] = NoCluster
  /\ rebuild' = [rebuild EXCEPT !.pc = "assigned", !.home = home]
  /\ UNCHANGED <<member, rows, investigated, seen, assigning, runs>>

\* Where the items are once the command commits.
Rehomed ==
  [i \in Item |-> IF i \in rebuild.items THEN NoCluster
                  ELSE IF rebuild.home[i] # NoCluster THEN rebuild.home[i]
                  ELSE member[i]]

\* Variant: the foreign keys are not enforced.
NeverDangling == FALSE

\* What was added after the collection still references a deleted cluster.
Dangling ==
  \/ \E i \in Item : Rehomed[i] \in rebuild.doomed
  \/ investigated \cap rebuild.doomed # rebuild.work

Commit ==
  /\ At("assigned")
  /\ ~Dangling
  /\ member' = Rehomed
  /\ rows' = [c \in Cluster |-> IF c \in rebuild.doomed THEN "gone"
                                ELSE IF \E i \in Item : rebuild.home[i] = c THEN "there"
                                ELSE rows[c]]
  /\ investigated' = investigated \ rebuild.work
  /\ rebuild' = NotRebuilding
  /\ UNCHANGED <<seen, assigning, runs>>

\* The foreign keys refuse the commit, a statement fails, or the process dies.
RollBack ==
  /\ ~At("idle")
  /\ rebuild' = NotRebuilding
  /\ UNCHANGED <<member, rows, investigated, seen, assigning, runs>>

-----------------------------------------------------------------------------
Ingest(w) ==
  \/ \E i \in Item, c \in Cluster \cup {NoCluster} : ReadNearest(w, i, c)
  \/ Join(w)
  \/ FailJoin(w)
  \/ \E c \in Cluster : OpenSingleton(w, c)

Command ==
  \/ Begin
  \/ Park
  \/ Collect
  \/ Delete
  \/ \E home \in [Item -> Cluster \cup {NoCluster}] : Reassign(home)
  \/ Commit
  \/ RollBack

Next ==
  \/ \E w \in Worker : Ingest(w)
  \/ \E c \in Cluster : Investigate(c)
  \/ Command

Spec == Init /\ [][Next]_vars

-----------------------------------------------------------------------------
(* Properties                                                              *)

\* Types, and no committed item or investigation names a cluster that is not
\* there: the command commits nothing that references a row it deletes.
TypeOK ==
  /\ member \in [Item -> There \cup {NoCluster}]
  /\ rows \in [Cluster -> {"unused", "there", "gone"}]
  /\ investigated \subseteq There
  /\ seen \subseteq Item
  /\ assigning \in [Worker -> [item: SUBSET Item, to: Cluster \cup {NoCluster}]]
  /\ rebuild.pc \in {"idle", "begun", "parked", "collected", "deleted", "assigned"}
  /\ rebuild.home \in [Item -> Cluster \cup {NoCluster}]
  /\ runs \in 0 .. MaxRuns

\* The items stored and the investigations recorded when the command began
\* survive it, whatever is ingested meanwhile and wherever the command stops.
FoundSurvives ==
  [][/\ \A i \in rebuild.found : member'[i] # NoCluster
     /\ rebuild.done \subseteq investigated']_vars
=============================================================================
