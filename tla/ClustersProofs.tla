--------------------------- MODULE ClustersProofs ---------------------------
(***************************************************************************)
(* Proofs about Clusters, for any items, clusters, workers and refiners    *)
(* and any number of incidents: an item is stored with a row that is       *)
(* there, and refinements that do not overlap propose a pair once.  That   *)
(* sizes heal is a liveness property, which TLC checks.  At the end, about *)
(* Recluster: what the rebuild finds when it begins survives it.           *)
(***************************************************************************)
EXTENDS Clusters, FiniteSetTheorems, TLAPS

-----------------------------------------------------------------------------
(* The inductive invariant                                                 *)

Used(rows) == {c \in Cluster : rows[c] # Free}

\* A row that is free holds nothing, and only finitely many are not.
RowsOK(rows) ==
  /\ rows \in [Cluster -> Row]
  /\ \A c \in Cluster : rows[c].status = "free" => rows[c] = Free
  /\ IsFiniteSet(Used(rows))

MembersOK ==
  /\ member \in [Item -> Used(clusters) \cup {NoCluster}]
  /\ IsFiniteSet(Stored)

PendingOK ==
  \A p \in pending : p.by \in Refiner /\ p.a \in Used(clusters) /\ p.b \in Used(clusters)

\* A worker still finds the cluster it read.
AssigningOK ==
  /\ assigning \in [Worker -> [item: SUBSET Item, to: Cluster \cup {NoCluster}, size: Nat]]
  /\ \A w \in Worker : /\ IsFiniteSet(assigning[w].item)
                       /\ assigning[w].to \in Used(clusters) \cup {NoCluster}

\* The steps of the transaction that moves an orphan, and all that move them.
Transit == {"moving", "counted", "moved"}
Orphans == Transit \cup {"orphans"}

Memory == [pc: {"idle", "recompute", "save", "merges", "judged"} \cup Orphans,
           todo: SUBSET (Cluster \cup SUBSET Cluster), cluster: Cluster \cup {NoCluster},
           count: Nat, items: SUBSET (Item \cup Cluster), moving: SUBSET Item,
           to: Cluster \cup {NoCluster}, size: Nat]

\* What a transaction that moves an orphan is about to write.
TransitOK(memory) ==
  memory.pc \in Transit =>
    memory.items # {} /\ memory.to \in Used(clusters) /\ IsFiniteSet(memory.moving)

\* So does a refinement, whatever it is about to save, move or propose; it
\* holds items only while it moves them, or has a pair judged.
RefiningOK ==
  /\ refining \in [Refiner -> Memory]
  /\ \A r \in Refiner :
       /\ At(r, "save") \/ (refining[r].pc \in Orphans /\ refining[r].items # {})
            => refining[r].cluster \in Used(clusters)
       /\ At(r, "merges") \/ At(r, "judged")
            => \A pair \in refining[r].todo : pair \subseteq Used(clusters)
       /\ At(r, "judged") => refining[r].items \subseteq Used(clusters)
       /\ refining[r].items # {} => refining[r].pc \in Orphans \cup {"judged"}
       /\ TransitOK(refining[r])

\* One refinement at a time, and what it has had judged is not proposed yet.
PairsOK ==
  /\ overlaps \in Nat
  /\ overlaps = 0 =>
       /\ \A r, s \in Refiner : Busy(r) /\ Busy(s) => r = s
       /\ \A r \in Refiner : At(r, "judged") =>
            \A p \in pending : {p.a, p.b} # refining[r].items
  /\ OneProposalPerPair

IInv ==
  /\ RowsOK(clusters)
  /\ MembersOK
  /\ PendingOK
  /\ AssigningOK
  /\ RefiningOK
  /\ PairsOK

-----------------------------------------------------------------------------
(* Rows                                                                    *)

\* A size is saved in a row that is in use: it stays in use, no other is.
LEMMA Resized ==
  ASSUME NEW rows, RowsOK(rows), NEW c \in Used(rows), NEW count \in Nat
  PROVE  /\ RowsOK([rows EXCEPT ![c].size = count])
         /\ Used([rows EXCEPT ![c].size = count]) = Used(rows)
<1> DEFINE new == [rows EXCEPT ![c].size = count]
<1>1. /\ rows \in [Cluster -> Row] /\ c \in Cluster /\ rows[c].status # "free"
      /\ \A d \in Cluster : rows[d] # Free <=> rows[d].status # "free"
  BY DEF RowsOK, Used, Free
<1>2. /\ new \in [Cluster -> Row] /\ new[c].status = rows[c].status
      /\ \A d \in Cluster \ {c} : new[d] = rows[d]
  BY <1>1 DEF Row
<1>3. \A d \in Cluster : new[d].status = rows[d].status
  BY <1>2
<1> HIDE DEF new
<1>4. \A d \in Cluster : new[d].status = "free" => new[d] = Free
  BY <1>1, <1>2, <1>3 DEF RowsOK
<1>5. Used(new) = Used(rows)
  <2>1. \A d \in Cluster : new[d] # Free <=> new[d].status # "free"
    BY <1>4 DEF Free
  <2> QED
    BY <1>1, <1>3, <2>1 DEF Used
<1> USE DEF new
<1> QED
  BY <1>2, <1>4, <1>5 DEF RowsOK

LEMMA RecomputedRows ==
  ASSUME NEW rows, RowsOK(rows), NEW c \in Used(rows), NEW count \in Nat
  PROVE  /\ RowsOK(Recomputed(rows, c, count))
         /\ Used(Recomputed(rows, c, count)) = Used(rows)
BY Resized DEF Recomputed

\* A row that is merged, or that a new cluster is put in.
LEMMA ReplacedRow ==
  ASSUME NEW rows, RowsOK(rows), NEW c \in Cluster, NEW row \in Row, row.status # "free"
  PROVE  /\ RowsOK([rows EXCEPT ![c] = row])
         /\ Used([rows EXCEPT ![c] = row]) = Used(rows) \cup {c}
<1> DEFINE new == [rows EXCEPT ![c] = row]
<1>1. /\ new \in [Cluster -> Row] /\ new[c] = row /\ row # Free
      /\ \A d \in Cluster \ {c} : new[d] = rows[d]
  BY DEF RowsOK, Free
<1> HIDE DEF new
<1>2. Used(new) = Used(rows) \cup {c}
  BY <1>1 DEF Used
<1>3. IsFiniteSet(Used(new))
  BY <1>2, FS_AddElement DEF RowsOK
<1>4. \A d \in Cluster : new[d].status = "free" => new[d] = Free
  BY <1>1 DEF RowsOK
<1> USE DEF new
<1> QED
  BY <1>1, <1>2, <1>3, <1>4 DEF RowsOK

\* What is stored can be counted.
LEMMA Counted ==
  ASSUME NEW S, IsFiniteSet(S), NEW T, T \subseteq S
  PROVE  Cardinality(T) \in Nat
BY FS_Subset, FS_CardinalityType

LEMMA LiveIsUsed == Live \subseteq Used(clusters)
BY DEF Live, Used, Free

-----------------------------------------------------------------------------
(* Parts of the invariant that a step leaves alone                         *)

LEMMA PendingFrame ==
  ASSUME PendingOK, pending' \subseteq pending, Used(clusters) \subseteq Used(clusters')
  PROVE  PendingOK'
BY DEF PendingOK

LEMMA AssigningFrame ==
  ASSUME AssigningOK, assigning' = assigning, Used(clusters) \subseteq Used(clusters')
  PROVE  AssigningOK'
BY DEF AssigningOK

LEMMA RefiningFrame ==
  ASSUME RefiningOK, refining' = refining, Used(clusters) \subseteq Used(clusters')
  PROVE  RefiningOK'
<1>1. ASSUME NEW r \in Refiner
      PROVE  /\ At(r, "save")' \/ (refining'[r].pc \in Orphans /\ refining'[r].items # {})
                  => refining'[r].cluster \in Used(clusters')
             /\ At(r, "merges")' \/ At(r, "judged")'
                  => \A pair \in refining'[r].todo : pair \subseteq Used(clusters')
             /\ At(r, "judged")' => refining'[r].items \subseteq Used(clusters')
             /\ refining'[r].items # {} => refining'[r].pc \in Orphans \cup {"judged"}
             /\ TransitOK(refining[r])'
  BY DEF RefiningOK, TransitOK, At
<1> QED
  BY <1>1 DEF RefiningOK

LEMMA PairsFrame ==
  ASSUME PairsOK, refining' = refining, overlaps' = overlaps, pending' \subseteq pending
  PROVE  PairsOK'
BY DEF PairsOK, OneProposalPerPair, Busy, At

-----------------------------------------------------------------------------
(* Ingestion                                                               *)

LEMMA IngestPreserves ==
  ASSUME IInv, NEW w \in Worker, Ingest(w) \/ AbortIngest(w)
  PROVE  IInv'
<1>1. UNCHANGED <<pending, refining, overlaps>>
  BY DEF Ingest, ReadNearest, Join, OpenSingleton, AbortIngest
<1>2. PairsOK'
  BY <1>1, PairsFrame DEF IInv
<1>3. /\ assigning[w].item \subseteq Item /\ IsFiniteSet(assigning[w].item)
      /\ assigning[w].to \in Used(clusters) \cup {NoCluster} /\ assigning[w].size \in Nat
      /\ \A c \in Used(clusters) : c \in Cluster /\ c # NoCluster
  BY ClusterAssumption DEF IInv, AssigningOK, Used
<1>4. ASSUME NEW i \in Item, NEW c \in Cluster \cup {NoCluster}, ReadNearest(w, i, c)
      PROVE  IInv'
  <2> DEFINE read == [item |-> {i}, to |-> c,
                      size |-> IF c = NoCluster THEN 0 ELSE clusters[c].size]
  <2>1. /\ assigning' = [assigning EXCEPT ![w] = read]
        /\ clusters' = clusters /\ member' = member /\ c \in Live \cup {NoCluster}
    BY <1>4 DEF ReadNearest
  <2>2. read \in [item: SUBSET Item, to: Cluster \cup {NoCluster}, size: Nat]
    BY DEF IInv, RowsOK, Row
  <2>3. c \in Used(clusters) \cup {NoCluster} /\ IsFiniteSet({i})
    BY <2>1, LiveIsUsed, FS_Singleton
  <2>4. read.item = {i} /\ read.to = c
    OBVIOUS
  <2> HIDE DEF read
  <2>5. AssigningOK'
    BY <2>1, <2>2, <2>3, <2>4 DEF IInv, AssigningOK
  <2>6. RowsOK(clusters') /\ MembersOK'
    BY <1>1, <2>1 DEF IInv, MembersOK, Stored
  <2> QED
    BY <1>1, <1>2, <2>1, <2>5, <2>6, PendingFrame, RefiningFrame DEF IInv
<1>5. ASSUME assigning' = [assigning EXCEPT ![w] = NotAssigning], Used(clusters) \subseteq Used(clusters')
      PROVE  AssigningOK'
  <2>1. /\ NotAssigning \in [item: SUBSET Item, to: Cluster \cup {NoCluster}, size: Nat]
        /\ NotAssigning.item = {} /\ NotAssigning.to = NoCluster /\ IsFiniteSet({})
    BY FS_EmptySet DEF NotAssigning
  <2> QED
    BY <1>5, <2>1 DEF IInv, AssigningOK
\* The items of the worker's transaction get a cluster that is in use.
<1>6. ASSUME NEW c \in Used(clusters'), RowsOK(clusters'), Used(clusters) \subseteq Used(clusters'),
             member' = [i \in Item |-> IF i \in assigning[w].item THEN c ELSE member[i]],
             assigning' = [assigning EXCEPT ![w] = NotAssigning]
      PROVE  IInv'
  <2>1. Stored' \subseteq Stored \cup assigning[w].item
    BY <1>6 DEF Stored
  <2>2. IsFiniteSet(Stored')
    BY <1>3, <2>1, FS_Union, FS_Subset DEF IInv, MembersOK
  <2>3. member' \in [Item -> Used(clusters') \cup {NoCluster}]
    BY <1>6 DEF IInv, MembersOK
  <2>4. MembersOK'
    BY <1>1, <1>6, <2>2, <2>3 DEF IInv, MembersOK
  <2> QED
    BY <1>1, <1>2, <1>5, <1>6, <2>4, PendingFrame, RefiningFrame DEF IInv
<1>7. CASE Join(w)
  <2>1. assigning[w].to \in Used(clusters)
    BY <1>3, <1>7 DEF Join
  <2>2. /\ RowsOK(clusters') /\ Used(clusters') = Used(clusters)
    <3>1. assigning[w].size + 1 \in Nat /\ RowsOK(clusters)
      BY <1>3 DEF IInv
    <3>2. clusters' = [clusters EXCEPT ![assigning[w].to].size = assigning[w].size + 1]
      BY <1>7 DEF Join
    <3> QED
      BY <2>1, <3>1, <3>2, Resized
  <2> QED
    BY <1>6, <1>7, <2>1, <2>2 DEF Join
<1>8. ASSUME NEW c \in Cluster, OpenSingleton(w, c) PROVE IInv'
  <2>1. Size(1) \in Row /\ Size(1).status # "free"
    BY DEF Size, Row, Status
  <2>2. clusters' = [clusters EXCEPT ![c] = Size(1)] /\ RowsOK(clusters)
    BY <1>8 DEF OpenSingleton, IInv
  <2> HIDE DEF Size
  <2>3. RowsOK(clusters') /\ Used(clusters') = Used(clusters) \cup {c}
    BY <2>1, <2>2, ReplacedRow
  <2> QED
    BY <1>6, <1>8, <2>3 DEF OpenSingleton
<1>9. CASE AbortIngest(w)
  <2>1. clusters' = clusters /\ member' = member /\ assigning' = [assigning EXCEPT ![w] = NotAssigning]
    BY <1>9 DEF AbortIngest
  <2>2. RowsOK(clusters') /\ MembersOK'
    BY <1>1, <2>1 DEF IInv, MembersOK, Stored
  <2> QED
    BY <1>1, <1>2, <1>5, <2>1, <2>2, PendingFrame, RefiningFrame DEF IInv
<1> QED
  BY <1>4, <1>7, <1>8, <1>9 DEF Ingest

-----------------------------------------------------------------------------
(* The refinement                                                          *)

\* What a refinement holds in memory after a step of its own.
MemoryOK(r) ==
  /\ refining' \in [Refiner -> Memory]
  /\ \A s \in Refiner \ {r} : refining'[s] = refining[s]
  /\ refining'[r].pc = "save" \/ (refining'[r].pc \in Orphans /\ refining'[r].items # {})
       => refining'[r].cluster \in Used(clusters)
  /\ refining'[r].pc \in {"merges", "judged"}
       => \A pair \in refining'[r].todo : pair \subseteq Used(clusters)
  /\ refining'[r].pc = "judged" =>
       /\ refining'[r].items \subseteq Used(clusters)
       /\ \A p \in pending : {p.a, p.b} # refining'[r].items
  /\ refining'[r].items # {} => refining'[r].pc \in Orphans \cup {"judged"}
  /\ refining'[r].pc \in Transit =>
       /\ refining'[r].items # {} /\ refining'[r].to \in Used(clusters)
       /\ IsFiniteSet(refining'[r].moving)

LEMMA RefinerFrame ==
  ASSUME RefiningOK, NEW r \in Refiner, MemoryOK(r), Used(clusters) \subseteq Used(clusters')
  PROVE  RefiningOK'
<1>1. ASSUME NEW s \in Refiner
      PROVE  /\ At(s, "save")' \/ (refining'[s].pc \in Orphans /\ refining'[s].items # {})
                  => refining'[s].cluster \in Used(clusters')
             /\ At(s, "merges")' \/ At(s, "judged")'
                  => \A pair \in refining'[s].todo : pair \subseteq Used(clusters')
             /\ At(s, "judged")' => refining'[s].items \subseteq Used(clusters')
             /\ refining'[s].items # {} => refining'[s].pc \in Orphans \cup {"judged"}
             /\ TransitOK(refining[s])'
  <2>1. CASE s = r
    BY <2>1 DEF MemoryOK, TransitOK, At
  <2>2. CASE s # r
    BY <2>2 DEF RefiningOK, MemoryOK, TransitOK, At
  <2> QED
    BY <2>1, <2>2
<1> QED
  BY <1>1 DEF RefiningOK, MemoryOK

LEMMA RefinerPairs ==
  ASSUME PairsOK, NEW r \in Refiner, MemoryOK(r), pending' = pending,
         \/ overlaps' = overlaps /\ (Busy(r) \/ refining'[r].pc = "idle")
         \/ overlaps' = overlaps /\ \A s \in Refiner : ~Busy(s)
         \/ overlaps' = overlaps + 1
  PROVE  PairsOK'
<1>1. overlaps' \in Nat /\ (overlaps' = 0 => overlaps = 0 /\ overlaps' = overlaps)
  BY DEF PairsOK
<1>2. ASSUME overlaps' = 0, NEW s \in Refiner, NEW q \in Refiner, Busy(s)', Busy(q)'
      PROVE  s = q
  <2>1. \A x \in Refiner \ {r} : Busy(x)' <=> Busy(x)
    BY DEF MemoryOK, Busy, At
  <2>2. CASE Busy(r) \/ refining'[r].pc = "idle"
    BY <1>1, <1>2, <2>1, <2>2 DEF PairsOK, Busy, At
  <2>3. CASE \A x \in Refiner : ~Busy(x)
    BY <1>2, <2>1, <2>3
  <2> QED
    BY <1>1, <1>2, <2>2, <2>3 DEF PairsOK
<1>3. ASSUME overlaps' = 0, NEW s \in Refiner, At(s, "judged")'
      PROVE  \A p \in pending' : {p.a, p.b} # refining'[s].items
  <2>1. CASE s = r
    BY <1>3, <2>1 DEF MemoryOK, At
  <2>2. CASE s # r
    BY <1>1, <1>3, <2>2 DEF PairsOK, MemoryOK, At
  <2> QED
    BY <2>1, <2>2
<1>4. OneProposalPerPair'
  BY <1>1 DEF PairsOK, OneProposalPerPair
<1> QED
  BY <1>1, <1>2, <1>3, <1>4 DEF PairsOK

\* A step that changes nothing but the refinement's memory.
LEMMA RefinerStep ==
  ASSUME IInv, NEW r \in Refiner, MemoryOK(r),
         UNCHANGED <<member, clusters, pending, assigning>>,
         \/ overlaps' = overlaps /\ (Busy(r) \/ refining'[r].pc = "idle")
         \/ overlaps' = overlaps /\ \A s \in Refiner : ~Busy(s)
         \/ overlaps' = overlaps + 1
  PROVE  IInv'
<1>1. RefiningOK' /\ PairsOK'
  BY RefinerFrame, RefinerPairs DEF IInv
<1>2. RowsOK(clusters') /\ MembersOK'
  BY DEF IInv, MembersOK, Stored
<1> QED
  BY <1>1, <1>2, PendingFrame, AssigningFrame DEF IInv

LEMMA RefinersMemory ==
  ASSUME IInv, NEW r \in Refiner
  PROVE  /\ refining \in [Refiner -> Memory] /\ refining[r] \in Memory
         /\ refining[r].items # {} => refining[r].pc \in Orphans \cup {"judged"}
BY DEF IInv, RefiningOK, At

LEMMA PairOf ==
  ASSUME NEW pair, IsFiniteSet(pair), Cardinality(pair) = 2, NEW a \in pair, NEW b \in pair, a # b
  PROVE  pair = {a, b}
<1>1. IsFiniteSet(pair \ {a}) /\ Cardinality(pair \ {a}) = 1
  BY FS_RemoveElement
<1>2. PICK x : pair \ {a} = {x}
  BY <1>1, FS_Singleton
<1> QED
  BY <1>2

LEMMA QuietRefine ==
  ASSUME IInv, NEW r \in Refiner,
         \/ StartRefine(r) \/ StartOrphans(r) \/ StartMerges(r) \/ EndRefine(r) \/ AbortRefine(r)
         \/ \E i \in Item : KeepOrphan(r, i)
         \/ \E pair \in kSubset(2, Cluster) : SkipPair(r, pair)
  PROVE  IInv'
<1> USE DEF Orphans, Transit
<1>1. /\ refining \in [Refiner -> Memory] /\ refining[r] \in Memory
      /\ refining[r].items # {} => refining[r].pc \in Orphans \cup {"judged"}
      /\ UNCHANGED <<member, clusters, pending, assigning>>
      /\ Live \subseteq Cluster
  BY RefinersMemory DEF IInv, RefiningOK, StartRefine, StartOrphans, StartMerges, EndRefine, AbortRefine,
         KeepOrphan, SkipPair, Live
<1>2. CASE StartRefine(r)
  <2>1. /\ refining' \in [Refiner -> Memory] /\ refining'[r].pc = "recompute"
        /\ refining'[r].items = {}
        /\ \A s \in Refiner \ {r} : refining'[s] = refining[s]
    BY <1>1, <1>2 DEF StartRefine, Memory, At
  <2>2. MemoryOK(r)
    BY <2>1 DEF MemoryOK
  <2>3. \/ overlaps' = overlaps /\ \A s \in Refiner : ~Busy(s)
        \/ overlaps' = overlaps + 1
    BY <1>2 DEF StartRefine
  <2> QED
    BY <1>1, <2>2, <2>3, RefinerStep
<1>3. CASE StartOrphans(r)
  <2>1. /\ refining' \in [Refiner -> Memory] /\ refining'[r].pc = "orphans"
        /\ refining'[r].items = refining[r].items /\ refining'[r].cluster = refining[r].cluster
        /\ \A s \in Refiner \ {r} : refining'[s] = refining[s]
    BY <1>1, <1>3 DEF StartOrphans, Memory
  <2>2. refining[r].items = {}
    BY <1>1, <1>3 DEF At, StartOrphans
  <2>3. MemoryOK(r)
    BY <2>1, <2>2 DEF MemoryOK
  <2> QED
    BY <1>1, <1>3, <2>3, RefinerStep DEF StartOrphans, Busy, At
<1>4. CASE StartMerges(r)
  <2>1. kSubset(2, Live) \subseteq SUBSET Live /\ kSubset(2, Live) \subseteq SUBSET Cluster
    BY <1>1 DEF kSubset
  <2>2. /\ refining' \in [Refiner -> Memory] /\ refining'[r].pc = "merges"
        /\ refining'[r].todo = kSubset(2, Live) /\ refining'[r].items = {}
        /\ \A s \in Refiner \ {r} : refining'[s] = refining[s]
    BY <1>1, <1>4, <2>1 DEF StartMerges, Memory
  <2>3. MemoryOK(r)
    BY <2>1, <2>2, LiveIsUsed DEF MemoryOK
  <2> QED
    BY <1>1, <1>4, <2>3, RefinerStep DEF StartMerges, Busy, At
<1>5. CASE EndRefine(r) \/ AbortRefine(r)
  <2>1. NotRefining \in Memory /\ NotRefining.pc = "idle" /\ NotRefining.items = {}
    BY DEF NotRefining, Memory
  <2>2. refining' = [refining EXCEPT ![r] = NotRefining] /\ overlaps' = overlaps
    BY <1>5 DEF EndRefine, AbortRefine
  <2>3. MemoryOK(r) /\ refining'[r].pc = "idle"
    BY <1>1, <2>1, <2>2 DEF MemoryOK
  <2> QED
    BY <1>1, <2>2, <2>3, RefinerStep
<1>6. ASSUME NEW i \in Item, KeepOrphan(r, i) PROVE IInv'
  <2>1. /\ WithoutOrphan(refining[r], i) \in Memory
        /\ WithoutOrphan(refining[r], i).pc = "orphans"
        /\ WithoutOrphan(refining[r], i).items = refining[r].items \ {i}
        /\ WithoutOrphan(refining[r], i).cluster =
             IF refining[r].items = {i} THEN NoCluster ELSE refining[r].cluster
    BY <1>1, <1>6 DEF WithoutOrphan, Memory, KeepOrphan, At
  <2>2. /\ refining' = [refining EXCEPT ![r] = WithoutOrphan(refining[r], i)]
        /\ overlaps' = overlaps /\ At(r, "orphans") /\ i \in refining[r].items
    BY <1>6 DEF KeepOrphan
  <2>3. refining[r].cluster \in Used(clusters)
    BY <2>2 DEF IInv, RefiningOK, At
  <2>4. MemoryOK(r)
    <3> HIDE DEF WithoutOrphan
    <3> QED
      BY <1>1, <2>1, <2>2, <2>3 DEF MemoryOK
  <2> QED
    BY <1>1, <2>2, <2>4, RefinerStep DEF Busy, At
<1>7. ASSUME NEW pair \in kSubset(2, Cluster), SkipPair(r, pair) PROVE IInv'
  <2>1. /\ refining' \in [Refiner -> Memory] /\ refining'[r].pc = "merges"
        /\ refining'[r].todo \subseteq refining[r].todo /\ refining'[r].items = {}
        /\ \A s \in Refiner \ {r} : refining'[s] = refining[s]
        /\ At(r, "merges") /\ overlaps' = overlaps
    BY <1>1, <1>7 DEF SkipPair, Memory, At
  <2>2. MemoryOK(r)
    BY <2>1 DEF IInv, RefiningOK, MemoryOK, At
  <2> QED
    BY <1>1, <2>1, <2>2, RefinerStep DEF Busy, At
<1> QED
  BY <1>2, <1>3, <1>4, <1>5, <1>6, <1>7

LEMMA CountPreserves ==
  ASSUME IInv, NEW r \in Refiner, NEW c \in Cluster,
         CountMembers(r, c) \/ \E orphans \in SUBSET Item : FindOrphans(r, c, orphans)
  PROVE  IInv'
<1> USE DEF Orphans, Transit
<1>1. /\ refining \in [Refiner -> Memory] /\ refining[r] \in Memory
      /\ refining[r].items # {} => refining[r].pc \in Orphans \cup {"judged"}
      /\ UNCHANGED <<member, clusters, pending, assigning, overlaps>>
  BY RefinersMemory DEF CountMembers, FindOrphans
<1>2. Members(c) # {} => c \in Used(clusters)
  BY ClusterAssumption DEF IInv, MembersOK, Members
<1>3. Cardinality(Members(c)) \in Nat
  <2>1. Members(c) \subseteq Stored
    BY ClusterAssumption DEF Members, Stored
  <2> QED
    BY <2>1, Counted DEF IInv, MembersOK
<1>4. CASE CountMembers(r, c)
  <2> DEFINE n == Cardinality(Members(c))
  <2>1. /\ At(r, "recompute")
        /\ \/ refining' = [refining EXCEPT ![r].todo = @ \ {c}]
           \/ /\ Members(c) # {}
              /\ refining' = [refining EXCEPT ![r].pc = "save", ![r].todo = @ \ {c},
                                              ![r].cluster = c, ![r].count = n]
    BY <1>4 DEF CountMembers
  <2>2. n \in Nat
    BY <1>3
  <2> HIDE DEF n
  <2>3. /\ refining' \in [Refiner -> Memory] /\ refining'[r].items = {}
        /\ \/ refining'[r].pc = "recompute"
           \/ refining'[r].pc = "save" /\ Members(c) # {} /\ refining'[r].cluster = c
        /\ \A s \in Refiner \ {r} : refining'[s] = refining[s]
    BY <1>1, <2>1, <2>2 DEF Memory, At
  <2>4. MemoryOK(r)
    BY <1>2, <2>3 DEF MemoryOK
  <2> QED
    BY <1>1, <2>1, <2>4, RefinerStep DEF Busy, At
<1>5. ASSUME NEW orphans \in SUBSET Item, FindOrphans(r, c, orphans) PROVE IInv'
  <2>1. /\ refining' \in [Refiner -> Memory] /\ refining'[r].pc = "orphans"
        /\ refining'[r].items = orphans
        /\ orphans # {} => refining'[r].cluster = c
        /\ \A s \in Refiner \ {r} : refining'[s] = refining[s]
        /\ At(r, "orphans")
    BY <1>1, <1>5 DEF FindOrphans, Memory, At
  <2>2. orphans # {} => c \in Used(clusters)
    BY <1>2, <1>5 DEF FindOrphans
  <2>3. MemoryOK(r)
    BY <2>1, <2>2 DEF MemoryOK
  <2> QED
    BY <1>1, <2>1, <2>3, RefinerStep DEF Busy, At
<1> QED
  BY <1>4, <1>5

LEMMA SavePreserves ==
  ASSUME IInv, NEW r \in Refiner, SaveSize(r)
  PROVE  IInv'
<1> USE DEF Orphans, Transit
<1>1. /\ refining \in [Refiner -> Memory] /\ refining[r] \in Memory /\ At(r, "save")
      /\ refining[r].items # {} => refining[r].pc \in Orphans \cup {"judged"}
      /\ UNCHANGED <<member, pending, assigning, overlaps>>
      /\ refining[r].cluster \in Used(clusters)
  BY RefinersMemory DEF IInv, RefiningOK, SaveSize
<1>2. RowsOK(clusters') /\ Used(clusters') = Used(clusters)
  BY <1>1, RecomputedRows DEF IInv, SaveSize, Memory
<1>3. /\ refining' \in [Refiner -> Memory] /\ refining'[r].pc = "recompute"
      /\ refining'[r].items = {}
      /\ \A s \in Refiner \ {r} : refining'[s] = refining[s]
  BY <1>1 DEF SaveSize, Memory, At
<1>4. MemoryOK(r)
  BY <1>3 DEF MemoryOK
<1>5. RefiningOK' /\ PairsOK'
  BY <1>1, <1>2, <1>4, RefinerFrame, RefinerPairs DEF IInv, Busy, At
<1>6. MembersOK'
  BY <1>1, <1>2 DEF IInv, MembersOK, Stored
<1> QED
  BY <1>1, <1>2, <1>5, <1>6, PendingFrame, AssigningFrame DEF IInv

LEMMA MovePreserves ==
  ASSUME IInv, NEW r \in Refiner, NEW i \in Item, NEW to \in Cluster, MoveOrphan(r, i, to)
  PROVE  IInv'
<1> USE DEF Orphans, Transit
<1>1. /\ refining \in [Refiner -> Memory] /\ refining[r] \in Memory /\ At(r, "orphans")
      /\ UNCHANGED <<member, clusters, pending, assigning, overlaps>>
      /\ i \in refining[r].items /\ to \in Used(clusters)
      /\ refining[r].cluster \in Used(clusters)
      /\ refining' = [refining EXCEPT ![r].pc = "moving", ![r].moving = {i}, ![r].to = to]
  BY LiveIsUsed DEF IInv, RefiningOK, MoveOrphan, At
<1>2. /\ refining' \in [Refiner -> Memory] /\ refining'[r].pc = "moving"
      /\ refining'[r].items = refining[r].items /\ refining'[r].moving = {i}
      /\ refining'[r].to = to /\ refining'[r].cluster = refining[r].cluster
      /\ \A s \in Refiner \ {r} : refining'[s] = refining[s]
  BY <1>1 DEF Memory
<1>3. MemoryOK(r)
  <2>1. IsFiniteSet({i}) /\ refining'[r].items # {}
    BY <1>1, <1>2, FS_Singleton
  <2> QED
    BY <1>1, <1>2, <2>1 DEF MemoryOK
<1> QED
  BY <1>1, <1>3, RefinerStep DEF Busy, At

\* What the transaction counts is a number.
LEMMA InTransitCounted ==
  ASSUME IInv, NEW r \in Refiner, refining[r].pc \in Transit, NEW c \in Used(clusters)
  PROVE  CountIn(r, c) \in Nat
<1>1. IsFiniteSet(refining[r].moving) /\ IsFiniteSet(Stored) /\ c # NoCluster
  BY ClusterAssumption DEF IInv, RefiningOK, TransitOK, MembersOK, Used
<1> DEFINE inside == {i \in Item : (IF i \in refining[r].moving THEN refining[r].to ELSE member[i]) = c}
<1>2. inside \subseteq Stored \cup refining[r].moving
  BY <1>1 DEF Stored
<1>3. IsFiniteSet(Stored \cup refining[r].moving)
  BY <1>1, FS_Union
<1> HIDE DEF inside
<1>4. Cardinality(inside) \in Nat
  BY <1>2, <1>3, Counted
<1> QED
  BY <1>4 DEF CountIn, inside

LEMMA TransitPreserves ==
  ASSUME IInv, NEW r \in Refiner, CountSource(r) \/ CountTarget(r)
  PROVE  IInv'
<1> USE DEF Orphans, Transit
<1>1. /\ refining \in [Refiner -> Memory] /\ refining[r] \in Memory
      /\ refining[r].pc \in Transit /\ refining[r].pc # "idle"
      /\ UNCHANGED <<member, clusters, pending, assigning, overlaps>>
  BY DEF IInv, RefiningOK, CountSource, CountTarget, At
<1>2. /\ refining[r].items # {} /\ refining[r].to \in Used(clusters)
      /\ IsFiniteSet(refining[r].moving) /\ refining[r].cluster \in Used(clusters)
  BY <1>1 DEF IInv, RefiningOK, TransitOK
<1>3. /\ CountIn(r, refining[r].cluster) \in Nat /\ CountIn(r, refining[r].to) \in Nat
  BY <1>1, <1>2, InTransitCounted
<1>4. /\ refining' \in [Refiner -> Memory] /\ refining'[r].pc \in Transit
      /\ refining'[r].items = refining[r].items /\ refining'[r].moving = refining[r].moving
      /\ refining'[r].to = refining[r].to /\ refining'[r].cluster = refining[r].cluster
      /\ \A s \in Refiner \ {r} : refining'[s] = refining[s]
  <2>1. CASE CountSource(r)
    <3>1. refining' = [refining EXCEPT ![r].pc = "counted", ![r].count = CountIn(r, refining[r].cluster)]
      BY <2>1 DEF CountSource
    <3> QED
      BY <1>1, <1>3, <3>1 DEF Memory
  <2>2. CASE CountTarget(r)
    <3>1. refining' = [refining EXCEPT ![r].pc = "moved", ![r].size = CountIn(r, refining[r].to)]
      BY <2>2 DEF CountTarget
    <3> QED
      BY <1>1, <1>3, <3>1 DEF Memory
  <2> QED
    BY <2>1, <2>2
<1>5. MemoryOK(r)
  BY <1>2, <1>4 DEF MemoryOK
<1> QED
  BY <1>1, <1>5, RefinerStep DEF Busy, At

LEMMA CommitPreserves ==
  ASSUME IInv, NEW r \in Refiner, CommitMove(r)
  PROVE  IInv'
<1> USE DEF Orphans, Transit
<1> DEFINE mine == refining[r]
           left == [NotRefining EXCEPT !.pc = "orphans", !.todo = mine.todo,
                      !.items = mine.items \ mine.moving,
                      !.cluster = IF mine.items = mine.moving THEN NoCluster ELSE mine.cluster]
<1>1. /\ refining \in [Refiner -> Memory] /\ mine \in Memory /\ mine.pc = "moved"
      /\ UNCHANGED <<pending, assigning, overlaps>>
      /\ member' = [i \in Item |-> IF i \in mine.moving THEN mine.to ELSE member[i]]
      /\ clusters' = Recomputed(Recomputed(clusters, mine.cluster, mine.count), mine.to, mine.size)
      /\ refining' = [refining EXCEPT ![r] = left]
  BY DEF IInv, RefiningOK, CommitMove, At
<1>2. /\ mine.items # {} /\ mine.to \in Used(clusters)
      /\ IsFiniteSet(mine.moving) /\ mine.cluster \in Used(clusters)
      /\ mine.count \in Nat /\ mine.size \in Nat
  BY <1>1 DEF IInv, RefiningOK, TransitOK, Memory
<1>3. /\ left \in Memory /\ left.pc = "orphans" /\ left.items = mine.items \ mine.moving
      /\ mine.items = mine.moving \/ left.cluster = mine.cluster
  BY <1>1 DEF Memory, NotRefining
<1> HIDE DEF left
<1>4. RowsOK(clusters') /\ Used(clusters') = Used(clusters)
  <2> DEFINE rows == Recomputed(clusters, mine.cluster, mine.count)
  <2>1. RowsOK(rows) /\ Used(rows) = Used(clusters)
    BY <1>2, RecomputedRows DEF IInv
  <2>2. clusters' = Recomputed(rows, mine.to, mine.size)
    BY <1>1
  <2> HIDE DEF rows, mine
  <2> QED
    BY <1>2, <2>1, <2>2, RecomputedRows
<1> HIDE DEF mine
<1>5. MembersOK'
  <2>1. member' \in [Item -> Used(clusters') \cup {NoCluster}]
    BY <1>1, <1>2, <1>4 DEF IInv, MembersOK
  <2>2. Stored' \subseteq Stored \cup mine.moving
    BY <1>1 DEF Stored
  <2>3. IsFiniteSet(Stored')
    BY <1>2, <2>2, FS_Union, FS_Subset DEF IInv, MembersOK
  <2> QED
    BY <2>1, <2>3 DEF MembersOK
<1>6. /\ refining' \in [Refiner -> Memory] /\ refining'[r] = left
      /\ \A s \in Refiner \ {r} : refining'[s] = refining[s]
  BY <1>1, <1>3
<1>7. MemoryOK(r)
  BY <1>2, <1>3, <1>6 DEF MemoryOK
<1>8. Busy(r)
  BY <1>1 DEF Busy, At, mine
<1>9. RefiningOK' /\ PairsOK'
  BY <1>1, <1>4, <1>7, <1>8, RefinerFrame, RefinerPairs DEF IInv
<1> QED
  BY <1>1, <1>4, <1>5, <1>9, PendingFrame, AssigningFrame DEF IInv

LEMMA JudgePreserves ==
  ASSUME IInv, NEW r \in Refiner, NEW pair \in kSubset(2, Cluster), JudgePair(r, pair)
  PROVE  IInv'
<1> USE DEF Orphans, Transit
<1>1. /\ refining \in [Refiner -> Memory] /\ refining[r] \in Memory /\ At(r, "merges")
      /\ UNCHANGED <<member, clusters, pending, assigning, overlaps>>
      /\ pair \in refining[r].todo /\ pair \subseteq Used(clusters)
  BY DEF IInv, RefiningOK, JudgePair
<1>2. PICK a, b \in pair : a # b /\ ~PendingPair(a, b)
  BY DEF JudgePair
<1>3. pair = {a, b}
  <2>1. Cardinality(pair) = 2 /\ pair \subseteq Cluster
    BY DEF kSubset
  <2>2. IsFiniteSet(pair)
    BY <1>1, FS_Subset DEF IInv, RowsOK
  <2> QED
    BY <1>2, <2>1, <2>2, PairOf
<1>4. \A p \in pending : {p.a, p.b} # pair
  BY <1>2, <1>3 DEF PendingPair
<1>5. CASE refining' = [refining EXCEPT ![r] = NotRefining]
  <2>1. NotRefining \in Memory /\ NotRefining.pc = "idle" /\ NotRefining.items = {}
    BY DEF NotRefining, Memory
  <2>2. MemoryOK(r)
    BY <1>1, <1>5, <2>1 DEF MemoryOK
  <2> QED
    BY <1>1, <2>2, RefinerStep DEF Busy, At
<1>6. CASE refining' = [refining EXCEPT ![r].pc = "judged", ![r].todo = @ \ {pair},
                                        ![r].items = pair]
  <2>1. /\ refining' \in [Refiner -> Memory] /\ refining'[r].pc = "judged"
        /\ refining'[r].items = pair /\ refining'[r].todo = refining[r].todo \ {pair}
        /\ \A s \in Refiner \ {r} : refining'[s] = refining[s]
    BY <1>1, <1>6 DEF Memory, kSubset
  <2>2. \A q \in refining[r].todo : q \subseteq Used(clusters)
    BY <1>1 DEF IInv, RefiningOK
  <2>3. MemoryOK(r)
    BY <1>1, <1>4, <2>1, <2>2 DEF MemoryOK
  <2> QED
    BY <1>1, <2>3, RefinerStep DEF Busy, At
<1> QED
  BY <1>5, <1>6 DEF JudgePair

LEMMA ProposePreserves ==
  ASSUME IInv, NEW r \in Refiner, NEW a \in Cluster, NEW b \in Cluster, Propose(r, a, b)
  PROVE  IInv'
<1> USE DEF Orphans, Transit
<1> DEFINE new == [a |-> a, b |-> b, by |-> r]
<1>1. /\ refining \in [Refiner -> Memory] /\ refining[r] \in Memory /\ At(r, "judged")
      /\ UNCHANGED <<member, clusters, assigning, overlaps>>
      /\ refining[r].items = {a, b} /\ a # b /\ refining[r].items \subseteq Used(clusters)
      /\ pending' = pending \cup {new}
  BY DEF IInv, RefiningOK, Propose
<1>2. /\ refining' \in [Refiner -> Memory] /\ refining'[r].pc = "merges"
      /\ refining'[r].todo = refining[r].todo /\ refining'[r].items = {}
      /\ \A s \in Refiner \ {r} : refining'[s] = refining[s]
  BY <1>1 DEF Propose, Memory
<1>3. MemoryOK(r)
  BY <1>1, <1>2 DEF IInv, RefiningOK, MemoryOK
<1>4. RefiningOK'
  BY <1>1, <1>3, RefinerFrame DEF IInv
<1>5. PendingOK'
  BY <1>1 DEF IInv, PendingOK
<1>6. PairsOK'
  <2>1. /\ overlaps' \in Nat
        /\ overlaps = 0 => \A s, q \in Refiner : Busy(s) /\ Busy(q) => s = q
        /\ Busy(r)
    BY <1>1 DEF IInv, PairsOK, Busy, At
  <2>2. \A s \in Refiner : Busy(s)' => Busy(s)
    BY <1>2, <2>1 DEF Busy, At
  \* Nobody else has had a pair judged.
  <2>3. overlaps' = 0 => \A s \in Refiner : ~At(s, "judged")'
    BY <1>1, <1>2, <2>1 DEF Busy, At
  <2>4. overlaps = 0 => \A p \in pending : {p.a, p.b} # {a, b}
    BY <1>1 DEF IInv, PairsOK
  <2>5. OneProposalPerPair'
    <3> SUFFICES ASSUME overlaps = 0, NEW p \in pending', NEW q \in pending'
                 PROVE  p.a # p.b /\ ({p.a, p.b} = {q.a, q.b} => p = q)
      BY <1>1 DEF OneProposalPerPair
    <3>1. new.a = a /\ new.b = b
      OBVIOUS
    <3> HIDE DEF new
    <3>2. CASE p \in pending /\ q \in pending
      BY <3>2 DEF IInv, PairsOK, OneProposalPerPair
    <3>3. CASE p = new /\ q \in pending
      BY <1>1, <2>4, <3>1, <3>3
    <3>4. CASE p \in pending /\ q = new
      BY <1>1, <2>4, <3>1, <3>4 DEF IInv, PairsOK, OneProposalPerPair
    <3>5. CASE p = new /\ q = new
      BY <1>1, <3>1, <3>5
    <3> QED
      BY <1>1, <3>2, <3>3, <3>4, <3>5
  <2> QED
    BY <1>1, <2>1, <2>2, <2>3, <2>5 DEF PairsOK
<1>7. RowsOK(clusters') /\ MembersOK'
  BY <1>1 DEF IInv, MembersOK, Stored
<1> QED
  BY <1>1, <1>4, <1>5, <1>6, <1>7, AssigningFrame DEF IInv

LEMMA RefinePreserves ==
  ASSUME IInv, NEW r \in Refiner, Refine(r) \/ AbortRefine(r)
  PROVE  IInv'
BY QuietRefine, CountPreserves, SavePreserves, MovePreserves, TransitPreserves, CommitPreserves,
   JudgePreserves, ProposePreserves
   DEF Refine

-----------------------------------------------------------------------------
(* Humans                                                                  *)

LEMMA ApplyPreserves ==
  ASSUME IInv, NEW p \in pending, Apply(p)
  PROVE  IInv'
<1> DEFINE a == p.a
           b == p.b
           moved == [i \in Item |-> IF member[i] = b THEN a ELSE member[i]]
           n == Cardinality({i \in Item : moved[i] = a})
           grown == Recomputed(clusters, a, n)
<1>1. /\ pending' \subseteq pending /\ member' = moved
      /\ UNCHANGED <<assigning, refining, overlaps>>
      /\ clusters' = [grown EXCEPT ![b].status = "merged", ![b].into = a]
  BY DEF Apply
<1>2. /\ a \in Used(clusters) /\ b \in Used(clusters) /\ a # NoCluster /\ b # NoCluster
      /\ a \in Cluster /\ b \in Cluster
  BY ClusterAssumption DEF IInv, PendingOK, Used
<1>3. /\ moved \in [Item -> Used(clusters) \cup {NoCluster}]
      /\ {i \in Item : moved[i] # NoCluster} \subseteq Stored
  BY <1>2 DEF IInv, MembersOK, Stored
<1>4. IsFiniteSet({i \in Item : moved[i] # NoCluster})
  BY <1>3, FS_Subset DEF IInv, MembersOK
<1>5. n \in Nat
  <2>1. {i \in Item : moved[i] = a} \subseteq {i \in Item : moved[i] # NoCluster}
    BY <1>2
  <2> HIDE DEF moved
  <2> QED
    BY <1>4, <2>1, Counted
<1> HIDE DEF n, moved
<1>6. RowsOK(grown) /\ Used(grown) = Used(clusters)
  BY <1>2, <1>5, RecomputedRows DEF IInv
<1>7. RowsOK(clusters') /\ Used(clusters') = Used(clusters)
  <2> HIDE DEF grown
  <2> DEFINE row == [grown[b] EXCEPT !.status = "merged", !.into = a]
  <2>1. grown \in [Cluster -> Row]
    BY <1>6 DEF RowsOK
  <2>2. row \in Row /\ row.status # "free"
    BY <1>2, <2>1 DEF Row, Status
  <2>3. clusters' = [grown EXCEPT ![b] = row]
    BY <1>1
  <2> HIDE DEF row
  <2>4. RowsOK(clusters') /\ Used(clusters') = Used(grown) \cup {b}
    BY <1>2, <1>6, <2>2, <2>3, ReplacedRow
  <2> QED
    BY <1>2, <1>6, <2>4
<1>8. MembersOK'
  BY <1>1, <1>3, <1>4, <1>7 DEF IInv, MembersOK, Stored
<1> QED
  BY <1>1, <1>7, <1>8, PendingFrame, AssigningFrame, RefiningFrame, PairsFrame DEF IInv

LEMMA HumanPreserves ==
  ASSUME IInv, Human
  PROVE  IInv'
<1>1. ASSUME NEW p \in pending, Reject(p) PROVE IInv'
  <2>1. /\ pending' \subseteq pending
        /\ UNCHANGED <<member, clusters, assigning, refining, overlaps>>
    BY <1>1 DEF Reject
  <2>2. RowsOK(clusters') /\ MembersOK'
    BY <2>1 DEF IInv, MembersOK, Stored
  <2> QED
    BY <2>1, <2>2, PendingFrame, AssigningFrame, RefiningFrame, PairsFrame DEF IInv
<1> QED
  BY <1>1, ApplyPreserves DEF Human

-----------------------------------------------------------------------------
(* Theorems                                                                *)

LEMMA InitInv == Init => IInv
<1> USE DEF Orphans, Transit
<1> SUFFICES ASSUME Init PROVE IInv
  OBVIOUS
<1>1. /\ Used(clusters) = {} /\ Stored = {} /\ IsFiniteSet({})
  BY FS_EmptySet DEF Init, Used, Stored
<1>2. Free \in Row
  BY DEF Free, Row, Status
<1>3. RowsOK(clusters)
  BY <1>1, <1>2 DEF Init, RowsOK
<1>4. MembersOK /\ PendingOK
  BY <1>1 DEF Init, MembersOK, PendingOK
<1>5. AssigningOK
  <2>1. /\ NotAssigning \in [item: SUBSET Item, to: Cluster \cup {NoCluster}, size: Nat]
        /\ NotAssigning.item = {} /\ NotAssigning.to = NoCluster
    BY DEF NotAssigning
  <2> QED
    BY <1>1, <2>1 DEF Init, AssigningOK
<1>6. NotRefining \in Memory /\ NotRefining.pc = "idle" /\ NotRefining.items = {}
  BY DEF NotRefining, Memory
<1>7. RefiningOK /\ PairsOK
  BY <1>6 DEF Init, RefiningOK, TransitOK, PairsOK, OneProposalPerPair, Busy, At
<1> QED
  BY <1>3, <1>4, <1>5, <1>7 DEF IInv

LEMMA StepInv == IInv /\ [Next]_vars => IInv'
<1> SUFFICES ASSUME IInv, [Next]_vars PROVE IInv'
  OBVIOUS
<1>1. CASE UNCHANGED vars
  <2>1. UNCHANGED <<member, clusters, pending, assigning, refining, overlaps>>
    BY <1>1 DEF vars
  <2>2. RowsOK(clusters') /\ MembersOK'
    BY <2>1 DEF IInv, MembersOK, Stored
  <2> QED
    BY <2>1, <2>2, PendingFrame, AssigningFrame, RefiningFrame, PairsFrame DEF IInv
<1>2. CASE Next
  BY <1>2, RefinePreserves, HumanPreserves, IngestPreserves DEF Next
<1> QED
  BY <1>1, <1>2

\* Whatever the ingestion, the refinements and the humans do to the clusters
\* keeps IInv.
THEOREM Invariance == Spec => []IInv
BY InitInv, StepInv, PTL DEF Spec

\* Types are right, and no item, proposal or merge ever names a row
\* that is not there, for any number of clusters, items and processes.
THEOREM TypeCorrect == Spec => []TypeOK
<1>1. IInv => TypeOK
  <2> SUFFICES ASSUME IInv PROVE TypeOK
    OBVIOUS
  <2>1. \A r \in Refiner :
          refining[r].pc \in {"idle", "recompute", "save", "orphans", "moving", "counted", "moved",
                             "merges", "judged"}
    BY DEF IInv, RefiningOK, Memory, Orphans, Transit
  <2> QED
    BY <2>1 DEF IInv, RowsOK, MembersOK, PendingOK, AssigningOK, TypeOK, Used
<1> QED
  BY <1>1, Invariance, PTL

\* Refinements that do not overlap never leave two proposals for one pair.
THEOREM PairsAreProposedOnce == Spec => []OneProposalPerPair
<1>1. IInv => OneProposalPerPair
  BY DEF IInv, PairsOK
<1> QED
  BY <1>1, Invariance, PTL


-----------------------------------------------------------------------------
(* The rebuild (Recluster)                                                 *)

CONSTANT MaxRuns
VARIABLES rows, investigated, seen, rebuild, runs

R == INSTANCE Recluster

\* What the command found when it began is still there, parked once it has
\* parked, and not among what it collects.
FoundOK ==
  /\ rebuild.found \subseteq R!Stored
  /\ rebuild.done \subseteq investigated
  /\ rebuild.pc = "idle" => rebuild.found = {} /\ rebuild.done = {}
  /\ rebuild.pc # "idle" => rebuild.done \subseteq rebuild.protected
  /\ rebuild.pc \notin {"idle", "begun"} => rebuild.found \subseteq rebuild.parked
  /\ rebuild.pc \in {"collected", "deleted", "assigned"} =>
       /\ rebuild.items \cap rebuild.parked = {}
       /\ rebuild.work \cap rebuild.protected = {}

\* Others only add items and investigations, and leave the command alone.
LEMMA OthersAdd ==
  ASSUME \/ \E w \in Worker : R!Ingest(w)
         \/ \E c \in Cluster : R!Investigate(c)
  PROVE  /\ rebuild' = rebuild
         /\ R!Stored \subseteq R!Stored'
         /\ investigated \subseteq investigated'
<1>1. ASSUME NEW w \in Worker, R!Ingest(w)
      PROVE  rebuild' = rebuild /\ investigated' = investigated /\ R!Stored \subseteq R!Stored'
  <2>1. ASSUME NEW c \in Cluster, R!StoreIn(w, c) PROVE R!Stored \subseteq R!Stored'
    BY <2>1, ClusterAssumption DEF R!StoreIn, R!Stored
  <2> QED
    BY <1>1, <2>1 DEF R!Ingest, R!ReadNearest, R!Join, R!FailJoin, R!OpenSingleton, R!There, R!Unused,
                      R!Stored
<1>2. ASSUME NEW c \in Cluster, R!Investigate(c)
      PROVE  rebuild' = rebuild /\ investigated \subseteq investigated' /\ R!Stored' = R!Stored
  BY <1>2 DEF R!Investigate, R!Stored
<1> QED
  BY <1>1, <1>2

LEMMA CommandKeeps ==
  ASSUME FoundOK, R!Command
  PROVE  /\ FoundOK'
         /\ \A i \in rebuild.found : member'[i] # NoCluster
         /\ rebuild.done \subseteq investigated'
<1>1. CASE R!Begin
  BY <1>1 DEF R!Begin, R!At, R!Protected, FoundOK, R!Stored
<1>2. CASE R!Park
  BY <1>2 DEF R!Park, R!At, R!ParkedNow, FoundOK, R!Stored
<1>3. CASE R!Collect
  BY <1>3 DEF R!Collect, R!At, FoundOK, R!Stored
<1>4. CASE R!Delete
  BY <1>4 DEF R!Delete, R!At, FoundOK, R!Stored
<1>5. ASSUME NEW home, R!Reassign(home)
      PROVE  /\ FoundOK' /\ member' = member /\ investigated' = investigated
             /\ rebuild.found \subseteq R!Stored
  BY <1>5 DEF R!Reassign, R!At, FoundOK, R!Stored
<1>6. R!NotRebuilding.pc = "idle" /\ R!NotRebuilding.found = {} /\ R!NotRebuilding.done = {}
  BY DEF R!NotRebuilding
<1>7. CASE R!RollBack
  BY <1>6, <1>7 DEF R!RollBack, FoundOK, R!Stored
<1>8. CASE R!Commit
  <2>1. /\ rebuild.found \cap rebuild.items = {} /\ rebuild.done \cap rebuild.work = {}
        /\ rebuild.found \subseteq R!Stored /\ rebuild.done \subseteq investigated
    BY <1>8 DEF R!Commit, R!At, FoundOK
  <2>2. member' = R!Rehomed /\ investigated' = investigated \ rebuild.work
        /\ rebuild' = R!NotRebuilding
    BY <1>8 DEF R!Commit
  <2>3. \A i \in rebuild.found : R!Rehomed[i] # NoCluster
    BY <2>1 DEF R!Rehomed, R!Stored
  <2>4. FoundOK'
    BY <1>6, <2>2 DEF FoundOK
  <2> QED
    BY <2>1, <2>2, <2>3, <2>4
<1> QED
  BY <1>1, <1>2, <1>3, <1>4, <1>5, <1>7, <1>8 DEF R!Command, R!Begin, R!Park, R!Collect, R!Delete,
     R!RollBack, FoundOK, R!Stored

LEMMA FoundInvariant == R!Spec => []FoundOK
<1>1. R!Init => FoundOK
  BY DEF R!Init, FoundOK, R!NotRebuilding, R!Stored
<1>2. FoundOK /\ [R!Next]_(R!vars) => FoundOK'
  <2> SUFFICES ASSUME FoundOK, [R!Next]_(R!vars) PROVE FoundOK'
    OBVIOUS
  <2>1. CASE UNCHANGED R!vars
    BY <2>1 DEF R!vars, FoundOK, R!Stored
  <2>2. CASE R!Command
    BY <2>2, CommandKeeps
  <2>3. CASE (\E w \in Worker : R!Ingest(w)) \/ \E c \in Cluster : R!Investigate(c)
    BY <2>3, OthersAdd DEF FoundOK
  <2> QED
    BY <2>1, <2>2, <2>3 DEF R!Next
<1> QED
  BY <1>1, <1>2, PTL DEF R!Spec

\* Whatever is ingested and investigated beside the rebuild, and wherever it
\* stops, it loses no item and no investigation that was committed when it
\* began; those committed while it runs are another matter.
THEOREM RebuildKeepsWhatItFound == R!Spec => R!FoundSurvives
<1> DEFINE Keeps == /\ \A i \in rebuild.found : member'[i] # NoCluster
                    /\ rebuild.done \subseteq investigated'
<1>1. FoundOK /\ [R!Next]_(R!vars) => [Keeps]_(R!vars)
  <2> SUFFICES ASSUME FoundOK, R!Next PROVE Keeps
    OBVIOUS
  <2>1. CASE R!Command
    BY <2>1, CommandKeeps
  <2>2. CASE (\E w \in Worker : R!Ingest(w)) \/ \E c \in Cluster : R!Investigate(c)
    <3>1. rebuild.found \subseteq R!Stored'
      BY <2>2, OthersAdd DEF FoundOK
    <3> QED
      BY <2>2, <3>1, OthersAdd DEF FoundOK, R!Stored
  <2> QED
    BY <2>1, <2>2 DEF R!Next
<1>2. R!Spec => [][Keeps]_(R!vars)
  BY <1>1, FoundInvariant, PTL DEF R!Spec
<1>3. [][Keeps]_(R!vars) => R!FoundSurvives
  BY PTL DEF R!FoundSurvives
<1> QED
  BY <1>2, <1>3, PTL
=============================================================================
