-------------------------- MODULE IngestionProofs --------------------------
(***************************************************************************)
(* Proofs about Ingestion, for every set of items with every posting time, *)
(* any number of jobs, failures and overlaps, and each of the adapters.    *)
(***************************************************************************)
EXTENDS Ingestion, FiniteSetTheorems, TLAPS

JobRecord == [pc: Pcs, kind: {"ingest", "backfill"}, since: Time,
              known: SUBSET Item, todo: SUBSET Item, item: SUBSET Item]

-----------------------------------------------------------------------------
(* The inductive invariant                                                 *)

\* t may be the checkpoint: it is no time at all or that of a finished item,
\* and it passes over nothing.
Passed(t) ==
  \A i \in Open :
    Posted[i] <= t =>
      /\ Inclusive => Posted[i] = t
      /\ \E k \in Handled : Posted[k] = Posted[i]

Reached(t) == t = 0 \/ \E k \in Handled : Posted[k] = t

\* The one way a strict source loses an item.
Tied(i) == ~Inclusive /\ \E k \in Handled : Posted[k] = Posted[i]

Left(j) == jobs[j].todo \cup jobs[j].item

\* What an ingest has fetched but not yet finished is all that is open, but
\* for items tied with a finished one and those no older than the rest.
Accounted(j) ==
  \A i \in Open :
    i \in Left(j) \/ Tied(i) \/ \A k \in Left(j) : Posted[k] <= Posted[i]

\* A job works on one item, none of the others is older, and it moves the
\* checkpoint to it only when the item is finished.
OnOneItem(j) ==
  IF jobs[j].pc \in {"discard", "keep", "advance"}
  THEN \E i \in Item : /\ jobs[j].item = {i}
                       /\ \A k \in jobs[j].todo : Posted[i] <= Posted[k]
                       /\ jobs[j].pc = "advance" => i \in Handled
  ELSE jobs[j].item = {}

JobOK(j) ==
  /\ OnOneItem(j)
  /\ Left(j) \subseteq listed
  /\ jobs[j].kind = "ingest" =>
       /\ jobs[j].pc = "fetch" =>
            /\ jobs[j].known = {}
            /\ Reached(jobs[j].since)
            /\ Passed(jobs[j].since)
       /\ jobs[j].pc \in {"next", "discard", "keep", "advance"} => Accounted(j)

IInv ==
  /\ TypeOK
  /\ StoredOnce
  /\ Handled \subseteq listed
  /\ Reached(checkpoint)
  /\ Passed(checkpoint)
  /\ \A j \in Job : JobOK(j)

-----------------------------------------------------------------------------
(* What survives when items are finished, and when one is published        *)

LEMMA PassedSurvives ==
  ASSUME NEW t, Passed(t), Reached(t), Handled \subseteq Handled', Open' \subseteq Open,
         source' = source
  PROVE  Passed(t)' /\ Reached(t)'
BY DEF Passed, Reached, Inclusive

LEMMA JobSurvives ==
  ASSUME NEW j \in Job, JobOK(j), Handled \subseteq Handled', Open' \subseteq Open, listed' = listed,
         source' = source, jobs'[j] = jobs[j]
  PROVE  JobOK(j)'
<1>1. Left(j)' = Left(j)
  BY DEF Left
<1>2. OnOneItem(j)'
  BY DEF JobOK, OnOneItem
<1>3. Accounted(j) => Accounted(j)'
  BY <1>1 DEF Accounted, Tied, Inclusive
<1>4. /\ Reached(jobs[j].since) => Reached(jobs[j].since)'
      /\ Reached(jobs[j].since) /\ Passed(jobs[j].since) => Passed(jobs[j].since)'
  BY DEF Passed, Reached, Inclusive
<1> QED
  BY <1>1, <1>2, <1>3, <1>4 DEF JobOK, Passed, Reached, Inclusive

\* A new item that is not late is no older than any that is listed, so no
\* checkpoint is past it and no job has a newer one left.
LEMMA OpenAfterPublish ==
  ASSUME IInv, NEW i \in Item, Publish(i)
  PROVE  /\ Open' \subseteq Open \cup {i}
         /\ i \in Open' => \A k \in listed : Posted[k] <= Posted[i]
<1>1. /\ Handled' = Handled /\ listed' = listed \cup {i} /\ cutOff' = cutOff
      /\ late' = IF \E k \in listed : Posted[k] > Posted[i] THEN late \cup {i} ELSE late
  BY DEF Publish, Handled, IsStored
<1>2. Open' \subseteq Open \cup {i}
  BY <1>1 DEF Open
<1>3. ASSUME i \in Open', NEW k \in listed PROVE Posted[k] <= Posted[i]
  <2>1. ~(Posted[k] > Posted[i])
    BY <1>1, <1>3 DEF Open
  <2>2. k \in Item /\ Posted[k] \in Nat /\ Posted[i] \in Nat
    BY PostedAssumption DEF IInv, TypeOK
  <2> QED
    BY <2>1, <2>2
<1> QED
  BY <1>2, <1>3

LEMMA PassedAfterPublish ==
  ASSUME IInv, NEW i \in Item, Publish(i), NEW t \in Nat, Passed(t), Reached(t)
  PROVE  Passed(t)' /\ Reached(t)'
<1>1. /\ Handled' = Handled /\ source' = source /\ Open' \subseteq Open \cup {i}
      /\ i \in Open' => \A k \in listed : Posted[k] <= Posted[i]
  BY OpenAfterPublish DEF Publish, Handled, IsStored
<1>2. Reached(t)'
  BY <1>1 DEF Reached
<1>3. Posted[i] \in Nat \ {0}
  BY PostedAssumption
<1>4. ASSUME i \in Open', Posted[i] <= t PROVE \E k \in Handled : Posted[k] = t /\ Posted[k] = Posted[i]
  <2>1. t # 0
    BY <1>3, <1>4
  <2>2. PICK k \in Handled : Posted[k] = t
    BY <2>1 DEF Reached
  <2>3. k \in listed /\ k \in Item
    BY <2>2 DEF IInv, TypeOK
  <2>4. Posted[k] <= Posted[i]
    BY <2>3, <1>1, <1>4
  <2> QED
    BY <2>2, <2>4, <1>3, <1>4
<1> QED
  BY <1>1, <1>2, <1>4 DEF Passed, Inclusive

LEMMA PublishPreserves ==
  ASSUME IInv, NEW i \in Item, Publish(i)
  PROVE  IInv'
<1>1. /\ Handled' = Handled /\ source' = source /\ listed' = listed \cup {i}
      /\ jobs' = jobs /\ Open' \subseteq Open \cup {i}
      /\ checkpoint' = checkpoint /\ stored' = stored /\ kept' = kept
  BY OpenAfterPublish DEF Publish, Handled, IsStored
<1>2. TypeOK' /\ StoredOnce'
  <2>1. {listed', late', cutOff', discarded'} \subseteq SUBSET Item
    BY <1>1 DEF IInv, TypeOK, Publish
  <2> QED
    BY <1>1, <2>1 DEF IInv, TypeOK, Publish, StoredOnce
<1>3. \A k \in Item : Posted[k] \in Nat
  BY PostedAssumption
<1>5. Reached(checkpoint)' /\ Passed(checkpoint)'
  <2>1. checkpoint \in Nat
    BY <1>3 DEF IInv, TypeOK, Time
  <2> QED
    BY <2>1, <1>1, PassedAfterPublish DEF IInv, Passed, Reached
<1>6. ASSUME NEW j \in Job PROVE JobOK(j)'
  <2>1. JobOK(j) /\ Left(j)' = Left(j) /\ jobs[j].since \in Nat
    BY <1>1, <1>3 DEF IInv, Left, TypeOK, Time
  <2>2. OnOneItem(j)' /\ Left(j)' \subseteq listed'
    BY <1>1, <2>1 DEF JobOK, OnOneItem
  <2>3. Accounted(j) => Accounted(j)'
    <3>1. i \in Open' => \A k \in Left(j) : Posted[k] <= Posted[i]
      BY <2>1, OpenAfterPublish DEF JobOK
    <3> QED
      BY <1>1, <2>1, <3>1 DEF Accounted, Tied, Inclusive
  <2>4. Reached(jobs[j].since) /\ Passed(jobs[j].since) =>
          Reached(jobs[j].since)' /\ Passed(jobs[j].since)'
    BY <1>1, <2>1, PassedAfterPublish DEF Passed, Reached
  <2> QED
    BY <1>1, <2>1, <2>2, <2>3, <2>4 DEF JobOK
<1> QED
  BY <1>1, <1>2, <1>5, <1>6 DEF IInv

-----------------------------------------------------------------------------
(* A step of one job                                                       *)

\* It is enough to look at that job, at the checkpoint and at what is stored.
LEMMA JobStep ==
  ASSUME IInv, NEW j \in Job,
         Handled \subseteq Handled', listed' = listed, late' = late, cutOff \subseteq cutOff',
         source' = source,
         \A k \in Job \ {j} : jobs'[k] = jobs[k],
         TypeOK', StoredOnce', Handled' \subseteq listed,
         Reached(checkpoint)', Passed(checkpoint)', JobOK(j)'
  PROVE  IInv'
<1>1. Open' \subseteq Open
  BY DEF Open
<1>2. ASSUME NEW k \in Job PROVE JobOK(k)'
  BY <1>1, JobSurvives DEF IInv
<1> QED
  BY <1>2 DEF IInv

\* A step that finishes no item, stores nothing and leaves the checkpoint alone.
LEMMA QuietStep ==
  ASSUME IInv, NEW j \in Job, NEW new \in JobRecord, jobs' = [jobs EXCEPT ![j] = new],
         paid' \subseteq Item, paidAgain' \in 0..MaxPaidAgain,
         UNCHANGED <<source, listed, late, checkpoint, stored, kept, discarded>>,
         cutOff \subseteq cutOff', cutOff' \subseteq Item, JobOK(j)',
         new.pc \in {"discard", "keep", "advance"} => \E i \in Item : new.item = {i}
  PROVE  IInv'
<1>1. Handled' = Handled /\ Open' \subseteq Open
  BY DEF Handled, IsStored, Open
<1>2. \A k \in Job \ {j} : jobs'[k] = jobs[k]
  BY DEF IInv, TypeOK
<1>3. jobs' \in [Job -> JobRecord] /\ jobs'[j] = new
  BY DEF IInv, TypeOK, JobRecord
<1>4. \A k \in Job : jobs'[k].pc \in {"discard", "keep", "advance"} => Cardinality(jobs'[k].item) = 1
  BY <1>2, <1>3, FS_Singleton DEF IInv, TypeOK
<1>5. TypeOK'
  BY <1>3, <1>4 DEF IInv, TypeOK, JobRecord, Time
<1>6. StoredOnce' /\ Passed(checkpoint)' /\ Reached(checkpoint)'
  BY <1>1 DEF IInv, StoredOnce, Passed, Reached, Inclusive
<1> QED
  BY <1>1, <1>2, <1>5, <1>6, JobStep DEF IInv

LEMMA IdleIsOK ==
  ASSUME NEW j \in Job, jobs'[j] = Idle
  PROVE  Idle \in JobRecord /\ JobOK(j)'
BY DEF Idle, JobRecord, Pcs, Time, JobOK, OnOneItem, Left

LEMMA StartPreserves ==
  ASSUME IInv, NEW j \in Job,
         StartIngest(j) \/ \E since \in Time : StartBackfill(j, since)
  PROVE  IInv'
<1>1. CASE StartIngest(j)
  <2> DEFINE new == [Idle EXCEPT !.pc = "fetch", !.since = checkpoint]
  <2>1. new \in JobRecord /\ jobs' = [jobs EXCEPT ![j] = new] /\ jobs'[j] = new
    BY <1>1 DEF IInv, TypeOK, StartIngest, Idle, JobRecord, Pcs
  <2>2. /\ Handled' = Handled /\ Open' = Open
        /\ UNCHANGED <<source, listed, late, cutOff, checkpoint, stored, kept, discarded>>
    BY <1>1 DEF StartIngest, Handled, IsStored, Open
  <2>3. Reached(checkpoint)' /\ Passed(checkpoint)'
    BY <2>2 DEF IInv, Reached, Passed, Inclusive
  <2>4. /\ jobs'[j].pc = "fetch" /\ jobs'[j].known = {} /\ jobs'[j].since = checkpoint
        /\ jobs'[j].todo = {} /\ jobs'[j].item = {}
    BY <2>1 DEF Idle
  <2>5. OnOneItem(j)' /\ Left(j)' = {}
    BY <2>4 DEF OnOneItem, Left
  <2>6. Reached(jobs[j].since)' /\ Passed(jobs[j].since)'
    BY <2>2, <2>3, <2>4 DEF Reached, Passed
  <2>7. JobOK(j)'
    BY <2>4, <2>5, <2>6 DEF JobOK
  <2> QED
    BY <2>1, <2>7, <1>1, QuietStep DEF IInv, TypeOK, StartIngest, Idle
<1>2. ASSUME NEW since \in Time, StartBackfill(j, since) PROVE IInv'
  <2> DEFINE known == {i \in Item : IsStored(i)}
             new == [Idle EXCEPT !.pc = "fetch", !.kind = "backfill", !.since = since,
                                 !.known = known]
  <2>0. jobs' = [jobs EXCEPT ![j] = new] /\ known \subseteq Item
    BY <1>2 DEF StartBackfill
  <2> HIDE DEF known
  <2>1. new \in JobRecord /\ jobs'[j] = new
    BY <1>2, <2>0 DEF IInv, TypeOK, Idle, JobRecord, Pcs
  <2>2. /\ jobs'[j].pc = "fetch" /\ jobs'[j].kind = "backfill"
        /\ jobs'[j].todo = {} /\ jobs'[j].item = {}
    BY <2>1 DEF Idle
  <2>3. OnOneItem(j)' /\ Left(j)' = {}
    BY <2>2 DEF OnOneItem, Left
  <2>4. JobOK(j)'
    BY <2>2, <2>3 DEF JobOK
  <2> QED
    BY <2>0, <2>1, <2>4, <1>2, QuietStep DEF IInv, TypeOK, StartBackfill, Idle
<1> QED
  BY <1>1, <1>2

LEMMA FetchPreserves ==
  ASSUME IInv, NEW j \in Job, Fetch(j)
  PROVE  IInv'
<1>1. jobs[j] \in JobRecord /\ jobs[j].pc = "fetch" /\ jobs[j].item = {}
  BY DEF IInv, TypeOK, JobRecord, Fetch, At, JobOK, OnOneItem
<1>2. source \in Source
  BY DEF IInv, TypeOK
<1>3. Fetched(jobs[j].since) = IF Inclusive THEN {i \in listed : Posted[i] >= jobs[j].since}
                               ELSE {i \in listed : Posted[i] > jobs[j].since}
  BY <1>2, SourceAssumption DEF Fetched, Inclusive, HackerNewsItems, GitHubItems, StackOverflowItems
<1>4. PICK got \in Pages(Fetched(jobs[j].since)) :
        /\ jobs' = [jobs EXCEPT ![j].pc = "next", ![j].since = 0, ![j].known = {},
                                ![j].todo = got \ jobs[j].known]
        /\ cutOff' = IF jobs[j].kind = "ingest" THEN cutOff \cup (Fetched(jobs[j].since) \ got)
                     ELSE cutOff
  BY DEF Fetch
<1> DEFINE todo == got \ jobs[j].known
           new == [jobs[j] EXCEPT !.pc = "next", !.since = 0, !.known = {}, !.todo = todo]
<1>5. got \subseteq Fetched(jobs[j].since)
  BY <1>4 DEF Pages
<1>6. todo \subseteq listed /\ listed \subseteq Item /\ Fetched(jobs[j].since) \subseteq Item
  BY <1>3, <1>5 DEF IInv, TypeOK
<1>7. new \in JobRecord
  BY <1>1, <1>6 DEF JobRecord, Pcs, Time
<1>8. jobs' = [jobs EXCEPT ![j] = new]
  BY <1>1, <1>4 DEF JobRecord, IInv, TypeOK
<1>9. jobs'[j] = new
  BY <1>8 DEF IInv, TypeOK
<1>10. new.pc = "next" /\ new.item = {} /\ new.todo = todo /\ new.kind = jobs[j].kind
  BY <1>1 DEF JobRecord
<1>11. /\ Handled' = Handled
       /\ UNCHANGED <<source, listed, late, checkpoint, stored, kept, discarded, paid, paidAgain>>
  BY DEF Fetch, Handled, IsStored
<1>12. cutOff \subseteq cutOff' /\ cutOff' \subseteq Item /\ Open' \subseteq Open
  BY <1>4, <1>6, <1>11 DEF IInv, TypeOK, Open
<1>13. OnOneItem(j)' /\ Left(j)' = todo
  BY <1>9, <1>10 DEF OnOneItem, Left
<1>14. ASSUME jobs[j].kind = "ingest" PROVE Accounted(j)'
  <2>1. jobs[j].known = {} /\ Passed(jobs[j].since)
    BY <1>1, <1>14 DEF IInv, JobOK
  <2>2. jobs[j].since \in Nat
    BY <1>1, PostedAssumption DEF JobRecord, Time
  <2>3. ASSUME NEW i \in Open', i \notin todo PROVE Tied(i)
    <3>1. Posted[i] \in Nat /\ i \in Open /\ i \in listed
      BY <1>6, <1>11, <1>12, <2>3, PostedAssumption DEF Open
    <3>2. i \notin Fetched(jobs[j].since)
      BY <1>4, <1>14, <2>1, <2>3 DEF Open
    <3>3. CASE Inclusive
      <4>1. Posted[i] < jobs[j].since
        BY <1>3, <2>2, <3>1, <3>2, <3>3
      <4> QED
        BY <4>1, <2>1, <2>2, <3>1, <3>3 DEF Passed
    <3>4. CASE ~Inclusive
      <4>1. Posted[i] <= jobs[j].since
        BY <1>3, <2>2, <3>1, <3>2, <3>4
      <4> QED
        BY <4>1, <2>1, <3>1, <3>4 DEF Passed, Tied
    <3> QED
      BY <3>3, <3>4
  <2> QED
    BY <2>3, <1>11, <1>13 DEF Accounted, Tied, Inclusive
<1>15. JobOK(j)'
  BY <1>6, <1>9, <1>10, <1>11, <1>13, <1>14 DEF JobOK
<1>16. paid' \subseteq Item /\ paidAgain' \in 0..MaxPaidAgain
  BY <1>11 DEF IInv, TypeOK
<1> HIDE DEF new
<1> QED
  BY <1>7, <1>8, <1>10, <1>11, <1>12, <1>15, <1>16, QuietStep

-----------------------------------------------------------------------------
(* Items                                                                   *)

\* The oldest item is taken: nothing else that is left is older.
LEMMA TakePreserves ==
  ASSUME IInv, NEW j \in Job, NEW i \in Item, NEW pc \in {"discard", "keep", "advance"},
         At(j, "next"), i \in First(jobs[j].todo), Take(j, i, pc),
         pc = "advance" => i \in Handled,
         paid' \subseteq Item, paidAgain' \in 0..MaxPaidAgain,
         UNCHANGED <<source, listed, late, cutOff, checkpoint, stored, kept, discarded>>
  PROVE  IInv'
<1> DEFINE rest == jobs[j].todo \ {i}
           new == [jobs[j] EXCEPT !.pc = pc, !.todo = rest, !.item = {i}]
<1>1. jobs[j] \in JobRecord /\ jobs[j].pc = "next" /\ jobs[j].item = {}
  BY DEF IInv, TypeOK, JobRecord, At, JobOK, OnOneItem
<1>2. jobs' = [jobs EXCEPT ![j] = new]
  BY <1>1 DEF Take, IInv, TypeOK, JobRecord
<1>3. rest \subseteq Item /\ i \in jobs[j].todo /\ jobs[j].todo \subseteq Item
  BY <1>1 DEF JobRecord, First
<1>4. new \in JobRecord /\ jobs'[j] = new
  BY <1>1, <1>2, <1>3 DEF JobRecord, Pcs, IInv, TypeOK
<1>5. new.pc = pc /\ new.todo = rest /\ new.item = {i} /\ new.kind = jobs[j].kind
  BY <1>1 DEF JobRecord
<1>6. Handled' = Handled /\ Open' = Open /\ cutOff' \subseteq Item
  BY DEF Handled, IsStored, Open, IInv, TypeOK
<1>7. Left(j)' = Left(j)
  BY <1>1, <1>3, <1>4, <1>5 DEF Left
<1>8. OnOneItem(j)'
  BY <1>4, <1>5, <1>6 DEF OnOneItem, First
<1>9. Accounted(j) => Accounted(j)'
  BY <1>6, <1>7 DEF Accounted, Tied, Inclusive
<1>10. JobOK(j)'
  BY <1>1, <1>4, <1>5, <1>6, <1>7, <1>8, <1>9 DEF JobOK, IInv
<1> HIDE DEF new
<1> QED
  BY <1>2, <1>4, <1>5, <1>6, <1>10, QuietStep

LEMMA LookPreserves ==
  ASSUME IInv, NEW j \in Job, NEW i \in Item, Look(j, i)
  PROVE  IInv'
<1>1. /\ At(j, "next") /\ i \in First(jobs[j].todo) /\ cutOff' \subseteq Item
      /\ UNCHANGED <<source, listed, late, cutOff, checkpoint, stored, kept, discarded>>
  BY DEF Look, IInv, TypeOK
<1>2. ASSUME PayFor(i) PROVE paid' \subseteq Item /\ paidAgain' \in 0..MaxPaidAgain
  <2>1. MaxPaidAgain \in Nat
    BY BoundsAssumption
  <2> QED
    BY <1>2, <2>1 DEF PayFor, IInv, TypeOK
<1>3. ASSUME UNCHANGED <<paid, paidAgain>>
      PROVE  paid' \subseteq Item /\ paidAgain' \in 0..MaxPaidAgain
  BY <1>3 DEF IInv, TypeOK
<1>4. CASE Exists(i)
  <2>1. i \in Handled
    BY <1>4 DEF Exists, Handled
  <2>2. Take(j, i, "advance") /\ UNCHANGED <<paid, paidAgain>>
    BY <1>4 DEF Look
  <2> QED
    BY <1>1, <1>3, <2>1, <2>2, TakePreserves
<1>5. CASE ~Exists(i)
  <2>1. CallCheapModel(j, i)
    BY <1>5 DEF Look
  <2>2. CASE Take(j, i, "discard") /\ PayFor(i)
    BY <1>1, <1>2, <2>2, TakePreserves
  <2>3. CASE Take(j, i, "keep") /\ PayFor(i)
    BY <1>1, <1>2, <2>3, TakePreserves
  <2>4. CASE /\ jobs' = [jobs EXCEPT ![j] = Idle]
             /\ PayFor(i) \/ UNCHANGED <<paid, paidAgain>>
    <3>1. jobs'[j] = Idle /\ Idle.pc = "idle"
      BY <2>4 DEF IInv, TypeOK, Idle
    <3> QED
      BY <1>1, <1>2, <1>3, <2>4, <3>1, IdleIsOK, QuietStep
  <2> QED
    BY <2>1, <2>2, <2>3, <2>4 DEF CallCheapModel
<1> QED
  BY <1>4, <1>5

\* The job is done, or ends early.
LEMMA EndPreserves ==
  ASSUME IInv, NEW j \in Job, Finish(j) \/ Fail(j)
  PROVE  IInv'
<1>1. /\ jobs' = [jobs EXCEPT ![j] = Idle]
      /\ UNCHANGED <<source, listed, late, cutOff, checkpoint, stored, kept, discarded, paid, paidAgain>>
  BY DEF Finish, Fail
<1>2. jobs'[j] = Idle /\ Idle.pc = "idle"
  BY <1>1 DEF IInv, TypeOK, Idle
<1>3. paid' \subseteq Item /\ paidAgain' \in 0..MaxPaidAgain /\ cutOff' \subseteq Item
  BY <1>1 DEF IInv, TypeOK
<1> QED
  BY <1>1, <1>2, <1>3, IdleIsOK, QuietStep

LEMMA CurrentItem ==
  ASSUME IInv, NEW j \in Job, jobs[j].pc \in {"discard", "keep", "advance"}
  PROVE  /\ Current(j) \in Item /\ Current(j) \in listed
         /\ jobs[j].item = {Current(j)}
         /\ \A k \in jobs[j].todo : Posted[Current(j)] <= Posted[k]
         /\ jobs[j].pc = "advance" => Current(j) \in Handled
<1>1. PICK i \in Item : /\ jobs[j].item = {i}
                        /\ \A k \in jobs[j].todo : Posted[i] <= Posted[k]
                        /\ jobs[j].pc = "advance" => i \in Handled
  BY DEF IInv, JobOK, OnOneItem
<1>2. Current(j) = i
  BY <1>1 DEF Current
<1>3. i \in listed
  BY <1>1 DEF IInv, JobOK, Left
<1> QED
  BY <1>1, <1>2, <1>3

\* An item is finished, and its job may move the checkpoint to it.
LEMMA HandledStep ==
  ASSUME IInv, NEW j \in Job, jobs[j].pc \in {"discard", "keep"}, Goto(j, "advance"),
         Handled' = Handled \cup {Current(j)},
         UNCHANGED <<source, listed, late, cutOff, checkpoint, paid, paidAgain>>,
         stored' \in [Item -> Nat], kept' \in [Item -> Nat], discarded' \subseteq Item,
         StoredOnce'
  PROVE  IInv'
<1> DEFINE new == [jobs[j] EXCEPT !.pc = "advance"]
<1>0. Open' \subseteq Open
  BY DEF Open
<1>1. jobs[j] \in JobRecord /\ jobs' = [jobs EXCEPT ![j] = new]
  BY DEF IInv, TypeOK, JobRecord, Goto
<1>2. new \in JobRecord /\ jobs'[j] = new
  BY <1>1 DEF JobRecord, Pcs, IInv, TypeOK
<1>3. /\ new.pc = "advance" /\ new.item = jobs[j].item /\ new.todo = jobs[j].todo
      /\ new.kind = jobs[j].kind
  BY <1>1 DEF JobRecord
<1> HIDE DEF new
<1>4. \A k \in Job \ {j} : jobs'[k] = jobs[k]
  BY <1>1 DEF IInv, TypeOK
<1>5. \A k \in Job : jobs'[k].pc \in {"discard", "keep", "advance"} => Cardinality(jobs'[k].item) = 1
  BY <1>2, <1>3, <1>4 DEF IInv, TypeOK
<1>6. jobs' \in [Job -> JobRecord]
  BY <1>1, <1>2 DEF IInv, TypeOK, JobRecord
<1>7. TypeOK'
  BY <1>5, <1>6 DEF IInv, TypeOK, JobRecord, Time
<1>8. Left(j)' = Left(j)
  BY <1>2, <1>3 DEF Left
<1>9. OnOneItem(j)'
  BY <1>2, <1>3, CurrentItem DEF OnOneItem
<1>10. Accounted(j) => Accounted(j)'
  BY <1>0, <1>8 DEF Accounted, Tied, Inclusive
<1>11. JobOK(j)'
  BY <1>2, <1>3, <1>8, <1>9, <1>10 DEF JobOK, IInv
<1>12. Reached(checkpoint)' /\ Passed(checkpoint)'
  BY <1>0, PassedSurvives DEF IInv, Reached, Passed
<1>13. Handled' \subseteq listed
  BY CurrentItem DEF IInv
<1> QED
  BY <1>4, <1>7, <1>11, <1>12, <1>13, JobStep

LEMMA DiscardPreserves ==
  ASSUME IInv, NEW j \in Job, Discard(j)
  PROVE  IInv'
<1>1. jobs[j].pc = "discard" /\ Current(j) \in Item
  BY CurrentItem DEF Discard, At
<1>2. Handled' = Handled \cup {Current(j)}
  BY <1>1 DEF Discard, Handled, IsStored
<1>3. StoredOnce'
  BY DEF IInv, StoredOnce, Discard
<1> QED
  BY <1>1, <1>2, <1>3, HandledStep DEF Discard, IInv, TypeOK

LEMMA KeepPreserves ==
  ASSUME IInv, NEW j \in Job, Keep(j)
  PROVE  IInv'
<1> DEFINE c == Current(j)
<1>1. jobs[j].pc = "keep" /\ c \in Item
  BY CurrentItem DEF Keep, At
<1> HIDE DEF c
<1>2. CASE Taken(c)
  <2>1. /\ jobs' = [jobs EXCEPT ![j] = Idle]
        /\ UNCHANGED <<source, listed, late, cutOff, checkpoint, stored, kept, discarded, paid, paidAgain>>
    BY <1>2 DEF Keep, c
  <2>2. jobs'[j] = Idle /\ Idle.pc = "idle"
    BY <2>1 DEF IInv, TypeOK, Idle
  <2>3. paid' \subseteq Item /\ paidAgain' \in 0..MaxPaidAgain /\ cutOff' \subseteq Item
    BY <2>1 DEF IInv, TypeOK
  <2> QED
    BY <2>1, <2>2, <2>3, IdleIsOK, QuietStep
<1>3. CASE ~Taken(c)
  <2>1. /\ stored' = [stored EXCEPT ![c] = @ + 1] /\ kept' = [kept EXCEPT ![c] = @ + 1]
        /\ Goto(j, "advance")
        /\ UNCHANGED <<source, listed, late, cutOff, checkpoint, discarded, paid, paidAgain>>
    BY <1>3 DEF Keep, c
  <2>2. stored \in [Item -> Nat] /\ kept \in [Item -> Nat] /\ stored[c] = 0 /\ kept[c] = 0
    BY <1>1, <1>3 DEF IInv, TypeOK, Taken, IsStored, StoredOnce
  <2>3. stored' \in [Item -> Nat] /\ kept' \in [Item -> Nat] /\ StoredOnce'
    BY <1>1, <2>1, <2>2 DEF IInv, StoredOnce
  <2>4. Handled' = Handled \cup {c}
    <3>1. \A i \in Item : stored'[i] > 0 <=> stored[i] > 0 \/ i = c
      BY <1>1, <2>1, <2>2
    <3> QED
      BY <1>1, <2>1, <3>1 DEF Handled, IsStored
  <2> QED
    BY <1>1, <2>1, <2>3, <2>4, HandledStep DEF c, IInv, TypeOK
<1> QED
  BY <1>2, <1>3

\* The checkpoint moves, on or back: whatever is open and as old as the
\* finished item shares its instant.
LEMMA AdvancePreserves ==
  ASSUME IInv, NEW j \in Job, Advance(j)
  PROVE  IInv'
<1> DEFINE c == Current(j)
           new == [jobs[j] EXCEPT !.pc = "next", !.item = {}]
<1>1. jobs[j].pc = "advance" /\ jobs[j] \in JobRecord
  BY DEF Advance, At, IInv, TypeOK, JobRecord
<1>2. /\ c \in Item /\ c \in Handled /\ jobs[j].item = {c}
      /\ \A k \in jobs[j].todo : Posted[c] <= Posted[k]
  BY <1>1, CurrentItem
<1>3. /\ UNCHANGED <<source, listed, late, cutOff, stored, kept, discarded, paid, paidAgain>>
      /\ Handled' = Handled /\ Open' = Open
  BY DEF Advance, Handled, IsStored, Open
<1>4. jobs' = [jobs EXCEPT ![j] = new]
  BY <1>1 DEF Advance, IInv, TypeOK, JobRecord
<1>5. new \in JobRecord /\ jobs'[j] = new
  BY <1>1, <1>4 DEF JobRecord, Pcs, IInv, TypeOK
<1>6. /\ new.pc = "next" /\ new.item = {} /\ new.todo = jobs[j].todo
      /\ new.kind = jobs[j].kind
  BY <1>1 DEF JobRecord
<1>7. checkpoint' = IF jobs[j].kind = "ingest" THEN Posted[c] ELSE checkpoint
  BY DEF Advance, Saved
<1> HIDE DEF new, c
<1>8. \A k \in Job \ {j} : jobs'[k] = jobs[k]
  BY <1>4 DEF IInv, TypeOK
<1>9. \A k \in Job : jobs'[k].pc \in {"discard", "keep", "advance"} => Cardinality(jobs'[k].item) = 1
  BY <1>5, <1>6, <1>8 DEF IInv, TypeOK
<1>10. jobs' \in [Job -> JobRecord] /\ checkpoint' \in Time
  BY <1>2, <1>4, <1>5, <1>7 DEF IInv, TypeOK, JobRecord, Time
<1>11. TypeOK' /\ StoredOnce'
  BY <1>3, <1>9, <1>10 DEF IInv, TypeOK, StoredOnce, JobRecord, Time
<1>12. Left(j)' = jobs[j].todo /\ Left(j) = jobs[j].todo \cup {c}
  BY <1>2, <1>5, <1>6 DEF Left
<1>13. Accounted(j) => Accounted(j)'
  <2>1. c \notin Open
    BY <1>2 DEF Open
  <2> QED
    BY <2>1, <1>2, <1>3, <1>12 DEF Accounted, Tied, Inclusive
<1>14. JobOK(j)'
  BY <1>1, <1>3, <1>5, <1>6, <1>12, <1>13 DEF JobOK, OnOneItem, IInv
<1>15. Reached(checkpoint)' /\ Passed(checkpoint)'
  <2>1. CASE jobs[j].kind = "ingest"
    <3>1. Accounted(j)
      BY <1>1, <2>1 DEF IInv, JobOK
    <3>2. ASSUME NEW i \in Open, Posted[i] <= Posted[c]
          PROVE  Posted[i] = Posted[c] \/ Tied(i)
      <4>1. Posted[i] \in Nat /\ Posted[c] \in Nat
        BY <1>2, PostedAssumption DEF IInv, TypeOK, Open
      <4>2. i \in jobs[j].todo \/ Tied(i) \/ Posted[c] <= Posted[i]
        BY <1>2, <1>12, <3>1 DEF Accounted, Open
      <4> QED
        BY <1>2, <3>2, <4>1, <4>2
    <3>3. Passed(checkpoint)'
      BY <1>2, <1>3, <1>7, <2>1, <3>2 DEF Passed, Tied, Inclusive
    <3> QED
      BY <1>2, <1>3, <1>7, <2>1, <3>3 DEF Reached
  <2>2. CASE jobs[j].kind # "ingest"
    BY <1>3, <1>7, <2>2 DEF IInv, Reached, Passed, Inclusive
  <2> QED
    BY <2>1, <2>2
<1> QED
  BY <1>3, <1>8, <1>11, <1>14, <1>15, JobStep DEF IInv

-----------------------------------------------------------------------------
(* Payments.  When nothing overlaps a failure leaves at most one item that *)
(* is paid for and will be taken again; every repeated payment is for one  *)
(* of these.                                                               *)

\* A job that runs alone has only items in front of the checkpoint.
Orderly(j) ==
  /\ At(j, "idle") => jobs[j] = Idle
  /\ jobs[j].kind = "ingest"
  /\ At(j, "fetch") => jobs[j].since = checkpoint /\ jobs[j].todo = {}
  /\ jobs[j].item \cap jobs[j].todo = {}
  /\ \A i \in Left(j) : checkpoint <= Posted[i]

OneIngest ==
  /\ \A j, k \in Job : ~At(j, "idle") /\ ~At(k, "idle") => j = k
  /\ \A j \in Job : Orderly(j)

\* Paid for, neither stored nor being worked on, and still to be fetched.
Repayable ==
  {i \in paid : /\ ~IsStored(i)
                /\ \A j \in Job : i \notin jobs[j].item
                /\ checkpoint < Posted[i] \/ \E j \in Job : i \in jobs[j].todo}

Payments ==
  /\ failures \in Nat /\ extras \in Nat /\ IsFiniteSet(paid)
  /\ ~Inclusive /\ extras = 0 =>
       /\ OneIngest
       /\ Cardinality(Repayable) + paidAgain <= failures

\* How many items are paid for and lost, before and after a step.
LEMMA Counts ==
  ASSUME NEW S, IsFiniteSet(S), NEW T
  PROVE  /\ Cardinality(S) \in Nat
         /\ T \subseteq S => Cardinality(T) \in Nat /\ Cardinality(T) <= Cardinality(S)
         /\ \A x : T \subseteq S \cup {x} => Cardinality(T) \in Nat /\ Cardinality(T) <= Cardinality(S) + 1
         /\ \A x \in S : T \subseteq S \ {x} => Cardinality(T) \in Nat /\ Cardinality(T) + 1 <= Cardinality(S)
<1>1. Cardinality(S) \in Nat
  BY FS_CardinalityType
<1>2. ASSUME T \subseteq S PROVE Cardinality(T) \in Nat /\ Cardinality(T) <= Cardinality(S)
  BY <1>2, FS_Subset, FS_CardinalityType
<1>3. ASSUME NEW x, T \subseteq S \cup {x}
      PROVE  Cardinality(T) \in Nat /\ Cardinality(T) <= Cardinality(S) + 1
  <2>1. /\ IsFiniteSet(S \cup {x})
        /\ Cardinality(S \cup {x}) = Cardinality(S) \/ Cardinality(S \cup {x}) = Cardinality(S) + 1
    BY FS_AddElement
  <2>2. Cardinality(T) \in Nat /\ Cardinality(T) <= Cardinality(S \cup {x})
    BY <1>3, <2>1, FS_Subset, FS_CardinalityType
  <2> QED
    BY <1>1, <2>1, <2>2
<1>4. ASSUME NEW x \in S, T \subseteq S \ {x}
      PROVE  Cardinality(T) \in Nat /\ Cardinality(T) + 1 <= Cardinality(S)
  <2>1. IsFiniteSet(S \ {x}) /\ Cardinality(S \ {x}) = Cardinality(S) - 1
    BY FS_RemoveElement
  <2>2. Cardinality(T) \in Nat /\ Cardinality(T) <= Cardinality(S \ {x})
    BY <1>4, <2>1, FS_Subset, FS_CardinalityType
  <2> QED
    BY <1>1, <2>1, <2>2
<1> QED
  BY <1>1, <1>2, <1>3, <1>4

LEMMA IdleIsEmpty ==
  Idle.pc = "idle" /\ Idle.kind = "ingest" /\ Idle.todo = {} /\ Idle.item = {}
BY DEF Idle

\* A step of the only job there is.
LEMMA LoneStep ==
  ASSUME NEW j \in Job, OneIngest,
         ~At(j, "idle") \/ \A k \in Job : At(k, "idle"),
         \A k \in Job \ {j} : jobs'[k] = jobs[k],
         Orderly(j)'
  PROVE  /\ OneIngest'
         /\ \A i : i \in Repayable <=>
              /\ i \in paid /\ ~IsStored(i) /\ i \notin jobs[j].item
              /\ checkpoint < Posted[i] \/ i \in jobs[j].todo
         /\ \A i : i \in Repayable' <=>
              /\ i \in paid' /\ ~IsStored(i)' /\ i \notin jobs'[j].item
              /\ checkpoint' < Posted[i] \/ i \in jobs'[j].todo
<1>1. \A k \in Job \ {j} : At(k, "idle") /\ jobs[k] = Idle
  BY DEF OneIngest, Orderly
<1>2. \A k \in Job \ {j} : jobs[k].item = {} /\ jobs[k].todo = {} /\ jobs'[k] = Idle
  BY <1>1, IdleIsEmpty
<1>3. \A k \in Job \ {j} : Orderly(k)' /\ At(k, "idle")'
  BY <1>2, IdleIsEmpty DEF Orderly, At, Left
<1>4. OneIngest'
  BY <1>3 DEF OneIngest
<1>5. \A k \in Job \ {j} : jobs'[k].item = {} /\ jobs'[k].todo = {}
  BY <1>2, IdleIsEmpty
<1>6. \A i : i \in Repayable <=>
        /\ i \in paid /\ ~IsStored(i) /\ i \notin jobs[j].item
        /\ checkpoint < Posted[i] \/ i \in jobs[j].todo
  BY <1>2 DEF Repayable
<1>7. \A i : i \in Repayable' <=>
        /\ i \in paid' /\ ~IsStored(i)' /\ i \notin jobs'[j].item
        /\ checkpoint' < Posted[i] \/ i \in jobs'[j].todo
  BY <1>5 DEF Repayable
<1> QED
  BY <1>4, <1>6, <1>7

\* Enough is known after a step that leaves nothing, one item or one item
\* less to be paid for again.
LEMMA Balance ==
  ASSUME Payments, TypeOK, ~Inclusive, extras = 0, OneIngest', source' = source,
         extras' \in Nat, failures' \in Nat, IsFiniteSet(paid'), paidAgain' \in Nat,
         \/ Repayable' \subseteq Repayable /\ paidAgain' = paidAgain /\ failures <= failures'
         \/ /\ \E i : Repayable' \subseteq Repayable \cup {i}
            /\ paidAgain' = paidAgain /\ failures' = failures + 1
         \/ /\ Repayable' \subseteq Repayable
            /\ paidAgain' <= paidAgain + 1 /\ failures' = failures + 1
         \/ /\ \E i \in Repayable : Repayable' \subseteq Repayable \ {i}
            /\ paidAgain' <= paidAgain + 1 /\ failures' = failures
  PROVE  Payments'
<1>1. IsFiniteSet(Repayable)
  <2>1. Repayable \subseteq paid
    BY DEF Repayable
  <2> QED
    BY <2>1, FS_Subset DEF Payments
<1>2. /\ failures \in Nat /\ paidAgain \in Nat /\ Cardinality(Repayable) \in Nat
      /\ Cardinality(Repayable) + paidAgain <= failures
  BY <1>1, BoundsAssumption, Counts DEF Payments, TypeOK
<1> DEFINE n == Cardinality(Repayable)
           m == Cardinality(Repayable')
<1>3. \/ m \in Nat /\ m <= n /\ paidAgain' = paidAgain /\ failures <= failures'
      \/ m \in Nat /\ m <= n + 1 /\ paidAgain' = paidAgain /\ failures' = failures + 1
      \/ m \in Nat /\ m <= n /\ paidAgain' <= paidAgain + 1 /\ failures' = failures + 1
      \/ m \in Nat /\ m + 1 <= n /\ paidAgain' <= paidAgain + 1 /\ failures' = failures
  BY <1>1, Counts
<1> HIDE DEF n, m
<1>4. m + paidAgain' <= failures'
  BY <1>2, <1>3 DEF n
<1>5. Cardinality(Repayable)' = m
  BY DEF m
<1> QED
  BY <1>4, <1>5 DEF Payments

\* A call of the classifier is paid for or not.
LEMMA Paying ==
  ASSUME IInv, Payments, NEW i \in Item, PayFor(i) \/ UNCHANGED <<paid, paidAgain>>
  PROVE  /\ IsFiniteSet(paid') /\ paidAgain' \in Nat /\ paid' \subseteq paid \cup {i}
         /\ paidAgain' <= paidAgain + 1
         /\ i \notin paid => paidAgain' = paidAgain
<1>1. paidAgain \in Nat /\ MaxPaidAgain \in Nat /\ IsFiniteSet(paid)
  BY BoundsAssumption DEF IInv, TypeOK, Payments
<1>2. IsFiniteSet(paid \cup {i})
  BY <1>1, FS_AddElement
<1> QED
  BY <1>1, <1>2 DEF PayFor

LEMMA Bookkeeping ==
  ASSUME IInv, Payments, [Next]_vars
  PROVE  /\ failures' \in Nat /\ extras' \in Nat /\ IsFiniteSet(paid') /\ paidAgain' \in Nat
         /\ source' = source /\ (extras' = 0 => extras = 0)
<1>1. /\ failures \in Nat /\ extras \in Nat /\ IsFiniteSet(paid) /\ paidAgain \in Nat
  BY BoundsAssumption DEF IInv, TypeOK, Payments
<1>2. ASSUME NEW j \in Job, NEW i \in Item, Look(j, i)
      PROVE  /\ failures' \in Nat /\ extras' = extras /\ IsFiniteSet(paid') /\ paidAgain' \in Nat
             /\ source' = source
  <2>1. PayFor(i) \/ UNCHANGED <<paid, paidAgain>>
    BY <1>2 DEF Look, CallCheapModel
  <2>2. failures' \in Nat /\ extras' = extras /\ source' = source
    BY <1>1, <1>2 DEF Look, CallCheapModel
  <2> QED
    BY <2>1, <2>2, Paying
<1>3. ASSUME NEW j \in Job, StartIngest(j) \/ \E since \in Time : StartBackfill(j, since)
      PROVE  /\ extras' \in Nat /\ (extras' = 0 => extras = 0)
             /\ UNCHANGED <<failures, paid, paidAgain, source>>
  <2>1. /\ UNCHANGED <<failures, paid, paidAgain, source>>
        /\ Extra("ingest") \/ Extra("backfill")
    BY <1>3 DEF StartIngest, StartBackfill
  <2>2. extras' = extras \/ extras' = extras + 1
    BY <2>1 DEF Extra
  <2> QED
    BY <1>1, <2>1, <2>2
<1>4. ASSUME NEW j \in Job, Fail(j)
      PROVE  failures' \in Nat /\ UNCHANGED <<extras, paid, paidAgain, source>>
  BY <1>1, <1>4 DEF Fail
<1>5. ASSUME \/ \E i \in Item : Publish(i)
             \/ \E j \in Job : Fetch(j) \/ Discard(j) \/ Keep(j) \/ Advance(j) \/ Finish(j)
             \/ UNCHANGED vars
      PROVE  UNCHANGED <<failures, extras, paid, paidAgain, source>>
  BY <1>5 DEF Publish, Fetch, Discard, Keep, Advance, Finish, vars
<1> QED
  BY <1>1, <1>2, <1>3, <1>4, <1>5 DEF Next, GoOn

\* Nobody else works on anything, and nothing that is left is finished.
LEMMA QuietPayments ==
  ASSUME IInv, Payments, ~Inclusive, extras = 0, extras' = 0, NEW j \in Job,
         StartIngest(j) \/ Fetch(j) \/ Discard(j) \/ Finish(j)
  PROVE  Payments'
<1>1. OneIngest /\ Orderly(j) /\ Next
  BY DEF Payments, OneIngest, Next, GoOn
<1>2. /\ UNCHANGED <<source, checkpoint, stored, paid, paidAgain, failures>>
      /\ \A k \in Job \ {j} : jobs'[k] = jobs[k]
      /\ ~At(j, "idle") \/ \A k \in Job : At(k, "idle")
      /\ jobs[j] \in JobRecord
  <2>1. jobs \in [Job -> JobRecord]
    BY DEF IInv, TypeOK, JobRecord
  <2>2. StartIngest(j) => \A k \in Job : At(k, "idle")
    BY DEF StartIngest, Extra
  <2> QED
    BY <2>1, <2>2 DEF StartIngest, Fetch, Discard, Goto, Finish, At
<1>3. \A i : IsStored(i)' <=> IsStored(i)
  BY <1>2 DEF IsStored
<1>4. checkpoint \in Nat
  BY PostedAssumption DEF IInv, TypeOK, Time
<1>5. /\ Orderly(j)'
      /\ \A i : i \in jobs'[j].todo => checkpoint < Posted[i] \/ i \in jobs[j].todo
      /\ \A i : i \in jobs[j].item => i \in jobs'[j].item
  <2>1. CASE StartIngest(j)
    <3>1. /\ jobs'[j].pc = "fetch" /\ jobs'[j].kind = "ingest" /\ jobs'[j].since = checkpoint
          /\ jobs'[j].todo = {} /\ jobs'[j].item = {} /\ jobs[j].item = {}
      BY <1>1, <2>1, IdleIsEmpty DEF StartIngest, IInv, TypeOK, Idle, Orderly, At
    <3> QED
      BY <1>2, <3>1 DEF Orderly, At, Left
  <2>2. CASE Fetch(j)
    <3>1. At(j, "fetch") /\ jobs[j].since = checkpoint /\ jobs[j].item = {}
      BY <1>1, <2>2 DEF Fetch, Orderly, IInv, JobOK, OnOneItem, At
    <3>2. Fetched(checkpoint) = {i \in listed : Posted[i] > checkpoint}
      BY SourceAssumption DEF IInv, TypeOK, Fetched, Inclusive, HackerNewsItems, GitHubItems
    <3>3. /\ jobs'[j].pc = "next" /\ jobs'[j].kind = "ingest" /\ jobs'[j].item = {}
          /\ jobs'[j].todo \subseteq Fetched(checkpoint)
      <4>1. PICK got \in Pages(Fetched(checkpoint)) :
              jobs' = [jobs EXCEPT ![j].pc = "next", ![j].since = 0, ![j].known = {},
                                   ![j].todo = got \ jobs[j].known]
        BY <2>2, <3>1 DEF Fetch
      <4>2. got \subseteq Fetched(checkpoint)
        BY <4>1 DEF Pages
      <4>3. jobs[j].kind = "ingest" /\ jobs \in [Job -> JobRecord]
        BY <1>1 DEF Orderly, IInv, TypeOK, JobRecord
      <4> QED
        BY <3>1, <4>1, <4>2, <4>3 DEF JobRecord
    <3>4. \A i \in jobs'[j].todo : i \in listed /\ checkpoint < Posted[i]
      BY <3>2, <3>3, <1>4, PostedAssumption DEF IInv, TypeOK
    <3>5. \A i \in jobs'[j].todo : checkpoint <= Posted[i]
      BY <1>4, <3>4, PostedAssumption DEF IInv, TypeOK
    <3> QED
      BY <1>2, <3>1, <3>3, <3>4, <3>5 DEF Orderly, At, Left
  <2>3. CASE Discard(j)
    <3>1. /\ jobs'[j].pc = "advance" /\ jobs'[j].kind = jobs[j].kind
          /\ jobs'[j].todo = jobs[j].todo /\ jobs'[j].item = jobs[j].item
      BY <1>2, <2>3 DEF Discard, Goto, IInv, TypeOK, JobRecord
    <3> QED
      BY <1>1, <1>2, <3>1 DEF Orderly, At, Left
  <2>4. CASE Finish(j)
    <3>1. jobs'[j] = Idle
      BY <2>4 DEF Finish, IInv, TypeOK
    <3>2. jobs[j].item = {}
      BY <2>4 DEF Finish, IInv, JobOK, OnOneItem, At
    <3> QED
      BY <3>1, <3>2, IdleIsEmpty DEF Orderly, At, Left
  <2> QED
    BY <2>1, <2>2, <2>3, <2>4
<1>6. OneIngest' /\ Repayable' \subseteq Repayable
  BY <1>1, <1>2, <1>3, <1>5, LoneStep
<1>7. failures <= failures'
  BY <1>2 DEF Payments
<1> QED
  BY <1>1, <1>2, <1>6, <1>7, Bookkeeping, Balance DEF IInv

\* The classifier is called for an item that is not stored, and it answers,
\* raises, or the item turns out to exist.
LEMMA LookPays ==
  ASSUME IInv, Payments, ~Inclusive, extras = 0, extras' = 0, NEW j \in Job, NEW i \in Item,
         Look(j, i)
  PROVE  Payments'
<1>1. /\ OneIngest /\ Orderly(j) /\ Next
      /\ At(j, "next") /\ ~At(j, "idle") /\ jobs[j] \in JobRecord /\ jobs \in [Job -> JobRecord]
      /\ i \in jobs[j].todo /\ jobs[j].item = {} /\ jobs[j].kind = "ingest"
      /\ UNCHANGED <<source, checkpoint, stored>>
  BY DEF Payments, OneIngest, Orderly, Next, GoOn, Look, First, At, IInv, TypeOK, JobRecord,
         JobOK, OnOneItem
<1>2. \A k : IsStored(k)' <=> IsStored(k)
  BY <1>1 DEF IsStored
<1>3. \A k \in jobs[j].todo : checkpoint <= Posted[k]
  BY <1>1 DEF Orderly, Left
<1>4. failures \in Nat /\ paidAgain \in Nat /\ TypeOK
  BY BoundsAssumption DEF Payments, IInv, TypeOK
<1>5. ASSUME NEW pc \in {"discard", "keep", "advance"}, Take(j, i, pc)
      PROVE  /\ \A k \in Job \ {j} : jobs'[k] = jobs[k]
             /\ jobs'[j].item = {i} /\ jobs'[j].todo = jobs[j].todo \ {i}
             /\ Orderly(j)'
  <2>1. /\ jobs'[j].pc = pc /\ jobs'[j].kind = "ingest"
        /\ jobs'[j].item = {i} /\ jobs'[j].todo = jobs[j].todo \ {i}
        /\ \A k \in Job \ {j} : jobs'[k] = jobs[k]
    BY <1>1, <1>5 DEF Take, JobRecord
  <2> QED
    BY <1>1, <1>3, <2>1 DEF Orderly, At, Left
<1>6. CASE Take(j, i, "advance") /\ UNCHANGED <<paid, paidAgain, failures>>
  <2>1. OneIngest' /\ Repayable' \subseteq Repayable
    BY <1>1, <1>2, <1>5, <1>6, LoneStep
  <2>2. failures <= failures'
    BY <1>4, <1>6
  <2> QED
    BY <1>1, <1>4, <1>6, <2>1, <2>2, Bookkeeping, Balance
<1>7. CASE ~Exists(i) /\ (Take(j, i, "discard") \/ Take(j, i, "keep")) /\ PayFor(i) /\ failures' = failures
  <2>1. paid' = paid \cup {i} /\ ~IsStored(i)
    BY <1>7 DEF PayFor, Exists
  <2>2. /\ OneIngest'
        /\ \A k : k \in Repayable <=>
             /\ k \in paid /\ ~IsStored(k)
             /\ checkpoint < Posted[k] \/ k \in jobs[j].todo
        /\ \A k : k \in Repayable' <=>
             /\ k \in paid' /\ ~IsStored(k) /\ k # i
             /\ checkpoint < Posted[k] \/ k \in jobs[j].todo
    <3>1. /\ OneIngest'
          /\ \A k : k \in Repayable <=>
               /\ k \in paid /\ ~IsStored(k) /\ k \notin jobs[j].item
               /\ checkpoint < Posted[k] \/ k \in jobs[j].todo
          /\ \A k : k \in Repayable' <=>
               /\ k \in paid' /\ ~IsStored(k)' /\ k \notin jobs'[j].item
               /\ checkpoint' < Posted[k] \/ k \in jobs'[j].todo
      BY <1>1, <1>5, <1>7, LoneStep
    <3>2. jobs'[j].item = {i} /\ jobs'[j].todo = jobs[j].todo \ {i}
      BY <1>5, <1>7
    <3> QED
      BY <1>1, <1>2, <3>1, <3>2
  <2>3. CASE i \in paid
    <3>1. i \in Repayable /\ Repayable' \subseteq Repayable \ {i}
      BY <1>1, <2>1, <2>2, <2>3
    <3>2. paidAgain' <= paidAgain + 1
      BY <1>7, Paying
    <3> QED
      BY <1>1, <1>4, <1>7, <2>2, <3>1, <3>2, Bookkeeping, Balance
  <2>4. CASE i \notin paid
    <3>1. Repayable' \subseteq Repayable
      BY <2>1, <2>2
    <3>2. paidAgain' = paidAgain /\ failures <= failures'
      BY <1>4, <1>7, <2>4, Paying
    <3> QED
      BY <1>1, <1>4, <2>2, <3>1, <3>2, Bookkeeping, Balance
  <2> QED
    BY <2>3, <2>4
<1>8. CASE /\ ~Exists(i) /\ failures' = failures + 1 /\ jobs' = [jobs EXCEPT ![j] = Idle]
           /\ PayFor(i) \/ UNCHANGED <<paid, paidAgain>>
  <2>1. jobs'[j] = Idle /\ \A k \in Job \ {j} : jobs'[k] = jobs[k]
    BY <1>1, <1>8
  <2>2. Orderly(j)' /\ jobs'[j].item = {} /\ jobs'[j].todo = {}
    BY <2>1, IdleIsEmpty DEF Orderly, At, Left
  <2>3. paid' \subseteq paid \cup {i} /\ paidAgain' <= paidAgain + 1
    BY <1>8, Paying
  <2>4. /\ OneIngest'
        /\ \A k : k \in Repayable <=>
             /\ k \in paid /\ ~IsStored(k) /\ k \notin jobs[j].item
             /\ checkpoint < Posted[k] \/ k \in jobs[j].todo
        /\ \A k : k \in Repayable' <=>
             /\ k \in paid' /\ ~IsStored(k)' /\ k \notin jobs'[j].item
             /\ checkpoint' < Posted[k] \/ k \in jobs'[j].todo
    BY <1>1, <2>1, <2>2, LoneStep
  <2>5. Repayable' \subseteq Repayable \cup {i}
    BY <1>1, <1>2, <2>2, <2>3, <2>4
  <2>6. CASE i \in paid
    <3>1. Repayable' \subseteq Repayable
      BY <1>1, <1>2, <1>8, <2>4, <2>5, <2>6 DEF Exists
    <3> QED
      BY <1>1, <1>4, <1>8, <2>3, <2>4, <3>1, Bookkeeping, Balance
  <2>7. CASE i \notin paid
    <3>1. paidAgain' = paidAgain
      BY <1>8, <2>7, Paying
    <3> QED
      BY <1>1, <1>4, <1>8, <2>4, <2>5, <3>1, Bookkeeping, Balance
  <2> QED
    BY <2>6, <2>7
<1> QED
  BY <1>6, <1>7, <1>8 DEF Look, CallCheapModel

\* An item is stored, or turns out to be; the checkpoint moves to it; or the
\* job dies with it.
LEMMA ItemPayments ==
  ASSUME IInv, Payments, ~Inclusive, extras = 0, extras' = 0, NEW j \in Job,
         Keep(j) \/ Advance(j) \/ Fail(j)
  PROVE  Payments'
<1>1. /\ OneIngest /\ Orderly(j) /\ Next
      /\ ~At(j, "idle") /\ jobs[j] \in JobRecord /\ jobs \in [Job -> JobRecord]
      /\ jobs[j].kind = "ingest" /\ stored \in [Item -> Nat]
      /\ UNCHANGED <<source, paid, paidAgain>>
      /\ TypeOK
  BY DEF Payments, OneIngest, Orderly, Next, GoOn, Keep, Advance, Fail, At, IInv, TypeOK, JobRecord
<1>2. failures \in Nat /\ checkpoint \in Nat
  BY PostedAssumption DEF Payments, IInv, TypeOK, Time
<1>3. CASE Keep(j)
  <2> DEFINE c == Current(j)
  <2>1. At(j, "keep") /\ jobs[j].item = {c} /\ c \in Item
    BY <1>3, CurrentItem DEF Keep, At
  <2>2. /\ UNCHANGED <<checkpoint, failures>>
        /\ \/ Taken(c) /\ jobs' = [jobs EXCEPT ![j] = Idle] /\ stored' = stored
           \/ stored' = [stored EXCEPT ![c] = @ + 1] /\ Goto(j, "advance")
    BY <1>3 DEF Keep
  <2> HIDE DEF c
  <2>3. stored' \in [Item -> Nat] /\ \A k \in Item : IsStored(k)' <=> IsStored(k) \/ k = c
    BY <1>1, <2>1, <2>2 DEF IsStored, Taken
  <2>4. /\ \A k \in Job \ {j} : jobs'[k] = jobs[k]
        /\ Orderly(j)' /\ jobs'[j].todo \subseteq jobs[j].todo
        /\ jobs'[j].item \in {{}, {c}}
    <3>1. CASE jobs' = [jobs EXCEPT ![j] = Idle]
      <4>1. jobs'[j] = Idle /\ \A k \in Job \ {j} : jobs'[k] = jobs[k]
        BY <1>1, <3>1
      <4> QED
        BY <4>1, IdleIsEmpty DEF Orderly, At, Left
    <3>2. CASE Goto(j, "advance")
      <4>1. /\ jobs'[j].pc = "advance" /\ jobs'[j].kind = jobs[j].kind
            /\ jobs'[j].todo = jobs[j].todo /\ jobs'[j].item = jobs[j].item
            /\ \A k \in Job \ {j} : jobs'[k] = jobs[k]
        BY <1>1, <3>2 DEF Goto, JobRecord
      <4> QED
        BY <1>1, <2>1, <2>2, <4>1 DEF Orderly, At, Left
    <3> QED
      BY <2>2, <3>1, <3>2
  <2>5. OneIngest' /\ Repayable' \subseteq Repayable
    <3>1. /\ OneIngest'
          /\ \A k : k \in Repayable <=>
               /\ k \in paid /\ ~IsStored(k) /\ k \notin jobs[j].item
               /\ checkpoint < Posted[k] \/ k \in jobs[j].todo
          /\ \A k : k \in Repayable' <=>
               /\ k \in paid' /\ ~IsStored(k)' /\ k \notin jobs'[j].item
               /\ checkpoint' < Posted[k] \/ k \in jobs'[j].todo
      BY <1>1, <2>4, LoneStep
    <3>2. paid \subseteq Item
      BY <1>1 DEF TypeOK
    <3> QED
      BY <1>1, <2>1, <2>2, <2>3, <2>4, <3>1, <3>2
  <2>6. failures <= failures'
    BY <1>2, <2>2
  <2> QED
    BY <1>1, <2>5, <2>6, Bookkeeping, Balance
<1>4. CASE Advance(j)
  <2> DEFINE c == Current(j)
  <2>1. /\ At(j, "advance") /\ jobs[j].item = {c} /\ c \in Item
        /\ \A k \in jobs[j].todo : Posted[c] <= Posted[k]
    BY <1>4, CurrentItem DEF Advance, At
  <2>2. /\ checkpoint' = Posted[c] /\ UNCHANGED <<stored, failures>>
        /\ jobs' = [jobs EXCEPT ![j].pc = "next", ![j].item = {}]
    BY <1>1, <1>4 DEF Advance, Saved
  <2> HIDE DEF c
  <2>3. /\ jobs'[j].pc = "next" /\ jobs'[j].kind = "ingest"
        /\ jobs'[j].todo = jobs[j].todo /\ jobs'[j].item = {}
        /\ \A k \in Job \ {j} : jobs'[k] = jobs[k]
    BY <1>1, <2>2 DEF JobRecord
  <2>4. checkpoint <= Posted[c] /\ Posted[c] \in Nat /\ c \notin jobs[j].todo
    BY <1>1, <2>1, PostedAssumption DEF Orderly, Left
  <2>5. Orderly(j)'
    BY <2>1, <2>2, <2>3 DEF Orderly, At, Left
  <2>6. /\ OneIngest'
        /\ \A k : k \in Repayable <=>
             /\ k \in paid /\ ~IsStored(k) /\ k \notin jobs[j].item
             /\ checkpoint < Posted[k] \/ k \in jobs[j].todo
        /\ \A k : k \in Repayable' <=>
             /\ k \in paid' /\ ~IsStored(k)' /\ k \notin jobs'[j].item
             /\ checkpoint' < Posted[k] \/ k \in jobs'[j].todo
    BY <1>1, <2>3, <2>5, LoneStep
  <2>7. Repayable' \subseteq Repayable
    <3> SUFFICES ASSUME NEW k \in Repayable' PROVE k \in Repayable
      OBVIOUS
    <3>1. /\ k \in paid /\ ~IsStored(k) /\ k \in Item
          /\ Posted[c] < Posted[k] \/ k \in jobs[j].todo
      BY <1>1, <2>2, <2>3, <2>6 DEF IsStored, TypeOK
    <3>2. Posted[k] \in Nat
      BY <3>1, PostedAssumption
    <3>3. k \notin jobs[j].item
      BY <2>1, <2>4, <3>1, <3>2
    <3>4. Posted[c] < Posted[k] => checkpoint < Posted[k]
      BY <1>2, <2>4, <3>2
    <3> QED
      BY <2>6, <3>1, <3>3, <3>4
  <2>8. failures <= failures'
    BY <1>2, <2>2
  <2> QED
    BY <1>1, <2>6, <2>7, <2>8, Bookkeeping, Balance
<1>5. CASE Fail(j)
  <2>1. /\ UNCHANGED <<checkpoint, stored>> /\ failures' = failures + 1
        /\ jobs'[j] = Idle /\ \A k \in Job \ {j} : jobs'[k] = jobs[k]
    BY <1>1, <1>5 DEF Fail
  <2>2. Orderly(j)' /\ jobs'[j].item = {} /\ jobs'[j].todo = {}
    BY <2>1, IdleIsEmpty DEF Orderly, At, Left
  <2>3. \E i : jobs[j].item \subseteq {i}
    BY DEF IInv, JobOK, OnOneItem
  <2>4. /\ OneIngest'
        /\ \A k : k \in Repayable <=>
             /\ k \in paid /\ ~IsStored(k) /\ k \notin jobs[j].item
             /\ checkpoint < Posted[k] \/ k \in jobs[j].todo
        /\ \A k : k \in Repayable' <=>
             /\ k \in paid' /\ ~IsStored(k)' /\ k \notin jobs'[j].item
             /\ checkpoint' < Posted[k] \/ k \in jobs'[j].todo
    BY <1>1, <2>1, <2>2, LoneStep
  <2>5. Repayable' \subseteq Repayable \cup jobs[j].item
    BY <1>1, <2>1, <2>2, <2>4 DEF IsStored
  <2>6. \E i : Repayable' \subseteq Repayable \cup {i}
    BY <2>3, <2>5
  <2> QED
    BY <1>1, <2>1, <2>4, <2>6, Bookkeeping, Balance
<1> QED
  BY <1>3, <1>4, <1>5

\* What is published has not been paid for.
LEMMA PublishPays ==
  ASSUME Payments, (\E i \in Item : Publish(i)) \/ UNCHANGED vars
  PROVE  Payments'
<1>1. UNCHANGED <<source, checkpoint, stored, paid, paidAgain, jobs, failures, extras>>
  BY DEF Publish, vars
<1>2. OneIngest' <=> OneIngest
  BY <1>1 DEF OneIngest, Orderly, At, Left
<1>3. Repayable' = Repayable
  BY <1>1 DEF Repayable, IsStored
<1> QED
  BY <1>1, <1>2, <1>3 DEF Payments, Inclusive

LEMMA PaymentsInv == IInv /\ Payments /\ [Next]_vars => Payments'
<1> SUFFICES ASSUME IInv, Payments, [Next]_vars PROVE Payments'
  OBVIOUS
<1>1. CASE ~Inclusive /\ extras' = 0
  <2>1. extras = 0
    BY <1>1, Bookkeeping
  <2>2. ASSUME NEW j \in Job, NEW since \in Time, StartBackfill(j, since) PROVE FALSE
    <3>1. extras' = extras + 1
      BY <2>2 DEF StartBackfill, Extra
    <3> QED
      BY <1>1, <2>1, <3>1
  <2> QED
    BY <1>1, <2>1, <2>2, PublishPays, QuietPayments, LookPays, ItemPayments DEF Next, GoOn
<1>2. CASE ~(~Inclusive /\ extras' = 0)
  BY <1>2, Bookkeeping DEF Payments, Inclusive
<1> QED
  BY <1>1, <1>2

-----------------------------------------------------------------------------
(* The theorems                                                            *)

LEMMA InitInv == Init => IInv
<1> SUFFICES ASSUME Init PROVE IInv
  OBVIOUS
<1>1. Handled = {}
  BY DEF Init, Handled, IsStored
<1>2. \A j \in Job : jobs[j] = Idle /\ Idle \in JobRecord
  BY DEF Init, Idle, JobRecord, Pcs, Time
<1>3. \A j \in Job : JobOK(j)
  BY <1>2 DEF JobOK, OnOneItem, Left, Idle
<1>4. jobs \in [Job -> JobRecord]
  BY <1>2 DEF Init
<1>5. TypeOK
  BY <1>2, <1>4, BoundsAssumption DEF Init, TypeOK, Time, JobRecord, Idle
<1> QED
  BY <1>1, <1>3, <1>5 DEF IInv, Init, StoredOnce, Reached, Passed, Open

LEMMA NextInv == IInv /\ [Next]_vars => IInv'
<1> SUFFICES ASSUME IInv, [Next]_vars PROVE IInv'
  OBVIOUS
<1>1. ASSUME NEW i \in Item, Publish(i) PROVE IInv'
  BY <1>1, PublishPreserves
<1>2. ASSUME NEW j \in Job, StartIngest(j) PROVE IInv'
  BY <1>2, StartPreserves
<1>3. ASSUME NEW j \in Job, NEW since \in Time, StartBackfill(j, since) PROVE IInv'
  BY <1>3, StartPreserves
<1>4. ASSUME NEW j \in Job, GoOn(j) PROVE IInv'
  BY <1>4, LookPreserves, FetchPreserves, DiscardPreserves, KeepPreserves,
     AdvancePreserves, EndPreserves DEF GoOn
<1>5. ASSUME NEW j \in Job, Fail(j) PROVE IInv'
  BY <1>5, EndPreserves
<1>6. CASE UNCHANGED vars
  <2>1. Handled' = Handled /\ jobs' = jobs /\ listed' = listed /\ source' = source
        /\ checkpoint' = checkpoint
    BY <1>6 DEF vars, Handled, IsStored
  <2>2. TypeOK' /\ StoredOnce' /\ Open' = Open
    BY <1>6, <2>1 DEF vars, IInv, TypeOK, StoredOnce, Open
  <2>3. \A j \in Job : JobOK(j)'
    BY <2>1, <2>2, JobSurvives DEF IInv
  <2>4. Reached(checkpoint)' /\ Passed(checkpoint)'
    BY <2>1, <2>2 DEF IInv, Reached, Passed, Inclusive
  <2> QED
    BY <2>1, <2>2, <2>3, <2>4 DEF IInv
<1> QED
  BY <1>1, <1>2, <1>3, <1>4, <1>5, <1>6 DEF Next

\* IInv holds in every state of the ingestion, however many jobs overlap and
\* fail, in whatever order items are listed and copies of the checkpoint
\* saved, and however little the pages of an adapter hold: what an ingest has
\* left to do is all that is open and older than the newest of it, but for
\* the items listed late, cut off or tied with a finished one.
THEOREM Invariance == Spec => []IInv
<1>1. Init => IInv
  BY InitInv
<1>2. IInv /\ [Next]_vars => IInv'
  BY NextInv
<1> QED
  BY <1>1, <1>2, PTL DEF Spec

\* Every variable has its type.
THEOREM TypeCorrect == Spec => []TypeOK
<1>1. IInv => TypeOK
  BY DEF IInv
<1> QED
  BY <1>1, Invariance, PTL

\* An item is stored once, with one classification, however jobs overlap.
THEOREM ItemsAreStoredOnce == Spec => []StoredOnce
<1>1. IInv => StoredOnce
  BY DEF IInv
<1> QED
  BY <1>1, Invariance, PTL

\* The checkpoint of a source passes over no item but one that was listed
\* after a newer one, one that lay beyond the pages an ingest read, and, under
\* an adapter that asks for strictly newer items, one that shares its posting
\* time with a finished one.
THEOREM CheckpointSkipsNothing == Spec => []NothingSkipped
<1>1. IInv => NothingSkipped
  BY DEF IInv, NothingSkipped, Passed
<1> QED
  BY <1>1, Invariance, PTL

\* With one ingest at a time and no backfill, a strict source pays for at
\* most one item again for each failure, wherever in a run the failures hit.
THEOREM FailuresBoundRepayment == Spec => []PaidAgainForFailures
<1>1. Init => Payments
  <2> SUFFICES ASSUME Init PROVE Payments
    OBVIOUS
  <2>1. \A j \in Job : jobs[j] = Idle
    BY DEF Init
  <2>2. OneIngest
    BY <2>1, IdleIsEmpty DEF OneIngest, Orderly, At, Left
  <2>3. IsFiniteSet({}) /\ Cardinality({}) = 0
    BY FS_EmptySet
  <2>4. Repayable = {}
    BY DEF Init, Repayable
  <2> QED
    BY <2>2, <2>3, <2>4 DEF Init, Payments
<1>2. IInv /\ Payments => PaidAgainForFailures
  <2> SUFFICES ASSUME IInv, Payments, ~Inclusive, extras = 0 PROVE paidAgain <= failures
    BY DEF PaidAgainForFailures
  <2>1. IsFiniteSet(Repayable)
    <3>1. Repayable \subseteq paid
      BY DEF Repayable
    <3> QED
      BY <3>1, FS_Subset DEF Payments
  <2>2. /\ Cardinality(Repayable) \in Nat /\ paidAgain \in Nat /\ failures \in Nat
        /\ Cardinality(Repayable) + paidAgain <= failures
    BY <2>1, FS_CardinalityType, BoundsAssumption DEF Payments, IInv, TypeOK
  <2> QED
    BY <2>2
<1> QED
  BY <1>1, <1>2, PaymentsInv, Invariance, PTL DEF Spec
=============================================================================
