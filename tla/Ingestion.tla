----------------------------- MODULE Ingestion -----------------------------
(***************************************************************************)
(* The ingestion of one source: hourly ingests that move a checkpoint      *)
(* forward item by item, backfills of a past window that leave it alone,   *)
(* each item classified at a price and then stored or discarded.           *)
(*                                                                         *)
(* Nothing locks a source: the API and the admin start an ingest or a      *)
(* backfill whenever they are asked to, beside the hourly one.  What the   *)
(* jobs share is the checkpoint row, which each saves from the copy it     *)
(* read, and the items, unique by source and id.  A discarded item leaves  *)
(* a classification that does not name it.                                 *)
(*                                                                         *)
(* A listing is newest first and its pages are capped, and an item may be  *)
(* listed after newer ones (an issue once it is labelled): two ways for an *)
(* item to stay behind, which late and cutOff keep track of.               *)
(*                                                                         *)
(* Abstractions: a posting time is a natural number; an item once listed   *)
(* stays listed; the pages of a listing do not shift while they are read   *)
(* (a shifted item comes twice, and is paid for twice if it is discarded); *)
(* every item is newer than the window of the first ingest.  What an item  *)
(* says is the verdict the classifier gives this time; the cluster it      *)
(* joins is Clusters' subject; the checkpoint's counters are left out.     *)
(***************************************************************************)
EXTENDS Integers, FiniteSets

CONSTANTS
  Source,       \* the adapters there are
  Item,         \* the items of the source
  Posted,       \* posted_at of each
  PageCap,      \* how many items the pages an adapter reads hold
  Job,          \* the processes that ingest or backfill
  MaxPaidAgain, \* bound of the model: repeated payments are counted up to it
  MaxFailures,  \* bound of the model: crashes, and calls that raise
  MaxExtras     \* bound of the model: backfills, and jobs started while another runs

ASSUME SourceAssumption == Source \subseteq {"hacker_news", "github", "stack_overflow"}
ASSUME PostedAssumption == Posted \in [Item -> Nat \ {0}]
ASSUME CapAssumption    == PageCap \in Nat \ {0}
ASSUME BoundsAssumption == {MaxPaidAgain, MaxFailures, MaxExtras} \subseteq Nat

VARIABLES
  source,     \* the adapter: one of Source
  listed,     \* the items the source's API returns
  late,       \* history: those that were listed after a newer one
  cutOff,     \* history: those an ingest asked for and did not reach
  checkpoint, \* IngestionCheckpoint.last_item_posted_at (0: none)
  stored,     \* how many ClusterItem rows each item has
  kept,       \* how many classifications name each item
  discarded,  \* the items a discarded classification was recorded for
  paid,       \* the items the classifier was paid for
  paidAgain,  \* and how often it was for one of them
  jobs,       \* what each process holds in memory
  failures, extras

vars == <<source, listed, late, cutOff, checkpoint, stored, kept, discarded, paid, paidAgain, jobs,
          failures, extras>>

\* Whether the source returns the instant it is asked from.
Inclusive == source = "stack_overflow"

Time == {0} \cup {Posted[i] : i \in Item}
Pcs  == {"idle", "fetch", "next", "discard", "keep", "advance"}
Idle == [pc |-> "idle", kind |-> "ingest", since |-> 0, known |-> {}, todo |-> {}, item |-> {}]

IsStored(i) == stored[i] > 0
Handled     == {i \in Item : IsStored(i)} \cup discarded

Init ==
  /\ source \in Source
  /\ listed = {}
  /\ late = {}
  /\ cutOff = {}
  /\ checkpoint = 0
  /\ stored = [i \in Item |-> 0]
  /\ kept = [i \in Item |-> 0]
  /\ discarded = {}
  /\ paid = {}
  /\ paidAgain = 0
  /\ jobs = [j \in Job |-> Idle]
  /\ failures = 0
  /\ extras = 0

At(j, pc) == jobs[j].pc = pc
Goto(j, pc) == jobs' = [jobs EXCEPT ![j].pc = pc]

\* Variant: in the order the source returns them, newest first.
FirstFetched(items) == {i \in items : \A k \in items : Posted[i] >= Posted[k]}

\* Items are taken oldest first, those of one instant in any order.
First(items) == {i \in items : \A k \in items : Posted[i] <= Posted[k]}

Current(j) == CHOOSE i \in jobs[j].item : TRUE

-----------------------------------------------------------------------------
\* The source lists an item: in the order they are posted, or later.
Publish(i) ==
  /\ i \notin listed
  /\ listed' = listed \cup {i}
  /\ late' = IF \E k \in listed : Posted[k] > Posted[i] THEN late \cup {i} ELSE late
  /\ UNCHANGED <<source, cutOff, checkpoint, stored, kept, discarded, paid, paidAgain, jobs,
                 failures, extras>>

\* Whoever starts a job does not look for a running one.
Extra(kind) ==
  IF kind = "backfill" \/ \E j \in Job : ~At(j, "idle")
    THEN extras < MaxExtras /\ extras' = extras + 1
    ELSE UNCHANGED extras

\* ingest_from_adapter: the copy of the checkpoint this job will save.
StartIngest(j) ==
  /\ At(j, "idle")
  /\ Extra("ingest")
  /\ jobs' = [jobs EXCEPT ![j] = [Idle EXCEPT !.pc = "fetch", !.since = checkpoint]]
  /\ UNCHANGED <<source, listed, late, cutOff, checkpoint, stored, kept, discarded, paid, paidAgain,
                 failures>>

\* backfill_from_adapter: a window of its own, and the ids stored by now.
StartBackfill(j, since) ==
  /\ At(j, "idle")
  /\ Extra("backfill")
  /\ jobs' = [jobs EXCEPT ![j] = [Idle EXCEPT !.pc = "fetch", !.kind = "backfill",
                                   !.since = since, !.known = {i \in Item : IsStored(i)}]]
  /\ UNCHANGED <<source, listed, late, cutOff, checkpoint, stored, kept, discarded, paid, paidAgain,
                 failures>>

\* fetch_new_items of each adapter.  Hacker News and GitHub are asked for
\* what is newer than since, Stack Exchange for what is not older.
HackerNewsItems(since)    == {i \in listed : Posted[i] > since}
GitHubItems(since)        == {i \in listed : Posted[i] > since}
StackOverflowItems(since) == {i \in listed : Posted[i] >= since}

Fetched(since) ==
  CASE source = "hacker_news"    -> HackerNewsItems(since)
    [] source = "github"         -> GitHubItems(since)
    [] source = "stack_overflow" -> StackOverflowItems(since)

\* What the pages hold: all of it, or as much of the newest as they can.
Pages(items) ==
  {got \in SUBSET items :
     /\ \/ got = items /\ Cardinality(items) <= PageCap
        \/ Cardinality(got) = PageCap
     /\ \A i \in got, k \in items \ got : Posted[i] >= Posted[k]}

Fetch(j) ==
  /\ At(j, "fetch")
  /\ \E got \in Pages(Fetched(jobs[j].since)) :
       /\ jobs' = [jobs EXCEPT ![j].pc = "next", ![j].since = 0, ![j].known = {},
                               ![j].todo = got \ jobs[j].known]
       /\ cutOff' = IF jobs[j].kind = "ingest" THEN cutOff \cup (Fetched(jobs[j].since) \ got)
                    ELSE cutOff
  /\ UNCHANGED <<source, listed, late, checkpoint, stored, kept, discarded, paid, paidAgain,
                 failures, extras>>

\* _process_item: an item that exists is not classified again.
Exists(i) == IsStored(i)

Take(j, i, pc) ==
  jobs' = [jobs EXCEPT ![j].pc = pc, ![j].todo = @ \ {i}, ![j].item = {i}]

PayFor(i) ==
  /\ paid' = paid \cup {i}
  /\ paidAgain' = IF i \in paid /\ paidAgain < MaxPaidAgain THEN paidAgain + 1 ELSE paidAgain

\* call_cheap_model answers with a verdict, or it raises: no provider is
\* configured, or it does not answer, and nothing is paid; or what it was paid
\* for is not a verdict.
CallCheapModel(j, i) ==
  \/ /\ Take(j, i, "discard") \/ Take(j, i, "keep")
     /\ PayFor(i)
     /\ UNCHANGED failures
  \/ /\ failures < MaxFailures
     /\ failures' = failures + 1
     /\ jobs' = [jobs EXCEPT ![j] = Idle]
     /\ PayFor(i) \/ UNCHANGED <<paid, paidAgain>>

Look(j, i) ==
  /\ At(j, "next")
  /\ i \in First(jobs[j].todo)
  /\ IF Exists(i)
       THEN Take(j, i, "advance") /\ UNCHANGED <<paid, paidAgain, failures>>
       ELSE CallCheapModel(j, i)
  /\ UNCHANGED <<source, listed, late, cutOff, checkpoint, stored, kept, discarded, extras>>

Discard(j) ==
  /\ At(j, "discard")
  /\ discarded' = discarded \cup {Current(j)}
  /\ Goto(j, "advance")
  /\ UNCHANGED <<source, listed, late, cutOff, checkpoint, stored, kept, paid, paidAgain,
                 failures, extras>>

\* Variant: source and id are indexed but not unique.
NotUnique(i) == FALSE

\* cluster_item_source_unique.
Taken(i) == IsStored(i)

\* One transaction: the item and the classification that names it, or an
\* IntegrityError that ends the job.
Keep(j) ==
  LET i == Current(j) IN
  /\ At(j, "keep")
  /\ IF Taken(i)
       THEN /\ jobs' = [jobs EXCEPT ![j] = Idle]
            /\ UNCHANGED <<stored, kept>>
       ELSE /\ stored' = [stored EXCEPT ![i] = @ + 1]
            /\ kept' = [kept EXCEPT ![i] = @ + 1]
            /\ Goto(j, "advance")
  /\ UNCHANGED <<source, listed, late, cutOff, checkpoint, discarded, paid, paidAgain,
                 failures, extras>>

\* Variant: the checkpoint is saved when the run is over.
SavedAtTheEnd(j) ==
  IF jobs[j].kind = "ingest" /\ jobs[j].todo = {} THEN Posted[Current(j)] ELSE checkpoint

\* The checkpoint of the copy, or none for a backfill.
Saved(j) ==
  IF jobs[j].kind = "ingest" THEN Posted[Current(j)] ELSE checkpoint

Advance(j) ==
  /\ At(j, "advance")
  /\ checkpoint' = Saved(j)
  /\ jobs' = [jobs EXCEPT ![j].pc = "next", ![j].item = {}]
  /\ UNCHANGED <<source, listed, late, cutOff, stored, kept, discarded, paid, paidAgain,
                 failures, extras>>

Finish(j) ==
  /\ At(j, "next")
  /\ jobs[j].todo = {}
  /\ jobs' = [jobs EXCEPT ![j] = Idle]
  /\ UNCHANGED <<source, listed, late, cutOff, checkpoint, stored, kept, discarded, paid, paidAgain,
                 failures, extras>>

\* The process dies, or the source or the embedding raises: the exception ends
\* the job.
Fail(j) ==
  /\ ~At(j, "idle")
  /\ failures < MaxFailures
  /\ failures' = failures + 1
  /\ jobs' = [jobs EXCEPT ![j] = Idle]
  /\ UNCHANGED <<source, listed, late, cutOff, checkpoint, stored, kept, discarded, paid, paidAgain,
                 extras>>

-----------------------------------------------------------------------------
GoOn(j) ==
  \/ \E i \in Item : Look(j, i)
  \/ Fetch(j) \/ Discard(j) \/ Keep(j) \/ Advance(j) \/ Finish(j)

Next ==
  \/ \E i \in Item : Publish(i)
  \/ \E j \in Job : \/ StartIngest(j) \/ GoOn(j) \/ Fail(j)
                    \/ \E since \in Time : StartBackfill(j, since)

\* The beat starts an ingest every hour (setup_schedules sets that up for Hacker
\* News; the other sources are started by hand); a job that runs goes on.
Fairness == \A j \in Job : WF_vars(StartIngest(j)) /\ WF_vars(GoOn(j))

Spec == Init /\ [][Next]_vars
FairSpec == Spec /\ Fairness

-----------------------------------------------------------------------------
(* Properties                                                              *)

\* The variables have their types.
TypeOK ==
  /\ source \in Source
  /\ {listed, late, cutOff, discarded} \subseteq SUBSET Item
  /\ checkpoint \in Time
  /\ stored \in [Item -> Nat] /\ kept \in [Item -> Nat]
  /\ paid \subseteq Item /\ paidAgain \in 0..MaxPaidAgain
  /\ jobs \in [Job -> [pc: Pcs, kind: {"ingest", "backfill"}, since: Time,
                       known: SUBSET Item, todo: SUBSET Item, item: SUBSET Item]]
  /\ \A j \in Job : jobs[j].pc \in {"discard", "keep", "advance"} => Cardinality(jobs[j].item) = 1

\* However jobs overlap and fail, an item is stored once, with the one
\* classification that says why.
StoredOnce == \A i \in Item : stored[i] <= 1 /\ kept[i] = stored[i]

\* What is listed and neither stored nor discarded, but for the items no
\* later ingest asks for: those listed after a newer one, which the checkpoint
\* may have reached by then, and those beyond the pages of an ingest, which
\* moves the checkpoint past them.
Open == listed \ (Handled \cup late \cup cutOff)

\* The checkpoint passes over no other item: everything open is newer,
\* although jobs fail half-way, overlap and save checkpoints they read long
\* ago.  The one exception is a source asked for strictly newer items, which
\* may lose one of several posted at the same instant; a source that includes
\* the instant still returns it.
NothingSkipped ==
  \A i \in Open :
    Posted[i] <= checkpoint =>
      /\ Inclusive => Posted[i] = checkpoint
      /\ \E k \in Handled : Posted[k] = Posted[i]

\* A run that fails part-way does not pay for finished work again: with one
\* ingest at a time and no backfill, a strict source pays for at most one
\* item again for each failure.
PaidAgainForFailures ==
  ~Inclusive /\ extras = 0 => paidAgain <= failures

\* What the source lists is stored or discarded in the end, if it is listed
\* in its turn, no ingest had more to read than its pages hold, and it shares
\* its instant with no other item or the source includes the instant.
EverythingHandled ==
  <>[](\A i \in Open : ~Inclusive /\ \E k \in Item \ {i} : Posted[k] = Posted[i])
=============================================================================
