# Verification of the opportunity finder

TLA+ modules, TLC runs and TLAPS proofs about the program in `src/`. The program collects
posts from developer forums, classifies and clusters them, has language-model agents
investigate clusters and sketch ideas, and runs *discoveries*: dialogues of a Finder, a
Validator and optionally a Judge about a business proposal, carried out by Celery workers
over a PostgreSQL database.

Every name in the modules that is also a name in the code means the same thing. A pointer
such as `loop.py:207` is a line of `src/discovery/` unless it names another application.

## 1. Inventory

### The discovery subsystem

| component | state it keeps | operations | interacts with |
|---|---|---|---|
| Store (`orchestrator.py`, `models.py`) | `Discovery` (status, outcome, stop_reason, turns_completed), `DiscoveryTask` (state, role, lease_token, lease_expires_at, context), `DiscoveryTurn` and its revision | `start_discovery`, `claim_task`, `renew_task`, `release_task`, `check_lease`, `commit_turn`, `finish_discovery`, `cancel_discovery`, `regenerate_report` | everything: each operation locks the discovery row or is one conditional UPDATE |
| Dispatch (`tasks.py`, Celery beat) | `DiscoveryDispatch.published_at`; the broker's messages | `dispatch_pending` (repair stale rows, publish due ones), `run_discovery_turn` | store, broker, workers |
| Mail (`mail.py`) | messages and their `read_at` | `send`, `inbox` (marks read), `show`, `log` | store transactions send, `_initial_context` reads |
| Turn loop (`loop.py`) | the worker's memory; the cursor in `task.context` | `run_task`, `_execute`, `_initial_context`, `_save_context`, the exception handlers | store, ledger, runtime |
| Batch runtime (`runtime.py`) | state and provider id of a model call's `ResearchOperation` | `advance`: POST once, then poll | provider, ledger |
| Operation ledger (`research.py`) | `ResearchOperation` (state, response, cost, reservation), evidence | `begin_operation`, `complete_operation`, `check_limits`, `perform_research` | store lock, runtime, connectors |
| Termination rules (`termination.py`) | none (reads revisions, objections, evidence) | `unresolved_objections`, the three `require_*` rules, `evidence_gaps`, the business fingerprint | `commit_turn` |
| Claude Code runtime (`claude_runtime.py`, `agent_tools.py`, `provider_gateway.py`) | a wake operation, a subprocess, gateway and bridge threads | `run_turn`, the gateway's handlers, the tool bridge | ledger, store |
| Accounting (`accounting.py`) | `Discovery.cost_used_usd` | `reconcile_ollama_discovery` | ledger |
| Reports (`reporting.py`) | the report's text | choice of the current review and judgment, rendering | called inside the ending transaction |
| Connectors (`connectors/`, `research.py`) | the throttle of each host and backend and the page cache, both shared by all discoveries | `search`, `fetch` of each connector; the fallback of `search_auto` | ledger, sources |
| API, admin | — | serialization | store |

What is hard here, and what correctness means for each part:

* **Store.** Any number of workers, a beat and humans call it at once, some with a token
  they no longer hold. Correct: each turn is recorded once and in sequence; an ongoing
  discovery has exactly one task to do; the right role is asked; a review is of the
  latest proposal; convergence is the agreement of those whose word it is; an end has
  one explanation and is final.
* **Dispatch.** Messages are lost, delivered twice, delivered late, or published by a
  transaction that then rolls back; a process dies between `release_task` and the next
  `apply_async`. Correct: one worker at a time owns a task, and an open task is taken up.
* **Turn loop, runtime, ledger.** A model call is paid for and slow, the worker may die or
  be overtaken at any step of it, the provider may refuse, go silent or never finish.
  Correct: no call is submitted twice, the durable cursor names exactly the call that was
  begun, a call is never passed over, a stored answer stands, the turn on record is the
  answer of its last call, and a discovery ends.
* **Research calls.** A request waits for a throttle that other discoveries use too, is sent,
  and is answered by a page, a refusal, silence or an exception, while the lease runs out: research does not
  renew it. Correct: evidence is stored once, a paid search is sent once, a search falls back
  as the record says, also when it is repeated, and within the turn's quota; no answer of a
  source costs more than the call.
* **Mail.** `inbox` marks mail read before the context quoting it is saved. Correct: a
  retry still sees what was sent (not modelled, see section 6).
* **Termination rules.** Objections are closed by later objects that restate, resolve or
  archive them, three roles and several turns apart. Correct: a critical objection does not
  vanish without being answered, and a rejected Finder has a way on. Evidence: two texts
  from two origins.
* **Claude Code runtime.** One wake is one operation; two more threads begin and settle
  others under it while a polling loop renews the lease. Correct: an interrupted wake is not
  repeated, what the providers charge stays visible and fits the budget.
* **Reports.** A report is rendered at whatever point the dialogue ends. Correct: it takes no
  judgment of an earlier revision for the last word.

### The other applications

| component | state, operations | hard behaviour | correctness |
|---|---|---|---|
| Agent runs (`src/agents/`) | `AgentRun`, `AgentStep`; `start_run`, `run_loop`, `kill_run`, the tools | `run.save()` writes every field read at the start, racing `kill_run`; a message is delivered twice | one execution writes the log, budgets bound it, a run ends |
| Investigations, ideation | their rows and statuses; record, promote, reject, re-ideate, accept, mark stale | decisions race runs; a Celery task is enqueued inside a transaction | a promotion is all or nothing, a decision stands |
| Ingestion (`src/ingestion/`, `core/llm.py`) | checkpoint, classifications, items; hourly ingest, backfill | failures half-way, overlapping jobs, ties in the posting time, listings newest first with a cap, items listed after newer ones | no item within reach lost, none kept twice, no work paid for twice without a failure |
| Clusters (`src/clusters/`) | clusters, merge proposals; online assignment, nightly refinement, apply and reject, rebuild | sizes read, computed and saved without a lock; proposals that name merged clusters; a rebuild that deletes clusters beside running workers | what was there survives a rebuild, pairs are proposed once, sizes are put right |
| API, admin, core, notifications | — | none of their own | — |

`PROJECT.json` lists all components with their status, and under `hazards` each place where
this code can go wrong, with the properties that cover it or the reason none does.

## 2. Modules

```
Dialogue                         what a discovery promises (abstract)
   ^ implemented by (Promise == INSTANCE Dialogue WITH ...)
DiscoveryStore                   orchestrator.py, tasks.py, mail.py
   ^ EXTENDS                        ^ EXTENDS
DiscoveryWorkers                 DiscoveryStoreProofs
(loop.py, runtime.py,               ^
 research.py, environment)          +-- DiscoveryWorkersProofs

Objections (termination.py, reporting.py)   }
Evidence   (termination.py: evidence_gaps)  } <- ObjectionsProofs
ClaudeWake (claude_runtime.py, agent_tools.py, provider_gateway.py, research.py, accounting.py)
           <- ClaudeWakeProofs
Connectors <- Research           (connectors/, research.py, loop.py)
AgentTools <- AgentRuns          (agents/, investigations/, ideation/) <- AgentRunsProofs
Ingestion  (ingestion/, core/llm.py) <- IngestionProofs
Clusters   (clusters/)                } <- ClustersProofs
Recluster  (re_cluster_items.py)      }
SumTheorems                      sums over sets, for ClaudeWakeProofs and AgentRunsProofs
MC*                              values and symmetry sets for TLC
```

**`Dialogue`** has no tasks, leases or workers: who speaks, about which proposal, what was
said, and the result.

**`DiscoveryStore`** is the database and one action per transaction, callable by anybody at
any time with any token. `FinishLocked` is `_finish_locked` with its trailing writes
(tasks closed, leases cleared, mail to the human); `CommitTurn` is `commit_turn` with its
limit check, the parse against the role's schema, the three acceptance rules, the recorded
turn and the ending or hand-over. Time is reduced to a lease running out
(`LeaseExpires`). `renew_task` only moves that moment, so it is a guard of the steps that
call it. Abstractions: a submission is the part of it `commit_turn` branches on (verdict,
proposal, validation, evidence gaps); a revision is named by its turn; an exhausted limit
and a blocked claim are arguments.

**`DiscoveryWorkers`** adds the callers under the OpenRouter batch runtime. A worker's record
is what the Python objects hold: place in the loop, task, token, call, the operation state
it read and its reason for stopping. A step of a worker is the code between two points
where something else may interfere: a transaction, one unlocked write, or a call to the
provider. `Post` and `Poll` save the row from the worker's copy of it, answer and all, without
a lease or a condition on the state, as `advance` does. So between `Begin` (operation row and cursor, one transaction), `MarkStarted`
(the unlocked `save` before the POST) and `Post` a worker may be overtaken, cancelled or
killed. The handlers of `run_task` are two steps, as in the code: the UPDATE that marks rows
unknown, and `finish_discovery`. Around the workers: the beat (`Repair`, `Publish`, where
the message may be out and the mark rolled back), the broker (`Deliver`, perhaps not for
the last time, and `Lose`), the clock (`Expire`, `TimeIsUp`), the human (`Begun`,
`Cancel`), and `Crash`, at which a POST under way may or may not have arrived.
Abstractions: an answer is a submission the role may hand over now, or one of three answers that
hand nothing over (prose, a refused submission, several submissions); cost is a flag that
may go up when a call completes; research only takes time, raises or hits a limit (its calls
are `Research`); the post counter stops at 2; the listing and the publishing of one due row are one step.

**`Objections`** is the dialogue as the termination rules see it. The code replays all
revisions at every use; revisions never change, so the replay is carried as state
(`objections`, `archived`, `rejected`, ...) and each commit carries it one
revision further. `FeedbackAnswered`, `AgreementAllowed` and `ApprovalAllowed` are the `require_*` rules; the report's
label, its heading and what it takes as current are operators over the same state.
Abstractions: one response and one statement for each objection id; evidence gaps are a
Boolean of the proposal; independent research and the checks of citations are left out, as
are the limits that may stop a discovery earlier. That a cited pivot archives an id for good, and
that a Validator or a revising Judge resolves a major objection by its id alone, is what
`docs/discovery.md:32-39` describes, and the model takes it as intended.

**`Evidence`** is `evidence_gaps` as operators over a set of records. Rows are read in the
order of their retrieval, so of two copies the earlier counts, whatever its origin; no
connector sets the origin a text was syndicated from.

**`ClaudeWake`** is one turn under Claude Code with several attempts at it. Each attempt is
three threads: the supervisor (`Open` ... `Commit`), the gateway (admit, send, reply,
account) and the bridge (research, pages, the brief). They share the task row, the ledger and
the discovery's cost with each other and with attempts before and after them. The provider is
chosen at the start: OpenRouter charges each model request, Anthropic and Ollama Cloud
are billed through the wake; a local Ollama costs nothing and is left out. Abstractions: a worker
that dies takes no further step (no step is forced); the arrival and the storing of a page are
one step; a call is admitted
when its checks begin; what a provider charges is chosen when the request is sent;
`OutcomeUnknown` is any error; no recovery token is set, as no code sets one; a research call
is one row, the fallback of `search_auto` being the subject of `Research`. The process starts
in `Launch` and is looked at for the first time in `Check`. The constant `PromptLaunch` says
whether it may work in between (section 3).

**`Connectors`, `Research`.** `Connectors` says what each connector makes of each kind of reply:
a page with a status, or an exception of one of the four kinds that its callers tell apart.
`Research` is one model answer of the batch runtime and its research calls: the claim, which
puts started reads back to planned; the row and the quota (`Begin`); the throttle and the
cache, which are shared with tasks of other discoveries; the request and its reply; the
evidence; the fallback; and what the model is told, which is saved at the end of the answer. Attempts crash
anywhere and go on after their lease has lapsed, except in the steps of `Steady` (section 3).
Abstractions: a time or budget limit may end the discovery wherever one is checked, and costs are
those of `ClaudeWake`; documents are counted as none or one; seconds pass one at a time; a
custom connector, an error of configuration and the cap of an hour on a cooldown are left
out. A request is counted (`requests`) when the connector sends it, so not when it refuses its
input. An unsupported filter or a malformed id of the local corpus ends the discovery, in the
model as in the code, where the exception is one nobody catches.

**`AgentTools`, `AgentRuns`.** A run is its row, its message and the executions the message
causes. `AgentRuns` has one action for each stretch of `run_loop` between two commits, the
rows as each execution read them (so that a stale `save` overwrites what it overwrites), the
transactions of investigations and ideations with their rollbacks, and the humans. Celery
acknowledges on start, but Redis delivers a message again that a busy worker held prefetched
past the visibility timeout: hence `MaxRedeliveries`. `AgentTools` says how each tool may
end; an execution takes any of these outcomes. An execution may call any
tool of the registry, whatever toolset its agent was shown (`loop.py:229`), so either kind of
run may record either kind of artefact, and the code before its `try` may raise, which leaves
the run running (`unbegun`). Abstractions: the row's totals are left out (two saves that overlap
leave them apart from the log, `agents/loop.py:465-469`); a
cost is a small number; budgets are below `MAX_STEPS_SANITY`. Behaviour of the model
that no property forbids, because the code promises nothing: a late save may write `failed`
over `completed` or `killed`.

**`Ingestion`** is one source with hourly ingests, backfills, and the checkpoint copy each
job holds. The three adapters differ in whether the query includes the checkpoint's
instant (`Inclusive`) and in what they list. Items become listed in any order, as an issue
does when it is labelled. A listing is newest first and its pages end at a cap (`PageCap`), so an
ingest that finds more than they hold gets the newest, handles those oldest first, and moves
the checkpoint past the rest: `cutOff` keeps track of these, and `late` of items listed after
a newer one. The code promises neither; what it promises is stated about the others. That a
listing shifts while its pages are read is left out: it makes an item come twice, and be paid
for twice if it is discarded.

**`Clusters`** has the online assignment in two steps (read, transaction), the nightly
refinement item by item, proposals with a direction, humans who apply and reject, and
crashes. The move of an orphan reads, moves, counts and saves in four steps, since under READ
COMMITTED its transaction does not see what others commit in the meantime. `Apply` is one step,
although others may commit between its update and its count: an item that joins the absorbed
cluster late does so here after the step, and a size that misses one is left by the other races too.
Any pair may be similar and either may be named first: the model allows more orders than
the code's ids produce.

**`Recluster`** is the command `re_cluster_items`, statement by statement, in one transaction
under READ COMMITTED: the snapshot of the protected clusters, the parking of the items, the
rows a cascade selects, the deletion, the reassignment, the commit, with ingesting workers and
investigations beside it. What waits for its locks waits here, what names a row it has deleted
raises when it commits, and it may itself roll back anywhere. Refinements, merges and the rows of agent runs
beside the command are left out.

Definitions headed *Variant* are plausible mistakes in the code; no action uses them. They
are the mutants of `PROJECT.json`, each of which breaks a property of a run.

## 3. Runs

| run | instance | asks | shows |
|---|---|---|---|
| `store` | 4 turns, Judge on, 2 tokens | `TurnsInSequence`, `OneTaskToDo`, `ConvergedOnAgreement`, `EndIsExplained`, `EndIsFinal`, `KeepsPromise` | whoever calls, the dialogue stays in order, ends for a reason, stays ended, and is an implementation of `Dialogue` |
| `workers` | 2 workers, 2 tokens, 2 turns, 2 calls a turn, 1 crash | `CursorNamesCalls`, `SubmittedOnce`, `NothingLeftBehind`, `TurnIsAnswered`, `AnswersStand` | workers that overtake each other or restart neither submit a call twice nor pass over, lose or replace an answer |
| `liveness` | 1 worker, 1 call, 1 crash, duration limit, fair | `OpenIsTakenUp`, `EveryDiscoveryEnds` | lost messages, a crash and a silent provider do not leave a discovery hanging |
| `stale_handler` | 2 workers, 3 tokens, 1 call, cost limit | `OwnerAlone`, violated | finding 1 |
| `research` | 1 task, 2 attempts, quota 2; 2 automatic searches, or one call of every kind to every connector; every reply that can be decoded | `TypeOK`, `EvidenceOnce`, `ToldIsRecorded`, `FallbackFits`, `PaidOnce`, `FallbackNeverStops`, `DefaultsSurvive` | with a crash anywhere, evidence, ledger and history agree, a paid search is sent once, the fallback follows the record and the quota, and no source ends a dialogue with the default connectors |
| `objections` | 7 turns, Judge on, 2 businesses, 2 ids | `AgreedIsClear`, `NothingMaterialLeft`, `ReportIsTrue` | no agreement passes over a critical objection, and the report says what was agreed |
| `no_go` | 7 turns, 3 businesses, 1 id | `NoGoHasAWayOut`, violated | finding 2 |
| `claude` | 2 attempts, a paid read, budget 2, 2 model calls, 1 research call, 1 overrun | `ChargesFit`, `ChargesVisible`, `WakeOnce` | with a stall, a death, a cancellation or the deadline anywhere but between launch and first look, charges fit and stay in sight, and one process works |
| `agents` | an investigation run (2 steps, budget 4), an ideation run (4 steps, budget 2), 2 deliveries, 1 redelivery, fair | `OneAuthor`, `OneResult`, `BudgetHolds`, `PromotedOnce`, `DecisionStands`, `RunEnds` | overlapping executions, kills, crashes, rollbacks and decisions leave one log, one result, one promotion, and an end |
| `ingestion` | 3 items of which two share an instant, pages of 2, 2 jobs, 1 failure, 1 extra job, a strict and an inclusive source, fair | `StoredOnce`, `NothingSkipped`, `PaidAgainForFailures`, `EverythingHandled` | however items come to be listed and jobs overlap, none is kept twice, none within reach is passed over, and all of those are handled in the end |
| `clusters` | 3 items, 2 clusters, 2 ingesting workers, 1 refinement, 1 death, fair | `OneProposalPerPair`, `SizesHeal` | a pair is proposed once, and races, also of two workers that add to one size, leave wrong sizes for a night only |
| `rebuild` | 3 items, 3 clusters, 2 ingesting workers, 1 rebuild | `TypeOK`, `FoundSurvives` | whatever is ingested beside it and wherever it stops, the rebuild keeps what was there when it began |

The type invariants of the other modules, and `ReviewsAreCurrent` of the store, are theorems
(section 4) and not checked again. `CHECK_DEADLOCK FALSE` throughout: each of
these systems may stop (a discovery that has ended, or whose messages are gone with no
beat row left; a Finder without a proposal the rules admit; a turn whose attempts are used
up; runs that have ended; items all handled and no night started).

**Bounds.** *Store*: four turns with the Judge hold a whole round (propose, accept, judge)
and what follows a refusal, and the last turn allowed falls to the Finder or the Validator,
depending on the verdicts before it. That it may fall to the Judge when the number of turns
is odd is beyond this run and covered by the theorem `Refinement`. Two tokens are an owner
and a stale one. Tokens are finite: `Deliver` takes one that no worker remembers, as `uuid4`
would, so tokens are recycled only when nobody can tell.

*Workers*: two turns and no Judge are enough and faithful: the batch
runtime refuses the Judge (`schemas.py:55`, `runtime.py:24`), the worker's steps are the same
in every turn, and the second turn has a predecessor's messages to mishandle. Two calls a
turn are needed for "the next call". Which limit stops a discovery makes no difference to the
calls, so `workers` has none and `liveness` has the one it needs. `MaxCrashes`, the number of
workers and the post counter are bounds of the model, not of the code.

*Objections*: seven turns are the fewest at which a critical objection restated as a minor one
could slip through to an approval (F V F V F V J) and at which a no-go is followed by a second
verdict. Two ids tell an objection from another; two businesses, a pivot from a revision.

*ClaudeWake*: two attempts are one and the one that takes over from it. A budget of 2 with
prices of 1 is small enough that reservations and costs compete for it; two model calls a turn let
a second begin after the first was written off. One overrun is one charge above its
reservation. The one read has a price, which is what the budget is about; the replay of a read
without one (`Repeatable`) is covered by the theorems, and as a call's own life by *Research*.

*Research*: two calls are one to be repeated and one that follows it in the quota; two attempts,
one that stalls or crashes and its successor. The replies are all but one that cannot be
decoded, upon which a page fetch ends the discovery (section 5). Times are small numbers that
tell a short wait from a long one.

*AgentRuns*: one run is out of steps first, the other out of money. Two executions of a run
overlap; a third would be a second instance of the same race. With one ideation run a
promotion and a re-ideation compete for it, so the run shows that a promotion is never carried
out in halves; that several ideation runs do not promote one investigation twice needs more
than one of them, and is `PromotionIsOnce` of section 4.

*Ingestion*: three items with a tie are enough for an item before, at and after a checkpoint; pages
of two are short of one. Hacker News is asked as GitHub is, for what is strictly newer, so the run
has GitHub for both.
*Clusters*: two clusters are one pair, which two nights may list in both directions. Two workers
that add to one size need an item each and one that is there already. Refinements that overlap
(`MaxOverlaps`) are outside the run: `OneProposalPerPair` exempts them, and its theorem has them.
*Recluster*: an item protected, one parked and one that comes late, each in a cluster of its own or not.

**PromptCalls.** A lease lasts 180 s by default, and each step of a model call takes a
few seconds with HTTP timeouts of 30 s. `PromptCalls = TRUE` says a lease does not run out
between its renewal and the end of the model call step that follows; during research,
which renews nothing and may be long, it may. Without the assumption a lease could also run out
right after every claim, and no discovery would have to end; and `SubmittedOnce`
fails: set `PromptCalls = FALSE` in `MCDiscoveryStale.cfg` and check it there (section 5). So does
`AnswersStand`: a worker that stalls in a poll saves the answer it has in memory over the one
its successor stored.

**PromptLaunch.** The attempts of `ClaudeWake` may stall anywhere, with one exception: in the runs
and theorems with `PromptLaunch` the Claude process does nothing between its start and
the supervisor's first look at the lease, milliseconds later, which stops it if the lease is
gone. Without that assumption (`PromptLaunch = FALSE` in `MCClaudeWake.cfg`) `WakeOnce` fails: an
attempt that was overtaken before its launch has a process
at work beside its successor's until that look (section 5). `Open`, the writes before the
launch and the launch itself may be as late as they like.

**Steady.** The steps of `Research` in which an attempt does not lose its lease
unless it crashes: in the run a read, from the write of `started` to the reply, which ends within
20 seconds where the lease lasts 180. Of the write and the sending it is needed for `PaidOnce`,
as `PromptCalls` is for `SubmittedOnce`; of the reply, because a read that outlasts its lease may write
`failed` over a call its successor completed (section 5).

**Fairness.**

* `DiscoveryWorkers`: weak fairness of a worker's steps (Celery runs the task function to its
  end unless the process dies); of `Repair` and `Publish` (the beat runs
  `dispatch_pending` every 30 s); strong fairness of delivering to some worker (the
  beat puts the row back and publishes again as long as the task is open, so a broker that
  delivers anything delivers one); weak fairness of `TimeIsUp` and of the expiry of a lease
  nobody holds (time passes). Nothing is assumed of the provider, which may
  say "still processing" for ever, nor of the human, nor that a crash happens.
* `AgentRuns`: weak fairness of the first delivery of each message and of each execution that
  has begun; none of redeliveries, which may not happen. `RunEnds` excuses a run only if
  every execution of it is lost: its worker died, it found no row, or it raised before its `try`. Nothing in the code looks for those.
* `Ingestion` and `Clusters`: weak fairness of starting a job and of its steps.
  `setup_schedules` has the beat start an ingest of Hacker News every hour and the
  refinement every night; for the other two sources the fairness says that somebody keeps
  starting ingests. Failures are finitely many: an item that
  always makes the run fail blocks those behind it, in the code too.

`ClaudeWake` and `Objections` have safety properties only: an attempt may stop for good at any
step, and a dialogue is as long as its agents make it.

## 4. Proofs

Theorems hold for every value of the constants: any `MaxTurns >= 2`, Judge or not, any set
of tokens, ids, businesses and items, any number of workers, calls, attempts and crashes, any
limits. They rest on the ASSUMEs of the modules only (bounds are numbers; `NULL` is no
token; an absent revision is no submission; posting times are positive; a wake has finitely
many requests for research). Every safety property that a passing run checks, invariant or action
property, is stated by one of them, but for those of `Research` and the type invariant of
`Recluster`, which are model-checked only.
Two premises are stated where they are needed: `PromptCalls` and `PromptLaunch` of section 3.

* **`DiscoveryStoreProofs`.** `Invariance`: `Spec => []IInv`, where `IInv` is the conjunction
  of the store's invariants and three strengthenings. The invariants are not inductive by
  themselves: `TasksInOrder` adds that turns after the next have no task and no role and
  that a task exists exactly when it has a role, without which a hand-over could
  overwrite one; `RolesAlternate` adds that roles follow from the verdicts;
  `AcceptedIsSound` adds that an acceptance on record is of a proposal
  without gaps, without which the Judge's approval, which does not look at evidence,
  would not give `ConvergedOnAgreement`. From it follow `TypeCorrect`, `OneTurnAtATime`,
  `OneTaskAtATime`, `ReviewsInOrder`, `Agreement`, `EndExplained`, and the action property
  `Finality`.
  `Refinement`: `Spec => KeepsPromise`. `StepRefines` maps
  `CommitTurn` to `Speak`, an ending without a verdict to `Stop`, and everything else to
  a stutter, under the refinement mapping at the end of `DiscoveryStore`.
* **`DiscoveryWorkersProofs`.** `WorkersInvariance`: `WInv`, which is `IInv` and that worker
  memories and ledger are sound (a worker with a task has a real token, one in a call is at
  a call of the turn, one that is stopping has a reason the store accepts; a stored answer
  fits the role of its turn). One lemma per step shows that the step is
  a transaction of the store or leaves it alone and keeps the invariant. Then
  `WorkersTypeCorrect`, `WorkersImplementStore` (`WorkersSpec => Spec` of the store) and
  `WorkersKeepPromise`: what is proved of the store holds of the system with its workers.
  The second half of the module is about model calls, in two invariants on top of `WInv`.
  `CallsInv` holds whatever leases do: tokens of busy workers differ, because a claim writes a
  fresh one; a worker whose token is on the task in progress is where the durable cursor
  says; a call that a worker is at has a row. It gives `CursorIsDurable`.
  `PromptInv` needs `PromptCalls`: a task in the middle of a call is not taken away unless all
  is over, no two workers have the same turn in hand, and so what a worker read of its row
  still holds where it acts on it; a row that is planned has not been sent. It gives
  `CallsAreSubmittedOnce`, `NoCallIsLeftBehind` and the action property `AnswersAreKept`: a worker
  that saves its copy of a row saves it over the row it read, which is not completed. With
  `AnsweredInv`, that a worker which goes on from a completed call holds the answer on
  record, it gives `TurnsAreAnswered`.
  The assumption stands as a premise of those four theorems, and section 5 says what happens
  without it.
* **`ObjectionsProofs`.** `IInv` adds to the types which record belongs to which phase of the
  dialogue, that archived ids are absent from the open ones, that an id of a rejected
  business is archived unless the rejection is the last word, and that a critical objection
  that still stands is open or about a rejected business (`Criticals`). From it
  `AgreementIsClear` and `NothingMaterialStaysOpen`. `Records`, which review is
  of which proposal, gives `ReportTellsTheTruth`. About the operators of `Evidence`:
  `TwoSources` (no gaps means two texts of two origins) and `CopiesAddNothing` (a later copy
  of a cited text adds no origin). An *earlier* copy may take one away.
* **`IngestionProofs`.** An item is open if it is listed, not handled, and neither listed late nor cut
  off. The invariant says that the checkpoint, and every copy of it that a job
  may still save, passes over no open item but a tied one, and that a job has all that is open
  left to do, but for ties and items no older than anything it has left. It is preserved because an item
  that becomes listed is late unless it is newer than all the others, and because the job that fetches a
  capped listing marks what it leaves out before it can move the checkpoint. It gives
  `ItemsAreStoredOnce` and `CheckpointSkipsNothing` for any number of overlapping jobs, any
  order of listing and any page cap.
  `FailuresBoundRepayment` needs to know what can be paid for again: an item that is paid for,
  not stored, in nobody's hands, and in front of the checkpoint or fetched already
  (`Repayable`). `Payments` says that these items and the repeated payments so far are no more
  than the failures: a failure adds at most one such item, a repeated payment takes one away or
  comes with a failure of its own, and the checkpoint of a job that is alone never moves back.
* **`ClaudeWakeProofs`.** All of it under `PromptLaunch`, without which section 5 says what happens. Only a claim gives the lease, and the owner's `Open` finds the wake
  past planned once a process has worked: so one process works (`WakeIsNotRepeated`), there is
  one gateway and one bridge with something under way, model calls are counted without a gap, and
  the next index is a new row. With that, rows and charges agree at every step of a request
  (`ChargesStayVisible`).
  `ChargesStayInBudget` has an invariant of its own, `Amounts`. What the code compares with the
  budget when it begins a call (recorded costs and the reservations that are held) is not
  inductive: what is held shrinks when a call ends, and a stalled attempt may open the wake's row
  again after it was settled. `Booked` is: a call counts with its reservation while it may still
  charge that much, with what it charged of it when it is completed, and not at all when it
  failed; the wake counts with its reservation throughout. While a process works its wake is held
  (`WakeHeld`), so what a call under it is checked against contains the wake's reservation; and costs on record are at least the sum of the completed rows'
  (`Recorded`), also after a reconciliation.
* **`AgentRunsProofs`.** Three things have to be added to the invariants. An execution in the loop
  that has counted n steps finds the rows 1..n in the log and all rows are its own
  (`Counted`): the second execution of a run fails on the unique step number before it gets
  that far, which gives `LogHasOneAuthor`. An artefact is recorded only by the author, in the
  same step that ends its loop (`ResultsOK`), so nobody is left who could record another:
  `ArtefactIsTheAuthors` and, once a human has decided, `DecisionsAreFinal`. An open
  promotion holds the row lock of an investigation that waits for review, alone
  (`OpenedOK`), and what is promoted has exactly one ideation that says so: `PromotionIsOnce`,
  for any number of ideation runs. `LogsStayInBudget`: budgets are checked against what an
  execution has counted in memory, so the invariant is that for the author of the log this
  is what the log adds up to (`BudgetInv`).
* **`ClustersProofs`.** No row that anything names is free: not the cluster of an item, of a
  proposal or a merge, nor the one that a worker or a refinement has read and is
  about to save to. That is the invariant, with two facts about sets being finite, so that sizes
  are numbers; it gives `TypeCorrect`, and says little else, as nothing in `Clusters` deletes a
  row. `PairsAreProposedOnce` needs to
  know that without overlaps one refinement works, so that nothing is proposed between its look
  at a pair and its proposal (`PairsOK`). `RebuildKeepsWhatItFound` is about `Recluster`: what
  the command found when it began is parked by the time it collects what the deletion takes
  along, and protected clusters are not deleted (`FoundOK`), so for any number of ingesting
  workers and investigations beside it, and wherever it stops, it loses none of that. What is committed
  beside it may be lost (section 5).
* **`SumTheorems`.** The sum of a function over a finite set, an operator of the community
  modules defined by recursion over subsets: it exists, is a number, and changes by what
  one element changes. The library's induction theorems take a predicate as a parameter,
  which the provers cannot instantiate; each induction here takes the *set* of
  counterexamples instead, and a smallest one of them, which the well-founded order of the
  finite subsets provides (`SmallestSet`).

Model-checked only: liveness (`OpenIsTakenUp`, `EveryDiscoveryEnds`, `RunEnds`,
`EverythingHandled`, `SizesHeal`), which needs fairness and ENABLED; everything about
research; and the violations of section 5, which are counterexamples. `SubmittedOnce` and `WakeOnce` are defended twice in the code: without `claim_task`'s
refusal of unresolved calls a resumed worker still sees the started row, and a second wake still
fails its first check.

## 5. Findings

1. **A stale worker ends its successor's discovery** (`stale_handler`). The comment at
   `loop.py:314` says "The current owner alone may change discovery state." That is true
   of `LostLease`, but the other handlers call `finish_discovery`, which asks for no lease: a
   worker whose lease ran out during a long research call, and whose call then raises, fails
   the discovery that another worker owns.
2. **A no-go without a way out** (`no_go`). After a rejection `require_judge_feedback`
   (`termination.py:138`) wants a pivot from an objection of the Judge's that is unresolved.
   If all of those ids are archived already there is none, and every proposal of the Finder is
   refused, where `docs/discovery.md:27-28` says "a no-go requires a materially different
   opportunity".

The models also do the following, as the code does, against what the repository says of it. No run
is kept for these:

* **A worker stalled before the POST submits a call twice.** `runtime.py:88` says "Submit once,
  or poll the saved ID. Never sleep or retry a billed POST." `advance` writes `started` without
  a lease check or a condition on the state it read, so a worker that stalls for longer than its
  lease between `begin_operation` and that write is overtaken, and posts after its successor did.
  Nothing bounds the stall, but it must be long.
* **Two Claude processes of one turn.** The first look of `_run_process` at
  the lease comes after `Popen` (`claude_runtime.py:417`), and the writes before it ask for none.
  An attempt that stalls for longer than its lease between `begin_operation` and the launch
  starts its process beside that of its successor; `claude_runtime.py:507` says "A previous Claude
  wake was interrupted; do not repeat paid work automatically". The first look stops it. While it
  prepares its launch such an attempt may also wipe out the brief its successor has accepted (`:575`).
* **A merge into a cluster that is gone.** `apply_merge_proposal` (`clusters/orchestrator.py:75`)
  looks at neither cluster's status. Of two proposals <<a, b>> and <<b, c>> of one night, both
  applied, the second moves items into `b`, which the first has merged away;
  `clusters/models.py:186` says "items move to the surviving cluster".
* **A rebuild deletes what comes late.** The command parks the items it sees and then deletes all
  unprotected clusters (`re_cluster_items.py:147`). An item stored in one of them in between goes
  with it, and the checkpoint has passed it; the comment at lines 130-131 says that clusters are
  deleted "without losing the items themselves". The protected clusters are read once (`:125`); an
  investigation recorded on another cluster before the deletion is deleted with it, where lines
  121-124 say "historical work we must not lose".
* **A longer wait replaced by a shorter one.** A limited reply sets the throttle of its host
  without regard to what is left on it (`research.py:291`). Of two requests under way the later
  reply decides; `docs/discovery.md:135-136` says that `Retry-After` is honored.
* **A request that is not counted.** A read repeated after a crash may be denied by the throttle, and
  `research_calls_used` (`research.py:52`) leaves denials out, although the first try was sent;
  `docs/discovery.md:238` says "Actual outbound requests" count.
* **A late failure over a completed call.** The saves of `failed` (`research.py:277`, `:287`) ask
  for no lease, so a read that outlasts its lease and then fails marks as failed what its
  successor has completed; `research.py:1` says "Fenced call accounting".
* `mark_stale_one` takes a rejected investigation too, where its module's docstring says any
  non-terminal status; a message picked up before its run is committed finds no row and the run
  stays as it is, where the comments at `agents/orchestrator.py:137` and
  `investigations/orchestrator.py:102` say otherwise; an ideation that ends in plain text stays a
  draft, where `ideation/admin.py:129` says it will flip to awaiting review; a page with an
  unknown character set ends a discovery (`connectors/web.py:163`).

## 6. Not modelled

* **Mailbox contents.** `inbox` marking mail read before the context is saved is in the model
  (`ReadMail`, `SaveFirstContext`), but bodies and quoting are not, so what a retry still quotes
  is not told apart. Message bodies, reply trees, prompt and history construction are formatting.
* **Amounts.** Prices and token valuation (`accounting.py`) are tables; nothing keeps an Ollama
  Cloud wake within its reservation, and `ChargesFit` leaves out what exceeds one.
* **The parsing of pages** in connectors and adapters, embeddings, titles, split proposals and
  the classifier's evaluation runs: I/O, or data no property is about.
* **Citations and independent research** among the termination rules.
* **API, admin, settings, serialization, tests, scripts and prompts**: no protocol of their own.
  That the API may start a second refinement beside the nightly one is in `Clusters`:
  `OneProposalPerPair` then does not hold and exempts it.
* What the code makes no promise about, in the models but exempt from their properties: runs
  all of whose executions were lost, an item that always fails to be classified, items beyond
  the page cap of an ingest or listed after newer ones, the repeated price of the newest discarded
  Stack Exchange item, several items posted in one instant under a strict source.

## 7. Plan

1. **The mailbox**: what a retry of a turn still quotes, as a module under `DiscoveryStore`.
2. **Theorems about `Research`**: `EvidenceOnce` and `PaidOnce` for any number of attempts and
   calls.
3. **A turn under Claude Code as an implementation of the store**: the task row of `ClaudeWake`
   mapped to that of `DiscoveryStore`.
