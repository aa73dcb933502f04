----------------------------- MODULE AgentRuns -----------------------------
(***************************************************************************)
(* The agent runs of agents/, the investigations they produce and the      *)
(* ideations that follow from them.                                        *)
(*                                                                         *)
(* A run is a row of AgentRun, a Celery message that names it and the      *)
(* executions of run_loop that message causes.  Celery acknowledges the    *)
(* message when it starts the task, but a message that a busy worker holds *)
(* prefetched is delivered again by Redis after the visibility timeout: a  *)
(* run may be executed more than once, and two executions may overlap.     *)
(* The only thing they share is the database: the run's row, its steps     *)
(* (unique per run and number) and the artefact they record.               *)
(*                                                                         *)
(* An investigation is identified by the execution that created it, an     *)
(* ideation by its run, which names it in config_snapshot.                 *)
(*                                                                         *)
(* Abstractions: prompts, histories and tool outputs are what the turn     *)
(* leads to (another turn, an exception, an artefact or a closing text);   *)
(* costs are small naturals; the totals a save writes on the row are left  *)
(* out; the clock is a budget that may be used up whenever the loop looks  *)
(* at it.  The loop's sanity limit of a thousand turns is above every      *)
(* MaxSteps.                                                               *)
(***************************************************************************)
EXTENDS AgentTools, Integers, FiniteSets, FiniteSetsExt

CONSTANTS
  InvestigationRun,  \* the ids of the runs start_investigation may create
  IdeationRun,       \* and of those start_ideation may
  MaxDeliveries,     \* bound of the model: executions of one run
  MaxRedeliveries,   \* bound of the model: executions beyond the first, of all runs
  MaxSteps,          \* budget_max_steps of each run
  MaxCost,           \* budget_max_cost_usd of each run
  StepCost           \* what one model call may cost

ASSUME RunAssumption        == InvestigationRun \cap IdeationRun = {}
ASSUME DeliveriesAssumption == MaxDeliveries \in Nat \ {0} /\ MaxRedeliveries \in Nat
ASSUME BudgetAssumption     == /\ MaxSteps \in [InvestigationRun \cup IdeationRun -> Nat]
                               /\ MaxCost \in [InvestigationRun \cup IdeationRun -> Nat]
                               /\ StepCost \subseteq Nat

VARIABLES
  rows,     \* AgentRun: the committed rows
  steps,    \* AgentStep: the steps of each run
  invs,     \* Investigation.status, by the execution that created it
  ideas,    \* Ideation, by its run
  sent,     \* the runs a run_agent_loop message was sent for
  work,     \* the executions: what each process holds in memory
  opened    \* promote_investigation transactions that have not committed

vars == <<rows, steps, invs, ideas, sent, work, opened>>

Run == InvestigationRun \cup IdeationRun
Delivery == 1..MaxDeliveries
Exec == Run \X Delivery

NoRow  == [status |-> "absent"]
NoIdea == [status |-> "absent"]
NoInv  == <<>>

RunStatus == {"running", "completed", "failed", "killed", "budget_exhausted"}
BudgetReason == {"budget_steps", "budget_cost", "budget_duration"}
Reason == BudgetReason \cup {"none", "agent_decided_done", "error", "killed_by_human"}
Output == {"none", "brief", "ideation", "text"}
Row == [agent: {"investigation", "ideation"}, status: RunStatus, reason: Reason,
        output: Output]
Step == [number: Nat, cost: StepCost, by: Delivery]
InvStatus == {"awaiting_review", "promoted", "rejected", "stale"}
Idea == [status: {"draft", "awaiting_review", "accepted", "rejected"}, of: Exec,
         trigger: {"promote", "manual"}, by: {0} \cup Delivery]
Pcs == {"waiting", "no_row", "unbegun", "top", "model", "tools", "save", "done", "dead"}
Working == {"top", "model", "tools", "save"}
Local == [pc: Pcs, status: RunStatus, reason: Reason, output: Output, steps: Nat, cost: Nat]

NewRow(agent) == [agent |-> agent, status |-> "running", reason |-> "none", output |-> "none"]
Waiting == [pc |-> "waiting", status |-> "running", reason |-> "none",
            output |-> "none", steps |-> 0, cost |-> 0]

Init ==
  /\ rows = [r \in Run |-> NoRow]
  /\ steps = [r \in Run |-> {}]
  /\ invs = [e \in Exec |-> "absent"]
  /\ ideas = [r \in Run |-> NoIdea]
  /\ sent = {}
  /\ work = [e \in Exec |-> Waiting]
  /\ opened = [r \in Run |-> NoInv]

Unused(r) == rows[r] = NoRow /\ ideas[r] = NoIdea /\ opened[r] = NoInv /\ r \notin sent

\* _lock_investigation: the row lock an open promotion holds.
Locked(i) == \E r \in Run : opened[r] = i

-----------------------------------------------------------------------------
(* Starting runs.  start_run commits the row and then sends the message:   *)
(* the process may die between the two.                                    *)

StartInvestigation(r) ==
  /\ Unused(r)
  /\ rows' = [rows EXCEPT ![r] = NewRow("investigation")]
  /\ UNCHANGED <<steps, invs, ideas, sent, work, opened>>

\* re_ideate_view: start_ideation outside any transaction, for an
\* investigation in whatever status.
ReIdeate(i, r) ==
  /\ Unused(r)
  /\ invs[i] # "absent"
  /\ ideas' = [ideas EXCEPT ![r] = [status |-> "draft", of |-> i, trigger |-> "manual", by |-> 0]]
  /\ UNCHANGED <<rows, steps, invs, sent, work, opened>>

StartIdeationRun(r) ==
  /\ ideas[r] # NoIdea
  /\ rows[r] = NoRow
  /\ rows' = [rows EXCEPT ![r] = NewRow("ideation")]
  /\ UNCHANGED <<steps, invs, ideas, sent, work, opened>>

Enqueue(r) ==
  /\ rows[r] # NoRow
  /\ r \notin sent
  /\ sent' = sent \cup {r}
  /\ UNCHANGED <<rows, steps, invs, ideas, work, opened>>

\* Variant: the status is flipped before the transaction is opened.
PromoteFlipsFirst(i, r) ==
  /\ Unused(r)
  /\ invs[i] = "awaiting_review"
  /\ ~Locked(i)
  /\ opened' = [opened EXCEPT ![r] = i]
  /\ invs' = [invs EXCEPT ![i] = "promoted"]
  /\ sent' = sent \cup {r}
  /\ UNCHANGED <<rows, steps, ideas, work>>

\* promote_investigation: the status check under the row lock, the flip, the
\* ideation and its run in one transaction, the message sent from inside it.
PromoteOpen(i, r) ==
  /\ Unused(r)
  /\ invs[i] = "awaiting_review"
  /\ ~Locked(i)
  /\ opened' = [opened EXCEPT ![r] = i]
  /\ sent' = sent \cup {r}
  /\ UNCHANGED <<rows, steps, invs, ideas, work>>

PromoteCommit(r) ==
  /\ opened[r] # NoInv
  /\ invs' = [invs EXCEPT ![opened[r]] = "promoted"]
  /\ ideas' = [ideas EXCEPT ![r] =
                 [status |-> "draft", of |-> opened[r], trigger |-> "promote", by |-> 0]]
  /\ rows' = [rows EXCEPT ![r] = NewRow("ideation")]
  /\ opened' = [opened EXCEPT ![r] = NoInv]
  /\ UNCHANGED <<steps, sent, work>>

\* The process dies, or the update after the enqueue fails.
PromoteRollback(r) ==
  /\ opened[r] # NoInv
  /\ opened' = [opened EXCEPT ![r] = NoInv]
  /\ UNCHANGED <<rows, steps, invs, ideas, sent, work>>

-----------------------------------------------------------------------------
(* run_loop                                                                *)

At(e, pc) == work[e].pc = pc
Goto(e, pc) == work' = [work EXCEPT ![e].pc = pc]

\* The execution is over: its memory is gone.
Vanish(e, pc) == work' = [work EXCEPT ![e] = [Waiting EXCEPT !.pc = pc]]

\* The loop is left: what the finally block will save.
Leave(e, status, reason) ==
  work' = [work EXCEPT ![e].pc = "save", ![e].status = status, ![e].reason = reason]

LeaveDone(e, output) ==
  work' = [work EXCEPT ![e].pc = "save", ![e].status = "completed",
                       ![e].reason = "agent_decided_done", ![e].output = output]

\* Variant: only the number of steps is limited.
StepsExhausted(r, taken, cost) == IF taken >= MaxSteps[r] THEN "budget_steps" ELSE "none"

\* ContextBudget.is_exhausted, before the clock.
IsExhausted(r, taken, cost) ==
  IF taken >= MaxSteps[r] THEN "budget_steps"
  ELSE IF cost >= MaxCost[r] THEN "budget_cost" ELSE "none"

\* The broker delivers the message once more.
Redelivered(e) ==
  /\ ~At(<<e[1], e[2] - 1>>, "waiting")
  /\ Cardinality({f \in Exec : f[2] > 1 /\ ~At(f, "waiting")}) < MaxRedeliveries

\* AgentRun.objects.get: the copy every later save writes back.  What comes
\* before the try may raise, and no finally block saves that.
Pickup(e) ==
  LET r == e[1] IN
  /\ At(e, "waiting")
  /\ r \in sent
  /\ e[2] > 1 => Redelivered(e)
  /\ IF rows[r] = NoRow
       THEN Vanish(e, "no_row")
       ELSE \/ Vanish(e, "unbegun")
            \/ work' = [work EXCEPT ![e] =
                 [pc |-> "top", status |-> rows[r].status, reason |-> rows[r].reason,
                  output |-> rows[r].output, steps |-> 0, cost |-> 0]]
  /\ UNCHANGED <<rows, steps, invs, ideas, sent, opened>>

Top(e) ==
  LET stop == IsExhausted(e[1], work[e].steps, work[e].cost) IN
  /\ At(e, "top")
  /\ IF rows[e[1]].status = "killed" THEN Leave(e, "killed", "killed_by_human")
     ELSE IF stop # "none" THEN Leave(e, "budget_exhausted", stop)
     ELSE Goto(e, "model") \/ Leave(e, "budget_exhausted", "budget_duration")
  /\ UNCHANGED <<rows, steps, invs, ideas, sent, opened>>

\* Variant: an index on the run and the step number that is not unique.
StepNotUnique(r, n) == FALSE

\* The unique constraint of AgentStep on the run and the step number.
StepTaken(r, n) == \E s \in steps[r] : s.number = n

\* Variant: a step that is there already is taken for the execution's own.
ReplyGetOrCreate(e, c) ==
  LET n == work[e].steps + 1 IN
  /\ At(e, "model")
  /\ work' = [work EXCEPT ![e].pc = "tools", ![e].steps = n, ![e].cost = @ + c]
  /\ steps' = IF StepTaken(e[1], n) THEN steps
              ELSE [steps EXCEPT ![e[1]] = @ \cup {[number |-> n, cost |-> c, by |-> e[2]]}]
  /\ UNCHANGED <<rows, invs, ideas, sent, opened>>

\* The model answers: its cost is counted, then the step is inserted.
Reply(e, c) ==
  LET n == work[e].steps + 1
      counted == [work[e] EXCEPT !.steps = n, !.cost = @ + c]
  IN
  /\ At(e, "model")
  /\ IF StepTaken(e[1], n)
       THEN /\ work' = [work EXCEPT ![e] = [counted EXCEPT !.pc = "save", !.status = "failed",
                                                           !.reason = "error"]]
            /\ UNCHANGED steps
       ELSE /\ work' = [work EXCEPT ![e] = [counted EXCEPT !.pc = "tools"]]
            /\ steps' = [steps EXCEPT ![e[1]] = @ \cup {[number |-> n, cost |-> c, by |-> e[2]]}]
  /\ UNCHANGED <<rows, invs, ideas, sent, opened>>

\* Variant: the exception leaves the loop without the finally block.
RaiseUnsaved(e) ==
  /\ At(e, "model") \/ At(e, "tools")
  /\ Vanish(e, "done")
  /\ UNCHANGED <<rows, steps, invs, ideas, sent, opened>>

\* _call_model raises, or a tool of the turn is not in the registry, raises or
\* answers a status the step cannot hold.
Raise(e) ==
  /\ At(e, "model") \/ At(e, "tools")
  /\ Leave(e, "failed", "error")
  /\ UNCHANGED <<rows, steps, invs, ideas, sent, opened>>

\* Bare reasoning, or tools that answered without recording an artefact.
GoOn(e) ==
  /\ At(e, "tools")
  /\ Goto(e, "top")
  /\ UNCHANGED <<rows, steps, invs, ideas, sent, opened>>

\* The registry hands out every agent's tools: any run may record a brief.
RecordBrief(e) ==
  /\ At(e, "tools")
  /\ LeaveDone(e, "brief")
  /\ invs' = [invs EXCEPT ![e] = "awaiting_review"]
  /\ UNCHANGED <<rows, steps, ideas, sent, opened>>

\* Ideation.objects.filter(pk=...).update(...), whatever its status is: no row
\* at all for a run that is not an ideation's.
RecordIdeation(e) ==
  /\ At(e, "tools")
  /\ LeaveDone(e, "ideation")
  /\ ideas' = IF ideas[e[1]] = NoIdea THEN ideas
              ELSE [ideas EXCEPT ![e[1]].status = "awaiting_review", ![e[1]].by = e[2]]
  /\ UNCHANGED <<rows, steps, invs, sent, opened>>

FinalText(e) ==
  /\ At(e, "tools")
  /\ LeaveDone(e, "text")
  /\ UNCHANGED <<rows, steps, invs, ideas, sent, opened>>

\* The finally block: run.save() writes every field of the copy.
Save(e) ==
  /\ At(e, "save")
  /\ rows' = [rows EXCEPT ![e[1]] =
       [agent |-> @.agent, status |-> work[e].status, reason |-> work[e].reason,
        output |-> work[e].output]]
  /\ Vanish(e, "done")
  /\ UNCHANGED <<steps, invs, ideas, sent, opened>>

\* The worker process is lost: no finally block, no redelivery of its own.
Crash(e) ==
  /\ work[e].pc \in Working
  /\ Vanish(e, "dead")
  /\ UNCHANGED <<rows, steps, invs, ideas, sent, opened>>

-----------------------------------------------------------------------------
(* What humans do                                                          *)

Kill(r) ==
  /\ rows[r] # NoRow
  /\ rows[r].status = "running"
  /\ rows' = [rows EXCEPT ![r].status = "killed", ![r].reason = "killed_by_human"]
  /\ UNCHANGED <<steps, invs, ideas, sent, work, opened>>

Reject(i) ==
  /\ invs[i] = "awaiting_review"
  /\ ~Locked(i)
  /\ invs' = [invs EXCEPT ![i] = "rejected"]
  /\ UNCHANGED <<rows, steps, ideas, sent, work, opened>>

\* mark_stale_one: no precondition on the status.
MarkStale(i) ==
  /\ invs[i] # "absent"
  /\ ~Locked(i)
  /\ invs' = [invs EXCEPT ![i] = "stale"]
  /\ UNCHANGED <<rows, steps, ideas, sent, work, opened>>

\* The admin's accept and reject actions: one conditional UPDATE.
Decide(r, verdict) ==
  /\ ideas[r].status = "awaiting_review"
  /\ ideas' = [ideas EXCEPT ![r].status = verdict]
  /\ UNCHANGED <<rows, steps, invs, sent, work, opened>>

-----------------------------------------------------------------------------
Start ==
  \/ \E r \in InvestigationRun : StartInvestigation(r)
  \/ \E r \in Run : Enqueue(r)
  \/ \E r \in IdeationRun : \/ \E i \in Exec : ReIdeate(i, r) \/ PromoteOpen(i, r)
                          \/ StartIdeationRun(r)
                          \/ PromoteCommit(r)
                          \/ PromoteRollback(r)

Continue(e) ==
  \/ Top(e)
  \/ \E c \in StepCost : Reply(e, c)
  \/ Raise(e)
  \/ GoOn(e)
  \/ RecordBrief(e)
  \/ RecordIdeation(e)
  \/ FinalText(e)
  \/ Save(e)

RunLoop(e) == Pickup(e) \/ Continue(e)

Human ==
  \/ \E r \in Run : Kill(r) \/ \E verdict \in {"accepted", "rejected"} : Decide(r, verdict)
  \/ \E i \in Exec : Reject(i) \/ MarkStale(i)

Next == Start \/ (\E e \in Exec : RunLoop(e) \/ Crash(e)) \/ Human

\* The broker hands a message over to some worker at least once, and a worker
\* that is up goes on with the task it has.  Nothing redelivers for certain.
Fairness ==
  /\ \A r \in Run : WF_vars(Pickup(<<r, 1>>))
  /\ \A e \in Exec : WF_vars(Continue(e))

Spec == Init /\ [][Next]_vars
FairSpec == Spec /\ Fairness

-----------------------------------------------------------------------------
(* Properties                                                              *)

\* The rows, the steps and the processes have the shapes above, and every
\* answer a tool may give fits the status column of the step.
TypeOK ==
  /\ \A t \in DOMAIN Implementation : Dispatch(t) \ {Raises} \subseteq ToolStatus
  /\ rows \in [Run -> Row \cup {NoRow}]
  /\ steps \in [Run -> SUBSET Step]
  /\ invs \in [Exec -> InvStatus \cup {"absent"}]
  /\ ideas \in [Run -> Idea \cup {NoIdea}]
  /\ sent \subseteq Run
  /\ work \in [Exec -> Local]
  /\ opened \in [Run -> Exec \cup {NoInv}]

\* However often a run is delivered, its log is the log of one execution,
\* without a gap: of two that overlap, the slower loses its first insert.
OneAuthor ==
  \A r \in Run :
    \A s \in steps[r] :
      /\ \A t \in steps[r] : t.by = s.by /\ (t.number = s.number => t = s)
      /\ \A n \in 1..s.number : \E t \in steps[r] : t.number = n

\* A run leaves at most one investigation behind, and the execution that
\* recorded the artefact is the author of the log: the investigation or the
\* ideation a human reviews is backed by the trajectory the run shows.
OneResult ==
  \A e \in Exec :
    invs[e] # "absent" \/ (ideas[e[1]] # NoIdea /\ ideas[e[1]].by = e[2])
      => /\ steps[e[1]] # {}
         /\ \A s \in steps[e[1]] : s.by = e[2]

\* What the steps of a log cost.
Spent(log) == SumFunctionOnSet([t \in log |-> t.cost], log)

\* Budgets bound what the run's log adds up to, not what each execution
\* believes it has spent: no recorded step was begun with the budget used up.
BudgetHolds ==
  \A r \in Run : \A s \in steps[r] :
    LET before == {t \in steps[r] : t.number < s.number}
    IN /\ Cardinality(before) < MaxSteps[r]
       /\ Spent(before) < MaxCost[r]

\* A promotion is all or nothing and happens once: an investigation has an
\* ideation by promotion exactly when its status was flipped, whatever
\* promotions are rolled back half-way and however callers race.
PromotedOnce ==
  \A i \in Exec :
    LET promotions == {r \in Run : ideas[r] # NoIdea /\ ideas[r].of = i
                                     /\ ideas[r].trigger = "promote"}
    IN /\ Cardinality(promotions) <= 1
       /\ invs[i] = "promoted" => promotions # {}
       /\ invs[i] \in {"absent", "awaiting_review", "rejected"} => promotions = {}

\* What a human decided about an ideation stands: no late or duplicate
\* execution of its run writes it again.
DecisionStands ==
  [][\A r \in Run : ideas[r] # NoIdea /\ ideas[r].status \in {"accepted", "rejected"}
       => ideas'[r] = ideas[r]]_vars

\* The execution left no trace on the row: its worker died, the row was not
\* committed yet, or it raised before the try.
Lost(e) == work[e].pc \in {"dead", "no_row", "unbegun"}

\* A run whose message was sent does not stay running while any execution of
\* it is left to end it: the first and every redelivered one have to be lost.
RunEnds ==
  \A r \in Run :
    (r \in sent /\ rows[r] # NoRow)
      ~> \/ rows[r].status # "running"
         \/ /\ Lost(<<r, 1>>)
            /\ \A d \in Delivery : At(<<r, d>>, "waiting") \/ Lost(<<r, d>>)
=============================================================================
