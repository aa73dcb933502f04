-------------------------- MODULE DiscoveryWorkers --------------------------
(***************************************************************************)
(* The callers of DiscoveryStore under the OpenRouter batch runtime: the   *)
(* Celery workers of discovery/loop.py, the beat of discovery/tasks.py,    *)
(* the model calls of discovery/runtime.py with their durable operation    *)
(* rows (discovery/research.py), the broker, the clock and the human.      *)
(*                                                                         *)
(* A worker holds in memory what the Python objects hold: its task, the    *)
(* token it claimed it with, the call it is at and the operation row as it *)
(* read it, with what the provider answered since.  Between two steps of   *)
(* one worker anything else may happen: its lease may run out, another     *)
(* worker may take the task, a human may cancel, the process may die.      *)
(*                                                                         *)
(* Abstractions: a response is the id of the batch, or the model's answer: *)
(* a submission the role may hand over now, or one of three answers that   *)
(* hand nothing over; costs are a flag that may go up whenever a call      *)
(* completes; research calls only take time or raise.                      *)
(***************************************************************************)
EXTENDS DiscoveryStore

CONSTANTS
  Worker,
  MaxCalls,     \* config.max_model_calls_per_turn
  MaxCrashes,   \* bound of the model: process deaths in a behaviour
  Limits,       \* the run-wide limits that may run out in this instance
  PromptCalls,  \* no lease runs out between its renewal and the end of the
                \* model call that follows: only research outlasts a lease
  Prose,        \* an answer without a submission
  Refused,      \* an answer whose submission commit_turn refuses
  Several,      \* an answer with more than one submission
  Batch         \* a response that names the batch and holds no answer

ASSUME MaxCallsAssumption == MaxCalls \in Nat \ {0}
ASSUME MaxCrashesAssumption == MaxCrashes \in Nat
ASSUME LimitsAssumption   == Limits \subseteq LimitReasons
ASSUME AnswerAssumption   == {Prose, Refused, Several, Batch} \cap (Submission \cup {NoRevision}) = {}
ASSUME BatchAssumption    == Batch \notin {Prose, Refused, Several}

VARIABLES
  worker,     \* the local state of each worker process
  op,         \* ResearchOperation.state of each model call of each turn
  context,    \* DiscoveryTask.context: model_index and pending_model_key
  answer,     \* ResearchOperation.response of each model call
  posts,      \* how often each call was submitted to the provider
  broker,     \* the tasks run_discovery_turn messages are under way for
  exhausted,  \* the run-wide limits used up
  crashes     \* process deaths so far

callVars == <<op, context, answer, posts>>
envVars  == <<broker, exhausted, crashes>>
allVars  == <<vars, worker, callVars, envVars>>

Calls == 1..MaxCalls
NoContext == [call |-> 0, pending |-> FALSE]
OpStates == {"none", "planned", "started", "pending", "completed", "failed", "unknown"}
Unresolved == {"started", "unknown"}

\* Where a worker is: between tasks, in a model call, or on its way out.
InCall == {"resume", "calling", "posting", "answered", "tools", "submitting", "saving",
           "parking", "parked"}
Pcs == {"idle", "fresh", "briefed", "top", "stopping", "failing"} \cup InCall

Responses == Submission \cup {NoRevision, Prose, Refused, Several, Batch}

\* saw and got are the state and the response of the operation in memory; once
\* the provider answered, got is what it answered.
WorkerState ==
  [pc: Pcs, turn: Turns, token: Token \cup {NoToken}, call: 0..(MaxCalls + 1),
   saw: OpStates, got: Responses, why: StopReasons \cup {"none"}]

Idle == [pc |-> "idle", turn |-> 1, token |-> NoToken, call |-> 0, saw |-> "none",
         got |-> NoRevision, why |-> "none"]

\* What check_limits and commit_turn find exhausted, in the order they look.
Exhausted ==
  IF "duration_limit" \in exhausted THEN "duration_limit"
  ELSE IF "cost_limit" \in exhausted THEN "cost_limit" ELSE "none"

-----------------------------------------------------------------------------
(* Steps of a worker                                                       *)

At(w, pc) == worker[w].pc = pc
Owns(w) == LeaseHeld(worker[w].turn, worker[w].token)

Goto(w, pc) == worker' = [worker EXCEPT ![w].pc = pc, ![w].saw = "none"]
Quit(w) == worker' = [worker EXCEPT ![w] = Idle]
Raise(w, pc, reason) ==
  worker' = [worker EXCEPT ![w].pc = pc, ![w].saw = "none", ![w].got = NoRevision,
                           ![w].why = reason]

\* Variant: every row of the task is marked, whatever its state.
UnresolveAll(t, states) == [c \in Calls |-> IF op[t][c] # "none" THEN "unknown" ELSE "none"]

\* The rows of a task's calls after those in states were marked unknown.
Unresolve(t, states) == [c \in Calls |-> IF op[t][c] \in states THEN "unknown" ELSE op[t][c]]

\* An exception: run_task marks the calls of the task that look unresolved,
\* and will end the discovery in a step of its own.
Fails(w, reason) ==
  /\ Raise(w, "failing", reason)
  /\ op' = [op EXCEPT ![worker[w].turn] = Unresolve(worker[w].turn, {"started"})]

FailsUnknown(w) ==
  /\ Raise(w, "failing", "provider_error")
  /\ op' = [op EXCEPT ![worker[w].turn] = Unresolve(worker[w].turn, {"started", "pending"})]

\* LostLease: the worker stops and leaves everything to the task's owner.
LosesLease(w) == ~Owns(w) /\ Quit(w) /\ UNCHANGED <<vars, callVars, envVars>>

\* DiscoveryStop out of check_limits.
HitsLimit(w) ==
  /\ Owns(w)
  /\ Exhausted # "none"
  /\ Raise(w, "stopping", Exhausted)
  /\ UNCHANGED <<vars, callVars, envVars>>

MayGoOn(w) == Owns(w) /\ Exhausted = "none"

\* A message is delivered, perhaps not for the last time: run_task claims the
\* task, unless it is over, taken, or blocked by a call whose outcome is open.
Blocked(t) == \E c \in Calls : op[t][c] \in Unresolved

Fresh(k) == \A w \in Worker : worker[w].token # k

Claimed(w, t, k) ==
  [worker EXCEPT ![w] = [Idle EXCEPT
     !.pc = IF context[t] = NoContext THEN "fresh"
            ELSE IF context[t].pending THEN "resume" ELSE "top",
     !.turn = t, !.token = k, !.call = context[t].call]]

Deliver(w, t) ==
  /\ At(w, "idle")
  /\ t \in broker
  /\ broker' \in {broker, broker \ {t}}
  /\ \/ /\ ~Claimable(t)
        /\ UNCHANGED <<vars, worker>>
     \/ \E k \in Token :
          /\ Fresh(k) /\ token[t] # k
          /\ ClaimTask(t, k, Blocked(t))
          /\ worker' = IF Blocked(t) THEN worker ELSE Claimed(w, t, k)
  /\ UNCHANGED <<callVars, exhausted, crashes>>

\* _initial_context of a task without a context reads the inbox; only then is
\* the context saved, under the lease.
ReadMail(w) ==
  LET r == role[worker[w].turn] IN
  /\ At(w, "fresh")
  /\ Goto(w, "briefed")
  /\ IF Inbox(r) = {} THEN UNCHANGED vars ELSE ReadInbox(r)
  /\ UNCHANGED <<callVars, envVars>>

\* Variant: the call in hand is not named as pending.
SaveContextWithoutKey(w, call, pending) ==
  context' = [context EXCEPT ![worker[w].turn] = [call |-> call, pending |-> FALSE]]

SaveContext(w, call, pending) ==
  context' = [context EXCEPT ![worker[w].turn] = [call |-> call, pending |-> pending]]

SaveFirstContext(w) ==
  /\ At(w, "briefed")
  /\ \/ LosesLease(w)
     \/ /\ Owns(w)
        /\ SaveContext(w, 1, FALSE)
        /\ worker' = [worker EXCEPT ![w].pc = "top", ![w].call = 1]
        /\ UNCHANGED <<vars, op, answer, posts, envVars>>

\* The head of the loop without a pending call: begin_operation and the cursor
\* that names it, in one transaction.  The next call may be one too many, may
\* not fit the budget that is left, or not the model's context.
Begin(w) ==
  LET t == worker[w].turn
      c == worker[w].call
  IN
  /\ At(w, "top")
  /\ \/ LosesLease(w)
     \/ HitsLimit(w)
     \/ /\ MayGoOn(w)
        /\ \/ c > MaxCalls /\ Raise(w, "stopping", "turn_call_limit") /\ UNCHANGED op
           \/ c <= MaxCalls /\ Raise(w, "stopping", "cost_limit") /\ UNCHANGED op
           \/ Fails(w, "provider_error")
        /\ UNCHANGED <<vars, context, answer, posts, envVars>>
     \/ /\ MayGoOn(w)
        /\ c <= MaxCalls
        /\ op' = [op EXCEPT ![t][c] = "planned"]
        /\ SaveContext(w, c, TRUE)
        /\ worker' = [worker EXCEPT ![w].pc = "calling", ![w].saw = "planned"]
        /\ UNCHANGED <<vars, answer, posts, envVars>>

\* The head of the loop with a pending call: its row is read, without a lock.
Resume(w) ==
  /\ At(w, "resume")
  /\ \/ LosesLease(w)
     \/ HitsLimit(w)
     \/ /\ MayGoOn(w)
        /\ LET t == worker[w].turn
               c == worker[w].call
           IN worker' = [worker EXCEPT ![w].pc = "calling", ![w].saw = op[t][c],
                                       ![w].got = answer[t][c]]
        /\ UNCHANGED <<vars, callVars, envVars>>

\* advance, by the state that was read.  The write before the POST asks for no
\* lease.
Saw(w, s) == At(w, "calling") /\ worker[w].saw = s

\* Variant: the row is only written after the POST.
MarkNothing(w) ==
  /\ Saw(w, "planned")
  /\ Goto(w, "posting")
  /\ UNCHANGED <<vars, callVars, envVars>>

MarkStarted(w) ==
  /\ Saw(w, "planned")
  /\ op' = [op EXCEPT ![worker[w].turn][worker[w].call] = "started"]
  /\ Goto(w, "posting")
  /\ UNCHANGED <<vars, context, answer, posts, envVars>>

Posted(w) == [posts EXCEPT ![worker[w].turn][worker[w].call] = IF @ < 2 THEN @ + 1 ELSE @]

\* The response in memory is written to the row, whatever the row holds by now.
Responded(w, a) == [answer EXCEPT ![worker[w].turn][worker[w].call] = a]

\* The POST and its outcome: a batch id, a refusal, or neither (no answer, a
\* server error, no id), after which the run fails.
Post(w) ==
  LET t == worker[w].turn
      c == worker[w].call
  IN
  /\ At(w, "posting")
  /\ posts' = Posted(w)
  /\ \/ /\ op' = [op EXCEPT ![t][c] = "pending"]
        /\ answer' = Responded(w, Batch)
        /\ Goto(w, "parking")
     \/ /\ op' = [op EXCEPT ![t] = [Unresolve(t, {"started"}) EXCEPT ![c] = "failed"]]
        /\ Raise(w, "failing", "provider_error")
        /\ UNCHANGED answer
     \/ /\ op' = [op EXCEPT ![t] = [Unresolve(t, {"started", "pending"}) EXCEPT ![c] = "unknown"]]
        /\ Raise(w, "failing", "provider_error")
        /\ UNCHANGED answer
  /\ UNCHANGED <<vars, context, envVars>>

Answers(t) ==
  {s \in Submissions(role[t]) : Accepted(t, s)} \cup {Prose, Refused, Several}

\* The poll of a submitted batch: unreachable, or it says how the batch is
\* doing: not finished, failed for good (the row stays pending), without its
\* cost, or answered.  What it says is saved with the response in memory.
Poll(w) ==
  /\ Saw(w, "pending")
  /\ \/ /\ answer' \in {answer, Responded(w, worker[w].got)}
        /\ \/ Goto(w, "parking") /\ UNCHANGED op
           \/ Fails(w, "provider_error")
     \/ /\ answer' = Responded(w, worker[w].got)
        /\ \/ FailsUnknown(w)
           \/ /\ \E a \in Answers(worker[w].turn) :
                   worker' = [worker EXCEPT ![w].pc = "answered", ![w].saw = "none", ![w].got = a]
              /\ UNCHANGED op
  /\ UNCHANGED <<vars, context, posts, envVars>>

\* A call that is completed is not made again; one whose outcome is open, or
\* that was refused, fails the run.
Reuse(w) ==
  /\ Saw(w, "completed")
  /\ Goto(w, "answered")
  /\ UNCHANGED <<vars, callVars, envVars>>

GiveUp(w) ==
  /\ \/ (\E s \in Unresolved : Saw(w, s)) /\ FailsUnknown(w)
     \/ Saw(w, "failed") /\ Fails(w, "provider_error")
  /\ UNCHANGED <<vars, context, answer, posts, envVars>>

\* Variant: the answer is kept, the row stays as it is.
StoreAnswerOnly(w, t, c) == UNCHANGED op /\ answer' = Responded(w, worker[w].got)

StoreAnswer(w, t, c) ==
  /\ op' = [op EXCEPT ![t][c] = "completed"]
  /\ answer' = Responded(w, worker[w].got)

\* complete_operation: the answer and its cost are stored under the lease,
\* unless the cost makes no sense; a charge above the reservation stops the run.
\* If the row is completed by now it stays as it is; the worker goes on with
\* the answer it has.
Complete(w) ==
  LET t == worker[w].turn
      c == worker[w].call
  IN
  /\ At(w, "answered")
  /\ \/ LosesLease(w)
     \/ /\ Owns(w)
        /\ \/ /\ op[t][c] = "completed"
              /\ Goto(w, "tools")
              /\ UNCHANGED <<op, answer, exhausted>>
           \/ /\ op[t][c] # "completed"
              /\ StoreAnswer(w, t, c)
              /\ exhausted' \in {exhausted, exhausted \cup (Limits \cap {"cost_limit"})}
              /\ Goto(w, "tools") \/ Raise(w, "stopping", "cost_limit")
           \/ /\ op[t][c] # "completed"
              /\ Fails(w, "provider_error")
              /\ UNCHANGED <<answer, exhausted>>
        /\ UNCHANGED <<vars, context, posts, broker, crashes>>

\* The tool calls of the answer: research, which renews no lease and may raise
\* or hit a limit, then what the answer submits.  A response without an answer
\* has no message.
Tools(w) ==
  LET a == worker[w].got IN
  /\ At(w, "tools")
  /\ \/ LosesLease(w)
     \/ HitsLimit(w)
     \/ /\ \/ a # Several /\ Fails(w, "provider_error")
           \/ MayGoOn(w) /\ a = Several /\ Fails(w, "invalid_submission")
        /\ UNCHANGED <<vars, context, answer, posts, envVars>>
     \/ /\ a \notin {Several, Batch}
        /\ \/ Owns(w) /\ \E limit \in {"turn_call_limit", "cost_limit"} : Raise(w, "stopping", limit)
           \/ MayGoOn(w) /\ Goto(w, IF a = Prose THEN "saving" ELSE "submitting")
        /\ UNCHANGED <<vars, callVars, envVars>>

\* commit_turn.  On a task that is done it accepts the submission on record and
\* raises for any other; a refusal goes back to the model as the next input.
SubmitTurn(w) ==
  LET t == worker[w].turn
      a == worker[w].got
  IN
  /\ At(w, "submitting")
  /\ \/ /\ state[t] = "done" /\ revision[t] # a
        /\ Fails(w, "provider_error")
        /\ UNCHANGED vars
     \/ /\ \/ state[t] = "done" /\ revision[t] = a
           \/ state[t] # "done" /\ ~Owns(w)
        /\ Quit(w)
        /\ UNCHANGED <<vars, op>>
     \/ /\ a = Refused
        /\ Goto(w, "saving")
        /\ UNCHANGED <<vars, op>>
     \/ /\ a # Refused \/ Exhausted # "none"
        /\ CommitTurn(t, worker[w].token, a, Exhausted)
        /\ Quit(w)
        /\ UNCHANGED op
  /\ UNCHANGED <<context, answer, posts, envVars>>

\* The end of the loop's body: the cursor moves on to the next call.
SaveNextContext(w) ==
  LET next == worker[w].call + 1 IN
  /\ At(w, "saving")
  /\ \/ LosesLease(w)
     \/ /\ Owns(w)
        /\ SaveContext(w, next, FALSE)
        /\ worker' = [worker EXCEPT ![w].pc = "top", ![w].call = next, ![w].got = NoRevision]
        /\ UNCHANGED <<vars, op, answer, posts, envVars>>

\* BatchPending: the task is released, and then a message for it is scheduled.
Park(w) ==
  /\ At(w, "parking")
  /\ \/ LosesLease(w)
     \/ /\ ReleaseTask(worker[w].turn, worker[w].token)
        /\ Goto(w, "parked")
        /\ UNCHANGED <<callVars, envVars>>

Reschedule(w) ==
  /\ At(w, "parked")
  /\ broker' = broker \cup {worker[w].turn}
  /\ Quit(w)
  /\ UNCHANGED <<vars, callVars, exhausted, crashes>>

\* The exception handlers of run_task that end the discovery ask for no lease.
EndDiscovery(w) ==
  /\ worker[w].pc \in {"stopping", "failing"}
  /\ IF status \in Ongoing
     THEN FinishDiscovery(worker[w].why, IF At(w, "failing") THEN "failed" ELSE "completed")
     ELSE UNCHANGED vars
  /\ Quit(w)
  /\ UNCHANGED <<callVars, envVars>>

Work(w) ==
  \/ ReadMail(w) \/ SaveFirstContext(w)
  \/ Begin(w) \/ Resume(w)
  \/ MarkStarted(w) \/ Post(w) \/ Poll(w) \/ Reuse(w) \/ GiveUp(w)
  \/ Complete(w) \/ Tools(w) \/ SubmitTurn(w) \/ SaveNextContext(w)
  \/ Park(w) \/ Reschedule(w) \/ EndDiscovery(w)

-----------------------------------------------------------------------------
(* Beat, broker, clock, human, and what goes wrong                         *)

\* dispatch_pending, of a row that is due and whose task is to be taken up.
\* apply_async is called inside the transaction that marks the row published:
\* the message may be out and the mark lost.
Repair == (\E T \in SUBSET Turns : Redispatch(T)) /\ UNCHANGED <<worker, callVars, envVars>>

Publish(t) ==
  /\ dispatch[t] = "due"
  /\ state[t] \in Active /\ status \in Ongoing
  /\ broker' = broker \cup {t}
  /\ MarkPublished(t) \/ UNCHANGED vars
  /\ UNCHANGED <<worker, callVars, exhausted, crashes>>

Lose(t) ==
  /\ t \in broker
  /\ broker' = broker \ {t}
  /\ UNCHANGED <<vars, worker, callVars, exhausted, crashes>>

Begun == StartDiscovery /\ UNCHANGED <<worker, callVars, envVars>>

Cancel ==
  /\ FinishDiscovery("human_cancelled", "cancelled")
  /\ UNCHANGED <<worker, callVars, envVars>>

\* max_duration_s runs from the first claim.
TimeIsUp ==
  /\ status = "running"
  /\ "duration_limit" \in Limits \ exhausted
  /\ exhausted' = exhausted \cup {"duration_limit"}
  /\ UNCHANGED <<vars, worker, callVars, broker, crashes>>

Holders(t) == {w \in Worker : ~At(w, "idle") /\ worker[w].turn = t /\ worker[w].token = token[t]}

Expire(t) ==
  /\ PromptCalls => \A w \in Holders(t) : At(w, "tools")
  /\ LeaseExpires(t)
  /\ UNCHANGED <<worker, callVars, envVars>>

\* The process dies; a POST it was making may have arrived.
Crash(w) ==
  /\ crashes < MaxCrashes
  /\ crashes' = crashes + 1
  /\ ~At(w, "idle")
  /\ posts' \in IF At(w, "posting") THEN {posts, Posted(w)} ELSE {posts}
  /\ Quit(w)
  /\ UNCHANGED <<vars, op, context, answer, broker, exhausted>>

WorkersInit ==
  /\ Init
  /\ worker = [w \in Worker |-> Idle]
  /\ op = [t \in Turns |-> [c \in Calls |-> "none"]]
  /\ context = [t \in Turns |-> NoContext]
  /\ answer = [t \in Turns |-> [c \in Calls |-> NoRevision]]
  /\ posts = [t \in Turns |-> [c \in Calls |-> 0]]
  /\ broker = {}
  /\ exhausted = {}
  /\ crashes = 0

WorkersNext ==
  \/ Begun \/ Cancel \/ TimeIsUp \/ Repair
  \/ \E t \in Turns : Publish(t) \/ Lose(t) \/ Expire(t)
  \/ \E w \in Worker : Work(w) \/ Crash(w) \/ \E t \in Turns : Deliver(w, t)

WorkersSpec == WorkersInit /\ [][WorkersNext]_allVars

\* Workers take their steps, the beat keeps repairing and publishing, a broker
\* that is sent a message again and again delivers one, time passes, and the
\* lease of a process that died runs out.
Fairness ==
  /\ WF_allVars(Repair) /\ WF_allVars(TimeIsUp)
  /\ \A t \in Turns : WF_allVars(Publish(t)) /\ WF_allVars(Holders(t) = {} /\ Expire(t))
  /\ \A w \in Worker : WF_allVars(Work(w))
  /\ \A t \in Turns : SF_allVars(\E w \in Worker : Deliver(w, t))

FairSpec == WorkersSpec /\ Fairness

-----------------------------------------------------------------------------
(* Properties                                                              *)

\* Every variable has its type, and every stored answer is one the role of its
\* turn may give.
WorkersTypeOK ==
  /\ worker \in [Worker -> WorkerState]
  /\ op \in [Turns -> [Calls -> OpStates]]
  /\ context \in [Turns -> [call: 0..(MaxCalls + 1), pending: BOOLEAN]]
  /\ answer \in [Turns -> [Calls -> Responses]]
  /\ \A t \in Turns, c \in Calls :
       answer[t][c] \in Submission => answer[t][c] \in Submissions(role[t])
  /\ posts \in [Turns -> [Calls -> 0..2]]
  /\ broker \subseteq Turns
  /\ exhausted \subseteq Limits
  /\ crashes \in 0..MaxCrashes

\* The cursor in the task's context is durable with the call it names: exactly
\* the calls before it, and the one it names as pending, have a row.
\* (loop.py:207: operation and history cursor are durable before the paid POST.)
CursorNamesCalls ==
  \A t \in Turns, c \in Calls :
    op[t][c] # "none" <=> \/ c < context[t].call
                          \/ c = context[t].call /\ context[t].pending

\* No model call is submitted to the provider twice, whatever dies, is
\* redelivered or is taken over (runtime.py:88: submit once, never retry a
\* billed POST).
SubmittedOnce == \A t \in Turns, c \in Calls : posts[t][c] <= 1

\* A turn is only completed, and a later call only begun, when every call
\* before it is completed: none is left pending, unknown or failed behind.
NothingLeftBehind ==
  \A t \in Turns, c \in Calls :
    (state[t] = "done" \/ c < context[t].call) /\ op[t][c] # "none" => op[t][c] = "completed"

\* The turn on record is what the model answered: the last call of a turn that
\* is done was answered with exactly the submission the turn has.  (A poll
\* saves the response in memory whatever the row holds, runtime.py:141.)
TurnIsAnswered ==
  \A t \in Turns : state[t] = "done" =>
    /\ context[t].pending
    /\ revision[t] = answer[t][context[t].call]

\* An answer, once stored and charged for, is neither dropped nor replaced.
AnswersStand ==
  [][\A t \in Turns, c \in Calls :
       op[t][c] = "completed" => op'[t][c] = "completed" /\ answer'[t][c] = answer[t][c]]_allVars

\* Everything the workers, the beat and the human do to the store are
\* transactions of DiscoveryStore.
ImplementsStore == Spec

\* loop.py:314: reclamation invalidates a worker, and the current owner alone
\* may change discovery state: while a worker owns the task in progress, no
\* step of another worker that is at a task changes the discovery.
OwnerAlone ==
  [][\A owner, w \in Worker :
       owner # w /\ Owns(owner) /\ ~At(w, "idle") /\ worker'[w] # worker[w]
         => UNCHANGED <<lifecycleVars, taskVars, revision>>]_allVars

\* A task that is open is taken up, whatever messages the broker loses and
\* whichever worker died between releasing it and scheduling its next poll.
OpenIsTakenUp == \A t \in Turns : state[t] = "open" ~> state[t] # "open"

\* Every discovery that was started ends, even if the provider never answers.
EveryDiscoveryEnds == status = "queued" ~> status \in TerminalStatuses
=============================================================================
