--------------------------- MODULE DiscoveryStore ---------------------------
(***************************************************************************)
(* The database state of one Finder-Validator-Judge discovery and the      *)
(* transactions of discovery/orchestrator.py that change it, together with *)
(* the dispatch rows of discovery/tasks.py and the mailbox of              *)
(* discovery/mail.py.                                                      *)
(*                                                                         *)
(* Every transaction locks the discovery row (select_for_update) or is one *)
(* conditional UPDATE, so each is one action.  The module says nothing of  *)
(* who calls: Next lets any caller run any transaction with any token at   *)
(* any time, so what holds here holds however many workers, beats and      *)
(* humans there are.  DiscoveryWorkers composes it with the callers.       *)
(*                                                                         *)
(* Abstractions: a submission is the part of it commit_turn branches on; a *)
(* revision is named by its turn number (ids and content hashes are only   *)
(* compared for equality); whether a run-wide limit is exhausted and       *)
(* whether a task has an unresolved billed call are arguments.             *)
(***************************************************************************)
EXTENDS Naturals

CONSTANTS
  MaxTurns,       \* config.max_turns
  JudgeEnabled,   \* config.judge_enabled
  Token,          \* the values uuid4 may give a lease_token
  NoToken,        \* a lease_token that is NULL
  NoRevision      \* a turn that has no revision yet

ASSUME MaxTurnsAssumption == MaxTurns \in Nat /\ MaxTurns >= 2
ASSUME JudgeAssumption    == JudgeEnabled \in BOOLEAN
ASSUME NoTokenAssumption  == NoToken \notin Token

VARIABLES
  status,         \* Discovery.status, or "absent" before start_discovery
  outcome,        \* Discovery.outcome
  stopReason,     \* Discovery.stop_reason
  turnsCompleted, \* Discovery.turns_completed
  state,          \* DiscoveryTask.state of the task of each turn
  role,           \* DiscoveryTask.role
  token,          \* DiscoveryTask.lease_token
  live,           \* lease_expires_at is set and in the future
  revision,       \* the submission stored for each completed turn
  dispatch,       \* DiscoveryDispatch: no row, published_at null or set
  unread          \* the messages sent and not yet read by their recipient

lifecycleVars == <<status, outcome, stopReason, turnsCompleted>>
taskVars      == <<state, role, token, live>>
vars == <<lifecycleVars, taskVars, revision, dispatch, unread>>

Turns == 1..MaxTurns

-----------------------------------------------------------------------------
(* Data                                                                    *)

Ongoing == {"queued", "running"}
TerminalStatuses == {"completed", "failed", "cancelled"}
Active == {"open", "working"}
Roles == {"finder", "validator", "judge"}

Outcomes == {"converged", "not_converged", "inconclusive"}

\* The reasons _finish_locked is called with by the transactions below.
LimitReasons == {"duration_limit", "cost_limit"}

\* Variant: cancel_discovery without its final_status argument.
CancelledAsCompleted ==
  {<<"duration_limit", "completed">>, <<"cost_limit", "completed">>,
   <<"turn_call_limit", "completed">>, <<"invalid_submission", "failed">>,
   <<"provider_error", "failed">>, <<"human_cancelled", "completed">>}

\* The reasons callers pass to finish_discovery, with the status each goes with.
ExternalStops ==
  {<<"duration_limit", "completed">>, <<"cost_limit", "completed">>,
   <<"turn_call_limit", "completed">>, <<"invalid_submission", "failed">>,
   <<"provider_error", "failed">>, <<"human_cancelled", "cancelled">>}

StopReasons ==
  {stop[1] : stop \in ExternalStops}
    \cup {"judge_approval", "agreement", "turn_limit", "worker_lost"}

\* What a Finder, Validator or Judge hands over: its verdict, the proposal it
\* revises or reviews (0: none) and the validation it reviews.  gaps is
\* evidence_gaps of a proposal: it depends on the proposal's cited evidence
\* alone, and captured evidence does not change.
Submissions(r) ==
  CASE r = "finder" ->
         [verdict: {"propose"}, proposal: 0..MaxTurns, validation: {0}, gaps: BOOLEAN]
    [] r = "validator" ->
         [verdict: {"challenge", "accept", "reject"}, proposal: Turns,
          validation: {0}, gaps: {FALSE}]
    [] r = "judge" ->
         [verdict: {"approve", "revise", "reject"}, proposal: Turns,
          validation: Turns, gaps: {FALSE}]

Submission == UNION {Submissions(r) : r \in Roles}

ASSUME NoRevisionAssumption == NoRevision \notin Submission

Messages == [kind: {"request", "reply", "note"}, turn: 0..MaxTurns,
             to: Roles \cup {"human"}]

Message(kind, t, to) == [kind |-> kind, turn |-> t, to |-> to]

-----------------------------------------------------------------------------
(* What the transactions read                                              *)

Completed(r) == {t \in Turns : role[t] = r /\ revision[t] # NoRevision}

\* order_by("-turn__number").first() over the revisions of a role.
IsLatest(t, r) == t \in Completed(r) /\ \A u \in Completed(r) : u <= t

\* check_lease: the caller still owns the task.
LeaseHeld(t, k) ==
  /\ state[t] = "working"
  /\ token[t] = k
  /\ live[t]
  /\ status \in Ongoing

-----------------------------------------------------------------------------
(* Transactions                                                            *)

\* Variants: the row of a task just done is still what it was when read; only
\* the tasks under a lease are closed.
ClosedTasksAsRead(st, stat) ==
  [t \in Turns |-> IF state[t] \notin Active THEN state[t]
                   ELSE IF stat = "cancelled" THEN "cancelled" ELSE "failed"]

ClosedLeasedTasks(st, stat) ==
  [t \in Turns |-> IF st[t] # "working" THEN st[t]
                   ELSE IF stat = "cancelled" THEN "cancelled" ELSE "failed"]

\* Variant: the tasks of a discovery that completes are done.
ClosedTasksAsDone(st, stat) ==
  [t \in Turns |-> IF st[t] \notin Active THEN st[t]
                   ELSE IF stat = "completed" THEN "done"
                   ELSE IF stat = "cancelled" THEN "cancelled" ELSE "failed"]

\* Where _finish_locked leaves tasks that were in states st.
ClosedTasks(st, stat) ==
  [t \in Turns |-> IF st[t] \notin Active THEN st[t]
                   ELSE IF stat = "cancelled" THEN "cancelled" ELSE "failed"]

\* _finish_locked, in a transaction that has locked a discovery that is not
\* terminal, has brought its tasks to states st and has sent some mail.
FinishLocked(st, sent, reason, out, stat) ==
  /\ status' = stat
  /\ outcome' = out
  /\ stopReason' = reason
  /\ state' = ClosedTasks(st, stat)
  /\ token' = [t \in Turns |-> IF st[t] \in Active THEN NoToken ELSE token[t]]
  /\ live' = [t \in Turns |-> FALSE]
  /\ unread' = unread \cup sent \cup {Message("note", 0, "human")}

\* start_discovery, when no discovery has the idempotency key yet.
StartDiscovery ==
  /\ status = "absent"
  /\ status' = "queued"
  /\ state' = [state EXCEPT ![1] = "open"]
  /\ role' = [role EXCEPT ![1] = "finder"]
  /\ dispatch' = [dispatch EXCEPT ![1] = "due"]
  /\ unread' = {Message("request", 1, "finder")}
  /\ UNCHANGED <<outcome, stopReason, turnsCompleted, token, live, revision>>

\* Variant: a task whose worker is gone is left to it.
ClaimableOpen(t) == status \in Ongoing /\ state[t] = "open"

\* A task somebody may take up: open, or working under a lease that ran out.
Claimable(t) ==
  /\ status \in Ongoing
  /\ state[t] \in Active
  /\ ~(state[t] = "working" /\ live[t])

\* claim_task with a fresh token k; blocked: the task has a billed operation
\* whose outcome is not known.
ClaimTask(t, k, blocked) ==
  /\ Claimable(t)
  /\ \/ /\ blocked
        /\ FinishLocked(state, {}, "worker_lost", "inconclusive", "failed")
     \/ /\ ~blocked
        /\ state' = [state EXCEPT ![t] = "working"]
        /\ token' = [token EXCEPT ![t] = k]
        /\ live' = [live EXCEPT ![t] = TRUE]
        /\ status' = "running"
        /\ UNCHANGED <<outcome, stopReason, unread>>
  /\ UNCHANGED <<turnsCompleted, role, revision, dispatch>>

\* The lease of a task runs out.
LeaseExpires(t) ==
  /\ state[t] = "working"
  /\ live[t]
  /\ live' = [live EXCEPT ![t] = FALSE]
  /\ UNCHANGED <<lifecycleVars, state, role, token, revision, dispatch, unread>>

\* renew_task extends a lease that is still held: nothing changes here but
\* the moment it expires.  release_task gives the task back.
RenewTask(t, k) == LeaseHeld(t, k) /\ UNCHANGED vars

ReleaseTask(t, k) ==
  /\ LeaseHeld(t, k)
  /\ state' = [state EXCEPT ![t] = "open"]
  /\ token' = [token EXCEPT ![t] = NoToken]
  /\ live' = [live EXCEPT ![t] = FALSE]
  /\ UNCHANGED <<lifecycleVars, role, revision, dispatch, unread>>

-----------------------------------------------------------------------------
(* commit_turn                                                             *)

\* A Finder starts from nothing or revises the latest proposal.
AcceptedProposal(s) ==
  \/ s.proposal = 0 /\ Completed("finder") = {}
  \/ IsLatest(s.proposal, "finder")

\* Variants: any proposal may be reviewed; gaps are not looked at.
ValidationOfAnyProposal(s) ==
  /\ s.proposal \in Completed("finder")
  /\ s.verdict = "accept" => ~revision[s.proposal].gaps

ValidationDespiteGaps(s) == IsLatest(s.proposal, "finder")

\* A Validator reviews the latest proposal, and accepts only a proposal whose
\* evidence has no gaps.
AcceptedValidation(s) ==
  /\ IsLatest(s.proposal, "finder")
  /\ s.verdict = "accept" => ~revision[s.proposal].gaps

\* A Judge reviews the latest proposal and the latest validation, which must
\* have accepted that very proposal.
AcceptedJudgment(s) ==
  /\ JudgeEnabled
  /\ IsLatest(s.proposal, "finder")
  /\ IsLatest(s.validation, "validator")
  /\ revision[s.validation].proposal = s.proposal
  /\ revision[s.validation].verdict = "accept"

Accepted(t, s) ==
  /\ s \in Submissions(role[t])
  /\ t = turnsCompleted + 1
  /\ CASE role[t] = "finder"    -> AcceptedProposal(s)
       [] role[t] = "validator" -> AcceptedValidation(s)
       [] role[t] = "judge"     -> AcceptedJudgment(s)

Recipient(r, s) ==
  CASE r = "validator" /\ s.verdict = "accept" /\ JudgeEnabled -> "judge"
    [] r = "finder" -> "validator"
    [] OTHER -> "finder"

\* The submission ends the discovery in agreement.
Agrees(r, s) ==
  \/ r = "judge" /\ s.verdict = "approve"
  \/ r = "validator" /\ s.verdict = "accept" /\ ~JudgeEnabled

\* Variant: a Judge who asks for a revision refuses nothing.
RefusesAsValidator(r, s) ==
  /\ r = "validator" /\ s.verdict # "accept"
  /\ \E p \in Turns : IsLatest(p, "finder") /\ ~revision[p].gaps

\* The last turn allowed was a refusal of a well-evidenced proposal.
Refuses(r, s) ==
  /\ r = "judge" \/ (r = "validator" /\ s.verdict # "accept")
  /\ \E p \in Turns : IsLatest(p, "finder") /\ ~revision[p].gaps

\* The task of turn t is done and the next turn's is created for its reader.
HandOver(t, s) ==
  LET next == Recipient(role[t], s) IN
  /\ state' = [state EXCEPT ![t] = "done", ![t + 1] = "open"]
  /\ role' = [role EXCEPT ![t + 1] = next]
  /\ live' = [live EXCEPT ![t] = FALSE]
  /\ dispatch' = [dispatch EXCEPT ![t + 1] = "due"]
  /\ unread' = unread \cup {Message("reply", t, next), Message("request", t + 1, next)}
  /\ UNCHANGED <<status, outcome, stopReason, token>>

RecordTurn(t, s) ==
  LET done  == [state EXCEPT ![t] = "done"]
      reply == {Message("reply", t, Recipient(role[t], s))}
  IN
  /\ revision' = [revision EXCEPT ![t] = s]
  /\ turnsCompleted' = turnsCompleted + 1
  /\ \/ /\ Agrees(role[t], s)
        /\ FinishLocked(done, reply,
             IF role[t] = "judge" THEN "judge_approval" ELSE "agreement",
             "converged", "completed")
        /\ UNCHANGED <<role, dispatch>>
     \/ /\ ~Agrees(role[t], s)
        /\ turnsCompleted' >= MaxTurns
        /\ FinishLocked(done, reply, "turn_limit",
             IF Refuses(role[t], s) THEN "not_converged" ELSE "inconclusive",
             "completed")
        /\ UNCHANGED <<role, dispatch>>
     \/ /\ ~Agrees(role[t], s)
        /\ turnsCompleted' < MaxTurns
        /\ HandOver(t, s)

\* commit_turn of a task that is not done; limit: the run-wide limit found
\* exhausted, or "none".
CommitTurn(t, k, s, limit) ==
  /\ LeaseHeld(t, k)
  /\ \/ /\ limit \in LimitReasons
        /\ FinishLocked(state, {}, limit, "inconclusive", "completed")
        /\ UNCHANGED <<turnsCompleted, role, revision, dispatch>>
     \/ /\ limit = "none"
        /\ Accepted(t, s)
        /\ RecordTurn(t, s)

\* Variant: an ended discovery is finished again.
FinishTwice(reason, stat) ==
  /\ status # "absent"
  /\ FinishLocked(state, {}, reason, "inconclusive", stat)
  /\ UNCHANGED <<turnsCompleted, role, revision, dispatch>>

\* finish_discovery and cancel_discovery: any caller, no lease asked for.
FinishDiscovery(reason, stat) ==
  /\ status \in Ongoing
  /\ FinishLocked(state, {}, reason, "inconclusive", stat)
  /\ UNCHANGED <<turnsCompleted, role, revision, dispatch>>

-----------------------------------------------------------------------------
(* Dispatch rows and mail                                                  *)

\* Variant: only the rows of expired leases are put back.
RedispatchableExpired(t) ==
  /\ status \in Ongoing
  /\ dispatch[t] = "sent"
  /\ state[t] = "working" /\ ~live[t]

\* dispatch_pending puts the stale rows T back: open and published long ago,
\* or working under an expired lease.
Redispatchable(t) ==
  /\ status \in Ongoing
  /\ dispatch[t] = "sent"
  /\ state[t] = "open" \/ (state[t] = "working" /\ ~live[t])

Redispatch(T) ==
  /\ T # {}
  /\ \A t \in T : Redispatchable(t)
  /\ dispatch' = [t \in Turns |-> IF t \in T THEN "due" ELSE dispatch[t]]
  /\ UNCHANGED <<lifecycleVars, taskVars, revision, unread>>

\* The row is marked published in the transaction that called the broker.
MarkPublished(t) ==
  /\ dispatch[t] = "due"
  /\ dispatch' = [dispatch EXCEPT ![t] = "sent"]
  /\ UNCHANGED <<lifecycleVars, taskVars, revision, unread>>

\* inbox: everything unread for r is handed over and marked read.
Inbox(r) == {m \in unread : m.to = r}

ReadInbox(r) ==
  /\ Inbox(r) # {}
  /\ unread' = unread \ Inbox(r)
  /\ UNCHANGED <<lifecycleVars, taskVars, revision, dispatch>>

-----------------------------------------------------------------------------
Init ==
  /\ status = "absent"
  /\ outcome = "none"
  /\ stopReason = "none"
  /\ turnsCompleted = 0
  /\ state = [t \in Turns |-> "absent"]
  /\ role = [t \in Turns |-> "none"]
  /\ token = [t \in Turns |-> NoToken]
  /\ live = [t \in Turns |-> FALSE]
  /\ revision = [t \in Turns |-> NoRevision]
  /\ dispatch = [t \in Turns |-> "none"]
  /\ unread = {}

Claim == \E t \in Turns, k \in Token, blocked \in BOOLEAN : ClaimTask(t, k, blocked)
Release == \E t \in Turns, k \in Token : ReleaseTask(t, k)
Commit == \E t \in Turns, k \in Token, s \in Submission, limit \in LimitReasons \cup {"none"} :
            CommitTurn(t, k, s, limit)
Finish == \E stop \in ExternalStops : FinishDiscovery(stop[1], stop[2])
Dispatch == (\E T \in SUBSET Turns : Redispatch(T)) \/ (\E t \in Turns : MarkPublished(t))
Read == \E r \in Roles : ReadInbox(r)

Next ==
  \/ StartDiscovery
  \/ Claim
  \/ Release
  \/ Commit
  \/ Finish
  \/ Dispatch
  \/ Read
  \/ \E t \in Turns : LeaseExpires(t)

Spec == Init /\ [][Next]_vars

-----------------------------------------------------------------------------
(* Properties                                                              *)

\* Every variable has its type, and every stored submission was parsed with
\* the schema of the role whose task it completes.
TypeOK ==
  /\ status \in Ongoing \cup TerminalStatuses \cup {"absent"}
  /\ outcome \in Outcomes \cup {"none"}
  /\ stopReason \in StopReasons \cup {"none"}
  /\ turnsCompleted \in 0..MaxTurns
  /\ state \in [Turns -> Active \cup {"absent", "done", "failed", "cancelled"}]
  /\ role \in [Turns -> Roles \cup {"none"}]
  /\ token \in [Turns -> Token \cup {NoToken}]
  /\ live \in [Turns -> BOOLEAN]
  /\ revision \in [Turns -> Submission \cup {NoRevision}]
  /\ dispatch \in [Turns -> {"none", "due", "sent"}]
  /\ unread \subseteq Messages
  /\ \A t \in Turns : revision[t] # NoRevision => revision[t] \in Submissions(role[t])

\* Turns are completed in order, each once: the completed turns are exactly
\* the first turns_completed ones, and no other turn has a revision.
TurnsInSequence ==
  \A t \in Turns :
    /\ revision[t] # NoRevision <=> t <= turnsCompleted
    /\ state[t] = "done" <=> t <= turnsCompleted

\* A discovery that is not over always has exactly one task somebody can
\* take up, that of the next turn, and a dispatch row that will announce it;
\* one that is over has none (models.py: discovery_one_active_task).
OneTaskToDo ==
  /\ status \in Ongoing =>
       /\ turnsCompleted < MaxTurns
       /\ {t \in Turns : state[t] \in Active} = {turnsCompleted + 1}
       /\ dispatch[turnsCompleted + 1] # "none"
  /\ status \notin Ongoing => \A t \in Turns : state[t] \notin Active

\* Every Validation and Judgment on record is about the proposal that was the
\* latest when it was made: no proposal came between the two.
ReviewsAreCurrent ==
  \A t \in Turns : revision[t] # NoRevision /\ role[t] # "finder" =>
    LET p == revision[t].proposal IN
    /\ p < t
    /\ role[p] = "finder"
    /\ \A u \in (p + 1)..t : role[u] # "finder"

\* A discovery converges only on the word of its last speaker, a Judge who
\* approves (or a Validator who accepts when there is no Judge) the latest
\* proposal, which is evidenced, and, with a Judge, which the validation the
\* Judge names had accepted.
ConvergedOnAgreement ==
  outcome = "converged" =>
    LET n == turnsCompleted
        last == revision[n]
    IN /\ n >= 2
       /\ IsLatest(last.proposal, "finder")
       /\ ~revision[last.proposal].gaps
       /\ IF JudgeEnabled
          THEN /\ role[n] = "judge" /\ last.verdict = "approve"
               /\ role[last.validation] = "validator"
               /\ revision[last.validation].verdict = "accept"
               /\ revision[last.validation].proposal = last.proposal
          ELSE role[n] = "validator" /\ last.verdict = "accept"

\* The outcome, the reason and the status recorded for the end of a discovery
\* agree with each other and with how far it got; nothing is recorded before.
EndIsExplained ==
  /\ status \in TerminalStatuses <=> outcome # "none"
  /\ outcome = "none" <=> stopReason = "none"
  /\ outcome = "converged" <=> stopReason \in {"judge_approval", "agreement"}
  /\ outcome = "not_converged" => stopReason = "turn_limit"
  /\ stopReason = "turn_limit" => turnsCompleted = MaxTurns
  /\ status = "cancelled" <=> stopReason = "human_cancelled"
  /\ status = "failed" <=> stopReason \in {"invalid_submission", "provider_error", "worker_lost"}

\* Once a discovery has ended, no worker, beat or human changes its status,
\* outcome, turns, tasks or revisions; and a revision once committed stays.
EndIsFinal ==
  [][/\ status \in TerminalStatuses => UNCHANGED <<lifecycleVars, taskVars, revision>>
     /\ \A t \in Turns : revision[t] # NoRevision => revision'[t] = revision[t]]_vars

\* The store implements the dialogue: what Dialogue speaks of is read off the
\* database as follows.
Said ==
  [t \in Turns |->
     IF revision[t] = NoRevision THEN NoRevision
     ELSE [by |-> role[t], word |-> revision[t].verdict,
           about |-> IF role[t] = "finder" THEN t ELSE revision[t].proposal]]

Speaker ==
  IF status = "absent" THEN "finder"
  ELSE IF status \in Ongoing THEN role[turnsCompleted + 1] ELSE "nobody"

Subject == IF Completed("finder") = {} THEN 0 ELSE CHOOSE t \in Turns : IsLatest(t, "finder")
Sound == Subject # 0 /\ ~revision[Subject].gaps
Result == IF status \in TerminalStatuses THEN outcome ELSE "open"

Promise == INSTANCE Dialogue WITH
  Silence <- NoRevision, said <- Said, spoken <- turnsCompleted, speaker <- Speaker,
  subject <- Subject, sound <- Sound, result <- Result

\* Every step of any caller is a step of the dialogue or invisible to it.
KeepsPromise == Promise!Spec
=============================================================================
