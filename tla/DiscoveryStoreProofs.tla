------------------------ MODULE DiscoveryStoreProofs ------------------------
(***************************************************************************)
(* Proofs about DiscoveryStore, for every max_turns, with and without a    *)
(* Judge, and for any callers.                                             *)
(***************************************************************************)
EXTENDS DiscoveryStore, TLAPS

\* Tasks exist exactly for the turns that have a role; none exists beyond the
\* next turn; before start_discovery there is none at all.
TasksInOrder ==
  /\ \A t \in Turns : role[t] = "none" <=> state[t] = "absent"
  /\ \A t \in Turns : t > turnsCompleted + 1 => state[t] = "absent"
  /\ status = "absent" => turnsCompleted = 0 /\ state[1] = "absent"

\* An acceptance on record is of a proposal whose evidence has no gaps.
AcceptedIsSound ==
  \A t \in Turns :
    revision[t] # NoRevision /\ role[t] = "validator" /\ revision[t].verdict = "accept"
      => ~revision[revision[t].proposal].gaps

\* Finder, Validator and Judge take turns: a Validator follows every proposal
\* and nothing else, a Judge every acceptance and nothing else, and the Finder
\* everything that is left.
RolesAlternate ==
  \A t \in Turns : role[t] # "none" =>
    /\ t = 1 => role[t] = "finder"
    /\ t > 1 =>
         /\ role[t] = "validator" <=> role[t - 1] = "finder"
         /\ role[t] = "judge" <=> /\ JudgeEnabled
                                  /\ role[t - 1] = "validator"
                                  /\ revision[t - 1].verdict = "accept"

\* The inductive invariant.
IInv ==
  /\ TypeOK
  /\ TasksInOrder
  /\ TurnsInSequence
  /\ OneTaskToDo
  /\ RolesAlternate
  /\ ReviewsAreCurrent
  /\ AcceptedIsSound
  /\ ConvergedOnAgreement
  /\ EndIsExplained

-----------------------------------------------------------------------------
(* Data                                                                    *)

\* The fields of a submission parsed with the schema of role r.
LEMMA SubmissionFields ==
  ASSUME NEW r \in Roles, NEW s \in Submissions(r)
  PROVE  /\ s \in Submission
         /\ s # NoRevision
         /\ s.proposal \in 0..MaxTurns
         /\ r # "finder" => s.proposal \in Turns
         /\ r = "judge" => s.validation \in Turns
         /\ s.gaps \in BOOLEAN
         /\ r = "finder" => s.verdict = "propose"
         /\ r = "validator" => s.verdict \in {"challenge", "accept", "reject"}
         /\ r = "judge" => s.verdict \in {"approve", "revise", "reject"}
<1>1. s \in Submission
  BY DEF Submission
<1>2. s # NoRevision
  BY <1>1, NoRevisionAssumption
<1>3. CASE r = "finder"
  <2>1. s \in [verdict: {"propose"}, proposal: 0..MaxTurns, validation: {0}, gaps: BOOLEAN]
    BY <1>3 DEF Submissions
  <2>2. QED
    BY <1>1, <1>2, <1>3, <2>1
<1>4. CASE r = "validator"
  <2>1. s \in [verdict: {"challenge", "accept", "reject"}, proposal: Turns,
               validation: {0}, gaps: {FALSE}]
    BY <1>4 DEF Submissions
  <2>2. s.proposal \in Turns /\ s.gaps \in BOOLEAN /\ s.verdict \in {"challenge", "accept", "reject"}
    BY <2>1
  <2>3. QED
    BY <1>1, <1>2, <1>4, <2>2, MaxTurnsAssumption DEF Turns
<1>5. CASE r = "judge"
  <2>1. s \in [verdict: {"approve", "revise", "reject"}, proposal: Turns,
               validation: Turns, gaps: {FALSE}]
    BY <1>5 DEF Submissions
  <2>2. /\ s.proposal \in Turns /\ s.validation \in Turns /\ s.gaps \in BOOLEAN
        /\ s.verdict \in {"approve", "revise", "reject"}
    BY <2>1
  <2>3. QED
    BY <1>1, <1>2, <1>5, <2>2, MaxTurnsAssumption DEF Turns
<1>6. QED
  BY <1>3, <1>4, <1>5 DEF Roles

-----------------------------------------------------------------------------
(* The invariant holds initially                                           *)

LEMMA InitIInv == Init => IInv
<1> SUFFICES ASSUME Init PROVE IInv
  OBVIOUS
<1> USE MaxTurnsAssumption DEF Init
<1>1. TypeOK
  BY DEF TypeOK, Turns, Ongoing, TerminalStatuses, Outcomes, StopReasons, Roles, Active
<1>2. TasksInOrder /\ TurnsInSequence
  BY DEF TasksInOrder, TurnsInSequence, Turns
<1>3. OneTaskToDo
  BY DEF OneTaskToDo, Ongoing, Active, Turns
<1>4. RolesAlternate /\ ReviewsAreCurrent /\ AcceptedIsSound /\ ConvergedOnAgreement
  BY DEF RolesAlternate, ReviewsAreCurrent, AcceptedIsSound, ConvergedOnAgreement, Turns
<1>5. EndIsExplained
  BY DEF EndIsExplained, TerminalStatuses
<1>6. QED
  BY <1>1, <1>2, <1>3, <1>4, <1>5 DEF IInv

-----------------------------------------------------------------------------
(* Steps that complete no turn                                             *)

\* A step that moves tasks only between open and working, leaves history and
\* outcome alone and withdraws no dispatch row preserves the invariant.
LEMMA QuietStep ==
  ASSUME IInv, TypeOK',
         UNCHANGED <<outcome, stopReason, turnsCompleted, role, revision>>,
         status' = status \/ (status \in Ongoing /\ status' \in Ongoing),
         \A t \in Turns : state'[t] = state[t] \/ (state[t] \in Active /\ state'[t] \in Active),
         \A t \in Turns : dispatch[t] # "none" => dispatch'[t] # "none"
  PROVE  IInv'
<1> USE DEF IInv
<1>1. TasksInOrder'
  BY MaxTurnsAssumption DEF TasksInOrder, Ongoing, Active, Turns
<1>2. TurnsInSequence'
  BY DEF TurnsInSequence, Active
<1>3. OneTaskToDo'
  BY MaxTurnsAssumption DEF OneTaskToDo, Ongoing, Active, TypeOK, Turns
<1>4. RolesAlternate' /\ ReviewsAreCurrent' /\ AcceptedIsSound'
  BY DEF RolesAlternate, ReviewsAreCurrent, AcceptedIsSound
<1>5. ConvergedOnAgreement'
  BY DEF ConvergedOnAgreement, IsLatest, Completed
<1>6. EndIsExplained'
  BY DEF EndIsExplained, Ongoing, TerminalStatuses
<1>7. QED
  BY <1>1, <1>2, <1>3, <1>4, <1>5, <1>6

\* The reasons a discovery ends without a verdict, with the status of each.
WithoutVerdict == ExternalStops \cup {<<"worker_lost", "failed">>}

\* Ending a discovery without a verdict preserves the invariant.
LEMMA EndWithoutVerdict ==
  ASSUME IInv, status \in Ongoing,
         NEW reason, NEW stat, <<reason, stat>> \in WithoutVerdict,
         FinishLocked(state, {}, reason, "inconclusive", stat),
         UNCHANGED <<turnsCompleted, role, revision, dispatch>>
  PROVE  IInv'
<1> USE DEF IInv
<1>1. /\ stat \in TerminalStatuses
      /\ reason \in StopReasons
      /\ reason \notin {"judge_approval", "agreement", "turn_limit", "none"}
      /\ stat = "cancelled" <=> reason = "human_cancelled"
      /\ stat = "failed" <=> reason \in {"invalid_submission", "provider_error", "worker_lost"}
  BY DEF WithoutVerdict, ExternalStops, TerminalStatuses, StopReasons
<1>2. /\ status' = stat /\ outcome' = "inconclusive" /\ stopReason' = reason
      /\ state' = ClosedTasks(state, stat)
      /\ live' = [t \in Turns |-> FALSE]
      /\ token' = [t \in Turns |-> IF state[t] \in Active THEN NoToken ELSE token[t]]
      /\ unread' = unread \cup {Message("note", 0, "human")}
  BY DEF FinishLocked
<1>3. \A t \in Turns : state'[t] = IF state[t] \notin Active THEN state[t]
                                  ELSE IF stat = "cancelled" THEN "cancelled" ELSE "failed"
  BY <1>2 DEF ClosedTasks
<1>4. TypeOK'
  <2>1. /\ state' \in [Turns -> Active \cup {"absent", "done", "failed", "cancelled"}]
        /\ token' \in [Turns -> Token \cup {NoToken}]
        /\ live' \in [Turns -> BOOLEAN]
    BY <1>2 DEF ClosedTasks, TypeOK
  <2>2. unread' \subseteq Messages
    BY <1>2, MaxTurnsAssumption DEF Message, Messages, TypeOK
  <2>3. QED
    BY <1>1, <1>2, <2>1, <2>2 DEF TypeOK, Outcomes
<1>5. TasksInOrder'
  BY <1>1, <1>2, <1>3 DEF TasksInOrder, Active, TerminalStatuses
<1>6. TurnsInSequence'
  BY <1>3 DEF TurnsInSequence, Active
<1>7. OneTaskToDo'
  BY <1>1, <1>2, <1>3 DEF OneTaskToDo, Active, TerminalStatuses, Ongoing
<1>8. RolesAlternate' /\ ReviewsAreCurrent' /\ AcceptedIsSound'
  BY DEF RolesAlternate, ReviewsAreCurrent, AcceptedIsSound
<1>9. ConvergedOnAgreement'
  BY <1>2 DEF ConvergedOnAgreement
<1>10. EndIsExplained'
  BY <1>1, <1>2 DEF EndIsExplained, TerminalStatuses
<1>11. QED
  BY <1>4, <1>5, <1>6, <1>7, <1>8, <1>9, <1>10

LEMMA StartStep == ASSUME IInv, StartDiscovery PROVE IInv'
<1> USE MaxTurnsAssumption DEF IInv, StartDiscovery
<1>1. turnsCompleted = 0 /\ state[1] = "absent" /\ outcome = "none" /\ stopReason = "none"
  BY DEF TasksInOrder, EndIsExplained, TerminalStatuses
<1>2. \A t \in Turns : /\ state[t] = "absent" /\ role[t] = "none" /\ revision[t] = NoRevision
  BY <1>1 DEF TasksInOrder, TurnsInSequence, Turns
<1>3. /\ state' = [t \in Turns |-> IF t = 1 THEN "open" ELSE "absent"]
      /\ role' = [t \in Turns |-> IF t = 1 THEN "finder" ELSE "none"]
      /\ dispatch'[1] = "due"
      /\ status' = "queued"
  <2>1. 1 \in Turns
    BY DEF Turns
  <2>2. /\ state \in [Turns -> Active \cup {"absent", "done", "failed", "cancelled"}]
        /\ role \in [Turns -> Roles \cup {"none"}]
        /\ dispatch \in [Turns -> {"none", "due", "sent"}]
    BY DEF TypeOK
  <2>3. QED
    BY <1>2, <2>1, <2>2
<1>4. TypeOK'
  <2>1. unread' \subseteq Messages
    BY DEF Message, Messages, Roles
  <2>2. dispatch' \in [Turns -> {"none", "due", "sent"}]
    BY DEF TypeOK
  <2>3. QED
    BY <1>2, <1>3, <2>1, <2>2 DEF TypeOK, Ongoing, Active, Roles
<1>5. TasksInOrder' /\ TurnsInSequence'
  BY <1>1, <1>2, <1>3 DEF TasksInOrder, TurnsInSequence, Turns
<1>6. OneTaskToDo'
  BY <1>1, <1>3 DEF OneTaskToDo, Ongoing, Active, Turns
<1>7. RolesAlternate'
  BY <1>3 DEF RolesAlternate, Turns
<1>8. ReviewsAreCurrent' /\ AcceptedIsSound'
  BY <1>2 DEF ReviewsAreCurrent, AcceptedIsSound
<1>9. ConvergedOnAgreement' /\ EndIsExplained'
  BY <1>1, <1>3 DEF ConvergedOnAgreement, EndIsExplained, TerminalStatuses
<1>10. QED
  BY <1>4, <1>5, <1>6, <1>7, <1>8, <1>9

LEMMA ClaimStep ==
  ASSUME IInv, NEW t \in Turns, NEW k \in Token, NEW blocked \in BOOLEAN,
         ClaimTask(t, k, blocked)
  PROVE  IInv'
<1>1. CASE blocked
  BY <1>1, EndWithoutVerdict DEF ClaimTask, Claimable, WithoutVerdict
<1>2. CASE ~blocked
  <2>1. /\ state' = [state EXCEPT ![t] = "working"]
        /\ token' = [token EXCEPT ![t] = k]
        /\ live' = [live EXCEPT ![t] = TRUE]
        /\ status \in Ongoing /\ status' = "running"
        /\ state[t] \in Active
        /\ UNCHANGED <<outcome, stopReason, unread, turnsCompleted, role, revision, dispatch>>
    BY <1>2 DEF ClaimTask, Claimable
  <2>2. TypeOK'
    BY <2>1 DEF IInv, TypeOK, Active, Ongoing
  <2>3. QED
    BY <2>1, <2>2, QuietStep DEF IInv, TypeOK, Active, Ongoing
<1>3. QED
  BY <1>1, <1>2

LEMMA ReleaseStep ==
  ASSUME IInv, NEW t \in Turns, NEW k \in Token, ReleaseTask(t, k)
  PROVE  IInv'
<1>1. TypeOK'
  BY DEF ReleaseTask, LeaseHeld, IInv, TypeOK, Active, lifecycleVars
<1>2. QED
  BY <1>1, QuietStep DEF ReleaseTask, LeaseHeld, IInv, TypeOK, Active, lifecycleVars

LEMMA ExpiryStep == ASSUME IInv, NEW t \in Turns, LeaseExpires(t) PROVE IInv'
<1>1. TypeOK'
  BY DEF LeaseExpires, IInv, TypeOK, lifecycleVars
<1>2. QED
  BY <1>1, QuietStep DEF LeaseExpires, lifecycleVars

LEMMA FinishStep ==
  ASSUME IInv, NEW stop \in ExternalStops, FinishDiscovery(stop[1], stop[2])
  PROVE  IInv'
<1>1. <<stop[1], stop[2]>> \in WithoutVerdict
  BY DEF ExternalStops, WithoutVerdict
<1>2. QED
  BY <1>1, EndWithoutVerdict DEF FinishDiscovery

LEMMA DispatchStep == ASSUME IInv, Dispatch PROVE IInv'
<1>1. ASSUME NEW T \in SUBSET Turns, Redispatch(T) PROVE IInv'
  <2>1. TypeOK'
    BY <1>1 DEF Redispatch, IInv, TypeOK, lifecycleVars, taskVars
  <2>2. QED
    BY <1>1, <2>1, QuietStep DEF Redispatch, IInv, TypeOK, lifecycleVars, taskVars
<1>2. ASSUME NEW t \in Turns, MarkPublished(t) PROVE IInv'
  <2>1. TypeOK'
    BY <1>2 DEF MarkPublished, IInv, TypeOK, lifecycleVars, taskVars
  <2>2. QED
    BY <1>2, <2>1, QuietStep DEF MarkPublished, IInv, TypeOK, lifecycleVars, taskVars
<1>3. QED
  BY <1>1, <1>2 DEF Dispatch

LEMMA ReadStep == ASSUME IInv, Read PROVE IInv'
<1>1. TypeOK'
  BY DEF Read, ReadInbox, IInv, TypeOK, lifecycleVars, taskVars
<1>2. QED
  BY <1>1, QuietStep DEF Read, ReadInbox, lifecycleVars, taskVars

-----------------------------------------------------------------------------
(* Steps that complete a turn                                              *)

\* What holds of the task t whose turn is committed with submission s.
LEMMA CommitFacts ==
  ASSUME IInv, NEW t \in Turns, NEW k \in Token, NEW s, LeaseHeld(t, k), Accepted(t, s)
  PROVE  /\ t = turnsCompleted + 1 /\ turnsCompleted \in Nat
         /\ role[t] \in Roles
         /\ s \in Submissions(role[t])
         /\ revision[t] = NoRevision
         /\ status \in Ongoing
         /\ state[t] = "working"
         /\ \A u \in Turns : u # t => state[u] \notin Active
         /\ \A u \in Turns : u < t <=> revision[u] # NoRevision
<1> USE MaxTurnsAssumption
<1>1. t = turnsCompleted + 1 /\ s \in Submissions(role[t]) /\ status \in Ongoing /\ state[t] = "working"
  BY DEF Accepted, LeaseHeld
<1>2. turnsCompleted \in Nat
  BY DEF IInv, TypeOK
<1>3. role[t] \in Roles
  BY <1>1 DEF IInv, TypeOK, TasksInOrder
<1>4. \A u \in Turns : u # t => state[u] \notin Active
  BY <1>1 DEF IInv, OneTaskToDo
<1>5. \A u \in Turns : u < t <=> revision[u] # NoRevision
  BY <1>1, <1>2 DEF IInv, TurnsInSequence, Turns
<1>6. revision[t] = NoRevision
  BY <1>1, <1>2, <1>5 DEF Turns
<1>7. QED
  BY <1>1, <1>2, <1>3, <1>4, <1>5, <1>6

\* The latest completed proposal is the one under review in turn t.
LEMMA LatestIsCurrent ==
  ASSUME IInv, NEW t \in Turns, t = turnsCompleted + 1, role[t] # "finder",
         NEW p, IsLatest(p, "finder")
  PROVE  /\ p \in Turns /\ p < t /\ role[p] = "finder" /\ revision[p] # NoRevision
         /\ \A u \in (p + 1)..t : role[u] # "finder"
<1> USE MaxTurnsAssumption
<1>1. p \in Turns /\ role[p] = "finder" /\ revision[p] # NoRevision
  BY DEF IsLatest, Completed
<1>2. turnsCompleted \in Nat /\ \A u \in Turns : revision[u] # NoRevision <=> u <= turnsCompleted
  BY DEF IInv, TypeOK, TurnsInSequence
<1>3. p < t
  BY <1>1, <1>2 DEF Turns
<1>4. ASSUME NEW u \in (p + 1)..t, role[u] = "finder" PROVE FALSE
  <2>1. u \in Turns /\ u < t /\ u > p
    BY <1>1, <1>2, <1>4 DEF Turns
  <2>2. u \in Completed("finder")
    BY <1>2, <1>4, <2>1 DEF Completed, Turns
  <2>3. QED
    BY <1>1, <2>1, <2>2 DEF IsLatest, Turns
<1>5. QED
  BY <1>1, <1>3, <1>4

\* What recording submission s in turn t does to the history, whatever else
\* the commit goes on to do.
LEMMA HistoryGrows ==
  ASSUME IInv, NEW t \in Turns, NEW k \in Token, NEW s, LeaseHeld(t, k), Accepted(t, s),
         revision' = [revision EXCEPT ![t] = s],
         turnsCompleted' = turnsCompleted + 1,
         \A u \in Turns : u <= t => role'[u] = role[u]
  PROVE  /\ turnsCompleted' \in 0..MaxTurns
         /\ revision' \in [Turns -> Submission \cup {NoRevision}]
         /\ \A u \in Turns : revision'[u] # NoRevision => u <= t /\ revision'[u] \in Submissions(role'[u])
         /\ \A u \in Turns : revision'[u] # NoRevision <=> u <= turnsCompleted'
         /\ ReviewsAreCurrent'
         /\ AcceptedIsSound'
<1> USE MaxTurnsAssumption
<1>1. /\ t = turnsCompleted + 1 /\ turnsCompleted \in Nat
      /\ role[t] \in Roles
      /\ s \in Submissions(role[t])
      /\ revision[t] = NoRevision
      /\ \A u \in Turns : u < t <=> revision[u] # NoRevision
  BY CommitFacts
<1>2. /\ s \in Submission /\ s # NoRevision
      /\ role[t] # "finder" => s.proposal \in Turns
  BY <1>1, SubmissionFields
<1>3. /\ revision \in [Turns -> Submission \cup {NoRevision}]
      /\ \A u \in Turns : revision[u] # NoRevision => revision[u] \in Submissions(role[u])
      /\ \A u \in Turns : role[u] \in Roles \cup {"none"}
  BY DEF IInv, TypeOK
<1>4. \A u \in Turns : revision'[u] = IF u = t THEN s ELSE revision[u]
  BY <1>3
<1>5. \A u \in Turns : revision'[u] # NoRevision <=> u <= t
  BY <1>1, <1>2, <1>4 DEF Turns
<1>6. \A u \in Turns : revision'[u] # NoRevision => u <= t /\ revision'[u] \in Submissions(role'[u])
  BY <1>1, <1>3, <1>4, <1>5
<1>7. turnsCompleted' \in 0..MaxTurns /\ revision' \in [Turns -> Submission \cup {NoRevision}]
  BY <1>1, <1>2, <1>3 DEF Turns
<1>8. role[t] # "finder" => IsLatest(s.proposal, "finder")
  BY <1>1 DEF Accepted, AcceptedValidation, AcceptedJudgment, Roles
<1>9. ReviewsAreCurrent'
  <2> SUFFICES ASSUME NEW u \in Turns, revision'[u] # NoRevision, role'[u] # "finder"
               PROVE  LET p == revision'[u].proposal IN
                      /\ p < u /\ role'[p] = "finder"
                      /\ \A v \in (p + 1)..u : role'[v] # "finder"
    BY DEF ReviewsAreCurrent
  <2> DEFINE p == revision'[u].proposal
  <2>1. u <= t /\ role'[u] = role[u]
    BY <1>6
  <2>2. p \in Turns /\ p < u /\ role[p] = "finder" /\ \A v \in (p + 1)..u : role[v] # "finder"
    <3>1. CASE u = t
      BY <1>1, <1>4, <1>8, <2>1, <3>1, LatestIsCurrent
    <3>2. CASE u # t
      <4>1. revision[u] # NoRevision /\ role[u] # "finder" /\ p = revision[u].proposal
        BY <1>4, <2>1, <3>2
      <4>2. role[u] \in Roles
        <5>1. state[u] = "done"
          BY <4>1 DEF IInv, TurnsInSequence
        <5>2. QED
          BY <1>3, <5>1 DEF IInv, TasksInOrder
      <4>3. p \in Turns
        BY <1>3, <4>1, <4>2, SubmissionFields
      <4>4. QED
        BY <4>1, <4>3 DEF IInv, ReviewsAreCurrent
    <3>3. QED
      BY <3>1, <3>2
  <2>3. role'[p] = "finder"
    BY <2>1, <2>2 DEF Turns
  <2>4. ASSUME NEW v \in (p + 1)..u PROVE role'[v] # "finder"
    <3>1. v \in Turns /\ v <= t
      BY <2>1, <2>2, <2>4 DEF Turns
    <3>2. QED
      BY <2>2, <3>1
  <2>5. QED
    BY <2>2, <2>3, <2>4
<1>10. AcceptedIsSound'
  <2> SUFFICES ASSUME NEW u \in Turns, revision'[u] # NoRevision, role'[u] = "validator",
                      revision'[u].verdict = "accept"
               PROVE  ~revision'[revision'[u].proposal].gaps
    BY DEF AcceptedIsSound
  <2>1. u <= t /\ role[u] = "validator"
    BY <1>6
  <2>2. CASE u = t
    <3>1. /\ revision'[u] = s /\ IsLatest(s.proposal, "finder")
          /\ ~revision[s.proposal].gaps
      BY <1>4, <2>1, <2>2 DEF Accepted, AcceptedValidation
    <3>2. s.proposal \in Turns /\ s.proposal < t
      BY <1>1, <2>1, <2>2, <3>1, LatestIsCurrent
    <3>3. QED
      BY <1>4, <3>1, <3>2 DEF Turns
  <2>3. CASE u # t
    <3>1. revision'[u] = revision[u] /\ revision[u] # NoRevision
      BY <1>4, <2>3
    <3>2. revision[u].proposal \in Turns
      BY <1>3, <2>1, <3>1, SubmissionFields DEF Roles
    <3>3. revision[u].proposal < u
      BY <2>1, <3>1 DEF IInv, ReviewsAreCurrent
    <3>4. revision'[revision[u].proposal] = revision[revision[u].proposal]
      BY <1>1, <1>4, <2>1, <3>2, <3>3 DEF Turns
    <3>5. QED
      BY <2>1, <3>1, <3>4 DEF IInv, AcceptedIsSound
  <2>4. QED
    BY <2>2, <2>3
<1>11. QED
  BY <1>1, <1>5, <1>6, <1>7, <1>9, <1>10

\* The turn is recorded and ends the discovery, converged or at the limit.
LEMMA EndingCommit ==
  ASSUME IInv, NEW t \in Turns, NEW k \in Token, NEW s, LeaseHeld(t, k), Accepted(t, s),
         NEW reply, reply \subseteq Messages,
         NEW reason, NEW out,
         \/ /\ Agrees(role[t], s)
            /\ out = "converged"
            /\ reason = IF role[t] = "judge" THEN "judge_approval" ELSE "agreement"
         \/ /\ turnsCompleted' >= MaxTurns
            /\ out \in {"not_converged", "inconclusive"}
            /\ reason = "turn_limit",
         FinishLocked([state EXCEPT ![t] = "done"], reply, reason, out, "completed"),
         revision' = [revision EXCEPT ![t] = s],
         turnsCompleted' = turnsCompleted + 1,
         UNCHANGED <<role, dispatch>>
  PROVE  IInv'
<1> USE MaxTurnsAssumption
<1>1. /\ t = turnsCompleted + 1 /\ turnsCompleted \in Nat
      /\ role[t] \in Roles
      /\ s \in Submissions(role[t])
      /\ status \in Ongoing
      /\ state[t] = "working"
      /\ \A u \in Turns : u # t => state[u] \notin Active
  BY CommitFacts
<1>2. /\ turnsCompleted' \in 0..MaxTurns
      /\ revision' \in [Turns -> Submission \cup {NoRevision}]
      /\ \A u \in Turns : revision'[u] # NoRevision => u <= t /\ revision'[u] \in Submissions(role'[u])
      /\ \A u \in Turns : revision'[u] # NoRevision <=> u <= turnsCompleted'
      /\ ReviewsAreCurrent' /\ AcceptedIsSound'
  BY HistoryGrows
<1>3. /\ status' = "completed" /\ outcome' = out /\ stopReason' = reason
      /\ unread' = unread \cup reply \cup {Message("note", 0, "human")}
      /\ live' = [u \in Turns |-> FALSE]
      /\ state' = ClosedTasks([state EXCEPT ![t] = "done"], "completed")
      /\ token' = [u \in Turns |-> IF [state EXCEPT ![t] = "done"][u] \in Active
                                    THEN NoToken ELSE token[u]]
  BY DEF FinishLocked
<1>4. state \in [Turns -> Active \cup {"absent", "done", "failed", "cancelled"}]
  BY DEF IInv, TypeOK
<1>5. state' = [u \in Turns |-> IF u = t THEN "done" ELSE state[u]]
  BY <1>1, <1>3, <1>4 DEF ClosedTasks, Active
<1>6. reason \in StopReasons /\ out \in Outcomes /\ out # "none"
  BY DEF StopReasons, Outcomes
<1>7. TypeOK'
  <2>1. unread' \subseteq Messages
    BY <1>3 DEF IInv, TypeOK, Message, Messages
  <2>2. /\ state' \in [Turns -> Active \cup {"absent", "done", "failed", "cancelled"}]
        /\ live' \in [Turns -> BOOLEAN]
        /\ token' \in [Turns -> Token \cup {NoToken}]
    BY <1>3, <1>4, <1>5 DEF IInv, TypeOK
  <2>3. role' \in [Turns -> Roles \cup {"none"}] /\ dispatch' \in [Turns -> {"none", "due", "sent"}]
    BY DEF IInv, TypeOK
  <2>4. QED
    BY <1>2, <1>3, <1>6, <2>1, <2>2, <2>3 DEF TypeOK, TerminalStatuses
<1>8. TasksInOrder'
  <2>1. \A u \in Turns : role'[u] = "none" <=> state'[u] = "absent"
    BY <1>1, <1>5 DEF IInv, TasksInOrder, Roles
  <2>2. \A u \in Turns : u > turnsCompleted' + 1 => state'[u] = "absent"
    BY <1>1, <1>5 DEF IInv, TasksInOrder, Turns
  <2>3. QED
    BY <1>3, <2>1, <2>2 DEF TasksInOrder
<1>9. TurnsInSequence'
  <2>1. \A u \in Turns : state'[u] = "done" <=> u <= turnsCompleted'
    BY <1>1, <1>5 DEF IInv, TurnsInSequence, Turns
  <2>2. QED
    BY <1>2, <2>1 DEF TurnsInSequence
<1>10. OneTaskToDo'
  BY <1>1, <1>3, <1>5 DEF OneTaskToDo, Ongoing, Active
<1>11. RolesAlternate'
  <2>1. \A u \in Turns : role[u] # "none" => u <= t
    BY <1>1 DEF IInv, TasksInOrder, Turns
  <2>2. \A u \in Turns : u < t => revision'[u] = revision[u]
    BY <1>1 DEF IInv, TypeOK, Turns
  <2>3. QED
    BY <2>1, <2>2 DEF IInv, RolesAlternate, Turns
<1>12. EndIsExplained'
  BY <1>1, <1>2, <1>3 DEF EndIsExplained, TerminalStatuses, Turns
<1>13. ConvergedOnAgreement'
  <2> SUFFICES ASSUME out = "converged" PROVE ConvergedOnAgreement'
    BY <1>3 DEF ConvergedOnAgreement
  <2>1. Agrees(role[t], s) /\ turnsCompleted' = t /\ revision'[t] = s
    BY <1>1 DEF IInv, TypeOK
  <2>2. /\ role[t] # "finder"
        /\ JudgeEnabled => role[t] = "judge" /\ s.verdict = "approve"
        /\ ~JudgeEnabled => role[t] = "validator" /\ s.verdict = "accept"
    BY <1>1, <2>1, JudgeAssumption DEF Agrees, Accepted, AcceptedJudgment, Roles
  <2>3. IsLatest(s.proposal, "finder")
    BY <1>1, <2>2 DEF Accepted, AcceptedValidation, AcceptedJudgment, Roles
  <2>4. /\ s.proposal \in Turns /\ s.proposal < t /\ role[s.proposal] = "finder"
        /\ revision[s.proposal] # NoRevision
    BY <1>1, <2>2, <2>3, LatestIsCurrent
  <2>5. \A u \in Turns : u # t => revision'[u] = revision[u]
    BY DEF IInv, TypeOK
  <2>6. IsLatest(s.proposal, "finder")'
    BY <2>1, <2>2, <2>3, <2>5, <1>1, <1>2 DEF IsLatest, Completed
  <2>7. ~revision'[s.proposal].gaps
    <3>1. CASE JudgeEnabled
      <4>1. /\ s.validation \in Turns /\ role[s.validation] = "validator"
            /\ revision[s.validation] # NoRevision
            /\ revision[s.validation].verdict = "accept"
            /\ revision[s.validation].proposal = s.proposal
        BY <2>2, <3>1 DEF Accepted, AcceptedJudgment, IsLatest, Completed
      <4>2. ~revision[s.proposal].gaps
        BY <4>1 DEF IInv, AcceptedIsSound
      <4>3. QED
        BY <2>4, <2>5, <4>2 DEF Turns
    <3>2. CASE ~JudgeEnabled
      <4>1. ~revision[s.proposal].gaps
        BY <2>2, <3>2 DEF Accepted, AcceptedValidation
      <4>2. QED
        BY <2>4, <2>5, <4>1 DEF Turns
    <3>3. QED
      BY <3>1, <3>2
  <2>8. JudgeEnabled => /\ role[s.validation] = "validator"
                        /\ revision'[s.validation].verdict = "accept"
                        /\ revision'[s.validation].proposal = s.proposal
    BY <2>2, <2>5 DEF Accepted, AcceptedJudgment, IsLatest, Completed
  <2>9. t >= 2
    BY <1>1, <2>4 DEF Turns
  <2>10. QED
    BY <2>1, <2>2, <2>6, <2>7, <2>8, <2>9 DEF ConvergedOnAgreement
<1>14. QED
  BY <1>2, <1>7, <1>8, <1>9, <1>10, <1>11, <1>12, <1>13 DEF IInv

\* The turn is recorded and the task of the next one created.
LEMMA HandOverCommit ==
  ASSUME IInv, NEW t \in Turns, NEW k \in Token, NEW s, LeaseHeld(t, k), Accepted(t, s),
         ~Agrees(role[t], s), turnsCompleted' < MaxTurns, HandOver(t, s),
         revision' = [revision EXCEPT ![t] = s],
         turnsCompleted' = turnsCompleted + 1
  PROVE  IInv'
<1> USE MaxTurnsAssumption
<1> DEFINE next == Recipient(role[t], s)
<1>1. /\ t = turnsCompleted + 1 /\ turnsCompleted \in Nat
      /\ role[t] \in Roles
      /\ s \in Submissions(role[t])
      /\ status \in Ongoing
      /\ state[t] = "working"
      /\ \A u \in Turns : u # t => state[u] \notin Active
  BY CommitFacts
<1>2. t + 1 \in Turns /\ next \in Roles
  BY <1>1 DEF Turns, Recipient, Roles
<1>3. /\ state \in [Turns -> Active \cup {"absent", "done", "failed", "cancelled"}]
      /\ role \in [Turns -> Roles \cup {"none"}]
      /\ dispatch \in [Turns -> {"none", "due", "sent"}]
      /\ live \in [Turns -> BOOLEAN]
      /\ unread \subseteq Messages
  BY DEF IInv, TypeOK
<1>4. /\ state' = [state EXCEPT ![t] = "done", ![t + 1] = "open"]
      /\ role' = [role EXCEPT ![t + 1] = next]
      /\ live' = [live EXCEPT ![t] = FALSE]
      /\ dispatch' = [dispatch EXCEPT ![t + 1] = "due"]
      /\ unread' = unread \cup {Message("reply", t, next), Message("request", t + 1, next)}
      /\ UNCHANGED <<status, outcome, stopReason, token>>
  BY DEF HandOver
<1>5. \A u \in Turns : state'[u] = IF u = t THEN "done" ELSE IF u = t + 1 THEN "open" ELSE state[u]
  BY <1>1, <1>2, <1>3, <1>4
<1>6. \A u \in Turns : role'[u] = IF u = t + 1 THEN next ELSE role[u]
  BY <1>2, <1>3, <1>4
<1>7. /\ turnsCompleted' \in 0..MaxTurns
      /\ revision' \in [Turns -> Submission \cup {NoRevision}]
      /\ \A u \in Turns : revision'[u] # NoRevision => u <= t /\ revision'[u] \in Submissions(role'[u])
      /\ \A u \in Turns : revision'[u] # NoRevision <=> u <= turnsCompleted'
      /\ ReviewsAreCurrent' /\ AcceptedIsSound'
  <2>1. \A u \in Turns : u <= t => role'[u] = role[u]
    BY <1>1, <1>6 DEF Turns
  <2>2. QED
    BY <2>1, HistoryGrows
<1>8. TypeOK'
  <2>1. unread' \subseteq Messages
    BY <1>1, <1>2, <1>3, <1>4 DEF Message, Messages, Turns
  <2>2. /\ state' \in [Turns -> Active \cup {"absent", "done", "failed", "cancelled"}]
        /\ role' \in [Turns -> Roles \cup {"none"}]
        /\ dispatch' \in [Turns -> {"none", "due", "sent"}]
        /\ live' \in [Turns -> BOOLEAN]
    BY <1>2, <1>3, <1>4 DEF Active
  <2>3. /\ status' = status /\ outcome' = outcome /\ stopReason' = stopReason /\ token' = token
    BY <1>4
  <2>4. QED
    BY <1>7, <2>1, <2>2, <2>3 DEF IInv, TypeOK
<1>9. TasksInOrder'
  <2>1. \A u \in Turns : role'[u] = "none" <=> state'[u] = "absent"
    BY <1>1, <1>2, <1>5, <1>6 DEF IInv, TasksInOrder, Roles
  <2>2. \A u \in Turns : u > turnsCompleted' + 1 => state'[u] = "absent"
    BY <1>1, <1>5 DEF IInv, TasksInOrder, Turns
  <2>3. status' # "absent"
    BY <1>1, <1>4 DEF Ongoing
  <2>4. QED
    BY <2>1, <2>2, <2>3 DEF TasksInOrder
<1>10. TurnsInSequence'
  <2>1. \A u \in Turns : state'[u] = "done" <=> u <= turnsCompleted'
    BY <1>1, <1>5 DEF IInv, TurnsInSequence, Turns
  <2>2. QED
    BY <1>7, <2>1 DEF TurnsInSequence
<1>11. OneTaskToDo'
  <2>1. \A u \in Turns : state'[u] \in Active <=> u = t + 1
    BY <1>1, <1>2, <1>5 DEF Active, Turns
  <2>2. {u \in Turns : state'[u] \in Active} = {t + 1}
    BY <1>2, <2>1
  <2>3. dispatch'[t + 1] = "due"
    BY <1>2, <1>3, <1>4
  <2>4. turnsCompleted' + 1 = t + 1 /\ status' \in Ongoing
    BY <1>1, <1>4
  <2>5. QED
    BY <2>2, <2>3, <2>4 DEF OneTaskToDo
<1>12. RolesAlternate'
  <2>1. \A u \in Turns : role[u] # "none" => u <= t
    BY <1>1 DEF IInv, TasksInOrder, Turns
  <2>2. \A u \in Turns : revision'[u] = IF u = t THEN s ELSE revision[u]
    BY DEF IInv, TypeOK
  <2>3. ASSUME NEW u \in Turns, role'[u] # "none", u # t + 1
        PROVE  /\ u = 1 => role'[u] = "finder"
               /\ u > 1 => /\ role'[u] = "validator" <=> role'[u - 1] = "finder"
                           /\ role'[u] = "judge" <=> /\ JudgeEnabled
                                                     /\ role'[u - 1] = "validator"
                                                     /\ revision'[u - 1].verdict = "accept"
    <3>1. role'[u] = role[u] /\ u <= t
      BY <1>6, <2>1, <2>3
    <3>2. u > 1 => /\ u - 1 \in Turns /\ u - 1 < t /\ u - 1 # t /\ u - 1 # t + 1
      BY <1>1, <3>1 DEF Turns
    <3>3. u > 1 => role'[u - 1] = role[u - 1] /\ revision'[u - 1] = revision[u - 1]
      BY <1>6, <2>2, <3>2
    <3>4. QED
      BY <2>3, <3>1, <3>3 DEF IInv, RolesAlternate
  <2>4. ASSUME NEW u \in Turns, u = t + 1
        PROVE  /\ u > 1 /\ u - 1 = t
               /\ role'[u] = "validator" <=> role'[t] = "finder"
               /\ role'[u] = "judge" <=> /\ JudgeEnabled
                                         /\ role'[t] = "validator"
                                         /\ revision'[t].verdict = "accept"
    <3>1. u > 1 /\ u - 1 = t /\ role'[u] = next /\ role'[t] = role[t] /\ revision'[t] = s
      BY <1>1, <1>6, <2>2, <2>4 DEF Turns
    <3>2. next = "validator" <=> role[t] = "finder"
      BY <1>1 DEF Recipient, Roles
    <3>3. next = "judge" <=> JudgeEnabled /\ role[t] = "validator" /\ s.verdict = "accept"
      BY <1>1, JudgeAssumption DEF Recipient, Roles
    <3>4. QED
      BY <3>1, <3>2, <3>3
  <2>5. QED
    BY <2>3, <2>4, <1>1 DEF RolesAlternate, Turns
<1>13. ConvergedOnAgreement' /\ EndIsExplained'
  <2>1. outcome = "none" /\ stopReason = "none"
    BY <1>1 DEF IInv, EndIsExplained, Ongoing, TerminalStatuses
  <2>2. QED
    BY <1>1, <1>4, <2>1 DEF ConvergedOnAgreement, EndIsExplained, Ongoing, TerminalStatuses
<1>14. QED
  BY <1>7, <1>8, <1>9, <1>10, <1>11, <1>12, <1>13 DEF IInv

LEMMA CommitStep ==
  ASSUME IInv, NEW t \in Turns, NEW k \in Token, NEW s \in Submission,
         NEW limit \in LimitReasons \cup {"none"}, CommitTurn(t, k, s, limit)
  PROVE  IInv'
<1>1. LeaseHeld(t, k) /\ status \in Ongoing
  BY DEF CommitTurn, LeaseHeld
<1>2. CASE limit \in LimitReasons
  <2>1. <<limit, "completed">> \in WithoutVerdict
    BY <1>2 DEF LimitReasons, WithoutVerdict, ExternalStops
  <2>2. /\ FinishLocked(state, {}, limit, "inconclusive", "completed")
        /\ UNCHANGED <<turnsCompleted, role, revision, dispatch>>
    BY <1>2 DEF CommitTurn, LimitReasons
  <2>3. QED
    BY <1>1, <2>1, <2>2, EndWithoutVerdict
<1>3. CASE limit = "none"
  <2>1. Accepted(t, s) /\ RecordTurn(t, s)
    BY <1>3 DEF CommitTurn, LimitReasons
  <2>2. revision' = [revision EXCEPT ![t] = s] /\ turnsCompleted' = turnsCompleted + 1
    BY <2>1 DEF RecordTurn
  <2>3. {Message("reply", t, Recipient(role[t], s))} \subseteq Messages
    BY MaxTurnsAssumption DEF Message, Messages, Recipient, Roles, Turns
  <2>4. CASE Agrees(role[t], s)
    BY <1>1, <2>1, <2>2, <2>3, <2>4, EndingCommit DEF RecordTurn
  <2>5. CASE ~Agrees(role[t], s) /\ turnsCompleted' >= MaxTurns
    <3>1. ~(turnsCompleted' < MaxTurns)
      BY <2>2, <2>5, MaxTurnsAssumption DEF IInv, TypeOK
    <3>2. QED
      BY <1>1, <2>1, <2>2, <2>3, <2>5, <3>1, EndingCommit DEF RecordTurn
  <2>6. CASE ~Agrees(role[t], s) /\ turnsCompleted' < MaxTurns
    <3>1. ~(turnsCompleted' >= MaxTurns)
      BY <2>2, <2>6, MaxTurnsAssumption DEF IInv, TypeOK
    <3>2. HandOver(t, s)
      BY <2>1, <2>6, <3>1 DEF RecordTurn
    <3>3. QED
      BY <1>1, <2>1, <2>2, <2>6, <3>2, HandOverCommit
  <2>7. QED
    BY <2>1, <2>4, <2>5, <2>6 DEF RecordTurn
<1>4. QED
  BY <1>2, <1>3

-----------------------------------------------------------------------------
(* The invariant, and what follows from it                                 *)

LEMMA NextIInv == IInv /\ [Next]_vars => IInv'
<1> SUFFICES ASSUME IInv, [Next]_vars PROVE IInv'
  OBVIOUS
<1>1. CASE StartDiscovery
  BY <1>1, StartStep
<1>2. CASE Claim
  BY <1>2, ClaimStep DEF Claim
<1>3. CASE Release
  BY <1>3, ReleaseStep DEF Release
<1>4. CASE Commit
  BY <1>4, CommitStep DEF Commit
<1>5. CASE Finish
  BY <1>5, FinishStep DEF Finish
<1>6. CASE Dispatch
  BY <1>6, DispatchStep
<1>7. CASE Read
  BY <1>7, ReadStep
<1>8. ASSUME NEW t \in Turns, LeaseExpires(t) PROVE IInv'
  BY <1>8, ExpiryStep
<1>9. CASE UNCHANGED vars
  <2>1. /\ UNCHANGED <<status, outcome, stopReason, turnsCompleted>>
        /\ UNCHANGED <<state, role, token, live, revision, dispatch, unread>>
    BY <1>9 DEF vars, lifecycleVars, taskVars
  <2>2. TypeOK'
    BY <2>1 DEF IInv, TypeOK
  <2>3. QED
    BY <2>1, <2>2, QuietStep
<1>10. QED
  BY <1>1, <1>2, <1>3, <1>4, <1>5, <1>6, <1>7, <1>8, <1>9 DEF Next

\* The inductive invariant holds in every reachable state.
THEOREM Invariance == Spec => []IInv
<1>1. Init => IInv
  BY InitIInv
<1>2. IInv /\ [Next]_vars => IInv'
  BY NextIInv
<1>3. QED
  BY <1>1, <1>2, PTL DEF Spec

\* Every variable keeps its type, and every submission on record was parsed
\* with the schema of the role whose task it completes.
THEOREM TypeCorrect == Spec => []TypeOK
<1>1. IInv => TypeOK
  BY DEF IInv
<1>2. QED
  BY <1>1, Invariance, PTL

\* Turns complete in order, each once.
THEOREM OneTurnAtATime == Spec => []TurnsInSequence
<1>1. IInv => TurnsInSequence
  BY DEF IInv
<1>2. QED
  BY <1>1, Invariance, PTL

\* A discovery that is not over always has exactly one task to take up and a row
\* that announces it.
THEOREM OneTaskAtATime == Spec => []OneTaskToDo
<1>1. IInv => OneTaskToDo
  BY DEF IInv
<1>2. QED
  BY <1>1, Invariance, PTL

\* Roles alternate and every review on record is of the proposal that was the
\* latest when the review was made.
THEOREM ReviewsInOrder == Spec => [](RolesAlternate /\ ReviewsAreCurrent)
<1>1. IInv => RolesAlternate /\ ReviewsAreCurrent
  BY DEF IInv
<1>2. QED
  BY <1>1, Invariance, PTL

\* A discovery converges only on the agreement of its last speaker with the
\* latest proposal, whose evidence has no gaps.
THEOREM Agreement == Spec => []ConvergedOnAgreement
<1>1. IInv => ConvergedOnAgreement
  BY DEF IInv
<1>2. QED
  BY <1>1, Invariance, PTL

\* Status, outcome and reason of an ended discovery always fit together.
THEOREM EndExplained == Spec => []EndIsExplained
<1>1. IInv => EndIsExplained
  BY DEF IInv
<1>2. QED
  BY <1>1, Invariance, PTL

-----------------------------------------------------------------------------
(* An ended discovery stays as it is                                       *)

\* Once a discovery has ended no transaction of any caller changes it, and a
\* committed revision is never replaced.
THEOREM Finality == Spec => EndIsFinal
<1> DEFINE Step == /\ status \in TerminalStatuses => UNCHANGED <<lifecycleVars, taskVars, revision>>
                   /\ \A t \in Turns : revision[t] # NoRevision => revision'[t] = revision[t]
<1>1. IInv /\ [Next]_vars => [Step]_vars
  <2> SUFFICES ASSUME IInv, Next PROVE Step
    OBVIOUS
  <2>1. CASE StartDiscovery
    BY <2>1 DEF StartDiscovery, TerminalStatuses
  <2>2. CASE Claim
    BY <2>2 DEF Claim, ClaimTask, Claimable, Ongoing, TerminalStatuses
  <2>3. CASE Release
    BY <2>3 DEF Release, ReleaseTask, LeaseHeld, Ongoing, TerminalStatuses, lifecycleVars
  <2>4. CASE Commit
    <3>1. PICK t \in Turns, k \in Token, s \in Submission, limit \in LimitReasons \cup {"none"} :
            CommitTurn(t, k, s, limit)
      BY <2>4 DEF Commit
    <3>2. status \notin TerminalStatuses
      BY <3>1 DEF CommitTurn, LeaseHeld, Ongoing, TerminalStatuses
    <3>3. revision' = revision \/ (Accepted(t, s) /\ revision' = [revision EXCEPT ![t] = s])
      BY <3>1 DEF CommitTurn, RecordTurn
    <3>4. Accepted(t, s) => revision[t] = NoRevision
      BY <3>1, CommitFacts DEF CommitTurn
    <3>5. QED
      BY <3>2, <3>3, <3>4 DEF IInv, TypeOK
  <2>5. CASE Finish
    BY <2>5 DEF Finish, FinishDiscovery, Ongoing, TerminalStatuses
  <2>6. CASE Dispatch
    BY <2>6 DEF Dispatch, Redispatch, MarkPublished, lifecycleVars, taskVars
  <2>7. CASE Read
    BY <2>7 DEF Read, ReadInbox, lifecycleVars, taskVars
  <2>8. ASSUME NEW t \in Turns, LeaseExpires(t) PROVE Step
    <3>1. status \in Ongoing
      <4>1. state[t] = "working"
        BY <2>8 DEF LeaseExpires
      <4>2. QED
        BY <4>1 DEF IInv, OneTaskToDo, Active
    <3>2. QED
      BY <2>8, <3>1 DEF LeaseExpires, Ongoing, TerminalStatuses, lifecycleVars
  <2>9. QED
    BY <2>1, <2>2, <2>3, <2>4, <2>5, <2>6, <2>7, <2>8 DEF Next
<1>2. QED
  BY <1>1, Invariance, PTL DEF Spec, EndIsFinal

-----------------------------------------------------------------------------
(* DiscoveryStore implements Dialogue: whatever the callers do, each        *)
(* transaction is a word of the dialogue, its end, or invisible.            *)

\* Subject is the latest completed proposal.
LEMMA SubjectIsLatest == ASSUME NEW p, IsLatest(p, "finder") PROVE Subject = p /\ p # 0
<1>1. p \in Turns /\ p \in Completed("finder") /\ \A u \in Completed("finder") : u <= p
  BY DEF IsLatest, Completed
<1>2. \A q \in Turns : IsLatest(q, "finder") => q = p
  BY <1>1, MaxTurnsAssumption DEF IsLatest, Turns
<1>3. Subject \in Turns /\ IsLatest(Subject, "finder")
  BY <1>1 DEF Subject
<1>4. QED
  BY <1>1, <1>2, <1>3, MaxTurnsAssumption DEF Turns

\* The same of the next state.
LEMMA NextSubjectIsLatest ==
  ASSUME NEW p, IsLatest(p, "finder")' PROVE Subject' = p /\ p # 0
<1>1. p \in Turns /\ p \in Completed("finder")' /\ \A u \in Completed("finder")' : u <= p
  BY DEF IsLatest, Completed
<1>2. \A q \in Turns : IsLatest(q, "finder")' => q = p
  BY <1>1, MaxTurnsAssumption DEF IsLatest, Turns
<1>3. Subject' \in Turns /\ IsLatest(Subject, "finder")'
  BY <1>1 DEF Subject
<1>4. QED
  BY <1>1, <1>2, <1>3, MaxTurnsAssumption DEF Turns

LEMMA InitRefines == Init => Promise!Init
<1> SUFFICES ASSUME Init PROVE Promise!Init
  OBVIOUS
<1>1. \A t \in Turns : revision[t] = NoRevision
  BY DEF Init
<1>2. Subject = 0
  BY <1>1 DEF Subject, Completed
<1>3. QED
  BY <1>1, <1>2 DEF Init, Promise!Init, Promise!Turns, Said, Speaker, Sound, Result, Turns,
                    Ongoing, TerminalStatuses

\* A step that touches no turn, nor who is to speak, nor the end, is invisible.
LEMMA InvisibleStep ==
  ASSUME UNCHANGED <<revision, role, turnsCompleted>>, Speaker' = Speaker, Result' = Result
  PROVE  UNCHANGED Promise!vars
<1>1. Said' = Said
  BY DEF Said
<1>2. Subject' = Subject
  BY DEF Subject, IsLatest, Completed
<1>3. Sound' = Sound
  BY <1>2 DEF Sound
<1>4. QED
  BY <1>1, <1>2, <1>3 DEF Promise!vars

\* Ending a discovery without a verdict is a Stop.
LEMMA StopStep ==
  ASSUME status \in Ongoing, NEW reason, NEW stat \in TerminalStatuses,
         FinishLocked(state, {}, reason, "inconclusive", stat),
         UNCHANGED <<turnsCompleted, role, revision, dispatch>>
  PROVE  Promise!Stop
<1>1. status' = stat /\ outcome' = "inconclusive"
  BY DEF FinishLocked
<1>2. Said' = Said
  BY DEF Said
<1>3. Subject' = Subject
  BY DEF Subject, IsLatest, Completed
<1>4. Sound' = Sound
  BY <1>3 DEF Sound
<1>5. Result = "open" /\ Result' = "inconclusive" /\ Speaker' = "nobody"
  BY <1>1 DEF Result, Speaker, Ongoing, TerminalStatuses
<1>6. QED
  BY <1>2, <1>3, <1>4, <1>5 DEF Promise!Stop

\* Committing a turn says its word.
LEMMA SpeakStep ==
  ASSUME IInv, IInv', NEW t \in Turns, NEW k \in Token, NEW s,
         LeaseHeld(t, k), Accepted(t, s), RecordTurn(t, s)
  PROVE  Promise!Speak(s.verdict)
<1> USE MaxTurnsAssumption
<1>1. /\ t = turnsCompleted + 1 /\ turnsCompleted \in Nat
      /\ role[t] \in Roles
      /\ s \in Submissions(role[t])
      /\ revision[t] = NoRevision
      /\ status \in Ongoing
      /\ state[t] = "working"
      /\ \A u \in Turns : u < t <=> revision[u] # NoRevision
  BY CommitFacts
<1>2. /\ revision' = [revision EXCEPT ![t] = s]
      /\ turnsCompleted' = t
      /\ role' = role \/ (t + 1 \in Turns /\ role' = [role EXCEPT ![t + 1] = Recipient(role[t], s)])
  <2>1. role' = role \/ (turnsCompleted' < MaxTurns /\ role' = [role EXCEPT ![t + 1] = Recipient(role[t], s)])
    BY DEF RecordTurn, HandOver
  <2>2. QED
    BY <1>1, <2>1 DEF RecordTurn, Turns
<1>3. /\ s # NoRevision
      /\ s.gaps \in BOOLEAN
      /\ role[t] = "finder" => s.verdict = "propose"
      /\ role[t] = "validator" => s.verdict \in {"challenge", "accept", "reject"}
      /\ role[t] = "judge" => s.verdict \in {"approve", "revise", "reject"}
  BY <1>1, SubmissionFields
<1>4. /\ revision \in [Turns -> Submission \cup {NoRevision}]
      /\ role \in [Turns -> Roles \cup {"none"}]
  BY DEF IInv, TypeOK
<1>5. \A u \in Turns : revision'[u] = IF u = t THEN s ELSE revision[u]
  BY <1>2, <1>4
<1>6. \A u \in Turns : u <= t => role'[u] = role[u]
  BY <1>1, <1>2, <1>4 DEF Turns
<1>7. \A u \in Turns : revision'[u] # NoRevision => u <= t
  BY <1>1, <1>5 DEF Turns
<1>8. Speaker = role[t] /\ Result = "open"
  BY <1>1 DEF Speaker, Result, Ongoing, TerminalStatuses
<1>9. s.verdict \in Promise!Words(Speaker)
  BY <1>1, <1>3, <1>8 DEF Promise!Words, Roles
<1>10. /\ role[t] = "finder" => Subject' = t /\ Sound' \in BOOLEAN
       /\ role[t] # "finder" => /\ Subject' = Subject /\ Sound' = Sound
                                /\ Subject = s.proposal /\ IsLatest(Subject, "finder")
  <2>1. CASE role[t] = "finder"
    <3>1. IsLatest(t, "finder")'
      BY <1>1, <1>3, <1>5, <1>6, <1>7, <2>1 DEF IsLatest, Completed, Turns
    <3>2. QED
      BY <2>1, <3>1, NextSubjectIsLatest DEF Sound
  <2>2. CASE role[t] # "finder"
    <3>1. IsLatest(s.proposal, "finder")
      BY <1>1, <2>2 DEF Accepted, AcceptedValidation, AcceptedJudgment, Roles
    <3>2. Subject = s.proposal
      BY <3>1, SubjectIsLatest
    <3>3. s.proposal \in Turns /\ s.proposal # t
      BY <1>1, <3>1 DEF IsLatest, Completed
    <3>4. Completed("finder")' = Completed("finder")
      <4>1. ASSUME NEW u \in Turns
            PROVE  (role'[u] = "finder" /\ revision'[u] # NoRevision)
                     <=> (role[u] = "finder" /\ revision[u] # NoRevision)
        BY <1>1, <1>5, <1>6, <1>7, <2>2 DEF Turns
      <4>2. QED
        BY <4>1 DEF Completed
    <3>5. Subject' = Subject
      <4>1. \A u : IsLatest(u, "finder")' <=> IsLatest(u, "finder")
        BY <3>4 DEF IsLatest
      <4>2. QED
        BY <3>1, <3>2, <3>4, <4>1, NextSubjectIsLatest
    <3>6. Sound' = Sound
      BY <1>5, <3>2, <3>3, <3>5 DEF Sound
    <3>7. QED
      BY <2>2, <3>1, <3>2, <3>5, <3>6
  <2>3. QED
    BY <2>1, <2>2
<1>11. Said' = [Said EXCEPT ![t] = [by |-> Speaker, word |-> s.verdict, about |-> Subject']]
  <2>1. ASSUME NEW u \in Turns, u # t
        PROVE  /\ revision'[u] = revision[u]
               /\ revision[u] # NoRevision => role'[u] = role[u]
    BY <1>1, <1>5, <1>6, <2>1 DEF Turns
  <2>2. revision'[t] = s /\ role'[t] = role[t] /\ Subject' = IF role[t] = "finder" THEN t ELSE s.proposal
    BY <1>1, <1>5, <1>6, <1>10 DEF Turns
  <2>3. \A u \in Turns : Said'[u] = IF u = t THEN [by |-> Speaker, word |-> s.verdict, about |-> Subject']
                                    ELSE Said[u]
    BY <1>3, <1>8, <2>1, <2>2 DEF Said
  <2>4. /\ Said = [u \in Turns |-> Said[u]]
        /\ Said' = [u \in Turns |-> Said'[u]]
    BY DEF Said
  <2>5. QED
    BY <2>3, <2>4
<1>12. s.verdict = "accept" => Sound
  <2>1. ASSUME s.verdict = "accept" PROVE role[t] = "validator"
    BY <1>1, <1>3, <2>1 DEF Roles
  <2>2. QED
    BY <1>1, <1>10, <2>1, SubjectIsLatest DEF Accepted, AcceptedValidation, Sound, Roles
<1>13. Agrees(role[t], s) <=> Promise!Settles(Speaker, s.verdict)
  BY <1>1, <1>3, <1>8, JudgeAssumption DEF Agrees, Promise!Settles, Roles, Accepted, AcceptedJudgment
<1>14. ~Agrees(role[t], s) =>
         (Refuses(role[t], s) <=> Promise!Refusal(Speaker, s.verdict) /\ Sound)
  <2>1. ~Agrees(role[t], s) =>
          (Promise!Refusal(Speaker, s.verdict) <=>
             role[t] = "judge" \/ (role[t] = "validator" /\ s.verdict # "accept"))
    BY <1>1, <1>3, <1>8 DEF Promise!Refusal, Agrees, Roles
  <2>2. role[t] # "finder" =>
          (Sound <=> \E p \in Turns : IsLatest(p, "finder") /\ ~revision[p].gaps)
    BY <1>10, SubjectIsLatest DEF Sound, IsLatest, Completed
  <2>3. QED
    BY <1>1, <2>1, <2>2 DEF Refuses, Roles
<1> DEFINE Ends(verdict) == Speaker' = "nobody" /\ Result' = verdict
<1>15. \A verdict : status' = "completed" /\ outcome' = verdict => Ends(verdict)
  BY DEF Speaker, Result, Ongoing, TerminalStatuses
<1>16. \/ /\ Promise!Settles(Speaker, s.verdict)
          /\ Ends("converged")
       \/ /\ ~Promise!Settles(Speaker, s.verdict)
          /\ turnsCompleted' = MaxTurns
          /\ Ends(IF Promise!Refusal(Speaker, s.verdict) /\ Sound THEN "not_converged" ELSE "inconclusive")
       \/ /\ ~Promise!Settles(Speaker, s.verdict)
          /\ turnsCompleted' < MaxTurns
          /\ Result' = "open"
          /\ Speaker' = Promise!NextSpeaker(Speaker, s.verdict)
  <2>1. CASE Agrees(role[t], s)
    <3>1. status' = "completed" /\ outcome' = "converged"
      BY <2>1 DEF RecordTurn, FinishLocked
    <3>2. QED
      BY <1>13, <1>15, <2>1, <3>1
  <2>2. CASE ~Agrees(role[t], s) /\ t >= MaxTurns
    <3>1. /\ status' = "completed"
          /\ outcome' = IF Refuses(role[t], s) THEN "not_converged" ELSE "inconclusive"
      BY <1>1, <1>2, <2>2 DEF RecordTurn, FinishLocked, Turns
    <3>2. turnsCompleted' = MaxTurns
      BY <1>1, <1>2, <2>2 DEF Turns
    <3>3. QED
      BY <1>13, <1>14, <1>15, <2>2, <3>1, <3>2
  <2>3. CASE ~Agrees(role[t], s) /\ t < MaxTurns
    <3>1. HandOver(t, s)
      BY <1>1, <1>2, <2>3 DEF RecordTurn, Turns
    <3>2. status' = status /\ role'[t + 1] = Recipient(role[t], s)
      BY <1>1, <1>4, <2>3, <3>1 DEF HandOver, Turns
    <3>3. Speaker' = Recipient(role[t], s) /\ Result' = "open"
      BY <1>1, <1>2, <3>2 DEF Speaker, Result, Ongoing, TerminalStatuses
    <3>4. Recipient(role[t], s) = Promise!NextSpeaker(Speaker, s.verdict)
      BY <1>1, <1>3, <1>8, <2>3, JudgeAssumption DEF Recipient, Agrees, Promise!NextSpeaker, Roles
    <3>5. QED
      BY <1>2, <1>13, <2>3, <3>3, <3>4
  <2>4. QED
    BY <1>1, <2>1, <2>2, <2>3 DEF Turns
<1>17. turnsCompleted < MaxTurns
  BY <1>1 DEF Turns
<1>18. Said' = [Said EXCEPT ![turnsCompleted'] =
                    [by |-> Speaker, word |-> s.verdict, about |-> Subject']]
  BY <1>2, <1>11
<1>19. turnsCompleted' = turnsCompleted + 1
  BY <1>1, <1>2
<1>20. IF Speaker = "finder" THEN Subject' = turnsCompleted' /\ Sound' \in BOOLEAN
       ELSE UNCHANGED <<Subject, Sound>>
  BY <1>2, <1>8, <1>10
<1> HIDE DEF Ends
<1>21. QED
  BY <1>8, <1>9, <1>12, <1>16, <1>17, <1>18, <1>19, <1>20 DEF Promise!Speak, Ends

LEMMA CommitRefines ==
  ASSUME IInv, IInv', NEW t \in Turns, NEW k \in Token, NEW s \in Submission,
         NEW limit \in LimitReasons \cup {"none"}, CommitTurn(t, k, s, limit)
  PROVE  Promise!Next
<1>1. CASE limit \in LimitReasons
  BY <1>1, StopStep DEF CommitTurn, LeaseHeld, LimitReasons, TerminalStatuses, Promise!Next
<1>2. CASE limit = "none"
  <2>1. LeaseHeld(t, k) /\ Accepted(t, s) /\ RecordTurn(t, s)
    BY <1>2 DEF CommitTurn, LimitReasons
  <2>2. Promise!Speak(s.verdict)
    BY <2>1, SpeakStep
  <2>3. s.verdict \in {"propose", "challenge", "accept", "reject", "approve", "revise"}
    BY <2>1, SubmissionFields, CommitFacts DEF Roles
  <2>4. QED
    BY <2>2, <2>3 DEF Promise!Next
<1>3. QED
  BY <1>1, <1>2

LEMMA StepRefines == IInv /\ IInv' /\ [Next]_vars => [Promise!Next]_(Promise!vars)
<1> SUFFICES ASSUME IInv, IInv', [Next]_vars PROVE Promise!Next \/ UNCHANGED Promise!vars
  OBVIOUS
<1>1. CASE StartDiscovery
  <2>1. turnsCompleted = 0 /\ 1 \in Turns /\ role \in [Turns -> Roles \cup {"none"}]
    BY <1>1, MaxTurnsAssumption DEF StartDiscovery, IInv, TasksInOrder, TypeOK, Turns
  <2>2. /\ \A u \in Turns : revision[u] = NoRevision
        /\ turnsCompleted' = 0 /\ revision' = revision
        /\ status = "absent" /\ status' = "queued" /\ role'[1] = "finder"
    BY <1>1, <2>1 DEF StartDiscovery, IInv, TurnsInSequence, Turns
  <2>3. Said' = Said /\ Subject' = Subject /\ Sound' = Sound
    <3>1. Said' = Said
      BY <2>2 DEF Said
    <3>2. Subject = 0 /\ Subject' = 0
      BY <2>2 DEF Subject, Completed
    <3>3. QED
      BY <3>1, <3>2 DEF Sound
  <2>4. Speaker' = Speaker /\ Result' = Result
    BY <2>1, <2>2 DEF Speaker, Result, Ongoing, TerminalStatuses
  <2>5. QED
    BY <2>1, <2>2, <2>3, <2>4 DEF Promise!vars
<1>2. ASSUME NEW t \in Turns, NEW k \in Token, NEW blocked \in BOOLEAN, ClaimTask(t, k, blocked)
      PROVE  Promise!Next \/ UNCHANGED Promise!vars
  <2>1. CASE blocked
    BY <1>2, <2>1, StopStep DEF ClaimTask, Claimable, TerminalStatuses, Promise!Next
  <2>2. CASE ~blocked
    <3>1. status \in Ongoing /\ status' = "running" /\ UNCHANGED <<revision, role, turnsCompleted>>
      BY <1>2, <2>2 DEF ClaimTask, Claimable
    <3>2. Speaker' = Speaker /\ Result' = Result
      BY <3>1 DEF Speaker, Result, Ongoing, TerminalStatuses
    <3>3. QED
      BY <3>1, <3>2, InvisibleStep
  <2>3. QED
    BY <2>1, <2>2
<1>3. CASE UNCHANGED <<revision, role, turnsCompleted, status, outcome>>
  <2>1. Speaker' = Speaker /\ Result' = Result
    BY <1>3 DEF Speaker, Result
  <2>2. QED
    BY <1>3, <2>1, InvisibleStep
<1>4. CASE Release
  BY <1>3, <1>4 DEF Release, ReleaseTask, lifecycleVars
<1>5. CASE Commit
  BY <1>5, CommitRefines DEF Commit
<1>6. ASSUME NEW stop \in ExternalStops, FinishDiscovery(stop[1], stop[2])
      PROVE  Promise!Next
  <2>1. stop[2] \in TerminalStatuses
    BY DEF ExternalStops, TerminalStatuses
  <2>2. QED
    BY <1>6, <2>1, StopStep DEF FinishDiscovery, Promise!Next
<1>7. CASE Dispatch
  BY <1>3, <1>7 DEF Dispatch, Redispatch, MarkPublished, lifecycleVars, taskVars
<1>8. CASE Read
  BY <1>3, <1>8 DEF Read, ReadInbox, lifecycleVars, taskVars
<1>9. ASSUME NEW t \in Turns, LeaseExpires(t) PROVE UNCHANGED Promise!vars
  BY <1>3, <1>9, InvisibleStep DEF LeaseExpires, lifecycleVars, Speaker, Result
<1>10. CASE UNCHANGED vars
  BY <1>3, <1>10 DEF vars, lifecycleVars, taskVars
<1>11. QED
  BY <1>1, <1>2, <1>4, <1>5, <1>6, <1>7, <1>8, <1>9, <1>10 DEF Next, Claim, Finish

\* Every behaviour of the store, whoever calls it, is a dialogue: the roles
\* speak in turn about the latest proposal, what is said stands, the outcome is
\* the last word's, and nothing is said after it.
THEOREM Refinement == Spec => KeepsPromise
<1>1. Init => Promise!Init
  BY InitRefines
<1>2. IInv /\ IInv' /\ [Next]_vars => [Promise!Next]_(Promise!vars)
  BY StepRefines
<1>3. QED
  BY <1>1, <1>2, Invariance, PTL DEF Spec, KeepsPromise, Promise!Spec
=============================================================================
