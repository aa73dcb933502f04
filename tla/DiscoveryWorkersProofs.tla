----------------------- MODULE DiscoveryWorkersProofs -----------------------
(***************************************************************************)
(* What the callers of DiscoveryWorkers do to the store are transactions   *)
(* of DiscoveryStore, for every number of workers, calls and crashes and   *)
(* whether or not calls are prompt: so all that is proved of the store is  *)
(* proved of the composed system.  Its second half is about the model      *)
(* calls, for every number of turns, calls a turn, deaths and redeliveries.*)
(***************************************************************************)
EXTENDS DiscoveryWorkers, DiscoveryStoreProofs

\* What a worker remembers makes sense: its token came from a claim, the call
\* it is at is one of the turn's, and it has a reason for ending the discovery.
SoundMemory(m) ==
  /\ m.pc # "idle" => m.token \in Token
  /\ m.pc = "top" => m.call >= 1
  /\ m.pc \in InCall => m.call \in Calls
  /\ m.pc = "stopping" => m.why \in LimitReasons \cup {"turn_call_limit"}
  /\ m.pc = "failing" => m.why \in {"invalid_submission", "provider_error"}

Memory ==
  /\ worker \in [Worker -> WorkerState]
  /\ \A w \in Worker : SoundMemory(worker[w])

\* A cursor names a call of its turn; only a task that was created has answers.
Ledger ==
  /\ op \in [Turns -> [Calls -> OpStates]]
  /\ context \in [Turns -> [call: 0..(MaxCalls + 1), pending: BOOLEAN]]
  /\ answer \in [Turns -> [Calls -> Responses]]
  /\ posts \in [Turns -> [Calls -> 0..2]]
  /\ \A t \in Turns, c \in Calls :
       /\ answer[t][c] \in Submission => answer[t][c] \in Submissions(role[t])
       /\ role[t] = "none" => answer[t][c] = NoRevision
  /\ \A t \in Turns :
       /\ context[t].pending => context[t].call \in Calls
       /\ context[t] # NoContext => context[t].call >= 1

Surroundings ==
  /\ broker \subseteq Turns
  /\ exhausted \subseteq Limits
  /\ crashes \in 0..MaxCrashes

CallersOK == Memory /\ Ledger /\ Surroundings

\* A worker is at a turn that was created, and an answer it holds fits its role.
Recall ==
  \A w \in Worker : worker[w].pc # "idle" =>
    /\ role[worker[w].turn] # "none"
    /\ worker[w].got \in Submission => worker[w].got \in Submissions(role[worker[w].turn])

WInv == IInv /\ CallersOK /\ Recall

-----------------------------------------------------------------------------
(* The initial states                                                      *)

LEMMA IdleIsSound == Idle \in WorkerState /\ SoundMemory(Idle)
<1>1. Idle \in WorkerState
  BY MaxTurnsAssumption, MaxCallsAssumption DEF Idle, WorkerState, Pcs, Turns, OpStates, Responses
<1>2. SoundMemory(Idle)
  BY DEF Idle, SoundMemory, InCall
<1>3. QED
  BY <1>1, <1>2

LEMMA InitWInv == WorkersInit => WInv
<1> SUFFICES ASSUME WorkersInit PROVE WInv
  OBVIOUS
<1>1. IInv
  BY InitIInv DEF WorkersInit
<1>2. Memory
  BY IdleIsSound DEF WorkersInit, Memory
<1>3. Ledger
  <2>1. op \in [Turns -> [Calls -> OpStates]] /\ posts \in [Turns -> [Calls -> 0..2]]
    BY DEF WorkersInit, OpStates
  <2>2. context \in [Turns -> [call: 0..(MaxCalls + 1), pending: BOOLEAN]]
    BY MaxCallsAssumption DEF WorkersInit, NoContext
  <2>3. \A t \in Turns : ~context[t].pending /\ context[t] = NoContext
    BY DEF WorkersInit, NoContext
  <2>4. /\ answer \in [Turns -> [Calls -> Responses]]
        /\ \A t \in Turns, c \in Calls : answer[t][c] = NoRevision
    BY DEF WorkersInit, Responses
  <2>5. QED
    BY <2>1, <2>2, <2>3, <2>4, NoRevisionAssumption DEF Ledger
<1>4. Surroundings
  BY MaxCrashesAssumption DEF WorkersInit, Surroundings
<1>5. Recall
  BY DEF WorkersInit, Recall, Idle
<1>6. QED
  BY <1>1, <1>2, <1>3, <1>4, <1>5 DEF WInv, CallersOK

-----------------------------------------------------------------------------
(* A worker moves                                                          *)

\* One worker's memory changes, into one that makes sense.
LEMMA MemoryStep ==
  ASSUME Memory, NEW w \in Worker, NEW m \in WorkerState, SoundMemory(m),
         worker' = [worker EXCEPT ![w] = m]
  PROVE  Memory'
<1>1. worker' \in [Worker -> WorkerState]
  BY DEF Memory
<1>2. \A v \in Worker : SoundMemory(worker'[v])
  BY DEF Memory
<1>3. QED
  BY <1>1, <1>2 DEF Memory, SoundMemory

LEMMA QuitStep == ASSUME Memory, NEW w \in Worker, Quit(w) PROVE Memory'
BY MemoryStep, IdleIsSound DEF Quit

\* A worker in a model call goes to another place of it.
LEMMA GotoStep ==
  ASSUME Memory, NEW w \in Worker, NEW pc \in InCall, worker[w].pc \in InCall, Goto(w, pc)
  PROVE  Memory'
<1> DEFINE m == [worker[w] EXCEPT !.pc = pc, !.saw = "none"]
<1>1. worker[w] \in WorkerState /\ SoundMemory(worker[w])
  BY DEF Memory
<1>2. m \in WorkerState
  BY <1>1 DEF WorkerState, Pcs, OpStates
<1>3. m.pc = pc /\ m.token = worker[w].token /\ m.call = worker[w].call
  BY <1>1 DEF WorkerState
<1>4. SoundMemory(m)
  BY <1>1, <1>3 DEF SoundMemory, InCall
<1>5. worker' = [worker EXCEPT ![w] = m]
  BY <1>1 DEF Goto, Memory, WorkerState
<1>6. QED
  BY <1>2, <1>4, <1>5, MemoryStep

\* An exception leaves a worker with a reason to end the discovery.
LEMMA RaiseStep ==
  ASSUME Memory, NEW w \in Worker, worker[w].pc # "idle", NEW pc, NEW reason,
         \/ pc = "stopping" /\ reason \in LimitReasons \cup {"turn_call_limit"}
         \/ pc = "failing" /\ reason \in {"invalid_submission", "provider_error"},
         Raise(w, pc, reason)
  PROVE  Memory'
<1> DEFINE m == [worker[w] EXCEPT !.pc = pc, !.saw = "none", !.got = NoRevision, !.why = reason]
<1>1. worker[w] \in WorkerState /\ SoundMemory(worker[w])
  BY DEF Memory
<1>2. reason \in StopReasons
  BY DEF StopReasons, ExternalStops, LimitReasons
<1>3. m \in WorkerState
  BY <1>1, <1>2 DEF WorkerState, Pcs, OpStates, Responses
<1>4. m.pc = pc /\ m.token = worker[w].token /\ m.why = reason
  BY <1>1 DEF WorkerState
<1>5. SoundMemory(m)
  BY <1>1, <1>4 DEF SoundMemory, InCall
<1>6. worker' = [worker EXCEPT ![w] = m]
  BY <1>1 DEF Raise, Memory, WorkerState
<1>7. QED
  BY <1>3, <1>5, <1>6, MemoryStep

-----------------------------------------------------------------------------
(* The ledger                                                              *)

\* A role, once given to a turn, is never taken from it.
LEMMA RolesKept ==
  ASSUME IInv, [Next]_vars
  PROVE  \A t \in Turns : role[t] # "none" => role'[t] = role[t]
<1> USE DEF IInv
<1>1. CASE UNCHANGED vars
  BY <1>1 DEF vars, taskVars
<1>2. CASE StartDiscovery
  BY <1>2 DEF StartDiscovery, TypeOK, TasksInOrder, Turns
<1>3. CASE Claim \/ Release \/ Finish \/ Dispatch \/ Read \/ \E t \in Turns : LeaseExpires(t)
  BY <1>3 DEF Claim, Release, Finish, Dispatch, Read, ClaimTask, ReleaseTask, FinishDiscovery,
              Redispatch, MarkPublished, ReadInbox, LeaseExpires, taskVars
<1>4. CASE Commit
  <2>1. PICK t \in Turns, k \in Token, s \in Submission, limit \in LimitReasons \cup {"none"} :
          CommitTurn(t, k, s, limit)
    BY <1>4 DEF Commit
  <2>2. CASE UNCHANGED role
    BY <2>2
  <2>3. CASE Accepted(t, s) /\ HandOver(t, s) /\ turnsCompleted + 1 < MaxTurns
    <3>1. t = turnsCompleted + 1 /\ t + 1 \in Turns
      BY <2>3, MaxTurnsAssumption DEF Accepted, Turns, TypeOK
    <3>2. role[t + 1] = "none"
      BY <3>1, MaxTurnsAssumption DEF TasksInOrder, TypeOK, Turns
    <3>3. QED
      BY <2>3, <3>1, <3>2 DEF HandOver, TypeOK
  <2>4. QED
    BY <2>1, <2>2, <2>3 DEF CommitTurn, RecordTurn
<1>5. QED
  BY <1>1, <1>2, <1>3, <1>4 DEF Next

\* A step of the store that leaves the ledger alone keeps it sound.
LEMMA LedgerKept ==
  ASSUME IInv, Ledger, [Next]_vars, UNCHANGED callVars
  PROVE  Ledger'
<1>1. \A t \in Turns : role[t] # "none" => role'[t] = role[t]
  BY RolesKept
<1>2. UNCHANGED <<op, context, answer, posts>>
  BY DEF callVars
<1>3. \A t \in Turns, c \in Calls :
        /\ answer'[t][c] \in Submission => answer'[t][c] \in Submissions(role'[t])
        /\ role'[t] = "none" => answer'[t][c] = NoRevision
  BY <1>1, <1>2, NoRevisionAssumption DEF Ledger
<1>4. QED
  BY <1>2, <1>3 DEF Ledger

\* Marking rows and counting posts keeps the ledger sound.
LEMMA RowsStep ==
  ASSUME Ledger, UNCHANGED <<role, context, answer>>,
         op' \in [Turns -> [Calls -> OpStates]], posts' \in [Turns -> [Calls -> 0..2]]
  PROVE  Ledger'
BY DEF Ledger

\* So does a response of the kind the turn may have.
LEMMA ResponseStep ==
  ASSUME Ledger, UNCHANGED <<role, context>>,
         op' \in [Turns -> [Calls -> OpStates]], posts' \in [Turns -> [Calls -> 0..2]],
         NEW t \in Turns, NEW c \in Calls, NEW a \in Responses,
         role[t] # "none", a \in Submission => a \in Submissions(role[t]),
         answer' = [answer EXCEPT ![t][c] = a]
  PROVE  Ledger'
<1>1. answer' \in [Turns -> [Calls -> Responses]]
  BY DEF Ledger
<1>2. \A u \in Turns, d \in Calls :
        /\ answer'[u][d] \in Submission => answer'[u][d] \in Submissions(role[u])
        /\ role[u] = "none" => answer'[u][d] = NoRevision
  <2> SUFFICES ASSUME NEW u \in Turns, NEW d \in Calls
               PROVE  /\ answer'[u][d] \in Submission => answer'[u][d] \in Submissions(role[u])
                      /\ role[u] = "none" => answer'[u][d] = NoRevision
    OBVIOUS
  <2>1. answer'[u][d] = IF u = t /\ d = c THEN a ELSE answer[u][d]
    BY DEF Ledger
  <2>2. QED
    BY <2>1 DEF Ledger
<1>3. QED
  BY <1>1, <1>2 DEF Ledger

LEMMA UnresolvedRows ==
  ASSUME Ledger, NEW t \in Turns, NEW S
  PROVE  Unresolve(t, S) \in [Calls -> OpStates]
BY DEF Ledger, Unresolve, OpStates

LEMMA FailedRows ==
  ASSUME Ledger, NEW w \in Worker, worker[w].turn \in Turns,
         FailsUnknown(w) \/ \E r : Fails(w, r)
  PROVE  op' \in [Turns -> [Calls -> OpStates]]
<1>1. PICK S : op' = [op EXCEPT ![worker[w].turn] = Unresolve(worker[w].turn, S)]
  BY DEF Fails, FailsUnknown
<1>2. Unresolve(worker[w].turn, S) \in [Calls -> OpStates]
  BY UnresolvedRows
<1>3. QED
  BY <1>1, <1>2 DEF Ledger

\* The exception handlers that mark rows.
LEMMA FailStep ==
  ASSUME Memory, Ledger, NEW w \in Worker, worker[w].pc # "idle", UNCHANGED <<vars, context, answer, posts>>,
         FailsUnknown(w) \/ \E r \in {"invalid_submission", "provider_error"} : Fails(w, r)
  PROVE  Memory' /\ Ledger'
<1>1. Memory'
  BY RaiseStep DEF Fails, FailsUnknown
<1>2. worker[w].turn \in Turns
  BY DEF Memory, WorkerState
<1>3. op' \in [Turns -> [Calls -> OpStates]]
  BY <1>2, FailedRows
<1>4. Ledger'
  BY <1>3, RowsStep DEF vars, taskVars, Ledger
<1>5. QED
  BY <1>1, <1>4

-----------------------------------------------------------------------------
(* The steps of a worker                                                   *)

\* A worker with a task moves on in it.
LEMMA MoveStep ==
  ASSUME Memory, NEW w \in Worker, worker[w].pc # "idle",
         worker' \in [Worker -> WorkerState],
         \A v \in Worker : v # w => worker'[v] = worker[v],
         worker'[w].token = worker[w].token,
         worker'[w].pc \in {"briefed", "top"} \cup InCall,
         worker'[w].pc = "top" => worker'[w].call >= 1,
         worker'[w].pc \in InCall => worker'[w].call \in Calls
  PROVE  Memory'
<1>1. \A v \in Worker : SoundMemory(worker[v])
  BY DEF Memory
<1>2. \A v \in Worker : SoundMemory(worker'[v])
  BY <1>1 DEF SoundMemory, InCall
<1>3. QED
  BY <1>2 DEF Memory, SoundMemory

\* Nothing but a worker's memory and what surrounds the store changes.
LEMMA UnseenStep ==
  ASSUME WInv, UNCHANGED vars, UNCHANGED callVars, Memory', Surroundings'
  PROVE  [Next]_vars /\ CallersOK'
BY LedgerKept DEF WInv, CallersOK

LEMMA SurroundingsKept ==
  ASSUME Surroundings, UNCHANGED envVars
  PROVE  Surroundings'
BY DEF Surroundings, envVars

\* The two ways every step under a lease may end the work on the task.
LEMMA GivingWay ==
  ASSUME WInv, NEW w \in Worker, worker[w].pc # "idle", LosesLease(w) \/ HitsLimit(w)
  PROVE  [Next]_vars /\ CallersOK'
<1> USE DEF WInv, CallersOK
<1>1. UNCHANGED vars /\ UNCHANGED callVars /\ UNCHANGED envVars
  BY DEF LosesLease, HitsLimit
<1>2. HitsLimit(w) => Exhausted \in LimitReasons
  BY DEF HitsLimit, Exhausted, LimitReasons
<1>3. Memory'
  BY <1>2, QuitStep, RaiseStep DEF LosesLease, HitsLimit
<1>4. QED
  BY <1>1, <1>3, UnseenStep, SurroundingsKept

\* An exception that marks rows and touches nothing else.
LEMMA FailKeeps ==
  ASSUME WInv, NEW w \in Worker, worker[w].pc # "idle",
         UNCHANGED <<vars, context, answer, posts, envVars>>,
         FailsUnknown(w) \/ \E r \in {"invalid_submission", "provider_error"} : Fails(w, r)
  PROVE  [Next]_vars /\ CallersOK'
BY FailStep, SurroundingsKept DEF WInv, CallersOK

LEMMA ReadMailKeeps ==
  ASSUME WInv, NEW w \in Worker, ReadMail(w)
  PROVE  [Next]_vars /\ CallersOK'
<1> USE DEF WInv, CallersOK
<1> DEFINE r == role[worker[w].turn]
<1>1. worker[w].turn \in Turns /\ worker[w].pc = "fresh" /\ worker[w] \in WorkerState
  BY DEF Memory, WorkerState, ReadMail, At
<1>2. [Next]_vars
  <2>1. CASE Inbox(r) = {}
    BY <2>1 DEF ReadMail
  <2>2. CASE Inbox(r) # {}
    <3>1. PICK m \in unread : m.to = r
      BY <2>2 DEF Inbox
    <3>2. m.to \in Roles \cup {"human"} /\ r \in Roles \cup {"none"}
      BY <1>1, <3>1 DEF IInv, TypeOK, Messages
    <3>3. r \in Roles
      BY <3>1, <3>2 DEF Roles
    <3>4. QED
      BY <2>2, <3>3 DEF ReadMail, Next, Read
  <2>3. QED
    BY <2>1, <2>2
<1>3. Memory'
  <2>1. /\ worker' \in [Worker -> WorkerState]
        /\ \A v \in Worker : v # w => worker'[v] = worker[v]
        /\ worker'[w].pc = "briefed" /\ worker'[w].token = worker[w].token
    BY <1>1 DEF ReadMail, Goto, Memory, WorkerState, Pcs, OpStates
  <2>2. QED
    BY <1>1, <2>1, MoveStep DEF InCall
<1>4. Ledger' /\ Surroundings'
  BY <1>2, LedgerKept, SurroundingsKept DEF ReadMail
<1>5. QED
  BY <1>2, <1>3, <1>4

\* A saved cursor is sound, and so is the ledger with the rows that go with it.
LEMMA SaveStep ==
  ASSUME WInv, NEW w \in Worker, NEW call \in 1..(MaxCalls + 1), NEW pending \in BOOLEAN,
         pending => call \in Calls, SaveContext(w, call, pending),
         UNCHANGED <<role, answer, posts>>, op' \in [Turns -> [Calls -> OpStates]]
  PROVE  Ledger'
<1>1. worker[w].turn \in Turns
  BY DEF WInv, CallersOK, Memory, WorkerState
<1>2. context' \in [Turns -> [call: 0..(MaxCalls + 1), pending: BOOLEAN]]
  BY <1>1, MaxCallsAssumption DEF SaveContext, WInv, CallersOK, Ledger
<1>3. \A t \in Turns : context'[t] = context[t] \/ context'[t] = [call |-> call, pending |-> pending]
  BY <1>1 DEF SaveContext, WInv, CallersOK, Ledger
<1>4. \A t \in Turns :
        /\ context'[t].pending => context'[t].call \in Calls
        /\ context'[t] # NoContext => context'[t].call >= 1
  <2> SUFFICES ASSUME NEW t \in Turns
               PROVE  /\ context'[t].pending => context'[t].call \in Calls
                      /\ context'[t] # NoContext => context'[t].call >= 1
    OBVIOUS
  <2>1. CASE context'[t] = context[t]
    BY <2>1 DEF WInv, CallersOK, Ledger
  <2>2. CASE context'[t] = [call |-> call, pending |-> pending]
    BY <2>2
  <2>3. QED
    BY <1>3, <2>1, <2>2
<1>5. QED
  BY <1>2, <1>4 DEF WInv, CallersOK, Ledger

LEMMA SaveFirstContextKeeps ==
  ASSUME WInv, NEW w \in Worker, SaveFirstContext(w)
  PROVE  [Next]_vars /\ CallersOK'
<1> USE DEF WInv, CallersOK
<1>1. worker[w].pc = "briefed" /\ worker[w] \in WorkerState
  BY DEF SaveFirstContext, At, Memory
<1>2. CASE LosesLease(w)
  BY <1>1, <1>2, GivingWay
<1>3. CASE ~LosesLease(w)
  <2> DEFINE m == [worker[w] EXCEPT !.pc = "top", !.call = 1]
  <2>1. m \in WorkerState /\ SoundMemory(m)
    <3>1. 1 \in 0..(MaxCalls + 1)
      BY MaxCallsAssumption
    <3>2. m \in WorkerState
      BY <1>1, <3>1 DEF WorkerState, Pcs
    <3>3. m.pc = "top" /\ m.token = worker[w].token /\ m.call = 1
      BY <1>1 DEF WorkerState
    <3>4. SoundMemory(m)
      BY <1>1, <3>3 DEF SoundMemory, InCall, Memory
    <3>5. QED
      BY <3>2, <3>4
  <2>2. Memory'
    <3>1. worker' = [worker EXCEPT ![w] = m]
      BY <1>1, <1>3 DEF SaveFirstContext, Memory, WorkerState
    <3>2. QED
      BY <2>1, <3>1, MemoryStep
  <2>3. Ledger'
    <3>1. SaveContext(w, 1, FALSE) /\ UNCHANGED <<role, op, answer, posts>>
      BY <1>3 DEF SaveFirstContext, vars, taskVars
    <3>2. 1 \in 1..(MaxCalls + 1) /\ op' \in [Turns -> [Calls -> OpStates]]
      BY <3>1, MaxCallsAssumption DEF Ledger
    <3>3. QED
      BY <3>1, <3>2, SaveStep
  <2>4. QED
    BY <1>3, <2>2, <2>3, SurroundingsKept DEF SaveFirstContext
<1>4. QED
  BY <1>2, <1>3

LEMMA BeginKeeps ==
  ASSUME WInv, NEW w \in Worker, Begin(w)
  PROVE  [Next]_vars /\ CallersOK'
<1> USE DEF WInv, CallersOK
<1> DEFINE t == worker[w].turn
           c == worker[w].call
<1>1. /\ worker[w].pc = "top" /\ worker[w] \in WorkerState
      /\ t \in Turns /\ c \in 1..(MaxCalls + 1)
  BY MaxCallsAssumption DEF Begin, At, Memory, WorkerState, SoundMemory
<1>2. CASE LosesLease(w) \/ HitsLimit(w)
  BY <1>1, <1>2, GivingWay
<1>3. CASE /\ \E r \in {"turn_call_limit", "cost_limit"} : Raise(w, "stopping", r)
           /\ UNCHANGED <<vars, callVars, envVars>>
  BY <1>1, <1>3, RaiseStep, UnseenStep, SurroundingsKept DEF LimitReasons
<1>4. CASE Fails(w, "provider_error") /\ UNCHANGED <<vars, context, answer, posts, envVars>>
  BY <1>1, <1>4, FailKeeps
<1>5. CASE /\ c <= MaxCalls
           /\ op' = [op EXCEPT ![t][c] = "planned"]
           /\ SaveContext(w, c, TRUE)
           /\ worker' = [worker EXCEPT ![w].pc = "calling", ![w].saw = "planned"]
           /\ UNCHANGED <<vars, answer, posts, envVars>>
  <2>1. c \in Calls
    BY <1>1, <1>5 DEF Calls
  <2>2. op' \in [Turns -> [Calls -> OpStates]]
    BY <1>1, <1>5, <2>1 DEF Ledger, OpStates
  <2>3. Ledger'
    BY <1>1, <1>5, <2>1, <2>2, SaveStep DEF vars, taskVars
  <2>4. /\ worker' \in [Worker -> WorkerState]
        /\ \A v \in Worker : v # w => worker'[v] = worker[v]
        /\ worker'[w].pc = "calling" /\ worker'[w].call = c /\ worker'[w].token = worker[w].token
    BY <1>1, <1>5 DEF Memory, WorkerState, Pcs, InCall, OpStates
  <2>5. Memory'
    BY <1>1, <2>1, <2>4, MoveStep DEF InCall
  <2>6. QED
    BY <1>5, <2>3, <2>5, SurroundingsKept
<1>6. QED
  BY <1>2, <1>3, <1>4, <1>5 DEF Begin, callVars

LEMMA ResumeKeeps ==
  ASSUME WInv, NEW w \in Worker, Resume(w)
  PROVE  [Next]_vars /\ CallersOK'
<1> USE DEF WInv, CallersOK
<1>1. worker[w].pc = "resume" /\ worker[w] \in WorkerState /\ worker[w].call \in Calls
  BY DEF Resume, At, Memory, SoundMemory, InCall
<1>2. CASE LosesLease(w) \/ HitsLimit(w)
  BY <1>1, <1>2, GivingWay
<1>3. CASE ~LosesLease(w) /\ ~HitsLimit(w)
  <2>1. /\ op[worker[w].turn][worker[w].call] \in OpStates
        /\ answer[worker[w].turn][worker[w].call] \in Responses
    BY <1>1 DEF Ledger, WorkerState
  <2>2. /\ worker' \in [Worker -> WorkerState]
        /\ \A v \in Worker : v # w => worker'[v] = worker[v]
        /\ worker'[w].pc = "calling" /\ worker'[w].call = worker[w].call
        /\ worker'[w].token = worker[w].token
    BY <1>1, <1>3, <2>1 DEF Resume, Memory, WorkerState, Pcs, InCall
  <2>3. Memory'
    BY <1>1, <2>2, MoveStep DEF InCall
  <2>4. QED
    BY <1>3, <2>3, UnseenStep, SurroundingsKept DEF Resume
<1>4. QED
  BY <1>2, <1>3

\* The steps of advance and its caller that write no answer.
LEMMA CallKeeps ==
  ASSUME WInv, NEW w \in Worker,
         MarkStarted(w) \/ Reuse(w) \/ GiveUp(w)
  PROVE  [Next]_vars /\ CallersOK'
<1> USE DEF WInv, CallersOK
<1>1. worker[w].pc = "calling" /\ worker[w] \in WorkerState /\ worker[w].call \in Calls
  BY DEF MarkStarted, Reuse, GiveUp, Saw, At, Memory, SoundMemory, InCall
<1>2. CASE FailsUnknown(w) \/ Fails(w, "provider_error")
  <2>1. UNCHANGED <<vars, context, answer, posts, envVars>>
    BY DEF MarkStarted, Reuse, GiveUp, callVars
  <2>2. QED
    BY <1>1, <1>2, <2>1, FailKeeps
<1>3. CASE \E pc \in {"posting", "answered"} : Goto(w, pc)
  <2>1. Memory'
    BY <1>1, <1>3, GotoStep DEF InCall
  <2>2. UNCHANGED <<vars, context, answer, posts, envVars>>
    BY DEF MarkStarted, Reuse, GiveUp, callVars
  <2>3. CASE UNCHANGED op
    BY <2>1, <2>2, <2>3, UnseenStep, SurroundingsKept DEF callVars
  <2>4. CASE MarkStarted(w)
    <3>1. op' \in [Turns -> [Calls -> OpStates]]
      BY <1>1, <2>4 DEF MarkStarted, Ledger, OpStates, WorkerState
    <3>2. Ledger'
      BY <2>2, <3>1, RowsStep DEF vars, taskVars, Ledger
    <3>3. QED
      BY <2>1, <2>2, <3>2, SurroundingsKept
  <2>5. CASE FailsUnknown(w) \/ Fails(w, "provider_error")
    BY <1>2, <2>5
  <2>6. QED
    BY <2>3, <2>4, <2>5 DEF MarkStarted, Reuse, GiveUp, callVars
<1>4. QED
  BY <1>2, <1>3 DEF MarkStarted, Reuse, GiveUp

\* What the provider answers fits the role of the turn.
LEMMA AnswersTyped ==
  ASSUME WInv, NEW w \in Worker, worker[w].pc # "idle", NEW a \in Answers(worker[w].turn)
  PROVE  /\ a \in Responses
         /\ a \in Submission => a \in Submissions(role[worker[w].turn])
<1> DEFINE t == worker[w].turn
<1>1. t \in Turns /\ role[t] # "none"
  BY DEF WInv, CallersOK, Memory, WorkerState, Recall
<1>2. role[t] \in Roles
  BY <1>1 DEF WInv, IInv, TypeOK
<1>3. Submissions(role[t]) \subseteq Submission
  BY <1>2 DEF Submission
<1>4. QED
  BY <1>2, <1>3, AnswerAssumption DEF Answers, Responses

\* The response a worker at a call has in memory may be written to the row.
LEMMA RespondKeeps ==
  ASSUME WInv, NEW w \in Worker, worker[w].pc \in InCall, NEW a \in {Batch, worker[w].got},
         op' \in [Turns -> [Calls -> OpStates]], posts' \in [Turns -> [Calls -> 0..2]],
         UNCHANGED <<role, context>>, answer' = Responded(w, a)
  PROVE  Ledger'
<1> DEFINE t == worker[w].turn
           c == worker[w].call
<1>1. worker[w] \in WorkerState /\ t \in Turns /\ c \in Calls /\ Ledger
  BY DEF WInv, CallersOK, Memory, SoundMemory, WorkerState
<1>2. a \in Responses
  BY <1>1 DEF WorkerState, Responses
<1>3. role[t] # "none" /\ (a \in Submission => a \in Submissions(role[t]))
  BY AnswerAssumption DEF WInv, Recall, InCall
<1>4. QED
  BY <1>1, <1>2, <1>3, ResponseStep DEF Responded

LEMMA PollKeeps ==
  ASSUME WInv, NEW w \in Worker, Poll(w)
  PROVE  [Next]_vars /\ CallersOK'
<1> USE DEF WInv, CallersOK
<1>1. worker[w].pc = "calling" /\ worker[w] \in WorkerState /\ worker[w].call \in Calls
  BY DEF Poll, Saw, At, Memory, SoundMemory, InCall
<1>2. worker[w].turn \in Turns
  BY <1>1 DEF WorkerState
<1>3. UNCHANGED <<vars, context, posts, envVars>> /\ answer' \in {answer, Responded(w, worker[w].got)}
  BY DEF Poll
<1>4. Memory' /\ op' \in [Turns -> [Calls -> OpStates]]
  <2>1. CASE Goto(w, "parking") /\ UNCHANGED op
    BY <1>1, <2>1, GotoStep DEF InCall, Ledger
  <2>2. CASE Fails(w, "provider_error") \/ FailsUnknown(w)
    <3>1. Memory'
      BY <1>1, <2>2, RaiseStep DEF Fails, FailsUnknown
    <3>2. QED
      BY <1>2, <2>2, <3>1, FailedRows
  <2>3. CASE /\ \E a \in Answers(worker[w].turn) :
                  worker' = [worker EXCEPT ![w].pc = "answered", ![w].saw = "none", ![w].got = a]
             /\ UNCHANGED op
    <3>1. PICK a \in Answers(worker[w].turn) :
            worker' = [worker EXCEPT ![w].pc = "answered", ![w].saw = "none", ![w].got = a]
      BY <2>3
    <3>2. a \in Responses
      BY <1>1, AnswersTyped
    <3>3. /\ worker' \in [Worker -> WorkerState]
          /\ \A v \in Worker : v # w => worker'[v] = worker[v]
          /\ worker'[w].pc = "answered" /\ worker'[w].call = worker[w].call
          /\ worker'[w].token = worker[w].token
      BY <1>1, <3>1, <3>2 DEF Memory, WorkerState, Pcs, InCall, OpStates
    <3>4. QED
      BY <1>1, <2>3, <3>3, MoveStep DEF InCall, Ledger
  <2>4. QED
    BY <2>1, <2>2, <2>3 DEF Poll
<1>5. Ledger'
  <2>1. UNCHANGED <<role, context, posts>>
    BY <1>3 DEF vars, taskVars
  <2>2. CASE UNCHANGED answer
    BY <1>4, <2>1, <2>2, RowsStep DEF Ledger
  <2>3. CASE answer' = Responded(w, worker[w].got)
    BY <1>1, <1>4, <2>1, <2>3, RespondKeeps DEF Ledger, InCall
  <2>4. QED
    BY <1>3, <2>2, <2>3
<1>6. QED
  BY <1>3, <1>4, <1>5, SurroundingsKept

LEMMA PostKeeps ==
  ASSUME WInv, NEW w \in Worker, Post(w)
  PROVE  [Next]_vars /\ CallersOK'
<1> USE DEF WInv, CallersOK
<1> DEFINE t == worker[w].turn
           c == worker[w].call
<1>1. worker[w].pc = "posting" /\ worker[w] \in WorkerState /\ t \in Turns /\ c \in Calls
  BY DEF Post, At, Memory, SoundMemory, InCall, WorkerState
<1>2. posts' \in [Turns -> [Calls -> 0..2]]
  BY <1>1 DEF Post, Posted, Ledger
<1>3. op' \in [Turns -> [Calls -> OpStates]]
  <2>1. \A S : Unresolve(t, S) \in [Calls -> OpStates]
    BY <1>1, UnresolvedRows
  <2>2. CASE op' = [op EXCEPT ![t][c] = "pending"]
    BY <1>1, <2>2 DEF Ledger, OpStates
  <2>3. ASSUME NEW S, NEW s \in {"failed", "unknown"},
               op' = [op EXCEPT ![t] = [Unresolve(t, S) EXCEPT ![c] = s]]
        PROVE  op' \in [Turns -> [Calls -> OpStates]]
    <3>1. [Unresolve(t, S) EXCEPT ![c] = s] \in [Calls -> OpStates]
      BY <1>1, <2>1 DEF OpStates
    <3>2. QED
      BY <2>3, <3>1 DEF Ledger
  <2>4. QED
    BY <2>2, <2>3 DEF Post
<1>4. Memory'
  <2>1. \/ Goto(w, "parking")
        \/ Raise(w, "failing", "provider_error")
    BY DEF Post
  <2>2. QED
    BY <1>1, <2>1, GotoStep, RaiseStep DEF InCall
<1>5. Ledger'
  <2>1. UNCHANGED <<role, context>>
    BY DEF Post, vars, taskVars
  <2>2. CASE UNCHANGED answer
    BY <1>2, <1>3, <2>1, <2>2, RowsStep
  <2>3. CASE answer' = Responded(w, Batch)
    BY <1>1, <1>2, <1>3, <2>1, <2>3, RespondKeeps DEF InCall
  <2>4. QED
    BY <2>2, <2>3 DEF Post
<1>6. QED
  BY <1>4, <1>5, SurroundingsKept DEF Post

LEMMA CompleteKeeps ==
  ASSUME WInv, NEW w \in Worker, Complete(w)
  PROVE  [Next]_vars /\ CallersOK'
<1> USE DEF WInv, CallersOK
<1> DEFINE t == worker[w].turn
           c == worker[w].call
<1>1. worker[w].pc = "answered" /\ worker[w] \in WorkerState /\ t \in Turns /\ c \in Calls
  BY DEF Complete, At, Memory, SoundMemory, InCall, WorkerState
<1>2. CASE LosesLease(w)
  BY <1>1, <1>2, GivingWay
<1>3. CASE Goto(w, "tools") /\ UNCHANGED <<vars, callVars, envVars>>
  BY <1>1, <1>3, GotoStep, UnseenStep, SurroundingsKept DEF InCall
<1>4. CASE Fails(w, "provider_error") /\ UNCHANGED <<vars, context, answer, posts, envVars>>
  BY <1>1, <1>4, FailKeeps
<1>5. CASE /\ Owns(w)
           /\ StoreAnswer(w, t, c)
           /\ exhausted' \in {exhausted, exhausted \cup (Limits \cap {"cost_limit"})}
           /\ Goto(w, "tools") \/ Raise(w, "stopping", "cost_limit")
           /\ UNCHANGED <<vars, context, posts, broker, crashes>>
  <2>1. Memory'
    BY <1>1, <1>5, GotoStep, RaiseStep DEF InCall, LimitReasons
  <2>2. Surroundings'
    BY <1>5 DEF Surroundings
  <2>3. op' \in [Turns -> [Calls -> OpStates]]
    BY <1>1, <1>5 DEF StoreAnswer, Ledger, OpStates
  <2>4. Ledger'
    BY <1>1, <1>5, <2>3, RespondKeeps DEF StoreAnswer, Ledger, InCall, vars, taskVars
  <2>5. QED
    BY <1>5, <2>1, <2>2, <2>4
<1>6. QED
  BY <1>2, <1>3, <1>4, <1>5 DEF Complete, callVars, envVars

LEMMA ToolsKeeps ==
  ASSUME WInv, NEW w \in Worker, Tools(w)
  PROVE  [Next]_vars /\ CallersOK'
<1> USE DEF WInv, CallersOK
<1>1. worker[w].pc = "tools" /\ worker[w] \in WorkerState
  BY DEF Tools, At, Memory
<1>2. CASE LosesLease(w) \/ HitsLimit(w)
  BY <1>1, <1>2, GivingWay
<1>3. CASE /\ \E r \in {"invalid_submission", "provider_error"} : Fails(w, r)
           /\ UNCHANGED <<vars, context, answer, posts, envVars>>
  BY <1>1, <1>3, FailKeeps
<1>4. CASE /\ \/ \E limit \in {"turn_call_limit", "cost_limit"} : Raise(w, "stopping", limit)
              \/ \E pc \in {"saving", "submitting"} : Goto(w, pc)
           /\ UNCHANGED <<vars, callVars, envVars>>
  <2>1. Memory'
    BY <1>1, <1>4, GotoStep, RaiseStep DEF InCall, LimitReasons
  <2>2. QED
    BY <1>4, <2>1, UnseenStep, SurroundingsKept
<1>5. QED
  BY <1>2, <1>3, <1>4 DEF Tools

LEMMA SubmitTurnKeeps ==
  ASSUME WInv, NEW w \in Worker, SubmitTurn(w)
  PROVE  [Next]_vars /\ CallersOK'
<1> USE DEF WInv, CallersOK
<1> DEFINE t == worker[w].turn
           a == worker[w].got
<1>1. /\ worker[w].pc = "submitting" /\ worker[w] \in WorkerState
      /\ t \in Turns /\ worker[w].token \in Token
  BY DEF SubmitTurn, At, Memory, SoundMemory, InCall, WorkerState
<1>2. CASE Fails(w, "provider_error") /\ UNCHANGED <<vars, context, answer, posts, envVars>>
  BY <1>1, <1>2, FailKeeps
<1>3. CASE Quit(w) /\ UNCHANGED <<vars, callVars, envVars>>
  BY <1>3, QuitStep, UnseenStep, SurroundingsKept
<1>4. CASE Goto(w, "saving") /\ UNCHANGED <<vars, callVars, envVars>>
  BY <1>1, <1>4, GotoStep, UnseenStep, SurroundingsKept DEF InCall
<1>5. CASE /\ CommitTurn(t, worker[w].token, a, Exhausted)
           /\ Quit(w)
           /\ UNCHANGED <<callVars, envVars>>
  <2>1. Exhausted \in LimitReasons \cup {"none"}
    BY DEF Exhausted, LimitReasons
  <2>2. Commit
    <3>1. CASE Exhausted = "none"
      <4>1. a \in Submissions(role[t]) /\ role[t] \in Roles
        BY <1>1, <1>5, <3>1 DEF CommitTurn, Accepted, IInv, TypeOK, TasksInOrder, LeaseHeld,
                                LimitReasons
      <4>2. a \in Submission
        BY <4>1, SubmissionFields
      <4>3. QED
        BY <1>1, <1>5, <2>1, <4>2 DEF Commit
    <3>2. CASE Exhausted # "none"
      <4> DEFINE s == [verdict |-> "propose", proposal |-> 0, validation |-> 0, gaps |-> FALSE]
      <4>1. s \in Submissions("finder") /\ "finder" \in Roles
        BY MaxTurnsAssumption DEF Submissions, Roles
      <4>2. s \in Submission
        BY <4>1 DEF Submission
      <4>3. CommitTurn(t, worker[w].token, s, Exhausted)
        BY <1>5, <3>2 DEF CommitTurn
      <4>4. QED
        BY <1>1, <2>1, <4>2, <4>3 DEF Commit
    <3>3. QED
      BY <3>1, <3>2
  <2>3. [Next]_vars
    BY <2>2 DEF Next
  <2>4. QED
    BY <1>5, <2>3, QuitStep, LedgerKept, SurroundingsKept
<1>6. QED
  BY <1>2, <1>3, <1>4, <1>5 DEF SubmitTurn, callVars

LEMMA SaveNextContextKeeps ==
  ASSUME WInv, NEW w \in Worker, SaveNextContext(w)
  PROVE  [Next]_vars /\ CallersOK'
<1> USE DEF WInv, CallersOK
<1> DEFINE next == worker[w].call + 1
           m == [worker[w] EXCEPT !.pc = "top", !.call = next, !.got = NoRevision]
<1>1. worker[w].pc = "saving" /\ worker[w] \in WorkerState /\ next \in 1..(MaxCalls + 1)
  BY MaxCallsAssumption DEF SaveNextContext, At, Memory, SoundMemory, InCall, Calls
<1>2. CASE LosesLease(w)
  BY <1>1, <1>2, GivingWay
<1>3. CASE ~LosesLease(w)
  <2>1. m \in WorkerState
    <3>1. next \in 0..(MaxCalls + 1) /\ "top" \in Pcs
      BY <1>1, MaxCallsAssumption DEF Pcs
    <3>2. QED
      BY <1>1, <3>1 DEF WorkerState, Responses
  <2>2. m.pc = "top" /\ m.token = worker[w].token /\ m.call = next
    BY <1>1 DEF WorkerState
  <2>3. SoundMemory(m)
    BY <1>1, <2>2 DEF SoundMemory, InCall, Memory
  <2>4. worker' = [worker EXCEPT ![w] = m]
    BY <1>1, <1>3 DEF SaveNextContext, Memory, WorkerState
  <2>5. Memory'
    BY <2>1, <2>3, <2>4, MemoryStep
  <2>6. SaveContext(w, next, FALSE) /\ UNCHANGED <<role, op, answer, posts>>
    BY <1>3 DEF SaveNextContext, vars, taskVars
  <2>7. Ledger'
    BY <1>1, <2>6, SaveStep DEF Ledger
  <2>8. QED
    BY <1>3, <2>5, <2>7, SurroundingsKept DEF SaveNextContext
<1>4. QED
  BY <1>2, <1>3

LEMMA ParkKeeps ==
  ASSUME WInv, NEW w \in Worker, Park(w)
  PROVE  [Next]_vars /\ CallersOK'
<1> USE DEF WInv, CallersOK
<1>1. /\ worker[w].pc = "parking" /\ worker[w].turn \in Turns /\ worker[w].token \in Token
  BY DEF Park, At, Memory, SoundMemory, InCall, WorkerState
<1>2. CASE LosesLease(w)
  BY <1>1, <1>2, GivingWay
<1>3. CASE ~LosesLease(w)
  <2>1. [Next]_vars
    BY <1>1, <1>3 DEF Park, Next, Release
  <2>2. Memory'
    BY <1>1, <1>3, GotoStep DEF Park, InCall
  <2>3. QED
    BY <1>3, <2>1, <2>2, LedgerKept, SurroundingsKept DEF Park
<1>4. QED
  BY <1>2, <1>3

LEMMA RescheduleKeeps ==
  ASSUME WInv, NEW w \in Worker, Reschedule(w)
  PROVE  [Next]_vars /\ CallersOK'
<1> USE DEF WInv, CallersOK
<1>1. Memory'
  BY QuitStep DEF Reschedule
<1>2. Surroundings'
  BY DEF Reschedule, Surroundings, Memory, WorkerState
<1>3. QED
  BY <1>1, <1>2, UnseenStep DEF Reschedule

LEMMA EndDiscoveryKeeps ==
  ASSUME WInv, NEW w \in Worker, EndDiscovery(w)
  PROVE  [Next]_vars /\ CallersOK'
<1> USE DEF WInv, CallersOK
<1> DEFINE why == worker[w].why
           stat == IF At(w, "failing") THEN "failed" ELSE "completed"
<1>1. <<why, stat>> \in ExternalStops
  BY DEF EndDiscovery, At, Memory, SoundMemory, ExternalStops, LimitReasons
<1>2. [Next]_vars
  <2>1. CASE status \in Ongoing
    <3>1. FinishDiscovery(<<why, stat>>[1], <<why, stat>>[2])
      BY <2>1 DEF EndDiscovery
    <3>2. QED
      BY <1>1, <3>1 DEF Next, Finish
  <2>2. QED
    BY <2>1 DEF EndDiscovery
<1>3. QED
  BY <1>2, QuitStep, LedgerKept, SurroundingsKept DEF EndDiscovery

LEMMA DeliverKeeps ==
  ASSUME WInv, NEW w \in Worker, NEW t \in Turns, Deliver(w, t)
  PROVE  [Next]_vars /\ CallersOK'
<1> USE DEF WInv, CallersOK
<1>1. Surroundings'
  BY DEF Deliver, Surroundings
<1>2. CASE UNCHANGED <<vars, worker>>
  BY <1>1, <1>2, UnseenStep DEF Deliver, Memory, SoundMemory
<1>3. CASE \E k \in Token :
             /\ ClaimTask(t, k, Blocked(t))
             /\ worker' = IF Blocked(t) THEN worker ELSE Claimed(w, t, k)
  <2>1. PICK k \in Token :
          /\ ClaimTask(t, k, Blocked(t))
          /\ worker' = IF Blocked(t) THEN worker ELSE Claimed(w, t, k)
    BY <1>3
  <2>2. [Next]_vars
    <3>1. Blocked(t) \in BOOLEAN
      BY DEF Blocked
    <3>2. QED
      BY <2>1, <3>1 DEF Next, Claim
  <2>3. Memory'
    <3> DEFINE pc == IF context[t] = NoContext THEN "fresh"
                     ELSE IF context[t].pending THEN "resume" ELSE "top"
               m == [Idle EXCEPT !.pc = pc, !.turn = t, !.token = k, !.call = context[t].call]
    <3>1. context[t].call \in 0..(MaxCalls + 1) /\ context[t] \in [call: 0..(MaxCalls + 1), pending: BOOLEAN]
      BY DEF Ledger
    <3>2. Idle \in WorkerState /\ pc \in Pcs
      BY IdleIsSound DEF Pcs, InCall
    <3>3. /\ m \in WorkerState
          /\ m.pc = pc /\ m.token = k /\ m.call = context[t].call
      BY <3>1, <3>2 DEF WorkerState
    <3>4. /\ context[t].pending => context[t].call \in Calls
          /\ context[t] # NoContext => context[t].call >= 1
      BY DEF Ledger
    <3>5. SoundMemory(m)
      <4>1. CASE pc = "fresh"
        BY <3>3, <4>1 DEF SoundMemory, InCall
      <4>2. CASE pc = "resume" /\ context[t].pending
        BY <3>3, <3>4, <4>2 DEF SoundMemory, InCall
      <4>3. CASE pc = "top" /\ context[t] # NoContext
        BY <3>3, <3>4, <4>3 DEF SoundMemory, InCall
      <4>4. QED
        BY <4>1, <4>2, <4>3
    <3>6. CASE Blocked(t)
      BY <2>1, <3>6 DEF Memory, SoundMemory
    <3>7. CASE ~Blocked(t)
      <4>1. worker' = [worker EXCEPT ![w] = m]
        BY <2>1, <3>7 DEF Claimed
      <4>2. QED
        BY <3>3, <3>5, <4>1, MemoryStep
    <3>8. QED
      BY <3>6, <3>7
  <2>4. QED
    BY <1>1, <2>2, <2>3, LedgerKept DEF Deliver
<1>4. QED
  BY <1>2, <1>3 DEF Deliver

-----------------------------------------------------------------------------
(* The steps around the workers                                            *)

LEMMA AroundKeeps ==
  ASSUME WInv,
         \/ Begun \/ Cancel \/ TimeIsUp \/ Repair
         \/ \E t \in Turns : Publish(t) \/ Lose(t) \/ Expire(t)
  PROVE  [Next]_vars /\ CallersOK'
<1> USE DEF WInv, CallersOK
<1>1. UNCHANGED worker /\ UNCHANGED callVars
  BY DEF Begun, Cancel, TimeIsUp, Repair, Publish, Lose, Expire
<1>2. Memory'
  BY <1>1 DEF Memory, SoundMemory
<1>3. Surroundings'
  BY DEF Begun, Cancel, TimeIsUp, Repair, Publish, Lose, Expire, Surroundings, envVars
<1>4. [Next]_vars
  <2>1. Cancel => Finish
    <3>1. <<"human_cancelled", "cancelled">> \in ExternalStops
      BY DEF ExternalStops
    <3>2. Cancel => FinishDiscovery(<<"human_cancelled", "cancelled">>[1],
                                    <<"human_cancelled", "cancelled">>[2])
      BY DEF Cancel
    <3>3. QED
      BY <3>1, <3>2 DEF Finish
  <2>2. QED
    BY <2>1 DEF Begun, TimeIsUp, Repair, Publish, Lose, Expire, Next, Dispatch
<1>5. QED
  BY <1>1, <1>2, <1>3, <1>4, LedgerKept

LEMMA CrashKeeps ==
  ASSUME WInv, NEW w \in Worker, Crash(w)
  PROVE  [Next]_vars /\ CallersOK'
<1> USE DEF WInv, CallersOK
<1>1. Memory'
  BY QuitStep DEF Crash
<1>2. posts' \in [Turns -> [Calls -> 0..2]]
  <2>1. worker[w].turn \in Turns
    BY DEF Memory, WorkerState
  <2>2. CASE At(w, "posting")
    <3>1. worker[w].call \in Calls
      BY <2>2 DEF At, Memory, SoundMemory, InCall
    <3>2. posts[worker[w].turn][worker[w].call] \in 0..2
      BY <2>1, <3>1 DEF Ledger
    <3>3. posts \in [Turns -> [Calls -> 0..2]] /\ Posted(w) \in [Turns -> [Calls -> 0..2]]
      BY <2>1, <3>1, <3>2 DEF Posted, Ledger
    <3>4. QED
      BY <3>3 DEF Crash
  <2>3. CASE ~At(w, "posting")
    BY <2>3 DEF Crash, Ledger
  <2>4. QED
    BY <2>2, <2>3
<1>3. Ledger'
  BY <1>2, RowsStep DEF Crash, vars, taskVars, Ledger
<1>4. Surroundings'
  BY MaxCrashesAssumption DEF Crash, Surroundings
<1>5. QED
  BY <1>1, <1>3, <1>4 DEF Crash

-----------------------------------------------------------------------------
(* The theorems                                                            *)

\* Where what a worker holds after a step comes from: it held it, read it from
\* a row of its turn or had it from the provider; or it just claimed a task.
Recalls(w) ==
  \/ worker'[w].pc = "idle"
  \/ /\ worker[w].pc # "idle" /\ worker'[w].turn = worker[w].turn
     /\ \/ worker'[w].got \in {worker[w].got, NoRevision}
        \/ \E c \in Calls : worker'[w].got = answer[worker[w].turn][c]
        \/ worker'[w].got \in Answers(worker[w].turn)
  \/ worker'[w].got = NoRevision /\ worker'[w].turn \in Turns /\ role[worker'[w].turn] # "none"

LEMMA WorkRecalls ==
  ASSUME WInv, NEW w \in Worker, Work(w)
  PROVE  Recalls(w) /\ \A v \in Worker : v # w => worker'[v] = worker[v]
<1> USE DEF WInv, CallersOK
<1>1. worker \in [Worker -> WorkerState] /\ worker[w] \in WorkerState /\ SoundMemory(worker[w])
  BY DEF Memory
<1>2. ASSUME NEW pc, NEW why, worker[w].pc # "idle", Goto(w, pc) \/ Raise(w, pc, why)
      PROVE  Recalls(w) /\ \A v \in Worker : v # w => worker'[v] = worker[v]
  BY <1>1, <1>2 DEF Goto, Raise, WorkerState, Recalls
<1>3. Quit(w) => Recalls(w) /\ \A v \in Worker : v # w => worker'[v] = worker[v]
  BY <1>1 DEF Quit, Idle, Recalls
<1>4. CASE LosesLease(w)
  BY <1>3, <1>4 DEF LosesLease
<1>5. CASE HitsLimit(w) /\ worker[w].pc # "idle"
  BY <1>2, <1>5 DEF HitsLimit
<1>6. CASE worker[w].pc # "idle" /\ (FailsUnknown(w) \/ \E r : Fails(w, r))
  BY <1>2, <1>6 DEF Fails, FailsUnknown
<1>7. CASE ReadMail(w) \/ MarkStarted(w) \/ Post(w) \/ Reuse(w)
  BY <1>2, <1>7 DEF ReadMail, MarkStarted, Post, Reuse, Saw, At
<1>8. CASE SaveFirstContext(w)
  BY <1>1, <1>4, <1>8 DEF SaveFirstContext, At, WorkerState, Recalls
<1>9. CASE Begin(w)
  <2>1. worker[w].pc # "idle"
    BY <1>9 DEF Begin, At
  <2>2. CASE worker' = [worker EXCEPT ![w].pc = "calling", ![w].saw = "planned"]
    BY <1>1, <2>1, <2>2 DEF WorkerState, Recalls
  <2>3. QED
    BY <1>2, <1>4, <1>5, <1>6, <1>9, <2>1, <2>2 DEF Begin
<1>10. CASE Resume(w)
  <2>1. worker[w].pc # "idle" /\ worker[w].call \in Calls
    BY <1>1, <1>10 DEF Resume, At, SoundMemory, InCall
  <2>2. CASE worker' = [worker EXCEPT ![w].pc = "calling",
                                      ![w].saw = op[worker[w].turn][worker[w].call],
                                      ![w].got = answer[worker[w].turn][worker[w].call]]
    BY <1>1, <2>1, <2>2 DEF WorkerState, Recalls
  <2>3. QED
    BY <1>4, <1>5, <1>10, <2>1, <2>2 DEF Resume
<1>11. CASE Poll(w)
  <2>1. worker[w].pc # "idle"
    BY <1>11 DEF Poll, Saw, At
  <2>2. ASSUME NEW a \in Answers(worker[w].turn),
               worker' = [worker EXCEPT ![w].pc = "answered", ![w].saw = "none", ![w].got = a]
        PROVE  Recalls(w) /\ \A v \in Worker : v # w => worker'[v] = worker[v]
    BY <1>1, <2>1, <2>2 DEF WorkerState, Recalls
  <2>3. QED
    BY <1>2, <1>6, <1>11, <2>1, <2>2 DEF Poll
<1>12. CASE GiveUp(w)
  BY <1>6, <1>12 DEF GiveUp, Saw, At
<1>13. CASE Complete(w)
  <2>1. worker[w].pc # "idle"
    BY <1>13 DEF Complete, At
  <2>2. QED
    BY <1>2, <1>4, <1>6, <1>13, <2>1 DEF Complete
<1>14. CASE Tools(w)
  <2>1. worker[w].pc # "idle"
    BY <1>14 DEF Tools, At
  <2>2. QED
    BY <1>2, <1>4, <1>5, <1>6, <1>14, <2>1 DEF Tools
<1>15. CASE SubmitTurn(w)
  <2>1. worker[w].pc # "idle"
    BY <1>15 DEF SubmitTurn, At
  <2>2. QED
    BY <1>2, <1>3, <1>6, <1>15, <2>1 DEF SubmitTurn
<1>16. CASE SaveNextContext(w)
  <2>1. worker[w].pc # "idle"
    BY <1>16 DEF SaveNextContext, At
  <2>2. CASE worker' = [worker EXCEPT ![w].pc = "top", ![w].call = worker[w].call + 1,
                                      ![w].got = NoRevision]
    BY <1>1, <2>1, <2>2 DEF WorkerState, Recalls
  <2>3. QED
    BY <1>4, <1>16, <2>2 DEF SaveNextContext
<1>17. CASE Park(w)
  BY <1>2, <1>4, <1>17 DEF Park, At
<1>18. CASE Reschedule(w) \/ EndDiscovery(w)
  BY <1>3, <1>18 DEF Reschedule, EndDiscovery
<1>19. QED
  BY <1>7, <1>8, <1>9, <1>10, <1>11, <1>12, <1>13, <1>14, <1>15, <1>16, <1>17, <1>18 DEF Work

LEMMA DeliverRecalls ==
  ASSUME WInv, NEW w \in Worker, NEW t \in Turns, Deliver(w, t), NEW v \in Worker
  PROVE  worker'[v] = worker[v] \/ Recalls(v)
<1> USE DEF WInv, CallersOK
<1>1. CASE UNCHANGED worker
  BY <1>1
<1>2. CASE ~UNCHANGED worker
  <2>1. PICK k \in Token : ClaimTask(t, k, Blocked(t)) /\ worker' = Claimed(w, t, k)
    BY <1>2 DEF Deliver
  <2>2. v # w => worker'[v] = worker[v]
    BY <2>1 DEF Claimed, Memory
  <2>3. worker'[w].got = NoRevision /\ worker'[w].turn = t
    BY <2>1 DEF Claimed, Memory, Idle
  <2>4. role[t] # "none"
    <3>1. state[t] \in Active
      BY <2>1 DEF ClaimTask, Claimable
    <3>2. QED
      BY <3>1 DEF IInv, TypeOK, TasksInOrder, Active
  <2>5. QED
    BY <2>2, <2>3, <2>4 DEF Recalls
<1>3. QED
  BY <1>1, <1>2

LEMMA RecallKept ==
  ASSUME WInv, [Next]_vars, \A w \in Worker : worker'[w] = worker[w] \/ Recalls(w)
  PROVE  Recall'
<1> SUFFICES ASSUME NEW w \in Worker, worker'[w].pc # "idle"
             PROVE  /\ role'[worker'[w].turn] # "none"
                    /\ worker'[w].got \in Submission =>
                         worker'[w].got \in Submissions(role'[worker'[w].turn])
  BY DEF Recall
<1> DEFINE t == worker'[w].turn
<1>1. worker[w] \in WorkerState
  BY DEF WInv, CallersOK, Memory
<1>2. t \in Turns /\ role[t] # "none"
  BY <1>1 DEF WInv, Recall, Recalls, WorkerState
<1>3. role'[t] = role[t]
  BY <1>2, RolesKept DEF WInv
<1>4. worker'[w].got \in Submission => worker'[w].got \in Submissions(role[t])
  <2>1. CASE worker[w].pc # "idle" /\ t = worker[w].turn /\ worker'[w].got \in Answers(t)
    BY <2>1, AnswersTyped
  <2>2. ASSUME NEW c \in Calls, worker'[w].got = answer[t][c]
        PROVE  worker'[w].got \in Submission => worker'[w].got \in Submissions(role[t])
    BY <1>2, <2>2 DEF WInv, CallersOK, Ledger
  <2>3. QED
    BY <1>1, <2>1, <2>2, NoRevisionAssumption DEF WInv, Recall, Recalls
<1>5. QED
  BY <1>2, <1>3, <1>4

\* Every step of the callers is a transaction of the store or leaves the store
\* alone, and keeps the invariant.
LEMMA StepKeeps == WInv /\ [WorkersNext]_allVars => [Next]_vars /\ WInv'
<1> SUFFICES ASSUME WInv, [WorkersNext]_allVars PROVE [Next]_vars /\ WInv'
  OBVIOUS
<1>1. CASE UNCHANGED allVars
  <2>1. UNCHANGED <<vars, worker, callVars, envVars>>
    BY <1>1 DEF allVars
  <2>2. Memory' /\ Surroundings'
    BY <2>1, SurroundingsKept DEF WInv, CallersOK, Memory, SoundMemory
  <2>3. [Next]_vars /\ CallersOK'
    BY <2>1, <2>2, UnseenStep
  <2>4. Recall'
    BY <2>1, <2>3, RecallKept
  <2>5. QED
    BY <2>3, <2>4, NextIInv DEF WInv
<1>2. CASE WorkersNext
  <2>1. [Next]_vars /\ CallersOK'
    <3>1. ASSUME NEW w \in Worker, Work(w)
          PROVE  [Next]_vars /\ CallersOK'
      BY <3>1, ReadMailKeeps, SaveFirstContextKeeps, BeginKeeps, ResumeKeeps, CallKeeps,
         PollKeeps, PostKeeps, CompleteKeeps, ToolsKeeps, SubmitTurnKeeps, SaveNextContextKeeps,
         ParkKeeps, RescheduleKeeps, EndDiscoveryKeeps DEF Work
    <3>2. QED
      BY <1>2, <3>1, AroundKeeps, CrashKeeps, DeliverKeeps DEF WorkersNext
  <2>2. \A v \in Worker : worker'[v] = worker[v] \/ Recalls(v)
    <3>1. ASSUME NEW w \in Worker, Work(w)
          PROVE  \A v \in Worker : worker'[v] = worker[v] \/ Recalls(v)
      BY <3>1, WorkRecalls
    <3>2. ASSUME NEW w \in Worker, Crash(w)
          PROVE  \A v \in Worker : worker'[v] = worker[v] \/ Recalls(v)
      BY <3>2 DEF Crash, Quit, Idle, Recalls, WInv, CallersOK, Memory
    <3>3. CASE \/ Begun \/ Cancel \/ TimeIsUp \/ Repair
               \/ \E t \in Turns : Publish(t) \/ Lose(t) \/ Expire(t)
      BY <3>3 DEF Begun, Cancel, TimeIsUp, Repair, Publish, Lose, Expire
    <3>4. QED
      BY <1>2, <3>1, <3>2, <3>3, DeliverRecalls DEF WorkersNext
  <2>3. Recall'
    BY <2>1, <2>2, RecallKept
  <2>4. QED
    BY <2>1, <2>3, NextIInv DEF WInv
<1>3. QED
  BY <1>1, <1>2

\* The invariant behind the theorems below, for any workers, calls and crashes.
THEOREM WorkersInvariance == WorkersSpec => []WInv
<1>1. QED
  BY InitWInv, StepKeeps, PTL DEF WorkersSpec

\* In every state of the composed system every variable has its type, and an
\* answer on record is one the role of its turn may give.
THEOREM WorkersTypeCorrect == WorkersSpec => []WorkersTypeOK
<1>1. WInv => WorkersTypeOK
  BY DEF WInv, CallersOK, Memory, Ledger, Surroundings, WorkersTypeOK
<1>2. QED
  BY <1>1, WorkersInvariance, PTL

\* Workers, beat, clock and human, whatever dies or is redelivered, do nothing
\* to the store but its transactions: the composed system implements the store.
THEOREM WorkersImplementStore == WorkersSpec => ImplementsStore
<1>1. WorkersInit => Init
  BY DEF WorkersInit
<1>2. QED
  BY <1>1, StepKeeps, WorkersInvariance, PTL DEF WorkersSpec, ImplementsStore, Spec

\* Hence the composed system keeps the promise of the store.
THEOREM WorkersKeepPromise == WorkersSpec => KeepsPromise
<1>1. WorkersSpec => Spec
  BY WorkersImplementStore DEF ImplementsStore
<1>2. QED
  BY <1>1, Refinement, PTL

-----------------------------------------------------------------------------
(***************************************************************************)
(* The model calls.  The cursor of a task names its calls and a recorded   *)
(* turn is the answer to its last call whatever leases do (CallsInv).      *)
(* That no call is submitted twice, left behind or answered again needs    *)
(* PromptCalls: then what a worker read of its row without a lock still    *)
(* holds where it acts on it (PromptInv).                                  *)
(***************************************************************************)

Busy(w) == ~At(w, "idle")

\* A worker whose token is still on the task in progress.
Holds(w) ==
  Busy(w) /\ state[worker[w].turn] = "working" /\ token[worker[w].turn] = worker[w].token

\* No two workers hold the same token: a claim writes a fresh one.
TokensDiffer ==
  \A v, w \in Worker : v # w /\ Busy(v) /\ Busy(w) => worker[v].token # worker[w].token

\* Where the worker is in the loop is what the task's cursor says.
AtCursor(w) ==
  LET pc == worker[w].pc
      cursor == context[worker[w].turn]
  IN
  /\ pc \in {"fresh", "briefed"} => cursor = NoContext
  /\ pc = "top" => cursor.call = worker[w].call /\ ~cursor.pending
  /\ pc \in InCall => cursor.call = worker[w].call /\ cursor.pending

\* A call a worker is at was begun; a worker on its task is where the cursor is.
CursorOK(w) ==
  /\ worker[w].pc \in InCall => op[worker[w].turn][worker[w].call] # "none"
  /\ Holds(w) => AtCursor(w)

\* The cursor of a turn that is done is at its last call.
DoneIsPending == \A t \in Turns : state[t] = "done" => context[t].pending

CallsInv ==
  /\ TokensDiffer
  /\ \A w \in Worker : CursorOK(w)
  /\ CursorNamesCalls
  /\ DoneIsPending

\* The places a worker reaches only while the task is its own.
InHandPcs == {"fresh", "briefed", "top", "resume", "calling", "posting", "answered",
              "submitting", "saving", "parking"}
InHand(w) == worker[w].pc \in InHandPcs

\* With prompt calls the task in hand is not taken away, unless all is over.
Undisturbed ==
  /\ \A w \in Worker : InHand(w) => status # "absent" /\ (status \in Ongoing => Owns(w))
  /\ \A v, w \in Worker : v # w /\ InHand(v) /\ InHand(w) => worker[v].turn # worker[w].turn

\* What a worker read of its row still holds where it acts on it.
RowOK(w) ==
  LET row  == op[worker[w].turn][worker[w].call]
      sent == posts[worker[w].turn][worker[w].call]
  IN
  /\ Saw(w, "planned") => row = "planned"
  /\ Saw(w, "pending") => row # "completed"
  /\ Saw(w, "completed") => row = "completed"
  /\ At(w, "posting") => row \in Unresolved /\ sent = 0
  /\ worker[w].pc \in {"tools", "submitting", "saving"} => row = "completed"

PlannedIsUnsent == \A t \in Turns, c \in Calls : op[t][c] \in {"none", "planned"} => posts[t][c] = 0

PromptInv ==
  /\ Undisturbed
  /\ \A w \in Worker : RowOK(w)
  /\ PlannedIsUnsent
  /\ SubmittedOnce
  /\ NothingLeftBehind

-----------------------------------------------------------------------------
(* The cursor                                                              *)

LEMMA InitCallsInv == WorkersInit => CallsInv
<1> SUFFICES ASSUME WorkersInit PROVE CallsInv
  OBVIOUS
<1>1. \A w \in Worker : worker[w].pc = "idle"
  BY DEF WorkersInit, Idle
<1>2. \A t \in Turns, c \in Calls : op[t][c] = "none" /\ c > 0
  BY DEF WorkersInit, Calls
<1>3. \A t \in Turns : context[t] = NoContext /\ state[t] = "absent"
  BY DEF WorkersInit, Init
<1>4. TokensDiffer /\ \A w \in Worker : CursorOK(w)
  BY <1>1 DEF TokensDiffer, Busy, At, CursorOK, Holds, InCall
<1>5. CursorNamesCalls
  BY <1>2, <1>3 DEF CursorNamesCalls, NoContext, Calls
<1>6. DoneIsPending
  BY <1>3 DEF DoneIsPending
<1>7. QED
  BY <1>4, <1>5, <1>6 DEF CallsInv

\* Nobody gets hold of a task.
NobodyClaims ==
  \A t \in Turns : state'[t] = "working" => state[t] = "working" /\ token'[t] = token[t]

\* Nor is a turn recorded.
KeepsTasks ==
  /\ NobodyClaims
  /\ \A t \in Turns : /\ state'[t] = "done" <=> state[t] = "done"
                     /\ revision'[t] = revision[t]

LEMMA EndingKeepsTasks ==
  ASSUME IInv, NEW reason, NEW out, NEW stat, FinishLocked(state, {}, reason, out, stat), UNCHANGED revision
  PROVE  KeepsTasks
<1>1. \A t \in Turns : state'[t] = IF state[t] \notin Active THEN state[t]
                                   ELSE IF stat = "cancelled" THEN "cancelled" ELSE "failed"
  BY DEF FinishLocked, ClosedTasks
<1>2. QED
  BY <1>1 DEF KeepsTasks, NobodyClaims, Active

LEMMA StoreKeepsTasks ==
  ASSUME IInv,
         \/ UNCHANGED vars \/ StartDiscovery \/ Dispatch
         \/ \E r : ReadInbox(r)
         \/ \E reason, stat : FinishDiscovery(reason, stat)
         \/ \E t \in Turns : LeaseExpires(t) \/ \E k : ReleaseTask(t, k) \/ ClaimTask(t, k, TRUE)
  PROVE  KeepsTasks
<1>1. CASE UNCHANGED <<state, token, revision>>
  BY <1>1 DEF KeepsTasks, NobodyClaims
<1>2. CASE StartDiscovery
  <2>1. state' = [state EXCEPT ![1] = "open"] /\ UNCHANGED <<token, revision>>
    BY <1>2 DEF StartDiscovery
  <2>2. state[1] = "absent" /\ state \in [Turns -> Active \cup {"absent", "done", "failed", "cancelled"}]
    BY <1>2, MaxTurnsAssumption DEF StartDiscovery, IInv, TypeOK, TasksInOrder, EndIsExplained,
       OneTaskToDo, TurnsInSequence, TerminalStatuses, Ongoing, Turns
  <2>3. QED
    BY <2>1, <2>2 DEF KeepsTasks, NobodyClaims
<1>3. CASE \E reason, stat : FinishDiscovery(reason, stat)
  BY <1>3, EndingKeepsTasks DEF FinishDiscovery
<1>4. ASSUME NEW t \in Turns, NEW k, ClaimTask(t, k, TRUE) PROVE KeepsTasks
  BY <1>4, EndingKeepsTasks DEF ClaimTask
<1>5. ASSUME NEW t \in Turns, NEW k, ReleaseTask(t, k) PROVE KeepsTasks
  <2>1. /\ state' = [state EXCEPT ![t] = "open"] /\ state[t] = "working"
        /\ token' = [token EXCEPT ![t] = NoToken]
        /\ revision' = revision
    BY <1>5 DEF ReleaseTask, LeaseHeld
  <2>2. QED
    BY <2>1 DEF KeepsTasks, NobodyClaims, IInv, TypeOK
<1>6. QED
  BY <1>1, <1>2, <1>3, <1>4, <1>5
     DEF vars, taskVars, Dispatch, Redispatch, MarkPublished, ReadInbox, LeaseExpires

\* What becomes of a worker that saves no cursor and takes up no task.
Moves(w) ==
  \/ worker'[w] = worker[w]
  \/ worker'[w].pc = "idle"
  \/ /\ Busy(w)
     /\ worker'[w].token = worker[w].token
     /\ worker'[w].pc \in {"stopping", "failing"}
  \/ /\ worker'[w].token = worker[w].token
     /\ worker'[w].turn = worker[w].turn
     /\ worker'[w].call = worker[w].call
     /\ \/ worker[w].pc \in InCall /\ worker'[w].pc \in InCall
        \/ worker[w].pc = "fresh" /\ worker'[w].pc = "briefed"

\* Nothing the cursor or the workers know of changes.
LEMMA CursorKept ==
  ASSUME WInv, WInv', CallsInv, \A w \in Worker : Moves(w), NobodyClaims, UNCHANGED context,
         \A t \in Turns, c \in Calls : op'[t][c] = "none" <=> op[t][c] = "none",
         DoneIsPending'
  PROVE  CallsInv'
<1> USE DEF CallsInv
<1>1. TokensDiffer'
  <2>1. ASSUME NEW w \in Worker, Busy(w)' PROVE Busy(w) /\ worker'[w].token = worker[w].token
    BY <2>1 DEF Moves, Busy, At, InCall
  <2>2. QED
    BY <2>1 DEF TokensDiffer
<1>2. ASSUME NEW w \in Worker PROVE CursorOK(w)'
  <2>1. /\ worker[w].turn \in Turns /\ worker'[w].turn \in Turns
        /\ worker[w].pc \in InCall => worker[w].call \in Calls
    BY DEF WInv, CallersOK, Memory, WorkerState, SoundMemory
  <2>2. CASE worker'[w].pc \notin {"fresh", "briefed", "top"} \cup InCall
    BY <2>2 DEF CursorOK, AtCursor
  <2>3. CASE worker'[w].pc \in {"fresh", "briefed", "top"} \cup InCall
    <3>1. /\ worker'[w].token = worker[w].token
          /\ worker'[w].turn = worker[w].turn
          /\ worker'[w].call = worker[w].call
          /\ Busy(w)
          /\ \/ worker'[w].pc = worker[w].pc
             \/ worker[w].pc \in InCall /\ worker'[w].pc \in InCall
             \/ worker[w].pc = "fresh" /\ worker'[w].pc = "briefed"
      BY <2>3 DEF Moves, Busy, At, InCall
    <3>2. Holds(w)' => Holds(w)
      BY <2>1, <3>1 DEF Holds, NobodyClaims
    <3>3. CursorOK(w)
      OBVIOUS
    <3>4. AtCursor(w) => AtCursor(w)'
      BY <3>1 DEF AtCursor, InCall
    <3>5. worker'[w].pc \in InCall => op'[worker'[w].turn][worker'[w].call] # "none"
      BY <2>1, <3>1, <3>3 DEF CursorOK, InCall
    <3>6. QED
      BY <3>2, <3>3, <3>4, <3>5 DEF CursorOK
  <2>4. QED
    BY <2>2, <2>3
<1>3. CursorNamesCalls'
  BY DEF CursorNamesCalls
<1>4. QED
  BY <1>1, <1>2, <1>3

\* The owner moves the cursor, from before a call to it or past it.
LEMMA CursorMoves ==
  ASSUME WInv, WInv', CallsInv, NEW w \in Worker, Owns(w), Busy(w),
         \A v \in Worker : v # w => worker'[v] = worker[v],
         worker'[w].token = worker[w].token, worker'[w].turn = worker[w].turn,
         NEW call, NEW pending \in BOOLEAN, SaveContext(w, call, pending),
         worker'[w].call = call,
         worker'[w].pc = IF pending THEN "calling" ELSE "top",
         UNCHANGED vars,
         CursorNamesCalls',
         \A t \in Turns, c \in Calls : op[t][c] # "none" => op'[t][c] # "none"
  PROVE  CallsInv'
<1> USE DEF CallsInv
<1> DEFINE t == worker[w].turn
<1>1. /\ \A v \in Worker : /\ worker[v].turn \in Turns
                           /\ worker[v].pc \in InCall => worker[v].call \in Calls
      /\ worker'[w].pc \in InCall => worker'[w].call \in Calls
  BY DEF WInv, CallersOK, Memory, WorkerState, SoundMemory
<1>2. context' = [context EXCEPT ![t] = [call |-> call, pending |-> pending]]
  BY DEF SaveContext
<1>3. context \in [Turns -> [call: 0..(MaxCalls + 1), pending: BOOLEAN]]
  BY DEF WInv, CallersOK, Ledger
<1>4. /\ \A u \in Turns : u # t => context'[u] = context[u]
      /\ context'[t].call = call /\ context'[t].pending = pending
  BY <1>1, <1>2, <1>3
<1>5. /\ state' = state /\ token' = token /\ revision' = revision
      /\ state[t] = "working" /\ token[t] = worker[w].token
  BY DEF vars, taskVars, Owns, LeaseHeld
<1>6. ASSUME NEW v \in Worker, Busy(v)' PROVE Busy(v) /\ worker'[v].token = worker[v].token
  BY <1>6 DEF Busy, At
<1>7. TokensDiffer'
  BY <1>6 DEF TokensDiffer
<1>8. CursorOK(w)'
  <2>1. worker'[w].pc \in InCall => pending
    BY DEF InCall
  <2>2. op'[t][call] # "none" \/ ~pending
    BY <1>1, <1>4 DEF CursorNamesCalls, InCall
  <2>3. AtCursor(w)'
    BY <1>4, <2>1 DEF AtCursor, InCall
  <2>4. QED
    BY <2>1, <2>2, <2>3 DEF CursorOK
<1>9. ASSUME NEW v \in Worker, v # w PROVE CursorOK(v)'
  <2>1. worker'[v] = worker[v] /\ CursorOK(v)
    BY <1>9
  <2>2. Holds(v)' => Holds(v) /\ worker[v].turn # t
    BY <1>5, <1>9, <2>1 DEF Holds, Busy, At, TokensDiffer
  <2>3. Holds(v)' => AtCursor(v)'
    BY <1>1, <1>4, <2>1, <2>2 DEF CursorOK, AtCursor
  <2>4. QED
    BY <1>1, <2>1, <2>3 DEF CursorOK
<1>10. DoneIsPending'
  <2>1. \A u \in Turns : state'[u] = "done" => u # t
    BY <1>5
  <2>2. QED
    BY <1>4, <1>5, <2>1 DEF DoneIsPending
<1>11. QED
  BY <1>7, <1>8, <1>9, <1>10

LEMMA FirstCursor ==
  ASSUME WInv, WInv', CallsInv, NEW w \in Worker, SaveFirstContext(w), ~LosesLease(w)
  PROVE  CallsInv'
<1> DEFINE t == worker[w].turn
<1>1. /\ worker[w].pc = "briefed" /\ worker[w] \in WorkerState /\ t \in Turns
      /\ worker \in [Worker -> WorkerState]
      /\ context \in [Turns -> [call: 0..(MaxCalls + 1), pending: BOOLEAN]]
  BY DEF SaveFirstContext, At, WInv, CallersOK, Memory, WorkerState, Ledger
<1>2. /\ Owns(w) /\ Busy(w) /\ SaveContext(w, 1, FALSE)
      /\ UNCHANGED <<vars, op>>
      /\ worker' = [worker EXCEPT ![w].pc = "top", ![w].call = 1]
  BY <1>1 DEF SaveFirstContext, Busy, At
<1>3. /\ \A v \in Worker : v # w => worker'[v] = worker[v]
      /\ worker'[w].token = worker[w].token /\ worker'[w].turn = t
      /\ worker'[w].call = 1 /\ worker'[w].pc = "top"
  BY <1>1, <1>2 DEF WorkerState
<1>4. context[t] = NoContext
  BY <1>1, <1>2 DEF CallsInv, CursorOK, Holds, AtCursor, Owns, LeaseHeld
<1>5. CursorNamesCalls'
  <2>1. \A u \in Turns : context'[u] = IF u = t THEN [call |-> 1, pending |-> FALSE] ELSE context[u]
    BY <1>1, <1>2 DEF SaveContext
  <2>2. \A c \in Calls : ~(c < 1) /\ ~(c < 0)
    BY DEF Calls
  <2>3. \A c \in Calls : op[t][c] = "none"
    BY <1>1, <1>4, <2>2 DEF CallsInv, CursorNamesCalls, NoContext
  <2>4. QED
    BY <1>2, <2>1, <2>2, <2>3 DEF CallsInv, CursorNamesCalls
<1>6. QED
  BY <1>2, <1>3, <1>5, CursorMoves

LEMMA CursorAtCall ==
  ASSUME WInv, WInv', CallsInv, NEW w \in Worker, worker[w].pc = "top", Owns(w),
         worker[w].call <= MaxCalls, SaveContext(w, worker[w].call, TRUE),
         op' = [op EXCEPT ![worker[w].turn][worker[w].call] = "planned"],
         worker' = [worker EXCEPT ![w].pc = "calling", ![w].saw = "planned"],
         UNCHANGED vars
  PROVE  CallsInv'
<1> DEFINE t == worker[w].turn
           c == worker[w].call
<1>1. /\ worker[w] \in WorkerState /\ t \in Turns /\ c \in Calls /\ Busy(w)
      /\ worker \in [Worker -> WorkerState]
      /\ context \in [Turns -> [call: 0..(MaxCalls + 1), pending: BOOLEAN]]
      /\ op \in [Turns -> [Calls -> OpStates]]
  BY MaxCallsAssumption
     DEF At, Busy, WInv, CallersOK, Memory, WorkerState, Ledger, SoundMemory, Calls
<1>2. /\ \A v \in Worker : v # w => worker'[v] = worker[v]
      /\ worker'[w].token = worker[w].token /\ worker'[w].turn = t
      /\ worker'[w].call = c /\ worker'[w].pc = "calling"
  BY <1>1 DEF WorkerState
<1>3. context[t].call = c /\ ~context[t].pending
  BY <1>1 DEF CallsInv, CursorOK, Holds, AtCursor, Owns, LeaseHeld
<1>4. \A u \in Turns, d \in Calls : op'[u][d] = IF u = t /\ d = c THEN "planned" ELSE op[u][d]
  BY <1>1
<1>5. CursorNamesCalls'
  <2>1. \A u \in Turns : context'[u] = IF u = t THEN [call |-> c, pending |-> TRUE] ELSE context[u]
    BY <1>1 DEF SaveContext
  <2>2. QED
    BY <1>3, <1>4, <2>1 DEF CallsInv, CursorNamesCalls
<1>6. \A u \in Turns, d \in Calls : op[u][d] # "none" => op'[u][d] # "none"
  BY <1>4
<1>7. worker'[w].pc = IF TRUE THEN "calling" ELSE "top"
  BY <1>2
<1>8. QED
  BY <1>1, <1>2, <1>5, <1>6, <1>7, CursorMoves

LEMMA CursorPastCall ==
  ASSUME WInv, WInv', CallsInv, NEW w \in Worker, SaveNextContext(w), ~LosesLease(w)
  PROVE  CallsInv'
<1> DEFINE t == worker[w].turn
           c == worker[w].call
<1>1. /\ worker[w].pc = "saving" /\ worker[w] \in WorkerState /\ t \in Turns
      /\ worker \in [Worker -> WorkerState] /\ c \in Calls
      /\ context \in [Turns -> [call: 0..(MaxCalls + 1), pending: BOOLEAN]]
  BY DEF SaveNextContext, At, WInv, CallersOK, Memory, WorkerState, Ledger, SoundMemory, InCall
<1>2. /\ Owns(w) /\ Busy(w) /\ SaveContext(w, c + 1, FALSE)
      /\ UNCHANGED <<vars, op>>
      /\ worker' = [worker EXCEPT ![w].pc = "top", ![w].call = c + 1, ![w].got = NoRevision]
  BY <1>1 DEF SaveNextContext, Busy, At
<1>3. /\ \A v \in Worker : v # w => worker'[v] = worker[v]
      /\ worker'[w].token = worker[w].token /\ worker'[w].turn = t
      /\ worker'[w].call = c + 1 /\ worker'[w].pc = "top"
  BY <1>1, <1>2 DEF WorkerState
<1>4. context[t].call = c /\ context[t].pending
  BY <1>1, <1>2 DEF CallsInv, CursorOK, Holds, AtCursor, Owns, LeaseHeld, InCall
<1>5. CursorNamesCalls'
  <2>1. \A u \in Turns : context'[u] = IF u = t THEN [call |-> c + 1, pending |-> FALSE] ELSE context[u]
    BY <1>1, <1>2 DEF SaveContext
  <2>2. \A d \in Calls : d < c + 1 <=> d < c \/ d = c
    BY <1>1 DEF Calls
  <2>3. QED
    BY <1>2, <1>4, <2>1, <2>2 DEF CallsInv, CursorNamesCalls
<1>6. QED
  BY <1>2, <1>3, <1>5, CursorMoves

LEMMA ClaimAtCursor ==
  ASSUME WInv, WInv', CallsInv, NEW w \in Worker, NEW t \in Turns, NEW k \in Token,
         At(w, "idle"), Fresh(k), ClaimTask(t, k, FALSE), worker' = Claimed(w, t, k),
         UNCHANGED callVars
  PROVE  CallsInv'
<1> USE DEF CallsInv
<1> DEFINE pc == IF context[t] = NoContext THEN "fresh"
                 ELSE IF context[t].pending THEN "resume" ELSE "top"
           m == [Idle EXCEPT !.pc = pc, !.turn = t, !.token = k, !.call = context[t].call]
<1>1. UNCHANGED <<op, context, answer, posts, revision>>
  BY DEF callVars, ClaimTask
<1>2. /\ worker \in [Worker -> WorkerState]
      /\ \A v \in Worker : /\ worker[v].turn \in Turns
                           /\ worker[v].pc \in InCall => worker[v].call \in Calls
      /\ state' = [state EXCEPT ![t] = "working"] /\ state \in [Turns -> Active \cup {"absent", "done", "failed", "cancelled"}]
      /\ token' = [token EXCEPT ![t] = k] /\ token \in [Turns -> Token \cup {NoToken}]
      /\ context[t].pending => context[t].call \in Calls
  BY DEF ClaimTask, WInv, IInv, TypeOK, CallersOK, Memory, Ledger, WorkerState, SoundMemory
<1>3. /\ m.pc = pc /\ m.turn = t /\ m.token = k /\ m.call = context[t].call
      /\ worker'[w] = m
      /\ \A v \in Worker : v # w => worker'[v] = worker[v]
  BY <1>2 DEF Claimed, Idle
<1>4. TokensDiffer'
  <2>1. worker'[w].token = k /\ \A v \in Worker : worker[v].token # k
    BY <1>3 DEF Fresh
  <2>2. ASSUME NEW u \in Worker, NEW v \in Worker, u # v, Busy(u)', Busy(v)'
        PROVE  worker'[u].token # worker'[v].token
    <3>1. CASE u # w /\ v # w
      BY <1>3, <2>2, <3>1 DEF TokensDiffer, Busy, At
    <3>2. CASE u = w
      <4>1. worker'[v] = worker[v]
        BY <1>3, <2>2, <3>2
      <4>2. QED
        BY <2>1, <3>2, <4>1
    <3>3. CASE v = w
      <4>1. worker'[u] = worker[u]
        BY <1>3, <2>2, <3>3
      <4>2. QED
        BY <2>1, <3>3, <4>1
    <3>4. QED
      BY <3>1, <3>2, <3>3
  <2>3. QED
    BY <2>2 DEF TokensDiffer
<1>5. CursorOK(w)'
  <2>1. worker'[w].turn = t /\ worker'[w].call = context'[t].call /\ worker'[w].pc = pc
    BY <1>1, <1>3
  <2>2. pc \in InCall => context[t].pending /\ op[t][context[t].call] # "none"
    BY <1>2 DEF CursorNamesCalls, InCall
  <2>3. AtCursor(w)'
    BY <1>1, <2>1, <2>2 DEF AtCursor, InCall
  <2>4. QED
    BY <1>1, <2>1, <2>2, <2>3 DEF CursorOK
<1>6. ASSUME NEW v \in Worker, v # w PROVE CursorOK(v)'
  <2>1. worker'[v] = worker[v] /\ CursorOK(v) /\ worker[v].token # k
    BY <1>3, <1>6 DEF Fresh
  <2>2. Holds(v)' => Holds(v)
    BY <1>2, <2>1 DEF Holds, Busy, At
  <2>3. QED
    BY <1>1, <2>1, <2>2 DEF CursorOK, AtCursor
<1>7. CursorNamesCalls' /\ DoneIsPending'
  BY <1>1, <1>2 DEF CursorNamesCalls, DoneIsPending
<1>8. QED
  BY <1>4, <1>5, <1>6, <1>7

\* Recording a turn takes no task and completes the one it is for.
LEMMA RecordedTasks ==
  ASSUME IInv, NEW t \in Turns, NEW s, RecordTurn(t, s)
  PROVE  /\ NobodyClaims
         /\ \A u \in Turns : /\ state'[u] = "done" => state[u] = "done" \/ u = t
                             /\ revision'[u] = IF u = t THEN s ELSE revision[u]
<1>1. /\ state \in [Turns -> Active \cup {"absent", "done", "failed", "cancelled"}]
      /\ revision \in [Turns -> Submission \cup {NoRevision}]
  BY DEF IInv, TypeOK
<1>2. CASE HandOver(t, s)
  BY <1>1, <1>2 DEF HandOver, RecordTurn, NobodyClaims
<1>3. CASE \E sent, reason, out, stat : FinishLocked([state EXCEPT ![t] = "done"], sent, reason, out, stat)
  <2> DEFINE done == [state EXCEPT ![t] = "done"]
  <2>1. \A u \in Turns : done[u] = IF u = t THEN "done" ELSE state[u]
    BY <1>1
  <2>2. PICK stat : \A u \in Turns :
          state'[u] = IF done[u] \notin Active THEN done[u]
                      ELSE IF stat = "cancelled" THEN "cancelled" ELSE "failed"
    BY <1>3 DEF FinishLocked, ClosedTasks
  <2>3. QED
    BY <1>1, <2>1, <2>2 DEF RecordTurn, NobodyClaims, Active
<1>4. QED
  BY <1>2, <1>3 DEF RecordTurn

LEMMA CommitAtCursor ==
  ASSUME WInv, WInv', CallsInv, NEW w \in Worker, At(w, "submitting"),
         CommitTurn(worker[w].turn, worker[w].token, worker[w].got, Exhausted),
         Quit(w), UNCHANGED callVars
  PROVE  CallsInv'
<1> USE DEF CallsInv
<1> DEFINE t == worker[w].turn
           a == worker[w].got
<1>1. /\ UNCHANGED <<op, context>> /\ t \in Turns
      /\ worker \in [Worker -> WorkerState]
  BY DEF callVars, WInv, CallersOK, Memory, WorkerState
<1>2. \A v \in Worker : Moves(v)
  BY <1>1 DEF Moves, Quit, Idle
<1>3. context[t].pending /\ context[t].call = worker[w].call
  BY DEF CursorOK, AtCursor, Holds, Busy, At, CommitTurn, LeaseHeld, InCall
<1>4. NobodyClaims /\ DoneIsPending'
  <2>1. CASE Exhausted \in LimitReasons
    <3>1. KeepsTasks
      BY <2>1, EndingKeepsTasks DEF CommitTurn, WInv, LimitReasons
    <3>2. QED
      BY <1>1, <3>1 DEF KeepsTasks, DoneIsPending
  <2>2. CASE Exhausted = "none"
    <3>1. RecordTurn(t, a)
      BY <2>2 DEF CommitTurn, LimitReasons
    <3>2. QED
      BY <1>1, <1>3, <3>1, RecordedTasks DEF DoneIsPending, WInv
  <2>3. QED
    BY <2>1, <2>2 DEF Exhausted, LimitReasons
<1>5. QED
  BY <1>1, <1>2, <1>4, CursorKept

LEMMA GotoMoves ==
  ASSUME WInv, NEW w \in Worker, NEW pc \in InCall, worker[w].pc \in InCall, Goto(w, pc)
  PROVE  \A v \in Worker : Moves(v)
<1>1. worker \in [Worker -> WorkerState] /\ worker[w] \in WorkerState
  BY DEF WInv, CallersOK, Memory
<1>2. \A v \in Worker : v # w => worker'[v] = worker[v]
  BY <1>1 DEF Goto
<1>3. /\ worker'[w].pc = pc /\ worker'[w].token = worker[w].token
      /\ worker'[w].turn = worker[w].turn /\ worker'[w].call = worker[w].call
  BY <1>1 DEF Goto, WorkerState
<1>4. QED
  BY <1>2, <1>3 DEF Moves

LEMMA RaiseMoves ==
  ASSUME WInv, NEW w \in Worker, worker[w].pc # "idle", NEW pc \in {"stopping", "failing"}, NEW why,
         Raise(w, pc, why)
  PROVE  \A v \in Worker : Moves(v)
<1>1. worker \in [Worker -> WorkerState] /\ worker[w] \in WorkerState
  BY DEF WInv, CallersOK, Memory
<1>2. \A v \in Worker : v # w => worker'[v] = worker[v]
  BY <1>1 DEF Raise
<1>3. worker'[w].pc = pc /\ worker'[w].token = worker[w].token
  BY <1>1 DEF Raise, WorkerState
<1>4. QED
  BY <1>2, <1>3 DEF Moves, Busy, At

LEMMA QuitMoves == ASSUME WInv, NEW w \in Worker, Quit(w) PROVE \A v \in Worker : Moves(v)
BY DEF Quit, Idle, Moves, WInv, CallersOK, Memory

\* A step that records no turn and moves no cursor.
LEMMA StaysPending ==
  ASSUME DoneIsPending, KeepsTasks, UNCHANGED context
  PROVE  DoneIsPending' /\ NobodyClaims
BY DEF DoneIsPending, KeepsTasks

\* Rows are marked, workers move, the store takes no task and records no turn.
LEMMA CursorUnmoved ==
  ASSUME WInv, WInv', CallsInv, \A w \in Worker : Moves(w), UNCHANGED context, KeepsTasks,
         \A t \in Turns, c \in Calls : op'[t][c] = "none" <=> op[t][c] = "none"
  PROVE  CallsInv'
BY StaysPending, CursorKept DEF CallsInv

\* The handlers mark rows that exist.
LEMMA MarkedRows ==
  ASSUME WInv, NEW w \in Worker, FailsUnknown(w) \/ \E r : Fails(w, r)
  PROVE  \A t \in Turns, c \in Calls :
           \/ op'[t][c] = op[t][c]
           \/ op[t][c] \in {"started", "pending"} /\ op'[t][c] = "unknown"
<1>1. op \in [Turns -> [Calls -> OpStates]] /\ worker[w].turn \in Turns
  BY DEF WInv, CallersOK, Ledger, Memory, WorkerState
<1>2. PICK S \in {{"started"}, {"started", "pending"}} :
        op' = [op EXCEPT ![worker[w].turn] = Unresolve(worker[w].turn, S)]
  BY DEF Fails, FailsUnknown
<1>3. QED
  BY <1>1, <1>2 DEF Unresolve

LEMMA FailAtCursor ==
  ASSUME WInv, WInv', CallsInv, NEW w \in Worker, worker[w].pc # "idle",
         FailsUnknown(w) \/ (\E r : Fails(w, r)), UNCHANGED <<vars, context>>
  PROVE  CallsInv'
<1>1. \A v \in Worker : Moves(v)
  BY RaiseMoves DEF FailsUnknown, Fails
<1>2. KeepsTasks
  BY StoreKeepsTasks DEF WInv
<1>3. QED
  BY <1>1, <1>2, MarkedRows, CursorUnmoved

LEMMA GiveWayAtCursor ==
  ASSUME WInv, WInv', CallsInv, NEW w \in Worker, worker[w].pc # "idle", LosesLease(w) \/ HitsLimit(w)
  PROVE  CallsInv'
<1>1. UNCHANGED vars /\ UNCHANGED <<op, context>>
  BY DEF LosesLease, HitsLimit, callVars
<1>2. \A v \in Worker : Moves(v)
  BY QuitMoves, RaiseMoves DEF LosesLease, HitsLimit
<1>3. KeepsTasks
  BY <1>1, StoreKeepsTasks DEF WInv
<1>4. QED
  BY <1>1, <1>2, <1>3, CursorUnmoved

LEMMA WorkAtCursor ==
  ASSUME WInv, WInv', CallsInv, NEW w \in Worker, Work(w)
  PROVE  CallsInv'
<1> DEFINE t == worker[w].turn
           c == worker[w].call
<1>1. /\ worker \in [Worker -> WorkerState] /\ worker[w] \in WorkerState /\ t \in Turns
      /\ worker[w].pc \in InCall => c \in Calls
      /\ op \in [Turns -> [Calls -> OpStates]]
  BY DEF WInv, CallersOK, Memory, WorkerState, SoundMemory, Ledger
<1>2. UNCHANGED vars => KeepsTasks
  BY StoreKeepsTasks DEF WInv
<1>3. CASE ReadMail(w)
  <2>1. \A v \in Worker : Moves(v)
    BY <1>1, <1>3 DEF ReadMail, At, Goto, Moves, WorkerState
  <2>2. KeepsTasks
    BY <1>2, <1>3, StoreKeepsTasks DEF ReadMail, WInv
  <2>3. QED
    BY <1>3, <2>1, <2>2, CursorUnmoved DEF ReadMail, callVars
<1>4. CASE SaveFirstContext(w)
  BY <1>4, FirstCursor, GiveWayAtCursor DEF SaveFirstContext, At
<1>5. CASE Begin(w)
  <2>1. CASE \/ LosesLease(w) \/ HitsLimit(w)
             \/ Fails(w, "provider_error") /\ UNCHANGED <<vars, context>>
    BY <1>5, <2>1, GiveWayAtCursor, FailAtCursor DEF Begin, At
  <2>2. CASE (\E why : Raise(w, "stopping", why)) /\ UNCHANGED <<vars, op, context>>
    <3>1. \A v \in Worker : Moves(v)
      BY <1>5, <2>2, RaiseMoves DEF Begin, At
    <3>2. QED
      BY <1>2, <2>2, <3>1, CursorUnmoved
  <2>3. CASE /\ Owns(w) /\ c <= MaxCalls /\ SaveContext(w, c, TRUE)
             /\ op' = [op EXCEPT ![t][c] = "planned"]
             /\ worker' = [worker EXCEPT ![w].pc = "calling", ![w].saw = "planned"]
             /\ UNCHANGED vars
    BY <1>5, <2>3, CursorAtCall DEF Begin, At
  <2>4. QED
    BY <1>5, <2>1, <2>2, <2>3 DEF Begin, MayGoOn
<1>6. CASE Resume(w)
  <2>1. CASE LosesLease(w) \/ HitsLimit(w)
    BY <1>6, <2>1, GiveWayAtCursor DEF Resume, At
  <2>2. CASE /\ worker' = [worker EXCEPT ![w].pc = "calling", ![w].saw = op[t][c],
                                         ![w].got = answer[t][c]]
             /\ UNCHANGED <<vars, callVars>>
    <3>1. \A v \in Worker : Moves(v)
      BY <1>1, <1>6, <2>2 DEF Moves, Resume, At, InCall, WorkerState
    <3>2. QED
      BY <1>2, <2>2, <3>1, CursorUnmoved DEF callVars
  <2>3. QED
    BY <1>6, <2>1, <2>2 DEF Resume
<1>7. CASE MarkStarted(w) \/ Poll(w) \/ Reuse(w) \/ GiveUp(w)
  <2>1. worker[w].pc = "calling" /\ c \in Calls /\ UNCHANGED <<vars, context>>
    BY <1>1, <1>7 DEF MarkStarted, Poll, Reuse, GiveUp, Saw, At, InCall, callVars
  <2>2. CASE FailsUnknown(w) \/ Fails(w, "provider_error")
    BY <2>1, <2>2, FailAtCursor
  <2>3. CASE /\ \E pc \in {"posting", "parking", "answered"} : Goto(w, pc)
             /\ UNCHANGED op \/ op' = [op EXCEPT ![t][c] = "started"]
    <3>1. \A v \in Worker : Moves(v)
      BY <2>1, <2>3, GotoMoves DEF InCall
    <3>2. op[t][c] # "none"
      BY <2>1 DEF CallsInv, CursorOK, InCall
    <3>3. \A u \in Turns, d \in Calls : op'[u][d] = "none" <=> op[u][d] = "none"
      BY <1>1, <2>1, <2>3, <3>2
    <3>4. QED
      BY <1>2, <2>1, <3>1, <3>3, CursorUnmoved
  <2>4. ASSUME NEW a, UNCHANGED op,
               worker' = [worker EXCEPT ![w].pc = "answered", ![w].saw = "none", ![w].got = a]
        PROVE  CallsInv'
    <3>1. \A v \in Worker : Moves(v)
      BY <1>1, <2>1, <2>4 DEF Moves, InCall, WorkerState
    <3>2. QED
      BY <1>2, <2>1, <2>4, <3>1, CursorUnmoved
  <2>5. QED
    BY <1>7, <2>2, <2>3, <2>4 DEF MarkStarted, Poll, Reuse, GiveUp, callVars
<1>8. CASE Post(w)
  <2>1. worker[w].pc = "posting" /\ c \in Calls /\ UNCHANGED <<vars, context>>
    BY <1>1, <1>8 DEF Post, At, InCall
  <2>2. \A v \in Worker : Moves(v)
    <3>1. Goto(w, "parking") \/ Raise(w, "failing", "provider_error")
      BY <1>8 DEF Post
    <3>2. QED
      BY <2>1, <3>1, GotoMoves, RaiseMoves DEF InCall
  <2>3. op[t][c] # "none"
    BY <2>1 DEF CallsInv, CursorOK, InCall
  <2>4. \A u \in Turns, d \in Calls : op'[u][d] = "none" <=> op[u][d] = "none"
    <3>1. CASE op' = [op EXCEPT ![t][c] = "pending"]
      BY <1>1, <2>1, <2>3, <3>1
    <3>2. ASSUME NEW S \in {{"started"}, {"started", "pending"}}, NEW s \in {"failed", "unknown"},
                 op' = [op EXCEPT ![t] = [Unresolve(t, S) EXCEPT ![c] = s]]
          PROVE  \A u \in Turns, d \in Calls : op'[u][d] = "none" <=> op[u][d] = "none"
      BY <1>1, <2>1, <2>3, <3>2 DEF Unresolve
    <3>3. QED
      BY <1>8, <3>1, <3>2 DEF Post
  <2>5. QED
    BY <1>2, <2>1, <2>2, <2>4, CursorUnmoved
<1>9. CASE Complete(w)
  <2>1. worker[w].pc = "answered" /\ c \in Calls
    BY <1>1, <1>9 DEF Complete, At, InCall
  <2>2. CASE \/ LosesLease(w)
             \/ Fails(w, "provider_error") /\ UNCHANGED <<vars, context>>
    BY <2>1, <2>2, GiveWayAtCursor, FailAtCursor
  <2>3. CASE /\ Owns(w)
             /\ Goto(w, "tools") \/ Raise(w, "stopping", "cost_limit")
             /\ UNCHANGED op \/ StoreAnswer(w, t, c)
             /\ UNCHANGED <<vars, context>>
    <3>1. UNCHANGED <<vars, context>>
      BY <2>3
    <3>2. \A v \in Worker : Moves(v)
      BY <2>1, <2>3, GotoMoves, RaiseMoves DEF InCall
    <3>3. op[t][c] # "none"
      BY <2>1, <2>3 DEF CallsInv, CursorOK, InCall
    <3>4. \A u \in Turns, d \in Calls : op'[u][d] = "none" <=> op[u][d] = "none"
      BY <1>1, <2>1, <2>3, <3>3 DEF StoreAnswer
    <3>5. QED
      BY <1>2, <3>1, <3>2, <3>4, CursorUnmoved
  <2>4. QED
    BY <1>9, <2>2, <2>3 DEF Complete
<1>10. CASE Tools(w)
  <2>1. worker[w].pc = "tools"
    BY <1>10 DEF Tools, At
  <2>2. CASE LosesLease(w) \/ HitsLimit(w) \/ \E r : Fails(w, r) /\ UNCHANGED <<vars, context>>
    BY <2>1, <2>2, GiveWayAtCursor, FailAtCursor
  <2>3. CASE /\ \/ \E limit \in {"turn_call_limit", "cost_limit"} : Raise(w, "stopping", limit)
                \/ \E pc \in {"saving", "submitting"} : Goto(w, pc)
             /\ UNCHANGED <<vars, callVars>>
    <3>1. \A v \in Worker : Moves(v)
      BY <2>1, <2>3, GotoMoves, RaiseMoves DEF InCall
    <3>2. QED
      BY <1>2, <2>3, <3>1, CursorUnmoved DEF callVars
  <2>4. QED
    BY <1>10, <2>2, <2>3 DEF Tools
<1>11. CASE SubmitTurn(w)
  <2>1. worker[w].pc = "submitting" /\ UNCHANGED <<context, answer, posts>>
    BY <1>11 DEF SubmitTurn, At
  <2>2. CASE Fails(w, "provider_error") /\ UNCHANGED vars
    BY <2>1, <2>2, FailAtCursor
  <2>3. CASE (Quit(w) \/ Goto(w, "saving")) /\ UNCHANGED <<vars, op>>
    <3>1. \A v \in Worker : Moves(v)
      BY <2>1, <2>3, GotoMoves, QuitMoves DEF InCall
    <3>2. QED
      BY <1>2, <2>1, <2>3, <3>1, CursorUnmoved
  <2>4. CASE CommitTurn(t, worker[w].token, worker[w].got, Exhausted) /\ Quit(w) /\ UNCHANGED op
    BY <2>1, <2>4, CommitAtCursor DEF At, callVars
  <2>5. QED
    BY <1>11, <2>2, <2>3, <2>4 DEF SubmitTurn
<1>12. CASE SaveNextContext(w)
  BY <1>12, CursorPastCall, GiveWayAtCursor DEF SaveNextContext, At
<1>13. CASE Park(w)
  <2>1. CASE LosesLease(w)
    BY <1>13, <2>1, GiveWayAtCursor DEF Park, At
  <2>2. CASE ReleaseTask(t, worker[w].token) /\ Goto(w, "parked") /\ UNCHANGED callVars
    <3>1. \A v \in Worker : Moves(v)
      BY <1>13, <2>2, GotoMoves DEF Park, At, InCall
    <3>2. KeepsTasks
      BY <1>1, <2>2, StoreKeepsTasks DEF WInv
    <3>3. QED
      BY <2>2, <3>1, <3>2, CursorUnmoved DEF callVars
  <2>3. QED
    BY <1>13, <2>1, <2>2 DEF Park
<1>14. CASE Reschedule(w) \/ EndDiscovery(w)
  <2>1. \A v \in Worker : Moves(v)
    BY <1>14, QuitMoves DEF Reschedule, EndDiscovery
  <2>2. KeepsTasks
    BY <1>2, <1>14, StoreKeepsTasks DEF Reschedule, EndDiscovery, WInv
  <2>3. QED
    BY <1>14, <2>1, <2>2, CursorUnmoved DEF Reschedule, EndDiscovery, callVars
<1>15. QED
  BY <1>3, <1>4, <1>5, <1>6, <1>7, <1>8, <1>9, <1>10, <1>11, <1>12, <1>13, <1>14 DEF Work

\* No step of the composed system moves a cursor off its calls.
LEMMA StepKeepsCalls == WInv /\ WInv' /\ CallsInv /\ [WorkersNext]_allVars => CallsInv'
<1> SUFFICES ASSUME WInv, WInv', CallsInv, [WorkersNext]_allVars PROVE CallsInv'
  OBVIOUS
<1>1. ASSUME UNCHANGED worker, UNCHANGED <<op, context>>, KeepsTasks
      PROVE  CallsInv'
  BY <1>1, CursorUnmoved DEF Moves
<1>2. CASE UNCHANGED allVars
  BY <1>1, <1>2, StoreKeepsTasks DEF allVars, callVars, WInv
<1>3. CASE Begun \/ Cancel \/ TimeIsUp \/ Repair
  <2>1. KeepsTasks
    BY <1>3, StoreKeepsTasks DEF Begun, Cancel, TimeIsUp, Repair, Dispatch, WInv
  <2>2. QED
    BY <1>1, <1>3, <2>1 DEF Begun, Cancel, TimeIsUp, Repair, callVars
<1>4. ASSUME NEW t \in Turns, Publish(t) \/ Lose(t) \/ Expire(t) PROVE CallsInv'
  <2>1. KeepsTasks
    BY <1>4, StoreKeepsTasks DEF Publish, Lose, Expire, Dispatch, WInv
  <2>2. QED
    BY <1>1, <1>4, <2>1 DEF Publish, Lose, Expire, callVars
<1>5. ASSUME NEW w \in Worker, Crash(w) PROVE CallsInv'
  BY <1>5, QuitMoves, StoreKeepsTasks, CursorUnmoved DEF Crash, WInv
<1>6. ASSUME NEW w \in Worker, NEW t \in Turns, Deliver(w, t) PROVE CallsInv'
  <2>1. UNCHANGED <<op, context>>
    BY <1>6 DEF Deliver, callVars
  <2>2. CASE UNCHANGED <<vars, worker>>
    BY <1>1, <2>1, <2>2, StoreKeepsTasks DEF WInv
  <2>3. ASSUME NEW k \in Token, Fresh(k), ClaimTask(t, k, TRUE), UNCHANGED worker PROVE CallsInv'
    BY <1>1, <2>1, <2>3, StoreKeepsTasks DEF WInv
  <2>4. ASSUME NEW k \in Token, Fresh(k), ClaimTask(t, k, FALSE), worker' = Claimed(w, t, k) PROVE CallsInv'
    BY <1>6, <2>4, ClaimAtCursor DEF Deliver
  <2>5. QED
    <3>1. ASSUME NEW k \in Token, ClaimTask(t, k, Blocked(t))
          PROVE  IF Blocked(t) THEN ClaimTask(t, k, TRUE) ELSE ClaimTask(t, k, FALSE)
      BY <3>1 DEF ClaimTask
    <3>2. QED
      BY <1>6, <2>2, <2>3, <2>4, <3>1 DEF Deliver
<1>7. QED
  BY <1>2, <1>3, <1>4, <1>5, <1>6, WorkAtCursor DEF WorkersNext

LEMMA CallsInvariance == WorkersSpec => [](WInv /\ CallsInv)
<1>1. WInv /\ CallsInv /\ [WorkersNext]_allVars => (WInv /\ CallsInv)'
  BY StepKeeps, StepKeepsCalls
<1>2. QED
  BY <1>1, InitWInv, InitCallsInv, PTL DEF WorkersSpec

\* In every state exactly the calls before a task's cursor, and the one the
\* cursor names as pending, have a row, whether or not calls are prompt.
THEOREM CursorIsDurable == WorkersSpec => []CursorNamesCalls
<1>1. CallsInv => CursorNamesCalls
  BY DEF CallsInv
<1>2. QED
  BY <1>1, CallsInvariance, PTL

-----------------------------------------------------------------------------
(* Prompt calls                                                            *)

LEMMA InitPromptInv == WorkersInit => PromptInv
<1> SUFFICES ASSUME WorkersInit PROVE PromptInv
  OBVIOUS
<1>1. /\ \A w \in Worker : worker[w].pc = "idle"
      /\ \A t \in Turns, c \in Calls : op[t][c] = "none" /\ posts[t][c] = 0
  BY DEF WorkersInit, Idle
<1>2. Undisturbed /\ \A w \in Worker : RowOK(w)
  BY <1>1 DEF Undisturbed, InHand, InHandPcs, RowOK, Saw, At
<1>3. PlannedIsUnsent /\ SubmittedOnce /\ NothingLeftBehind
  BY <1>1 DEF PlannedIsUnsent, SubmittedOnce, NothingLeftBehind
<1>4. QED
  BY <1>2, <1>3 DEF PromptInv

\* A discovery that was started stays so, and one that ended is not reopened.
LEMMA StatusMoves ==
  ASSUME IInv, [Next]_vars
  PROVE  /\ status # "absent" => status' # "absent"
         /\ status' \in Ongoing => status \in Ongoing \cup {"absent"}
<1> USE DEF Ongoing
<1>1. CASE UNCHANGED status
  BY <1>1
<1>2. CASE StartDiscovery
  BY <1>2 DEF StartDiscovery
<1>3. CASE Claim
  BY <1>3 DEF Claim, ClaimTask, Claimable, FinishLocked
<1>4. CASE Finish
  BY <1>4 DEF Finish, FinishDiscovery, FinishLocked, ExternalStops
<1>5. CASE Commit
  BY <1>5 DEF Commit, CommitTurn, LeaseHeld, RecordTurn, HandOver, FinishLocked
<1>6. CASE Release \/ Dispatch \/ Read \/ \E t \in Turns : LeaseExpires(t)
  BY <1>6 DEF Release, ReleaseTask, Dispatch, Redispatch, MarkPublished, Read, ReadInbox,
              LeaseExpires, lifecycleVars
<1>7. QED
  BY <1>1, <1>2, <1>3, <1>4, <1>5, <1>6 DEF Next, vars, lifecycleVars

StillLeased(t, k) == state'[t] = "working" /\ token'[t] = k /\ live'[t]

\* Nobody but its holder takes a lease away, as long as the discovery goes on.
LEMMA LeasesKept ==
  ASSUME IInv, status' \in Ongoing, NEW u \in Turns, NEW j, LeaseHeld(u, j),
         \/ UNCHANGED vars \/ StartDiscovery \/ Dispatch
         \/ \E r : ReadInbox(r)
         \/ \E reason, stat : FinishDiscovery(reason, stat) /\ stat \notin Ongoing
         \/ \E t \in Turns, k \in Token : ClaimTask(t, k, TRUE) \/ ClaimTask(t, k, FALSE)
         \/ \E t \in Turns : LeaseExpires(t) /\ t # u
  PROVE  StillLeased(u, j)
<1> USE DEF LeaseHeld, StillLeased, Ongoing
<1>1. /\ state \in [Turns -> Active \cup {"absent", "done", "failed", "cancelled"}]
      /\ token \in [Turns -> Token \cup {NoToken}] /\ live \in [Turns -> BOOLEAN]
  BY DEF IInv, TypeOK
<1>2. CASE UNCHANGED <<state, token, live>>
  BY <1>2
<1>3. CASE \/ StartDiscovery
           \/ \E reason, stat : FinishDiscovery(reason, stat) /\ stat \notin Ongoing
           \/ \E t \in Turns, k \in Token : ClaimTask(t, k, TRUE)
  BY <1>3 DEF StartDiscovery, ClaimTask, FinishDiscovery, FinishLocked
<1>4. ASSUME NEW t \in Turns, NEW k \in Token, ClaimTask(t, k, FALSE) PROVE StillLeased(u, j)
  <2>1. u # t
    BY <1>4 DEF ClaimTask, Claimable
  <2>2. QED
    BY <1>1, <1>4, <2>1 DEF ClaimTask
<1>5. CASE \E t \in Turns : LeaseExpires(t) /\ t # u
  BY <1>1, <1>5 DEF LeaseExpires, lifecycleVars
<1>6. QED
  BY <1>2, <1>3, <1>4, <1>5
     DEF vars, taskVars, Dispatch, Redispatch, MarkPublished, ReadInbox

LEMMA ReleaseKeepsLeases ==
  ASSUME IInv, NEW u \in Turns, NEW j, LeaseHeld(u, j),
         NEW t \in Turns, NEW k, ReleaseTask(t, k), j # k
  PROVE  StillLeased(u, j)
<1>1. u # t
  BY DEF ReleaseTask, LeaseHeld
<1>2. QED
  BY <1>1 DEF ReleaseTask, LeaseHeld, StillLeased, IInv, TypeOK

\* There is one task to do, so who commits a turn is the only one with a lease.
LEMMA OneHolder ==
  ASSUME IInv, NEW u \in Turns, NEW j, LeaseHeld(u, j), NEW t \in Turns, NEW k, LeaseHeld(t, k)
  PROVE  u = t /\ j = k
<1>1. {x \in Turns : state[x] \in Active} = {turnsCompleted + 1}
  BY DEF IInv, OneTaskToDo, LeaseHeld
<1>2. u \in {x \in Turns : state[x] \in Active} /\ t \in {x \in Turns : state[x] \in Active}
  BY DEF LeaseHeld, Active
<1>3. QED
  BY <1>1, <1>2 DEF LeaseHeld

\* A worker has its task in hand after a step only if it owns it then, or had
\* it before and kept its lease.
LEMMA UndisturbedStep ==
  ASSUME WInv, Undisturbed, TokensDiffer', IInv, [Next]_vars,
         \A w \in Worker : InHand(w)' =>
           \/ Owns(w)'
           \/ /\ InHand(w) /\ worker'[w].turn = worker[w].turn
              /\ Owns(w) /\ status' \in Ongoing => Owns(w)'
  PROVE  Undisturbed'
<1>1. ASSUME NEW w \in Worker, InHand(w)'
      PROVE  status' # "absent" /\ (status' \in Ongoing => Owns(w)')
  <2>1. CASE Owns(w)'
    BY <2>1 DEF Owns, LeaseHeld, Ongoing
  <2>2. CASE InHand(w) /\ (Owns(w) /\ status' \in Ongoing => Owns(w)')
    BY <2>2, StatusMoves DEF Undisturbed
  <2>3. QED
    BY <1>1, <2>1, <2>2
<1>2. ASSUME NEW v \in Worker, NEW w \in Worker, v # w, InHand(v)', InHand(w)'
      PROVE  worker'[v].turn # worker'[w].turn
  <2>1. CASE status' \in Ongoing
    <3>1. Owns(v)' /\ Owns(w)' /\ worker'[v].token # worker'[w].token
      BY <1>1, <1>2, <2>1 DEF TokensDiffer, Busy, At, InHand, InHandPcs
    <3>2. QED
      BY <3>1 DEF Owns, LeaseHeld
  <2>2. CASE status' \notin Ongoing
    <3>1. ~Owns(v)' /\ ~Owns(w)'
      BY <2>2 DEF Owns, LeaseHeld
    <3>2. QED
      BY <1>2, <3>1 DEF Undisturbed
  <2>3. QED
    BY <2>1, <2>2
<1>3. QED
  BY <1>1, <1>2 DEF Undisturbed

\* The store stands still and one worker moves, with its task if in hand.
LEMMA UndisturbedMove ==
  ASSUME WInv, Undisturbed, TokensDiffer', UNCHANGED vars, NEW w \in Worker,
         \A v \in Worker : v # w => worker'[v] = worker[v],
         InHand(w)' => /\ worker'[w].turn = worker[w].turn /\ worker'[w].token = worker[w].token
                       /\ InHand(w) \/ Owns(w)
  PROVE  Undisturbed'
<1>1. \A t, k : LeaseHeld(t, k)' <=> LeaseHeld(t, k)
  BY DEF LeaseHeld, vars, taskVars, lifecycleVars
<1>2. ASSUME NEW v \in Worker, InHand(v)'
      PROVE  \/ Owns(v)'
             \/ /\ InHand(v) /\ worker'[v].turn = worker[v].turn
                /\ Owns(v) /\ status' \in Ongoing => Owns(v)'
  <2>1. CASE v = w
    BY <1>1, <1>2, <2>1 DEF Owns
  <2>2. CASE v # w
    BY <1>1, <1>2, <2>2 DEF Owns, InHand
  <2>3. QED
    BY <2>1, <2>2
<1>3. QED
  BY <1>2, UndisturbedStep DEF WInv

\* One worker leaves its task, in a step that takes no other's lease.
LEMMA UndisturbedLeave ==
  ASSUME WInv, Undisturbed, TokensDiffer', [Next]_vars, NEW w \in Worker,
         \A v \in Worker : v # w => worker'[v] = worker[v],
         ~InHand(w)',
         \A v \in Worker : v # w /\ InHand(v) /\ Owns(v) /\ status' \in Ongoing =>
           StillLeased(worker[v].turn, worker[v].token)
  PROVE  Undisturbed'
<1>1. ASSUME NEW v \in Worker, InHand(v)'
      PROVE  \/ Owns(v)'
             \/ /\ InHand(v) /\ worker'[v].turn = worker[v].turn
                /\ Owns(v) /\ status' \in Ongoing => Owns(v)'
  <2>1. v # w /\ worker'[v] = worker[v]
    BY <1>1
  <2>2. InHand(v)
    BY <1>1, <2>1 DEF InHand
  <2>3. Owns(v) /\ status' \in Ongoing => Owns(v)'
    BY <2>1, <2>2 DEF Owns, LeaseHeld, StillLeased
  <2>4. QED
    BY <2>1, <2>2, <2>3
<1>2. QED
  BY <1>1, UndisturbedStep DEF WInv

\* A row is as it was, or a handler marked it.
Marked(t, c) ==
  /\ posts'[t][c] = posts[t][c]
  /\ \/ op'[t][c] = op[t][c]
     \/ op[t][c] \in {"started", "pending"} /\ op'[t][c] = "unknown"

\* A row that is not completed is written by the worker that has it in hand.
Written(w, t, c) ==
  /\ InHand(w) /\ t = worker[w].turn /\ c = worker[w].call
  /\ op[t][c] # "completed"
  /\ posts'[t][c] <= 1
  /\ op'[t][c] \in {"none", "planned"} => posts'[t][c] = 0

LEMMA RowsHold ==
  ASSUME WInv, WInv', PromptInv, NEW w \in Worker,
         \A v \in Worker : v # w => worker'[v] = worker[v],
         Undisturbed', RowOK(w)', NothingLeftBehind',
         \A t \in Turns, c \in Calls : Marked(t, c) \/ Written(w, t, c)
  PROVE  PromptInv'
<1> USE DEF PromptInv
<1>1. ASSUME NEW v \in Worker, v # w PROVE RowOK(v)'
  <2> DEFINE t == worker[v].turn
             c == worker[v].call
  <2>1. worker'[v] = worker[v] /\ RowOK(v) /\ t \in Turns /\ (worker[v].pc \in InCall => c \in Calls)
    BY <1>1 DEF WInv, CallersOK, Memory, WorkerState, SoundMemory
  <2>2. CASE worker[v].pc \notin {"calling", "posting", "tools", "submitting", "saving"}
    BY <2>1, <2>2 DEF RowOK, Saw, At
  <2>3. CASE worker[v].pc \in {"calling", "posting", "tools", "submitting", "saving"} /\ Marked(t, c)
    BY <2>1, <2>3 DEF RowOK, Saw, At, Marked, Unresolved
  <2>4. CASE worker[v].pc \in {"calling", "posting", "tools", "submitting", "saving"} /\ Written(w, t, c)
    <3>1. ~InHand(v)
      BY <1>1, <2>4 DEF Written, Undisturbed
    <3>2. worker[v].pc = "tools"
      BY <2>4, <3>1 DEF InHand, InHandPcs
    <3>3. QED
      BY <2>1, <2>4, <3>2 DEF RowOK, Written
  <2>5. QED
    BY <2>1, <2>2, <2>3, <2>4 DEF InCall
<1>2. PlannedIsUnsent' /\ SubmittedOnce'
  BY DEF PlannedIsUnsent, SubmittedOnce, Marked, Written
<1>3. QED
  BY <1>1, <1>2

\* The store stands still and no cursor is moved.
LEMMA PromptUnmoved ==
  ASSUME WInv, WInv', CallsInv', PromptInv, NEW w \in Worker,
         \A v \in Worker : v # w => worker'[v] = worker[v],
         UNCHANGED <<vars, context>>,
         InHand(w)' => /\ worker'[w].turn = worker[w].turn /\ worker'[w].token = worker[w].token
                       /\ InHand(w) \/ Owns(w),
         RowOK(w)',
         \A t \in Turns, c \in Calls : Marked(t, c) \/ (Written(w, t, c) /\ op[t][c] # "none")
  PROVE  PromptInv'
<1>1. Undisturbed'
  BY UndisturbedMove DEF PromptInv, CallsInv
<1>2. state' = state
  BY DEF vars, taskVars
<1>3. NothingLeftBehind'
  BY <1>2 DEF PromptInv, NothingLeftBehind, Marked, Written
<1>4. QED
  BY <1>1, <1>3, RowsHold

LEMMA LeaveIsPrompt ==
  ASSUME WInv, WInv', CallsInv', PromptInv, NEW w \in Worker,
         \A v \in Worker : v # w => worker'[v] = worker[v],
         UNCHANGED <<vars, context>>,
         worker'[w].pc \in {"idle", "stopping", "failing"},
         \A t \in Turns, c \in Calls : Marked(t, c) \/ (Written(w, t, c) /\ op[t][c] # "none")
  PROVE  PromptInv'
<1>1. ~InHand(w)' /\ RowOK(w)'
  BY DEF InHand, InHandPcs, RowOK, Saw, At
<1>2. QED
  BY <1>1, PromptUnmoved

\* Where a worker is after the ways it may move.
LEMMA Moved ==
  ASSUME WInv, NEW w \in Worker
  PROVE  /\ \A pc : Goto(w, pc) =>
              /\ \A v \in Worker : v # w => worker'[v] = worker[v]
              /\ worker'[w].pc = pc /\ worker'[w].token = worker[w].token
              /\ worker'[w].turn = worker[w].turn /\ worker'[w].call = worker[w].call
         /\ \A pc, why : Raise(w, pc, why) =>
              /\ \A v \in Worker : v # w => worker'[v] = worker[v]
              /\ worker'[w].pc = pc
         /\ Quit(w) =>
              /\ \A v \in Worker : v # w => worker'[v] = worker[v]
              /\ worker'[w].pc = "idle"
<1>1. worker \in [Worker -> WorkerState] /\ worker[w] \in WorkerState
  BY DEF WInv, CallersOK, Memory
<1>2. ASSUME NEW pc, Goto(w, pc)
      PROVE  /\ \A v \in Worker : v # w => worker'[v] = worker[v]
             /\ worker'[w].pc = pc /\ worker'[w].token = worker[w].token
             /\ worker'[w].turn = worker[w].turn /\ worker'[w].call = worker[w].call
  BY <1>1, <1>2 DEF Goto, WorkerState
<1>3. ASSUME NEW pc, NEW why, Raise(w, pc, why)
      PROVE  (\A v \in Worker : v # w => worker'[v] = worker[v]) /\ worker'[w].pc = pc
  BY <1>1, <1>3 DEF Raise, WorkerState
<1>4. Quit(w) => (\A v \in Worker : v # w => worker'[v] = worker[v]) /\ worker'[w].pc = "idle"
  BY <1>1 DEF Quit, Idle
<1>5. QED
  BY <1>2, <1>3, <1>4

LEMMA FailIsPrompt ==
  ASSUME WInv, WInv', CallsInv', PromptInv, NEW w \in Worker,
         FailsUnknown(w) \/ (\E r : Fails(w, r)), UNCHANGED <<vars, context, posts>>
  PROVE  PromptInv'
<1>1. \A t \in Turns, c \in Calls : Marked(t, c)
  BY MarkedRows DEF Marked
<1>2. \E why : Raise(w, "failing", why)
  BY DEF FailsUnknown, Fails
<1>3. QED
  BY <1>1, <1>2, Moved, LeaveIsPrompt

LEMMA GiveWayIsPrompt ==
  ASSUME WInv, WInv', CallsInv', PromptInv, NEW w \in Worker, LosesLease(w) \/ HitsLimit(w)
  PROVE  PromptInv'
<1>1. UNCHANGED vars /\ UNCHANGED <<op, context, posts>>
  BY DEF LosesLease, HitsLimit, callVars
<1>2. Quit(w) \/ Raise(w, "stopping", Exhausted)
  BY DEF LosesLease, HitsLimit
<1>3. QED
  BY <1>1, <1>2, Moved, LeaveIsPrompt DEF Marked

\* What the cursor says to the worker that owns its task.
LEMMA OwnerAtCursor ==
  ASSUME CallsInv, NEW w \in Worker, Owns(w), Busy(w)
  PROVE  AtCursor(w) /\ state[worker[w].turn] = "working"
BY DEF CallsInv, CursorOK, Holds, Owns, LeaseHeld

\* A cursor is saved: the rows before it are completed.
LEMMA SaveIsPrompt ==
  ASSUME WInv, WInv', CallsInv', PromptInv, NEW w \in Worker, Owns(w), NEW call, NEW pending,
         SaveContext(w, call, pending), UNCHANGED <<vars, posts>>,
         \A v \in Worker : v # w => worker'[v] = worker[v],
         worker'[w].turn = worker[w].turn, worker'[w].token = worker[w].token,
         RowOK(w)',
         \A t \in Turns, c \in Calls : Marked(t, c) \/ Written(w, t, c),
         \A c \in Calls : c < call => op'[worker[w].turn][c] \in {"none", "completed"},
         \A t \in Turns, c \in Calls : t # worker[w].turn => op'[t][c] = op[t][c]
  PROVE  PromptInv'
<1> DEFINE u == worker[w].turn
<1>1. Undisturbed'
  BY UndisturbedMove DEF PromptInv, CallsInv
<1>2. state' = state /\ state[u] = "working" /\ u \in Turns
  BY DEF vars, taskVars, Owns, LeaseHeld, WInv, CallersOK, Memory, WorkerState
<1>3. \A t \in Turns : context'[t].call = IF t = u THEN call ELSE context[t].call
  <2>1. context \in [Turns -> [call: 0..(MaxCalls + 1), pending: BOOLEAN]]
    BY DEF WInv, CallersOK, Ledger
  <2>2. QED
    BY <1>2, <2>1 DEF SaveContext
<1>4. NothingLeftBehind'
  <2> SUFFICES ASSUME NEW t \in Turns, NEW c \in Calls, state'[t] = "done" \/ c < context'[t].call,
                      op'[t][c] # "none"
               PROVE  op'[t][c] = "completed"
    BY DEF NothingLeftBehind
  <2>1. CASE t = u
    BY <1>2, <1>3, <2>1
  <2>2. CASE t # u
    BY <1>2, <1>3, <2>2 DEF PromptInv, NothingLeftBehind
  <2>3. QED
    BY <2>1, <2>2
<1>5. QED
  BY <1>1, <1>4, RowsHold

LEMMA CursorIsPrompt ==
  ASSUME WInv, WInv', CallsInv, CallsInv', PromptInv, NEW w \in Worker,
         SaveFirstContext(w) \/ Begin(w) \/ SaveNextContext(w)
  PROVE  PromptInv'
<1> DEFINE t == worker[w].turn
           c == worker[w].call
<1>1. /\ worker \in [Worker -> WorkerState] /\ worker[w] \in WorkerState /\ t \in Turns
      /\ worker[w].pc \in InCall => c \in Calls
      /\ worker[w].pc = "top" => c >= 1
      /\ op \in [Turns -> [Calls -> OpStates]]
  BY DEF WInv, CallersOK, Memory, WorkerState, SoundMemory, Ledger
<1>2. CASE LosesLease(w) \/ HitsLimit(w)
  BY <1>2, GiveWayIsPrompt
<1>3. CASE SaveFirstContext(w) /\ ~LosesLease(w)
  <2>1. /\ Owns(w) /\ SaveContext(w, 1, FALSE) /\ UNCHANGED <<vars, op, posts>>
        /\ worker' = [worker EXCEPT ![w].pc = "top", ![w].call = 1]
    BY <1>3 DEF SaveFirstContext
  <2>2. /\ \A v \in Worker : v # w => worker'[v] = worker[v]
        /\ worker'[w].turn = t /\ worker'[w].token = worker[w].token /\ worker'[w].pc = "top"
    BY <1>1, <2>1 DEF WorkerState
  <2>3. RowOK(w)'
    BY <2>2 DEF RowOK, Saw, At
  <2>4. \A d \in Calls : ~(d < 1)
    BY DEF Calls
  <2>5. QED
    BY <2>1, <2>2, <2>3, <2>4, SaveIsPrompt DEF Marked
<1>4. CASE Begin(w) /\ Fails(w, "provider_error") /\ UNCHANGED <<vars, context, posts>>
  BY <1>4, FailIsPrompt
<1>5. CASE Begin(w) /\ (\E why : Raise(w, "stopping", why)) /\ UNCHANGED <<vars, op, context, posts>>
  BY <1>5, Moved, LeaveIsPrompt DEF Marked
<1>6. CASE /\ Begin(w) /\ Owns(w) /\ c <= MaxCalls /\ SaveContext(w, c, TRUE)
           /\ op' = [op EXCEPT ![t][c] = "planned"]
           /\ worker' = [worker EXCEPT ![w].pc = "calling", ![w].saw = "planned"]
           /\ UNCHANGED <<vars, posts>>
  <2>1. worker[w].pc = "top" /\ c \in Calls
    BY <1>1, <1>6, MaxCallsAssumption DEF Begin, At, Calls, WorkerState
  <2>2. /\ \A v \in Worker : v # w => worker'[v] = worker[v]
        /\ worker'[w].turn = t /\ worker'[w].token = worker[w].token /\ worker'[w].call = c
        /\ worker'[w].pc = "calling" /\ worker'[w].saw = "planned"
    BY <1>1, <1>6 DEF WorkerState
  <2>3. context[t].call = c /\ ~context[t].pending
    BY <1>6, <2>1, OwnerAtCursor DEF Busy, At, AtCursor
  <2>4. op[t][c] = "none" /\ posts[t][c] = 0
    BY <1>1, <2>1, <2>3 DEF CallsInv, CursorNamesCalls, PromptInv, PlannedIsUnsent, Calls
  <2>5. \A u \in Turns, d \in Calls : op'[u][d] = IF u = t /\ d = c THEN "planned" ELSE op[u][d]
    BY <1>1, <1>6
  <2>6. RowOK(w)'
    BY <1>1, <2>1, <2>2, <2>5 DEF RowOK, Saw, At
  <2>7. \A u \in Turns, d \in Calls : Marked(u, d) \/ Written(w, u, d)
    BY <1>6, <2>1, <2>4, <2>5 DEF Marked, Written, InHand, InHandPcs
  <2>8. \A d \in Calls : d < c => op'[t][d] \in {"none", "completed"}
    BY <1>1, <2>1, <2>3, <2>5 DEF PromptInv, NothingLeftBehind, Calls
  <2>9. \A u \in Turns, d \in Calls : u # t => op'[u][d] = op[u][d]
    BY <2>5
  <2>10. Owns(w) /\ SaveContext(w, c, TRUE) /\ UNCHANGED <<vars, posts>>
    BY <1>6
  <2>11. QED
    BY <2>2, <2>6, <2>7, <2>8, <2>9, <2>10, SaveIsPrompt
<1>7. CASE SaveNextContext(w) /\ ~LosesLease(w)
  <2>1. /\ Owns(w) /\ SaveContext(w, c + 1, FALSE) /\ UNCHANGED <<vars, op, posts>>
        /\ worker' = [worker EXCEPT ![w].pc = "top", ![w].call = c + 1, ![w].got = NoRevision]
        /\ worker[w].pc = "saving" /\ c \in Calls
    BY <1>1, <1>7 DEF SaveNextContext, At, InCall
  <2>2. /\ \A v \in Worker : v # w => worker'[v] = worker[v]
        /\ worker'[w].turn = t /\ worker'[w].token = worker[w].token /\ worker'[w].pc = "top"
    BY <1>1, <2>1 DEF WorkerState
  <2>3. RowOK(w)'
    BY <2>2 DEF RowOK, Saw, At
  <2>4. context[t].call = c
    BY <2>1, OwnerAtCursor DEF Busy, At, AtCursor, InCall
  <2>5. \A d \in Calls : d < c + 1 => d < c \/ d = c
    BY <2>1 DEF Calls
  <2>6. op[t][c] = "completed"
    BY <2>1 DEF PromptInv, RowOK
  <2>7. \A d \in Calls : d < c + 1 => op'[t][d] \in {"none", "completed"}
    BY <1>1, <2>1, <2>4, <2>5, <2>6 DEF PromptInv, NothingLeftBehind
  <2>8. QED
    BY <2>1, <2>2, <2>3, <2>7, SaveIsPrompt DEF Marked
<1>8. QED
  BY <1>2, <1>3, <1>4, <1>5, <1>6, <1>7 DEF SaveFirstContext, Begin, SaveNextContext, MayGoOn

\* The steps of a call.
LEMMA CallIsPrompt ==
  ASSUME WInv, WInv', CallsInv, CallsInv', PromptInv, NEW w \in Worker,
         Resume(w) \/ MarkStarted(w) \/ Post(w) \/ Poll(w) \/ Reuse(w) \/ GiveUp(w)
  PROVE  PromptInv'
<1> DEFINE t == worker[w].turn
           c == worker[w].call
<1>1. /\ worker \in [Worker -> WorkerState] /\ worker[w] \in WorkerState /\ t \in Turns
      /\ worker[w].pc \in InCall => c \in Calls
      /\ op \in [Turns -> [Calls -> OpStates]] /\ posts \in [Turns -> [Calls -> 0..2]]
  BY DEF WInv, CallersOK, Memory, WorkerState, SoundMemory, Ledger
<1>2. worker[w].pc \in {"resume", "calling", "posting"} /\ c \in Calls /\ InHand(w)
  BY <1>1 DEF Resume, MarkStarted, Post, Poll, Reuse, GiveUp, Saw, At, InCall, InHand, InHandPcs
<1>3. CASE Resume(w)
  <2>1. CASE LosesLease(w) \/ HitsLimit(w)
    BY <2>1, GiveWayIsPrompt
  <2>2. CASE /\ worker' = [worker EXCEPT ![w].pc = "calling", ![w].saw = op[t][c],
                                         ![w].got = answer[t][c]]
             /\ UNCHANGED <<vars, op, context, posts>>
    <3>1. /\ \A v \in Worker : v # w => worker'[v] = worker[v]
          /\ worker'[w].turn = t /\ worker'[w].token = worker[w].token /\ worker'[w].call = c
          /\ worker'[w].pc = "calling" /\ worker'[w].saw = op[t][c]
      BY <1>1, <2>2 DEF WorkerState
    <3>2. RowOK(w)'
      BY <2>2, <3>1 DEF RowOK, Saw, At
    <3>3. QED
      BY <1>2, <2>2, <3>1, <3>2, PromptUnmoved DEF Marked
  <2>3. QED
    BY <1>3, <2>1, <2>2 DEF Resume, callVars
<1>4. CASE MarkStarted(w)
  <2>1. /\ op' = [op EXCEPT ![t][c] = "started"] /\ Goto(w, "posting")
        /\ UNCHANGED <<vars, context, posts>> /\ Saw(w, "planned")
    BY <1>4 DEF MarkStarted
  <2>2. op[t][c] = "planned" /\ posts[t][c] = 0
    BY <1>1, <1>2, <2>1 DEF PromptInv, RowOK, PlannedIsUnsent
  <2>3. \A u \in Turns, d \in Calls : op'[u][d] = IF u = t /\ d = c THEN "started" ELSE op[u][d]
    BY <1>1, <2>1
  <2>4. RowOK(w)'
    BY <1>1, <1>2, <2>1, <2>2, <2>3, Moved DEF RowOK, Saw, At, Unresolved
  <2>5. \A u \in Turns, d \in Calls : Marked(u, d) \/ (Written(w, u, d) /\ op[u][d] # "none")
    BY <1>2, <2>1, <2>2, <2>3 DEF Marked, Written
  <2>6. QED
    BY <1>2, <2>1, <2>4, <2>5, Moved, PromptUnmoved
<1>5. CASE Post(w)
  <2>1. op[t][c] \in Unresolved /\ posts[t][c] = 0 /\ worker[w].pc = "posting"
    BY <1>5 DEF Post, At, PromptInv, RowOK
  <2>2. /\ posts'[t][c] = 1
        /\ \A u \in Turns, d \in Calls : u # t \/ d # c => posts'[u][d] = posts[u][d]
    BY <1>1, <1>2, <1>5, <2>1 DEF Post, Posted
  <2>3. /\ op'[t][c] \in {"pending", "failed", "unknown"}
        /\ \A u \in Turns, d \in Calls : u # t \/ d # c =>
             \/ op'[u][d] = op[u][d]
             \/ op[u][d] \in {"started", "pending"} /\ op'[u][d] = "unknown"
    <3>1. CASE op' = [op EXCEPT ![t][c] = "pending"]
      BY <1>1, <1>2, <3>1
    <3>2. ASSUME NEW S \in {{"started"}, {"started", "pending"}}, NEW s \in {"failed", "unknown"},
                 op' = [op EXCEPT ![t] = [Unresolve(t, S) EXCEPT ![c] = s]]
          PROVE  /\ op'[t][c] \in {"failed", "unknown"}
                 /\ \A u \in Turns, d \in Calls : u # t \/ d # c =>
                      \/ op'[u][d] = op[u][d]
                      \/ op[u][d] \in {"started", "pending"} /\ op'[u][d] = "unknown"
      BY <1>1, <1>2, <3>2 DEF Unresolve
    <3>3. QED
      BY <1>5, <3>1, <3>2 DEF Post
  <2>4. \A u \in Turns, d \in Calls : Marked(u, d) \/ (Written(w, u, d) /\ op[u][d] # "none")
    BY <1>2, <2>1, <2>2, <2>3 DEF Marked, Written, Unresolved
  <2>5. UNCHANGED <<vars, context>> /\ (Goto(w, "parking") \/ Raise(w, "failing", "provider_error"))
    BY <1>5 DEF Post
  <2>6. CASE Goto(w, "parking")
    <3>1. RowOK(w)'
      BY <2>6, Moved DEF RowOK, Saw, At
    <3>2. QED
      BY <1>2, <2>4, <2>5, <2>6, <3>1, Moved, PromptUnmoved
  <2>7. CASE Raise(w, "failing", "provider_error")
    BY <2>4, <2>5, <2>7, Moved, LeaveIsPrompt
  <2>8. QED
    BY <2>5, <2>6, <2>7
<1>6. CASE Poll(w) \/ Reuse(w) \/ GiveUp(w)
  <2>1. UNCHANGED <<vars, context, posts>>
    BY <1>6 DEF Poll, Reuse, GiveUp, callVars
  <2>2. CASE FailsUnknown(w) \/ Fails(w, "provider_error")
    BY <2>1, <2>2, FailIsPrompt
  <2>3. ASSUME NEW pc \in {"parking", "answered"}, Goto(w, pc), UNCHANGED op PROVE PromptInv'
    <3>1. RowOK(w)'
      BY <2>3, Moved DEF RowOK, Saw, At
    <3>2. QED
      BY <1>2, <2>1, <2>3, <3>1, Moved, PromptUnmoved DEF Marked
  <2>4. ASSUME NEW a, UNCHANGED op,
               worker' = [worker EXCEPT ![w].pc = "answered", ![w].saw = "none", ![w].got = a]
        PROVE  PromptInv'
    <3>1. /\ \A v \in Worker : v # w => worker'[v] = worker[v]
          /\ worker'[w].turn = t /\ worker'[w].token = worker[w].token /\ worker'[w].pc = "answered"
      BY <1>1, <2>4 DEF WorkerState
    <3>2. RowOK(w)'
      BY <3>1 DEF RowOK, Saw, At
    <3>3. QED
      BY <1>2, <2>1, <2>4, <3>1, <3>2, PromptUnmoved DEF Marked
  <2>5. QED
    BY <1>6, <2>2, <2>3, <2>4 DEF Poll, Reuse, GiveUp, callVars
<1>7. QED
  BY <1>3, <1>4, <1>5, <1>6

\* The ends of a call.
LEMMA AnswerIsPrompt ==
  ASSUME WInv, WInv', CallsInv, CallsInv', PromptInv, NEW w \in Worker, Complete(w) \/ Tools(w)
  PROVE  PromptInv'
<1> DEFINE t == worker[w].turn
           c == worker[w].call
<1>1. /\ t \in Turns /\ (worker[w].pc \in InCall => c \in Calls)
      /\ op \in [Turns -> [Calls -> OpStates]] /\ posts \in [Turns -> [Calls -> 0..2]]
  BY DEF WInv, CallersOK, Memory, WorkerState, SoundMemory, Ledger
<1>2. CASE LosesLease(w) \/ HitsLimit(w)
  BY <1>2, GiveWayIsPrompt
<1>3. CASE (\E r : Fails(w, r)) /\ UNCHANGED <<vars, context, posts>>
  BY <1>3, FailIsPrompt
<1>4. CASE /\ Complete(w) /\ Owns(w) /\ UNCHANGED <<vars, context, posts>>
           /\ \/ op' = op /\ op[t][c] = "completed"
              \/ StoreAnswer(w, t, c) /\ op[t][c] # "completed"
           /\ Goto(w, "tools") \/ Raise(w, "stopping", "cost_limit")
  <2>1. worker[w].pc = "answered" /\ c \in Calls /\ InHand(w)
    BY <1>1, <1>4 DEF Complete, At, InCall, InHand, InHandPcs
  <2>2. /\ op'[t][c] = "completed"
        /\ \A u \in Turns, d \in Calls : op'[u][d] = op[u][d] \/ (u = t /\ d = c /\ op[u][d] # "completed")
    BY <1>1, <1>4, <2>1 DEF StoreAnswer
  <2>3. op[t][c] # "none" /\ posts[t][c] <= 1
    BY <1>1, <2>1 DEF CallsInv, CursorOK, InCall, PromptInv, SubmittedOnce
  <2>4. \A u \in Turns, d \in Calls : Marked(u, d) \/ (Written(w, u, d) /\ op[u][d] # "none")
    BY <1>4, <2>1, <2>2, <2>3 DEF Marked, Written
  <2>5. CASE Goto(w, "tools")
    <3>1. RowOK(w)'
      BY <2>2, <2>5, Moved DEF RowOK, Saw, At
    <3>2. QED
      BY <1>4, <2>1, <2>4, <2>5, <3>1, Moved, PromptUnmoved
  <2>6. CASE Raise(w, "stopping", "cost_limit")
    BY <1>4, <2>4, <2>6, Moved, LeaveIsPrompt
  <2>7. QED
    BY <1>4, <2>5, <2>6
<1>5. CASE Tools(w) /\ UNCHANGED <<vars, op, context, posts>>
           /\ (\E limit : Raise(w, "stopping", limit))
  BY <1>5, Moved, LeaveIsPrompt DEF Marked
<1>6. ASSUME Tools(w), Owns(w), UNCHANGED <<vars, op, context, posts>>,
             NEW pc \in {"saving", "submitting"}, Goto(w, pc)
      PROVE  PromptInv'
  <2>1. RowOK(w)'
    BY <1>6, Moved DEF RowOK, Saw, At, Tools, PromptInv
  <2>2. QED
    BY <1>6, <2>1, Moved, PromptUnmoved DEF Marked
<1>7. CASE Complete(w)
  <2>1. ~LosesLease(w) => Owns(w) /\ UNCHANGED <<vars, context, posts>>
    BY <1>7 DEF Complete
  <2>2. \/ LosesLease(w) \/ Fails(w, "provider_error")
        \/ op[t][c] = "completed" /\ op' = op /\ Goto(w, "tools")
        \/ /\ op[t][c] # "completed" /\ StoreAnswer(w, t, c)
           /\ Goto(w, "tools") \/ Raise(w, "stopping", "cost_limit")
    BY <1>7 DEF Complete
  <2>3. CASE LosesLease(w)
    BY <1>2, <2>3
  <2>4. CASE ~LosesLease(w) /\ Fails(w, "provider_error")
    BY <1>3, <2>1, <2>4
  <2>5. CASE ~LosesLease(w) /\ ~Fails(w, "provider_error")
    BY <1>4, <1>7, <2>1, <2>2, <2>5
  <2>6. QED
    BY <2>3, <2>4, <2>5
<1>8. CASE Tools(w)
  BY <1>2, <1>3, <1>5, <1>6, <1>8 DEF Tools, callVars, MayGoOn
<1>9. QED
  BY <1>7, <1>8

\* No row changes, no turn is recorded, and the workers' tasks are undisturbed.
LEMMA RowsUnchanged ==
  ASSUME WInv, WInv', PromptInv, NEW w \in Worker,
         \A v \in Worker : v # w => worker'[v] = worker[v],
         UNCHANGED <<op, context, posts>>, KeepsTasks, Undisturbed', RowOK(w)'
  PROVE  PromptInv'
<1>1. NothingLeftBehind'
  BY DEF PromptInv, NothingLeftBehind, KeepsTasks
<1>2. QED
  BY <1>1, RowsHold DEF Marked

\* The turn whose last call was answered is recorded.
LEMMA CommitIsPrompt ==
  ASSUME WInv, WInv', CallsInv, CallsInv', PromptInv, [Next]_vars, NEW w \in Worker,
         worker[w].pc = "submitting",
         CommitTurn(worker[w].turn, worker[w].token, worker[w].got, Exhausted),
         Quit(w), UNCHANGED callVars
  PROVE  PromptInv'
<1> DEFINE t == worker[w].turn
           c == worker[w].call
<1>1. /\ \A v \in Worker : worker[v].turn \in Turns
      /\ c \in Calls
      /\ context \in [Turns -> [call: 0..(MaxCalls + 1), pending: BOOLEAN]]
  BY DEF WInv, CallersOK, Memory, WorkerState, SoundMemory, InCall, Ledger
<1>2. UNCHANGED <<op, context, answer, posts>>
  BY DEF callVars
<1>3. /\ \A v \in Worker : v # w => worker'[v] = worker[v]
      /\ worker'[w].pc = "idle"
  BY Moved
<1>4. RowOK(w)' /\ ~InHand(w)'
  BY <1>3 DEF RowOK, Saw, At, InHand, InHandPcs
<1>5. Undisturbed'
  <2>1. ASSUME NEW v \in Worker, v # w, InHand(v), Owns(v), status' \in Ongoing
        PROVE  StillLeased(worker[v].turn, worker[v].token)
    <3>1. worker[v].token # worker[w].token
      BY <2>1 DEF CallsInv, TokensDiffer, Busy, At, InHand, InHandPcs
    <3>2. LeaseHeld(worker[v].turn, worker[v].token)
      BY <2>1 DEF Owns
    <3>3. LeaseHeld(t, worker[w].token)
      BY DEF CommitTurn
    <3>4. QED
      BY <1>1, <2>1, <3>1, <3>2, <3>3, OneHolder DEF WInv
  <2>2. QED
    BY <1>3, <1>4, <2>1, UndisturbedLeave DEF PromptInv, CallsInv
<1>6. NothingLeftBehind'
  <2>1. \A u \in Turns : state'[u] = "done" => state[u] = "done" \/ u = t
    <3>1. CASE Exhausted \in LimitReasons
      BY <3>1, EndingKeepsTasks DEF CommitTurn, WInv, LimitReasons, KeepsTasks
    <3>2. CASE Exhausted = "none"
      BY <1>1, <3>2, RecordedTasks DEF CommitTurn, WInv, LimitReasons
    <3>3. QED
      BY <3>1, <3>2 DEF Exhausted, LimitReasons
  <2>2. context[t].call = c
    BY OwnerAtCursor DEF Owns, CommitTurn, Busy, At, AtCursor, InCall
  <2>3. op[t][c] = "completed"
    BY DEF PromptInv, RowOK
  <2>4. \A d \in Calls : op[t][d] # "none" => op[t][d] = "completed"
    BY <1>1, <2>2, <2>3 DEF CallsInv, CursorNamesCalls, PromptInv, NothingLeftBehind
  <2>5. QED
    BY <1>2, <2>1, <2>4 DEF PromptInv, NothingLeftBehind
<1>7. QED
  BY <1>2, <1>3, <1>4, <1>5, <1>6, RowsHold DEF Marked

\* The remaining steps of a worker.
LEMMA OtherWorkIsPrompt ==
  ASSUME WInv, WInv', CallsInv, CallsInv', PromptInv, [Next]_vars, NEW w \in Worker,
         ReadMail(w) \/ SubmitTurn(w) \/ Park(w) \/ Reschedule(w) \/ EndDiscovery(w)
  PROVE  PromptInv'
<1> DEFINE t == worker[w].turn
           k == worker[w].token
<1>1. /\ \A v \in Worker : worker[v].turn \in Turns
      /\ worker[w].pc # "idle"
      /\ UNCHANGED <<context, posts>>
  BY DEF WInv, CallersOK, Memory, WorkerState, ReadMail, SubmitTurn, Park, Reschedule, EndDiscovery,
         At, LosesLease, callVars
<1>2. \A v \in Worker : v # w /\ InHand(v) /\ Owns(v) =>
        LeaseHeld(worker[v].turn, worker[v].token) /\ worker[v].token # k
  BY <1>1 DEF CallsInv, TokensDiffer, Busy, At, InHand, InHandPcs, Owns
<1>3. TokensDiffer' /\ Undisturbed
  BY DEF CallsInv, PromptInv
<1>4. CASE ReadMail(w)
  <2>1. /\ \A v \in Worker : v # w => worker'[v] = worker[v]
        /\ worker'[w].pc = "briefed" /\ worker'[w].token = k /\ worker'[w].turn = t
        /\ worker[w].pc = "fresh"
    BY <1>4, Moved DEF ReadMail, At
  <2>2. UNCHANGED <<status, state, token, live>> /\ UNCHANGED op /\ KeepsTasks
    BY <1>4, StoreKeepsTasks
       DEF ReadMail, ReadInbox, vars, taskVars, lifecycleVars, callVars, WInv
  <2>3. \A v \in Worker : InHand(v)' =>
          InHand(v) /\ worker'[v].turn = worker[v].turn /\ (Owns(v) => Owns(v)')
    BY <2>1, <2>2 DEF InHand, InHandPcs, Owns, LeaseHeld
  <2>4. Undisturbed'
    BY <1>3, <2>3, UndisturbedStep DEF WInv
  <2>5. RowOK(w)'
    BY <2>1 DEF RowOK, Saw, At
  <2>6. QED
    BY <1>1, <2>1, <2>2, <2>4, <2>5, RowsUnchanged
<1>5. CASE SubmitTurn(w)
  <2>1. worker[w].pc = "submitting"
    BY <1>5 DEF SubmitTurn, At
  <2>2. CASE Fails(w, "provider_error") /\ UNCHANGED vars
    BY <1>1, <2>2, FailIsPrompt
  <2>3. CASE Quit(w) /\ UNCHANGED <<vars, op>>
    BY <1>1, <2>3, Moved, LeaveIsPrompt DEF Marked
  <2>4. CASE Goto(w, "saving") /\ UNCHANGED <<vars, op>>
    <3>1. RowOK(w)'
      BY <1>1, <2>1, <2>4, Moved DEF RowOK, Saw, At, PromptInv
    <3>2. QED
      BY <1>1, <2>1, <2>4, <3>1, Moved, PromptUnmoved DEF Marked, InHand, InHandPcs
  <2>5. CASE CommitTurn(t, k, worker[w].got, Exhausted) /\ Quit(w) /\ UNCHANGED op
    BY <1>5, <2>1, <2>5, CommitIsPrompt DEF SubmitTurn, callVars
  <2>6. QED
    BY <1>5, <2>2, <2>3, <2>4, <2>5 DEF SubmitTurn
<1>6. CASE Park(w) /\ LosesLease(w)
  BY <1>6, GiveWayIsPrompt
<1>7. CASE ReleaseTask(t, k) /\ Goto(w, "parked") /\ UNCHANGED op
  <2>1. /\ \A v \in Worker : v # w => worker'[v] = worker[v]
        /\ worker'[w].pc = "parked"
    BY <1>7, Moved
  <2>2. RowOK(w)' /\ ~InHand(w)' /\ KeepsTasks
    BY <1>1, <1>7, <2>1, StoreKeepsTasks DEF RowOK, Saw, At, InHand, InHandPcs, WInv
  <2>3. Undisturbed'
    <3>1. ASSUME NEW v \in Worker, v # w, InHand(v), Owns(v), status' \in Ongoing
          PROVE  StillLeased(worker[v].turn, worker[v].token)
      BY <1>1, <1>2, <1>7, <3>1, ReleaseKeepsLeases DEF WInv
    <3>2. QED
      BY <1>3, <2>1, <2>2, <3>1, UndisturbedLeave
  <2>4. QED
    BY <1>1, <1>7, <2>1, <2>2, <2>3, RowsUnchanged
<1>8. CASE Reschedule(w) \/ (EndDiscovery(w) /\ status \notin Ongoing)
  BY <1>1, <1>8, Moved, LeaveIsPrompt DEF Reschedule, EndDiscovery, callVars, Marked
<1>9. CASE EndDiscovery(w) /\ status \in Ongoing
  <2>1. /\ \A v \in Worker : v # w => worker'[v] = worker[v]
        /\ worker'[w].pc = "idle" /\ UNCHANGED op
    BY <1>9, Moved DEF EndDiscovery, callVars
  <2>2. \E reason, stat : FinishDiscovery(reason, stat) /\ stat \notin Ongoing
    <3>1. FinishDiscovery(worker[w].why, "failed") \/ FinishDiscovery(worker[w].why, "completed")
      BY <1>9 DEF EndDiscovery
    <3>2. QED
      BY <3>1 DEF Ongoing
  <2>3. RowOK(w)' /\ ~InHand(w)' /\ KeepsTasks
    BY <2>1, <2>2, StoreKeepsTasks DEF RowOK, Saw, At, InHand, InHandPcs, WInv
  <2>4. Undisturbed'
    BY <1>1, <1>2, <1>3, <2>1, <2>2, <2>3, LeasesKept, UndisturbedLeave DEF WInv
  <2>5. QED
    BY <1>1, <2>1, <2>3, <2>4, RowsUnchanged
<1>10. CASE Park(w)
  BY <1>6, <1>7, <1>10 DEF Park, callVars
<1>11. CASE EndDiscovery(w)
  BY <1>8, <1>9, <1>11
<1>12. CASE Reschedule(w)
  BY <1>8, <1>12
<1>13. QED
  BY <1>4, <1>5, <1>10, <1>11, <1>12

\* Whatever happens around the workers, but for the death of one and a delivery.
LEMMA AroundIsPrompt ==
  ASSUME PromptCalls, WInv, WInv', CallsInv, CallsInv', PromptInv, [Next]_vars,
         UNCHANGED worker, UNCHANGED <<op, context, posts>>,
         \/ UNCHANGED vars \/ StartDiscovery \/ Dispatch
         \/ FinishDiscovery("human_cancelled", "cancelled")
         \/ \E t \in Turns, k \in Token : ClaimTask(t, k, TRUE)
         \/ \E t \in Turns : Expire(t)
  PROVE  PromptInv'
<1>1. KeepsTasks
  BY StoreKeepsTasks DEF WInv, Expire
<1>2. ASSUME NEW v \in Worker, InHand(v), Owns(v), status' \in Ongoing PROVE Owns(v)'
  <2>1. worker[v].turn \in Turns /\ LeaseHeld(worker[v].turn, worker[v].token)
    BY <1>2 DEF WInv, CallersOK, Memory, WorkerState, Owns
  <2>2. \A t \in Turns : Expire(t) => t # worker[v].turn
    BY <1>2 DEF Expire, Holders, At, Owns, LeaseHeld, InHand, InHandPcs
  <2>3. StillLeased(worker[v].turn, worker[v].token)
    <3>1. CASE \E t \in Turns : Expire(t)
      BY <1>2, <2>1, <2>2, <3>1, LeasesKept DEF WInv, Expire
    <3>2. CASE FinishDiscovery("human_cancelled", "cancelled")
      <4>1. \E reason, stat : FinishDiscovery(reason, stat) /\ stat \notin Ongoing
        BY <3>2 DEF Ongoing
      <4>2. QED
        BY <1>2, <2>1, <4>1, LeasesKept DEF WInv
    <3>3. CASE \/ UNCHANGED vars \/ StartDiscovery \/ Dispatch
               \/ \E t \in Turns, k \in Token : ClaimTask(t, k, TRUE)
      BY <1>2, <2>1, <3>3, LeasesKept DEF WInv
    <3>4. QED
      BY <3>1, <3>2, <3>3
  <2>4. QED
    BY <1>2, <2>3 DEF Owns, LeaseHeld, StillLeased
<1>3. Undisturbed'
  BY <1>2, UndisturbedStep DEF CallsInv, PromptInv, WInv, InHand
<1>4. /\ \A w \in Worker : RowOK(w)'
      /\ PlannedIsUnsent' /\ SubmittedOnce'
  BY DEF PromptInv, RowOK, Saw, At, PlannedIsUnsent, SubmittedOnce
<1>5. NothingLeftBehind'
  BY <1>1 DEF PromptInv, NothingLeftBehind, KeepsTasks
<1>6. QED
  BY <1>3, <1>4, <1>5 DEF PromptInv

LEMMA CrashIsPrompt ==
  ASSUME WInv, WInv', CallsInv', PromptInv, NEW w \in Worker, Crash(w)
  PROVE  PromptInv'
<1> DEFINE t == worker[w].turn
           c == worker[w].call
<1>1. /\ t \in Turns /\ (worker[w].pc \in InCall => c \in Calls)
      /\ posts \in [Turns -> [Calls -> 0..2]]
  BY DEF WInv, CallersOK, Memory, WorkerState, SoundMemory, Ledger
<1>2. UNCHANGED <<vars, op, context>> /\ Quit(w)
  BY DEF Crash
<1>3. \A u \in Turns, d \in Calls : Marked(u, d) \/ (Written(w, u, d) /\ op[u][d] # "none")
  <2>1. CASE UNCHANGED posts
    BY <1>2, <2>1 DEF Marked
  <2>2. CASE At(w, "posting") /\ posts' = Posted(w)
    <3>1. c \in Calls /\ op[t][c] \in Unresolved /\ posts[t][c] = 0 /\ InHand(w)
      BY <1>1, <2>2 DEF At, InCall, PromptInv, RowOK, InHand, InHandPcs
    <3>2. \A u \in Turns, d \in Calls : posts'[u][d] = IF u = t /\ d = c THEN 1 ELSE posts[u][d]
      BY <1>1, <2>2, <3>1 DEF Posted
    <3>3. QED
      BY <1>2, <3>1, <3>2 DEF Marked, Written, Unresolved
  <2>3. QED
    BY <2>1, <2>2 DEF Crash
<1>4. QED
  BY <1>2, <1>3, Moved, LeaveIsPrompt

\* A claim takes a task only from those that have lost their lease.
LEMMA ClaimIsPrompt ==
  ASSUME WInv, WInv', CallsInv, CallsInv', PromptInv, [Next]_vars,
         NEW w \in Worker, NEW t \in Turns, NEW k \in Token,
         ClaimTask(t, k, FALSE), worker' = Claimed(w, t, k), UNCHANGED callVars
  PROVE  PromptInv'
<1>1. /\ worker \in [Worker -> WorkerState]
      /\ \A v \in Worker : worker[v].turn \in Turns
      /\ state \in [Turns -> Active \cup {"absent", "done", "failed", "cancelled"}]
      /\ token \in [Turns -> Token \cup {NoToken}] /\ live \in [Turns -> BOOLEAN]
      /\ UNCHANGED <<op, context, posts>>
  BY DEF WInv, CallersOK, Memory, WorkerState, IInv, TypeOK, callVars
<1>2. /\ \A v \in Worker : v # w => worker'[v] = worker[v]
      /\ worker'[w].turn = t /\ worker'[w].token = k
      /\ worker'[w].pc \in {"fresh", "resume", "top"}
  BY <1>1 DEF Claimed, Idle
<1>3. Owns(w)'
  BY <1>1, <1>2 DEF Owns, LeaseHeld, ClaimTask, Ongoing
<1>4. ASSUME NEW v \in Worker, InHand(v)'
      PROVE  \/ Owns(v)'
             \/ /\ InHand(v) /\ worker'[v].turn = worker[v].turn
                /\ Owns(v) /\ status' \in Ongoing => Owns(v)'
  <2>1. CASE v = w
    BY <1>3, <2>1
  <2>2. CASE v # w
    <3>1. InHand(v) /\ worker'[v] = worker[v]
      BY <1>2, <1>4, <2>2 DEF InHand
    <3>2. ASSUME Owns(v), status' \in Ongoing PROVE Owns(v)'
      <4>1. LeaseHeld(worker[v].turn, worker[v].token)
        BY <3>2 DEF Owns
      <4>2. StillLeased(worker[v].turn, worker[v].token)
        BY <1>1, <3>2, <4>1, LeasesKept DEF WInv
      <4>3. QED
        BY <3>1, <3>2, <4>2 DEF Owns, LeaseHeld, StillLeased
    <3>3. QED
      BY <3>1, <3>2
  <2>3. QED
    BY <2>1, <2>2
<1>5. Undisturbed'
  BY <1>4, UndisturbedStep DEF CallsInv, PromptInv, WInv
<1>6. RowOK(w)'
  BY <1>2 DEF RowOK, Saw, At
<1>7. NothingLeftBehind'
  <2>1. \A u \in Turns : state'[u] = "done" => state[u] = "done"
    BY <1>1 DEF ClaimTask
  <2>2. QED
    BY <1>1, <2>1 DEF PromptInv, NothingLeftBehind
<1>8. QED
  BY <1>1, <1>2, <1>5, <1>6, <1>7, RowsHold DEF Marked

\* With prompt calls every step keeps the rows as the workers left them.
LEMMA StepIsPrompt ==
  ASSUME PromptCalls, WInv, WInv', CallsInv, CallsInv', PromptInv, [WorkersNext]_allVars
  PROVE  PromptInv'
<1>1. [Next]_vars
  BY StepKeeps
<1>2. 1 \in Turns /\ UNCHANGED allVars => UNCHANGED vars
  BY MaxTurnsAssumption DEF Turns, allVars
<1>3. CASE UNCHANGED allVars
  <2>1. UNCHANGED worker /\ UNCHANGED <<op, context, posts>> /\ UNCHANGED vars
    BY <1>3 DEF allVars, callVars
  <2>2. QED
    BY <1>1, <1>2, <2>1, AroundIsPrompt
<1>4. CASE Begun \/ Cancel \/ TimeIsUp \/ Repair
  <2>1. UNCHANGED worker /\ UNCHANGED <<op, context, posts>>
    BY <1>4 DEF Begun, Cancel, TimeIsUp, Repair, callVars
  <2>2. UNCHANGED vars \/ StartDiscovery \/ Dispatch \/ FinishDiscovery("human_cancelled", "cancelled")
    BY <1>4 DEF Begun, Cancel, TimeIsUp, Repair, Dispatch
  <2>3. QED
    BY <1>1, <1>2, <2>1, <2>2, AroundIsPrompt
<1>5. ASSUME NEW t \in Turns, Publish(t) \/ Lose(t) \/ Expire(t) PROVE PromptInv'
  <2>1. UNCHANGED worker /\ UNCHANGED <<op, context, posts>>
    BY <1>5 DEF Publish, Lose, Expire, callVars
  <2>2. UNCHANGED vars \/ Dispatch \/ Expire(t)
    BY <1>5 DEF Publish, Lose, Dispatch
  <2>3. QED
    BY <1>1, <2>1, <2>2, AroundIsPrompt
<1>6. ASSUME NEW w \in Worker, NEW t \in Turns, Deliver(w, t) PROVE PromptInv'
  <2>1. UNCHANGED callVars /\ UNCHANGED <<op, context, posts>>
    BY <1>6 DEF Deliver, callVars
  <2>2. CASE UNCHANGED <<vars, worker>>
    BY <1>1, <2>1, <2>2, AroundIsPrompt
  <2>3. ASSUME NEW k \in Token, ClaimTask(t, k, TRUE), UNCHANGED worker PROVE PromptInv'
    BY <1>1, <2>1, <2>3, AroundIsPrompt
  <2>4. ASSUME NEW k \in Token, ClaimTask(t, k, FALSE), worker' = Claimed(w, t, k) PROVE PromptInv'
    BY <1>1, <2>1, <2>4, ClaimIsPrompt
  <2>5. ASSUME NEW k \in Token, ClaimTask(t, k, Blocked(t))
        PROVE  IF Blocked(t) THEN ClaimTask(t, k, TRUE) ELSE ClaimTask(t, k, FALSE)
    BY <2>5 DEF ClaimTask
  <2>6. QED
    BY <1>6, <2>2, <2>3, <2>4, <2>5 DEF Deliver
<1>7. ASSUME NEW w \in Worker, Work(w) PROVE PromptInv'
  BY <1>1, <1>7, CursorIsPrompt, CallIsPrompt, AnswerIsPrompt, OtherWorkIsPrompt DEF Work
<1>8. QED
  BY <1>3, <1>4, <1>5, <1>6, <1>7, CrashIsPrompt DEF WorkersNext

LEMMA PromptInvariance == PromptCalls => (WorkersSpec => [](WInv /\ CallsInv /\ PromptInv))
<1>1. PromptCalls /\ WInv /\ CallsInv /\ PromptInv /\ [WorkersNext]_allVars
        => (WInv /\ CallsInv /\ PromptInv)'
  BY StepKeeps, StepKeepsCalls, StepIsPrompt
<1> SUFFICES ASSUME PromptCalls PROVE WorkersSpec => [](WInv /\ CallsInv /\ PromptInv)
  OBVIOUS
<1>2. WInv /\ CallsInv /\ PromptInv /\ [WorkersNext]_allVars => (WInv /\ CallsInv /\ PromptInv)'
  BY <1>1
<1>3. QED
  BY <1>2, InitWInv, InitCallsInv, InitPromptInv, PTL DEF WorkersSpec

\* If no lease runs out between its renewal and the end of the model call, no
\* call is submitted to the provider twice, however many workers die or are
\* redelivered to (runtime.py:88).
THEOREM CallsAreSubmittedOnce == PromptCalls => (WorkersSpec => []SubmittedOnce)
<1>1. PromptInv => SubmittedOnce
  BY DEF PromptInv
<1>2. QED
  BY <1>1, PromptInvariance, PTL

\* Then a turn is only completed, and a later call only begun, when the calls
\* before are completed.
THEOREM NoCallIsLeftBehind == PromptCalls => (WorkersSpec => []NothingLeftBehind)
<1>1. PromptInv => NothingLeftBehind
  BY DEF PromptInv
<1>2. QED
  BY <1>1, PromptInvariance, PTL

\* A completed row stays completed, with its answer.
AnswersKept ==
  \A t \in Turns, c \in Calls :
    op[t][c] = "completed" => op'[t][c] = "completed" /\ answer'[t][c] = answer[t][c]

LEMMA WorkKeepsAnswers ==
  ASSUME WInv, CallsInv, PromptInv, NEW w \in Worker, Work(w)
  PROVE  AnswersKept
<1> DEFINE t == worker[w].turn
           c == worker[w].call
<1>1. /\ t \in Turns /\ (worker[w].pc \in InCall => c \in Calls)
      /\ op \in [Turns -> [Calls -> OpStates]]
      /\ answer \in [Turns -> [Calls -> Responses]]
  BY DEF WInv, CallersOK, Memory, WorkerState, SoundMemory, Ledger
<1>2. CASE UNCHANGED <<op, answer>>
  BY <1>2 DEF AnswersKept
<1>3. CASE (FailsUnknown(w) \/ \E r : Fails(w, r)) /\ UNCHANGED answer
  BY <1>3, MarkedRows DEF AnswersKept
<1>4. ASSUME worker[w].pc = "top", Owns(w), c <= MaxCalls,
             op' = [op EXCEPT ![t][c] = "planned"], UNCHANGED answer
      PROVE  AnswersKept
  <2>1. c \in Calls
    BY <1>4, MaxCallsAssumption DEF WInv, CallersOK, Memory, WorkerState, SoundMemory, Calls
  <2>2. context[t].call = c /\ ~context[t].pending
    BY <1>4, OwnerAtCursor DEF Busy, At, AtCursor
  <2>3. op[t][c] = "none"
    BY <1>1, <2>1, <2>2 DEF CallsInv, CursorNamesCalls, Calls
  <2>4. QED
    BY <1>1, <1>4, <2>1, <2>3 DEF AnswersKept
<1>5. CASE MarkStarted(w)
  <2>1. c \in Calls /\ op[t][c] = "planned"
    BY <1>1, <1>5 DEF MarkStarted, Saw, At, InCall, PromptInv, RowOK
  <2>2. QED
    BY <1>1, <1>5, <2>1 DEF MarkStarted, AnswersKept
<1>6. CASE Post(w)
  <2>1. c \in Calls /\ op[t][c] \in Unresolved
    BY <1>1, <1>6 DEF Post, At, InCall, PromptInv, RowOK
  <2>2. CASE op' = [op EXCEPT ![t][c] = "pending"] /\ answer' = Responded(w, Batch)
    BY <1>1, <2>1, <2>2 DEF AnswersKept, Unresolved, Responded
  <2>3. ASSUME NEW S \in {{"started"}, {"started", "pending"}}, NEW s, UNCHANGED answer,
               op' = [op EXCEPT ![t] = [Unresolve(t, S) EXCEPT ![c] = s]]
        PROVE  AnswersKept
    BY <1>1, <2>1, <2>3 DEF AnswersKept, Unresolved, Unresolve
  <2>4. QED
    BY <1>6, <2>2, <2>3 DEF Post
<1>7. CASE worker[w].pc = "answered" /\ StoreAnswer(w, t, c) /\ op[t][c] # "completed"
  BY <1>1, <1>7 DEF StoreAnswer, Responded, InCall, AnswersKept
<1>8. CASE Begin(w)
  BY <1>2, <1>3, <1>4, <1>8 DEF Begin, LosesLease, HitsLimit, callVars, MayGoOn, At
<1>9. CASE Complete(w)
  BY <1>2, <1>3, <1>7, <1>9 DEF Complete, LosesLease, callVars, At
<1>10. CASE Poll(w)
  <2>1. c \in Calls /\ op[t][c] # "completed"
    BY <1>1, <1>10 DEF Poll, Saw, At, InCall, PromptInv, RowOK
  <2>2. \A u \in Turns, d \in Calls : op[u][d] = "completed" => answer'[u][d] = answer[u][d]
    <3>1. answer' = answer \/ answer' = Responded(w, worker[w].got)
      BY <1>10 DEF Poll
    <3>2. QED
      BY <1>1, <2>1, <3>1 DEF Responded
  <2>3. \A u \in Turns, d \in Calls : op[u][d] = "completed" => op'[u][d] = "completed"
    BY <1>10, MarkedRows DEF Poll
  <2>4. QED
    BY <2>2, <2>3 DEF AnswersKept
<1>14. CASE Reuse(w) \/ GiveUp(w)
  BY <1>2, <1>3, <1>14 DEF Reuse, GiveUp, callVars
<1>11. CASE Tools(w) \/ SubmitTurn(w)
  BY <1>2, <1>3, <1>11 DEF Tools, SubmitTurn, LosesLease, HitsLimit, callVars
<1>12. CASE \/ ReadMail(w) \/ SaveFirstContext(w) \/ Resume(w) \/ SaveNextContext(w)
            \/ Park(w) \/ Reschedule(w) \/ EndDiscovery(w)
  BY <1>2, <1>12 DEF ReadMail, SaveFirstContext, Resume, SaveNextContext, Park, Reschedule,
                     EndDiscovery, LosesLease, HitsLimit, callVars
<1>13. QED
  BY <1>5, <1>6, <1>8, <1>9, <1>10, <1>11, <1>12, <1>14 DEF Work

LEMMA StepKeepsAnswers ==
  ASSUME WInv, CallsInv, PromptInv, [WorkersNext]_allVars
  PROVE  AnswersKept
<1>1. CASE UNCHANGED <<op, answer>>
  BY <1>1 DEF AnswersKept
<1>2. CASE UNCHANGED allVars
  BY <1>1, <1>2 DEF allVars, callVars
<1>3. CASE \/ Begun \/ Cancel \/ TimeIsUp \/ Repair
           \/ \E t \in Turns : Publish(t) \/ Lose(t) \/ Expire(t)
           \/ \E w \in Worker : Crash(w) \/ \E t \in Turns : Deliver(w, t)
  BY <1>1, <1>3 DEF Begun, Cancel, TimeIsUp, Repair, Publish, Lose, Expire, Crash, Deliver, callVars
<1>4. QED
  BY <1>2, <1>3, WorkKeepsAnswers DEF WorkersNext

\* With prompt calls an answer that was stored and charged for is neither
\* dropped nor replaced, whoever is overtaken or dies.
THEOREM AnswersAreKept == PromptCalls => (WorkersSpec => AnswersStand)
<1>1. WInv /\ CallsInv /\ PromptInv /\ [WorkersNext]_allVars
        => [\A t \in Turns, c \in Calls :
              op[t][c] = "completed" => op'[t][c] = "completed" /\ answer'[t][c] = answer[t][c]]_allVars
  BY StepKeepsAnswers DEF AnswersKept
<1>2. QED
  BY <1>1, PromptInvariance, PTL DEF WorkersSpec, AnswersStand

-----------------------------------------------------------------------------
(* The turn on record                                                      *)

\* A worker that will act on an answer of a completed call has the one stored.
Gotten(w) ==
  LET t == worker[w].turn
      c == worker[w].call
  IN
  (\/ Saw(w, "completed")
   \/ At(w, "answered") /\ op[t][c] = "completed"
   \/ worker[w].pc \in {"tools", "submitting", "saving"}) => worker[w].got = answer[t][c]

AnsweredInv == TurnIsAnswered /\ \A w \in Worker : Gotten(w)

\* Only the worker that stores its answer completes a call.
LEMMA WhoCompletes ==
  ASSUME WInv, NEW w \in Worker, Work(w), NEW u \in Turns, NEW d \in Calls,
         op'[u][d] = "completed", op[u][d] # "completed"
  PROVE  /\ worker[w].pc = "answered" /\ worker[w].turn = u /\ worker[w].call = d
         /\ Complete(w)
<1> DEFINE t == worker[w].turn
           c == worker[w].call
<1>1. /\ t \in Turns /\ (worker[w].pc \in InCall => c \in Calls)
      /\ op \in [Turns -> [Calls -> OpStates]]
  BY DEF WInv, CallersOK, Memory, WorkerState, SoundMemory, Ledger
<1>2. ~UNCHANGED op
  OBVIOUS
<1>3. ~FailsUnknown(w) /\ ~\E r : Fails(w, r)
  BY MarkedRows
<1>4. ~Begin(w)
  <2>1. ASSUME op' = [op EXCEPT ![t][c] = "planned"] PROVE FALSE
    BY <1>1, <2>1
  <2>2. QED
    BY <1>2, <1>3, <2>1 DEF Begin, LosesLease, HitsLimit, callVars
<1>5. ~MarkStarted(w)
  <2>1. ASSUME op' = [op EXCEPT ![t][c] = "started"] PROVE FALSE
    BY <1>1, <2>1
  <2>2. QED
    BY <2>1 DEF MarkStarted
<1>6. ~Post(w)
  <2>1. ASSUME op' = [op EXCEPT ![t][c] = "pending"] PROVE FALSE
    BY <1>1, <2>1
  <2>2. ASSUME NEW S, NEW s \in {"failed", "unknown"},
               op' = [op EXCEPT ![t] = [Unresolve(t, S) EXCEPT ![c] = s]]
        PROVE  FALSE
    BY <1>1, <2>2 DEF Unresolve
  <2>3. QED
    BY <2>1, <2>2 DEF Post
<1>7. ~Poll(w) /\ ~Reuse(w) /\ ~GiveUp(w)
  BY <1>2, <1>3 DEF Poll, Reuse, GiveUp, callVars
<1>8. ~Tools(w) /\ ~SubmitTurn(w)
  BY <1>2, <1>3 DEF Tools, SubmitTurn, LosesLease, HitsLimit, callVars
<1>9. /\ ~ReadMail(w) /\ ~SaveFirstContext(w) /\ ~Resume(w) /\ ~SaveNextContext(w)
      /\ ~Park(w) /\ ~Reschedule(w) /\ ~EndDiscovery(w)
  BY <1>2 DEF ReadMail, SaveFirstContext, Resume, SaveNextContext, Park, Reschedule, EndDiscovery,
              LosesLease, HitsLimit, callVars
<1>10. Complete(w)
  BY <1>4, <1>5, <1>6, <1>7, <1>8, <1>9 DEF Work
<1>11. worker[w].pc = "answered" /\ op' = [op EXCEPT ![t][c] = "completed"]
  BY <1>2, <1>3, <1>10 DEF Complete, At, StoreAnswer, LosesLease, callVars
<1>12. QED
  BY <1>1, <1>10, <1>11


\* The worker that moves: what it has in hand is what its row holds.
LEMMA MoverGotten ==
  ASSUME WInv, WInv', CallsInv, PromptInv, AnsweredInv, NEW w \in Worker, Work(w)
  PROVE  Gotten(w)'
<1> DEFINE t == worker[w].turn
           c == worker[w].call
<1>1. /\ worker \in [Worker -> WorkerState] /\ worker[w] \in WorkerState /\ t \in Turns
      /\ worker[w].pc \in InCall => c \in Calls
      /\ answer \in [Turns -> [Calls -> Responses]]
      /\ op \in [Turns -> [Calls -> OpStates]]
  BY DEF WInv, CallersOK, Memory, WorkerState, SoundMemory, Ledger
<1>2. worker'[w].pc \notin {"calling", "answered", "tools", "submitting", "saving"} => Gotten(w)'
  BY DEF Gotten, Saw, At
<1>3. ASSUME NEW pc, Goto(w, pc)
      PROVE  /\ worker'[w].pc = pc /\ worker'[w].turn = t /\ worker'[w].call = c
             /\ worker'[w].got = worker[w].got /\ worker'[w].saw = "none"
  BY <1>1, <1>3 DEF Goto, WorkerState
<1>4. /\ (\E pc \in {"briefed", "parking", "parked", "posting"} : Goto(w, pc)) => Gotten(w)'
      /\ (\E why : Raise(w, "stopping", why) \/ Raise(w, "failing", why)) => Gotten(w)'
      /\ Quit(w) => Gotten(w)'
  BY <1>1, <1>2, <1>3 DEF Raise, Quit, Idle, WorkerState
<1>5. /\ LosesLease(w) \/ HitsLimit(w) \/ FailsUnknown(w) => Gotten(w)'
      /\ (\E r : Fails(w, r)) => Gotten(w)'
  BY <1>4 DEF LosesLease, HitsLimit, Fails, FailsUnknown
<1>6. ASSUME NEW pc \in {"tools", "submitting", "saving"}, Goto(w, pc), c \in Calls,
             worker[w].got = answer'[t][c]
      PROVE  Gotten(w)'
  BY <1>3, <1>6 DEF Gotten
<1>7. CASE SaveFirstContext(w) \/ SaveNextContext(w)
  <2>1. CASE worker' = [worker EXCEPT ![w].pc = "top", ![w].call = 1]
    BY <1>1, <1>2, <2>1 DEF WorkerState
  <2>2. CASE worker' = [worker EXCEPT ![w].pc = "top", ![w].call = c + 1, ![w].got = NoRevision]
    BY <1>1, <1>2, <2>2 DEF WorkerState
  <2>3. QED
    BY <1>5, <1>7, <2>1, <2>2 DEF SaveFirstContext, SaveNextContext
<1>8. CASE Begin(w)
  <2>1. CASE worker' = [worker EXCEPT ![w].pc = "calling", ![w].saw = "planned"]
    <3>1. worker'[w].pc = "calling" /\ worker'[w].saw = "planned"
      BY <1>1, <2>1 DEF WorkerState
    <3>2. QED
      BY <3>1 DEF Gotten, Saw, At
  <2>2. QED
    BY <1>4, <1>5, <1>8, <2>1 DEF Begin
<1>9. CASE Resume(w)
  <2>1. CASE worker' = [worker EXCEPT ![w].pc = "calling", ![w].saw = op[t][c], ![w].got = answer[t][c]]
             /\ UNCHANGED callVars
    <3>1. /\ worker'[w].got = answer[t][c] /\ worker'[w].turn = t /\ worker'[w].call = c
          /\ UNCHANGED answer
      BY <1>1, <2>1 DEF WorkerState, callVars
    <3>2. QED
      BY <3>1 DEF Gotten
  <2>2. QED
    BY <1>5, <1>9, <2>1 DEF Resume
<1>10. CASE Poll(w)
  <2>1. c \in Calls /\ op[t][c] # "completed"
    BY <1>1, <1>10 DEF Poll, Saw, At, InCall, PromptInv, RowOK
  <2>2. ASSUME NEW a, UNCHANGED op,
               worker' = [worker EXCEPT ![w].pc = "answered", ![w].saw = "none", ![w].got = a]
        PROVE  Gotten(w)'
    <3>1. worker'[w].pc = "answered" /\ worker'[w].turn = t /\ worker'[w].call = c
      BY <1>1, <2>2 DEF WorkerState
    <3>2. QED
      BY <2>1, <2>2, <3>1 DEF Gotten, Saw, At
  <2>3. QED
    BY <1>4, <1>5, <1>10, <2>2 DEF Poll
<1>11. CASE Reuse(w)
  <2>1. Goto(w, "answered") /\ UNCHANGED answer /\ worker[w].got = answer[t][c]
    BY <1>11 DEF Reuse, callVars, AnsweredInv, Gotten
  <2>2. QED
    BY <1>3, <2>1 DEF Gotten
<1>12. CASE Complete(w)
  <2>1. worker[w].pc = "answered" /\ c \in Calls
    BY <1>1, <1>12 DEF Complete, At, InCall
  <2>2. CASE Goto(w, "tools") /\ op[t][c] = "completed" /\ UNCHANGED answer
    BY <1>6, <2>1, <2>2 DEF AnsweredInv, Gotten, At
  <2>3. CASE Goto(w, "tools") /\ StoreAnswer(w, t, c)
    <3>1. answer'[t][c] = worker[w].got
      BY <1>1, <2>1, <2>3 DEF StoreAnswer, Responded
    <3>2. QED
      BY <1>6, <2>1, <2>3, <3>1
  <2>4. QED
    BY <1>4, <1>5, <1>12, <2>2, <2>3 DEF Complete
<1>13. CASE Tools(w)
  <2>1. worker[w].got = answer[t][c] /\ c \in Calls
    BY <1>1, <1>13 DEF Tools, At, InCall, AnsweredInv, Gotten
  <2>2. ASSUME NEW pc \in {"saving", "submitting"}, Goto(w, pc), UNCHANGED callVars
        PROVE  Gotten(w)'
    BY <1>6, <2>1, <2>2 DEF callVars
  <2>3. QED
    BY <1>4, <1>5, <1>13, <2>2 DEF Tools
<1>14. CASE SubmitTurn(w)
  <2>1. worker[w].got = answer[t][c] /\ c \in Calls /\ UNCHANGED answer
    BY <1>1, <1>14 DEF SubmitTurn, At, InCall, AnsweredInv, Gotten
  <2>2. QED
    BY <1>4, <1>5, <1>6, <1>14, <2>1 DEF SubmitTurn
<1>15. CASE ReadMail(w) \/ MarkStarted(w) \/ Post(w) \/ GiveUp(w)
  BY <1>4, <1>5, <1>15 DEF ReadMail, MarkStarted, Post, GiveUp
<1>16. CASE Park(w) \/ Reschedule(w) \/ EndDiscovery(w)
  BY <1>4, <1>5, <1>16 DEF Park, Reschedule, EndDiscovery
<1>17. QED
  BY <1>7, <1>8, <1>9, <1>10, <1>11, <1>12, <1>13, <1>14, <1>15, <1>16 DEF Work

\* A worker that stays where it is: its row, if completed, stays as it is.
LEMMA OtherGotten ==
  ASSUME WInv, PromptInv, AnsweredInv, AnswersKept, NEW v \in Worker, worker'[v] = worker[v],
         \A u \in Turns, d \in Calls : op'[u][d] = "completed" /\ op[u][d] # "completed" =>
           \E w \in Worker : w # v /\ worker[w].pc = "answered" /\ worker[w].turn = u
  PROVE  Gotten(v)'
<1> DEFINE t == worker[v].turn
           c == worker[v].call
<1>1. t \in Turns /\ (worker[v].pc \in InCall => c \in Calls)
  BY DEF WInv, CallersOK, Memory, WorkerState, SoundMemory
<1>2. CASE Saw(v, "completed") \/ worker[v].pc \in {"tools", "submitting", "saving"}
  <2>1. c \in Calls /\ op[t][c] = "completed" /\ worker[v].got = answer[t][c]
    BY <1>1, <1>2 DEF Saw, At, InCall, PromptInv, RowOK, AnsweredInv, Gotten
  <2>2. QED
    BY <1>1, <2>1 DEF Gotten, AnswersKept
<1>3. CASE At(v, "answered")
  <2>1. c \in Calls
    BY <1>1, <1>3 DEF At, InCall
  <2>2. op'[t][c] = "completed" => op[t][c] = "completed"
    BY <1>1, <1>3, <2>1 DEF PromptInv, Undisturbed, InHand, InHandPcs, At
  <2>3. QED
    BY <1>1, <1>3, <2>1, <2>2 DEF AnsweredInv, Gotten, AnswersKept, Saw, At
<1>4. QED
  BY <1>2, <1>3 DEF Gotten, Saw, At

\* A turn that is done was so, with the same revision and cursor, or the worker
\* that owns it commits what it has.
Recorded(t) ==
  \/ state[t] = "done" /\ revision'[t] = revision[t] /\ context'[t] = context[t]
  \/ \E w \in Worker :
       /\ worker[w].pc = "submitting" /\ worker[w].turn = t /\ Owns(w)
       /\ revision'[t] = worker[w].got /\ UNCHANGED <<context, answer>>

LEMMA OthersRecord ==
  ASSUME KeepsTasks, UNCHANGED context, NEW t \in Turns, state'[t] = "done"
  PROVE  Recorded(t)
BY DEF KeepsTasks, Recorded

LEMMA SavesRecord ==
  ASSUME WInv, NEW w \in Worker, Owns(w), UNCHANGED vars, NEW call, NEW pending,
         SaveContext(w, call, pending), NEW t \in Turns, state'[t] = "done"
  PROVE  Recorded(t)
<1>1. state'[t] = state[t] /\ revision'[t] = revision[t] /\ t # worker[w].turn
  BY DEF vars, taskVars, Owns, LeaseHeld
<1>2. context'[t] = context[t]
  BY <1>1 DEF SaveContext, WInv, CallersOK, Ledger, Memory, WorkerState
<1>3. QED
  BY <1>1, <1>2 DEF Recorded

LEMMA WorkRecords ==
  ASSUME WInv, NEW w \in Worker, Work(w), NEW t \in Turns, state'[t] = "done"
  PROVE  Recorded(t)
<1>1. UNCHANGED vars => KeepsTasks
  BY StoreKeepsTasks DEF WInv
<1>2. CASE UNCHANGED <<vars, context>>
  BY <1>1, <1>2, OthersRecord
<1>3. CASE ReadMail(w) \/ EndDiscovery(w)
  <2>1. KeepsTasks
    BY <1>1, <1>3, StoreKeepsTasks DEF ReadMail, EndDiscovery, WInv
  <2>2. QED
    BY <1>3, <2>1, OthersRecord DEF ReadMail, EndDiscovery, callVars
<1>4. CASE LosesLease(w) \/ HitsLimit(w)
  BY <1>2, <1>4 DEF LosesLease, HitsLimit, callVars
<1>5. CASE SaveFirstContext(w) \/ SaveNextContext(w)
  BY <1>4, <1>5, SavesRecord DEF SaveFirstContext, SaveNextContext
<1>6. CASE Begin(w)
  BY <1>2, <1>4, <1>6, SavesRecord DEF Begin, MayGoOn
<1>7. CASE SubmitTurn(w)
  <2>1. CASE UNCHANGED vars
    BY <1>2, <1>7, <2>1 DEF SubmitTurn
  <2>2. CASE CommitTurn(worker[w].turn, worker[w].token, worker[w].got, Exhausted)
    <3>1. worker[w].pc = "submitting" /\ UNCHANGED <<context, answer>> /\ Owns(w)
          /\ worker[w].turn \in Turns
      BY <1>7, <2>2 DEF SubmitTurn, At, CommitTurn, Owns, WInv, CallersOK, Memory, WorkerState
    <3>2. CASE Exhausted \in LimitReasons
      <4>1. KeepsTasks
        BY <2>2, <3>2, EndingKeepsTasks DEF CommitTurn, WInv, LimitReasons
      <4>2. QED
        BY <3>1, <4>1, OthersRecord
    <3>3. CASE Exhausted = "none"
      BY <2>2, <3>1, <3>3, RecordedTasks DEF CommitTurn, WInv, LimitReasons, Recorded
    <3>4. QED
      BY <3>2, <3>3 DEF Exhausted, LimitReasons
  <2>3. QED
    BY <1>7, <2>1, <2>2 DEF SubmitTurn
<1>8. CASE Park(w)
  <2>1. CASE ReleaseTask(worker[w].turn, worker[w].token) /\ UNCHANGED callVars
    <3>1. KeepsTasks
      BY <2>1, StoreKeepsTasks DEF WInv, CallersOK, Memory, WorkerState
    <3>2. QED
      BY <2>1, <3>1, OthersRecord DEF callVars
  <2>2. QED
    BY <1>4, <1>8, <2>1 DEF Park
<1>9. CASE Resume(w) \/ Complete(w) \/ Tools(w)
  BY <1>2, <1>4, <1>9 DEF Resume, Complete, Tools, callVars
<1>10. CASE MarkStarted(w) \/ Post(w) \/ Poll(w) \/ Reuse(w) \/ GiveUp(w) \/ Reschedule(w)
  BY <1>2, <1>10 DEF MarkStarted, Post, Poll, Reuse, GiveUp, Reschedule, callVars
<1>11. QED
  BY <1>3, <1>5, <1>6, <1>7, <1>8, <1>9, <1>10 DEF Work

LEMMA StepRecords ==
  ASSUME WInv, WorkersNext, NEW t \in Turns, state'[t] = "done"
  PROVE  Recorded(t)
<1>1. CASE Begun \/ Cancel \/ TimeIsUp \/ Repair
  <2>1. KeepsTasks
    BY <1>1, StoreKeepsTasks DEF Begun, Cancel, TimeIsUp, Repair, Dispatch, WInv
  <2>2. QED
    BY <1>1, <2>1, OthersRecord DEF Begun, Cancel, TimeIsUp, Repair, callVars
<1>2. ASSUME NEW u \in Turns, Publish(u) \/ Lose(u) \/ Expire(u) PROVE Recorded(t)
  <2>1. KeepsTasks
    BY <1>2, StoreKeepsTasks DEF Publish, Lose, Expire, Dispatch, WInv
  <2>2. QED
    BY <1>2, <2>1, OthersRecord DEF Publish, Lose, Expire, callVars
<1>3. ASSUME NEW w \in Worker, Crash(w) PROVE Recorded(t)
  <2>1. KeepsTasks
    BY <1>3, StoreKeepsTasks DEF Crash, WInv
  <2>2. QED
    BY <1>3, <2>1, OthersRecord DEF Crash
<1>4. ASSUME NEW w \in Worker, NEW u \in Turns, Deliver(w, u) PROVE Recorded(t)
  <2>1. UNCHANGED context
    BY <1>4 DEF Deliver, callVars
  <2>2. CASE UNCHANGED vars
    <3>1. KeepsTasks
      BY <2>2, StoreKeepsTasks DEF WInv
    <3>2. QED
      BY <2>1, <3>1, OthersRecord
  <2>3. ASSUME NEW k \in Token, ClaimTask(u, k, TRUE) PROVE Recorded(t)
    <3>1. KeepsTasks
      BY <2>3, StoreKeepsTasks DEF WInv
    <3>2. QED
      BY <2>1, <3>1, OthersRecord
  <2>4. ASSUME NEW k \in Token, ClaimTask(u, k, FALSE) PROVE Recorded(t)
    <3>1. state[t] = "done" /\ UNCHANGED revision
      BY <2>4 DEF ClaimTask, WInv, IInv, TypeOK
    <3>2. QED
      BY <2>1, <3>1 DEF Recorded
  <2>5. ASSUME NEW k \in Token, ClaimTask(u, k, Blocked(u))
        PROVE  ClaimTask(u, k, TRUE) \/ ClaimTask(u, k, FALSE)
    BY <2>5 DEF ClaimTask
  <2>6. QED
    BY <1>4, <2>2, <2>3, <2>4, <2>5 DEF Deliver
<1>5. QED
  BY <1>1, <1>2, <1>3, <1>4, WorkRecords DEF WorkersNext

LEMMA StepIsAnswered ==
  ASSUME WInv, WInv', CallsInv, PromptInv, AnsweredInv, [WorkersNext]_allVars
  PROVE  AnsweredInv'
<1>1. AnswersKept
  BY StepKeepsAnswers
<1>2. CASE UNCHANGED allVars
  BY <1>2 DEF allVars, vars, taskVars, callVars, AnsweredInv, TurnIsAnswered, Gotten, Saw, At
<1>3. CASE WorkersNext
  <2>1. TurnIsAnswered'
    <3> SUFFICES ASSUME NEW t \in Turns, state'[t] = "done"
                 PROVE  context'[t].pending /\ revision'[t] = answer'[t][context'[t].call]
      BY DEF TurnIsAnswered
    <3>1. Recorded(t)
      BY <1>3, StepRecords
    <3>2. CASE state[t] = "done" /\ revision'[t] = revision[t] /\ context'[t] = context[t]
      <4>1. context[t].pending /\ revision[t] = answer[t][context[t].call]
        BY <3>2 DEF AnsweredInv, TurnIsAnswered
      <4>2. context[t].call \in Calls
        BY <4>1 DEF WInv, CallersOK, Ledger
      <4>3. op[t][context[t].call] = "completed"
        BY <3>2, <4>1, <4>2 DEF CallsInv, CursorNamesCalls, PromptInv, NothingLeftBehind
      <4>4. QED
        BY <1>1, <3>2, <4>1, <4>2, <4>3 DEF AnswersKept
    <3>3. ASSUME NEW w \in Worker, worker[w].pc = "submitting", worker[w].turn = t, Owns(w),
                 revision'[t] = worker[w].got, UNCHANGED <<context, answer>>
          PROVE  context'[t].pending /\ revision'[t] = answer'[t][context'[t].call]
      <4>1. AtCursor(w)
        BY <3>3, OwnerAtCursor DEF Busy, At
      <4>2. context[t].call = worker[w].call /\ context[t].pending
        BY <3>3, <4>1 DEF AtCursor, InCall
      <4>3. worker[w].got = answer[t][worker[w].call]
        BY <3>3 DEF AnsweredInv, Gotten
      <4>4. QED
        BY <3>3, <4>2, <4>3
    <3>4. QED
      BY <3>1, <3>2, <3>3 DEF Recorded
  <2>2. \A v \in Worker : Gotten(v)'
    <3>1. ASSUME NEW w \in Worker, Work(w), NEW v \in Worker PROVE Gotten(v)'
      <4>1. CASE v = w
        BY <3>1, <4>1, MoverGotten
      <4>2. CASE v # w
        <5>1. worker'[v] = worker[v]
          BY <3>1, <4>2, WorkRecalls
        <5>2. \A u \in Turns, d \in Calls : op'[u][d] = "completed" /\ op[u][d] # "completed" =>
                w # v /\ worker[w].pc = "answered" /\ worker[w].turn = u
          BY <3>1, <4>2, WhoCompletes
        <5>3. QED
          BY <1>1, <5>1, <5>2, OtherGotten
      <4>3. QED
        BY <4>1, <4>2
    <3>2. ASSUME UNCHANGED <<op, answer>>, NEW v \in Worker, worker'[v] = worker[v] PROVE Gotten(v)'
      BY <3>2 DEF AnsweredInv, Gotten, Saw, At
    <3>3. CASE \/ Begun \/ Cancel \/ TimeIsUp \/ Repair
               \/ \E t \in Turns : Publish(t) \/ Lose(t) \/ Expire(t)
      BY <3>2, <3>3 DEF Begun, Cancel, TimeIsUp, Repair, Publish, Lose, Expire, callVars
    <3>4. ASSUME NEW w \in Worker, Crash(w), NEW v \in Worker PROVE Gotten(v)'
      <4>1. UNCHANGED <<op, answer>> /\ (v # w => worker'[v] = worker[v]) /\ worker'[w] = Idle
        BY <3>4 DEF Crash, Quit, WInv, CallersOK, Memory
      <4>2. CASE v = w
        BY <4>1, <4>2 DEF Gotten, Saw, At, Idle
      <4>3. QED
        BY <3>2, <4>1, <4>2
    <3>5. ASSUME NEW w \in Worker, NEW t \in Turns, Deliver(w, t), NEW v \in Worker PROVE Gotten(v)'
      <4>1. UNCHANGED <<op, answer>>
        BY <3>5 DEF Deliver, callVars
      <4>2. CASE worker'[v] = worker[v]
        BY <3>2, <4>1, <4>2
      <4>3. ASSUME NEW k \in Token, worker' = Claimed(w, t, k), v = w
            PROVE  Gotten(v)'
        <5>1. worker'[v].pc \in {"fresh", "resume", "top"}
          BY <4>3 DEF Claimed, Idle, WInv, CallersOK, Memory
        <5>2. QED
          BY <5>1 DEF Gotten, Saw, At
      <4>4. \A k \in Token : worker' = Claimed(w, t, k) /\ v # w => worker'[v] = worker[v]
        BY DEF Claimed, WInv, CallersOK, Memory
      <4>5. QED
        BY <3>5, <4>2, <4>3, <4>4 DEF Deliver
    <3>6. QED
      BY <1>3, <3>1, <3>3, <3>4, <3>5 DEF WorkersNext
  <2>3. QED
    BY <2>1, <2>2 DEF AnsweredInv
<1>4. QED
  BY <1>2, <1>3

\* With prompt calls the turn on record is the answer to its last call, whoever
\* was overtaken or died: the responses that polls and posts save from memory
\* never take the place of an answer.
THEOREM TurnsAreAnswered == PromptCalls => (WorkersSpec => []TurnIsAnswered)
<1> SUFFICES ASSUME PromptCalls PROVE WorkersSpec => []TurnIsAnswered
  OBVIOUS
<1>1. WorkersInit => AnsweredInv
  BY DEF WorkersInit, Idle, Init, AnsweredInv, TurnIsAnswered, Gotten, Saw, At
<1>2. WInv /\ CallsInv /\ PromptInv /\ WInv' /\ AnsweredInv /\ [WorkersNext]_allVars => AnsweredInv'
  BY StepIsAnswered
<1>3. AnsweredInv => TurnIsAnswered
  BY DEF AnsweredInv
<1>4. WorkersSpec => [](WInv /\ CallsInv /\ PromptInv)
  BY PromptInvariance
<1>5. QED
  BY <1>1, <1>2, <1>3, <1>4, PTL DEF WorkersSpec
=============================================================================
