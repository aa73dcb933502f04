----------------------------- MODULE ClaudeWake -----------------------------
(***************************************************************************)
(* One turn of a discovery under the Claude Code runtime, and the ledger   *)
(* of its paid operations.                                                 *)
(*                                                                         *)
(* An attempt at the turn (a worker that claims its task) opens a wake in  *)
(* the ledger, launches Claude Code and supervises it.  Two more threads   *)
(* of the attempt serve the process: the gateway, which admits, forwards   *)
(* and settles each model request, and the bridge, which answers its tool  *)
(* calls, research and the submission of the brief.  They share the task   *)
(* row (lease, context), the discovery's cost and the ledger with each     *)
(* other and with the attempts before and after them, and outlive the      *)
(* process for as long as a request takes.                                 *)
(*                                                                         *)
(* Abstractions: money is counted in small units, and what a provider has  *)
(* charged is known to the model from the moment the request is sent.  A   *)
(* worker that dies is one that takes no further step: no step is forced.  *)
(* The brief is valid; that it is mailed to the next role is               *)
(* DiscoveryStore's subject.  No recovery token is set: no code of the     *)
(* repository sets one.                                                    *)
(***************************************************************************)
EXTENDS Integers, FiniteSets, FiniteSetsExt

CONSTANTS
  MaxAttempts, \* bound of the model: claims of the task
  Request,     \* ids of the research calls
  Bound,       \* the cost upper bound of the connector each of them names
  Price,       \* what a model request may be reserved at
  MaxCost,     \* config.max_cost_usd
  MaxModel,    \* config.max_model_calls_per_turn
  MaxResearch, \* config.max_research_calls_per_turn
  PromptLaunch, \* no process works before its supervisor has checked on it
  MaxOverruns  \* bound of the model: charges above their reservation

ASSUME RequestAssumption == IsFiniteSet(Request)
ASSUME BoundAssumption == Bound \in [Request -> Nat] /\ Price \subseteq Nat \ {0}
ASSUME LimitsAssumption == {MaxAttempts, MaxCost, MaxModel, MaxResearch, MaxOverruns} \subseteq Nat

VARIABLES
  provider,  \* runtime_snapshot's provider: what pays for the wake
  ended,     \* the discovery's status is terminal
  late,      \* the discovery has run for max_duration_s
  costUsed,  \* Discovery.cost_used_usd
  task,      \* DiscoveryTask.state
  lease,     \* the attempt whose lease_token the task holds (0: none)
  live,      \* lease_expires_at is in the future
  submitted, \* context["claude_submission"] is there
  ops,       \* the ResearchOperation rows of the turn
  charge,    \* what the provider has charged for each
  pc,        \* where each attempt's supervisor is
  gate,      \* the gateway thread of each attempt
  bridge,    \* its bridge thread
  launched   \* the attempts whose process has worked

row    == <<task, lease, live, submitted>>
ledger == <<ops, charge, costUsed>>
vars   == <<provider, ended, late, costUsed, task, lease, live, submitted, ops, charge, pc, gate,
            bridge, launched>>

Attempt == 1..MaxAttempts

Model == {<<"model", n>> : n \in 1..MaxModel}
Read  == {<<"research", r>> : r \in Request}
Wake  == <<"wake">>
Ops   == {Wake} \cup Model \cup Read

Providers  == {"openrouter", "anthropic", "ollama"}
Unresolved == {"started", "unknown"}
OpStates   == {"none", "planned", "failed", "completed"} \cup Unresolved
\* An unknown outcome is an error like any other: no call is ever pending here.
Failures   == {"", "lost", "stop", "error"}
Pcs        == {"idle", "open", "start", "save", "launch", "check", "watch", "settle", "commit",
               "mark", "end", "over"}

\* A row that is not there; "denied" marks a call no source was asked for.
NoOp == [state |-> "none", reserved |-> 0, cost |-> 0, denied |-> FALSE]
\* A thread at rest, with the operation it works on and the failure it recorded.
Rest == [at |-> "rest", op |-> Wake, failure |-> ""]

Init ==
  /\ provider \in Providers
  /\ ended = FALSE
  /\ late = FALSE
  /\ costUsed = 0
  /\ task = "open"
  /\ lease = 0
  /\ live = FALSE
  /\ submitted = FALSE
  /\ ops = [o \in Ops |-> NoOp]
  /\ charge = [o \in Ops |-> 0]
  /\ pc = [a \in Attempt |-> "idle"]
  /\ gate = [a \in Attempt |-> Rest]
  /\ bridge = [a \in Attempt |-> Rest]
  /\ launched = {}

Is(o, states) == ops[o].state \in states
SetState(o, state) == ops' = [ops EXCEPT ![o].state = state]

-----------------------------------------------------------------------------
(* The ledger                                                              *)

Leased(a) == task = "working" /\ lease = a /\ live /\ ~ended

\* check_limits: what it raises, if anything.
Limit(a) ==
  IF ~Leased(a) THEN "lost"
  ELSE IF late \/ costUsed >= MaxCost THEN "stop" ELSE ""

\* Variant: unresolved calls are not held.
HeldUnlessUnknown ==
  SumFunctionOnSet([o \in Ops |-> ops[o].reserved], {o \in Ops : Is(o, {"planned", "started"})})

\* The reservations of calls that are neither completed nor known to be free.
Held == SumFunctionOnSet([o \in Ops |-> ops[o].reserved],
                         {o \in Ops : ~Is(o, {"none", "completed", "failed"})})

Fits(amount) == costUsed + Held + amount <= MaxCost

\* research_calls_used
Asked == {o \in Read : ~Is(o, {"none"}) /\ ~ops[o].denied}

\* begin_operation adds a row.
Begun(o, amount) == ops' = [ops EXCEPT ![o] = [NoOp EXCEPT !.state = "planned", !.reserved = amount]]

\* complete_operation: a completed call stays as it is.
Completed(o, amount) ==
  IF Is(o, {"completed"}) THEN UNCHANGED <<ops, costUsed>>
  ELSE /\ ops' = [ops EXCEPT ![o].state = "completed", ![o].cost = amount]
       /\ costUsed' = costUsed + amount

Overruns == {o \in Ops : charge[o] > ops[o].reserved}

\* What a provider may charge for a call: up to its reservation, or above it.
\* A read without a bound is free.
Charges(o) ==
  0..ops[o].reserved \cup
  (IF Cardinality(Overruns) < MaxOverruns /\ (o \in Read => ops[o].reserved > 0)
   THEN {ops[o].reserved + 1} ELSE {})

\* The request is sent: the row says so, and the provider charges for it.
Sent(o) ==
  /\ SetState(o, "started")
  /\ \E c \in Charges(o) : charge' = [charge EXCEPT ![o] = c]

-----------------------------------------------------------------------------
(* Attempts                                                                *)

Goto(a, place) == pc' = [pc EXCEPT ![a] = place]

\* run_task's handlers: a lost lease is left to its owner, a stop ends the
\* discovery, anything else first marks the calls in flight.
Raise(a, failure) ==
  Goto(a, CASE failure = "lost" -> "over" [] failure = "stop" -> "end" [] OTHER -> "mark")

\* finish_discovery; a task's "failed" stands for "cancelled" too.
Finish ==
  /\ ended' = TRUE
  /\ IF ended THEN UNCHANGED <<task, lease, live>>
     ELSE /\ task' = IF task \in {"open", "working"} THEN "failed" ELSE task
          /\ lease' = IF task = "working" THEN 0 ELSE lease
          /\ live' = IF task = "working" THEN FALSE ELSE live

BilledUnresolved ==
  \E o \in Ops : Is(o, Unresolved) /\ ~(o \in Read /\ ops[o].reserved = 0)

Repeatable == {o \in Read : ops[o].reserved = 0}

\* claim_task: the first attempt, or the next after the lease has expired.
Claim(a) ==
  /\ pc[a] = "idle"
  /\ \A b \in Attempt : b < a => pc[b] # "idle"
  /\ ~ended
  /\ task = "open" \/ (task = "working" /\ ~live)
  /\ \/ /\ BilledUnresolved
        /\ Finish
        /\ Goto(a, "over")
        /\ UNCHANGED <<submitted, ledger>>
     \/ /\ ~BilledUnresolved
        /\ ops' = [o \in Ops |->
                     IF o \in Repeatable /\ Is(o, Unresolved)
                     THEN [ops[o] EXCEPT !.state = "planned"] ELSE ops[o]]
        /\ task' = "working"
        /\ lease' = a
        /\ live' = TRUE
        /\ Goto(a, "open")
        /\ UNCHANGED <<submitted, ended, charge, costUsed>>
  /\ UNCHANGED <<provider, late, gate, bridge, launched>>

ResearchHold == Max({0} \cup {Bound[r] : r \in Request}) * MaxResearch

ModelBudget == MaxCost - costUsed - ResearchHold

WakeReserve == IF provider = "openrouter" THEN 0 ELSE ModelBudget

\* The wake's row is opened, or found as an earlier attempt left it.
Open(a) ==
  /\ pc[a] = "open"
  /\ \/ /\ ModelBudget <= 0
        /\ Raise(a, "stop")
        /\ UNCHANGED ops
     \/ /\ ModelBudget > 0
        /\ Limit(a) # ""
        /\ Raise(a, Limit(a))
        /\ UNCHANGED ops
     \/ /\ ModelBudget > 0
        /\ Limit(a) = ""
        /\ ~Is(Wake, {"none"})
        /\ IF Is(Wake, {"planned"}) THEN Goto(a, "start") ELSE Raise(a, "error")
        /\ UNCHANGED ops
     \/ /\ ModelBudget > 0
        /\ Limit(a) = ""
        /\ Is(Wake, {"none"})
        /\ IF Fits(WakeReserve)
           THEN Begun(Wake, WakeReserve) /\ Goto(a, "start")
           ELSE Raise(a, "stop") /\ UNCHANGED ops
  /\ UNCHANGED <<provider, ended, late, row, charge, costUsed, gate, bridge, launched>>

\* The wake is saved as started, by an attempt that may have lost its lease.
Start(a) ==
  /\ pc[a] = "start"
  /\ SetState(Wake, "started")
  /\ Goto(a, "save")
  /\ UNCHANGED <<provider, ended, late, row, charge, costUsed, gate, bridge, launched>>

\* build_launch raises: a file cannot be written.
NotPrepared(a) ==
  /\ pc[a] = "save"
  /\ Raise(a, "error")
  /\ UNCHANGED <<provider, ended, late, row, ledger, gate, bridge, launched>>

\* The launch is prepared and the context saved from the copy in memory, which
\* holds no submission: an attempt that read one never comes here.
Save(a) ==
  /\ pc[a] = "save"
  /\ submitted' = FALSE
  /\ Goto(a, "launch")
  /\ UNCHANGED <<provider, ended, late, task, lease, live, ledger, gate, bridge, launched>>

\* The process gets to work; without the gateway it is paid for as a whole.
Works(a) ==
  /\ launched' = launched \cup {a}
  /\ IF provider = "openrouter" THEN UNCHANGED charge
     ELSE \E c \in Charges(Wake) : charge' = [charge EXCEPT ![Wake] = @ + c]

\* The process is started, or cannot be.  It may work from here on, unless
\* launches are prompt.
Launch(a) ==
  /\ pc[a] = "launch"
  /\ \/ Raise(a, "error") /\ UNCHANGED <<charge, launched>>
     \/ /\ Goto(a, "check")
        /\ IF PromptLaunch THEN UNCHANGED <<charge, launched>> ELSE Works(a)
  /\ UNCHANGED <<provider, ended, late, row, ops, costUsed, gate, bridge>>

\* Variant: the process is left to run whatever the first check says.
NoFirstCheck(a) == ""

FirstCheck(a) == Limit(a)

\* The supervisor's first look at the process.
Check(a) ==
  /\ pc[a] = "check"
  /\ IF FirstCheck(a) # ""
     THEN Raise(a, FirstCheck(a)) /\ UNCHANGED <<charge, launched>>
     ELSE /\ Goto(a, "watch")
          /\ IF PromptLaunch THEN Works(a) ELSE UNCHANGED <<charge, launched>>
  /\ UNCHANGED <<provider, ended, late, row, ops, costUsed, gate, bridge>>

\* The process can use the gateway and the bridge.
Running(a) == pc[a] = "watch" \/ (pc[a] = "check" /\ ~PromptLaunch)

Failed(a) == {gate[a].failure, bridge[a].failure} \ {""}

\* The supervisor finds its lease or a limit gone, or a failure of a thread,
\* and stops the process.
Supervise(a) ==
  /\ pc[a] = "watch"
  /\ \E failure \in ({Limit(a)} \ {""}) \cup Failed(a) : Raise(a, failure)
  /\ UNCHANGED <<provider, ended, late, row, ledger, gate, bridge, launched>>

\* The process ends, well or badly.
Exit(a) ==
  /\ Running(a)
  /\ Failed(a) = {}
  /\ Goto(a, "settle") \/ Raise(a, "error")
  /\ UNCHANGED <<provider, ended, late, row, ledger, gate, bridge, launched>>

\* The brief is read back, the wake's cost is recorded, and the turn goes on
\* if there is a brief.
Settle(a) ==
  /\ pc[a] = "settle"
  /\ \/ /\ provider # "openrouter"
        /\ Raise(a, "error")
        /\ UNCHANGED <<ops, costUsed>>
     \/ /\ ~Leased(a)
        /\ Raise(a, "lost")
        /\ UNCHANGED <<ops, costUsed>>
     \/ /\ Leased(a)
        /\ Completed(Wake, charge[Wake])
        /\ IF submitted /\ (Wake \in Overruns => provider = "ollama")
           THEN Goto(a, "commit") ELSE Raise(a, "stop")
  /\ UNCHANGED <<provider, ended, late, row, charge, gate, bridge, launched>>

\* commit_turn
Commit(a) ==
  /\ pc[a] = "commit"
  /\ \/ /\ Limit(a) = "lost"
        /\ UNCHANGED <<ended, task, lease, live>>
     \/ /\ Limit(a) = "stop"
        /\ Finish
     \/ /\ Limit(a) = ""
        /\ task' = "done"
        /\ lease' = 0
        /\ live' = FALSE
        /\ UNCHANGED ended
  /\ Goto(a, "over")
  /\ UNCHANGED <<provider, late, submitted, ledger, gate, bridge, launched>>

\* A failed attempt marks the calls in flight as unknown, ...
Mark(a) ==
  /\ pc[a] = "mark"
  /\ ops' = [o \in Ops |-> IF Is(o, {"started"}) THEN [ops[o] EXCEPT !.state = "unknown"] ELSE ops[o]]
  /\ Goto(a, "end")
  /\ UNCHANGED <<provider, ended, late, row, charge, costUsed, gate, bridge, launched>>

\* ... and ends the discovery.
End(a) ==
  /\ pc[a] = "end"
  /\ Finish
  /\ Goto(a, "over")
  /\ UNCHANGED <<provider, late, submitted, ledger, gate, bridge, launched>>

-----------------------------------------------------------------------------
(* The gateway: one model request at a time                                *)

GateAt(a, place) == gate[a].at = place
GateTo(a, place, o) == gate' = [gate EXCEPT ![a].at = place, ![a].op = o]
GateFails(a, failure) == gate' = [gate EXCEPT ![a] = [Rest EXCEPT !.failure = failure]]

\* do_POST: while the gateway is open and has seen no failure, requests of its
\* wake go through one by one; any other is refused and changes nothing.
GateOpen(a) == Running(a) /\ gate[a] = Rest

\* before_call, up to begin_operation: the index counts the calls of the task.
\* A request that shows no discovery tool is a failure.
Admit(a) ==
  LET used == Cardinality({o \in Model : ~Is(o, {"none"})})
      next == <<"model", used + 1>>
  IN /\ provider = "openrouter"
     /\ GateOpen(a)
     /\ \E price \in Price :
          \/ /\ GateFails(a, "error")
             /\ UNCHANGED ops
          \/ /\ Limit(a) # ""
             /\ GateFails(a, Limit(a))
             /\ UNCHANGED ops
          \/ /\ Limit(a) = ""
             /\ used >= MaxModel \/ ~Fits(price)
             /\ GateFails(a, "stop")
             /\ UNCHANGED ops
          \/ /\ Limit(a) = ""
             /\ used < MaxModel
             /\ Fits(price)
             /\ Begun(next, price)
             /\ GateTo(a, "send", next)
     /\ UNCHANGED <<provider, ended, late, row, charge, costUsed, pc, bridge, launched>>

\* The request is forwarded, whatever has happened since it was admitted.
SendModel(a) ==
  /\ GateAt(a, "send")
  /\ Sent(gate[a].op)
  /\ GateTo(a, "reply", gate[a].op)
  /\ UNCHANGED <<provider, ended, late, row, costUsed, pc, bridge, launched>>

\* The whole response arrives while the gateway is open.
Answered(a) ==
  /\ GateAt(a, "reply")
  /\ Running(a)
  /\ GateTo(a, "account", gate[a].op)
  /\ UNCHANGED <<provider, ended, late, row, ledger, pc, bridge, launched>>

\* Variant: a call without a usable answer is written off as failed.
WrittenOff(o) == "failed"

NoAnswer(o) == "unknown"

\* It does not, or cannot be accounted for; or the provider refuses the call,
\* which then is free.
NotAnswered(a) ==
  /\ GateAt(a, "reply")
  /\ \/ SetState(gate[a].op, NoAnswer(gate[a].op))
     \/ charge[gate[a].op] = 0 /\ SetState(gate[a].op, "failed")
  /\ GateFails(a, "error")
  /\ UNCHANGED <<provider, ended, late, row, charge, costUsed, pc, bridge, launched>>

\* after_call: the response is accounted for before it is delivered, if it
\* still can be.
Account(a) ==
  LET o == gate[a].op IN
  /\ GateAt(a, "account")
  /\ IF Leased(a)
     THEN /\ Completed(o, charge[o])
          /\ IF o \in Overruns THEN GateFails(a, "stop")
             ELSE gate' = [gate EXCEPT ![a] = Rest] \/ GateFails(a, "error")
     ELSE GateFails(a, "lost") /\ UNCHANGED <<ops, costUsed>>
  /\ UNCHANGED <<provider, ended, late, row, charge, pc, bridge, launched>>

-----------------------------------------------------------------------------
(* The bridge: one tool call at a time                                     *)

BridgeAt(a, place) == bridge[a].at = place
BridgeTo(a, place, o) == bridge' = [bridge EXCEPT ![a].at = place, ![a].op = o]
Resting(a) == bridge' = [bridge EXCEPT ![a].at = "rest", ![a].op = Wake]
BridgeFails(a, failure) == bridge' = [bridge EXCEPT ![a] = [Rest EXCEPT !.failure = failure]]

\* _perform_research, up to the source: the call's row is added, or found if
\* the call is sent again.  That the quota is used up is an answer; that the
\* budget is, a stop.
BeginRead(a, o) ==
  \/ /\ Is(o, Unresolved)
     /\ BridgeFails(a, "error")
     /\ UNCHANGED ops
  \/ /\ Is(o, {"planned", "failed"})
     /\ BridgeTo(a, "look", o)
     /\ UNCHANGED ops
  \/ /\ Is(o, {"none"})
     /\ Cardinality(Asked) < MaxResearch
     /\ IF Fits(Bound[o[2]]) THEN Begun(o, Bound[o[2]]) /\ BridgeTo(a, "look", o)
        ELSE BridgeFails(a, "stop") /\ UNCHANGED ops

\* A research call of Claude.
Research(a, o) ==
  /\ Running(a)
  /\ BridgeAt(a, "rest")
  /\ \/ /\ Limit(a) # ""
        /\ BridgeFails(a, Limit(a))
        /\ UNCHANGED ops
     \/ /\ Limit(a) = ""
        /\ ~submitted
        /\ BeginRead(a, o)
  /\ UNCHANGED <<provider, ended, late, row, charge, costUsed, pc, gate, launched>>

\* The connector was asked too recently: the call completes without a request.
Throttled(a) ==
  LET o == bridge[a].op IN
  /\ BridgeAt(a, "look")
  /\ IF Leased(a)
     THEN /\ ops' = [ops EXCEPT ![o].state = "completed", ![o].denied = TRUE]
          /\ Resting(a)
     ELSE BridgeFails(a, "lost") /\ UNCHANGED ops
  /\ UNCHANGED <<provider, ended, late, row, charge, costUsed, pc, gate, launched>>

\* The limits are checked once more.
Recheck(a) ==
  /\ BridgeAt(a, "look")
  /\ IF Limit(a) # "" THEN BridgeFails(a, Limit(a)) ELSE BridgeTo(a, "ask", bridge[a].op)
  /\ UNCHANGED <<provider, ended, late, row, ledger, pc, gate, launched>>

Ask(a) ==
  /\ BridgeAt(a, "ask")
  /\ Sent(bridge[a].op)
  /\ BridgeTo(a, "page", bridge[a].op)
  /\ UNCHANGED <<provider, ended, late, row, costUsed, pc, gate, launched>>

\* The connector raises.  A ValueError is an answer Claude can react to, any
\* other error a failure; one perform_research does not expect leaves the row.
NoPage(a) ==
  LET o == bridge[a].op IN
  /\ BridgeAt(a, "page")
  /\ \/ /\ SetState(o, IF ops[o].reserved > 0 THEN "unknown" ELSE "failed")
        /\ Resting(a) \/ BridgeFails(a, "error")
     \/ /\ BridgeFails(a, "error")
        /\ UNCHANGED ops
  /\ UNCHANGED <<provider, ended, late, row, charge, costUsed, pc, gate, launched>>

\* A page has come, from the source or without a request from the shared
\* cache: its evidence is stored and the call completed, in one transaction.
Store(a) ==
  LET o == bridge[a].op IN
  /\ BridgeAt(a, "look") \/ BridgeAt(a, "page")
  /\ IF Leased(a)
     THEN /\ Completed(o, charge[o])
          /\ IF o \in Overruns THEN BridgeFails(a, "stop") ELSE Resting(a)
     ELSE BridgeFails(a, "lost") /\ UNCHANGED <<ops, costUsed>>
  /\ UNCHANGED <<provider, ended, late, row, charge, pc, gate, launched>>

\* The brief is accepted: it is kept in the task's context.
Submit(a) ==
  /\ Running(a)
  /\ BridgeAt(a, "rest")
  /\ Limit(a) = ""
  /\ ~submitted
  /\ submitted' = TRUE
  /\ UNCHANGED <<provider, ended, late, task, lease, live, ledger, pc, gate, bridge, launched>>

-----------------------------------------------------------------------------
(* The surroundings                                                        *)

\* The worker stalls, or is gone, for longer than its lease.
Expire ==
  /\ live
  /\ live' = FALSE
  /\ UNCHANGED <<provider, ended, late, task, lease, submitted, ledger, pc, gate, bridge, launched>>

Cancel ==
  /\ ~ended
  /\ Finish
  /\ UNCHANGED <<provider, late, submitted, ledger, pc, gate, bridge, launched>>

Deadline ==
  /\ ~late
  /\ late' = TRUE
  /\ UNCHANGED <<provider, ended, row, ledger, pc, gate, bridge, launched>>

\* reconcile_ollama_discovery --apply, which finds the estimates unchanged.
Reconcile ==
  /\ ended
  /\ provider = "ollama"
  /\ costUsed' = SumFunctionOnSet([o \in Ops |-> ops[o].cost], {o \in Ops : Is(o, {"completed"})})
  /\ UNCHANGED <<provider, ended, late, row, ops, charge, pc, gate, bridge, launched>>

Supervisor(a) ==
  \/ Claim(a) \/ Open(a) \/ Start(a) \/ NotPrepared(a) \/ Save(a) \/ Launch(a)
  \/ Check(a) \/ Supervise(a) \/ Exit(a) \/ Settle(a) \/ Commit(a) \/ Mark(a) \/ End(a)

Gateway(a) == Admit(a) \/ SendModel(a) \/ Answered(a) \/ NotAnswered(a) \/ Account(a)

AgentTools(a) ==
  \/ \E o \in Read : Research(a, o)
  \/ Throttled(a) \/ Recheck(a) \/ Ask(a) \/ NoPage(a) \/ Store(a) \/ Submit(a)

Next ==
  \/ \E a \in Attempt : Supervisor(a) \/ Gateway(a) \/ AgentTools(a)
  \/ Expire \/ Cancel \/ Deadline \/ Reconcile

Spec == Init /\ [][Next]_vars

-----------------------------------------------------------------------------
(* Properties                                                              *)

Threads == [at : {"rest", "send", "reply", "account", "look", "ask", "page"},
            op : Ops, failure : Failures]

\* Rows, threads and amounts have the values the code gives them.
TypeOK ==
  /\ provider \in Providers
  /\ {ended, late, live, submitted} \subseteq BOOLEAN
  /\ costUsed \in Nat
  /\ task \in {"open", "working", "done", "failed"}
  /\ lease \in Attempt \cup {0}
  /\ ops \in [Ops -> [state : OpStates, reserved : Nat, cost : Nat, denied : BOOLEAN]]
  /\ charge \in [Ops -> Nat]
  /\ pc \in [Attempt -> Pcs]
  /\ gate \in [Attempt -> Threads]
  /\ bridge \in [Attempt -> Threads]
  /\ launched \subseteq Attempt

\* Whatever the order of calls, losses and restarts, the providers together
\* have not charged more than max_cost_usd, except by charging more for a call
\* than was reserved for it.
ChargesFit ==
  SumFunctionOnSet([o \in Ops |-> Min({charge[o], ops[o].reserved})], Ops) <= MaxCost

\* No charge disappears: it is recorded, or its call is left started or
\* unknown for a human to settle.
ChargesVisible ==
  \A o \in Ops : ops[o].cost = charge[o] \/ Is(o, Unresolved)

\* Of all the attempts at a turn at most one has a Claude process that works:
\* an interrupted wake is never repeated.
WakeOnce == Cardinality(launched) <= 1
=============================================================================
