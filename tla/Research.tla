------------------------------ MODULE Research ------------------------------
(* The research calls of one model answer of the batch runtime             *)
(* (discovery/research.py, called from discovery/loop.py): a row for every *)
(* request, the throttle and the cache that all discoveries share, the     *)
(* fallback of search_auto from one backend to the next, and the evidence. *)
(* An attempt is a worker that claimed the task; it may crash, or go on    *)
(* after its lease has lapsed and another attempt has taken over.          *)
(* Time and budget limits, one of which may end the discovery wherever     *)
(* they are checked, and the cost of a call are those of ClaudeWake.       *)
EXTENDS Connectors, Integers, FiniteSets, SequencesExt, FiniteSetsExt

CONSTANTS
  Task,         \* tasks of different discoveries
  Answers,      \* the model's answers: sequences of research calls
  Enabled,      \* the connectors of the configuration
  MaxResearch,  \* max_research_calls_per_turn
  MaxClaims,    \* bound: attempts at a task
  Heard,        \* bound: the replies that sources give
  Steady        \* where an attempt does not lose its lease unless it crashes

Pcs == {"idle", "call", "quota", "begin", "look", "gate", "deny", "recheck",
        "start", "ask", "reply", "store", "save", "gone"}

ASSUME ResearchAssumption ==
  /\ {MaxResearch, MaxClaims} \subseteq Nat \ {0}
  /\ Heard \subseteq Replies
  /\ Steady \subseteq Pcs

Attempt == Task \X (1..MaxClaims)

\* The connectors that perform_research goes through for a call.
Backends(connector) ==
  IF connector = "search_auto" THEN <<"duckduckgo", "bing">> ELSE <<connector>>

AllCalls == UNION {ToSet(s) : s \in Answers}
AllBackends == UNION {ToSet(Backends(c.connector)) : c \in AllCalls}
MaxCalls == Max({Len(s) : s \in Answers})
Key == Task \X (1..MaxCalls) \X AllBackends

\* The statuses upon which search_auto turns to its other backend.
Failing == {"rate_limited", "timeout", "access_denied", "error"}

\* What a completed row keeps: a page, and where it is from.
NoResponse == [status |-> "none", documents |-> 0, from |-> "none"]
Response(page, from) ==
  [status |-> page.status, documents |-> page.documents, from |-> from]
Denial == Response(Page("rate_limited"), "denial")
NoRow == [state |-> "none", response |-> NoResponse]

\* The answer to a call that the code refuses: the model may correct itself.
Rejected == [status |-> "validation_failed", backend |-> "none", response |-> NoResponse]
Told(backend, response) ==
  [status |-> response.status, backend |-> backend, response |-> response]

VARIABLES
  calls,      \* calls[t]: the answer that the task works on
  task,       \* task[t]: state, number of claims, whether the lease is valid
  ended,      \* ended[t]: why its discovery ended, "" until then
  told,       \* told[t]: the answers to the calls, once in the saved history
  ops,        \* ops[k]: the row of an operation key
  evidence,   \* evidence[k]: how often the evidence of a key was stored
  requests,   \* requests[k]: how many requests were sent for a key
  throttle,   \* seconds left on the throttle of a scope
  cache,      \* cache[r]: the page kept for a request
  worker      \* worker[a]: where an attempt is, and what it has in memory

rowVars == <<ops, evidence, requests>>
sharedVars == <<throttle, cache>>
taskVars == <<calls, task, ended, told>>
vars == <<taskVars, rowVars, sharedVars, worker>>

-----------------------------------------------------------------------------
(* What an attempt works on                                                *)

At(a, pc) == worker[a].pc = pc
Call(a) == calls[a[1]][worker[a].call]
Backend(a) == Backends(Call(a).connector)[Len(worker[a].tried) + 1]
KeyOf(a) == <<a[1], worker[a].call, Backend(a)>>
RowsOf(t) == {k \in Key : k[1] = t /\ ops[k].state # "none"}

\* The throttle is shared by all requests to a connector, or to a host.
Scope(a) == <<Backend(a), IF Call(a).action = "fetch" THEN Call(a).about ELSE "">>
\* The cache is shared by all equal requests.
Request(a) == <<Backend(a), Call(a).action, Call(a).about>>
AllRequests == {<<b, c.action, c.about>> : b \in AllBackends, c \in AllCalls}
Scopes == {<<r[1], IF r[2] = "fetch" THEN r[3] ELSE "">> : r \in AllRequests}

\* Variant: the token is not compared.
LeasedByAnyone(a) == task[a[1]].state = "working" /\ task[a[1]].live /\ ended[a[1]] = ""

\* check_lease: the attempt is the latest, and its lease has not lapsed.
Leased(a) ==
  LET t == a[1] IN
  /\ task[t].state = "working"
  /\ task[t].claims = a[2]
  /\ task[t].live
  /\ ended[t] = ""

\* Local denials take none of the allowed calls.
Used(t) == Cardinality({k \in RowsOf(t) : ops[k].response.from # "denial"})

-----------------------------------------------------------------------------
(* How an attempt goes on, and how it ends                                 *)

Fresh ==
  [pc |-> "idle", call |-> 1, tried |-> <<>>, answers |-> <<>>, page |-> Page("none"), from |-> "none"]

Goto(a, pc) == worker' = [worker EXCEPT ![a].pc = pc]
Quit(a) == worker' = [worker EXCEPT ![a] = [Fresh EXCEPT !.pc = "gone"]]

\* finish_discovery: the first reason stands.
End(t, reason) ==
  ended' = IF ended[t] = "" THEN [ended EXCEPT ![t] = reason] ELSE ended

\* The handlers of DiscoveryStop, and of everything that is not expected: that
\* one leaves no row of the task started.
Stop(a, reason) == Quit(a) /\ End(a[1], reason)
Unresolve(t, rows) ==
  [k \in Key |-> IF k[1] = t /\ rows[k].state = "started"
                 THEN [rows[k] EXCEPT !.state = "unknown"] ELSE rows[k]]
Fail(a, rows) == Stop(a, "provider_error") /\ ops' = Unresolve(a[1], rows)

\* check_limits does not return: the lease is lost, or a limit is reached.
Halted(a) ==
  \/ ~Leased(a) /\ Quit(a) /\ UNCHANGED ended
  \/ Leased(a) /\ Stop(a, "limit")

\* The answer to the current call is appended to the history in memory.
Answered(a, answer) ==
  worker' = [worker EXCEPT ![a] = [@ EXCEPT !.pc = "call", !.call = @ + 1, !.tried = <<>>,
                                            !.page = Page("none"), !.from = "none",
                                            !.answers = Append(@, answer)]]

\* Variant: search_auto goes on to its other backend whatever the first says.
RoutedOn(a, response) ==
  IF Len(worker[a].tried) + 1 < Len(Backends(Call(a).connector))
  THEN worker' = [worker EXCEPT ![a].pc = "quota", ![a].tried = Append(@, response)]
  ELSE Answered(a, Told(Backend(a), response))

\* An answer of a backend: search_auto goes on to its other backend if it is a
\* failure.
Routed(a, response) ==
  IF /\ Len(worker[a].tried) + 1 < Len(Backends(Call(a).connector))
     /\ response.status \in Failing
  THEN worker' = [worker EXCEPT ![a].pc = "quota", ![a].tried = Append(@, response),
                                ![a].page = Page("none"), ![a].from = "none"]
  ELSE Answered(a, Told(Backend(a), response))

\* An exception out of perform_research, with the rows as it leaves them: a
\* ValueError is an answer that the model can correct.
Raise(a, error, rows) ==
  IF error = "value" THEN Answered(a, Rejected) /\ ops' = rows /\ UNCHANGED ended
  ELSE Fail(a, rows)

-----------------------------------------------------------------------------
(* The claim                                                               *)

Init ==
  /\ calls \in [Task -> Answers]
  /\ task = [t \in Task |-> [state |-> "open", claims |-> 0, live |-> FALSE]]
  /\ ended = [t \in Task |-> ""]
  /\ told = [t \in Task |-> <<>>]
  /\ ops = [k \in Key |-> NoRow]
  /\ evidence = [k \in Key |-> 0]
  /\ requests = [k \in Key |-> 0]
  /\ throttle = [s \in Scopes |-> 0]
  /\ cache = [r \in AllRequests |-> -1]
  /\ worker = [a \in Attempt |-> Fresh]

\* Rows in doubt go back to planned where they cost nothing.
PutBack(t) ==
  [k \in Key |-> IF k[1] = t /\ ops[k].state \in {"started", "unknown"} /\ ~Billed(k[3])
                 THEN [ops[k] EXCEPT !.state = "planned"] ELSE ops[k]]

\* claim_task: a row in doubt that may have cost something ends the discovery.
Claim(t) ==
  /\ ended[t] = ""
  /\ \/ task[t].state = "open"
     \/ task[t].state = "working" /\ ~task[t].live
  /\ IF \E k \in RowsOf(t) : ops[k].state \in {"started", "unknown"} /\ Billed(k[3])
     THEN End(t, "worker_lost") /\ UNCHANGED <<task, ops, worker>>
     ELSE /\ task[t].claims < MaxClaims
          /\ task' = [task EXCEPT ![t] = [state |-> "working", claims |-> @.claims + 1, live |-> TRUE]]
          /\ ops' = PutBack(t)
          /\ worker' = [worker EXCEPT ![<<t, task[t].claims + 1>>].pc = "call"]
          /\ UNCHANGED ended
  /\ UNCHANGED <<calls, told, evidence, requests, sharedVars>>

-----------------------------------------------------------------------------
(* A call                                                                  *)

\* perform_research refuses what the configuration or the connector does not
\* allow, and search_auto an input that its backends would not take.
RefusalsOf(c) ==
  IF c.connector \notin Enabled \/ ~Capable(c.connector, c.action) THEN {Raised("value")}
  ELSE IF c.connector = "search_auto" THEN ValidateSearch(c.input)
  ELSE {}

\* The next call of the answer, if there is one.
StartCall(a) ==
  LET finished == worker[a].call > Len(calls[a[1]])
      refusals == RefusalsOf(Call(a))
  IN
  /\ At(a, "call")
  /\ \/ finished /\ Goto(a, "save") /\ UNCHANGED <<ended, ops>>
     \/ ~finished /\ Halted(a) /\ UNCHANGED ops
     \/ /\ ~finished /\ Leased(a)
        /\ \/ refusals = {} /\ Goto(a, "begin") /\ UNCHANGED <<ended, ops>>
           \/ \E r \in refusals : Raise(a, r.status, ops)
  /\ UNCHANGED <<calls, task, told, evidence, requests, sharedVars>>

\* Variant: the fallback does not look at the quota.
FallBackAnyway(a) ==
  /\ At(a, "quota")
  /\ Goto(a, "begin")
  /\ UNCHANGED <<taskVars, rowVars, sharedVars>>

\* Before it falls back, search_auto looks whether a call is left for that.
CheckQuota(a) ==
  LET tried == worker[a].tried IN
  /\ At(a, "quota")
  /\ IF Used(a[1]) >= MaxResearch /\ KeyOf(a) \notin RowsOf(a[1])
     THEN Answered(a, Told(Backends(Call(a).connector)[Len(tried)], tried[Len(tried)]))
     ELSE Goto(a, "begin")
  /\ UNCHANGED <<taskVars, rowVars, sharedVars>>

\* Variant: a completed row is read again.
BeginAgain(a) ==
  LET k == KeyOf(a) IN
  /\ At(a, "begin") /\ Leased(a)
  /\ ops' = IF ops[k].state = "none" THEN [ops EXCEPT ![k].state = "planned"] ELSE ops
  /\ Goto(a, "look")
  /\ UNCHANGED <<taskVars, evidence, requests, sharedVars>>

\* begin_operation, and what perform_research makes of a row that is there.
Begin(a) ==
  LET k == KeyOf(a) IN
  /\ At(a, "begin")
  /\ \/ Halted(a) /\ UNCHANGED ops
     \/ /\ Leased(a) /\ ops[k].state = "none"
        /\ IF Used(a[1]) >= MaxResearch THEN Stop(a, "turn_call_limit") /\ UNCHANGED ops
           ELSE /\ ops' = [ops EXCEPT ![k].state = "planned"]
                /\ Goto(a, "look")
                /\ UNCHANGED ended
     \/ /\ Leased(a) /\ ops[k].state = "completed"
        /\ Routed(a, ops[k].response)
        /\ UNCHANGED <<ended, ops>>
     \/ /\ Leased(a) /\ ops[k].state \in {"started", "unknown"}
        /\ Fail(a, ops)
     \/ /\ Leased(a) /\ ops[k].state \in {"planned", "failed"}
        /\ Goto(a, "look")
        /\ UNCHANGED <<ended, ops>>
  /\ UNCHANGED <<calls, task, told, evidence, requests, sharedVars>>

\* The cache is read; the local corpus is not kept in it.
Look(a) ==
  LET n == cache[Request(a)] IN
  /\ At(a, "look")
  /\ IF n # -1 /\ Backend(a) # "local_corpus"
     THEN worker' = [worker EXCEPT ![a].pc = "store", ![a].page = Found(n), ![a].from = "cache"]
     ELSE Goto(a, IF MinimumInterval(Backend(a)) = 0 THEN "recheck" ELSE "gate")
  /\ UNCHANGED <<taskVars, rowVars, sharedVars>>

\* cache.add: one request to a scope in its minimum interval.
Gate(a) ==
  LET s == Scope(a) IN
  /\ At(a, "gate")
  /\ IF throttle[s] = 0
     THEN /\ throttle' = [throttle EXCEPT ![s] = MinimumInterval(Backend(a))]
          /\ Goto(a, "recheck")
     ELSE Goto(a, "deny") /\ UNCHANGED throttle
  /\ UNCHANGED <<taskVars, rowVars, cache>>

\* Variant: only the state of the row is saved.
CompletedState(k, response) == [ops EXCEPT ![k].state = "completed"]

\* complete_operation: a completed row stays as it is.
Completed(k, response) ==
  IF ops[k].state = "completed" THEN ops
  ELSE [ops EXCEPT ![k] = [state |-> "completed", response |-> response]]

\* Too early: the call completes without a request.
Deny(a) ==
  /\ At(a, "deny")
  /\ IF Leased(a) THEN ops' = Completed(KeyOf(a), Denial) /\ Routed(a, Denial)
     ELSE Quit(a) /\ UNCHANGED ops
  /\ UNCHANGED <<taskVars, evidence, requests, sharedVars>>

Recheck(a) ==
  /\ At(a, "recheck")
  /\ \/ Halted(a)
     \/ Leased(a) /\ Goto(a, "start") /\ UNCHANGED ended
  /\ UNCHANGED <<calls, task, told, rowVars, sharedVars>>

\* The row is marked, whoever has the lease.
Start(a) ==
  /\ At(a, "start")
  /\ ops' = [ops EXCEPT ![KeyOf(a)].state = "started"]
  /\ Goto(a, "ask")
  /\ UNCHANGED <<taskVars, evidence, requests, sharedVars>>

\* The connector asks its source, unless it refuses its input.
Ask(a) ==
  LET sent == Refusals(Backend(a), Call(a).action, Call(a).input) = {} IN
  /\ At(a, "ask")
  /\ requests' = IF sent THEN [requests EXCEPT ![KeyOf(a)] = @ + 1] ELSE requests
  /\ Goto(a, "reply")
  /\ UNCHANGED <<taskVars, ops, evidence, sharedVars>>

\* A page: the cooldown a source asks for replaces the throttle, a success is
\* kept in the cache.
Receive(a, page) ==
  LET s == Scope(a)
      cooldown == Max({page.wait, MinimumInterval(Backend(a))})
  IN
  /\ worker' = [worker EXCEPT ![a].pc = "store", ![a].page = page, ![a].from = "source"]
  /\ IF page.wait > 0
     THEN throttle' = [throttle EXCEPT ![s] = cooldown]
     ELSE UNCHANGED throttle
  /\ IF page.status = "success" /\ Backend(a) # "local_corpus"
     THEN cache' = [cache EXCEPT ![Request(a)] = page.documents]
     ELSE UNCHANGED cache
  /\ UNCHANGED <<ended, ops>>

\* Variant: a search that may have cost something is marked as failed, too.
NoPageFailed(a, error) ==
  /\ Raise(a, error, [ops EXCEPT ![KeyOf(a)].state = "failed"])
  /\ UNCHANGED sharedVars

\* An exception: whoever has the lease, the row is marked as failed, or in
\* doubt if the request may have cost something.
NoPage(a, error) ==
  LET state == IF Billed(Backend(a)) THEN "unknown" ELSE "failed" IN
  /\ Raise(a, error, IF error = "other" THEN ops
                     ELSE [ops EXCEPT ![KeyOf(a)].state = state])
  /\ UNCHANGED sharedVars

Reply(a) ==
  /\ At(a, "reply")
  /\ \E heard \in Heard :
       \E o \in Outcomes(Backend(a), Call(a).action, Call(a).input, heard) :
         IF IsPage(o) THEN Receive(a, o) ELSE NoPage(a, o.status)
  /\ UNCHANGED <<calls, task, told, evidence, requests>>

\* The evidence is stored and the call completed, in one transaction, which
\* the database may refuse.
Store(a) ==
  LET k == KeyOf(a)
      page == worker[a].page
      response == Response(page, worker[a].from)
  IN
  /\ At(a, "store")
  /\ \/ /\ Leased(a)
        /\ evidence' = [evidence EXCEPT ![k] = @ + page.documents]
        /\ ops' = Completed(k, response)
        /\ Routed(a, response)
        /\ UNCHANGED ended
     \/ /\ Leased(a) /\ page.documents > 0
        /\ Fail(a, ops)
        /\ UNCHANGED evidence
     \/ /\ ~Leased(a)
        /\ Quit(a)
        /\ UNCHANGED <<evidence, ops, ended>>
  /\ UNCHANGED <<calls, task, told, requests, sharedVars>>

\* _save_context: the answers become part of the task's history.
Save(a) ==
  LET t == a[1] IN
  /\ At(a, "save")
  /\ Quit(a)
  /\ IF Leased(a)
     THEN /\ told' = [told EXCEPT ![t] = worker[a].answers]
          /\ task' = [task EXCEPT ![t].state = "answered"]
     ELSE UNCHANGED <<told, task>>
  /\ UNCHANGED <<calls, ended, rowVars, sharedVars>>

-----------------------------------------------------------------------------
(* The surroundings                                                        *)

Crash(a) ==
  /\ worker[a].pc \notin {"idle", "gone"}
  /\ Quit(a)
  /\ UNCHANGED <<taskVars, rowVars, sharedVars>>

\* The lease lapses: of an attempt that crashed, or that is slow.
Lapse(t) ==
  /\ task[t].state = "working" /\ task[t].live
  /\ worker[<<t, task[t].claims>>].pc \notin Steady
  /\ task' = [task EXCEPT ![t].live = FALSE]
  /\ UNCHANGED <<calls, ended, told, rowVars, sharedVars, worker>>

Tick ==
  /\ \E s \in Scopes : throttle[s] > 0
  /\ throttle' = [s \in Scopes |-> Max({throttle[s] - 1, 0})]
  /\ UNCHANGED <<taskVars, rowVars, cache, worker>>

\* cache_ttl_seconds are over.
Forget(r) ==
  /\ cache[r] # -1
  /\ cache' = [cache EXCEPT ![r] = -1]
  /\ UNCHANGED <<taskVars, rowVars, throttle, worker>>

Step(a) ==
  \/ StartCall(a) \/ CheckQuota(a) \/ Begin(a) \/ Look(a) \/ Gate(a) \/ Deny(a)
  \/ Recheck(a) \/ Start(a) \/ Ask(a) \/ Reply(a) \/ Store(a) \/ Save(a)

Next ==
  \/ \E t \in Task : Claim(t) \/ Lapse(t)
  \/ \E a \in Attempt : Step(a) \/ Crash(a)
  \/ Tick
  \/ \E r \in AllRequests : Forget(r)

Spec == Init /\ [][Next]_vars

-----------------------------------------------------------------------------
(* Properties                                                              *)

\* Rows, answers and attempts have the values the code gives them.
TypeOK ==
  /\ \A t \in Task :
       /\ calls[t] \in Answers
       /\ task[t] \in [state : {"open", "working", "answered"}, claims : 0..MaxClaims, live : BOOLEAN]
       /\ ended[t] \in {"", "limit", "turn_call_limit", "provider_error", "worker_lost"}
       /\ Len(told[t]) \in {0, Len(calls[t])}
  /\ \A k \in Key :
       /\ ops[k].state \in {"none", "planned", "started", "completed", "failed", "unknown"}
       /\ ops[k].state = "completed" => ops[k].response.status \in Statuses
       /\ {evidence[k], requests[k]} \subseteq Nat
  /\ \A s \in Scopes : throttle[s] \in Nat
  /\ \A r \in AllRequests : cache[r] \in {-1, 0, 1}
  /\ \A a \in Attempt : worker[a].pc \in Pcs /\ Len(worker[a].tried) < 2

\* The evidence of a call is stored at most once, and only together with its
\* completion, however often its read was repeated after a crash: the row that
\* claim_task puts back to planned has none yet.
EvidenceOnce ==
  \A k \in Key : evidence[k] > 0 =>
    /\ evidence[k] = 1
    /\ ops[k].state = "completed"
    /\ ops[k].response.documents = 1

\* A search that costs something is requested at most once, whatever crashes
\* and whoever takes over: a row in doubt ends the discovery.
PaidOnce == \A k \in Key : Billed(k[3]) => requests[k] <= 1

\* The answers in the saved history are those of the completed rows, also when
\* calls were replayed by a later attempt.
ToldIsRecorded ==
  \A t \in Task : \A i \in DOMAIN told[t] :
    LET answer == told[t][i] IN
    answer # Rejected => ops[<<t, i, answer.backend>>].response = answer.response

\* The other backend of search_auto has a row only if the first one's recorded
\* answer is a failure, and a failure of the first one is the answer only if
\* the calls are used up.
FallbackFits ==
  \A t \in Task : \A i \in 1..Len(calls[t]) :
    LET first == ops[<<t, i, "duckduckgo">>]
        second == ops[<<t, i, "bing">>]
    IN calls[t][i].connector = "search_auto" =>
         /\ second.state # "none" => first.state = "completed" /\ first.response.status \in Failing
         /\ /\ told[t] # <<>>
            /\ told[t][i].backend = "duckduckgo"
            /\ told[t][i].status \in Failing
            => Used(t) >= MaxResearch

\* A fallback costs no discovery: where the calls are used up, the first
\* backend's failure is the answer, and only a first request is stopped.
FallbackNeverStops ==
  [][\A a \in Attempt :
       /\ worker[a].tried # <<>>
       /\ At(a, "begin") /\ ~At(a, "begin")'
       => UNCHANGED ended \/ ended'[a[1]] # "turn_call_limit"]_vars

\* With the connectors of a default configuration a source that fails, blocks
\* or is slow is an answer for the model, and never the end of the discovery.
DefaultsSurvive ==
  [][\A a \in Attempt :
       /\ At(a, "reply") /\ ~At(a, "reply")'
       /\ Call(a).input = "good" /\ Backend(a) \in {"duckduckgo", "bing", "web_fetch"}
       => UNCHANGED ended]_vars
=============================================================================
