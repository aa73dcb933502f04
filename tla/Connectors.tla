----------------------------- MODULE Connectors -----------------------------
(* What a research connector makes of a source's reply                     *)
(* (discovery/connectors, and the tools of agents/tools/stubs.py that      *)
(* three of them call).  A request ends in a page with a status, or in an  *)
(* exception; perform_research and the loop above it tell three kinds of   *)
(* exception apart.  Replies are abstracted to what the connectors         *)
(* distinguish, documents to their presence.                               *)
EXTENDS Naturals, TLC

CONSTANTS
  Waits,       \* the waits a Retry-After header asks for
  DefaultWait  \* the cooldown where there is no usable header

ASSUME WaitsAssumption == Waits \subseteq Nat \ {0} /\ DefaultWait \in Nat \ {0}

Replies ==
  {"timeout", "unreachable",                    \* no response
   "missing", "denied", "limited",              \* 404; 401 or 403; 429
   "accepted", "failed",                        \* 202; any other bad status
   "full", "empty", "challenge", "garbled"}     \* the body of a 200

Statuses == {"success", "not_found", "access_denied", "rate_limited", "timeout", "error"}

\* ValueError and its kind; ConnectorError and OSError; a time limit, inside the
\* fetch tool; what nobody expects.
Errors == {"value", "known", "slow", "other"}

Page(status) == [status |-> status, documents |-> 0, wait |-> 0]
Limited(w) == [Page("rate_limited") EXCEPT !.wait = w]
Found(n) == [Page("success") EXCEPT !.documents = n]
Raised(error) == Page(error)

IsPage(outcome) == outcome.status \in Statuses

\* The statuses that most connectors treat alike, by the waits they listen to.
StatusPages(waits) ==
  [missing |-> {Page("not_found")},
   denied  |-> {Page("access_denied")},
   limited |-> {Limited(w) : w \in waits \cup {DefaultWait}}]

\* raise_for_status and json(), of connectors that catch nothing.
Unguarded ==
  [r \in Replies |->
     CASE r = "full" -> {Found(1)}
       [] r = "empty" -> {Found(0)}
       [] r \in {"accepted", "challenge", "garbled"} -> {Raised("value"), Raised("other")}
       [] OTHER -> {Raised("other")}]

DuckDuckGo ==
  StatusPages(Waits) @@
  [timeout     |-> {Page("timeout")},
   unreachable |-> {Page("error")},
   accepted    |-> {Limited(DefaultWait)},
   failed      |-> {Page("error")},
   challenge   |-> {Limited(DefaultWait)},
   full        |-> {Found(1)},
   empty       |-> {Found(0)},
   garbled     |-> {Found(0)}]

\* Variant: transport errors are not caught.
BingUnguarded ==
  StatusPages(Waits) @@ [full |-> {Found(1)}, empty |-> {Found(0)}] @@ Unguarded

Bing ==
  StatusPages(Waits) @@ [full |-> {Found(1)}, empty |-> {Found(0)}] @@
  [r \in Replies |-> {Page("error")}]

Tavily ==
  StatusPages(Waits) @@ [failed |-> {Raised("known")}] @@ Unguarded

\* The pages of a PDF that were asked for, or why there are none: the file or
\* the page range is no good, Poppler is too slow, nothing can be read.
ExtractPdf == {Found(1), Raised("known"), Raised("slow"), Page("error")}

\* A body is a page, a PDF, or of no use; its charset may be one Python does
\* not know.
FetchPublicUrl ==
  LET body == {Found(1)} \cup ExtractPdf IN
  StatusPages(Waits) @@
  [timeout     |-> {Raised("slow")},
   unreachable |-> {Raised("known")},
   failed      |-> {Raised("known")},
   garbled     |-> {Raised("known"), Raised("other")}] @@
  [r \in Replies |-> body]

\* The fetch tool shows the failures it expects as pages.
Shown(outcome) ==
  CASE outcome = Raised("slow") -> Page("timeout")
    [] outcome = Raised("known") -> Page("error")
    [] OTHER -> outcome

WebFetch == [r \in Replies |-> {Shown(o) : o \in FetchPublicUrl[r]}]

HackerNewsSearch == Unguarded
GitHubSearch == Unguarded
StackExchangeSearch == Unguarded

HackerNewsFetch ==
  [missing |-> {Page("not_found")}, empty |-> {Found(1)}] @@ Unguarded

GitHubFetch == StatusPages({}) @@ [empty |-> {Found(1)}] @@ Unguarded

\* A reply may ask to back off, which is the only wait this fetch listens to.
StackExchangeFetch ==
  StatusPages({}) @@
  [failed |-> {Raised("known")},
   full   |-> {Found(1)} \cup {Limited(w) : w \in Waits},
   empty  |-> {Page("not_found")},
   garbled |-> {Raised("known"), Raised("value"), Raised("other")}] @@
  Unguarded

\* The local corpus asks no source: an item is there or is not.
LocalCorpusSearch == [r \in Replies |-> {Found(0), Found(1)}]
LocalCorpusFetch == [r \in Replies |-> {Found(1), Page("not_found")}]

Search ==
  [duckduckgo |-> DuckDuckGo, bing |-> Bing, web_search |-> Tavily,
   hacker_news |-> HackerNewsSearch, github |-> GitHubSearch,
   stack_exchange |-> StackExchangeSearch,
   local_corpus |-> LocalCorpusSearch]

Fetch ==
  [web_fetch |-> WebFetch, hacker_news |-> HackerNewsFetch, github |-> GitHubFetch,
   stack_exchange |-> StackExchangeFetch, local_corpus |-> LocalCorpusFetch]

Capable(connector, action) ==
  IF action = "search" THEN connector \in DOMAIN Search \cup {"search_auto"}
  ELSE connector \in DOMAIN Fetch

\* What the model may get wrong in a request: a value of the wrong form, or a
\* filter, a cursor or a target that the connector does not take.
Inputs == {"good", "malformed", "unsupported"}

\* Refusal of a search: a form it does not accept, a filter or a cursor.
ValidateSearch(input) ==
  CASE input = "malformed" -> {Raised("value")}
    [] input = "unsupported" -> {Raised("known")}
    [] OTHER -> {}

\* Refusal of a target.  The fetch tool shows a target it may not read; an
\* item of the local corpus has a UUID, and what is none raises Django's own
\* ValidationError.
CheckTarget(connector, input) ==
  CASE input = "good" -> {}
    [] connector = "local_corpus" -> {Raised("other")}
    [] connector = "web_fetch" /\ input = "unsupported" -> {Page("error")}
    [] OTHER -> {Raised("value")}

\* How a connector refuses an input, before it asks its source.
Refusals(connector, action, input) ==
  IF action = "search" THEN ValidateSearch(input) ELSE CheckTarget(connector, input)

\* The outcomes of a request to a connector, by the reply of the source.
Outcomes(connector, action, input, reply) ==
  LET refusals == Refusals(connector, action, input) IN
  IF refusals # {} THEN refusals
  ELSE IF action = "search" THEN Search[connector][reply]
  ELSE Fetch[connector][reply]

\* What a request may cost at most: only Tavily's searches cost anything.
Billed(connector) == connector = "web_search"

\* The pause between two requests, in units: two seconds, one, or none.
MinimumInterval(connector) ==
  CASE connector \in {"duckduckgo", "bing", "github"} -> 2
    [] connector \in {"local_corpus", "search_auto"} -> 0
    [] OTHER -> 1
=============================================================================
