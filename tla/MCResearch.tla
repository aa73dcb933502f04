----------------------------- MODULE MCResearch -----------------------------
(* Research for TLC: model answers, and what sources reply.                *)
EXTENDS Research

CONSTANT t1

CallOf(connector, action, input, about) ==
  [connector |-> connector, action |-> action, input |-> input, about |-> about]
SearchFor(connector, about) == CallOf(connector, "search", "good", about)

\* Two automatic searches, for the same thing or for another.
AutoAnswers ==
  {<<SearchFor("search_auto", "x"), SearchFor("search_auto", y)>> : y \in {"x", "y"}}

\* One request of every kind to every connector.
ConnectorAnswers ==
  {<<CallOf(c, a, i, "x")>> : c \in Enabled \cup {"bing"}, a \in {"search", "fetch"}, i \in Inputs}

EveryAnswer == AutoAnswers \cup ConnectorAnswers

AllConnectors ==
  {"search_auto", "web_search", "web_fetch", "duckduckgo", "hacker_news",
   "github", "stack_exchange", "local_corpus"}

NoStallInARead == {"start", "ask", "reply"}

\* The source answers or fails, but sends nothing that cannot be decoded.
PlainReplies == Replies \ {"garbled"}
=============================================================================
