----------------------------- MODULE AgentTools -----------------------------
(***************************************************************************)
(* The tools of the agent runs (agents/tools/) and how a call may end.     *)
(* get_tool looks in the whole registry, whatever tools the agent was      *)
(* told of.  A call answers with a status, which goes back                 *)
(* to the model and onto the run's step, or it raises, which ends the run. *)
(* What a tool finds is left out; that it may find nothing is not.         *)
(***************************************************************************)
Raises == "raise"

\* An HTTP tool that calls raise_for_status: any error response is an exception.
HttpTool == {"success", Raises}

\* A negative max_items or limit is a slice Django refuses.
query_cluster == {"success", "not_found", Raises}
query_related_clusters == {"success", "not_found", Raises}
search_hacker_news == HttpTool
fetch_hn_item == HttpTool \cup {"not_found"}
\* Without GITHUB_TOKEN it raises.
search_github_issues == HttpTool
search_stack_overflow == HttpTool
\* Without TAVILY_API_KEY it raises.
web_search == HttpTool
\* Error responses, time-outs and network errors are the agent's to handle;
\* a bad protocol or a redirect loop is still an exception.
fetch_url == HttpTool \cup {"error"}
record_brief == {"success"}
record_ideation == {"success"}

Implementation ==
  [query_cluster |-> query_cluster, query_related_clusters |-> query_related_clusters,
   search_hacker_news |-> search_hacker_news, fetch_hn_item |-> fetch_hn_item,
   search_github_issues |-> search_github_issues,
   search_stack_overflow |-> search_stack_overflow, web_search |-> web_search,
   fetch_url |-> fetch_url, record_brief |-> record_brief, record_ideation |-> record_ideation]

\* Tool.dispatch: an input its schema refuses is an answer, not an exception.
Dispatch(tool) == Implementation[tool] \cup {"validation_failed"}

\* What AgentStep.tool_status can hold: ToolStatus(...) raises on any other.
ToolStatus == {"success", "error", "rate_limited", "timeout", "not_found", "validation_failed"}
=============================================================================
