-------------------------- MODULE AgentRunsProofs --------------------------
(***************************************************************************)
(* Proofs about AgentRuns, for every set of runs, any number of deliveries *)
(* of each, any budgets and any costs.                                     *)
(***************************************************************************)
EXTENDS AgentRuns, SumTheorems

-----------------------------------------------------------------------------
(* The inductive invariant                                                 *)

InLoop   == {"top", "model", "tools"}
Finished == {"save", "done", "dead"}

\* A run that is worked on has a row, and the row of an ideation run has its
\* ideation.
RowsOK ==
  /\ \A e \in Exec : work[e].pc \in Working => rows[e[1]] # NoRow
  /\ \A r \in Run : rows[r] # NoRow /\ rows[r].agent = "ideation" => ideas[r] # NoIdea

\* The log of run r is the work of delivery d.
WrittenBy(r, d) == steps[r] # {} /\ \A s \in steps[r] : s.by = d

\* An execution that has counted a step has written the log, up to that step.
Counted(e) ==
  /\ \A n \in 1..work[e].steps : \E s \in steps[e[1]] : s.number = n
  /\ work[e].steps > 0 => WrittenBy(e[1], e[2])

LogOK ==
  /\ OneAuthor
  /\ \A r \in Run : \A s \in steps[r] : s.number >= 1
  /\ \A e \in Exec : work[e].pc \in InLoop => Counted(e)
  /\ \A e \in Exec : work[e].pc = "tools" => work[e].steps > 0

\* An artefact is there only when the execution that wrote the log, and that
\* recorded it, has left the loop: nobody else is left to record it again.
Recorded(r) == ideas[r] # NoIdea /\ (ideas[r].status # "draft" \/ ideas[r].by # 0)

ResultsOK ==
  /\ \A e \in Exec : invs[e] # "absent" => work[e].pc \in Finished /\ WrittenBy(e[1], e[2])
  /\ \A r \in Run : Recorded(r) =>
       /\ ideas[r].by \in Delivery
       /\ work[<<r, ideas[r].by>>].pc \in Finished
       /\ WrittenBy(r, ideas[r].by)

\* An open promotion holds an investigation that waits for review, alone.
OpenedOK ==
  \A r \in Run : opened[r] # NoInv =>
    /\ opened[r] \in Exec
    /\ rows[r] = NoRow
    /\ ideas[r] = NoIdea
    /\ invs[opened[r]] = "awaiting_review"
    /\ \A s \in Run : opened[s] = opened[r] => s = r

Promotes(r, i) == ideas[r] # NoIdea /\ ideas[r].of = i /\ ideas[r].trigger = "promote"

PromotionsOK ==
  /\ \A r \in Run, i \in Exec : Promotes(r, i) =>
       /\ invs[i] \in {"promoted", "stale"}
       /\ \A s \in Run : Promotes(s, i) => s = r
  /\ \A i \in Exec : invs[i] = "promoted" => \E r \in Run : Promotes(r, i)

IInv ==
  /\ TypeOK
  /\ RowsOK
  /\ LogOK
  /\ ResultsOK
  /\ OpenedOK
  /\ PromotionsOK

-----------------------------------------------------------------------------
LEMMA ToolsFit ==
  \A t \in DOMAIN Implementation : Dispatch(t) \ {Raises} \subseteq ToolStatus
BY DEF Dispatch, Implementation, Raises, HttpTool, query_cluster,
       query_related_clusters, search_hacker_news, fetch_hn_item, search_github_issues,
       search_stack_overflow, web_search, fetch_url, record_brief, record_ideation, ToolStatus

LEMMA InitInv == Init => IInv
<1> SUFFICES ASSUME Init PROVE IInv
  OBVIOUS
<1>1. TypeOK
  BY ToolsFit DEF Init, TypeOK, Local, Waiting, Pcs, RunStatus, Reason, Output
<1>2. RowsOK /\ LogOK
  BY DEF Init, RowsOK, LogOK, OneAuthor, Waiting, Working, InLoop
<1>3. ResultsOK /\ OpenedOK /\ PromotionsOK
  BY DEF Init, ResultsOK, Recorded, OpenedOK, PromotionsOK, Promotes
<1> QED
  BY <1>1, <1>2, <1>3 DEF IInv

-----------------------------------------------------------------------------
(* Types                                                                   *)

LEMMA StartTypes == ASSUME TypeOK, OpenedOK, Start PROVE TypeOK'
<1> USE DEF TypeOK
<1> /\ \A a \in {"investigation", "ideation"} : NewRow(a) \in Row
    /\ \A i \in Exec, t \in {"promote", "manual"} :
         [status |-> "draft", of |-> i, trigger |-> t, by |-> 0] \in Idea
  BY DEF NewRow, Row, RunStatus, Reason, Output, Idea
<1>1. ASSUME NEW r \in InvestigationRun, StartInvestigation(r) PROVE TypeOK'
  BY <1>1 DEF StartInvestigation, Run
<1>2. ASSUME NEW r \in Run, Enqueue(r) PROVE TypeOK'
  BY <1>2 DEF Enqueue
<1>3. ASSUME NEW r \in IdeationRun, NEW i \in Exec, ReIdeate(i, r) PROVE TypeOK'
  BY <1>3 DEF ReIdeate, Run
<1>4. ASSUME NEW r \in IdeationRun, NEW i \in Exec, PromoteOpen(i, r) PROVE TypeOK'
  BY <1>4 DEF PromoteOpen, Run
<1>5. ASSUME NEW r \in IdeationRun, StartIdeationRun(r) PROVE TypeOK'
  BY <1>5 DEF StartIdeationRun, Run
<1>6. ASSUME NEW r \in IdeationRun, PromoteCommit(r) PROVE TypeOK'
  <2>1. opened[r] \in Exec /\ r \in Run
    BY <1>6 DEF PromoteCommit, OpenedOK, Run
  <2>2. QED
    BY <1>6, <2>1 DEF PromoteCommit, InvStatus
<1>7. ASSUME NEW r \in IdeationRun, PromoteRollback(r) PROVE TypeOK'
  BY <1>7 DEF PromoteRollback, Run
<1> QED
  BY <1>1, <1>2, <1>3, <1>4, <1>5, <1>6, <1>7 DEF Start

\* The run and the delivery of an execution.
LEMMA ExecParts ==
  ASSUME NEW e \in Exec
  PROVE  e[1] \in Run /\ e[2] \in Delivery /\ e = <<e[1], e[2]>>
BY DEF Exec

LEMMA RunLoopTypes ==
  ASSUME TypeOK, RowsOK, NEW e \in Exec, RunLoop(e)
  PROVE  TypeOK'
<1> USE DEF TypeOK
<1>0. e[1] \in Run /\ e[2] \in Delivery /\ work[e] \in Local
  BY ExecParts
<1> DEFINE Moved(l) == l \in Local /\ work' = [work EXCEPT ![e] = l]
<1>1. ASSUME NEW l, Moved(l), UNCHANGED <<rows, steps, invs, ideas, sent, opened>>
      PROVE  TypeOK'
  BY <1>1
<1>2. ASSUME NEW l, Moved(l), UNCHANGED <<rows, invs, ideas, sent, opened>>,
             steps' \in [Run -> SUBSET Step]
      PROVE  TypeOK'
  BY <1>2
<1> HIDE DEF TypeOK
<1>3. CASE Pickup(e)
  <2>1. rows[e[1]] = NoRow \/ rows[e[1]] \in Row
    BY <1>0 DEF TypeOK
  <2>2. CASE rows[e[1]] = NoRow
    <3>1. Moved([Waiting EXCEPT !.pc = "no_row"])
      BY <1>3, <2>2 DEF Pickup, Vanish, Waiting, Local, Pcs, RunStatus, Reason, Output
    <3>2. QED
      BY <3>1, <1>1, <1>3 DEF Pickup
  <2>3. CASE rows[e[1]] # NoRow /\ Vanish(e, "unbegun")
    <3>1. Moved([Waiting EXCEPT !.pc = "unbegun"])
      BY <2>3 DEF Vanish, Waiting, Local, Pcs, RunStatus, Reason, Output
    <3>2. QED
      BY <3>1, <1>1, <1>3 DEF Pickup
  <2>4. CASE rows[e[1]] # NoRow /\ ~Vanish(e, "unbegun")
    <3> DEFINE copy == [pc |-> "top", status |-> rows[e[1]].status, reason |-> rows[e[1]].reason,
                        output |-> rows[e[1]].output, steps |-> 0, cost |-> 0]
    <3>1. copy \in Local
      BY <2>1, <2>4 DEF Row, Local, Pcs
    <3>2. work' = [work EXCEPT ![e] = copy]
      BY <1>3, <2>4 DEF Pickup
    <3> HIDE DEF copy
    <3>3. QED
      BY <3>1, <3>2, <1>1, <1>3 DEF Pickup
  <2> QED
    BY <2>2, <2>3, <2>4
<1>4. ASSUME NEW pc \in Pcs, NEW status \in RunStatus, NEW reason \in Reason, NEW output \in Output,
             work' = [work EXCEPT ![e].pc = pc, ![e].status = status, ![e].reason = reason,
                                  ![e].output = output],
             UNCHANGED <<rows, steps, invs, ideas, sent, opened>>
      PROVE  TypeOK'
  BY <1>4, <1>0 DEF TypeOK, Local
<1>5. CASE Top(e)
  <2> DEFINE stop == IsExhausted(e[1], work[e].steps, work[e].cost)
  <2>1. stop \in Reason /\ {"budget_duration", "killed_by_human"} \subseteq Reason
    BY DEF IsExhausted, Reason, BudgetReason
  <2>2. {"top", "model", "save"} \subseteq Pcs /\ {"killed", "budget_exhausted"} \subseteq RunStatus
    BY DEF Pcs, RunStatus
  <2>3. \/ \E status \in RunStatus, reason \in Reason : Leave(e, status, reason)
        \/ Goto(e, "model")
    BY <1>5, <2>1, <2>2 DEF Top
  <2>4. work' \in [Exec -> Local]
    <3>1. ASSUME NEW status \in RunStatus, NEW reason \in Reason, Leave(e, status, reason)
          PROVE  work' \in [Exec -> Local]
      BY <3>1, <1>0, <2>2 DEF Leave, TypeOK, Local
    <3>2. CASE Goto(e, "model")
      BY <3>2, <1>0, <2>2 DEF Goto, TypeOK, Local
    <3> QED
      BY <3>1, <3>2, <2>3
  <2>5. QED
    BY <1>5, <2>4 DEF Top, TypeOK
<1>6. ASSUME NEW c \in StepCost, Reply(e, c) PROVE TypeOK'
  <2> DEFINE counted == [work[e] EXCEPT !.steps = work[e].steps + 1, !.cost = @ + c]
             failed == [counted EXCEPT !.pc = "save", !.status = "failed", !.reason = "error"]
             going == [counted EXCEPT !.pc = "tools"]
             step == [number |-> work[e].steps + 1, cost |-> c, by |-> e[2]]
  <2>1. counted \in Local /\ failed \in Local /\ going \in Local /\ step \in Step
    <3>1. work[e].steps + 1 \in Nat /\ work[e].cost + c \in Nat
      BY <1>0, BudgetAssumption DEF Local
    <3>2. counted \in Local
      BY <1>0, <3>1 DEF Local
    <3>3. failed \in Local /\ going \in Local
      BY <3>2 DEF Local, Pcs, RunStatus, Reason
    <3>4. step \in Step
      BY <1>0, <3>1 DEF Step
    <3> QED
      BY <3>2, <3>3, <3>4
  <2>2. \/ work' = [work EXCEPT ![e] = failed] /\ UNCHANGED steps
        \/ /\ work' = [work EXCEPT ![e] = going]
           /\ steps' = [steps EXCEPT ![e[1]] = @ \cup {step}]
    BY <1>6 DEF Reply
  <2> HIDE DEF counted, failed, going, step
  <2>3. steps' \in [Run -> SUBSET Step]
    BY <1>0, <2>1, <2>2 DEF TypeOK
  <2>4. QED
    BY <1>6, <1>2, <2>1, <2>2, <2>3 DEF Reply
<1>7. CASE Raise(e)
  BY <1>7, <1>0 DEF Raise, Leave, TypeOK, Local, Pcs, RunStatus, Reason
<1>8. CASE GoOn(e)
  BY <1>8, <1>0 DEF GoOn, Goto, TypeOK, Local, Pcs
<1>9. CASE RecordBrief(e)
  BY <1>9, <1>0 DEF RecordBrief, LeaveDone, TypeOK, Local, Pcs, RunStatus, Reason, Output, InvStatus
<1>10. CASE RecordIdeation(e)
  <2>1. ideas[e[1]] = NoIdea \/ ideas[e[1]] \in Idea
    BY <1>0 DEF TypeOK
  <2>2. ideas[e[1]] \in Idea
          => [ideas[e[1]] EXCEPT !.status = "awaiting_review", !.by = e[2]] \in Idea
    BY <1>0 DEF Idea
  <2>3. ideas' \in [Run -> Idea \cup {NoIdea}]
    BY <1>10, <2>1, <2>2, <1>0 DEF RecordIdeation, TypeOK
  <2>4. work' \in [Exec -> Local]
    BY <1>10, <1>0 DEF RecordIdeation, LeaveDone, TypeOK, Local, Pcs, RunStatus, Reason, Output
  <2>5. QED
    BY <1>10, <2>3, <2>4 DEF RecordIdeation, TypeOK
<1>11. CASE FinalText(e)
  BY <1>11, <1>0 DEF FinalText, LeaveDone, TypeOK, Local, Pcs, RunStatus, Reason, Output
<1>12. CASE Save(e)
  <2>1. rows[e[1]] \in Row
    BY <1>12, <1>0 DEF Save, At, RowsOK, Working, TypeOK
  <2>2. [agent |-> rows[e[1]].agent, status |-> work[e].status, reason |-> work[e].reason,
         output |-> work[e].output] \in Row
    BY <2>1, <1>0 DEF Row, Local
  <2>3. [Waiting EXCEPT !.pc = "done"] \in Local
    BY DEF Waiting, Local, Pcs, RunStatus, Reason, Output
  <2>4. QED
    BY <1>12, <2>2, <2>3, <1>0 DEF Save, Vanish, TypeOK
<1> QED
  BY <1>3, <1>5, <1>6, <1>7, <1>8, <1>9, <1>10, <1>11, <1>12 DEF RunLoop, Continue

LEMMA OtherTypes ==
  ASSUME TypeOK, (\E e \in Exec : Crash(e)) \/ Human
  PROVE  TypeOK'
<1>1. ASSUME NEW e \in Exec, Crash(e) PROVE TypeOK'
  <2>1. [Waiting EXCEPT !.pc = "dead"] \in Local
    BY DEF Waiting, Local, Pcs, RunStatus, Reason, Output
  <2>2. QED
    BY <1>1, <2>1 DEF Crash, Vanish, TypeOK
<1>2. ASSUME NEW r \in Run, Kill(r) PROVE TypeOK'
  <2>1. rows[r] \in Row
    BY <1>2 DEF Kill, TypeOK
  <2>2. [rows[r] EXCEPT !.status = "killed", !.reason = "killed_by_human"] \in Row
    BY <2>1 DEF Row, RunStatus, Reason
  <2>3. QED
    BY <1>2, <2>2 DEF Kill, TypeOK
<1>3. ASSUME NEW r \in Run, NEW verdict \in {"accepted", "rejected"}, Decide(r, verdict)
      PROVE  TypeOK'
  <2>1. ideas[r] \in Idea
    BY <1>3 DEF Decide, TypeOK, NoIdea
  <2>2. QED
    BY <1>3, <2>1 DEF Decide, TypeOK, Idea
<1>4. ASSUME NEW i \in Exec, Reject(i) \/ MarkStale(i) PROVE TypeOK'
  BY <1>4 DEF Reject, MarkStale, TypeOK, InvStatus
<1> QED
  BY <1>1, <1>2, <1>3, <1>4 DEF Human

-----------------------------------------------------------------------------
(* Rows                                                                    *)

LEMMA RowsStep ==
  ASSUME IInv, Next
  PROVE  RowsOK'
<1> USE DEF IInv, RowsOK
<1>0. \A a \in {"investigation", "ideation"} : NewRow(a) # NoRow /\ NewRow(a).agent = a
  BY DEF NewRow, NoRow
<1>1. ASSUME NEW r \in InvestigationRun, StartInvestigation(r) PROVE RowsOK'
  BY <1>1, <1>0 DEF StartInvestigation, TypeOK, Run
<1>2. ASSUME NEW r \in Run, Enqueue(r) PROVE RowsOK'
  BY <1>2 DEF Enqueue
<1>3. ASSUME NEW r \in IdeationRun, NEW i \in Exec, ReIdeate(i, r) PROVE RowsOK'
  BY <1>3 DEF ReIdeate, NoIdea, TypeOK, Run
<1>4. ASSUME NEW r \in IdeationRun, NEW i \in Exec, PromoteOpen(i, r) PROVE RowsOK'
  BY <1>4 DEF PromoteOpen
<1>5. ASSUME NEW r \in IdeationRun, StartIdeationRun(r) PROVE RowsOK'
  BY <1>5, <1>0 DEF StartIdeationRun, TypeOK, Run
<1>6. ASSUME NEW r \in IdeationRun, PromoteCommit(r) PROVE RowsOK'
  BY <1>6, <1>0 DEF PromoteCommit, NoIdea, TypeOK, Run
<1>7. ASSUME NEW r \in IdeationRun, PromoteRollback(r) PROVE RowsOK'
  BY <1>7 DEF PromoteRollback
<1>8. ASSUME NEW e \in Exec, RunLoop(e) \/ Crash(e) PROVE RowsOK'
  <2>1. e[1] \in Run
    BY ExecParts
  <2>2. \A f \in Exec : work'[f].pc \in Working => rows[f[1]] # NoRow
    <3>1. \A f \in Exec \ {e} : work'[f] = work[f]
      BY <1>8 DEF RunLoop, Continue, Crash, Pickup, Top, Reply, Raise, GoOn, RecordBrief, RecordIdeation,
                  FinalText, Save, Vanish, Leave, LeaveDone, Goto, TypeOK
    <3>2. At(e, "waiting") \/ work[e].pc \in Working
      BY <1>8 DEF RunLoop, Continue, Crash, Pickup, Top, Reply, Raise, GoOn, RecordBrief, RecordIdeation,
                  FinalText, Save, At, Working
    <3>3. CASE At(e, "waiting") /\ work'[e].pc \in Working
      <4>1. Pickup(e)
        BY <1>8, <3>3 DEF RunLoop, Continue, Crash, Top, Reply, Raise, GoOn, RecordBrief, RecordIdeation,
                          FinalText, Save, At, Working
      <4>2. QED
        BY <4>1, <3>1, <3>3 DEF Pickup, Vanish, TypeOK, Working, Waiting
    <3> QED
      BY <3>1, <3>2, <3>3 DEF At
  <2>3. \A r \in Run : /\ rows[r] # NoRow => rows'[r] # NoRow /\ rows'[r].agent = rows[r].agent
                       /\ rows[r] = NoRow => rows'[r] = NoRow
    <3>1. CASE Save(e)
      <4>1. rows[e[1]] # NoRow /\ work[e].status # "absent"
        BY <3>1 DEF Save, At, Working, TypeOK, Local, RunStatus
      <4>2. QED
        BY <3>1, <4>1, <2>1 DEF Save, NoRow, TypeOK
    <3>2. CASE ~Save(e)
      BY <1>8, <3>2 DEF RunLoop, Continue, Crash, Pickup, Top, Reply, Raise, GoOn, RecordBrief,
                        RecordIdeation, FinalText
    <3> QED
      BY <3>1, <3>2
  <2>4. \A r \in Run : ideas[r] # NoIdea => ideas'[r] # NoIdea
    <3>1. CASE RecordIdeation(e)
      <4>1. ideas[e[1]] \in Idea => [ideas[e[1]] EXCEPT !.status = "awaiting_review", !.by = e[2]] # NoIdea
        BY DEF Idea, NoIdea
      <4>2. QED
        BY <3>1, <4>1, ExecParts DEF RecordIdeation, TypeOK
    <3>2. CASE ~RecordIdeation(e)
      BY <1>8, <3>2 DEF RunLoop, Continue, Crash, Pickup, Top, Reply, Raise, GoOn, RecordBrief, Save,
                        FinalText
    <3> QED
      BY <3>1, <3>2
  <2> QED
    BY <2>2, <2>3, <2>4, ExecParts
<1>9. ASSUME NEW r \in Run, Kill(r) PROVE RowsOK'
  <2>1. rows[r] \in Row
    BY <1>9 DEF Kill, TypeOK
  <2> DEFINE killed == [rows[r] EXCEPT !.status = "killed", !.reason = "killed_by_human"]
  <2>2. rows' = [rows EXCEPT ![r] = killed]
    BY <1>9 DEF Kill, TypeOK
  <2>3. killed # NoRow /\ killed.agent = rows[r].agent
    BY <2>1 DEF Row, NoRow
  <2> HIDE DEF killed
  <2>4. \A q \in Run : /\ rows[q] # NoRow <=> rows'[q] # NoRow
                       /\ rows[q] # NoRow => rows'[q].agent = rows[q].agent
    BY <1>9, <2>2, <2>3 DEF Kill, TypeOK
  <2>5. QED
    BY <1>9, <2>4, ExecParts DEF Kill
<1>10. ASSUME NEW r \in Run, NEW verdict \in {"accepted", "rejected"}, Decide(r, verdict)
       PROVE  RowsOK'
  BY <1>10 DEF Decide, NoIdea, TypeOK
<1>11. ASSUME NEW i \in Exec, Reject(i) \/ MarkStale(i) PROVE RowsOK'
  BY <1>11 DEF Reject, MarkStale
<1> QED
  BY <1>1, <1>2, <1>3, <1>4, <1>5, <1>6, <1>7, <1>8, <1>9, <1>10, <1>11 DEF Next, Start, Human

-----------------------------------------------------------------------------
(* The log and the artefacts                                               *)

\* What an execution does without inserting a step or recording an artefact.
Continues(e) ==
  \/ work'[e].pc \in Finished \cup {"no_row", "unbegun"} /\ work[e].pc \notin Finished
  \/ work'[e].pc \in Finished /\ work[e].pc \in Finished
  \/ work[e].pc = "waiting" /\ work'[e].pc = "top" /\ work'[e].steps = 0
  \/ work[e].pc \in InLoop /\ work'[e].pc \in {"top", "model"} /\ work'[e].steps = work[e].steps

LEMMA WorkContinues ==
  ASSUME IInv, NEW e \in Exec, \A f \in Exec \ {e} : work'[f] = work[f], Continues(e),
         UNCHANGED <<steps, invs, ideas>>
  PROVE  LogOK' /\ ResultsOK'
<1> USE DEF IInv, Continues, InLoop, Finished
<1>1. LogOK'
  BY DEF LogOK, OneAuthor, Counted, WrittenBy
<1>2. \A f \in Exec : work[f].pc \in Finished => work'[f].pc \in Finished
  OBVIOUS
<1>3. \A f \in Exec : invs[f] # "absent" => work'[f].pc \in Finished
  BY <1>2 DEF ResultsOK
<1>4. \A r \in Run : Recorded(r) => <<r, ideas[r].by>> \in Exec
  BY DEF ResultsOK, Exec
<1> QED
  BY <1>1, <1>2, <1>3, <1>4 DEF ResultsOK, Recorded, WrittenBy

\* Rows, messages and decisions leave the log and its authors alone.
LEMMA LogUntouched ==
  ASSUME IInv, UNCHANGED <<steps, work>>,
         \A i \in Exec : invs'[i] # "absent" => invs[i] # "absent",
         \A r \in Run : Recorded(r)' => Recorded(r) /\ ideas'[r].by = ideas[r].by
  PROVE  LogOK' /\ ResultsOK'
<1>1. LogOK'
  BY DEF IInv, LogOK, OneAuthor, Counted, WrittenBy
<1> QED
  BY <1>1 DEF IInv, ResultsOK, WrittenBy

\* An execution that inserts a step is the author of the log or its first.
LEMMA NextStepIsTheAuthors ==
  ASSUME IInv, NEW e \in Exec, At(e, "model"), ~StepTaken(e[1], work[e].steps + 1)
  PROVE  (steps[e[1]] = {} /\ work[e].steps = 0) \/ WrittenBy(e[1], e[2])
<1>1. CASE work[e].steps = 0
  <2>1. \A s \in steps[e[1]] : \E t \in steps[e[1]] : t.number = 1
    <3>1. ASSUME NEW s \in steps[e[1]] PROVE \E t \in steps[e[1]] : t.number = 1
      <4>1. s.number \in Nat /\ s.number >= 1
        BY <3>1, ExecParts DEF IInv, LogOK, TypeOK, Step
      <4>2. 1 \in 1..s.number
        BY <4>1
      <4>3. QED
        BY <4>2, <3>1, ExecParts DEF IInv, LogOK, OneAuthor
    <3> QED
      BY <3>1
  <2>2. QED
    BY <2>1, <1>1 DEF StepTaken
<1>2. CASE work[e].steps # 0
  BY <1>2 DEF IInv, LogOK, Counted, At, InLoop, TypeOK, Local
<1> QED
  BY <1>1, <1>2

\* No one writes a log whose artefact is recorded.
LEMMA ReplyKeepsLog ==
  ASSUME IInv, NEW e \in Exec, NEW c \in StepCost, Reply(e, c), TypeOK'
  PROVE  LogOK' /\ ResultsOK'
<1> DEFINE r == e[1]
           n == work[e].steps + 1
           step == [number |-> n, cost |-> c, by |-> e[2]]
<1>1. /\ r \in Run /\ e[2] \in Delivery /\ e = <<r, e[2]>>
      /\ work[e] \in Local /\ work[e].steps \in Nat
  BY ExecParts DEF IInv, TypeOK, Local
<1>2. CASE StepTaken(r, n)
  <2>1. work' = [work EXCEPT ![e] = [work[e] EXCEPT !.steps = n, !.cost = @ + c, !.pc = "save",
                                       !.status = "failed", !.reason = "error"]]
    BY <1>2 DEF Reply
  <2>2. Continues(e) /\ \A f \in Exec \ {e} : work'[f] = work[f]
    BY <2>1, <1>1 DEF Reply, IInv, TypeOK, At, Continues, Finished, Local
  <2>3. QED
    BY <1>2, <2>2, WorkContinues DEF Reply
<1>3. CASE ~StepTaken(r, n)
  <2>1. /\ steps' = [steps EXCEPT ![r] = @ \cup {step}]
        /\ \A f \in Exec \ {e} : work'[f] = work[f]
        /\ work'[e].pc = "tools" /\ work'[e].steps = n
        /\ At(e, "model") /\ invs' = invs /\ ideas' = ideas
    <3>1. work' = [work EXCEPT ![e] = [work[e] EXCEPT !.steps = n, !.cost = @ + c, !.pc = "tools"]]
      BY <1>3 DEF Reply
    <3>2. QED
      BY <1>1, <1>3, <3>1 DEF Reply, IInv, TypeOK, Local
  <2>2. steps'[r] = steps[r] \cup {step} /\ \A q \in Run \ {r} : steps'[q] = steps[q]
    BY <2>1, <1>1 DEF IInv, TypeOK
  <2>3. \A s \in steps[r] : s.by = e[2]
    <3>1. steps[r] = {} \/ WrittenBy(r, e[2])
      BY <1>3, <2>1, NextStepIsTheAuthors
    <3>2. QED
      BY <3>1 DEF WrittenBy
  <2>4. WrittenBy(r, e[2])'
    <3>1. step.by = e[2] /\ step \in steps'[r]
      BY <2>2
    <3> HIDE DEF step
    <3>2. QED
      BY <3>1, <2>2, <2>3 DEF WrittenBy
  <2>5. \A k \in 1..n : \E s \in steps'[r] : s.number = k
    <3>1. \A k \in 1..work[e].steps : \E s \in steps[r] : s.number = k
      BY <2>1 DEF IInv, LogOK, At, InLoop, Counted
    <3>2. \A k \in 1..n : k \in 1..work[e].steps \/ k = n
      BY <1>1
    <3>3. step.number = n /\ step \in steps'[r]
      BY <2>2
    <3>4. steps[r] \subseteq steps'[r]
      BY <2>2
    <3> HIDE DEF n, step
    <3> QED
      BY <3>1, <3>2, <3>3, <3>4
  <2>6. OneAuthor'
    <3>1. ASSUME NEW s \in steps'[r]
          PROVE  /\ \A t \in steps'[r] : t.by = s.by /\ (t.number = s.number => t = s)
                 /\ \A k \in 1..s.number : \E t \in steps'[r] : t.number = k
      <4>1. \A t \in steps'[r] : t.by = s.by
        BY <2>4, <3>1 DEF WrittenBy
      <4>2. \A t \in steps'[r] : t.number = s.number => t = s
        BY <3>1, <2>2, <1>3, <1>1 DEF StepTaken, IInv, LogOK, OneAuthor
      <4>3. \A k \in 1..s.number : \E t \in steps'[r] : t.number = k
        BY <3>1, <2>2, <2>5, <1>1 DEF IInv, LogOK, OneAuthor
      <4> QED
        BY <4>1, <4>2, <4>3
    <3> QED
      BY <3>1, <2>2 DEF IInv, LogOK, OneAuthor
  <2>7. \A q \in Run : \A s \in steps'[q] : s.number >= 1
    BY <2>2, <1>1 DEF IInv, LogOK
  <2>8. \A q \in Run, d \in Delivery : WrittenBy(q, d) => WrittenBy(q, d)'
    BY <2>2, <2>3 DEF WrittenBy
  <2>9. ASSUME NEW f \in Exec, work'[f].pc \in InLoop PROVE Counted(f)'
    <3>1. CASE f = e
      BY <3>1, <2>1, <2>4, <2>5 DEF Counted
    <3>2. CASE f # e
      <4>1. work'[f] = work[f] /\ Counted(f)
        BY <3>2, <2>1, <2>9 DEF IInv, LogOK
      <4>2. f[1] \in Run /\ f[2] \in Delivery
        BY ExecParts
      <4>3. QED
        BY <4>1, <4>2, <2>2, <2>8 DEF Counted
    <3> QED
      BY <3>1, <3>2
  <2>10. \A f \in Exec : work'[f].pc = "tools" => work'[f].steps > 0
    BY <2>1, <1>1 DEF IInv, LogOK
  <2>11. LogOK'
    BY <2>6, <2>7, <2>9, <2>10 DEF LogOK
  <2>12. \A f \in Exec : work[f].pc \in Finished => work'[f].pc \in Finished
    BY <2>1 DEF At, Finished
  <2>13. ASSUME NEW f \in Exec, invs[f] # "absent"
         PROVE  work'[f].pc \in Finished /\ WrittenBy(f[1], f[2])'
    <3>1. work[f].pc \in Finished /\ WrittenBy(f[1], f[2])
      BY <2>13 DEF IInv, ResultsOK
    <3>2. f[1] \in Run /\ f[2] \in Delivery
      BY ExecParts
    <3>3. QED
      BY <3>1, <3>2, <2>8, <2>12
  <2>14. \A q \in Run : Recorded(q) => <<q, ideas[q].by>> \in Exec /\ WrittenBy(q, ideas[q].by)'
    BY <2>1, <2>8 DEF IInv, ResultsOK, Exec
  <2>15. ResultsOK'
    <3>1. \A q \in Run : Recorded(q)' <=> Recorded(q)
      BY <2>1 DEF Recorded
    <3>2. \A q \in Run : Recorded(q) => work'[<<q, ideas[q].by>>].pc \in Finished
      BY <2>12, <2>14 DEF IInv, ResultsOK
    <3> QED
      BY <3>1, <3>2, <2>1, <2>13, <2>14 DEF IInv, ResultsOK
  <2> QED
    BY <2>11, <2>15
<1> QED
  BY <1>2, <1>3

\* The author of the log, which has counted a step, records the artefact and
\* leaves the loop.
LEMMA AtTools ==
  ASSUME IInv, NEW e \in Exec, At(e, "tools")
  PROVE  WrittenBy(e[1], e[2])
BY DEF IInv, LogOK, At, InLoop, Counted

LEMMA RecordBriefKeepsLog ==
  ASSUME IInv, NEW e \in Exec, RecordBrief(e)
  PROVE  LogOK' /\ ResultsOK'
<1>1. /\ \A f \in Exec \ {e} : work'[f] = work[f] /\ invs'[f] = invs[f]
      /\ work'[e].pc = "save" /\ steps' = steps /\ ideas' = ideas /\ At(e, "tools")
  BY DEF RecordBrief, LeaveDone, IInv, TypeOK, Local
<1>2. LogOK'
  BY <1>1 DEF IInv, LogOK, OneAuthor, Counted, WrittenBy, InLoop
<1>3. \A f \in Exec : work[f].pc \in Finished => work'[f].pc \in Finished
  BY <1>1 DEF Finished
<1>4. WrittenBy(e[1], e[2])
  BY <1>1, AtTools
<1>5. \A f \in Exec : invs'[f] # "absent" => work'[f].pc \in Finished /\ WrittenBy(f[1], f[2])'
  BY <1>1, <1>3, <1>4 DEF IInv, ResultsOK, WrittenBy, Finished
<1>6. \A r \in Run : Recorded(r) => <<r, ideas[r].by>> \in Exec
  BY DEF IInv, ResultsOK, Exec
<1> QED
  BY <1>1, <1>2, <1>3, <1>5, <1>6 DEF IInv, ResultsOK, Recorded, WrittenBy

LEMMA RecordIdeationKeepsLog ==
  ASSUME IInv, NEW e \in Exec, RecordIdeation(e)
  PROVE  LogOK' /\ ResultsOK'
<1>00. CASE ideas[e[1]] = NoIdea
  <2>1. /\ \A f \in Exec \ {e} : work'[f] = work[f]
        /\ Continues(e) /\ UNCHANGED <<steps, invs, ideas>>
    BY <1>00 DEF RecordIdeation, LeaveDone, At, Continues, Finished, IInv, TypeOK, Local
  <2>2. QED
    BY <2>1, WorkContinues
<1> SUFFICES ASSUME ideas[e[1]] # NoIdea PROVE LogOK' /\ ResultsOK'
  BY <1>00
<1>0. e[1] \in Run /\ e[2] \in Delivery /\ e = <<e[1], e[2]>>
  BY ExecParts
<1>1. /\ \A f \in Exec \ {e} : work'[f] = work[f]
      /\ work'[e].pc = "save" /\ steps' = steps /\ invs' = invs /\ At(e, "tools")
      /\ \A q \in Run \ {e[1]} : ideas'[q] = ideas[q]
  BY DEF RecordIdeation, LeaveDone, IInv, TypeOK, Local
<1>2. LogOK'
  BY <1>1 DEF IInv, LogOK, OneAuthor, Counted, WrittenBy, InLoop
<1>3. \A f \in Exec : work[f].pc \in Finished => work'[f].pc \in Finished
  BY <1>1 DEF Finished
<1>4. WrittenBy(e[1], e[2])
  BY <1>1, AtTools
<1>5. ideas[e[1]] \in Idea
  BY <1>0 DEF IInv, TypeOK
<1>6. ideas'[e[1]].by = e[2]
  BY <1>0, <1>5 DEF RecordIdeation, IInv, TypeOK, Idea
<1>7. \A f \in Exec : invs'[f] # "absent" => work'[f].pc \in Finished /\ WrittenBy(f[1], f[2])'
  BY <1>1, <1>3 DEF IInv, ResultsOK, WrittenBy
<1>8. ASSUME NEW r \in Run, Recorded(r)'
      PROVE  /\ ideas'[r].by \in Delivery
             /\ work'[<<r, ideas'[r].by>>].pc \in Finished
             /\ WrittenBy(r, ideas[r].by)'
  <2>1. CASE r = e[1]
    BY <2>1, <1>0, <1>1, <1>4, <1>6 DEF WrittenBy, Finished
  <2>2. CASE r # e[1]
    <3>1. ideas'[r] = ideas[r] /\ Recorded(r)
      BY <2>2, <1>1, <1>8 DEF Recorded
    <3>2. <<r, ideas[r].by>> \in Exec
      BY <3>1 DEF IInv, ResultsOK, Exec
    <3>3. QED
      BY <3>1, <3>2, <1>1, <1>3 DEF IInv, ResultsOK, WrittenBy
  <2> QED
    BY <2>1, <2>2
<1> QED
  BY <1>2, <1>7, <1>8 DEF ResultsOK

LEMMA LogStep ==
  ASSUME IInv, Next, TypeOK'
  PROVE  LogOK' /\ ResultsOK'
<1> USE DEF IInv
<1>1. ASSUME NEW r \in Run,
             \/ StartInvestigation(r) \/ Enqueue(r) \/ StartIdeationRun(r)
             \/ \E i \in Exec : PromoteOpen(i, r)
             \/ PromoteRollback(r) \/ Kill(r)
      PROVE  LogOK' /\ ResultsOK'
  <2>1. UNCHANGED <<steps, work, invs, ideas>>
    BY <1>1 DEF StartInvestigation, Enqueue, StartIdeationRun, PromoteOpen, PromoteRollback, Kill
  <2>2. QED
    BY <2>1, LogUntouched DEF Recorded
<1>2. ASSUME NEW r \in Run, (\E i \in Exec : ReIdeate(i, r)) \/ PromoteCommit(r)
      PROVE  LogOK' /\ ResultsOK'
  <2>1. /\ UNCHANGED <<steps, work>>
        /\ ideas'[r].status = "draft" /\ ideas'[r].by = 0
        /\ \A q \in Run \ {r} : ideas'[q] = ideas[q]
    BY <1>2 DEF ReIdeate, PromoteCommit, TypeOK
  <2>2. \A k \in Exec : invs'[k] # "absent" => invs[k] # "absent"
    BY <1>2 DEF ReIdeate, PromoteCommit, OpenedOK, TypeOK
  <2>3. QED
    BY <2>1, <2>2, LogUntouched DEF Recorded
<1>3. ASSUME NEW e \in Exec,
             Pickup(e) \/ Top(e) \/ Raise(e) \/ GoOn(e) \/ FinalText(e) \/ Save(e) \/ Crash(e)
      PROVE  LogOK' /\ ResultsOK'
  <2>1. /\ \A f \in Exec \ {e} : work'[f] = work[f]
        /\ UNCHANGED <<steps, invs, ideas>>
    BY <1>3 DEF Pickup, Top, Raise, GoOn, FinalText, Save, Crash, Vanish, Leave, LeaveDone, Goto,
                TypeOK
  <2>2. Continues(e)
    <3> USE DEF Continues, Finished, InLoop
    <3>0. work[e] \in Local
      BY DEF TypeOK
    <3>1. CASE Pickup(e)
      BY <3>1 DEF Pickup, At, Vanish, Waiting, TypeOK
    <3>2. CASE Top(e) \/ Raise(e) \/ GoOn(e) \/ FinalText(e)
      BY <3>0, <3>2 DEF Top, Raise, GoOn, FinalText, At, Leave, LeaveDone, Goto, TypeOK, Local
    <3>3. CASE Save(e) \/ Crash(e)
      BY <3>0, <3>3 DEF Save, Crash, At, Vanish, Waiting, Working, TypeOK
    <3> QED
      BY <1>3, <3>1, <3>2, <3>3
  <2> QED
    BY <2>1, <2>2, WorkContinues
<1>4. ASSUME NEW r \in Run, NEW verdict \in {"accepted", "rejected"}, Decide(r, verdict)
      PROVE  LogOK' /\ ResultsOK'
  <2>1. /\ UNCHANGED <<steps, work, invs>>
        /\ Recorded(r) /\ ideas'[r].by = ideas[r].by
        /\ \A q \in Run \ {r} : ideas'[q] = ideas[q]
    BY <1>4 DEF Decide, Recorded, NoIdea, TypeOK, Idea
  <2>2. QED
    BY <2>1, LogUntouched DEF Recorded
<1>5. ASSUME NEW i \in Exec, Reject(i) \/ MarkStale(i) PROVE LogOK' /\ ResultsOK'
  <2>1. /\ UNCHANGED <<steps, work, ideas>>
        /\ \A k \in Exec : invs'[k] # "absent" => invs[k] # "absent"
    BY <1>5 DEF Reject, MarkStale, TypeOK
  <2>2. QED
    BY <2>1, LogUntouched DEF Recorded
<1> QED
  BY <1>1, <1>2, <1>3, <1>4, <1>5, ReplyKeepsLog, RecordBriefKeepsLog, RecordIdeationKeepsLog
     DEF Next, Start, RunLoop, Continue, Human, Run

-----------------------------------------------------------------------------
(* Promotions                                                              *)

\* The ideation of run r, if there is one, stays the one of its investigation.
SameOrigin(r) ==
  \/ ideas'[r] = ideas[r]
  \/ /\ ideas[r] # NoIdea /\ ideas'[r] # NoIdea
     /\ ideas'[r].of = ideas[r].of /\ ideas'[r].trigger = ideas[r].trigger

\* Steps that change no investigation, no ideation's origin and no open
\* promotion, and give no row to a run that is being promoted.
LEMMA PromotionsUntouched ==
  ASSUME IInv, invs' = invs, opened' = opened,
         \A r \in Run : SameOrigin(r) /\ (opened[r] # NoInv => rows'[r] = NoRow)
  PROVE  OpenedOK' /\ PromotionsOK'
<1>1. OpenedOK'
  <2>1. \A r \in Run : ideas[r] = NoIdea => ideas'[r] = NoIdea
    BY DEF SameOrigin
  <2>2. QED
    BY <2>1 DEF IInv, OpenedOK
<1>2. \A r \in Run, i \in Exec : Promotes(r, i)' <=> Promotes(r, i)
  BY DEF Promotes, SameOrigin
<1> QED
  BY <1>1, <1>2 DEF IInv, PromotionsOK

LEMMA ReIdeateKeeps ==
  ASSUME IInv, NEW i \in Exec, NEW r \in IdeationRun, ReIdeate(i, r)
  PROVE  OpenedOK' /\ PromotionsOK'
<1>1. /\ r \in Run /\ opened[r] = NoInv /\ UNCHANGED <<rows, invs, opened>>
      /\ ideas[r] = NoIdea /\ ideas'[r].trigger = "manual"
      /\ \A q \in Run \ {r} : ideas'[q] = ideas[q]
  BY DEF ReIdeate, Unused, IInv, TypeOK, Run
<1>2. OpenedOK'
  BY <1>1 DEF IInv, OpenedOK
<1>3. \A q \in Run, k \in Exec : Promotes(q, k)' <=> Promotes(q, k)
  BY <1>1 DEF Promotes
<1> QED
  BY <1>1, <1>2, <1>3 DEF IInv, PromotionsOK

LEMMA PromoteOpenKeeps ==
  ASSUME IInv, NEW i \in Exec, NEW r \in IdeationRun, PromoteOpen(i, r)
  PROVE  OpenedOK' /\ PromotionsOK'
<1>1. /\ r \in Run /\ UNCHANGED <<rows, invs, ideas>>
      /\ opened'[r] = i /\ rows[r] = NoRow /\ ideas[r] = NoIdea /\ invs[i] = "awaiting_review"
      /\ \A q \in Run : opened[q] # i
      /\ \A q \in Run \ {r} : opened'[q] = opened[q]
  BY DEF PromoteOpen, Unused, Locked, IInv, TypeOK, Run
<1>2. OpenedOK'
  BY <1>1 DEF IInv, OpenedOK
<1> QED
  BY <1>1, <1>2 DEF IInv, PromotionsOK, Promotes

LEMMA PromoteCommitKeeps ==
  ASSUME IInv, NEW r \in IdeationRun, PromoteCommit(r)
  PROVE  OpenedOK' /\ PromotionsOK'
<1>0. PICK held \in Exec : held = opened[r]
  BY DEF PromoteCommit, IInv, OpenedOK, Run
<1>1. /\ r \in Run /\ ideas[r] = NoIdea /\ invs[held] = "awaiting_review"
      /\ \A q \in Run : opened[q] = held => q = r
  BY <1>0 DEF PromoteCommit, IInv, OpenedOK, Run
<1>2. /\ invs'[held] = "promoted" /\ \A k \in Exec \ {held} : invs'[k] = invs[k]
      /\ ideas'[r] = [status |-> "draft", of |-> held, trigger |-> "promote", by |-> 0]
      /\ \A q \in Run \ {r} : ideas'[q] = ideas[q] /\ rows'[q] = rows[q] /\ opened'[q] = opened[q]
      /\ opened'[r] = NoInv
  BY <1>0, <1>1 DEF PromoteCommit, IInv, TypeOK
<1>3. OpenedOK'
  BY <1>1, <1>2 DEF IInv, OpenedOK
<1>4. \A q \in Run : ~Promotes(q, held)
  <2>1. invs[held] \notin {"promoted", "stale"}
    BY <1>1
  <2>2. QED
    BY <1>1, <2>1 DEF IInv, PromotionsOK
<1>5. Promotes(r, held)' /\ \A k \in Exec : Promotes(r, k)' => k = held
  BY <1>2 DEF Promotes, NoIdea
<1>6. \A q \in Run \ {r}, k \in Exec : Promotes(q, k)' <=> Promotes(q, k)
  BY <1>2 DEF Promotes
<1>7. \A k \in Exec : ~Promotes(r, k)
  BY <1>1 DEF Promotes
<1>8. ASSUME NEW q \in Run, NEW k \in Exec, Promotes(q, k)'
      PROVE  /\ invs'[k] \in {"promoted", "stale"}
             /\ \A s \in Run : Promotes(s, k)' => s = q
  <2>1. CASE k = held
    <3>1. \A s \in Run : Promotes(s, k)' => s = r
      BY <2>1, <1>1, <1>4, <1>6
    <3>2. QED
      BY <2>1, <3>1, <1>2, <1>8
  <2>2. CASE k # held
    <3>1. \A s \in Run : Promotes(s, k)' => s # r /\ Promotes(s, k)
      BY <2>2, <1>5, <1>6
    <3>2. Promotes(q, k) /\ invs'[k] = invs[k]
      BY <2>2, <3>1, <1>2, <1>8
    <3>3. QED
      BY <3>1, <3>2 DEF IInv, PromotionsOK
  <2> QED
    BY <2>1, <2>2
<1>9. ASSUME NEW k \in Exec, invs'[k] = "promoted" PROVE \E q \in Run : Promotes(q, k)'
  <2>1. CASE k = held
    BY <2>1, <1>1, <1>5
  <2>2. CASE k # held
    <3>1. PICK q \in Run : Promotes(q, k)
      BY <2>2, <1>2, <1>9 DEF IInv, PromotionsOK
    <3>2. QED
      BY <3>1, <1>6, <1>7
  <2> QED
    BY <2>1, <2>2
<1> QED
  BY <1>3, <1>8, <1>9 DEF PromotionsOK

LEMMA PromoteRollbackKeeps ==
  ASSUME IInv, NEW r \in IdeationRun, PromoteRollback(r)
  PROVE  OpenedOK' /\ PromotionsOK'
<1>1. /\ UNCHANGED <<rows, invs, ideas>> /\ opened'[r] = NoInv /\ r \in Run
      /\ \A q \in Run \ {r} : opened'[q] = opened[q]
  BY DEF PromoteRollback, IInv, TypeOK, Run
<1>2. OpenedOK'
  BY <1>1 DEF IInv, OpenedOK
<1> QED
  BY <1>1, <1>2 DEF IInv, PromotionsOK, Promotes

\* An investigation that no promotion holds is reviewed or made stale.
LEMMA ReviewKeeps ==
  ASSUME IInv, NEW i \in Exec, ~Locked(i), UNCHANGED <<rows, ideas, opened>>,
         \A k \in Exec \ {i} : invs'[k] = invs[k],
         \/ invs'[i] = "stale"
         \/ invs[i] \in {"absent", "awaiting_review"} /\ invs'[i] \in {"awaiting_review", "rejected"}
  PROVE  OpenedOK' /\ PromotionsOK'
<1>1. OpenedOK'
  BY DEF IInv, OpenedOK, Locked
<1> QED
  BY <1>1 DEF IInv, PromotionsOK, Promotes

LEMMA PromotionsStep ==
  ASSUME IInv, Next
  PROVE  OpenedOK' /\ PromotionsOK'
<1> USE DEF IInv
<1>1. ASSUME NEW r \in Run, StartInvestigation(r) \/ Enqueue(r) \/ StartIdeationRun(r) \/ Kill(r)
      PROVE  OpenedOK' /\ PromotionsOK'
  <2>1. /\ UNCHANGED <<invs, ideas, opened>>
        /\ \A q \in Run : opened[q] # NoInv => rows'[q] = NoRow
    BY <1>1 DEF StartInvestigation, Enqueue, StartIdeationRun, Kill, Unused, OpenedOK, TypeOK
  <2>2. QED
    BY <2>1, PromotionsUntouched DEF SameOrigin
<1>2. ASSUME NEW e \in Exec,
             \/ Pickup(e) \/ Top(e) \/ (\E c \in StepCost : Reply(e, c)) \/ Raise(e) \/ GoOn(e)
             \/ FinalText(e) \/ Crash(e)
      PROVE  OpenedOK' /\ PromotionsOK'
  <2>1. UNCHANGED <<rows, invs, ideas, opened>>
    BY <1>2 DEF Pickup, Top, Reply, Raise, GoOn, FinalText, Crash
  <2>2. QED
    BY <2>1, PromotionsUntouched DEF OpenedOK, SameOrigin
<1>3. ASSUME NEW e \in Exec, Save(e) PROVE OpenedOK' /\ PromotionsOK'
  <2>1. rows[e[1]] # NoRow
    BY <1>3 DEF Save, At, RowsOK, Working
  <2>2. UNCHANGED <<invs, ideas, opened>> /\ \A q \in Run : opened[q] # NoInv => rows'[q] = NoRow
    BY <1>3, <2>1 DEF Save, OpenedOK, TypeOK
  <2>3. QED
    BY <2>2, PromotionsUntouched DEF SameOrigin
<1>4. ASSUME NEW e \in Exec, RecordBrief(e) PROVE OpenedOK' /\ PromotionsOK'
  <2>1. /\ invs[e] = "absent" /\ invs'[e] = "awaiting_review"
        /\ \A k \in Exec \ {e} : invs'[k] = invs[k]
        /\ UNCHANGED <<rows, ideas, opened>>
    BY <1>4 DEF RecordBrief, At, ResultsOK, Finished, TypeOK
  <2>2. ~Locked(e)
    <3>1. e # NoInv
      BY <1>4 DEF Exec, NoInv
    <3>2. QED
      BY <2>1, <3>1 DEF Locked, OpenedOK
  <2>3. QED
    BY <2>1, <2>2, ReviewKeeps
<1>5. ASSUME NEW e \in Exec, RecordIdeation(e) PROVE OpenedOK' /\ PromotionsOK'
  <2>0. CASE ideas[e[1]] = NoIdea
    <3>1. UNCHANGED <<rows, invs, ideas, opened>>
      BY <1>5, <2>0 DEF RecordIdeation
    <3>2. QED
      BY <3>1, PromotionsUntouched DEF SameOrigin, OpenedOK
  <2> SUFFICES ASSUME ideas[e[1]] # NoIdea PROVE OpenedOK' /\ PromotionsOK'
    BY <2>0
  <2>1. ideas[e[1]] \in Idea /\ e[1] \in Run
    BY ExecParts DEF TypeOK
  <2>2. /\ UNCHANGED <<rows, invs, opened>>
        /\ ideas[e[1]] # NoIdea
        /\ ideas'[e[1]] # NoIdea
        /\ ideas'[e[1]].of = ideas[e[1]].of /\ ideas'[e[1]].trigger = ideas[e[1]].trigger
        /\ \A q \in Run \ {e[1]} : ideas'[q] = ideas[q]
    <3> DEFINE recorded == [ideas[e[1]] EXCEPT !.status = "awaiting_review", !.by = e[2]]
    <3>1. ideas' = [ideas EXCEPT ![e[1]] = recorded] /\ UNCHANGED <<rows, invs, opened>>
      BY <1>5, <2>1 DEF RecordIdeation, TypeOK
    <3>2. /\ recorded # NoIdea /\ ideas[e[1]] # NoIdea
          /\ recorded.of = ideas[e[1]].of /\ recorded.trigger = ideas[e[1]].trigger
      <4>1. ideas[e[1]].status # "absent" /\ recorded.status = "awaiting_review"
        BY <2>1 DEF Idea
      <4>2. recorded.of = ideas[e[1]].of /\ recorded.trigger = ideas[e[1]].trigger
        BY <2>1 DEF Idea
      <4> HIDE DEF recorded
      <4>3. QED
        BY <4>1, <4>2 DEF NoIdea
    <3> HIDE DEF recorded
    <3>3. QED
      BY <3>1, <3>2, <2>1 DEF TypeOK
  <2>3. QED
    BY <2>2, PromotionsUntouched DEF OpenedOK, SameOrigin
<1>6. ASSUME NEW r \in Run, NEW verdict \in {"accepted", "rejected"}, Decide(r, verdict)
      PROVE  OpenedOK' /\ PromotionsOK'
  <2>1. ideas[r] \in Idea
    BY <1>6 DEF Decide, TypeOK, NoIdea
  <2>2. /\ UNCHANGED <<rows, invs, opened>>
        /\ ideas[r] # NoIdea
        /\ ideas'[r] # NoIdea
        /\ ideas'[r].of = ideas[r].of /\ ideas'[r].trigger = ideas[r].trigger
        /\ \A q \in Run \ {r} : ideas'[q] = ideas[q]
    BY <1>6, <2>1 DEF Decide, TypeOK, Idea, NoIdea
  <2>3. QED
    BY <2>2, PromotionsUntouched DEF OpenedOK, SameOrigin
<1>7. ASSUME NEW i \in Exec, Reject(i) \/ MarkStale(i) PROVE OpenedOK' /\ PromotionsOK'
  <2>1. /\ ~Locked(i) /\ UNCHANGED <<rows, ideas, opened>>
        /\ \A k \in Exec \ {i} : invs'[k] = invs[k]
        /\ \/ invs'[i] = "stale"
           \/ invs[i] = "awaiting_review" /\ invs'[i] = "rejected"
    BY <1>7 DEF Reject, MarkStale, TypeOK
  <2>2. QED
    BY <2>1, ReviewKeeps
<1> QED
  BY <1>1, <1>2, <1>3, <1>4, <1>5, <1>6, <1>7, ReIdeateKeeps, PromoteOpenKeeps, PromoteCommitKeeps,
     PromoteRollbackKeeps DEF Next, Start, RunLoop, Continue, Human, Run

-----------------------------------------------------------------------------
(* Theorems                                                                *)

\* The inductive invariant of the agent runs, for any number of runs, each
\* delivered any number of times.
THEOREM Invariance == Spec => []IInv
<1>1. IInv /\ Next => IInv'
  <2> SUFFICES ASSUME IInv, Next PROVE IInv'
    OBVIOUS
  <2>1. TypeOK'
    BY StartTypes, RunLoopTypes, OtherTypes DEF IInv, Next
  <2>2. QED
    BY <2>1, RowsStep, LogStep, PromotionsStep DEF IInv
<1>2. IInv /\ UNCHANGED vars => IInv'
  BY DEF IInv, vars, TypeOK, RowsOK, LogOK, OneAuthor, Counted, WrittenBy, ResultsOK, Recorded,
         OpenedOK, PromotionsOK, Promotes
<1>3. QED
  BY <1>1, <1>2, InitInv, PTL DEF Spec

\* Rows, steps and processes have the shapes the code gives them, and every
\* answer a tool may give fits the step's column.
THEOREM TypeCorrect == Spec => []TypeOK
<1>1. IInv => TypeOK
  BY DEF IInv
<1>2. QED
  BY <1>1, Invariance, PTL

\* However many times a run is delivered and however its executions overlap,
\* one of them writes its log.
THEOREM LogHasOneAuthor == Spec => []OneAuthor
<1>1. IInv => OneAuthor
  BY DEF IInv, LogOK
<1>2. QED
  BY <1>1, Invariance, PTL

\* The artefact a human reviews was recorded by the execution whose log it is.
THEOREM ArtefactIsTheAuthors == Spec => []OneResult
<1>1. IInv => OneResult
  <2> SUFFICES ASSUME IInv, NEW e \in Exec,
                      invs[e] # "absent" \/ (ideas[e[1]] # NoIdea /\ ideas[e[1]].by = e[2])
               PROVE  WrittenBy(e[1], e[2])
    BY DEF OneResult, WrittenBy
  <2>1. e[1] \in Run /\ e[2] \in Delivery /\ e[2] # 0
    BY ExecParts, DeliveriesAssumption DEF Delivery
  <2>2. QED
    BY <2>1 DEF IInv, ResultsOK, Recorded
<1>2. QED
  BY <1>1, Invariance, PTL

\* An investigation is promoted at most once and never in halves, however
\* promotions race, roll back and meet rejections, for any number of runs.
THEOREM PromotionIsOnce == Spec => []PromotedOnce
<1>1. IInv => PromotedOnce
  <2> SUFFICES ASSUME IInv, NEW i \in Exec
               PROVE  LET promotions == {r \in Run : Promotes(r, i)}
                      IN /\ Cardinality(promotions) <= 1
                         /\ invs[i] = "promoted" => promotions # {}
                         /\ invs[i] \in {"absent", "awaiting_review", "rejected"} => promotions = {}
    BY DEF PromotedOnce, Promotes
  <2> DEFINE promotions == {r \in Run : Promotes(r, i)}
  <2>1. Cardinality(promotions) <= 1
    <3>1. CASE promotions = {}
      BY <3>1, FS_EmptySet
    <3>2. CASE promotions # {}
      <4>1. PICK r \in Run : promotions = {r}
        BY <3>2 DEF IInv, PromotionsOK
      <4>2. QED
        BY <4>1, FS_Singleton
    <3> QED
      BY <3>1, <3>2
  <2>2. QED
    BY <2>1 DEF IInv, PromotionsOK
<1>2. QED
  BY <1>1, Invariance, PTL

\* No execution writes over what a human decided about an ideation.
THEOREM DecisionsAreFinal == Spec => DecisionStands
<1>1. IInv /\ [Next]_vars =>
        [\A r \in Run : ideas[r] # NoIdea /\ ideas[r].status \in {"accepted", "rejected"}
           => ideas'[r] = ideas[r]]_vars
  <2> SUFFICES ASSUME IInv, Next, NEW r \in Run, ideas[r] # NoIdea,
                      ideas[r].status \in {"accepted", "rejected"}
               PROVE  ideas'[r] = ideas[r]
    OBVIOUS
  <2>1. ASSUME NEW e \in Exec, RecordIdeation(e) PROVE ideas'[r] = ideas[r]
    <3>1. e[1] # r
      <4>1. SUFFICES ASSUME e[1] = r PROVE FALSE
        OBVIOUS
      <4>2. WrittenBy(r, e[2]) /\ work[e].pc = "tools" /\ e = <<r, e[2]>>
        BY <2>1, <4>1, AtTools, ExecParts DEF RecordIdeation, At
      <4>3. WrittenBy(r, ideas[r].by) /\ work[<<r, ideas[r].by>>].pc \in Finished
        BY DEF IInv, ResultsOK, Recorded
      <4>4. e[2] = ideas[r].by
        BY <4>2, <4>3 DEF WrittenBy
      <4>5. QED
        BY <4>2, <4>3, <4>4 DEF Finished
    <3>2. QED
      BY <2>1, <3>1 DEF RecordIdeation, IInv, TypeOK
  <2>2. ASSUME NEW q \in IdeationRun, NEW i \in Exec, ReIdeate(i, q) \/ PromoteCommit(q)
        PROVE  ideas'[r] = ideas[r]
    BY <2>2 DEF ReIdeate, PromoteCommit, Unused, IInv, TypeOK, OpenedOK, Run
  <2>3. ASSUME NEW q \in Run, NEW verdict \in {"accepted", "rejected"}, Decide(q, verdict)
        PROVE  ideas'[r] = ideas[r]
    <3>1. q # r
      BY <2>3 DEF Decide
    <3>2. QED
      BY <2>3, <3>1 DEF Decide, IInv, TypeOK
  <2>4. ASSUME NEW e \in Exec, RunLoop(e) \/ Crash(e) PROVE ideas'[r] = ideas[r]
    <3>1. CASE RecordIdeation(e)
      BY <2>1, <3>1
    <3>2. CASE ~RecordIdeation(e)
      BY <2>4, <3>2 DEF RunLoop, Continue, Crash, Pickup, Top, Reply, Raise, GoOn, RecordBrief, FinalText, Save
    <3>3. QED
      BY <3>1, <3>2
  <2>5. ASSUME Start PROVE ideas'[r] = ideas[r]
    <3>1. CASE \E q \in IdeationRun : PromoteCommit(q) \/ \E i \in Exec : ReIdeate(i, q)
      <4>1. PICK q \in IdeationRun : PromoteCommit(q) \/ \E i \in Exec : ReIdeate(i, q)
        BY <3>1
      <4>2. r \in Run /\ <<r, 1>> \in Exec
        BY DeliveriesAssumption DEF Exec, Delivery
      <4>3. QED
        BY <2>2, <4>1, <4>2
    <3>2. CASE ~\E q \in IdeationRun : PromoteCommit(q) \/ \E i \in Exec : ReIdeate(i, q)
      BY <2>5, <3>2 DEF Start, StartInvestigation, Enqueue, PromoteOpen, StartIdeationRun,
                        PromoteRollback
    <3>3. QED
      BY <3>1, <3>2
  <2>6. ASSUME Human PROVE ideas'[r] = ideas[r]
    BY <2>3, <2>6 DEF Human, Kill, Reject, MarkStale
  <2>7. QED
    BY <2>4, <2>5, <2>6 DEF Next
<1>2. QED
  BY <1>1, Invariance, PTL DEF Spec, DecisionStands

-----------------------------------------------------------------------------
(* Budgets                                                                 *)

\* What an execution in the loop has counted is what the log adds up to, once
\* it has written it; a step is asked for only while both are in the budget.
CountsOK(e) ==
  LET log == steps[e[1]] IN
  /\ work[e].steps = 0 => work[e].cost = 0
  /\ work[e].steps > 0 =>
       /\ Cardinality(log) = work[e].steps
       /\ Spent(log) = work[e].cost
       /\ \A s \in log : s.number <= work[e].steps
  /\ At(e, "model") => work[e].steps < MaxSteps[e[1]] /\ work[e].cost < MaxCost[e[1]]

BudgetInv ==
  /\ \A r \in Run : IsFiniteSet(steps[r])
  /\ \A e \in Exec : work[e].pc \in InLoop => CountsOK(e)
  /\ BudgetHolds

LEMMA InitBudget == Init => BudgetInv
BY FS_EmptySet DEF Init, BudgetInv, BudgetHolds, Waiting, InLoop

LEMMA SpentNothing == Spent({}) = 0
BY SumEmpty DEF Spent

\* The log with one more step costs as much more.
LEMMA SpentMore ==
  ASSUME NEW log \in SUBSET Step, IsFiniteSet(log), NEW s \in Step, s \notin log
  PROVE  Spent(log \cup {s}) = Spent(log) + s.cost /\ Spent(log) \in Nat
<1> DEFINE f == [t \in log |-> t.cost]
           g == [t \in log \cup {s} |-> t.cost]
<1>1. /\ \A t \in log : f[t] \in Nat /\ f[t] \in Int /\ g[t] = f[t]
      /\ \A t \in log \cup {s} : g[t] \in Int
      /\ g[s] = s.cost
  <2>1. \A t \in log \cup {s} : t.cost \in Nat
    BY BudgetAssumption DEF Step
  <2>2. /\ \A t \in log : f[t] = t.cost
        /\ \A t \in log \cup {s} : g[t] = t.cost
    OBVIOUS
  <2> HIDE DEF f, g
  <2> QED
    BY <2>1, <2>2
<1>2. /\ Spent(log) = SumFunctionOnSet(f, log)
      /\ Spent(log \cup {s}) = SumFunctionOnSet(g, log \cup {s})
  BY DEF Spent
<1> HIDE DEF f, g
<1>3. SumFunctionOnSet(f, log) \in Nat
  BY <1>1, SumNat
<1>4. SumFunctionOnSet(g, log) = SumFunctionOnSet(f, log)
  BY <1>1, SumEqual
<1>5. SumFunctionOnSet(g, log \cup {s}) = g[s] + SumFunctionOnSet(g, log)
  BY <1>1, SumAdd
<1>6. g[s] \in Int
  BY <1>1
<1> QED
  BY <1>1, <1>2, <1>3, <1>4, <1>5, <1>6

\* The log as it is, and an execution that begins to count, goes on counting
\* from where it was, or leaves the loop.
LEMMA BudgetUntouched ==
  ASSUME BudgetInv, steps' = steps, NEW e \in Exec, \A f \in Exec \ {e} : work'[f] = work[f],
         \/ work'[e].pc \notin InLoop
         \/ work'[e].pc = "top" /\ work'[e].steps = 0 /\ work'[e].cost = 0
         \/ /\ work[e].pc \in InLoop
            /\ work'[e].steps = work[e].steps /\ work'[e].cost = work[e].cost
            /\ work'[e].pc = "model" => /\ work[e].steps < MaxSteps[e[1]]
                                        /\ work[e].cost < MaxCost[e[1]]
  PROVE  BudgetInv'
<1>1. ASSUME NEW f \in Exec, work'[f].pc \in InLoop PROVE CountsOK(f)'
  <2>1. CASE f = e
    BY <1>1, <2>1 DEF BudgetInv, CountsOK, At, Spent
  <2>2. CASE f # e
    BY <1>1, <2>2 DEF BudgetInv, CountsOK, At, Spent
  <2> QED
    BY <2>1, <2>2
<1>2. BudgetHolds'
  BY DEF BudgetInv, BudgetHolds, Spent
<1> QED
  BY <1>1, <1>2 DEF BudgetInv

LEMMA ReplyInBudget ==
  ASSUME IInv, BudgetInv, NEW e \in Exec, NEW c \in StepCost, Reply(e, c)
  PROVE  BudgetInv'
<1> DEFINE r == e[1]
           n == work[e].steps + 1
           step == [number |-> n, cost |-> c, by |-> e[2]]
<1>1. /\ r \in Run /\ e[2] \in Delivery /\ e = <<r, e[2]>>
      /\ work[e] \in Local /\ work[e].steps \in Nat /\ work[e].cost \in Nat
      /\ MaxSteps[r] \in Nat /\ MaxCost[r] \in Nat /\ c \in Nat
  BY ExecParts, BudgetAssumption DEF IInv, TypeOK, Local, Run
<1>2. CASE StepTaken(r, n)
  <2>1. work' = [work EXCEPT ![e] = [work[e] EXCEPT !.steps = n, !.cost = @ + c, !.pc = "save",
                                       !.status = "failed", !.reason = "error"]]
    BY <1>2 DEF Reply
  <2>2. work'[e].pc = "save" /\ \A f \in Exec \ {e} : work'[f] = work[f]
    BY <2>1, <1>1 DEF IInv, TypeOK, Local
  <2>3. QED
    BY <1>2, <2>2, BudgetUntouched DEF Reply, InLoop
<1>3. CASE ~StepTaken(r, n)
  <2>1. /\ \A f \in Exec \ {e} : work'[f] = work[f]
        /\ work'[e].pc = "tools" /\ work'[e].steps = n /\ work'[e].cost = work[e].cost + c
        /\ steps' = [steps EXCEPT ![r] = @ \cup {step}]
        /\ At(e, "model")
    <3>1. work' = [work EXCEPT ![e] = [work[e] EXCEPT !.steps = n, !.cost = @ + c, !.pc = "tools"]]
      BY <1>3 DEF Reply
    <3>2. QED
      BY <1>1, <1>3, <3>1 DEF Reply, IInv, TypeOK, Local
  <2>2. steps'[r] = steps[r] \cup {step} /\ \A q \in Run \ {r} : steps'[q] = steps[q]
    BY <2>1, <1>1 DEF IInv, TypeOK
  <2>3. /\ steps[r] \in SUBSET Step /\ IsFiniteSet(steps[r])
        /\ step \in Step /\ step \notin steps[r] /\ step.number = n /\ step.cost = c
    BY <1>1, <1>3 DEF IInv, TypeOK, BudgetInv, Step, StepTaken
  <2>4. CountsOK(e)
    BY <2>1 DEF BudgetInv, At, InLoop
  <2> HIDE DEF step
  \* What the log was when the step was asked for.
  <2>5. /\ Cardinality(steps[r]) = work[e].steps
        /\ Spent(steps[r]) = work[e].cost
        /\ \A s \in steps[r] : s.number <= work[e].steps
    <3>1. CASE work[e].steps = 0
      <4>1. steps[r] = {}
        <5>1. CASE steps[r] # {}
          <6>1. PICK s \in steps[r] : s.number \in Nat /\ s.number >= 1
            BY <5>1, <1>1, <2>3 DEF IInv, LogOK, Step
          <6>2. 1 \in 1..s.number
            BY <6>1
          <6>3. \E t \in steps[r] : t.number = 1
            BY <6>1, <6>2, <1>1 DEF IInv, LogOK, OneAuthor
          <6>4. QED
            BY <6>3, <1>3, <3>1 DEF StepTaken
        <5>2. QED
          BY <5>1
      <4>2. QED
        BY <2>4, <3>1, <4>1, SpentNothing, FS_EmptySet DEF CountsOK
    <3>2. CASE work[e].steps > 0
      BY <2>4, <3>2 DEF CountsOK
    <3> QED
      BY <1>1, <3>1, <3>2
  <2>6. work[e].steps < MaxSteps[r] /\ work[e].cost < MaxCost[r]
    BY <2>1, <2>4 DEF CountsOK
  <2>7. IsFiniteSet(steps'[r]) /\ Cardinality(steps'[r]) = n
    <3>1. /\ IsFiniteSet(steps[r] \cup {step})
          /\ Cardinality(steps[r] \cup {step}) = Cardinality(steps[r]) + 1
      BY <2>3, FS_AddElement
    <3>2. QED
      BY <2>2, <2>5, <3>1
  <2>8. Spent(steps'[r]) = work'[e].cost
    BY <2>1, <2>2, <2>3, <2>5, SpentMore
  <2>9. \A s \in steps'[r] : s.number <= n
    BY <2>2, <2>3, <2>5, <1>1 DEF Step
  <2>10. CountsOK(e)'
    BY <2>1, <2>7, <2>8, <2>9, <1>1 DEF CountsOK, At
  \* Nobody else in the loop has counted a step of this run: the log is e's.
  <2>11. ASSUME NEW f \in Exec, f # e, work[f].pc \in InLoop PROVE CountsOK(f)'
    <3>1. f[1] \in Run /\ f[2] \in Delivery /\ work[f].steps \in Nat
      BY ExecParts DEF IInv, TypeOK, Local
    <3>2. CASE f[1] # r
      BY <2>1, <2>2, <2>11, <3>1, <3>2 DEF BudgetInv, CountsOK, At, Spent
    <3>3. CASE f[1] = r /\ work[f].steps = 0
      BY <2>1, <2>11, <3>3 DEF BudgetInv, CountsOK, At
    <3>4. CASE f[1] = r /\ work[f].steps > 0
      <4>1. WrittenBy(r, f[2])
        BY <2>11, <3>4 DEF IInv, LogOK, Counted
      <4>2. WrittenBy(r, e[2])
        BY <2>1, <4>1, <1>3, NextStepIsTheAuthors DEF WrittenBy
      <4>3. f[2] = e[2]
        BY <4>1, <4>2 DEF WrittenBy
      <4>4. QED
        BY <1>1, <2>11, <3>4, <4>3, ExecParts
    <3> QED
      BY <3>1, <3>2, <3>3, <3>4
  <2>12. BudgetHolds'
    <3>1. ASSUME NEW q \in Run, NEW s \in steps'[q]
          PROVE  LET before == {t \in steps'[q] : t.number < s.number}
                 IN Cardinality(before) < MaxSteps[q] /\ Spent(before) < MaxCost[q]
      <4>1. CASE q # r
        BY <3>1, <4>1, <2>2 DEF BudgetInv, BudgetHolds
      <4>2. CASE q = r /\ s = step
        <5>1. {t \in steps'[r] : t.number < n} = steps[r]
          BY <2>2, <2>3, <2>5, <1>1 DEF Step
        <5>2. QED
          BY <4>2, <5>1, <2>3, <2>5, <2>6
      <4>3. CASE q = r /\ s \in steps[r]
        <5>1. {t \in steps'[r] : t.number < s.number} = {t \in steps[r] : t.number < s.number}
          BY <4>3, <2>2, <2>3, <2>5, <1>1 DEF Step
        <5>2. QED
          BY <4>3, <5>1 DEF BudgetInv, BudgetHolds
      <4> QED
        BY <3>1, <4>1, <4>2, <4>3, <2>2
    <3> QED
      BY <3>1 DEF BudgetHolds, Spent
  <2>13. \A q \in Run : IsFiniteSet(steps'[q])
    BY <2>2, <2>7 DEF BudgetInv
  <2>14. ASSUME NEW f \in Exec, work'[f].pc \in InLoop PROVE CountsOK(f)'
    BY <2>1, <2>10, <2>11, <2>14
  <2> QED
    BY <2>12, <2>13, <2>14 DEF BudgetInv
<1> QED
  BY <1>2, <1>3

LEMMA StepInBudget == IInv /\ BudgetInv /\ [Next]_vars => BudgetInv'
<1> SUFFICES ASSUME IInv, BudgetInv, [Next]_vars PROVE BudgetInv'
  OBVIOUS
<1>1. CASE UNCHANGED <<steps, work>>
  BY <1>1 DEF BudgetInv, BudgetHolds, CountsOK, At, Spent
<1>2. ASSUME NEW e \in Exec, NEW c \in StepCost, Reply(e, c) PROVE BudgetInv'
  BY <1>2, ReplyInBudget
<1>3. ASSUME NEW e \in Exec, Pickup(e) PROVE BudgetInv'
  <2>1. /\ steps' = steps /\ work \in [Exec -> Local]
        /\ \E l : work' = [work EXCEPT ![e] = l]
             /\ \/ l.pc \notin InLoop
                \/ l.pc = "top" /\ l.steps = 0 /\ l.cost = 0
    BY <1>3 DEF Pickup, Vanish, IInv, TypeOK, InLoop, Waiting
  <2> QED
    BY <2>1, BudgetUntouched
<1>4. ASSUME NEW e \in Exec, Top(e) PROVE BudgetInv'
  <2>1. /\ steps' = steps /\ \A f \in Exec \ {e} : work'[f] = work[f]
        /\ work[e].pc \in InLoop
    BY <1>4 DEF Top, Leave, Goto, At, InLoop, IInv, TypeOK
  <2>2. \/ work'[e].pc \notin InLoop
        \/ /\ work'[e].steps = work[e].steps /\ work'[e].cost = work[e].cost
           /\ IsExhausted(e[1], work[e].steps, work[e].cost) = "none"
    BY <1>4 DEF Top, Leave, Goto, InLoop, IInv, TypeOK, Local
  <2>3. /\ work[e].steps \in Nat /\ work[e].cost \in Nat
        /\ MaxSteps[e[1]] \in Nat /\ MaxCost[e[1]] \in Nat
    BY ExecParts, BudgetAssumption DEF IInv, TypeOK, Local, Run
  <2>4. IsExhausted(e[1], work[e].steps, work[e].cost) = "none"
          => work[e].steps < MaxSteps[e[1]] /\ work[e].cost < MaxCost[e[1]]
    BY <2>3 DEF IsExhausted
  <2> QED
    BY <2>1, <2>2, <2>4, BudgetUntouched
<1>5. ASSUME NEW e \in Exec,
             \/ Raise(e) \/ RecordBrief(e) \/ RecordIdeation(e) \/ FinalText(e) \/ Save(e) \/ Crash(e)
      PROVE  BudgetInv'
  <2>1. /\ steps' = steps /\ \A f \in Exec \ {e} : work'[f] = work[f]
        /\ work'[e].pc \notin InLoop
    <3>1. work \in [Exec -> Local]
      BY DEF IInv, TypeOK
    <3>2. CASE Save(e) \/ Crash(e)
      BY <3>1, <3>2 DEF Save, Crash, Vanish, Waiting, InLoop
    <3>3. CASE Raise(e) \/ RecordBrief(e) \/ RecordIdeation(e) \/ FinalText(e)
      BY <3>1, <3>3 DEF Raise, RecordBrief, RecordIdeation, FinalText, Leave, LeaveDone, InLoop, Local
    <3> QED
      BY <1>5, <3>2, <3>3
  <2> QED
    BY <2>1, BudgetUntouched
<1>6. ASSUME NEW e \in Exec, GoOn(e) PROVE BudgetInv'
  <2>1. /\ steps' = steps /\ \A f \in Exec \ {e} : work'[f] = work[f]
        /\ work[e].pc \in InLoop /\ work'[e].pc = "top"
        /\ work'[e].steps = work[e].steps /\ work'[e].cost = work[e].cost
    BY <1>6 DEF GoOn, Goto, At, InLoop, IInv, TypeOK, Local
  <2> QED
    BY <2>1, BudgetUntouched
<1>7. CASE Start
  BY <1>1, <1>7 DEF Start, StartInvestigation, Enqueue, ReIdeate, PromoteOpen, StartIdeationRun,
                    PromoteCommit, PromoteRollback
<1>8. CASE Human
  BY <1>1, <1>8 DEF Human, Kill, Reject, MarkStale, Decide
<1> QED
  BY <1>1, <1>2, <1>3, <1>4, <1>5, <1>6, <1>7, <1>8 DEF Next, RunLoop, Continue, vars

\* No step is recorded in a log that has used up its budget already, for any
\* budgets, costs and number of overlapping executions.
THEOREM LogsStayInBudget == Spec => []BudgetHolds
<1>1. BudgetInv => BudgetHolds
  BY DEF BudgetInv
<1>2. QED
  BY <1>1, InitBudget, StepInBudget, Invariance, PTL DEF Spec

=============================================================================
