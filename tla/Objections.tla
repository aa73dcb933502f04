----------------------------- MODULE Objections -----------------------------
(***************************************************************************)
(* The objections of one discovery: which of them discovery/termination.py *)
(* counts as open, what it asks of a submission because of them, and what  *)
(* the report of discovery/reporting.py says when the dialogue is over.    *)
(*                                                                         *)
(* unresolved_objections replays all proposals, validations and judgments  *)
(* in the order of their turns, at every use.  Revisions never change, so  *)
(* the replay is kept here as state and carried one revision further by    *)
(* each commit.  DiscoveryStore models the transaction these rules run in: *)
(* here the submissions of the role whose turn it is come one by one.      *)
(*                                                                         *)
(* Abstractions: a business is its fingerprint; of a Finder's response     *)
(* counts whether it pivots (or abandons) and whether it cites evidence,   *)
(* and there is one response and one statement for each objection id; of a *)
(* resolution, whether it carries its rationale and evidence; evidence     *)
(* gaps (Evidence) are a Boolean of the proposal.  The limits that may     *)
(* stop a discovery at any time are left out: they only cut it short.      *)
(***************************************************************************)
EXTENDS Naturals

CONSTANTS
  MaxTurns,       \* config.max_turns
  JudgeEnabled,   \* config.judge_enabled
  Business,       \* the values of business_fingerprint
  Id,             \* the ids agents give to objections
  Nothing         \* no revision, no rejection, no statement

ASSUME MaxTurnsAssumption == MaxTurns \in Nat /\ MaxTurns >= 2
ASSUME JudgeAssumption    == JudgeEnabled \in BOOLEAN

VARIABLES
  turn,         \* turns_completed
  role,         \* whose task is open, or "nobody" at the end
  outcome,      \* "open", "converged", or "turn_limit"
  proposal,     \* the latest ProposalRevision
  validation,   \* the latest ValidationRevision
  judgment,     \* the latest JudgmentRevision
  rejected,     \* the businesses of the proposals a Judge rejected
  objections,   \* the replay: the severity of an open objection, or ...
  archived,     \* the replay: ids that count no more
  rejection,    \* the replay: the business of the last rejection
  rejectedIds,  \* the replay: the ids on the table at the last rejection
  standing      \* observed: criticals raised and never properly disposed of

replayVars == <<objections, archived, rejection, rejectedIds>>
vars == <<turn, role, outcome, proposal, validation, judgment, rejected,
          replayVars, standing>>

Turns == 1..MaxTurns

-----------------------------------------------------------------------------
(* Submissions                                                             *)

Severities == {"critical", "major", "minor"}
Material == {"critical", "major"}

\* accept, rebut and narrow are an answer; pivot and abandon are a pivot.
Pivots == {"pivot", "cited_pivot"}
Cited == {"cited_answer", "cited_pivot"}
Responses == {"none", "answer"} \cup Pivots \cup Cited

\* What a review says of an objection: its severity, and whether the review
\* calls it resolved, barely or with a rationale and evidence.
Statements == [severity: Severities, resolved: {"no", "bare", "evidenced"}]

Proposals == [business: Business, responses: [Id -> Responses], gaps: BOOLEAN]

Reviews(verdicts) ==
  [verdict: verdicts, stated: [Id -> Statements \cup {Nothing}], resolvedIds: SUBSET Id]

Validations == Reviews({"challenge", "accept", "reject"})
Judgments == Reviews({"approve", "revise", "reject"})

\* What a commit stores of them, with the turn it was made in.
ProposalRevisions ==
  [turn: Turns, business: Business, responses: [Id -> Responses], gaps: BOOLEAN]
ValidationRevisions ==
  [turn: Turns, proposal: Turns, verdict: {"challenge", "accept", "reject"}]
JudgmentRevisions ==
  [proposal: Turns, validation: Turns, verdict: {"approve", "revise", "reject"},
   ids: SUBSET Id]

ASSUME NothingAssumption ==
  Nothing \notin Business \cup Statements \cup ProposalRevisions
                  \cup ValidationRevisions \cup JudgmentRevisions

States(r, i) == r.stated[i] # Nothing
Leaves(r, i) == States(r, i) /\ r.stated[i].resolved = "no"
Resolves(r, i) == States(r, i) /\ r.stated[i].resolved # "no"
Evidenced(r, i) == States(r, i) /\ r.stated[i].resolved = "evidenced"

\* resolutions of require_agreement: by a statement or by the id alone.
Resolutions(r) == r.resolvedIds \cup {i \in Id : Resolves(r, i)}

-----------------------------------------------------------------------------
(* The replay: unresolved_objections                                       *)

Open == {i \in Id : objections[i] \in Severities}
OpenCritical == {i \in Id : objections[i] = "critical"}

\* The proposal is for another business than the one before it.
Moves(p) == proposal # Nothing /\ p.business # proposal.business

\* A cited pivot archives the objection it names; once the Judge has rejected
\* another business, any pivot archives all that was on the table then.
ArchivedBy(p) ==
  archived
    \cup {i \in Id : Moves(p) /\ p.responses[i] = "cited_pivot"}
    \cup {i \in rejectedIds : p.business # rejection
                                /\ \E k \in Id : p.responses[k] \in Pivots}

\* A review states objections, the last word on each counting, and then
\* resolves some by their id.
ReviewedObjections(r) ==
  LET stated == [i \in Id |->
        IF ~States(r, i) \/ i \in archived THEN objections[i]
        ELSE IF Resolves(r, i) THEN "resolved" ELSE r.stated[i].severity]
  IN [i \in Id |-> IF i \in r.resolvedIds /\ stated[i] # "absent" THEN "resolved"
                   ELSE stated[i]]

ReplayProposal(p) ==
  /\ archived' = ArchivedBy(p)
  /\ objections' = [i \in Id |-> IF i \in ArchivedBy(p) THEN "absent" ELSE objections[i]]
  /\ UNCHANGED <<rejection, rejectedIds>>

ReplayReview(r, noGo) ==
  /\ objections' = ReviewedObjections(r)
  /\ rejection' = IF noGo THEN proposal.business ELSE rejection
  /\ rejectedIds' = IF noGo THEN {i \in Id : ReviewedObjections(r)[i] # "absent"}
                    ELSE rejectedIds
  /\ UNCHANGED archived

-----------------------------------------------------------------------------
(* What submissions must satisfy                                           *)

\* require_judge_feedback: after a judgment the Finder answers what the Judge
\* left open and never returns to a rejected business; the first answer to a
\* rejection pivots.
FeedbackAnswered(p) ==
  LET required == {i \in Open : i \in judgment.ids} IN
  judgment # Nothing =>
    /\ \A i \in required : p.responses[i] # "none"
    /\ p.business \notin rejected
    /\ judgment.verdict = "reject" /\ judgment.proposal = proposal.turn =>
         \E i \in required : p.responses[i] \in Pivots

\* Validation.acceptance_shape and Judgment.approval_shape.
WellFormedValidation(v) ==
  v.verdict = "accept" => \A i \in Id : Leaves(v, i) => v.stated[i].severity # "critical"

WellFormedJudgment(j) ==
  IF j.verdict = "approve"
  THEN \A i \in Id : Leaves(j, i) => j.stated[i].severity \notin Material
  ELSE \E i \in Id : States(j, i)

\* Variant: an acceptance need not resolve what is open.
AcceptanceOverIssues(v) ==
  /\ \A i \in OpenCritical :
       States(v, i) /\ v.stated[i].severity # "critical" => i \in Resolutions(v)
  /\ \A i \in Id : Resolves(v, i) /\ v.stated[i].severity = "critical" => Evidenced(v, i)
  /\ \A i \in Resolutions(v) \cap OpenCritical : proposal.responses[i] \in Cited
  /\ v.verdict = "accept" => ~proposal.gaps

\* require_agreement, whatever the verdict: an open critical objection stays
\* critical unless resolved, and is resolved only if the Finder's proposal
\* answers it with evidence; an acceptance resolves all of them.
AgreementAllowed(v) ==
  /\ \A i \in OpenCritical :
       States(v, i) /\ v.stated[i].severity # "critical" => i \in Resolutions(v)
  /\ \A i \in Id : Resolves(v, i) /\ v.stated[i].severity = "critical" => Evidenced(v, i)
  /\ \A i \in Resolutions(v) \cap OpenCritical : proposal.responses[i] \in Cited
  /\ v.verdict = "accept" => ~proposal.gaps /\ OpenCritical \subseteq Resolutions(v)

\* Variant: the id alone resolves an objection for the Judge.
ApprovalById(j) ==
  /\ \A i \in Id : Resolves(j, i) /\ j.stated[i].severity \in Material => Evidenced(j, i)
  /\ j.verdict = "approve" => proposal.business \notin rejected

\* require_judge_approval: an approval states, resolved with evidence, every
\* critical or major objection still open, and the Finder has answered it.
ApprovalAllowed(j) ==
  /\ \A i \in Id : Resolves(j, i) /\ j.stated[i].severity \in Material => Evidenced(j, i)
  /\ j.verdict = "approve" =>
       /\ proposal.business \notin rejected
       /\ \A i \in Id : objections[i] \in Material =>
            Evidenced(j, i) /\ proposal.responses[i] # "none"

-----------------------------------------------------------------------------
(* Observation: a critical objection stands from the review that leaves it *)
(* unresolved until a review resolves it with the Finder's cited answer at *)
(* hand, or the Finder leaves the business with a cited pivot from it.     *)

StandingAfterProposal(p) ==
  {s \in standing : ~(Moves(p) /\ p.responses[s[1]] = "cited_pivot")}

StandingAfterReview(r) ==
  LET raised == {i \in Id : /\ Leaves(r, i) /\ r.stated[i].severity = "critical"
                            /\ i \notin r.resolvedIds /\ i \notin archived}
      disposed == {i \in Resolutions(r) : proposal.responses[i] \in Cited}
  IN {s \in standing : s[1] \notin disposed} \cup (raised \X {proposal.business})

-----------------------------------------------------------------------------
(* Turns                                                                   *)

\* The turn is over: the agents agree, or its reader is next, if any turn is.
EndTurn(agreed, next) ==
  /\ turn' = turn + 1
  /\ outcome' = IF agreed THEN "converged"
                ELSE IF turn' = MaxTurns THEN "turn_limit" ELSE "open"
  /\ role' = IF outcome' = "open" THEN next ELSE "nobody"

Propose(p) ==
  /\ role = "finder"
  /\ FeedbackAnswered(p)
  /\ proposal' = [turn |-> turn + 1, business |-> p.business,
                  responses |-> p.responses, gaps |-> p.gaps]
  /\ ReplayProposal(p)
  /\ standing' = StandingAfterProposal(p)
  /\ EndTurn(FALSE, "validator")
  /\ UNCHANGED <<validation, judgment, rejected>>

Validate(v) ==
  /\ role = "validator"
  /\ WellFormedValidation(v)
  /\ AgreementAllowed(v)
  /\ validation' = [turn |-> turn + 1, proposal |-> proposal.turn, verdict |-> v.verdict]
  /\ ReplayReview(v, FALSE)
  /\ standing' = StandingAfterReview(v)
  /\ EndTurn(v.verdict = "accept" /\ ~JudgeEnabled,
             IF v.verdict = "accept" THEN "judge" ELSE "finder")
  /\ UNCHANGED <<proposal, judgment, rejected>>

Assess(j) ==
  /\ role = "judge"
  /\ WellFormedJudgment(j)
  /\ ApprovalAllowed(j)
  /\ judgment' = [proposal |-> proposal.turn, validation |-> validation.turn,
                  verdict |-> j.verdict, ids |-> {i \in Id : States(j, i)}]
  /\ rejected' = IF j.verdict = "reject" THEN rejected \cup {proposal.business} ELSE rejected
  /\ ReplayReview(j, j.verdict = "reject")
  /\ standing' = StandingAfterReview(j)
  /\ EndTurn(j.verdict = "approve", "finder")
  /\ UNCHANGED <<proposal, validation>>

Init ==
  /\ turn = 0
  /\ role = "finder"
  /\ outcome = "open"
  /\ proposal = Nothing
  /\ validation = Nothing
  /\ judgment = Nothing
  /\ rejected = {}
  /\ objections = [i \in Id |-> "absent"]
  /\ archived = {}
  /\ rejection = Nothing
  /\ rejectedIds = {}
  /\ standing = {}

Next ==
  \/ \E p \in Proposals : Propose(p)
  \/ \E v \in Validations : Validate(v)
  \/ \E j \in Judgments : Assess(j)

Spec == Init /\ [][Next]_vars

-----------------------------------------------------------------------------
(* The report                                                              *)

\* The validation and the judgment that are about the final proposal.
FinalReview ==
  IF validation # Nothing /\ validation.proposal = proposal.turn THEN validation ELSE Nothing

\* Variant: the latest judgment, whatever proposal it is about.
LatestJudgment == judgment

CurrentJudgment ==
  IF /\ judgment # Nothing /\ FinalReview # Nothing
     /\ judgment.proposal = proposal.turn /\ judgment.validation = FinalReview.turn
  THEN judgment ELSE Nothing

JudgeApproved ==
  /\ CurrentJudgment # Nothing /\ CurrentJudgment.verdict = "approve"
  /\ FinalReview # Nothing /\ FinalReview.verdict = "accept"

Label ==
  CASE JudgeEnabled /\ JudgeApproved -> "judge_approved"
    [] JudgeEnabled /\ ~JudgeApproved /\ CurrentJudgment # Nothing ->
         IF CurrentJudgment.verdict = "reject" THEN "judge_no_go" ELSE "judge_revision"
    [] JudgeEnabled /\ CurrentJudgment = Nothing /\ FinalReview # Nothing
         /\ FinalReview.verdict = "accept" -> "not_judged"
    [] OTHER -> outcome

\* "Final assessment" rather than "Strongest remaining candidate".
FinalAssessment == JudgeApproved \/ (~JudgeEnabled /\ outcome = "converged")
-----------------------------------------------------------------------------
(* Properties                                                              *)

\* Every variable has its type.
TypeOK ==
  /\ turn \in 0..MaxTurns
  /\ role \in {"finder", "validator", "judge", "nobody"}
  /\ outcome \in {"open", "converged", "turn_limit"}
  /\ proposal \in ProposalRevisions \cup {Nothing}
  /\ validation \in ValidationRevisions \cup {Nothing}
  /\ judgment \in JudgmentRevisions \cup {Nothing}
  /\ rejected \subseteq Business
  /\ objections \in [Id -> Severities \cup {"absent", "resolved"}]
  /\ archived \subseteq Id
  /\ rejection \in Business \cup {Nothing}
  /\ rejectedIds \subseteq Id
  /\ standing \subseteq Id \X Business

\* Agreement is never reached over a critical objection that was raised and
\* neither resolved on a cited answer nor left behind by a cited pivot:
\* restating it with a lower severity, not mentioning it, resolving it by its
\* id or moving to another business without citing evidence does not make
\* the rules of discovery/termination.py lose it.  One raised against a
\* business the Judge rejected is out of the way: that business is not agreed
\* on either.
AgreedIsClear ==
  outcome = "converged" =>
    /\ proposal.business \notin rejected
    /\ \A s \in standing : s[2] \in rejected

\* The report of a discovery that converged lists no critical objection as
\* unresolved and, with a Judge, no major one: those raised before were settled
\* by the agreement, and the agreement raises none.
NothingMaterialLeft ==
  outcome = "converged" =>
    Open \cap {i \in Id : objections[i] \in IF JudgeEnabled THEN Material ELSE {"critical"}} = {}

\* Whenever a report is rendered, it presents the candidate as assessed exactly
\* if the discovery converged, calls it agreed but not judged only if the
\* acceptance was the last word, and reports a no-go or a request for revision
\* only if no revision came after it (reporting.py: current_judgment).
ReportIsTrue ==
  /\ FinalAssessment <=> outcome = "converged"
  /\ Label = "not_judged" => turn = validation.turn
  /\ Label \in {"judge_no_go", "judge_revision"} => turn = validation.turn + 1

\* A Finder who has another business to offer can offer it, whatever objections
\* the Judge made: a cited pivot from every one of them is always enough
\* (docs/discovery.md:27-28, "a no-go requires a materially different
\* opportunity within the original objective").  Judgments that resolve what
\* they state are set aside.
NoGoHasAWayOut ==
  role = "finder" /\ (judgment # Nothing => \A i \in judgment.ids : objections[i] # "resolved") =>
    \A b \in Business \ rejected :
      FeedbackAnswered([business |-> b, responses |-> [i \in Id |-> "cited_pivot"],
                        gaps |-> FALSE])
=============================================================================
