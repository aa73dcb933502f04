-------------------------- MODULE ObjectionsProofs --------------------------
(***************************************************************************)
(* Proofs about Objections, for every set of objection ids and businesses, *)
(* every number of turns, with and without a Judge.                        *)
(***************************************************************************)
EXTENDS Objections, Evidence, TLAPS

-----------------------------------------------------------------------------
(* The inductive invariant                                                 *)

\* Who may speak, and what that says of the revisions on record.
Phase ==
  /\ outcome = "open" <=> role # "nobody"
  /\ outcome = "open" => turn < MaxTurns
  /\ role \in {"validator", "judge"} =>
       /\ proposal \in ProposalRevisions
       /\ proposal.business \notin rejected
  /\ role = "judge" => JudgeEnabled /\ validation \in ValidationRevisions
  /\ judgment = Nothing => rejected = {}

\* A rejection has just been recorded, and no proposal came after it.
JustRejected ==
  /\ role \in {"finder", "nobody"}
  /\ judgment # Nothing
  /\ judgment.verdict = "reject"
  /\ judgment.proposal = proposal.turn
  /\ rejection \in rejected

\* What was on the table at a rejection is archived by the next proposal.
Archive ==
  /\ \A i \in archived : objections[i] = "absent"
  /\ ~JustRejected => rejectedIds \subseteq archived

\* A critical objection that stands is open, or is against a business that
\* was rejected.
Criticals ==
  /\ \A s \in standing : s[2] \in rejected \/ objections[s[1]] = "critical"
  /\ \A s \in standing : s[1] \in rejectedIds => s[2] \in rejected
  /\ role = "judge" => OpenCritical = {}

IInv ==
  /\ TypeOK
  /\ Phase
  /\ Archive
  /\ Criticals
  /\ AgreedIsClear
  /\ NothingMaterialLeft

-----------------------------------------------------------------------------
(* What a review does to the objections                                    *)

\* An objection that is open after a review was open before and the review
\* neither states nor resolves it, or it is what the review leaves unresolved.
LEMMA OpenAfterReview ==
  ASSUME NEW r, NEW i \in Id, ReviewedObjections(r)[i] \in Severities
  PROVE  /\ i \notin r.resolvedIds
         /\ \/ i \notin archived /\ Leaves(r, i) /\ ReviewedObjections(r)[i] = r.stated[i].severity
            \/ (i \in archived \/ ~States(r, i)) /\ ReviewedObjections(r)[i] = objections[i]
BY DEF ReviewedObjections, Severities, Leaves, Resolves, States

\* A critical objection the review does not resolve and does not lower stays
\* critical, and one it raises is critical from then on.
LEMMA CriticalAfterReview ==
  ASSUME NEW r, NEW i \in Id, i \notin Resolutions(r),
         \/ objections[i] = "critical" /\ (States(r, i) => r.stated[i].severity = "critical")
         \/ i \notin archived /\ Leaves(r, i) /\ r.stated[i].severity = "critical"
  PROVE  ReviewedObjections(r)[i] = "critical"
BY DEF ReviewedObjections, Resolutions, Leaves, Resolves, States

\* Archived ids stay away from the table.
LEMMA ArchivedAfterReview ==
  ASSUME NEW r, NEW i \in Id, i \in archived, objections[i] = "absent"
  PROVE  ReviewedObjections(r)[i] = "absent"
BY DEF ReviewedObjections

LEMMA ReviewedType ==
  ASSUME NEW vs, NEW r \in Reviews(vs), objections \in [Id -> Severities \cup {"absent", "resolved"}]
  PROVE  ReviewedObjections(r) \in [Id -> Severities \cup {"absent", "resolved"}]
BY DEF ReviewedObjections, Reviews, Statements, States, Resolves

-----------------------------------------------------------------------------
LEMMA InitInv == Init => IInv
BY MaxTurnsAssumption
   DEF Init, IInv, TypeOK, Phase, Archive, Criticals, AgreedIsClear, NothingMaterialLeft

LEMMA EndTurnPhase ==
  ASSUME TypeOK, Phase, NEW agreed \in BOOLEAN, NEW next \in {"finder", "validator", "judge"},
         role # "nobody", EndTurn(agreed, next)
  PROVE  /\ turn' \in 0..MaxTurns
         /\ role' \in {next, "nobody"}
         /\ outcome' \in {"open", "converged", "turn_limit"}
         /\ outcome' = "converged" <=> agreed
         /\ outcome' = "open" <=> role' # "nobody"
         /\ outcome' = "open" => turn' < MaxTurns
         /\ turn + 1 \in Turns
BY MaxTurnsAssumption DEF EndTurn, TypeOK, Phase, Turns
-----------------------------------------------------------------------------
(* A proposal                                                              *)

LEMMA ProposePreserves ==
  ASSUME IInv, NEW p \in Proposals, Propose(p)
  PROVE  IInv'
<1> USE DEF IInv
<1>1. PICK agreed \in BOOLEAN, next \in {"finder", "validator", "judge"} :
        EndTurn(agreed, next) /\ ~agreed /\ next = "validator"
  BY DEF Propose
<1>2. /\ turn' \in 0..MaxTurns /\ role' \in {"validator", "nobody"}
      /\ outcome' \in {"open", "turn_limit"}
      /\ outcome' = "open" <=> role' # "nobody"
      /\ outcome' = "open" => turn' < MaxTurns
      /\ turn + 1 \in Turns
  BY <1>1, EndTurnPhase DEF Propose
<1>3. proposal' \in ProposalRevisions /\ proposal'.business = p.business
  BY <1>2 DEF Propose, Proposals, ProposalRevisions
<1>4. archived \subseteq ArchivedBy(p) /\ ArchivedBy(p) \subseteq Id
  BY DEF ArchivedBy, TypeOK
<1>5. /\ archived' = ArchivedBy(p)
      /\ objections' = [i \in Id |-> IF i \in ArchivedBy(p) THEN "absent" ELSE objections[i]]
      /\ rejection' = rejection /\ rejectedIds' = rejectedIds /\ rejected' = rejected
      /\ standing' = StandingAfterProposal(p)
      /\ validation' = validation /\ judgment' = judgment
  BY DEF Propose, ReplayProposal
<1>6. objections' \in [Id -> Severities \cup {"absent", "resolved"}]
  BY <1>5 DEF TypeOK
<1>7. standing' \subseteq standing
  BY <1>5 DEF StandingAfterProposal
<1>8. TypeOK'
  BY <1>2, <1>3, <1>4, <1>5, <1>6, <1>7 DEF TypeOK
<1>9. p.business \in rejected => judgment = Nothing
  BY DEF Propose, FeedbackAnswered
<1>10. rejectedIds \subseteq ArchivedBy(p)
  <2>1. CASE ~JustRejected
    BY <2>1, <1>4 DEF Archive
  <2>2. CASE JustRejected
    <3>1. PICK i \in Id : p.responses[i] \in Pivots
      BY <2>2 DEF JustRejected, Propose, FeedbackAnswered, Open
    <3>2. p.business # rejection
      BY <2>2, <1>9 DEF JustRejected
    <3>3. QED
      BY <3>1, <3>2 DEF ArchivedBy
  <2>3. QED
    BY <2>1, <2>2
<1>11. Archive'
  BY <1>5, <1>10, <1>4 DEF Archive
<1>12. \A s \in standing' : s[1] \in rejectedIds => s[2] \in rejected
  BY <1>7 DEF Criticals
<1>13. ASSUME NEW s \in standing', s[2] \notin rejected
       PROVE  objections'[s[1]] = "critical"
  <2>1. s \in standing /\ s[1] \in Id /\ objections[s[1]] = "critical"
    BY <1>7, <1>13 DEF Criticals, TypeOK
  <2>2. s[1] \notin archived /\ s[1] \notin rejectedIds
    BY <2>1, <1>13 DEF Archive, Criticals
  <2>3. ~(Moves(p) /\ p.responses[s[1]] = "cited_pivot")
    BY <1>5 DEF StandingAfterProposal
  <2>4. s[1] \notin ArchivedBy(p)
    BY <2>2, <2>3 DEF ArchivedBy
  <2>5. QED
    BY <2>1, <2>4, <1>5
<1>14. Criticals'
  BY <1>2, <1>5, <1>12, <1>13 DEF Criticals
<1>15. Phase'
  <2>1. proposal'.business \notin rejected'
    BY <1>3, <1>5, <1>9 DEF Phase
  <2>2. QED
    BY <1>2, <1>3, <1>5, <2>1 DEF Phase
<1>16. AgreedIsClear' /\ NothingMaterialLeft'
  BY <1>2 DEF AgreedIsClear, NothingMaterialLeft
<1>17. QED
  BY <1>8, <1>11, <1>14, <1>15, <1>16
-----------------------------------------------------------------------------
(* A review                                                                *)

\* After a review, what stands is open or was raised against a rejected
\* business, provided the review may not lower or close what is critical
\* without a cited answer.
LEMMA StandingIsOpen ==
  ASSUME IInv, NEW vs, NEW r \in Reviews(vs), NEW s \in StandingAfterReview(r),
         s[2] \notin rejected,
         \A i \in OpenCritical :
           /\ States(r, i) /\ r.stated[i].severity # "critical" => i \in Resolutions(r)
           /\ i \in Resolutions(r) => proposal.responses[i] \in Cited
  PROVE  /\ s[1] \in Id /\ s[1] \notin archived
         /\ ReviewedObjections(r)[s[1]] = "critical"
         /\ s \in standing \/ (Leaves(r, s[1]) /\ r.stated[s[1]].severity = "critical"
                               /\ s[2] = proposal.business)
<1> USE DEF IInv
<1>1. CASE s \in standing /\ ~(s[1] \in Resolutions(r) /\ proposal.responses[s[1]] \in Cited)
  <2>1. s[1] \in Id /\ objections[s[1]] = "critical"
    BY <1>1 DEF Criticals, TypeOK
  <2>2. s[1] \notin archived
    BY <2>1 DEF Archive
  <2>3. s[1] \notin Resolutions(r) /\ (States(r, s[1]) => r.stated[s[1]].severity = "critical")
    BY <1>1, <2>1 DEF OpenCritical
  <2>4. QED
    BY <1>1, <2>1, <2>2, <2>3, CriticalAfterReview
<1>2. CASE /\ s[1] \in Id /\ Leaves(r, s[1]) /\ r.stated[s[1]].severity = "critical"
           /\ s[1] \notin r.resolvedIds /\ s[1] \notin archived
           /\ s[2] = proposal.business
  <2>1. s[1] \notin Resolutions(r)
    BY <1>2 DEF Resolutions, Leaves, Resolves
  <2>2. QED
    BY <1>2, <2>1, CriticalAfterReview
<1>3. QED
  BY <1>1, <1>2 DEF StandingAfterReview

LEMMA ValidatePreserves ==
  ASSUME IInv, NEW v \in Validations, Validate(v)
  PROVE  IInv'
<1> USE DEF IInv
<1> DEFINE agreed == v.verdict = "accept" /\ ~JudgeEnabled
           next == IF v.verdict = "accept" THEN "judge" ELSE "finder"
<1>1. agreed \in BOOLEAN /\ next \in {"finder", "validator", "judge"} /\ EndTurn(agreed, next)
  BY DEF Validate
<1>2. /\ turn' \in 0..MaxTurns /\ role' \in {next, "nobody"}
      /\ outcome' \in {"open", "converged", "turn_limit"}
      /\ outcome' = "converged" <=> agreed
      /\ outcome' = "open" <=> role' # "nobody"
      /\ outcome' = "open" => turn' < MaxTurns
      /\ turn + 1 \in Turns
  <2> HIDE DEF agreed, next
  <2>1. QED
    BY <1>1, EndTurnPhase DEF Validate
<1>3. /\ role = "validator" /\ proposal \in ProposalRevisions
      /\ proposal.business \in Business /\ proposal.turn \in Turns
      /\ proposal.business \notin rejected
  BY DEF Validate, Phase, ProposalRevisions
<1>4. /\ archived' = archived /\ rejectedIds' = rejectedIds /\ rejection' = rejection
      /\ objections' = ReviewedObjections(v) /\ standing' = StandingAfterReview(v)
      /\ proposal' = proposal /\ judgment' = judgment /\ rejected' = rejected
  BY DEF Validate, ReplayReview
<1>5. v \in Reviews({"challenge", "accept", "reject"})
      /\ v.verdict \in {"challenge", "accept", "reject"}
  BY DEF Validations, Reviews
<1>6. validation' \in ValidationRevisions
  BY <1>2, <1>3, <1>5 DEF Validate, ValidationRevisions
<1>7. standing' \subseteq Id \X Business
  BY <1>3, <1>4 DEF StandingAfterReview, TypeOK
<1>8. TypeOK'
  <2>1. objections' \in [Id -> Severities \cup {"absent", "resolved"}]
    BY <1>4, <1>5, ReviewedType DEF TypeOK
  <2>2. role' \in {"finder", "validator", "judge", "nobody"}
    BY <1>2
  <2>3. QED
    BY <1>2, <1>4, <1>6, <1>7, <2>1, <2>2 DEF TypeOK
<1>9. rejectedIds \subseteq archived
  BY <1>3 DEF Archive, JustRejected
<1>10. Archive'
  BY <1>4, <1>9, ArchivedAfterReview DEF Archive, TypeOK
<1>11. \A i \in OpenCritical :
         /\ States(v, i) /\ v.stated[i].severity # "critical" => i \in Resolutions(v)
         /\ i \in Resolutions(v) => proposal.responses[i] \in Cited
  BY DEF Validate, AgreementAllowed
<1>12. ASSUME v.verdict = "accept", NEW i \in Id PROVE objections'[i] # "critical"
  <2> SUFFICES ASSUME ReviewedObjections(v)[i] = "critical" PROVE FALSE
    BY <1>4
  <2>1. i \notin v.resolvedIds
        /\ \/ i \notin archived /\ Leaves(v, i) /\ v.stated[i].severity = "critical"
           \/ (i \in archived \/ ~States(v, i)) /\ objections[i] = "critical"
    BY OpenAfterReview DEF Severities
  <2>2. ~(Leaves(v, i) /\ v.stated[i].severity = "critical")
    BY <1>12 DEF Validate, WellFormedValidation
  <2>3. i \notin archived /\ i \in OpenCritical /\ ~States(v, i)
    BY <2>1, <2>2 DEF Archive, OpenCritical
  <2>4. i \in Resolutions(v)
    BY <2>3, <1>12 DEF Validate, AgreementAllowed
  <2>5. QED
    BY <2>1, <2>3, <2>4 DEF Resolutions, Resolves
<1>13. Criticals'
  <2>1. ASSUME NEW s \in standing' PROVE s[2] \in rejected' \/ objections'[s[1]] = "critical"
    BY <1>4, <1>5, <1>11, StandingIsOpen
  <2>2. ASSUME NEW s \in standing', s[1] \in rejectedIds' PROVE s[2] \in rejected'
    <3>1. CASE s[2] \notin rejected
      <4>1. s[1] \notin archived
        BY <1>4, <1>5, <1>11, <3>1, StandingIsOpen
      <4>2. QED
        BY <4>1, <1>9, <1>4, <2>2
    <3>2. QED
      BY <3>1, <1>4
  <2>3. role' = "judge" => v.verdict = "accept"
    BY <1>2
  <2>4. (OpenCritical = {})' <=> \A i \in Id : objections'[i] # "critical"
    BY DEF OpenCritical
  <2>5. QED
    BY <2>1, <2>2, <2>3, <2>4, <1>12 DEF Criticals
<1>14. Phase'
  BY <1>2, <1>3, <1>4, <1>6, JudgeAssumption DEF Phase
<1>15. AgreedIsClear'
  BY <1>2, <1>3, <1>4, <1>12, <1>13, <1>7 DEF AgreedIsClear, Criticals
<1>16. NothingMaterialLeft'
  <2>1. outcome' = "converged" => v.verdict = "accept" /\ ~JudgeEnabled
    BY <1>2
  <2>2. QED
    BY <2>1, <1>12 DEF NothingMaterialLeft
<1>17. QED
  BY <1>8, <1>10, <1>13, <1>14, <1>15, <1>16
LEMMA AssessPreserves ==
  ASSUME IInv, NEW j \in Judgments, Assess(j)
  PROVE  IInv'
<1> USE DEF IInv
<1> DEFINE agreed == j.verdict = "approve"
<1>1. agreed \in BOOLEAN /\ EndTurn(agreed, "finder")
  BY DEF Assess
<1>2. /\ turn' \in 0..MaxTurns /\ role' \in {"finder", "nobody"}
      /\ outcome' \in {"open", "converged", "turn_limit"}
      /\ outcome' = "converged" <=> agreed
      /\ outcome' = "open" <=> role' # "nobody"
      /\ outcome' = "open" => turn' < MaxTurns
      /\ turn + 1 \in Turns
  <2> HIDE DEF agreed
  <2>1. QED
    BY <1>1, EndTurnPhase DEF Assess
<1>3. /\ role = "judge" /\ proposal \in ProposalRevisions /\ validation \in ValidationRevisions
      /\ proposal.business \in Business /\ proposal.turn \in Turns /\ validation.turn \in Turns
      /\ proposal.business \notin rejected /\ OpenCritical = {}
  BY DEF Assess, Phase, Criticals, ProposalRevisions, ValidationRevisions
<1>4. j \in Reviews({"approve", "revise", "reject"})
      /\ j.verdict \in {"approve", "revise", "reject"}
  BY DEF Judgments, Reviews
<1>5. /\ archived' = archived /\ objections' = ReviewedObjections(j)
      /\ standing' = StandingAfterReview(j)
      /\ proposal' = proposal /\ validation' = validation
      /\ rejected' = IF j.verdict = "reject" THEN rejected \cup {proposal.business} ELSE rejected
      /\ rejection' = IF j.verdict = "reject" THEN proposal.business ELSE rejection
      /\ rejectedIds' = IF j.verdict = "reject"
                        THEN {i \in Id : ReviewedObjections(j)[i] # "absent"} ELSE rejectedIds
      /\ judgment' = [proposal |-> proposal.turn, validation |-> validation.turn,
                      verdict |-> j.verdict, ids |-> {i \in Id : States(j, i)}]
  BY DEF Assess, ReplayReview
<1>6. judgment' \in JudgmentRevisions /\ judgment' # Nothing
      /\ judgment'.verdict = j.verdict /\ judgment'.proposal = proposal.turn
  <2>1. judgment' \in JudgmentRevisions
    BY <1>3, <1>4, <1>5 DEF JudgmentRevisions
  <2>2. QED
    BY <1>5, <2>1, NothingAssumption
<1>7. standing' \subseteq Id \X Business
  BY <1>3, <1>5 DEF StandingAfterReview, TypeOK
<1>8. TypeOK'
  <2>1. objections' \in [Id -> Severities \cup {"absent", "resolved"}]
    BY <1>4, <1>5, ReviewedType DEF TypeOK
  <2>2. QED
    BY <1>2, <1>3, <1>5, <1>6, <1>7, <2>1 DEF TypeOK
<1>9. rejectedIds \subseteq archived
  BY <1>3 DEF Archive, JustRejected
<1>10. Archive'
  <2>1. \A i \in archived' : objections'[i] = "absent"
    BY <1>5, ArchivedAfterReview DEF Archive, TypeOK
  <2>2. CASE j.verdict = "reject"
    BY <2>1, <2>2, <1>2, <1>5, <1>6 DEF Archive, JustRejected
  <2>3. CASE j.verdict # "reject"
    BY <2>1, <2>3, <1>5, <1>9 DEF Archive
  <2>4. QED
    BY <2>2, <2>3
<1>11. ASSUME NEW s \in standing', s[2] \notin rejected'
       PROVE  /\ j.verdict # "reject" /\ s[1] \notin archived
              /\ objections'[s[1]] = "critical"
              /\ s[1] \in Id /\ Leaves(j, s[1]) /\ j.stated[s[1]].severity = "critical"
  <2>1. s[2] \notin rejected
    BY <1>11, <1>5
  <2>2. s \notin standing
    BY <2>1, <1>3 DEF Criticals, OpenCritical, TypeOK
  <2>3. /\ s[1] \in Id /\ s[1] \notin archived /\ ReviewedObjections(j)[s[1]] = "critical"
        /\ Leaves(j, s[1]) /\ j.stated[s[1]].severity = "critical" /\ s[2] = proposal.business
    BY <2>1, <2>2, <1>3, <1>4, <1>5, StandingIsOpen
  <2>4. QED
    BY <2>3, <1>5, <1>11
<1>12. Criticals'
  <2>1. ASSUME NEW s \in standing', s[1] \in rejectedIds' PROVE s[2] \in rejected'
    BY <2>1, <1>5, <1>9, <1>11
  <2>2. QED
    BY <2>1, <1>2, <1>11 DEF Criticals
<1>13. Phase'
  BY <1>2, <1>6 DEF Phase
<1>14. AgreedIsClear'
  <2> SUFFICES ASSUME j.verdict = "approve" PROVE AgreedIsClear'
    BY <1>2 DEF AgreedIsClear
  <2>1. \A i \in Id : Leaves(j, i) => j.stated[i].severity # "critical"
    BY DEF Assess, WellFormedJudgment, Material
  <2>2. \A s \in standing' : s[2] \in rejected'
    BY <2>1, <1>11
  <2>3. proposal'.business \notin rejected'
    BY <1>3, <1>5
  <2>4. QED
    BY <2>2, <2>3 DEF AgreedIsClear
<1>15. NothingMaterialLeft'
  <2> SUFFICES ASSUME j.verdict = "approve", NEW i \in Id, ReviewedObjections(j)[i] \in Material
               PROVE  FALSE
    BY <1>2, <1>5 DEF NothingMaterialLeft, Material
  <2>1. \/ i \notin archived /\ Leaves(j, i) /\ j.stated[i].severity \in Material
        \/ (i \in archived \/ ~States(j, i)) /\ objections[i] \in Material
    BY OpenAfterReview DEF Material, Severities
  <2>2. ~(Leaves(j, i) /\ j.stated[i].severity \in Material)
    BY DEF Assess, WellFormedJudgment
  <2>3. i \notin archived /\ ~States(j, i) /\ objections[i] \in Material
    BY <2>1, <2>2 DEF Archive, Material
  <2>4. Evidenced(j, i)
    BY <2>3 DEF Assess, ApprovalAllowed
  <2>5. QED
    BY <2>3, <2>4 DEF Evidenced
<1>16. QED
  BY <1>8, <1>10, <1>12, <1>13, <1>14, <1>15

-----------------------------------------------------------------------------
(* Theorems                                                                *)

LEMMA StepInv == IInv /\ [Next]_vars => IInv'
<1> SUFFICES ASSUME IInv, [Next]_vars PROVE IInv'
  OBVIOUS
<1>1. CASE UNCHANGED vars
  BY <1>1 DEF IInv, TypeOK, Phase, Archive, JustRejected, Criticals, OpenCritical,
              AgreedIsClear, NothingMaterialLeft, Open, vars, replayVars
<1>2. CASE \E p \in Proposals : Propose(p)
  BY <1>2, ProposePreserves
<1>3. CASE \E v \in Validations : Validate(v)
  BY <1>3, ValidatePreserves
<1>4. CASE \E j \in Judgments : Assess(j)
  BY <1>4, AssessPreserves
<1>5. QED
  BY <1>1, <1>2, <1>3, <1>4 DEF Next

\* The rules of discovery/termination.py keep IInv: whatever the agents hand
\* over in whatever order the turns take, what was on the table at a rejection
\* is archived by the next proposal and a standing critical objection is open.
THEOREM Invariance == Spec => []IInv
<1>1. Init => IInv
  BY InitInv
<1>2. IInv /\ [Next]_vars => IInv'
  BY StepInv
<1>3. QED
  BY <1>1, <1>2, PTL DEF Spec

\* Every variable of the replay and of the dialogue keeps its type.
THEOREM TypeCorrect == Spec => []TypeOK
<1>1. IInv => TypeOK
  BY DEF IInv
<1>2. QED
  BY <1>1, Invariance, PTL

\* No agreement of any agents passes over a critical objection that was neither
\* answered with evidence nor left behind with it, and none is about a business
\* a Judge has rejected.
THEOREM AgreementIsClear == Spec => []AgreedIsClear
<1>1. IInv => AgreedIsClear
  BY DEF IInv
<1>2. QED
  BY <1>1, Invariance, PTL

\* The report of an agreement lists no unresolved objection that matters.
THEOREM NothingMaterialStaysOpen == Spec => []NothingMaterialLeft
<1>1. IInv => NothingMaterialLeft
  BY DEF IInv
<1>2. QED
  BY <1>1, Invariance, PTL
-----------------------------------------------------------------------------
(* The report                                                              *)

\* Whoever spoke last, the revisions on record are about each other as the
\* turns were: earlier ones are about earlier proposals and reviews.
NothingSaid == proposal = Nothing /\ validation = Nothing /\ judgment = Nothing

ProposalIsLast ==
  /\ proposal # Nothing /\ proposal.turn = turn
  /\ validation # Nothing => validation.proposal < turn
  /\ outcome # "converged"

ValidationIsLast ==
  /\ proposal # Nothing /\ validation # Nothing
  /\ validation.turn = turn /\ validation.proposal = proposal.turn
  /\ judgment # Nothing => judgment.validation < turn
  /\ outcome = "converged" <=> validation.verdict = "accept" /\ ~JudgeEnabled

JudgmentIsLast ==
  /\ JudgeEnabled
  /\ proposal # Nothing /\ validation # Nothing /\ judgment # Nothing
  /\ validation.turn + 1 = turn /\ validation.proposal = proposal.turn
  /\ validation.verdict = "accept"
  /\ judgment.proposal = proposal.turn /\ judgment.validation = validation.turn
  /\ outcome = "converged" <=> judgment.verdict = "approve"

Records ==
  /\ (NothingSaid /\ outcome # "converged") \/ ProposalIsLast \/ ValidationIsLast \/ JudgmentIsLast
  /\ role = "validator" => ProposalIsLast
  /\ role = "judge" => ValidationIsLast /\ validation.verdict = "accept"
  /\ validation # Nothing => validation.proposal <= turn /\ validation.turn <= turn
  /\ judgment # Nothing => JudgeEnabled /\ judgment.validation <= turn

LEMMA ReportFromRecords ==
  ASSUME TypeOK, Records
  PROVE  ReportIsTrue
<1>1. CASE NothingSaid /\ outcome # "converged"
  BY <1>1 DEF NothingSaid, TypeOK, ReportIsTrue, FinalAssessment, JudgeApproved, Label,
              CurrentJudgment, FinalReview
<1>2. CASE ProposalIsLast
  <2>1. FinalReview = Nothing
    BY <1>2 DEF ProposalIsLast, FinalReview, TypeOK, ProposalRevisions, ValidationRevisions, Turns
  <2>2. CurrentJudgment = Nothing /\ ~JudgeApproved
    BY <2>1 DEF CurrentJudgment, JudgeApproved
  <2> QED
    BY <1>2, <2>1, <2>2 DEF ProposalIsLast, TypeOK, ReportIsTrue, FinalAssessment, Label
<1>3. CASE ValidationIsLast
  <2>1. FinalReview = validation
    BY <1>3 DEF ValidationIsLast, FinalReview
  <2>2. CurrentJudgment = Nothing
    BY <1>3, <2>1 DEF ValidationIsLast, CurrentJudgment, TypeOK, JudgmentRevisions,
                      ValidationRevisions, Turns
  <2>3. ~JudgeApproved
    BY <2>2 DEF JudgeApproved
  <2> QED
    BY <1>3, <2>1, <2>2, <2>3 DEF ValidationIsLast, TypeOK, ReportIsTrue, FinalAssessment, Label
<1>4. CASE JudgmentIsLast
  <2>1. FinalReview = validation /\ CurrentJudgment = judgment
    BY <1>4 DEF JudgmentIsLast, FinalReview, CurrentJudgment
  <2>2. JudgeApproved <=> outcome = "converged"
    BY <1>4, <2>1 DEF JudgmentIsLast, JudgeApproved
  <2>3. turn = validation.turn + 1 /\ Label # "not_judged"
    BY <1>4, <2>1, <2>2 DEF JudgmentIsLast, Label, TypeOK
  <2> QED
    BY <1>4, <2>2, <2>3 DEF JudgmentIsLast, ReportIsTrue, FinalAssessment
<1> QED
  BY <1>1, <1>2, <1>3, <1>4 DEF Records

LEMMA ProposeRecords ==
  ASSUME IInv, Records, NEW p \in Proposals, Propose(p)
  PROVE  Records'
<1>1. turn \in Nat /\ turn' = turn + 1 /\ outcome' # "converged" /\ role' \in {"validator", "nobody"}
  BY DEF Propose, EndTurn, IInv, TypeOK
<1>2. proposal' # Nothing /\ proposal'.turn = turn'
  BY <1>1, NothingAssumption, MaxTurnsAssumption
     DEF Propose, Proposals, ProposalRevisions, Turns, IInv, TypeOK, Phase
<1>3. validation' = validation /\ judgment' = judgment
  BY DEF Propose
<1>4. /\ validation # Nothing => /\ validation.turn \in Nat /\ validation.proposal \in Nat
                                 /\ validation.turn <= turn /\ validation.proposal <= turn
      /\ judgment # Nothing => /\ judgment.validation \in Nat /\ JudgeEnabled
                               /\ judgment.validation <= turn
  BY DEF Records, IInv, TypeOK, ValidationRevisions, JudgmentRevisions, Turns
<1>5. ProposalIsLast'
  BY <1>1, <1>2, <1>3, <1>4 DEF ProposalIsLast
<1> QED
  BY <1>1, <1>3, <1>4, <1>5 DEF Records

LEMMA ValidateRecords ==
  ASSUME IInv, Records, NEW v \in Validations, Validate(v)
  PROVE  Records'
<1>1. /\ turn \in Nat /\ turn' = turn + 1 /\ role' \in {"finder", "judge", "nobody"}
      /\ role' = "judge" => v.verdict = "accept"
      /\ outcome' = "converged" <=> v.verdict = "accept" /\ ~JudgeEnabled
  BY DEF Validate, EndTurn, IInv, TypeOK
<1>2. proposal' = proposal /\ judgment' = judgment /\ proposal \in ProposalRevisions
  BY DEF Validate, IInv, Phase
<1>3. proposal # Nothing /\ proposal.turn = turn /\ proposal.turn \in Nat
  BY <1>2 DEF Records, ProposalIsLast, Validate, ProposalRevisions, Turns
<1>4. /\ validation'.turn = turn' /\ validation'.proposal = proposal.turn
      /\ validation'.verdict = v.verdict
  BY <1>1 DEF Validate
<1>5. validation' # Nothing
  <2>1. validation' \in ValidationRevisions
    BY <1>1, <1>3, MaxTurnsAssumption
       DEF Validate, Validations, Reviews, ValidationRevisions, Turns, IInv, TypeOK, Phase,
           ProposalRevisions
  <2> QED
    BY <2>1, NothingAssumption
<1>6. judgment # Nothing => /\ judgment.validation \in Nat /\ JudgeEnabled
                            /\ judgment.validation <= turn
  BY DEF Records, IInv, TypeOK, JudgmentRevisions, Turns
<1>7. ValidationIsLast'
  BY <1>1, <1>2, <1>3, <1>4, <1>5, <1>6 DEF ValidationIsLast
<1> QED
  BY <1>1, <1>2, <1>3, <1>4, <1>5, <1>6, <1>7 DEF Records

LEMMA AssessRecords ==
  ASSUME IInv, Records, NEW j \in Judgments, Assess(j)
  PROVE  Records'
<1>1. /\ turn \in Nat /\ turn' = turn + 1 /\ role' \in {"finder", "nobody"}
      /\ outcome' = "converged" <=> j.verdict = "approve"
  BY DEF Assess, EndTurn, IInv, TypeOK
<1>2. ValidationIsLast /\ validation.verdict = "accept" /\ JudgeEnabled
  BY DEF Assess, Records, IInv, Phase
<1>3. proposal' = proposal /\ validation' = validation
  BY DEF Assess
<1>4. /\ judgment'.proposal = proposal.turn /\ judgment'.validation = validation.turn
      /\ judgment'.verdict = j.verdict
  BY DEF Assess
<1>5. judgment' # Nothing
  <2>1. judgment' \in JudgmentRevisions
    BY <1>2 DEF Assess, Judgments, Reviews, JudgmentRevisions, ValidationIsLast, IInv, TypeOK,
                ProposalRevisions, ValidationRevisions
  <2> QED
    BY <2>1, NothingAssumption
<1>6. proposal.turn \in Nat /\ validation.turn \in Nat /\ validation.proposal \in Nat
  BY <1>2 DEF ValidationIsLast, IInv, TypeOK, ProposalRevisions, ValidationRevisions, Turns
<1>7. JudgmentIsLast'
  BY <1>1, <1>2, <1>3, <1>4, <1>5 DEF ValidationIsLast, JudgmentIsLast
<1>8. validation.proposal <= turn
  BY DEF Records, ValidationIsLast, Assess
<1> QED
  BY <1>1, <1>2, <1>3, <1>4, <1>5, <1>6, <1>7, <1>8 DEF Records, ValidationIsLast

LEMMA RecordsStep == IInv /\ Records /\ [Next]_vars => Records'
<1> SUFFICES ASSUME IInv, Records, [Next]_vars PROVE Records'
  OBVIOUS
<1>1. CASE UNCHANGED vars
  BY <1>1 DEF Records, NothingSaid, ProposalIsLast, ValidationIsLast, JudgmentIsLast, vars,
              replayVars
<1>2. CASE Next
  BY <1>2, ProposeRecords, ValidateRecords, AssessRecords DEF Next
<1> QED
  BY <1>1, <1>2

\* Whenever a report is rendered it says what was agreed: a judgment or a
\* review that is not of the latest revision is never taken for the last word.
THEOREM ReportTellsTheTruth == Spec => []ReportIsTrue
<1>1. Init => Records
  BY DEF Init, Records, NothingSaid
<1>2. IInv /\ Records /\ [Next]_vars => Records'
  BY RecordsStep
<1>3. IInv /\ Records => ReportIsTrue
  BY ReportFromRecords DEF IInv
<1> QED
  BY <1>1, <1>2, <1>3, Invariance, PTL DEF Spec

-----------------------------------------------------------------------------
(* The evidence that a proposal cites: when its gaps are empty.            *)

\* What is accepted as two sources is two: among the evidence cited there are
\* two texts that are no search snippets, are not copies of each other and do
\* not go back to one origin.
THEOREM TwoSources ==
  ASSUME NEW demand, NEW competitors,
         \A e \in demand \cup competitors : e.at \in Int,
         \A e, f \in demand \cup competitors : e.at = f.at => e = f,
         NoGaps(demand, competitors)
  PROVE  \E e, f \in demand \cup competitors :
           /\ e.kind # "search_snippet" /\ f.kind # "search_snippet"
           /\ e.content # f.content
           /\ SourceOrigin(e) # SourceOrigin(f)
<1> DEFINE cited == demand \cup competitors
<1>1. PICK s, t \in Origins(cited) : s # t
  BY DEF NoGaps
<1>2. PICK e \in Counted(cited) : s = SourceOrigin(e)
  BY DEF Origins
<1>3. PICK f \in Counted(cited) : t = SourceOrigin(f)
  BY DEF Origins
<1>4. /\ e \in cited /\ f \in cited
      /\ e.kind # "search_snippet" /\ f.kind # "search_snippet"
  BY DEF Counted, Usable
<1>5. SourceOrigin(e) # SourceOrigin(f)
  BY <1>1, <1>2, <1>3
<1>6. e.content # f.content
  <2> SUFFICES ASSUME e.content = f.content PROVE FALSE
    OBVIOUS
  <2>1. e.at <= f.at /\ f.at <= e.at
    BY DEF Counted
  <2>2. e.at = f.at
    BY <2>1, <1>4
  <2>3. e = f
    BY <2>2, <1>4
  <2> QED
    BY <2>3, <1>5
<1> QED
  BY <1>4, <1>5, <1>6

\* A text that is published again on another site adds nothing: citing a later
\* copy of cited evidence leaves the origins that count as they are.
THEOREM CopiesAddNothing ==
  ASSUME NEW cited, NEW original \in Usable(cited), NEW copy,
         \A e \in cited \cup {copy} : e.at \in Int,
         copy.content = original.content,
         original.at < copy.at
  PROVE  Origins(cited \cup {copy}) = Origins(cited)
<1>1. original \in cited
  BY DEF Usable
<1>2. copy \notin Counted(cited \cup {copy})
  <2>1. original \in Usable(cited \cup {copy})
    BY DEF Usable
  <2>2. ~ (copy.at <= original.at)
    BY <1>1
  <2> QED
    BY <2>1, <2>2 DEF Counted
<1>3. copy \notin Counted(cited)
  <2>1. ~ (copy.at <= original.at)
    BY <1>1
  <2> QED
    BY <2>1 DEF Counted
<1>4. ASSUME NEW e PROVE e \in Counted(cited) <=> e \in Counted(cited \cup {copy})
  <2>1. ASSUME e \in Counted(cited) PROVE e \in Counted(cited \cup {copy})
    <3>1. e \in Usable(cited) /\ e \in cited
      BY <2>1 DEF Counted, Usable
    <3>2. ASSUME NEW f \in Usable(cited \cup {copy}), f.content = e.content
          PROVE  e.at <= f.at
      <4>1. CASE f \in Usable(cited)
        BY <2>1, <3>2, <4>1 DEF Counted
      <4>2. CASE f = copy
        <5>1. e.at <= original.at
          BY <2>1, <3>2, <4>2 DEF Counted
        <5> QED
          BY <5>1, <4>2, <1>1, <3>1
      <4> QED
        BY <4>1, <4>2 DEF Usable
    <3>3. e \in Usable(cited \cup {copy})
      BY <3>1 DEF Usable
    <3> QED
      BY <3>2, <3>3 DEF Counted
  <2>2. ASSUME e \in Counted(cited \cup {copy}) PROVE e \in Counted(cited)
    <3>1. e \in Usable(cited)
      BY <2>2, <1>2 DEF Counted, Usable
    <3>2. Usable(cited) \subseteq Usable(cited \cup {copy})
      BY DEF Usable
    <3> QED
      BY <2>2, <3>1, <3>2 DEF Counted
  <2> QED
    BY <2>1, <2>2
<1>5. Counted(cited) = Counted(cited \cup {copy})
  BY <1>4
<1> QED
  BY <1>5 DEF Origins
=============================================================================
