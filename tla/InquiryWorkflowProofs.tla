------------------------ MODULE InquiryWorkflowProofs ------------------------
(* Proofs about the inquiry, for every set of consultants and technicians   *)
(* and every bound: type correctness, the pairing of inquiry and            *)
(* consultation, and the freshness of the confirmation behind RESOLVED.     *)
(* The last two sections are about the transition contract: what            *)
(* WorkflowEngine promises by itself, and that the services implement it.   *)
EXTENDS InquiryWorkflow, WorkflowEngine, TLAPS

(* The rows of the contract that the services use, by event.                *)
LEMMA RuleTable ==
  ASSUME NEW r \in Rules
  PROVE  /\ r.to \in InquiryStates
         /\ r.event = "START_INQUIRY" =>
              r.from = NONE /\ r.to = "DRAFT"
         /\ r.event = "REGISTER_PHONE_INQUIRY" =>
              r.from = NONE /\ r.to = "CONSULTATION_REQUIRED"
         /\ r.event = "SUBMIT_SYMPTOM" =>
              r.from = "DRAFT" /\ r.to = "QUESTIONNAIRE_IN_PROGRESS"
         /\ r.event = "SUBMIT_ANSWERS" =>
              /\ r.from = "QUESTIONNAIRE_IN_PROGRESS"
              /\ r.to = "QUESTIONNAIRE_IN_PROGRESS"
         /\ r.event \in AIEvents =>
              /\ r.from \in {"DRAFT", "QUESTIONNAIRE_IN_PROGRESS"}
              /\ r.to \in {"AI_GUIDANCE", "CONSULTATION_REQUIRED"}
         /\ r.event = "HUMAN_REVIEW_GUIDANCE_APPROVED" =>
              r.from = "QUESTIONNAIRE_IN_PROGRESS" /\ r.to = "AI_GUIDANCE"
         /\ r.event \in EscalationEvents \cup {"DANGER_DETECTED"} =>
              /\ r.from = "QUESTIONNAIRE_IN_PROGRESS"
              /\ r.to = "CONSULTATION_REQUIRED"
         /\ r.event = "CANCEL_INQUIRY" =>
              /\ r.from \in {"DRAFT", "QUESTIONNAIRE_IN_PROGRESS",
                             "CONSULTATION_REQUIRED", "CONSULTATION_IN_PROGRESS"}
              /\ r.to = "CANCELLED"
              /\ r.mode = "REQUIRE_ABSENT"
         /\ r.event = "REQUEST_CONSULTATION" =>
              /\ r.from \in {"AI_GUIDANCE", "CONSULTATION_REQUIRED",
                             "COMPLETION_PENDING"}
              /\ r.to = "CONSULTATION_REQUIRED"
         /\ r.event = "CLAIM_CONSULTATION" =>
              r.from = "CONSULTATION_REQUIRED" /\ r.to = "CONSULTATION_REQUIRED"
         /\ r.event = "START_CONSULTATION" =>
              r.from = "CONSULTATION_REQUIRED" /\ r.to = "CONSULTATION_IN_PROGRESS"
         /\ r.event \in {"UPDATE_CONSULTATION_SUMMARY",
                         "CONFIRM_CONSULTATION_SUMMARY"} =>
              /\ r.from = "CONSULTATION_IN_PROGRESS"
              /\ r.to = "CONSULTATION_IN_PROGRESS"
         /\ r.event = "CONSULTATION_COMPLETED" =>
              r.from = "CONSULTATION_IN_PROGRESS" /\ r.to = "COMPLETION_PENDING"
         /\ r.event = "VISIT_REVIEW_REQUIRED" =>
              r.from = "CONSULTATION_IN_PROGRESS" /\ r.to = "VISIT_REVIEW_PENDING"
         /\ r.event = "VISIT_NEEDED" =>
              r.from = "VISIT_REVIEW_PENDING" /\ r.to = "VISIT_SCHEDULING"
         /\ r.event = "VISIT_NOT_NEEDED" =>
              r.from = "VISIT_REVIEW_PENDING" /\ r.to = "COMPLETION_PENDING"
         /\ r.event = "UPDATE_VISIT_SCHEDULE" =>
              /\ r.from \in {"VISIT_SCHEDULING", "REVISIT_REQUIRED"}
              /\ r.to = "VISIT_SCHEDULING"
              /\ r.mode = "TRANSITION"
              /\ r.vfrom # NONE /\ r.vto = "SCHEDULING"
         /\ r.event = "CONFIRM_VISIT" =>
              /\ r.from = "VISIT_SCHEDULING"
              /\ r.to = "VISIT_SCHEDULED"
              /\ r.mode = "TRANSITION"
              /\ r.vfrom # NONE /\ r.vto = "CONFIRMED"
         /\ r.event = "SUBMIT_RESOLUTION_FEEDBACK" =>
              r.from = "COMPLETION_PENDING" /\ r.to = "COMPLETION_PENDING"
         /\ r.event = "CUSTOMER_REPORTED_UNRESOLVED" =>
              r.from = "COMPLETION_PENDING" /\ r.to = "REOPENED"
         /\ r.event = "RESUME_CONSULTATION" =>
              r.from = "REOPENED" /\ r.to = "CONSULTATION_REQUIRED"
         /\ r.event = "FINALIZE_INQUIRY" =>
              r.from = "COMPLETION_PENDING" /\ r.to = "RESOLVED"
BY DEF Rules, Absent, Preserve, Moves, Rule, InquiryStates, NONE, AIEvents,
       EscalationEvents

(* A planned rule is a rule of the event, from the current state.           *)
LEMMA PlanIsRule ==
  ASSUME NEW e, NEW s, NEW v, NEW r \in Plan(e, s, v)
  PROVE  r \in Rules /\ r.event = e /\ r.from = s /\ VisitMatches(r, v)
BY DEF Plan, Candidates, StateCandidates

-----------------------------------------------------------------------------
(* The inductive invariant.  The run invariants are its conjuncts; three    *)
(* facts are added that no service checks but the induction needs: where a  *)
(* visit may stand, that every stamp is at most the current version, and    *)
(* that a round being closed was completed after the last reopening.        *)
VisitStage ==
  visit.status # NONE =>
    status \in {"VISIT_SCHEDULING", "VISIT_SCHEDULED", "REVISIT_REQUIRED"}

StampsBounded ==
  /\ resolvedAt <= version
  /\ reopenedAt <= version
  /\ attempts <= version

RoundIsNew ==
  status = "COMPLETION_PENDING" => reopenedAt < Latest.completedAt

RowsInv == LatestMatchesStatus /\ EarlierRowsCompleted /\ RowsPassChecks

VisitInv == VisitStage /\ VisitGrounded

RoundInv ==
  StampsBounded /\ RoundIsNew /\ ResolvedOnFreshConfirmation

IInv == TypeOK /\ RowsInv /\ VisitInv /\ RoundInv /\ HistoryFollowsStatus

(* What resolve, apply_state_transition and the history row do together.    *)
LEMMA TransitFacts ==
  ASSUME TypeOK, NEW e, Transit(e)
  PROVE  \E r \in Rules :
           /\ r.event = e
           /\ r.from = status
           /\ VisitMatches(r, visit.status)
           /\ status' = r.to
           /\ version' = version + 1
           /\ version' \in 1 .. MaxVersion
           /\ logged' \subseteq 1 .. MaxVersion
           /\ loggedState' = status'
<1>1. PICK r \in Planned(e) : ApplyStateTransition(r)
  BY DEF Transit
<1>2. /\ r \in Rules /\ r.event = e /\ r.from = status
      /\ VisitMatches(r, visit.status)
  BY <1>1, PlanIsRule DEF Planned
<1>3. /\ status' = r.to
      /\ version' = version + 1
      /\ version' \in 1 .. MaxVersion
  BY <1>1, ConstantsAssumption DEF ApplyStateTransition, NextVersion, TypeOK
<1>4. logged' \subseteq 1 .. MaxVersion /\ loggedState' = status'
  BY <1>3 DEF Transit, RecordHistory, TypeOK
<1>5. QED
  BY <1>2, <1>3, <1>4

(* Before the inquiry row exists the invariant holds.                       *)
LEMMA InitIInv == Init => IInv
<1> SUFFICES ASSUME Init PROVE IInv
  OBVIOUS
<1>1. TypeOK
  BY ConstantsAssumption
     DEF Init, TypeOK, NoRow, NewRow, Consultation, ConsultationStatuses,
         Outcomes, NoVisit, Sequences, NONE
<1>2. RowsInv
  BY <1>1, ConstantsAssumption
     DEF Init, TypeOK, RowsInv, LatestMatchesStatus, EarlierRowsCompleted,
         RowsPassChecks, Sequences, NoRow, NONE
<1>3. VisitInv /\ RoundInv /\ HistoryFollowsStatus
  BY DEF Init, VisitInv, VisitStage, VisitGrounded, NoVisit, NONE, RoundInv,
         StampsBounded, RoundIsNew, ResolvedOnFreshConfirmation,
         HistoryFollowsStatus
<1>4. QED
  BY <1>1, <1>2, <1>3 DEF IInv

-----------------------------------------------------------------------------
(* What the two writes of ConsultationRepository do to the rows.            *)

(* Row-level form of the two check constraints.                             *)
RowPasses(row) ==
  /\ row.status = "WAITING" => row.consultant = NONE
  /\ row.status \in {"ASSIGNED", "IN_PROGRESS", "COMPLETED"} =>
       row.consultant # NONE
  /\ row.status = "COMPLETED" <=> row.completedAt > 0
  /\ row.status = "COMPLETED" => row.outcome # "PENDING"
  /\ row.status \in {"WAITING", "ASSIGNED", "CANCELLED"} =>
       row.outcome = "PENDING"

(* Rewriting the latest row keeps the row invariants when the row passes    *)
(* the table's checks.                                                      *)
LEMMA SaveFacts ==
  ASSUME TypeOK, EarlierRowsCompleted, RowsPassChecks, latest > 0,
         NEW row \in Consultation, RowPasses(row), Save(row)
  PROVE  /\ rows' \in [Sequences -> Consultation]
         /\ latest' = latest
         /\ Latest' = row
         /\ EarlierRowsCompleted'
         /\ RowsPassChecks'
<1>1. latest \in Sequences /\ latest' = latest
  BY ConstantsAssumption DEF TypeOK, Sequences, Save
<1>2. rows' \in [Sequences -> Consultation] /\ rows'[latest] = row
  BY <1>1 DEF TypeOK, Save
<1>3. \A n \in Sequences : n # latest => rows'[n] = rows[n]
  BY <1>1 DEF TypeOK, Save
<1>4. EarlierRowsCompleted'
  BY <1>1, <1>3 DEF EarlierRowsCompleted, Sequences
<1>5. RowsPassChecks'
  BY <1>1, <1>2, <1>3, ConstantsAssumption
     DEF TypeOK, RowsPassChecks, RowPasses, Sequences
<1>6. QED
  BY <1>1, <1>2, <1>4, <1>5 DEF Latest

(* A new row keeps them when the row before it is completed.                *)
LEMMA InsertFacts ==
  ASSUME TypeOK, EarlierRowsCompleted, RowsPassChecks,
         latest > 0 => Latest.status = "COMPLETED",
         NEW row \in Consultation, RowPasses(row), Insert(row)
  PROVE  /\ rows' \in [Sequences -> Consultation]
         /\ latest' = latest + 1
         /\ latest' \in 0 .. MaxConsultations
         /\ latest' > 0
         /\ Latest' = row
         /\ EarlierRowsCompleted'
         /\ RowsPassChecks'
<1>1. latest + 1 \in Sequences /\ latest' = latest + 1
  BY ConstantsAssumption DEF TypeOK, Sequences, Insert
<1>2. rows' \in [Sequences -> Consultation] /\ rows'[latest + 1] = row
  BY <1>1 DEF TypeOK, Insert
<1>3. \A n \in Sequences : n # latest + 1 => rows'[n] = rows[n]
  BY <1>1 DEF TypeOK, Insert
<1>4. EarlierRowsCompleted'
  <2> SUFFICES ASSUME NEW n \in Sequences
               PROVE  /\ n < latest + 1 => rows'[n].status = "COMPLETED"
                      /\ n > latest + 1 => rows'[n] = NoRow
    BY <1>1 DEF EarlierRowsCompleted, NoRow, NewRow
  <2>1. CASE n < latest
    BY <2>1, <1>3 DEF EarlierRowsCompleted, TypeOK, Sequences
  <2>2. CASE n = latest
    BY <2>2, <1>3 DEF TypeOK, Sequences, Latest
  <2>3. CASE n > latest
    BY <2>3, <1>3 DEF EarlierRowsCompleted, TypeOK, Sequences
  <2>4. QED
    BY <2>1, <2>2, <2>3 DEF TypeOK, Sequences
<1>5. RowsPassChecks'
  <2>1. \A n \in 1 .. latest : rows'[n] = rows[n]
    BY <1>1, <1>3, ConstantsAssumption DEF TypeOK, Sequences
  <2>2. \A n \in 1 .. latest : RowPasses(rows'[n])
    BY <2>1 DEF RowsPassChecks, RowPasses
  <2>3. \A n \in 1 .. latest' : RowPasses(rows'[n])
    BY <1>1, <1>2, <2>2 DEF TypeOK
  <2>4. QED
    BY <2>3 DEF RowsPassChecks, RowPasses
<1>6. QED
  BY <1>1, <1>2, <1>4, <1>5, ConstantsAssumption DEF Latest, TypeOK, Sequences

(* ConsultationRepository.request leaves an open row at the end.            *)
LEMMA RequestFacts ==
  ASSUME TypeOK, EarlierRowsCompleted, RowsPassChecks, Request,
         latest > 0 => Latest.status \in {"WAITING", "ASSIGNED", "COMPLETED"}
  PROVE  /\ rows' \in [Sequences -> Consultation]
         /\ latest' \in 1 .. MaxConsultations
         /\ Latest'.status \in {"WAITING", "ASSIGNED"}
         /\ EarlierRowsCompleted'
         /\ RowsPassChecks'
<1>1. CASE HasLatest({"WAITING", "ASSIGNED"}) /\ UNCHANGED <<rows, latest>>
  BY <1>1 DEF TypeOK, HasLatest, Latest, EarlierRowsCompleted, RowsPassChecks,
              Sequences, NoRow, NewRow
<1>2. CASE /\ ~HasLatest(ActiveStatuses)
           /\ Insert(NewRow("WAITING", NONE))
  <2>1. NewRow("WAITING", NONE) \in Consultation
    BY ConstantsAssumption
       DEF NewRow, Consultation, ConsultationStatuses, Outcomes
  <2>2. RowPasses(NewRow("WAITING", NONE))
    BY DEF NewRow, RowPasses
  <2>3. latest > 0 => Latest.status = "COMPLETED"
    BY <1>2 DEF HasLatest, ActiveStatuses
  <2>4. Latest' = NewRow("WAITING", NONE)
    BY <1>2, <2>1, <2>2, <2>3, InsertFacts
  <2>5. Latest'.status = "WAITING"
    BY <2>4 DEF NewRow
  <2>6. QED
    BY <1>2, <2>1, <2>2, <2>3, <2>5, InsertFacts, ConstantsAssumption
<1>3. QED
  BY <1>1, <1>2 DEF Request

-----------------------------------------------------------------------------
(* The part of the invariant that is preserved in the same way by every     *)
(* recorded transition, whatever it writes.                                 *)
RecordedStep ==
  /\ status' \in InquiryStates
  /\ version' = version + 1
  /\ version' \in 1 .. MaxVersion
  /\ logged' \subseteq 1 .. MaxVersion
  /\ loggedState' = status'

TypedWrites ==
  /\ assignee' \in Consultants \cup {NONE}
  /\ rows' \in [Sequences -> Consultation]
  /\ latest' \in 0 .. MaxConsultations
  /\ visit' \in [status : VisitStatuses \cup {NONE},
                 technician : Technicians \cup {NONE},
                 dated : BOOLEAN]
  /\ resolvedAt' = resolvedAt
  /\ reopenedAt' \in {reopenedAt, version'}
  /\ attempts' = attempts

(* A versioned write with its history row keeps types, stamps and history.  *)
LEMMA RecordedStepFacts ==
  ASSUME TypeOK, StampsBounded, RecordedStep, TypedWrites
  PROVE  TypeOK' /\ StampsBounded' /\ HistoryFollowsStatus'
<1>1. TypeOK'
  BY ConstantsAssumption DEF TypeOK, RecordedStep, TypedWrites
<1>2. StampsBounded'
  BY ConstantsAssumption DEF TypeOK, StampsBounded, RecordedStep, TypedWrites
<1>3. HistoryFollowsStatus'
  BY DEF HistoryFollowsStatus, RecordedStep
<1>4. QED
  BY <1>1, <1>2, <1>3

(* A transition that leaves the rows alone.                                 *)
LEMMA KeptRowsFacts ==
  ASSUME TypeOK, EarlierRowsCompleted, RowsPassChecks,
         UNCHANGED <<rows, latest>>
  PROVE  /\ EarlierRowsCompleted'
         /\ RowsPassChecks'
         /\ rows' \in [Sequences -> Consultation]
         /\ latest' \in 0 .. MaxConsultations
         /\ Latest' = Latest
BY DEF TypeOK, EarlierRowsCompleted, RowsPassChecks, Latest, NoRow, NewRow,
       Sequences

VisitStages == {"VISIT_SCHEDULING", "VISIT_SCHEDULED", "REVISIT_REQUIRED"}

(* Outside the visit stages there is no visit, and a step that stays        *)
(* outside them and does not touch the visit keeps it so.                   *)
LEMMA NoVisitFacts ==
  ASSUME VisitStage, status \notin VisitStages, visit' = visit
  PROVE  VisitInv'
BY DEF VisitInv, VisitStage, VisitGrounded, VisitStages, NONE

(* A transition to a state that closes nothing.                             *)
LEMMA OpenStateFacts ==
  ASSUME status' \notin {"COMPLETION_PENDING", "RESOLVED"}
  PROVE  RoundIsNew' /\ ResolvedOnFreshConfirmation'
BY DEF RoundIsNew, ResolvedOnFreshConfirmation

-----------------------------------------------------------------------------
(* One lemma per kind of write. *)

(* Opening and intake: the rows do not exist yet.                           *)
LEMMA IntakeStep ==
  ASSUME IInv,
         NEW e \in AIEvents \cup {"START_INQUIRY", "REGISTER_PHONE_INQUIRY",
                "SUBMIT_SYMPTOM", "SUBMIT_ANSWERS",
                "HUMAN_REVIEW_GUIDANCE_APPROVED"},
         Transit(e),
         assignee' \in Consultants \cup {NONE},
         UNCHANGED <<rows, latest, visit, resolvedAt, reopenedAt, attempts>>
  PROVE  IInv'
<1> USE DEF IInv, RowsInv, VisitInv, RoundInv
<1>1. PICK r \in Rules :
        r.event = e /\ r.from = status /\ status' = r.to /\ RecordedStep
  BY TransitFacts, RuleTable DEF RecordedStep
<1>2. /\ status \in {NONE, "DRAFT", "QUESTIONNAIRE_IN_PROGRESS"}
      /\ status' \in {"DRAFT", "QUESTIONNAIRE_IN_PROGRESS", "AI_GUIDANCE",
                      "CONSULTATION_REQUIRED"}
  BY <1>1, RuleTable
<1>3. latest = 0
  BY <1>2 DEF LatestMatchesStatus, NONE
<1>4. TypedWrites
  BY KeptRowsFacts DEF TypedWrites, TypeOK
<1>5. LatestMatchesStatus'
  BY <1>2, <1>3 DEF LatestMatchesStatus
<1>6. VisitInv'
  BY <1>2, NoVisitFacts DEF VisitStages, NONE
<1>7. RoundIsNew' /\ ResolvedOnFreshConfirmation'
  BY <1>2, OpenStateFacts
<1>8. QED
  BY <1>1, <1>4, <1>5, <1>6, <1>7, RecordedStepFacts, KeptRowsFacts

(* The four ways into the consultation queue: danger, review, customer and  *)
(* resumption.                                                              *)
LEMMA QueueStep ==
  ASSUME IInv,
         NEW e \in EscalationEvents \cup {"DANGER_DETECTED",
                "REQUEST_CONSULTATION", "RESUME_CONSULTATION"},
         Transit(e), Request,
         UNCHANGED <<assignee, visit, resolvedAt, reopenedAt, attempts>>
  PROVE  IInv'
<1> USE DEF IInv, RowsInv, VisitInv, RoundInv
<1>1. PICK r \in Rules :
        r.event = e /\ r.from = status /\ status' = r.to /\ RecordedStep
  BY TransitFacts, RuleTable DEF RecordedStep
<1>2. /\ status \in {"QUESTIONNAIRE_IN_PROGRESS", "AI_GUIDANCE",
                     "CONSULTATION_REQUIRED", "COMPLETION_PENDING", "REOPENED"}
      /\ status' = "CONSULTATION_REQUIRED"
  BY <1>1, RuleTable
<1>3. latest > 0 => Latest.status \in {"WAITING", "ASSIGNED", "COMPLETED"}
  BY <1>2 DEF LatestMatchesStatus, HasLatest, TypeOK
<1>4. /\ rows' \in [Sequences -> Consultation]
      /\ latest' \in 1 .. MaxConsultations
      /\ Latest'.status \in {"WAITING", "ASSIGNED"}
      /\ EarlierRowsCompleted'
      /\ RowsPassChecks'
  BY <1>3, RequestFacts
<1>5. TypedWrites
  BY <1>4, ConstantsAssumption DEF TypedWrites, TypeOK
<1>6. LatestMatchesStatus'
  BY <1>2, <1>4 DEF LatestMatchesStatus
<1>7. VisitInv'
  BY <1>2, NoVisitFacts DEF VisitStages
<1>8. RoundIsNew' /\ ResolvedOnFreshConfirmation'
  BY <1>2, OpenStateFacts
<1>9. QED
  BY <1>1, <1>4, <1>5, <1>6, <1>7, <1>8, RecordedStepFacts

(* A consultant takes the waiting row.                                      *)
LEMMA ClaimStep ==
  ASSUME IInv, NEW c \in Consultants, ClaimConsultation(c)
  PROVE  IInv'
<1> USE DEF IInv, RowsInv, VisitInv, RoundInv
<1> DEFINE row == [Latest EXCEPT !.status = "ASSIGNED", !.consultant = c]
<1>1. PICK r \in Rules :
        /\ r.event = "CLAIM_CONSULTATION"
        /\ r.from = status /\ status' = r.to /\ RecordedStep
  BY TransitFacts, RuleTable DEF RecordedStep, ClaimConsultation
<1>2. status = "CONSULTATION_REQUIRED" /\ status' = "CONSULTATION_REQUIRED"
  BY <1>1, RuleTable
<1>3. latest > 0 /\ Latest \in Consultation /\ Latest.status = "WAITING"
  BY ConstantsAssumption
     DEF ClaimConsultation, IsClaimable, HasLatest, TypeOK, Latest, Sequences
<1>4. RowPasses(Latest)
  BY <1>3, ConstantsAssumption DEF RowsPassChecks, RowPasses, Latest, TypeOK
<1>5. /\ row \in Consultation /\ RowPasses(row)
      /\ row.status = "ASSIGNED"
  BY <1>3, <1>4, ConstantsAssumption
     DEF Consultation, ConsultationStatuses, RowPasses
<1>6. /\ rows' \in [Sequences -> Consultation] /\ latest' = latest
      /\ Latest' = row /\ EarlierRowsCompleted' /\ RowsPassChecks'
  BY <1>3, <1>5, SaveFacts DEF ClaimConsultation
<1>7. TypedWrites
  BY <1>6 DEF TypedWrites, TypeOK, ClaimConsultation
<1>8. LatestMatchesStatus'
  BY <1>2, <1>5, <1>6 DEF LatestMatchesStatus
<1>9. VisitInv'
  BY <1>2, NoVisitFacts DEF VisitStages, ClaimConsultation
<1>10. RoundIsNew' /\ ResolvedOnFreshConfirmation'
  BY <1>2, OpenStateFacts
<1>11. QED
  BY <1>1, <1>6, <1>7, <1>8, <1>9, <1>10, RecordedStepFacts

(* The assignee starts: the open row, or a new one without a request.       *)
LEMMA StartStep ==
  ASSUME IInv, NEW c \in Consultants, StartConsultation(c)
  PROVE  IInv'
<1> USE DEF IInv, RowsInv, VisitInv, RoundInv
<1>1. PICK r \in Rules :
        /\ r.event = "START_CONSULTATION"
        /\ r.from = status /\ status' = r.to /\ RecordedStep
  BY TransitFacts, RuleTable DEF RecordedStep, StartConsultation, AssignedTransit
<1>2. /\ status = "CONSULTATION_REQUIRED"
      /\ status' = "CONSULTATION_IN_PROGRESS"
  BY <1>1, RuleTable
<1>3. assignee = c /\ assignee' = c
  BY DEF StartConsultation, AssignedTransit
<1>4. /\ rows' \in [Sequences -> Consultation]
      /\ latest' \in 1 .. MaxConsultations
      /\ Latest'.status = "IN_PROGRESS" /\ Latest'.consultant = c
      /\ EarlierRowsCompleted' /\ RowsPassChecks'
  <2>1. CASE HasLatest({"WAITING", "ASSIGNED"})
    <3> DEFINE row == [Latest EXCEPT !.status = "IN_PROGRESS", !.consultant = c]
    <3>1. latest \in 1 .. MaxConsultations /\ Latest \in Consultation
      BY <2>1, ConstantsAssumption DEF HasLatest, TypeOK, Latest, Sequences
    <3>2. RowPasses(Latest) /\ Latest.status # "COMPLETED"
      BY <2>1, <3>1, ConstantsAssumption
         DEF RowsPassChecks, RowPasses, Latest, TypeOK, HasLatest
    <3>3. /\ row \in Consultation /\ RowPasses(row)
          /\ row.status = "IN_PROGRESS" /\ row.consultant = c
      BY <3>1, <3>2, ConstantsAssumption
         DEF Consultation, ConsultationStatuses, RowPasses
    <3>4. Save(row)
      BY <2>1 DEF StartConsultation
    <3>5. /\ rows' \in [Sequences -> Consultation] /\ latest' = latest
          /\ Latest' = row /\ EarlierRowsCompleted' /\ RowsPassChecks'
      BY <3>1, <3>3, <3>4, SaveFacts
    <3>6. QED
      BY <3>1, <3>3, <3>5
  <2>2. CASE ~HasLatest({"WAITING", "ASSIGNED"})
    <3> DEFINE row == NewRow("IN_PROGRESS", c)
    <3>1. latest > 0 => Latest.status = "COMPLETED"
      BY <1>2, <2>2 DEF LatestMatchesStatus, HasLatest, NONE
    <3>2. /\ row \in Consultation /\ RowPasses(row)
          /\ row.status = "IN_PROGRESS" /\ row.consultant = c
      BY ConstantsAssumption
         DEF NewRow, Consultation, ConsultationStatuses, Outcomes, RowPasses
    <3>3. Insert(row)
      BY <2>2 DEF StartConsultation
    <3>4. Latest' = row /\ latest' \in 1 .. MaxConsultations
      BY <3>1, <3>2, <3>3, InsertFacts, ConstantsAssumption
    <3>5. QED
      BY <3>1, <3>2, <3>3, <3>4, InsertFacts
  <2>3. QED
    BY <2>1, <2>2
<1>5. TypedWrites
  BY <1>3, <1>4, ConstantsAssumption
     DEF TypedWrites, TypeOK, StartConsultation, AssignedTransit
<1>6. LatestMatchesStatus'
  BY <1>2, <1>3, <1>4 DEF LatestMatchesStatus, HasLatest, NONE
<1>7. VisitInv'
  BY <1>2, NoVisitFacts DEF VisitStages, StartConsultation
<1>8. RoundIsNew' /\ ResolvedOnFreshConfirmation'
  BY <1>2, OpenStateFacts
<1>9. QED
  BY <1>1, <1>4, <1>5, <1>6, <1>7, <1>8, RecordedStepFacts

(* Saving and confirming keep the row in progress and in the same hands.    *)
LEMMA EditStep ==
  ASSUME IInv, NEW c \in Consultants,
         NEW e \in {"UPDATE_CONSULTATION_SUMMARY",
                    "CONFIRM_CONSULTATION_SUMMARY"},
         AssignedTransit(c, e), latest > 0,
         NEW row \in Consultation, Save(row), visit' = visit,
         row.status = Latest.status, row.consultant = Latest.consultant,
         row.completedAt = Latest.completedAt
  PROVE  IInv'
<1> USE DEF IInv, RowsInv, VisitInv, RoundInv
<1>1. PICK r \in Rules :
        r.event = e /\ r.from = status /\ status' = r.to /\ RecordedStep
  BY TransitFacts, RuleTable DEF RecordedStep, AssignedTransit
<1>2. /\ status = "CONSULTATION_IN_PROGRESS"
      /\ status' = "CONSULTATION_IN_PROGRESS"
  BY <1>1, RuleTable
<1>3. Latest.status = "IN_PROGRESS" /\ Latest.consultant = assignee
  BY <1>2 DEF LatestMatchesStatus, HasLatest, NONE
<1>4. RowPasses(row)
  BY <1>3, ConstantsAssumption DEF RowsPassChecks, RowPasses, Latest, TypeOK
<1>5. /\ rows' \in [Sequences -> Consultation] /\ latest' = latest
      /\ Latest' = row /\ EarlierRowsCompleted' /\ RowsPassChecks'
  BY <1>4, SaveFacts
<1>6. TypedWrites
  BY <1>5 DEF TypedWrites, TypeOK, AssignedTransit
<1>7. LatestMatchesStatus'
  BY <1>2, <1>3, <1>5
     DEF LatestMatchesStatus, HasLatest, AssignedTransit, NONE
<1>8. VisitInv'
  BY <1>2, NoVisitFacts DEF VisitStages
<1>9. RoundIsNew' /\ ResolvedOnFreshConfirmation'
  BY <1>2, OpenStateFacts
<1>10. QED
  BY <1>1, <1>5, <1>6, <1>7, <1>8, <1>9, RecordedStepFacts

(* Completing the row, directly or because no visit is needed.              *)
LEMMA CompletionStep ==
  ASSUME IInv, NEW c \in Consultants,
         NEW e \in {"CONSULTATION_COMPLETED", "VISIT_NOT_NEEDED"},
         AssignedTransit(c, e), latest > 0,
         NEW row \in Consultation, Save(row), visit' = visit,
         row.status = "COMPLETED", row.consultant = Latest.consultant,
         row.outcome # "PENDING", row.completedAt = version'
  PROVE  IInv'
<1> USE DEF IInv, RowsInv, VisitInv, RoundInv
<1>1. PICK r \in Rules :
        r.event = e /\ r.from = status /\ status' = r.to /\ RecordedStep
  BY TransitFacts, RuleTable DEF RecordedStep, AssignedTransit
<1>2. /\ status \in {"CONSULTATION_IN_PROGRESS", "VISIT_REVIEW_PENDING"}
      /\ status' = "COMPLETION_PENDING"
  BY <1>1, RuleTable
<1>3. Latest.status = "IN_PROGRESS"
  BY <1>2 DEF LatestMatchesStatus, HasLatest, NONE
<1>4. RowPasses(row)
  BY <1>1, <1>3, ConstantsAssumption
     DEF RowsPassChecks, RowPasses, Latest, TypeOK, RecordedStep
<1>5. /\ rows' \in [Sequences -> Consultation] /\ latest' = latest
      /\ Latest' = row /\ EarlierRowsCompleted' /\ RowsPassChecks'
  BY <1>4, SaveFacts
<1>6. TypedWrites
  BY <1>5 DEF TypedWrites, TypeOK, AssignedTransit
<1>7. LatestMatchesStatus'
  BY <1>2, <1>5 DEF LatestMatchesStatus, HasLatest, NONE
<1>8. VisitInv'
  BY <1>2, NoVisitFacts DEF VisitStages
<1>9. RoundIsNew'
  <2>1. reopenedAt' = reopenedAt /\ reopenedAt <= version
    BY DEF AssignedTransit, StampsBounded
  <2>2. Latest'.completedAt = version + 1
    BY <1>1, <1>5 DEF RecordedStep
  <2>3. QED
    BY <2>1, <2>2 DEF RoundIsNew, TypeOK
<1>10. ResolvedOnFreshConfirmation'
  BY <1>2 DEF ResolvedOnFreshConfirmation
<1>11. QED
  BY <1>1, <1>5, <1>6, <1>7, <1>8, <1>9, <1>10, RecordedStepFacts

(* Cancelling closes the one open row.                                      *)
LEMMA CancelStep ==
  ASSUME IInv, Cancel
  PROVE  IInv'
<1> USE DEF IInv, RowsInv, VisitInv, RoundInv
<1> DEFINE e == "CANCEL_INQUIRY"
<1>0. Transit(e)
  BY DEF Cancel
<1> HIDE DEF e
<1>1. PICK r \in Rules :
        r.event = e /\ r.from = status /\ status' = r.to /\ RecordedStep
  BY <1>0, TransitFacts, RuleTable DEF RecordedStep
<1>2. /\ status \in {"DRAFT", "QUESTIONNAIRE_IN_PROGRESS",
                     "CONSULTATION_REQUIRED", "CONSULTATION_IN_PROGRESS"}
      /\ status' = "CANCELLED"
  BY <1>1, RuleTable DEF e
<1>3. latest > 0 => Latest.status \in ActiveStatuses
  BY <1>2 DEF LatestMatchesStatus, HasLatest, ActiveStatuses, TypeOK, NONE
<1>4. /\ rows' \in [Sequences -> Consultation] /\ latest' = latest
      /\ latest > 0 => Latest'.status = "CANCELLED"
      /\ EarlierRowsCompleted' /\ RowsPassChecks'
  <2>1. CASE latest = 0
    <3>1. UNCHANGED <<rows, latest>>
      BY <2>1 DEF Cancel, Active
    <3>2. QED
      BY <2>1, <3>1, KeptRowsFacts
  <2>2. CASE latest > 0
    <3> DEFINE row == [Latest EXCEPT !.status = "CANCELLED",
                                     !.outcome = "PENDING", !.completedAt = 0]
    <3>1. latest \in 1 .. latest /\ latest \in Sequences /\ Latest \in Consultation
      BY <2>2, ConstantsAssumption DEF TypeOK, Sequences, Latest
    <3>2. latest \in Active
      BY <1>3, <2>2, <3>1 DEF Active, Latest
    <3>3. row \in Consultation /\ RowPasses(row) /\ row.status = "CANCELLED"
      <4>1. 0 \in 0 .. MaxVersion
        BY ConstantsAssumption
      <4>2. row \in Consultation
        BY <3>1, <4>1 DEF Consultation, ConsultationStatuses, Outcomes
      <4>3. row.status = "CANCELLED" /\ row.outcome = "PENDING" /\ row.completedAt = 0
        BY <3>1 DEF Consultation
      <4>4. QED
        BY <4>2, <4>3 DEF RowPasses
    <3>4. Save(row)
      <4>1. PICK n \in Active :
              /\ Active = {n}
              /\ rows' = [rows EXCEPT ![n].status = "CANCELLED",
                                      ![n].outcome = "PENDING",
                                      ![n].completedAt = 0]
        BY <3>2 DEF Cancel
      <4>2. n = latest
        BY <3>2, <4>1
      <4>3. rows' = [rows EXCEPT ![latest] = row]
        BY <4>1, <4>2, <3>1 DEF TypeOK, Latest, Consultation
      <4>4. QED
        BY <4>3 DEF Save, Cancel
    <3>5. QED
      BY <2>2, <3>3, <3>4, SaveFacts
  <2>3. QED
    BY <2>1, <2>2 DEF TypeOK
<1>5. TypedWrites
  BY <1>4 DEF TypedWrites, TypeOK, Cancel
<1>6. LatestMatchesStatus'
  BY <1>2, <1>4 DEF LatestMatchesStatus, NONE
<1>7. VisitInv'
  BY <1>2, NoVisitFacts DEF VisitStages, Cancel
<1>8. RoundIsNew' /\ ResolvedOnFreshConfirmation'
  BY <1>2, OpenStateFacts
<1>9. QED
  BY <1>1, <1>4, <1>5, <1>6, <1>7, <1>8, RecordedStepFacts

-----------------------------------------------------------------------------
(* The visit: its four writes keep the consultation rows.                   *)

(* A visit write that leaves a grounded visit keeps the invariant.          *)
LEMMA VisitStep ==
  ASSUME IInv, NEW c \in Consultants,
         NEW e \in {"VISIT_REVIEW_REQUIRED", "VISIT_NEEDED",
                    "UPDATE_VISIT_SCHEDULE", "CONFIRM_VISIT"},
         AssignedTransit(c, e),
         UNCHANGED <<rows, latest>>,
         visit' \in [status : VisitStatuses \cup {NONE},
                     technician : Technicians \cup {NONE},
                     dated : BOOLEAN],
         VisitGrounded',
         e = "VISIT_REVIEW_REQUIRED" => visit' = visit
  PROVE  IInv'
<1> USE DEF IInv, RowsInv, VisitInv, RoundInv
<1>1. PICK r \in Rules :
        r.event = e /\ r.from = status /\ status' = r.to /\ RecordedStep
  BY TransitFacts, RuleTable DEF RecordedStep, AssignedTransit
<1>2. /\ status \in {"CONSULTATION_IN_PROGRESS", "VISIT_REVIEW_PENDING",
                     "VISIT_SCHEDULING", "REVISIT_REQUIRED"}
      /\ status' \in {"VISIT_REVIEW_PENDING", "VISIT_SCHEDULING",
                      "VISIT_SCHEDULED"}
      /\ e = "VISIT_REVIEW_REQUIRED" => status = "CONSULTATION_IN_PROGRESS"
      /\ e # "VISIT_REVIEW_REQUIRED" => status' # "VISIT_REVIEW_PENDING"
  BY <1>1, RuleTable
<1>3. assignee' = assignee
  BY DEF AssignedTransit
<1>4. TypedWrites
  BY <1>3, KeptRowsFacts DEF TypedWrites, TypeOK, AssignedTransit
<1>5. HasLatest({"IN_PROGRESS"}) /\ Latest.consultant = assignee
  BY <1>2 DEF LatestMatchesStatus, NONE
<1>6. LatestMatchesStatus'
  BY <1>2, <1>3, <1>5, KeptRowsFacts DEF LatestMatchesStatus, HasLatest, NONE
<1>7. VisitStage'
  BY <1>2 DEF VisitStage, NONE
<1>8. RoundIsNew' /\ ResolvedOnFreshConfirmation'
  BY <1>2, OpenStateFacts
<1>9. QED
  BY <1>1, <1>4, <1>6, <1>7, <1>8, RecordedStepFacts, KeptRowsFacts

(* Asking for the review creates no visit.                                  *)
LEMMA ReviewStep ==
  ASSUME IInv, NEW c \in Consultants, RequestVisitReview(c)
  PROVE  IInv'
<1> USE DEF IInv, RowsInv, VisitInv, RoundInv
<1>1. AssignedTransit(c, "VISIT_REVIEW_REQUIRED") /\ UNCHANGED <<rows, latest, visit>>
  BY DEF RequestVisitReview
<1>2. visit.status = NONE
  BY DEF RequestVisitReview, VisitDecidable
<1>3. VisitGrounded'
  BY <1>1, <1>2 DEF VisitGrounded, NONE
<1>4. QED
  BY <1>1, <1>3, VisitStep DEF TypeOK

(* The visit is created for the confirmed result that asked for it.         *)
LEMMA CreateVisitStep ==
  ASSUME IInv, NEW c \in Consultants, CreateVisitRequest(c)
  PROVE  IInv'
<1> USE DEF IInv, RowsInv, VisitInv, RoundInv
<1> DEFINE e == "VISIT_NEEDED"
<1>1. AssignedTransit(c, e) /\ UNCHANGED <<rows, latest>> /\ VisitDecidable
  BY DEF CreateVisitRequest
<1>2. visit' = [status |-> "ASSIGNING", technician |-> NONE, dated |-> FALSE]
  BY DEF CreateVisitRequest, NoVisit
<1>3. PICK r \in Rules : r.event = e /\ r.from = status
  BY <1>1, TransitFacts DEF AssignedTransit
<1>4. HasLatest({"IN_PROGRESS"})
  BY <1>3, RuleTable DEF LatestMatchesStatus, NONE
<1>5. VisitGrounded'
  BY <1>1, <1>2, <1>4, KeptRowsFacts DEF VisitGrounded, HasLatest, VisitDecidable
<1>6. visit' \in [status : VisitStatuses \cup {NONE},
                  technician : Technicians \cup {NONE}, dated : BOOLEAN]
  BY <1>2 DEF VisitStatuses
<1>7. QED
  BY <1>1, <1>5, <1>6, VisitStep

(* Rescheduling falls back to SCHEDULING, so a date may be missing again.   *)
LEMMA ScheduleStep ==
  ASSUME IInv, NEW c \in Consultants, NEW t \in Technicians,
         NEW d \in BOOLEAN, UpdateVisitSchedule(c, t, d)
  PROVE  IInv'
<1> USE DEF IInv, RowsInv, VisitInv, RoundInv
<1> DEFINE e == "UPDATE_VISIT_SCHEDULE"
<1>1. AssignedTransit(c, e) /\ UNCHANGED <<rows, latest>>
  BY DEF UpdateVisitSchedule
<1>2. PICK r \in Planned(e) :
        visit' = [status |-> NextVisitStatus(r, visit.status),
                  technician |-> t, dated |-> d]
  BY DEF UpdateVisitSchedule
<1>3. /\ r \in Rules /\ r.event = e /\ r.from = status
      /\ VisitMatches(r, visit.status)
  BY <1>2, PlanIsRule DEF Planned
<1>4. r.mode = "TRANSITION" /\ r.vfrom # NONE /\ r.vto = "SCHEDULING"
  BY <1>3, RuleTable
<1>5. visit.status # NONE /\ visit'.status = "SCHEDULING"
  BY <1>2, <1>3, <1>4 DEF VisitMatches, NextVisitStatus
<1>6. VisitGrounded'
  BY <1>1, <1>5, KeptRowsFacts DEF VisitGrounded, HasLatest
<1>7. visit' \in [status : VisitStatuses \cup {NONE},
                  technician : Technicians \cup {NONE}, dated : BOOLEAN]
  BY <1>2, <1>5 DEF VisitStatuses
<1>8. QED
  BY <1>1, <1>6, <1>7, VisitStep

(* The visit is confirmed only with its technician and its date.            *)
LEMMA ConfirmVisitStep ==
  ASSUME IInv, NEW c \in Consultants, ConfirmVisit(c)
  PROVE  IInv'
<1> USE DEF IInv, RowsInv, VisitInv, RoundInv
<1> DEFINE e == "CONFIRM_VISIT"
<1>1. AssignedTransit(c, e) /\ UNCHANGED <<rows, latest>>
  BY DEF ConfirmVisit
<1>2. PICK r \in Planned(e) :
        visit' = [visit EXCEPT !.status = NextVisitStatus(r, @)]
  BY DEF ConfirmVisit
<1>3. /\ r \in Rules /\ r.event = e /\ r.from = status
      /\ VisitMatches(r, visit.status)
  BY <1>2, PlanIsRule DEF Planned
<1>4. r.mode = "TRANSITION" /\ r.vfrom # NONE /\ r.vto = "CONFIRMED"
  BY <1>3, RuleTable
<1>5. visit.status # NONE /\ NextVisitStatus(r, visit.status) = "CONFIRMED"
  BY <1>3, <1>4 DEF VisitMatches, NextVisitStatus
<1>6. visit' = [visit EXCEPT !.status = "CONFIRMED"]
  BY <1>2, <1>5
<1>7. VisitGrounded'
  BY <1>1, <1>5, <1>6, KeptRowsFacts
     DEF VisitGrounded, HasLatest, ConfirmVisit, TypeOK
<1>8. visit' \in [status : VisitStatuses \cup {NONE},
                  technician : Technicians \cup {NONE}, dated : BOOLEAN]
  BY <1>6 DEF VisitStatuses, TypeOK
<1>9. QED
  BY <1>1, <1>7, <1>8, VisitStep

-----------------------------------------------------------------------------
(* Closing and reopening.                                                   *)

(* In COMPLETION_PENDING the latest row is the completed one.               *)
LEMMA CompletionFacts ==
  ASSUME IInv, status = "COMPLETION_PENDING"
  PROVE  /\ latest \in 1 .. latest
         /\ Latest.status = "COMPLETED"
         /\ status \notin VisitStages
BY DEF IInv, RowsInv, LatestMatchesStatus, HasLatest, TypeOK, VisitStages, NONE

(* The customer reopens: the round is no longer closed.                     *)
LEMMA ReopenStep ==
  ASSUME IInv, ReportUnresolved
  PROVE  IInv'
<1> USE DEF IInv, RowsInv, VisitInv, RoundInv
<1> DEFINE e == "CUSTOMER_REPORTED_UNRESOLVED"
<1>0. /\ Transit(e) /\ reopenedAt' = version'
      /\ UNCHANGED <<assignee, rows, latest, visit, resolvedAt, attempts>>
  BY DEF ReportUnresolved
<1>1. PICK r \in Rules :
        r.event = e /\ r.from = status /\ status' = r.to /\ RecordedStep
  BY <1>0, TransitFacts, RuleTable DEF RecordedStep
<1>2. status = "COMPLETION_PENDING" /\ status' = "REOPENED"
  BY <1>1, RuleTable
<1>3. TypedWrites
  BY <1>0, KeptRowsFacts DEF TypedWrites, TypeOK
<1>4. LatestMatchesStatus'
  BY <1>0, <1>2, CompletionFacts, KeptRowsFacts
     DEF LatestMatchesStatus, HasLatest, NONE
<1>5. VisitInv'
  BY <1>0, <1>2, CompletionFacts, NoVisitFacts
<1>6. RoundIsNew' /\ ResolvedOnFreshConfirmation'
  BY <1>2, OpenStateFacts
<1>7. QED
  BY <1>0, <1>1, <1>3, <1>4, <1>5, <1>6, RecordedStepFacts, KeptRowsFacts

(* The inquiry is closed on a confirmation that is newer than the newest    *)
(* completion, which is newer than the last reopening.                      *)
LEMMA FinalizeStep ==
  ASSUME IInv, NEW c \in Consultants, Finalize(c)
  PROVE  IInv'
<1> USE DEF IInv, RowsInv, VisitInv, RoundInv
<1> DEFINE e == "FINALIZE_INQUIRY"
<1>0. /\ Transit(e)
      /\ UNCHANGED <<assignee, rows, latest, visit, resolvedAt, reopenedAt, attempts>>
  BY DEF Finalize
<1>1. PICK r \in Rules :
        r.event = e /\ r.from = status /\ status' = r.to /\ RecordedStep
  BY <1>0, TransitFacts, RuleTable DEF RecordedStep
<1>2. status = "COMPLETION_PENDING" /\ status' = "RESOLVED"
  BY <1>1, RuleTable
<1>3. TypedWrites
  BY <1>0, KeptRowsFacts DEF TypedWrites, TypeOK
<1>4. LatestMatchesStatus'
  BY <1>0, <1>2, CompletionFacts, KeptRowsFacts
     DEF LatestMatchesStatus, HasLatest, NONE
<1>5. VisitInv'
  BY <1>0, <1>2, CompletionFacts, NoVisitFacts
<1>6. ResolvedOnFreshConfirmation'
  <2>1. PICK n \in 1 .. latest : IsHandling(n) /\ FreshResolved(n)
    BY DEF Finalize
  <2>2. \A m \in 1 .. latest : rows[m].completedAt \in Nat
    BY ConstantsAssumption DEF TypeOK, Sequences, Consultation
  <2>3. \A m \in 1 .. latest : rows[m].completedAt <= rows[n].completedAt
    <3> SUFFICES ASSUME NEW m \in 1 .. latest
                 PROVE  rows[m].completedAt <= rows[n].completedAt
      OBVIOUS
    <3>1. CASE rows[m].status = "COMPLETED"
      BY <2>1, <3>1 DEF IsHandling
    <3>2. CASE rows[m].status # "COMPLETED"
      BY <2>2, <3>2 DEF RowsPassChecks
    <3>3. QED
      BY <3>1, <3>2
  <2>4. reopenedAt < rows[latest].completedAt
    BY <1>2 DEF RoundIsNew, Latest
  <2>5. resolvedAt \in Nat /\ reopenedAt \in Nat
    BY DEF TypeOK
  <2>6. \A m \in 1 .. latest : resolvedAt > rows[m].completedAt
    BY <2>1, <2>2, <2>3, <2>5 DEF FreshResolved
  <2>7. resolvedAt > reopenedAt
    BY <1>2, <2>2, <2>4, <2>5, <2>6, CompletionFacts
  <2>8. QED
    BY <1>0, <2>6, <2>7 DEF ResolvedOnFreshConfirmation
<1>7. RoundIsNew'
  BY <1>2 DEF RoundIsNew
<1>8. QED
  BY <1>0, <1>1, <1>3, <1>4, <1>5, <1>6, <1>7, RecordedStepFacts, KeptRowsFacts

-----------------------------------------------------------------------------
(* The writes that leave no history row.                                    *)

(* A write outside the engine that keeps the state and the rows.            *)
LEMMA UnrecordedStep ==
  ASSUME IInv, status' = status, version' = version + 1, version < MaxVersion,
         status \in {"AI_GUIDANCE", "COMPLETION_PENDING"},
         UNCHANGED <<assignee, rows, latest, visit, reopenedAt, logged,
                     loggedState>>,
         resolvedAt' \in {resolvedAt, version'},
         attempts' \in {attempts, attempts + 1}
  PROVE  IInv'
<1> USE DEF IInv, RowsInv, VisitInv, RoundInv
<1>1. version' \in 0 .. MaxVersion
  BY ConstantsAssumption DEF TypeOK
<1>2. /\ resolvedAt' \in 0 .. MaxVersion /\ attempts' \in 0 .. MaxVersion
      /\ StampsBounded'
  BY ConstantsAssumption DEF TypeOK, StampsBounded
<1>3. TypeOK'
  BY <1>1, <1>2, KeptRowsFacts DEF TypeOK
<1>4. LatestMatchesStatus'
  BY KeptRowsFacts DEF LatestMatchesStatus, HasLatest, NONE
<1>5. VisitInv'
  BY NoVisitFacts DEF VisitStages
<1>6. RoundIsNew' /\ ResolvedOnFreshConfirmation'
  BY KeptRowsFacts DEF RoundIsNew, ResolvedOnFreshConfirmation
<1>7. HistoryFollowsStatus'
  BY DEF HistoryFollowsStatus
<1>8. QED
  BY <1>2, <1>3, <1>4, <1>5, <1>6, <1>7, KeptRowsFacts

(* The customer's confirmation is stamped with the new version.             *)
LEMMA FeedbackStep ==
  ASSUME IInv, SubmitFeedback
  PROVE  IInv'
<1> USE DEF IInv, RowsInv, VisitInv, RoundInv
<1> DEFINE e == "SUBMIT_RESOLUTION_FEEDBACK"
<1>1. PICK r \in Planned(e) : ApplyStateTransition(r)
  BY DEF SubmitFeedback
<1>2. r \in Rules /\ r.event = e /\ r.from = status
  BY <1>1, PlanIsRule DEF Planned
<1>3. r.from = "COMPLETION_PENDING" /\ r.to = "COMPLETION_PENDING"
  BY <1>2, RuleTable
<1>4. /\ status' = status /\ status = "COMPLETION_PENDING"
      /\ version' = version + 1 /\ version < MaxVersion
  BY <1>1, <1>2, <1>3 DEF ApplyStateTransition, NextVersion
<1>5. QED
  BY <1>4, UnrecordedStep DEF SubmitFeedback, NoHistory

(* A reassignment hands an open row to c, together with the inquiry.        *)
LEMMA ReassignStep ==
  ASSUME IInv, NEW c \in Consultants, Reassign(c)
  PROVE  IInv'
<1> USE DEF IInv, RowsInv, VisitInv, RoundInv
<1> DEFINE row == [Latest EXCEPT !.consultant = c,
                     !.status = IF @ = "WAITING" THEN "ASSIGNED" ELSE @]
<1>0. /\ Save(row) /\ assignee' = c /\ latest > 0
      /\ Latest.status \notin {"COMPLETED", "CANCELLED"}
      /\ status \notin TerminalStates
      /\ UNCHANGED <<status, version, visit, resolvedAt, reopenedAt, attempts,
                     logged, loggedState>>
  BY DEF Reassign
<1>1. Latest \in Consultation /\ latest \in 1 .. latest
  BY <1>0, ConstantsAssumption DEF TypeOK, Latest, Sequences
<1>2. RowPasses(Latest)
  BY <1>1 DEF RowsPassChecks, RowPasses, Latest
<1>3. /\ row \in Consultation
      /\ row.consultant = c
      /\ row.outcome = Latest.outcome /\ row.confirmed = Latest.confirmed
      /\ row.completedAt = Latest.completedAt
      /\ Latest.status = "WAITING" => row.status = "ASSIGNED"
      /\ Latest.status # "WAITING" => row.status = Latest.status
  BY <1>1 DEF Consultation, ConsultationStatuses
<1>4. RowPasses(row)
  BY <1>0, <1>2, <1>3, ConstantsAssumption DEF RowPasses
<1> HIDE DEF row
<1>5. /\ rows' \in [Sequences -> Consultation] /\ latest' = latest
      /\ Latest' = row /\ EarlierRowsCompleted' /\ RowsPassChecks'
  BY <1>0, <1>3, <1>4, SaveFacts
<1>6. TypeOK' /\ StampsBounded' /\ HistoryFollowsStatus' /\ VisitStage'
  BY <1>0, <1>5
     DEF TypeOK, StampsBounded, HistoryFollowsStatus, VisitStage
<1>7. LatestMatchesStatus'
  BY <1>0, <1>3, <1>5 DEF LatestMatchesStatus, HasLatest, TerminalStates, NONE
<1>8. VisitGrounded'
  BY <1>0, <1>3, <1>5 DEF VisitGrounded, HasLatest
<1>9. status' \notin {"COMPLETION_PENDING", "RESOLVED"}
  BY <1>0 DEF LatestMatchesStatus, HasLatest, TerminalStates, NONE
<1>10. QED
  BY <1>5, <1>6, <1>7, <1>8, <1>9, OpenStateFacts

-----------------------------------------------------------------------------
(* The induction step, by actor.                                            *)

(* The customer's requests, one step each.                                  *)
LEMMA CustomerStepIInv ==
  ASSUME IInv, CustomerStep
  PROVE  IInv'
<1>1. CASE StartInquiry
  BY <1>1, IntakeStep DEF StartInquiry, IInv, TypeOK
<1>2. CASE SubmitSymptom
  BY <1>2, IntakeStep DEF SubmitSymptom, IInv, TypeOK
<1>3. CASE SubmitAnswers
  BY <1>3, IntakeStep DEF SubmitAnswers, IInv, TypeOK
<1>4. CASE SubmitActionResult
  BY <1>4, UnrecordedStep DEF SubmitActionResult, NoHistory
<1>5. CASE RequestConsultation
  BY <1>5, QueueStep DEF RequestConsultation
<1>6. CASE SubmitFeedback
  BY <1>6, FeedbackStep
<1>7. CASE ReportUnresolved
  BY <1>7, ReopenStep
<1>8. CASE Cancel
  BY <1>8, CancelStep
<1>9. QED
  BY <1>1, <1>2, <1>3, <1>4, <1>5, <1>6, <1>7, <1>8 DEF CustomerStep

(* The events of the AI analysis and of the human review.                   *)
LEMMA SystemStepIInv ==
  ASSUME IInv, SystemStep
  PROVE  IInv'
<1>1. ASSUME NEW e \in AIEvents, ApplyAIEvent(e) PROVE IInv'
  BY <1>1, IntakeStep DEF ApplyAIEvent, IInv, TypeOK
<1>2. CASE DangerDetected
  BY <1>2, QueueStep DEF DangerDetected
<1>3. CASE HumanReviewApproved
  BY <1>3, IntakeStep DEF HumanReviewApproved, IInv, TypeOK
<1>4. ASSUME NEW e \in EscalationEvents, HumanReviewEscalated(e) PROVE IInv'
  BY <1>4, QueueStep DEF HumanReviewEscalated
<1>5. QED
  BY <1>1, <1>2, <1>3, <1>4 DEF SystemStep

(* The row a consultation service reads is typed.                           *)
LEMMA LatestTyped ==
  ASSUME TypeOK, latest > 0
  PROVE  latest \in Sequences /\ Latest \in Consultation
BY ConstantsAssumption DEF TypeOK, Latest, Sequences

(* save_summary touches the text and the outcome only.                      *)
LEMMA SaveSummaryStep ==
  ASSUME IInv, NEW c \in Consultants, NEW text \in BOOLEAN,
         NEW o \in Outcomes, SaveSummary(c, text, o)
  PROVE  IInv'
<1> DEFINE row == [Latest EXCEPT !.summary = @ \/ text, !.outcome = o]
<1>1. Latest \in Consultation
  BY LatestTyped DEF SaveSummary, IInv
<1>2. /\ row \in Consultation /\ row.status = Latest.status
      /\ row.consultant = Latest.consultant
      /\ row.completedAt = Latest.completedAt
  BY <1>1, Zenon DEF Consultation
<1>3. QED
  BY <1>2, EditStep DEF SaveSummary

(* confirm_summary touches the confirmation only.                           *)
LEMMA ConfirmSummaryStep ==
  ASSUME IInv, NEW c \in Consultants, ConfirmSummary(c)
  PROVE  IInv'
<1> DEFINE row == [Latest EXCEPT !.confirmed = TRUE]
<1>1. Latest \in Consultation
  BY LatestTyped DEF ConfirmSummary, IInv
<1>2. /\ row \in Consultation /\ row.status = Latest.status
      /\ row.consultant = Latest.consultant
      /\ row.completedAt = Latest.completedAt
  BY <1>1 DEF Consultation
<1>3. QED
  BY <1>2, EditStep DEF ConfirmSummary

(* complete closes the row of a confirmed, decided summary.                 *)
LEMMA CompleteStep ==
  ASSUME IInv, NEW c \in Consultants, CompleteConsultation(c)
  PROVE  IInv'
<1> DEFINE row == [Latest EXCEPT !.status = "COMPLETED", !.completedAt = version']
<1>1. Latest \in Consultation /\ version' \in 0 .. MaxVersion
  BY LatestTyped, TransitFacts DEF CompleteConsultation, IInv, AssignedTransit
<1>2. /\ row \in Consultation /\ row.status = "COMPLETED"
      /\ row.consultant = Latest.consultant /\ row.outcome = Latest.outcome
      /\ row.completedAt = version'
  BY <1>1 DEF Consultation, ConsultationStatuses
<1>3. QED
  BY <1>2, CompletionStep DEF CompleteConsultation

(* mark_not_needed closes the row with COMPLETED_NO_VISIT.                  *)
LEMMA NotNeededStep ==
  ASSUME IInv, NEW c \in Consultants, MarkVisitNotNeeded(c)
  PROVE  IInv'
<1> DEFINE row == [Latest EXCEPT !.status = "COMPLETED",
                                 !.outcome = "COMPLETED_NO_VISIT",
                                 !.completedAt = version']
<1>1. Latest \in Consultation /\ version' \in 0 .. MaxVersion
  BY LatestTyped, TransitFacts
     DEF MarkVisitNotNeeded, VisitDecidable, IInv, AssignedTransit
<1>2. /\ row \in Consultation /\ row.status = "COMPLETED"
      /\ row.consultant = Latest.consultant
      /\ row.outcome = "COMPLETED_NO_VISIT"
      /\ row.completedAt = version'
  BY <1>1 DEF Consultation, ConsultationStatuses, Outcomes
<1>3. QED
  BY <1>2, CompletionStep DEF MarkVisitNotNeeded, VisitDecidable

(* The consultant's requests, one step each.                                *)
LEMMA ConsultantStepIInv ==
  ASSUME IInv, NEW c \in Consultants, ConsultantStep(c)
  PROVE  IInv'
<1>1. CASE RegisterPhoneInquiry(c)
  BY <1>1, IntakeStep DEF RegisterPhoneInquiry
<1>2. ASSUME NEW text \in BOOLEAN, NEW o \in Outcomes, SaveSummary(c, text, o)
      PROVE  IInv'
  BY <1>2, SaveSummaryStep
<1>3. CASE ConfirmSummary(c) \/ CompleteConsultation(c) \/ MarkVisitNotNeeded(c)
  BY <1>3, ConfirmSummaryStep, CompleteStep, NotNeededStep
<1>4. ASSUME NEW t \in Technicians, NEW d \in BOOLEAN,
             UpdateVisitSchedule(c, t, d)
      PROVE  IInv'
  BY <1>4, ScheduleStep
<1>5. CASE RequestVisitReview(c) \/ CreateVisitRequest(c) \/ ConfirmVisit(c)
  BY <1>5, ReviewStep, CreateVisitStep, ConfirmVisitStep
<1>6. CASE ResumeConsultation(c)
  BY <1>6, QueueStep DEF ResumeConsultation, AssignedTransit
<1>7. CASE ClaimConsultation(c) \/ StartConsultation(c) \/ Finalize(c)
  BY <1>7, ClaimStep, StartStep, FinalizeStep
<1>8. QED
  BY <1>1, <1>2, <1>3, <1>4, <1>5, <1>6, <1>7 DEF ConsultantStep

(* The supervisor acts for the row's consultant or reassigns the row.       *)
LEMMA SupervisorStepIInv ==
  ASSUME IInv, NEW c \in Consultants, SupervisorStep(c)
  PROVE  IInv'
<1>1. CASE Reassign(c)
  BY <1>1, ReassignStep
<1>2. CASE SupervisorOnBehalf(c)
  BY <1>2, StartStep, SaveSummaryStep, ConfirmSummaryStep, CompleteStep
     DEF SupervisorOnBehalf
<1>3. QED
  BY <1>1, <1>2 DEF SupervisorStep

(* The induction step: every service, and stuttering, keeps the invariant.  *)
LEMMA NextIInv == IInv /\ [Next]_vars => IInv'
<1> SUFFICES ASSUME IInv, [Next]_vars PROVE IInv'
  OBVIOUS
<1>1. CASE CustomerStep
  BY <1>1, CustomerStepIInv
<1>2. CASE SystemStep
  BY <1>2, SystemStepIInv
<1>3. ASSUME NEW c \in Consultants, ConsultantStep(c) \/ SupervisorStep(c)
      PROVE  IInv'
  BY <1>3, ConsultantStepIInv, SupervisorStepIInv
<1>4. CASE UNCHANGED vars
  <2> USE <1>4 DEF vars, IInv
  <2>1. RowsInv'
    BY DEF RowsInv, LatestMatchesStatus, EarlierRowsCompleted, RowsPassChecks,
           HasLatest, Latest, NoRow, NewRow, Sequences
  <2>2. VisitInv'
    BY DEF VisitInv, VisitStage, VisitGrounded, HasLatest, Latest
  <2>3. RoundInv' /\ HistoryFollowsStatus'
    BY DEF RoundInv, StampsBounded, RoundIsNew, ResolvedOnFreshConfirmation,
           Latest, HistoryFollowsStatus
  <2>4. TypeOK'
    BY DEF TypeOK
  <2>5. QED
    BY <2>1, <2>2, <2>3, <2>4
<1>5. QED
  BY <1>1, <1>2, <1>3, <1>4 DEF Next

(* The inductive invariant holds in every state the services can reach.     *)
THEOREM Invariance == Spec => []IInv
BY InitIInv, NextIInv, PTL DEF Spec

-----------------------------------------------------------------------------
(* The theorems.                                                            *)

(* Every committed row of the inquiry and of what hangs off it is well      *)
(* typed, whatever the number of consultants, technicians and rounds.       *)
THEOREM TypeCorrect == Spec => []TypeOK
<1>1. IInv => TypeOK
  BY DEF IInv
<1>2. QED
  BY <1>1, Invariance, PTL

(* The consultation that ConsultationService, VisitService and              *)
(* ResolutionService find with lock_latest is the one the inquiry state is  *)
(* about, however the services interleave.                                  *)
THEOREM LatestAlwaysMatches == Spec => []LatestMatchesStatus
<1>1. IInv => LatestMatchesStatus
  BY DEF IInv, RowsInv
<1>2. QED
  BY <1>1, Invariance, PTL

(* An inquiry never has two open consultations.                             *)
THEOREM OneOpenConsultation == Spec => []EarlierRowsCompleted
<1>1. IInv => EarlierRowsCompleted
  BY DEF IInv, RowsInv
<1>2. QED
  BY <1>1, Invariance, PTL

(* No service commits a row that the check constraints of the consultation  *)
(* table would refuse.                                                      *)
THEOREM ChecksAlwaysPass == Spec => []RowsPassChecks
<1>1. IInv => RowsPassChecks
  BY DEF IInv, RowsInv
<1>2. QED
  BY <1>1, Invariance, PTL

(* finalize closes an inquiry only on a confirmation of the last round.     *)
THEOREM ResolvedIsConfirmed == Spec => []ResolvedOnFreshConfirmation
<1>1. IInv => ResolvedOnFreshConfirmation
  BY DEF IInv, RoundInv
<1>2. QED
  BY <1>1, Invariance, PTL

(* A visit always rests on a confirmed result that asked for it, and a      *)
(* confirmed visit has its technician and its date.                         *)
THEOREM VisitAlwaysGrounded == Spec => []VisitGrounded
<1>1. IInv => VisitGrounded
  BY DEF IInv, VisitInv
<1>2. QED
  BY <1>1, Invariance, PTL

(* The newest transition history row names the state of the inquiry.        *)
THEOREM HistoryAlwaysFollows == Spec => []HistoryFollowsStatus
<1>1. IInv => HistoryFollowsStatus
  BY DEF IInv
<1>2. QED
  BY <1>1, Invariance, PTL

(* The RuntimeErrors of ConsultationRepository.request and cancel_active    *)
(* are unreachable from the services that call them.                        *)
THEOREM RuntimeErrorsUnreachable == Spec => []NoRuntimeError
<1>1. IInv => NoRuntimeError
  <2> SUFFICES ASSUME IInv PROVE NoRuntimeError
    OBVIOUS
  <2> USE DEF IInv, RowsInv
  <2>1. ASSUME NEW m \in Active PROVE m = latest
    <3>1. m \in 1 .. latest /\ m \in Sequences /\ rows[m].status # "COMPLETED"
      BY <2>1, ConstantsAssumption DEF Active, ActiveStatuses, TypeOK, Sequences
    <3>2. QED
      BY <3>1 DEF EarlierRowsCompleted, TypeOK
  <2>2. ASSUME NEW e \in {"REQUEST_CONSULTATION", "RESUME_CONSULTATION",
                          "DANGER_DETECTED"} \cup EscalationEvents,
               Planned(e) # {}
        PROVE  ~HasLatest({"IN_PROGRESS"})
    <3>1. PICK r \in Rules : r.event = e /\ r.from = status
      BY <2>2, PlanIsRule DEF Planned
    <3>2. status \in {"QUESTIONNAIRE_IN_PROGRESS", "AI_GUIDANCE",
                      "CONSULTATION_REQUIRED", "COMPLETION_PENDING", "REOPENED"}
      BY <3>1, RuleTable
    <3>3. QED
      BY <3>2 DEF LatestMatchesStatus, HasLatest, NONE
  <2>3. QED
    BY <2>1, <2>2 DEF NoRuntimeError
<1>2. QED
  BY <1>1, Invariance, PTL

-----------------------------------------------------------------------------
(* What a step may never do. *)

(* resolve() refuses every event on a closed inquiry.                       *)
LEMMA PlannedIsOpen ==
  ASSUME NEW e, Planned(e) # {}
  PROVE  status \notin TerminalStates
BY DEF Planned, Plan, ResolveReason

(* So no service that resolves an event writes a closed inquiry.            *)
LEMMA TransitIsOpen ==
  ASSUME NEW e, Transit(e)
  PROVE  status \notin TerminalStates
BY PlannedIsOpen DEF Transit

(* Nor do reassign and the action result, which resolve none.               *)
LEMMA NextIsOpen ==
  ASSUME Next
  PROVE  status \notin TerminalStates
<1>1. CASE CustomerStep
  BY <1>1, TransitIsOpen, PlannedIsOpen
     DEF CustomerStep, StartInquiry, SubmitSymptom, SubmitAnswers,
         SubmitActionResult, RequestConsultation, SubmitFeedback,
         ReportUnresolved, Cancel, TerminalStates
<1>2. CASE SystemStep
  BY <1>2, TransitIsOpen
     DEF SystemStep, ApplyAIEvent, DangerDetected, HumanReviewApproved,
         HumanReviewEscalated
<1>3. ASSUME NEW c \in Consultants, NEW e, AssignedTransit(c, e)
      PROVE  status \notin TerminalStates
  BY <1>3, TransitIsOpen DEF AssignedTransit
<1>4. ASSUME NEW c \in Consultants, ConsultantStep(c)
      PROVE  status \notin TerminalStates
  BY <1>3, <1>4, TransitIsOpen
     DEF ConsultantStep, RegisterPhoneInquiry, ClaimConsultation,
         StartConsultation, SaveSummary, ConfirmSummary, CompleteConsultation,
         RequestVisitReview, CreateVisitRequest, MarkVisitNotNeeded,
         UpdateVisitSchedule, ConfirmVisit, ResumeConsultation, Finalize
<1>5. ASSUME NEW c \in Consultants, SupervisorStep(c)
      PROVE  status \notin TerminalStates
  BY <1>3, <1>5
     DEF SupervisorStep, Reassign, SupervisorOnBehalf, StartConsultation,
         SaveSummary, ConfirmSummary, CompleteConsultation
<1>6. QED
  BY <1>1, <1>2, <1>4, <1>5 DEF Next

(* No service, the supervisor's included, writes a resolved or cancelled    *)
(* inquiry or anything that hangs off it.                                   *)
THEOREM ClosedStaysClosed == Spec => TerminalIsFinal
<1>1. [Next]_vars => [status \notin TerminalStates]_vars
  BY NextIsOpen
<1>2. QED
  BY <1>1, PTL DEF Spec, TerminalIsFinal

(* Writing an open row, or a new one, keeps the completed ones.             *)
CompletedKept ==
  \A n \in Sequences : rows[n].status = "COMPLETED" => rows'[n] = rows[n]

(* A rewrite of an open row leaves the completed ones alone.                *)
LEMMA SaveKeepsCompleted ==
  ASSUME TypeOK, latest > 0, Latest.status # "COMPLETED", NEW row, Save(row)
  PROVE  CompletedKept
BY LatestTyped DEF TypeOK, Save, Latest, CompletedKept

(* So does a new row, which takes an unused sequence.                       *)
LEMMA InsertKeepsCompleted ==
  ASSUME TypeOK, EarlierRowsCompleted, NEW row, Insert(row)
  PROVE  CompletedKept
<1>1. latest + 1 \in Sequences /\ rows[latest + 1].status # "COMPLETED"
  BY ConstantsAssumption
     DEF TypeOK, Insert, Sequences, EarlierRowsCompleted, NoRow, NewRow, NONE
<1>2. QED
  BY <1>1 DEF TypeOK, Insert, CompletedKept

(* So does ConsultationRepository.request.                                  *)
LEMMA RequestKeepsCompleted ==
  ASSUME TypeOK, EarlierRowsCompleted, Request
  PROVE  CompletedKept
BY InsertKeepsCompleted DEF Request, CompletedKept

(* The rows in progress are the ones the consultation services rewrite.     *)
LEMMA InProgressFacts ==
  ASSUME IInv, NEW c,
         NEW e \in {"UPDATE_CONSULTATION_SUMMARY", "VISIT_NOT_NEEDED",
                    "CONFIRM_CONSULTATION_SUMMARY", "CONSULTATION_COMPLETED"},
         AssignedTransit(c, e)
  PROVE  latest > 0 /\ Latest.status = "IN_PROGRESS"
<1> USE DEF IInv, RowsInv
<1>1. PICK r \in Rules : r.event = e /\ r.from = status
  BY TransitFacts DEF AssignedTransit
<1>2. status \in {"CONSULTATION_IN_PROGRESS", "VISIT_REVIEW_PENDING"}
  BY <1>1, RuleTable
<1>3. QED
  BY <1>2 DEF LatestMatchesStatus, HasLatest, NONE

(* The consultation services rewrite an open row only.                      *)
LEMMA ConsultingKeepsCompleted ==
  ASSUME IInv, NEW c \in Consultants, NEW text, NEW o,
         \/ StartConsultation(c) \/ SaveSummary(c, text, o)
         \/ ConfirmSummary(c) \/ CompleteConsultation(c)
         \/ MarkVisitNotNeeded(c)
  PROVE  CompletedKept
<1> USE DEF IInv, RowsInv
<1>1. CASE StartConsultation(c)
  <2>1. CASE HasLatest({"WAITING", "ASSIGNED"})
    BY <1>1, <2>1, SaveKeepsCompleted DEF StartConsultation, HasLatest
  <2>2. CASE ~HasLatest({"WAITING", "ASSIGNED"})
    BY <1>1, <2>2, InsertKeepsCompleted DEF StartConsultation
  <2>3. QED
    BY <2>1, <2>2
<1>2. CASE SaveSummary(c, text, o)
  BY <1>2, InProgressFacts, SaveKeepsCompleted DEF SaveSummary
<1>3. CASE ConfirmSummary(c)
  BY <1>3, InProgressFacts, SaveKeepsCompleted DEF ConfirmSummary
<1>4. CASE CompleteConsultation(c)
  BY <1>4, InProgressFacts, SaveKeepsCompleted DEF CompleteConsultation
<1>5. CASE MarkVisitNotNeeded(c)
  BY <1>5, InProgressFacts, SaveKeepsCompleted DEF MarkVisitNotNeeded
<1>6. QED
  BY <1>1, <1>2, <1>3, <1>4, <1>5

(* cancel_active rewrites an active row only.                               *)
LEMMA CancelKeepsCompleted ==
  ASSUME IInv, Cancel
  PROVE  CompletedKept
<1>1. CASE UNCHANGED rows
  BY <1>1 DEF CompletedKept
<1>2. ASSUME NEW n \in Active,
             rows' = [rows EXCEPT ![n].status = "CANCELLED",
                                  ![n].outcome = "PENDING",
                                  ![n].completedAt = 0]
      PROVE  CompletedKept
  <2>1. rows[n].status # "COMPLETED"
    BY <1>2 DEF Active, ActiveStatuses
  <2>2. QED
    BY <1>2, <2>1 DEF CompletedKept, IInv, TypeOK
<1>3. QED
  BY <1>1, <1>2 DEF Cancel

(* No service rewrites a completed row.                                     *)
LEMMA NextKeepsCompleted ==
  ASSUME IInv, Next
  PROVE  CompletedKept
<1> USE DEF IInv, RowsInv
<1>1. CASE UNCHANGED rows
  BY <1>1 DEF CompletedKept
<1>2. CASE CustomerStep
  BY <1>1, <1>2, RequestKeepsCompleted, CancelKeepsCompleted
     DEF CustomerStep, StartInquiry, SubmitSymptom, SubmitAnswers,
         SubmitActionResult, RequestConsultation, SubmitFeedback,
         ReportUnresolved
<1>3. CASE SystemStep
  BY <1>1, <1>3, RequestKeepsCompleted
     DEF SystemStep, ApplyAIEvent, DangerDetected, HumanReviewApproved,
         HumanReviewEscalated
<1>4. ASSUME NEW c \in Consultants, ClaimConsultation(c) \/ Reassign(c)
      PROVE  CompletedKept
  BY <1>4, SaveKeepsCompleted DEF ClaimConsultation, IsClaimable, HasLatest,
     Reassign
<1>5. ASSUME NEW c \in Consultants, ConsultantStep(c)
      PROVE  CompletedKept
  BY <1>1, <1>4, <1>5, ConsultingKeepsCompleted, RequestKeepsCompleted
     DEF ConsultantStep, RegisterPhoneInquiry, RequestVisitReview,
         CreateVisitRequest, UpdateVisitSchedule, ConfirmVisit,
         ResumeConsultation, Finalize
<1>6. ASSUME NEW c \in Consultants, SupervisorStep(c)
      PROVE  CompletedKept
  BY <1>4, <1>6, ConsultingKeepsCompleted DEF SupervisorStep, SupervisorOnBehalf
<1>7. QED
  BY <1>2, <1>3, <1>5, <1>6 DEF Next

(* A completed consultation keeps its consultant, its result and its        *)
(* confirmation through reassignments, cancellations and later rounds.      *)
THEOREM CompletedStaysFrozen == Spec => CompletedRowsFrozen
<1>1. IInv /\ [Next]_vars =>
        [\A n \in Sequences :
           rows[n].status = "COMPLETED" => rows'[n] = rows[n]]_vars
  BY NextKeepsCompleted DEF CompletedKept
<1>2. QED
  BY <1>1, Invariance, PTL DEF Spec, CompletedRowsFrozen
-----------------------------------------------------------------------------
(* The transition contract by itself: WorkflowEngine over its own state.    *)

(* No rule that matches a visit takes the visit away.                       *)
LEMMA ResolvesFacts ==
  ASSUME NEW e, NEW s, NEW v, NEW t, NEW w, Resolves(e, s, v, t, w)
  PROVE  v # NONE => w # NONE
<1>1. PICK r \in Plan(e, s, v) : t = r.to /\ w = NextVisitStatus(r, v)
  BY DEF Resolves
<1>2. r \in Rules /\ VisitMatches(r, v)
  BY <1>1, PlanIsRule
<1>3. r.mode \in {"CREATE", "TRANSITION"} => r.vto # NONE
  BY <1>2 DEF Rules, Absent, Preserve, Moves, Rule, NONE
<1>4. QED
  BY <1>1, <1>2, <1>3 DEF NextVisitStatus, VisitMatches

(* No event of the contract takes a visit away from an inquiry.             *)
THEOREM ContractKeepsVisit == SpecContract => VisitNeverDropped
<1>1. [NextContract]_contractVars =>
        [visitStatus # NONE => visitStatus' # NONE]_contractVars
  BY ResolvesFacts DEF NextContract, Apply
<1>2. QED
  BY <1>1, PTL DEF SpecContract, VisitNeverDropped

-----------------------------------------------------------------------------
(* The services implement the contract. *)

(* A planned rule applied with its visit status, and no action result, is a *)
(* step of the engine.                                                      *)
LEMMA PlannedIsApply ==
  ASSUME TypeOK, NEW e, NEW r \in Planned(e), ApplyStateTransition(r),
         visit'.status = NextVisitStatus(r, visit.status),
         attempts' = attempts
  PROVE  Engine!NextContract
<1>1. Resolves(e, status, visit.status, status', visit'.status)
  BY DEF Resolves, Planned, ApplyStateTransition
<1>2. Engine!Resolves(e, status, visit.status, status', visit'.status)
  BY <1>1
     DEF Engine!Resolves, Engine!Plan, Engine!ResolveReason,
         Engine!Candidates, Engine!StateCandidates, Engine!VisitMatches,
         Engine!NextVisitStatus, Engine!VisitStatusAllowed, Engine!Rules,
         Engine!Rule, Engine!Absent, Engine!Preserve, Engine!Moves,
         Engine!TerminalStates, Engine!AllowedVisitStatuses,
         Engine!InquiryStates, Engine!NONE,
         Resolves, Plan, ResolveReason, Candidates, StateCandidates,
         VisitMatches, NextVisitStatus, VisitStatusAllowed, Rules, Rule,
         Absent, Preserve, Moves, TerminalStates, AllowedVisitStatuses,
         InquiryStates, NONE
<1>3. /\ version - attempts < MaxVersion
      /\ version' - attempts' = Engine!NextVersion(version - attempts)
  BY ConstantsAssumption
     DEF TypeOK, ApplyStateTransition, NextVersion, Engine!NextVersion
<1>4. e \in EventCodes
  BY PlanIsRule DEF Planned, EventCodes
<1>5. EventCodes = Engine!EventCodes
  BY DEF EventCodes, Rules, Rule, Absent, Preserve, Moves, NONE,
         Engine!EventCodes, Engine!Rules, Engine!Rule, Engine!Absent,
         Engine!Preserve, Engine!Moves, Engine!NONE
<1>6. QED
  BY <1>2, <1>3, <1>4, <1>5 DEF Engine!NextContract, Engine!Apply

\* The events whose rule moves or creates the visit.
VisitEvents ==
  {"VISIT_NEEDED", "UPDATE_VISIT_SCHEDULE", "CONFIRM_VISIT", "START_VISIT",
   "VISIT_COMPLETED", "REVISIT_NEEDED"}

(* The rules of every other event leave the visit status as it is.          *)
LEMMA OtherEventsKeepVisit ==
  ASSUME NEW e, e \notin VisitEvents, NEW r \in Planned(e)
  PROVE  NextVisitStatus(r, visit.status) = visit.status
<1>1. r \in Rules /\ r.event = e /\ VisitMatches(r, visit.status)
  BY PlanIsRule DEF Planned
<1>2. r.mode \notin {"CREATE", "TRANSITION"}
  BY <1>1 DEF Rules, Absent, Preserve, Moves, Rule, VisitEvents
<1>3. QED
  BY <1>1, <1>2 DEF NextVisitStatus, VisitMatches

(* A service that resolves such an event and leaves the visit alone.        *)
LEMMA TransitIsApply ==
  ASSUME TypeOK, NEW e, e \notin VisitEvents, Transit(e),
         visit' = visit, attempts' = attempts
  PROVE  Engine!NextContract
<1>1. PICK r \in Planned(e) : ApplyStateTransition(r)
  BY DEF Transit
<1>2. QED
  BY <1>1, OtherEventsKeepVisit, PlannedIsApply

(* Feedback resolves an event and skips the history row.                    *)
LEMMA FeedbackIsApply ==
  ASSUME TypeOK, SubmitFeedback
  PROVE  Engine!NextContract
<1>1. PICK r \in Planned("SUBMIT_RESOLUTION_FEEDBACK") : ApplyStateTransition(r)
  BY DEF SubmitFeedback
<1>2. "SUBMIT_RESOLUTION_FEEDBACK" \notin VisitEvents
  BY DEF VisitEvents
<1>3. QED
  BY <1>1, <1>2, OtherEventsKeepVisit, PlannedIsApply DEF SubmitFeedback

(* VisitService writes the visit status its rule names: create_request the  *)
(* literal of the contract, the schedule and the confirmation the plan's.   *)
LEMMA VisitServiceIsApply ==
  ASSUME TypeOK, NEW c,
         \/ CreateVisitRequest(c)
         \/ \E t \in Technicians, d \in BOOLEAN : UpdateVisitSchedule(c, t, d)
         \/ ConfirmVisit(c)
  PROVE  Engine!NextContract
<1>1. CASE CreateVisitRequest(c)
  <2>1. PICK r \in Planned("VISIT_NEEDED") : ApplyStateTransition(r)
    BY <1>1 DEF CreateVisitRequest, AssignedTransit, Transit
  <2>2. r \in Rules /\ r.event = "VISIT_NEEDED"
    BY <2>1, PlanIsRule DEF Planned
  <2>3. r.mode = "CREATE" /\ r.vto = "ASSIGNING"
    BY <2>2 DEF Rules, Absent, Preserve, Moves, Rule
  <2>4. visit'.status = NextVisitStatus(r, visit.status)
    BY <1>1, <2>3 DEF CreateVisitRequest, NoVisit, NextVisitStatus
  <2>5. attempts' = attempts
    BY <1>1 DEF CreateVisitRequest, AssignedTransit
  <2>6. QED
    BY <2>1, <2>4, <2>5, PlannedIsApply
<1>2. ASSUME NEW t \in Technicians, NEW d \in BOOLEAN,
             UpdateVisitSchedule(c, t, d)
      PROVE  Engine!NextContract
  <2>1. PICK r \in Planned("UPDATE_VISIT_SCHEDULE") : ApplyStateTransition(r)
    BY <1>2 DEF UpdateVisitSchedule, AssignedTransit, Transit
  <2>2. PICK q \in Planned("UPDATE_VISIT_SCHEDULE") :
          visit'.status = NextVisitStatus(q, visit.status)
    BY <1>2 DEF UpdateVisitSchedule
  <2>3. /\ r \in Rules /\ r.event = "UPDATE_VISIT_SCHEDULE"
        /\ q \in Rules /\ q.event = "UPDATE_VISIT_SCHEDULE"
    BY <2>1, <2>2, PlanIsRule DEF Planned
  <2>4. NextVisitStatus(q, visit.status) = NextVisitStatus(r, visit.status)
    BY <2>3, RuleTable DEF NextVisitStatus
  <2>5. attempts' = attempts
    BY <1>2 DEF UpdateVisitSchedule, AssignedTransit
  <2>6. QED
    BY <2>1, <2>2, <2>4, <2>5, PlannedIsApply
<1>3. CASE ConfirmVisit(c)
  <2>1. PICK r \in Planned("CONFIRM_VISIT") : ApplyStateTransition(r)
    BY <1>3 DEF ConfirmVisit, AssignedTransit, Transit
  <2>2. PICK q \in Planned("CONFIRM_VISIT") :
          visit'.status = NextVisitStatus(q, visit.status)
    BY <1>3 DEF ConfirmVisit, TypeOK
  <2>3. /\ r \in Rules /\ r.event = "CONFIRM_VISIT"
        /\ q \in Rules /\ q.event = "CONFIRM_VISIT"
    BY <2>1, <2>2, PlanIsRule DEF Planned
  <2>4. NextVisitStatus(q, visit.status) = NextVisitStatus(r, visit.status)
    BY <2>3, RuleTable DEF NextVisitStatus
  <2>5. attempts' = attempts
    BY <1>3 DEF ConfirmVisit, AssignedTransit
  <2>6. QED
    BY <2>1, <2>2, <2>4, <2>5, PlannedIsApply
<1>4. QED
  BY <1>1, <1>2, <1>3

(* The consultation services resolve one event each and never see a visit.  *)
LEMMA ConsultingIsApply ==
  ASSUME TypeOK, NEW c, NEW text, NEW o,
         \/ StartConsultation(c) \/ SaveSummary(c, text, o)
         \/ ConfirmSummary(c) \/ CompleteConsultation(c)
  PROVE  Engine!NextContract
<1>1. ASSUME NEW e, AssignedTransit(c, e), visit' = visit, e \notin VisitEvents
      PROVE  Engine!NextContract
  BY <1>1, TransitIsApply DEF AssignedTransit
<1>2. QED
  BY <1>1 DEF StartConsultation, SaveSummary, ConfirmSummary,
              CompleteConsultation, VisitEvents

(* Every service step is one planned rule, or leaves the engine's view as   *)
(* it is: reassign writes neither state nor version, and an action result   *)
(* moves the version and its own count together.                            *)
LEMMA NextIsEngineStep ==
  ASSUME TypeOK, [Next]_vars
  PROVE  [Engine!NextContract]_Engine!contractVars
<1> USE DEF Engine!contractVars
<1>1. CASE SubmitActionResult
  BY <1>1, ConstantsAssumption DEF SubmitActionResult, TypeOK
<1>2. CASE CustomerStep
  BY <1>1, <1>2, TransitIsApply, FeedbackIsApply
     DEF CustomerStep, StartInquiry, SubmitSymptom, SubmitAnswers,
         RequestConsultation, ReportUnresolved, Cancel, VisitEvents
<1>3. CASE SystemStep
  BY <1>3, TransitIsApply
     DEF SystemStep, ApplyAIEvent, AIEvents, DangerDetected,
         HumanReviewApproved, HumanReviewEscalated, EscalationEvents,
         VisitEvents
<1>4. ASSUME NEW c \in Consultants, NEW e, AssignedTransit(c, e), visit' = visit,
             e \notin VisitEvents
      PROVE  Engine!NextContract
  BY <1>4, TransitIsApply DEF AssignedTransit
<1>5. ASSUME NEW c \in Consultants, ConsultantStep(c)
      PROVE  Engine!NextContract
  <2>1. CASE RegisterPhoneInquiry(c) \/ ClaimConsultation(c) \/ Finalize(c)
    BY <2>1, TransitIsApply
       DEF RegisterPhoneInquiry, ClaimConsultation, Finalize, VisitEvents
  <2>2. CASE RequestVisitReview(c) \/ MarkVisitNotNeeded(c) \/ ResumeConsultation(c)
    BY <1>4, <2>2
       DEF RequestVisitReview, MarkVisitNotNeeded, ResumeConsultation,
           VisitEvents
  <2>3. QED
    BY <1>5, <2>1, <2>2, ConsultingIsApply, VisitServiceIsApply
       DEF ConsultantStep
<1>6. ASSUME NEW c \in Consultants, SupervisorStep(c)
      PROVE  [Engine!NextContract]_Engine!contractVars
  <2>1. CASE Reassign(c)
    BY <2>1 DEF Reassign
  <2>2. CASE SupervisorOnBehalf(c)
    BY <2>2, ConsultingIsApply DEF SupervisorOnBehalf
  <2>3. QED
    BY <1>6, <2>1, <2>2 DEF SupervisorStep
<1>7. CASE UNCHANGED vars
  BY <1>7 DEF vars
<1>8. QED
  BY <1>2, <1>3, <1>5, <1>6, <1>7 DEF Next

(* The backend services implement the transition contract: whatever they    *)
(* write, however they interleave, the state, the visit status and the      *)
(* versions move by one planned rule at a time.                             *)
THEOREM ServicesImplementContract == Spec => ImplementsEngine
<1>1. Init => Engine!InitContract
  BY DEF Init, Engine!InitContract, NoVisit, NONE, Engine!NONE
<1>2. TypeOK /\ [Next]_vars => [Engine!NextContract]_Engine!contractVars
  BY NextIsEngineStep
<1>3. QED
  BY <1>1, <1>2, TypeCorrect, PTL DEF Spec, ImplementsEngine, Engine!SpecContract
=============================================================================
