--------------------------- MODULE InquiryWorkflow ---------------------------
(* One inquiry with the rows that hang off it, moved by every backend       *)
(* service that writes it.  Each action is one committed transaction: the   *)
(* services lock the inquiry row first, so their bodies are serialised; a   *)
(* refused request (404, 409, 422) rolls back and is a stuttering step.     *)
(* The steps inside a transaction are the subject of IdempotentCommand, the *)
(* AI call and the human review behind the SYSTEM events that of AIAnalysis.*)
EXTENDS StateMachine, FiniteSets

CONSTANTS
  Consultants,        \* the consultants that may act on the inquiry
  Technicians,        \* active synthetic technicians
  MaxVersion,         \* bound on state_version
  MaxConsultations    \* bound on the consultation rows of the inquiry

ASSUME ConstantsAssumption ==
  /\ MaxVersion \in Nat
  /\ MaxConsultations \in Nat
  /\ NONE \notin Consultants
  /\ NONE \notin Technicians

VARIABLES
  status,         \* Inquiry.status_code, NONE before the row exists
  version,        \* Inquiry.state_version
  assignee,       \* Inquiry.assigned_user
  rows,           \* consultation rows by sequence; unused ones are NoRow
  latest,         \* highest sequence in use, 0 without a consultation
  visit,          \* the visit row: status, technician, confirmed_date set?
  resolvedAt,     \* version of the latest RESOLVED FollowupConfirmation
  reopenedAt,     \* version of the latest REOPENED FollowupConfirmation
  attempts,       \* number of ActionResult rows
  logged,         \* versions that have a transition history row
  loggedState     \* to-state of the newest history row

vars == <<status, version, assignee, rows, latest, visit, resolvedAt,
          reopenedAt, attempts, logged, loggedState>>

ConsultationStatuses ==
  {"WAITING", "ASSIGNED", "IN_PROGRESS", "COMPLETED", "CANCELLED"}

ActiveStatuses == {"WAITING", "ASSIGNED", "IN_PROGRESS"}

Outcomes ==
  {"PENDING", "COMPLETED_NO_VISIT", "VISIT_REQUIRED", "REOPENED_FOLLOWUP"}

(* A consultation row.  summary and confirmed say whether the text and its  *)
(* confirmation are there; completedAt is the version of its completion, 0  *)
(* while completed_at is null.  Versions stand for the time stamps: both    *)
(* are written under the inquiry lock, so they are ordered alike.           *)
Consultation ==
  [status : ConsultationStatuses \cup {NONE},
   consultant : Consultants \cup {NONE},
   outcome : Outcomes,
   summary : BOOLEAN,
   confirmed : BOOLEAN,
   completedAt : 0 .. MaxVersion]

NewRow(st, c) ==
  [status |-> st, consultant |-> c, outcome |-> "PENDING",
   summary |-> FALSE, confirmed |-> FALSE, completedAt |-> 0]

NoRow == NewRow(NONE, NONE)

NoVisit == [status |-> NONE, technician |-> NONE, dated |-> FALSE]

Sequences == 1 .. MaxConsultations

(* The inquiry, its consultations, its visit and its stamps hold what their *)
(* columns allow; the version stays within its bound.                       *)
TypeOK ==
  /\ status \in InquiryStates \cup {NONE}
  /\ version \in 0 .. MaxVersion
  /\ assignee \in Consultants \cup {NONE}
  /\ rows \in [Sequences -> Consultation]
  /\ latest \in 0 .. MaxConsultations
  /\ visit \in [status : VisitStatuses \cup {NONE},
                technician : Technicians \cup {NONE},
                dated : BOOLEAN]
  /\ resolvedAt \in 0 .. MaxVersion
  /\ reopenedAt \in 0 .. MaxVersion
  /\ attempts \in 0 .. MaxVersion
  /\ logged \subseteq 1 .. MaxVersion
  /\ loggedState \in InquiryStates \cup {NONE}

Init ==
  /\ status = NONE
  /\ version = 0
  /\ assignee = NONE
  /\ rows = [n \in Sequences |-> NoRow]
  /\ latest = 0
  /\ visit = NoVisit
  /\ resolvedAt = 0
  /\ reopenedAt = 0
  /\ attempts = 0
  /\ logged = {}
  /\ loggedState = NONE

-----------------------------------------------------------------------------
(* What every service does around its own write. *)

\* The rule the engine plans for event e on the locked rows.
Planned(e) == Plan(e, status, visit.status)

\* apply_state_transition: the status of the rule and the next version.
ApplyStateTransition(r) ==
  /\ version < MaxVersion
  /\ status' = r.to
  /\ version' = NextVersion(version)

\* create_transition_history: one row for the new version.
RecordHistory ==
  /\ logged' = logged \cup {version'}
  /\ loggedState' = status'

NoHistory == UNCHANGED <<logged, loggedState>>

\* resolve, then apply_state_transition, then the history row.
Transit(e) ==
  /\ \E r \in Planned(e) : ApplyStateTransition(r)
  /\ RecordHistory

\* The consultation the repository's lock_latest returns, when there is one.
Latest == rows[latest]

HasLatest(statuses) == latest > 0 /\ Latest.status \in statuses

\* Rewrite the latest row.
Save(row) == rows' = [rows EXCEPT ![latest] = row] /\ latest' = latest

\* Insert the row of the next sequence.
Insert(row) ==
  /\ latest < MaxConsultations
  /\ latest' = latest + 1
  /\ rows' = [rows EXCEPT ![latest + 1] = row]

\* ConsultationRepository.request: refresh an open row or open a new one.
\* An IN_PROGRESS row is its RuntimeError, which rolls the request back.
Request ==
  \/ /\ HasLatest({"WAITING", "ASSIGNED"})
     /\ UNCHANGED <<rows, latest>>
  \/ /\ ~HasLatest(ActiveStatuses)
     /\ Insert(NewRow("WAITING", NONE))

\* The version of the newest completed handling; consultations only, since
\* no service completes a visit.
IsHandling(n) ==
  /\ rows[n].status = "COMPLETED"
  /\ rows[n].completedAt > 0
  /\ \A m \in 1 .. latest :
       rows[m].status = "COMPLETED" =>
         rows[m].completedAt <= rows[n].completedAt

\* Mutant: a confirmation of any round counts.
FreshResolvedEver(n) == resolvedAt > 0

\* fresh_resolved_feedback_exists
FreshResolved(n) == resolvedAt > rows[n].completedAt

-----------------------------------------------------------------------------
(* Opening the inquiry and the AI intake. *)

\* InquiryService.create
StartInquiry ==
  /\ Transit("START_INQUIRY")
  /\ UNCHANGED <<assignee, rows, latest, visit, resolvedAt, reopenedAt, attempts>>

\* ConsultantPhoneInquiryService.register: assigned, without a consultation.
RegisterPhoneInquiry(c) ==
  /\ Transit("REGISTER_PHONE_INQUIRY")
  /\ assignee' = c
  /\ UNCHANGED <<rows, latest, visit, resolvedAt, reopenedAt, attempts>>

\* InquiryTransitionService.submit_symptom
SubmitSymptom ==
  /\ Transit("SUBMIT_SYMPTOM")
  /\ UNCHANGED <<assignee, rows, latest, visit, resolvedAt, reopenedAt, attempts>>

\* FollowupAnswerService
SubmitAnswers ==
  /\ Transit("SUBMIT_ANSWERS")
  /\ UNCHANGED <<assignee, rows, latest, visit, resolvedAt, reopenedAt, attempts>>

\* InquiryAIService: the SYSTEM events that open no consultation.  An analysis
\* is scheduled by the first symptom, so none is applied to a draft.
ApplyAIEvent(e) ==
  /\ status # "DRAFT"
  /\ Transit(e)
  /\ UNCHANGED <<assignee, rows, latest, visit, resolvedAt, reopenedAt, attempts>>

AIEvents ==
  {"SAFE_GUIDANCE_READY", "NO_EVIDENCE", "AI_PROCESSING_TIMEOUT",
   "PRODUCT_VALIDATION_FAILED"}

\* InquiryAIService: a danger result requests the consultation at once.
DangerDetected ==
  /\ Transit("DANGER_DETECTED")
  /\ Request
  /\ UNCHANGED <<assignee, visit, resolvedAt, reopenedAt, attempts>>

\* HumanReviewService.decide, guidance published.
HumanReviewApproved ==
  /\ Transit("HUMAN_REVIEW_GUIDANCE_APPROVED")
  /\ UNCHANGED <<assignee, rows, latest, visit, resolvedAt, reopenedAt, attempts>>

\* HumanReviewService.decide, guidance refused or consultation required.
HumanReviewEscalated(e) ==
  /\ Transit(e)
  /\ Request
  /\ UNCHANGED <<assignee, visit, resolvedAt, reopenedAt, attempts>>

EscalationEvents ==
  {"HUMAN_REVIEW_CONSULTATION_REQUIRED", "HUMAN_REVIEW_REJECTED"}

\* ActionResultService: a version without a rule and without a history row.
SubmitActionResult ==
  /\ status = "AI_GUIDANCE"
  /\ version < MaxVersion
  /\ version' = version + 1
  /\ attempts' = attempts + 1
  /\ NoHistory
  /\ UNCHANGED <<status, assignee, rows, latest, visit, resolvedAt, reopenedAt>>

\* InquiryService.cancel with ConsultationRepository.cancel_active: two
\* active rows are its RuntimeError.
Active == {n \in 1 .. latest : rows[n].status \in ActiveStatuses}

\* Mutant: the consultation is left open.
CancelKeepsConsultation ==
  /\ Transit("CANCEL_INQUIRY")
  /\ UNCHANGED <<assignee, rows, latest, visit, resolvedAt, reopenedAt, attempts>>

Cancel ==
  /\ Transit("CANCEL_INQUIRY")
  /\ \/ Active = {} /\ UNCHANGED rows
     \/ \E n \in Active :
          /\ Active = {n}
          /\ rows' = [rows EXCEPT ![n].status = "CANCELLED",
                                  ![n].outcome = "PENDING",
                                  ![n].completedAt = 0]
  /\ UNCHANGED <<assignee, latest, visit, resolvedAt, reopenedAt, attempts>>

-----------------------------------------------------------------------------
(* The consultation queue and the consultation. *)

\* ConsultationRequestService.  Outside COMPLETION_PENDING the feedback
\* fact is False and the guard holds.
RequestConsultation ==
  /\ status = "COMPLETION_PENDING" =>
       \A n \in 1 .. latest : IsHandling(n) => ~FreshResolved(n)
  /\ Transit("REQUEST_CONSULTATION")
  /\ Request
  /\ UNCHANGED <<assignee, visit, resolvedAt, reopenedAt, attempts>>

\* ConsultationClaimService._is_claimable
IsClaimable ==
  /\ status = "CONSULTATION_REQUIRED"
  /\ assignee = NONE
  /\ HasLatest({"WAITING"})
  /\ Latest.consultant = NONE

ClaimConsultation(c) ==
  /\ IsClaimable
  /\ Transit("CLAIM_CONSULTATION")
  /\ assignee' = c
  /\ Save([Latest EXCEPT !.status = "ASSIGNED", !.consultant = c])
  /\ UNCHANGED <<visit, resolvedAt, reopenedAt, attempts>>

\* AssignedConsultantActionService.execute: only the assignee finds the row.
AssignedTransit(c, e) ==
  /\ assignee = c
  /\ Transit(e)
  /\ UNCHANGED <<assignee, resolvedAt, reopenedAt, attempts>>

\* ConsultationService.start
StartConsultation(c) ==
  /\ AssignedTransit(c, "START_CONSULTATION")
  /\ \/ /\ HasLatest({"WAITING", "ASSIGNED"})
        /\ Save([Latest EXCEPT !.status = "IN_PROGRESS", !.consultant = c])
     \/ /\ ~HasLatest({"WAITING", "ASSIGNED"})
        /\ Insert(NewRow("IN_PROGRESS", c))
  /\ UNCHANGED visit

\* ConsultationService.save_summary: a text, an outcome, both, or other
\* fields; a text is never blank, and nothing resets the confirmation.
SaveSummary(c, text, outcome) ==
  /\ latest > 0
  /\ AssignedTransit(c, "UPDATE_CONSULTATION_SUMMARY")
  /\ Save([Latest EXCEPT !.summary = @ \/ text, !.outcome = outcome])
  /\ UNCHANGED visit

\* ConsultationService.confirm_summary
ConfirmSummary(c) ==
  /\ latest > 0
  /\ Latest.summary
  /\ ~Latest.confirmed
  /\ AssignedTransit(c, "CONFIRM_CONSULTATION_SUMMARY")
  /\ Save([Latest EXCEPT !.confirmed = TRUE])
  /\ UNCHANGED visit

\* ConsultationService.complete
CompleteConsultation(c) ==
  /\ latest > 0
  /\ Latest.outcome # "PENDING"
  /\ Latest.confirmed
  /\ Latest.completedAt = 0
  /\ AssignedTransit(c, "CONSULTATION_COMPLETED")
  /\ Save([Latest EXCEPT !.status = "COMPLETED", !.completedAt = version'])
  /\ UNCHANGED visit

-----------------------------------------------------------------------------
(* The visit decision and its schedule. *)

\* The condition VisitService repeats in its three decisions.
VisitDecidable ==
  /\ latest > 0
  /\ Latest.outcome = "VISIT_REQUIRED"
  /\ Latest.confirmed
  /\ visit.status = NONE

\* VisitService.request_review
RequestVisitReview(c) ==
  /\ VisitDecidable
  /\ AssignedTransit(c, "VISIT_REVIEW_REQUIRED")
  /\ UNCHANGED <<rows, latest, visit>>

\* Mutant: the visit starts in the status of a scheduled one.
CreateVisitRequestScheduling(c) ==
  /\ VisitDecidable
  /\ AssignedTransit(c, "VISIT_NEEDED")
  /\ visit' = [NoVisit EXCEPT !.status = "SCHEDULING"]
  /\ UNCHANGED <<rows, latest>>

\* VisitService.create_request with VisitRepository.create
CreateVisitRequest(c) ==
  /\ VisitDecidable
  /\ AssignedTransit(c, "VISIT_NEEDED")
  /\ visit' = [NoVisit EXCEPT !.status = "ASSIGNING"]
  /\ UNCHANGED <<rows, latest>>

\* VisitService.mark_not_needed with ConsultationRepository.mark_visit_not_needed
MarkVisitNotNeeded(c) ==
  /\ VisitDecidable
  /\ AssignedTransit(c, "VISIT_NOT_NEEDED")
  /\ Save([Latest EXCEPT !.status = "COMPLETED",
                         !.outcome = "COMPLETED_NO_VISIT",
                         !.completedAt = version'])
  /\ UNCHANGED visit

\* VisitService.update_schedule: the confirmed date may be null.
UpdateVisitSchedule(c, t, dated) ==
  /\ \E r \in Planned("UPDATE_VISIT_SCHEDULE") :
       visit' = [status |-> NextVisitStatus(r, visit.status),
                 technician |-> t, dated |-> dated]
  /\ AssignedTransit(c, "UPDATE_VISIT_SCHEDULE")
  /\ UNCHANGED <<rows, latest>>

\* Mutant: a visit without a confirmed date is confirmed.
ConfirmVisitUndated(c) ==
  /\ visit.technician # NONE
  /\ \E r \in Planned("CONFIRM_VISIT") :
       visit' = [visit EXCEPT !.status = NextVisitStatus(r, @)]
  /\ AssignedTransit(c, "CONFIRM_VISIT")
  /\ UNCHANGED <<rows, latest>>

\* VisitService.confirm
ConfirmVisit(c) ==
  /\ visit.dated
  /\ visit.technician # NONE
  /\ \E r \in Planned("CONFIRM_VISIT") :
       visit' = [visit EXCEPT !.status = NextVisitStatus(r, @)]
  /\ AssignedTransit(c, "CONFIRM_VISIT")
  /\ UNCHANGED <<rows, latest>>

-----------------------------------------------------------------------------
(* Closing and reopening: ResolutionService._execute. *)

\* feedback: the version moves, but record_inquiry_state_history is false.
SubmitFeedback ==
  /\ \E n \in 1 .. latest : IsHandling(n) /\ ~FreshResolved(n)
  /\ \E r \in Planned("SUBMIT_RESOLUTION_FEEDBACK") : ApplyStateTransition(r)
  /\ resolvedAt' = version'
  /\ NoHistory
  /\ UNCHANGED <<assignee, rows, latest, visit, reopenedAt, attempts>>

ReportUnresolved ==
  /\ \E n \in 1 .. latest : IsHandling(n)
  /\ Transit("CUSTOMER_REPORTED_UNRESOLVED")
  /\ reopenedAt' = version'
  /\ UNCHANGED <<assignee, rows, latest, visit, resolvedAt, attempts>>

ResumeConsultation(c) ==
  /\ AssignedTransit(c, "RESUME_CONSULTATION")
  /\ Request
  /\ UNCHANGED visit

\* finalize: whoever completed the last handling, whoever is assigned now.
Finalize(c) ==
  /\ \E n \in 1 .. latest :
       /\ IsHandling(n)
       /\ rows[n].consultant = c
       /\ FreshResolved(n)
  /\ Transit("FINALIZE_INQUIRY")
  /\ UNCHANGED <<assignee, rows, latest, visit, resolvedAt, reopenedAt, attempts>>

-----------------------------------------------------------------------------
(* The supervisor's admin actions: SupervisorConsultationService. *)

\* What the three mutants of reassign write.
ReassignAs(c, st) ==
  /\ Save([Latest EXCEPT !.consultant = c, !.status = st])
  /\ assignee' = c
  /\ UNCHANGED <<status, version, visit, resolvedAt, reopenedAt, attempts,
                 logged, loggedState>>

\* Mutant: a waiting row stays WAITING with its new consultant.
ReassignKeepsStatus(c) ==
  /\ HasLatest(ActiveStatuses)
  /\ status \notin TerminalStates
  /\ ReassignAs(c, Latest.status)

\* Mutant: reassign looks at no status at all.
ReassignAny(c) ==
  /\ latest > 0
  /\ ReassignAs(c, IF Latest.status = "WAITING" THEN "ASSIGNED" ELSE Latest.status)

\* reassign: no rule, no version, no history row.
Reassign(c) ==
  /\ latest > 0
  /\ Latest.status \notin {"COMPLETED", "CANCELLED"}
  /\ status \notin TerminalStates
  /\ Save([Latest EXCEPT !.consultant = c,
                         !.status = IF @ = "WAITING" THEN "ASSIGNED" ELSE @])
  /\ assignee' = c
  /\ UNCHANGED <<status, version, visit, resolvedAt, reopenedAt, attempts,
                 logged, loggedState>>

\* start, update_details, confirm and complete act as the row's consultant.
SupervisorOnBehalf(c) ==
  /\ latest > 0
  /\ Latest.consultant = c
  /\ \/ StartConsultation(c)
     \/ \E text \in BOOLEAN, o \in Outcomes : SaveSummary(c, text, o)
     \/ ConfirmSummary(c)
     \/ CompleteConsultation(c)

-----------------------------------------------------------------------------
CustomerStep ==
  \/ StartInquiry
  \/ SubmitSymptom
  \/ SubmitAnswers
  \/ SubmitActionResult
  \/ RequestConsultation
  \/ SubmitFeedback
  \/ ReportUnresolved
  \/ Cancel

SystemStep ==
  \/ \E e \in AIEvents : ApplyAIEvent(e)
  \/ DangerDetected
  \/ HumanReviewApproved
  \/ \E e \in EscalationEvents : HumanReviewEscalated(e)

ConsultantStep(c) ==
  \/ RegisterPhoneInquiry(c)
  \/ ClaimConsultation(c)
  \/ StartConsultation(c)
  \/ \E text \in BOOLEAN, o \in Outcomes : SaveSummary(c, text, o)
  \/ ConfirmSummary(c)
  \/ CompleteConsultation(c)
  \/ RequestVisitReview(c)
  \/ CreateVisitRequest(c)
  \/ MarkVisitNotNeeded(c)
  \/ \E t \in Technicians, d \in BOOLEAN : UpdateVisitSchedule(c, t, d)
  \/ ConfirmVisit(c)
  \/ ResumeConsultation(c)
  \/ Finalize(c)

SupervisorStep(c) ==
  \/ Reassign(c)
  \/ SupervisorOnBehalf(c)

Next ==
  \/ CustomerStep
  \/ SystemStep
  \/ \E c \in Consultants : ConsultantStep(c) \/ SupervisorStep(c)

Spec == Init /\ [][Next]_vars

-----------------------------------------------------------------------------
(* Properties. *)

(* The latest consultation is always the one the inquiry state is about:    *)
(* none before the queue, an open one or none in the queue, the assignee's  *)
(* own IN_PROGRESS row from START_CONSULTATION to the confirmed visit, a    *)
(* COMPLETED one from completion on, and no open one after a cancel.  No    *)
(* service checks it: ConsultationService saves, confirms and completes     *)
(* whatever lock_latest returns.                                            *)
LatestMatchesStatus ==
  CASE status \in {NONE, "DRAFT", "QUESTIONNAIRE_IN_PROGRESS", "AI_GUIDANCE"} ->
         latest = 0
    [] status = "CONSULTATION_REQUIRED" ->
         latest > 0 => Latest.status \in {"WAITING", "ASSIGNED"}
    [] status \in {"COMPLETION_PENDING", "REOPENED", "RESOLVED"} ->
         HasLatest({"COMPLETED"})
    [] status = "CANCELLED" ->
         latest > 0 => Latest.status = "CANCELLED"
    [] OTHER ->
         HasLatest({"IN_PROGRESS"}) /\ Latest.consultant = assignee

(* An earlier consultation is always a completed one, so an inquiry never   *)
(* has two open consultations.  cancel_active raises "Multiple active       *)
(* consultations exist for one inquiry." when it meets two.                 *)
EarlierRowsCompleted ==
  \A n \in Sequences :
    /\ n < latest => rows[n].status = "COMPLETED"
    /\ n > latest => rows[n] = NoRow

(* The RuntimeErrors of ConsultationRepository are unreachable: whenever a  *)
(* service is allowed to request a consultation the latest row is not in    *)
(* progress, and whenever it may cancel there is at most one open row.      *)
NoRuntimeError ==
  /\ \A m, n \in Active : m = n
  /\ \A e \in {"REQUEST_CONSULTATION", "RESUME_CONSULTATION", "DANGER_DETECTED"}
              \cup EscalationEvents :
       Planned(e) # {} => ~HasLatest({"IN_PROGRESS"})

(* ck_consult_lifecycle and ck_consult_outcome_lifecycle hold in every      *)
(* committed state: no service ends in an IntegrityError half way through.  *)
RowsPassChecks ==
  \A n \in 1 .. latest :
    /\ rows[n].status = "WAITING" => rows[n].consultant = NONE
    /\ rows[n].status \in {"ASSIGNED", "IN_PROGRESS", "COMPLETED"} =>
         rows[n].consultant # NONE
    /\ rows[n].status = "COMPLETED" <=> rows[n].completedAt > 0
    /\ rows[n].status = "COMPLETED" => rows[n].outcome # "PENDING"
    /\ rows[n].status \in {"WAITING", "ASSIGNED", "CANCELLED"} =>
         rows[n].outcome = "PENDING"

(* completion-policy.yaml: an inquiry is RESOLVED only on a confirmation    *)
(* the customer gave after the last handling was completed and did not      *)
(* take back; a confirmation of an earlier round never counts.              *)
ResolvedOnFreshConfirmation ==
  status = "RESOLVED" =>
    /\ resolvedAt > reopenedAt
    /\ \A n \in 1 .. latest : resolvedAt > rows[n].completedAt

(* A visit exists only for a consultation whose confirmed result asked for  *)
(* one, and a confirmed visit has its technician and its date, although     *)
(* update_schedule accepts a null date as often as the consultant likes.    *)
VisitGrounded ==
  /\ visit.status # NONE =>
       /\ HasLatest({"IN_PROGRESS"})
       /\ Latest.outcome = "VISIT_REQUIRED"
       /\ Latest.confirmed
  /\ visit.status = "CONFIRMED" => visit.dated /\ visit.technician # NONE

(* The newest history row names the state the inquiry is in: the versions   *)
(* that leave no row (feedback, action results) never change the state.     *)
HistoryFollowsStatus == loggedState = status

(* A closed inquiry and all its rows stay as they are.                      *)
TerminalIsFinal ==
  [][status \notin TerminalStates]_vars

(* A completed consultation keeps its handler, its result and its           *)
(* confirmation: finalize asks for the consultant who completed it, and a   *)
(* reassignment or a later round must not move that to someone else.        *)
CompletedRowsFrozen ==
  [][\A n \in Sequences :
        rows[n].status = "COMPLETED" => rows'[n] = rows[n]]_vars

\* The engine's view of the rows.
Engine == INSTANCE WorkflowEngine
            WITH inquiryState <- status,
                 visitStatus <- visit.status,
                 stateVersion <- version - attempts,
                 MaxEvents <- MaxVersion

(* The services implement the transition contract: every change of state    *)
(* and visit is one planned rule, every rule moves the version by one, and  *)
(* action results account for all the other versions.                       *)
ImplementsEngine == Engine!SpecContract
=============================================================================
