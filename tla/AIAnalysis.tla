------------------------------ MODULE AIAnalysis ------------------------------
(* The AI analysis behind the questionnaire.  A committed symptom or answer  *)
(* schedules a callback (transaction.on_commit) that reads the inquiry       *)
(* without a lock, calls the AI service outside any transaction and applies  *)
(* the result under the inquiry lock: InquiryAIService.analyze_inquiry.      *)
(* Callbacks of several submissions, the customer's next answer, a cancel    *)
(* and the consultant's review of a cautious result run concurrently; each   *)
(* action is one statement or one transaction of one of them.                *)
(* The AI service is external: it answers with any contract-valid result,    *)
(* an error, a timeout, or never (Crash also stands for a lost process).     *)
EXTENDS StateMachine

CONSTANTS
  MaxRequests,   \* bound on the submissions that schedule an analysis
  Questions,     \* follow-up question codes
  Results        \* the AI results considered, a set of AIResult

(* What the Backend reads of a validated result: the fallback reason ("none" *)
(* is SUCCEEDED), the risk, whether Backend-verified evidence remains, the   *)
(* conjunction NORMAL /\ ~requires_consultation /\ no missing fields /\ the   *)
(* AI named evidence, the follow-up questions, and whether a cause ledger    *)
(* comes with it.                                                            *)
AIResult ==
  [reason : {"none", "product", "no_evidence", "other"},
   risk : {"general", "caution", "danger"},
   verified : BOOLEAN,
   plain : BOOLEAN,
   followups : SUBSET Questions,
   ledger : BOOLEAN]

\* No result is held.
NoResult ==
  [reason |-> "none", risk |-> NONE, verified |-> FALSE, plain |-> FALSE,
   followups |-> {}, ledger |-> FALSE]

\* The business invariants map_success_response refuses a payload without.
ValidResult(res) ==
  /\ res.reason \in {"product", "no_evidence"} => ~res.verified /\ ~res.plain
  /\ res.risk = "danger" => ~res.plain

ASSUME AnalysisAssumption ==
  /\ MaxRequests \in Nat
  /\ Results \subseteq {res \in AIResult : ValidResult(res)}

Requests == 1 .. MaxRequests

VARIABLES
  status,     \* Inquiry.status_code
  version,    \* Inquiry.state_version
  asked,      \* InquiryQA rows by question code
  answered,   \* those with a customer answer
  requested,  \* submissions committed so far; request n is the n-th
  pc,         \* where the callback of a request is
  payload,    \* state_version in the request payload of each callback
  seen,       \* answers in that payload
  run,        \* AIRun.status_code of each request, NONE without a row
  retries,    \* AIRun.retry_count
  result,     \* the result the callback holds
  outcome,    \* pending_reason of the InquiryAIOutcome it returned
  review      \* HumanReview.status_code of the guidance of each request

vars == <<status, version, asked, answered, requested, pc, payload, seen,
          run, retries, result, outcome, review>>

inquiry == <<status, version, asked, answered, requested>>

QIP == "QUESTIONNAIRE_IN_PROGRESS"

ActiveRuns == {"QUEUED", "RUNNING"}

RunStatuses ==
  ActiveRuns \cup {"SUCCEEDED", "NO_EVIDENCE", "FAILED", "TIMED_OUT", "CANCELLED"}

InFlight ==
  {"scheduled", "building", "built", "created", "calling", "persisting",
   "unsaved", "failed"}

ReviewStatuses == {"PENDING", "APPROVED", "REJECTED"}

\* pending_reason of an InquiryAIOutcome; APPLIED has none, RAISED no outcome.
PendingReasons ==
  {"CANCELLED_OR_STALE_INQUIRY", "CANCELLED_BY_INQUIRY", "STALE_STATE_VERSION",
   "HUMAN_REVIEW_REQUIRED", "NO_STATE_EVENT_CANDIDATE", "GUARD_REJECTED",
   "AI-LEDGER-PERSIST-01", "APPLIED", "RAISED"}

\* A decision publishes the guidance, asks for a consultation, or rejects.
Decisions ==
  {"HUMAN_REVIEW_GUIDANCE_APPROVED", "HUMAN_REVIEW_CONSULTATION_REQUIRED",
   "HUMAN_REVIEW_REJECTED"}

(* An answered question was asked, and callbacks, runs and reviews hold the *)
(* codes of their models.                                                   *)
TypeOK ==
  /\ status \in InquiryStates
  /\ version \in Nat
  /\ asked \subseteq Questions
  /\ answered \subseteq asked
  /\ requested \in 0 .. MaxRequests
  /\ pc \in [Requests -> InFlight \cup {"idle", "done", "dead"}]
  /\ payload \in [Requests -> 0 .. version]
  /\ seen \in [Requests -> SUBSET Questions]
  /\ run \in [Requests -> RunStatuses \cup {NONE}]
  /\ retries \in [Requests -> {0, 1}]
  /\ result \in [Requests -> Results \cup {NoResult}]
  /\ outcome \in [Requests -> PendingReasons \cup {NONE}]
  /\ review \in [Requests -> ReviewStatuses \cup {NONE}]

\* An inquiry that START_INQUIRY has just created.
Init ==
  /\ status = "DRAFT"
  /\ version = 1
  /\ asked = {}
  /\ answered = {}
  /\ requested = 0
  /\ pc = [r \in Requests |-> "idle"]
  /\ payload = [r \in Requests |-> 0]
  /\ seen = [r \in Requests |-> {}]
  /\ run = [r \in Requests |-> NONE]
  /\ retries = [r \in Requests |-> 0]
  /\ result = [r \in Requests |-> NoResult]
  /\ outcome = [r \in Requests |-> NONE]
  /\ review = [r \in Requests |-> NONE]

-----------------------------------------------------------------------------
(* How a result is routed. *)

\* event_candidate of map_success_response
EventCandidate(res) ==
  IF res.reason = "product" THEN "PRODUCT_VALIDATION_FAILED"
  ELSE IF res.risk = "danger" THEN "DANGER_DETECTED"
  ELSE IF res.reason = "no_evidence" THEN "NO_EVIDENCE"
  ELSE IF res.reason = "none" /\ res.risk = "general" /\ res.plain
          /\ res.followups = {} THEN "SAFE_GUIDANCE_READY"
  ELSE NONE

\* _requires_no_usable_evidence_transition
NoUsableEvidence(res) ==
  /\ ~res.verified
  /\ res.followups = {}
  /\ res.risk # "danger"
  /\ res.reason # "product"

\* Mutant: a safe result is published without verified evidence.
ChosenEventUnverified(res) ==
  LET e == EventCandidate(res)
  IN  IF e = NONE /\ ~(res.risk = "caution" /\ res.verified) /\ NoUsableEvidence(res)
      THEN "NO_EVIDENCE" ELSE e

\* The event _apply_event_if_allowed settles on, NONE when it applies none.
ChosenEvent(res) ==
  LET e == EventCandidate(res)
  IN  CASE e = NONE -> IF ~(res.risk = "caution" /\ res.verified)
                          /\ NoUsableEvidence(res) THEN "NO_EVIDENCE" ELSE NONE
        [] e = "SAFE_GUIDANCE_READY" -> IF res.verified THEN e ELSE "NO_EVIDENCE"
        [] OTHER -> e

\* The reason reported when it applies none.
NoEventReason(res) ==
  IF res.risk = "caution" /\ res.verified
  THEN "HUMAN_REVIEW_REQUIRED" ELSE "NO_STATE_EVENT_CANDIDATE"

\* The guards of the chosen rule; the others hold by the choice of the event.
EventGuard(e, res) == e = "NO_EVIDENCE" => NoUsableEvidence(res)

\* GuidanceReviewPolicy.initial_status = PENDING on a saved guidance.
NeedsReview(res) == res.verified /\ res.reason = "none" /\ res.risk = "caution"

-----------------------------------------------------------------------------
(* The inquiry row. *)

Transit(e) ==
  \E rule \in Plan(e, status, NONE) :
    /\ status' = rule.to
    /\ version' = NextVersion(version)

\* The on_commit callback of the submission that commits now.
Schedule ==
  /\ requested < MaxRequests
  /\ requested' = requested + 1
  /\ pc' = [pc EXCEPT ![requested + 1] = "scheduled"]

\* InquiryTransitionService.submit_symptom
SubmitSymptom ==
  /\ Transit("SUBMIT_SYMPTOM")
  /\ Schedule
  /\ UNCHANGED <<asked, answered, payload, seen, run, retries, result,
                 outcome, review>>

\* Mutant: no on_commit callback.
SubmitAnswersUnscheduled(qs) ==
  /\ qs # {}
  /\ qs \subseteq asked \ answered
  /\ Transit("SUBMIT_ANSWERS")
  /\ answered' = answered \cup qs
  /\ UNCHANGED <<asked, requested, pc, payload, seen, run, retries, result,
                 outcome, review>>

\* FollowUpAnswerService.submit: any of the unanswered questions.
SubmitAnswers(qs) ==
  /\ qs # {}
  /\ qs \subseteq asked \ answered
  /\ Transit("SUBMIT_ANSWERS")
  /\ answered' = answered \cup qs
  /\ Schedule
  /\ UNCHANGED <<asked, payload, seen, run, retries, result, outcome, review>>

\* InquiryService.cancel with _cancel_active_ai_runs
Cancel ==
  /\ Transit("CANCEL_INQUIRY")
  /\ run' = [r \in Requests |->
               IF run[r] \in ActiveRuns THEN "CANCELLED" ELSE run[r]]
  /\ UNCHANGED <<asked, answered, requested, pc, payload, seen, retries,
                 result, outcome, review>>

\* Mutant: the decision is saved, the inquiry is not moved.
DecideInPlace(r, e) ==
  /\ review[r] = "PENDING"
  /\ status = QIP
  /\ version = payload[r]
  /\ review' = [review EXCEPT ![r] =
                  IF e = "HUMAN_REVIEW_REJECTED" THEN "REJECTED" ELSE "APPROVED"]
  /\ UNCHANGED <<inquiry, pc, payload, seen, run, retries, result, outcome>>

\* HumanReviewService.decide
Decide(r, e) ==
  /\ review[r] = "PENDING"
  /\ status = QIP
  /\ version = payload[r]
  /\ Transit(e)
  /\ review' = [review EXCEPT ![r] =
                  IF e = "HUMAN_REVIEW_REJECTED" THEN "REJECTED" ELSE "APPROVED"]
  /\ UNCHANGED <<asked, answered, requested, pc, payload, seen, run, retries,
                 result, outcome>>

-----------------------------------------------------------------------------
(* The callback of request r: analyze_inquiry. *)

Finish(r, reason) ==
  /\ pc' = [pc EXCEPT ![r] = "done"]
  /\ outcome' = [outcome EXCEPT ![r] = reason]
  /\ result' = [result EXCEPT ![r] = NoResult]

Goto(r, next) ==
  /\ pc' = [pc EXCEPT ![r] = next]
  /\ UNCHANGED <<outcome, result>>

\* The unlocked read of the inquiry row.
ReadInquiry(r) ==
  /\ pc[r] = "scheduled"
  /\ payload' = [payload EXCEPT ![r] = version]
  /\ Goto(r, "building")
  /\ UNCHANGED <<inquiry, seen, run, retries, review>>

\* The prefetch of its questions and answers, a second query.
ReadAnswers(r) ==
  /\ pc[r] = "building"
  /\ seen' = [seen EXCEPT ![r] = answered]
  /\ Goto(r, "built")
  /\ UNCHANGED <<inquiry, payload, run, retries, review>>

\* Mutant: the run is queued without a look at the locked inquiry.
CreateRunUnchecked(r) ==
  /\ pc[r] = "built"
  /\ run' = [run EXCEPT ![r] = "QUEUED"]
  /\ Goto(r, "created")
  /\ UNCHANGED <<inquiry, payload, seen, retries, review>>

\* _create_run
CreateRun(r) ==
  /\ pc[r] = "built"
  /\ \/ /\ status = "CANCELLED" \/ version # payload[r]
        /\ run' = [run EXCEPT ![r] = "CANCELLED"]
        /\ Finish(r, "CANCELLED_OR_STALE_INQUIRY")
     \/ /\ status # "CANCELLED"
        /\ version = payload[r]
        /\ run' = [run EXCEPT ![r] = "QUEUED"]
        /\ Goto(r, "created")
  /\ UNCHANGED <<inquiry, payload, seen, retries, review>>

\* A run that a cancel got to first ends with what it finds.
GiveUp(r) ==
  /\ Finish(r, "CANCELLED_BY_INQUIRY")
  /\ UNCHANGED <<run, retries>>

\* _mark_running
MarkRunning(r) ==
  /\ pc[r] = "created"
  /\ \/ /\ run[r] = "QUEUED"
        /\ run' = [run EXCEPT ![r] = "RUNNING"]
        /\ Goto(r, "calling")
        /\ UNCHANGED retries
     \/ run[r] # "QUEUED" /\ GiveUp(r)
  /\ UNCHANGED <<inquiry, payload, seen, review>>

\* Mutant: a run is completed whatever became of it during the call.
MarkSucceededAlways(r, res) ==
  /\ pc[r] = "calling"
  /\ run' = [run EXCEPT ![r] = "SUCCEEDED"]
  /\ pc' = [pc EXCEPT ![r] = "persisting"]
  /\ result' = [result EXCEPT ![r] = res]
  /\ UNCHANGED <<inquiry, payload, seen, retries, outcome, review>>

\* AIClient.analyze returned a valid result; _mark_succeeded
MarkSucceeded(r, res) ==
  /\ pc[r] = "calling"
  /\ \/ /\ run[r] = "RUNNING"
        /\ run' = [run EXCEPT ![r] = IF res.reason = "no_evidence"
                                     THEN "NO_EVIDENCE" ELSE "SUCCEEDED"]
        /\ pc' = [pc EXCEPT ![r] = "persisting"]
        /\ result' = [result EXCEPT ![r] = res]
        /\ UNCHANGED <<retries, outcome>>
     \/ run[r] # "RUNNING" /\ GiveUp(r)
  /\ UNCHANGED <<inquiry, payload, seen, review>>

\* Mutant: the failure is routed on but not saved on the run.
MarkFailedUnsaved(r, as, n) ==
  /\ pc[r] = "calling"
  /\ Goto(r, "failed")
  /\ UNCHANGED <<inquiry, payload, seen, run, retries, review>>

\* AIClient.analyze raised; _mark_failed.  The AI service retries once itself.
MarkFailed(r, as, n) ==
  /\ pc[r] = "calling"
  /\ \/ /\ run[r] = "RUNNING"
        /\ run' = [run EXCEPT ![r] = as]
        /\ retries' = [retries EXCEPT ![r] = n]
        /\ Goto(r, "failed")
     \/ run[r] # "RUNNING" /\ GiveUp(r)
  /\ UNCHANGED <<inquiry, payload, seen, review>>

\* _persist_validated_result refuses a result of another version.
PersistStale(r) ==
  /\ pc[r] = "persisting"
  /\ version # payload[r]
  /\ Finish(r, "STALE_STATE_VERSION")
  /\ UNCHANGED <<inquiry, payload, seen, run, retries, review>>

\* Questions and guidance are saved, whether an event follows or not.
SaveBundle(r) ==
  /\ asked' = asked \cup result[r].followups
  /\ review' = [review EXCEPT ![r] =
                  IF NeedsReview(result[r]) THEN "PENDING" ELSE @]
  /\ UNCHANGED <<answered, requested, payload, seen, run, retries>>

\* Mutant: the version the analysis was made for is not compared.
PersistAnyVersion(r) ==
  LET e == ChosenEvent(result[r])
  IN  /\ pc[r] = "persisting"
      /\ SaveBundle(r)
      /\ \/ /\ e = NONE
            /\ UNCHANGED <<status, version>>
            /\ Finish(r, NoEventReason(result[r]))
         \/ /\ e # NONE
            /\ EventGuard(e, result[r])
            /\ Transit(e)
            /\ Finish(r, "APPLIED")

\* _persist_validated_result and the event it applies in the same transaction.
Persist(r) ==
  LET e == ChosenEvent(result[r])
  IN  /\ pc[r] = "persisting"
      /\ version = payload[r]
      /\ SaveBundle(r)
      /\ \/ /\ e = NONE
            /\ UNCHANGED <<status, version>>
            /\ Finish(r, NoEventReason(result[r]))
         \/ /\ e # NONE
            /\ Plan(e, status, NONE) # {}
            /\ ~EventGuard(e, result[r])
            /\ UNCHANGED <<status, version>>
            /\ Finish(r, "GUARD_REJECTED")
         \/ /\ e # NONE
            /\ EventGuard(e, result[r])
            /\ Transit(e)
            /\ Finish(r, "APPLIED")

\* resolve() raises, or saving does: everything above is rolled back.  With
\* a ledger the run is failed next, without one the callback just ends.  A
\* database error without a ledger, which is raised again, is Crash: the
\* transaction is rolled back and the callback takes no further step.
PersistRaises(r) ==
  LET e == ChosenEvent(result[r])
  IN  /\ pc[r] = "persisting"
      /\ version = payload[r]
      /\ \/ /\ ~result[r].ledger
            /\ e # NONE
            /\ Plan(e, status, NONE) = {}
            /\ Finish(r, "RAISED")
         \/ /\ result[r].ledger
            /\ Goto(r, "unsaved")
      /\ UNCHANGED <<inquiry, payload, seen, run, retries, review>>

\* _mark_domain_persistence_failed; only a refused ledger is routed on.
MarkUnsaved(r, refused) ==
  /\ pc[r] = "unsaved"
  /\ run' = [run EXCEPT ![r] = "FAILED"]
  /\ \/ refused /\ Goto(r, "failed")
     \/ ~refused /\ Finish(r, "AI-LEDGER-PERSIST-01")
  /\ UNCHANGED <<inquiry, payload, seen, retries, review>>

\* _apply_timeout_event and _apply_unusable_ai_failure_event
FailureEvent(r) ==
  IF run[r] = "TIMED_OUT" THEN "AI_PROCESSING_TIMEOUT" ELSE "NO_EVIDENCE"

FailureGuard(r) == run[r] = "TIMED_OUT" => retries[r] = 0

ApplyFailure(r) ==
  /\ pc[r] = "failed"
  /\ \/ /\ status # QIP \/ version # payload[r]
        /\ UNCHANGED <<status, version>>
        /\ Finish(r, "STALE_STATE_VERSION")
     \/ /\ status = QIP
        /\ version = payload[r]
        /\ ~FailureGuard(r)
        /\ UNCHANGED <<status, version>>
        /\ Finish(r, "GUARD_REJECTED")
     \/ /\ status = QIP
        /\ version = payload[r]
        /\ FailureGuard(r)
        /\ Transit(FailureEvent(r))
        /\ Finish(r, "APPLIED")
  /\ UNCHANGED <<asked, answered, requested, payload, seen, run, retries, review>>

\* The process dies between two steps; nothing schedules the callback again.
Crash(r) ==
  /\ pc[r] \in InFlight
  /\ Goto(r, "dead")
  /\ UNCHANGED <<inquiry, payload, seen, run, retries, review>>

-----------------------------------------------------------------------------
Callback(r) ==
  \/ ReadInquiry(r)
  \/ ReadAnswers(r)
  \/ CreateRun(r)
  \/ MarkRunning(r)
  \/ \E res \in Results : MarkSucceeded(r, res)
  \/ \E n \in {0, 1}, as \in {"FAILED", "TIMED_OUT"} : MarkFailed(r, as, n)
  \/ PersistStale(r)
  \/ Persist(r)
  \/ PersistRaises(r)
  \/ \E refused \in BOOLEAN : MarkUnsaved(r, refused)
  \/ ApplyFailure(r)

Next ==
  \/ SubmitSymptom
  \/ \E qs \in SUBSET Questions : SubmitAnswers(qs)
  \/ Cancel
  \/ \E r \in Requests, e \in Decisions : Decide(r, e)
  \/ \E r \in Requests : Callback(r) \/ Crash(r)

Spec == Init /\ [][Next]_vars

(* The AI call has a 30 second timeout and every other step is a database   *)
(* statement: a callback whose process lives keeps going.                   *)
FairSpec == Spec /\ \A r \in Requests : WF_vars(Callback(r))

-----------------------------------------------------------------------------
(* Properties. *)

(* The AI and the reviewer move an inquiry only on everything the customer  *)
(* has answered: neither an answer committed between the two reads of the   *)
(* payload nor one committed during the call or the review is ignored.      *)
DecidedOnAllAnswers ==
  [][\A r \in Requests :
       /\ pc[r] \in {"persisting", "failed"} /\ pc'[r] = "done"
          /\ status' # status => seen[r] = answered
       /\ review'[r] # review[r] => seen[r] = answered]_vars

(* A cancelled inquiry has no active AI run, not even one whose callback    *)
(* starts after the cancel.                                                 *)
CancelStopsRuns ==
  status = "CANCELLED" => \A r \in Requests : run[r] \notin ActiveRuns

(* A run the cancel stopped is never completed or failed by its own late    *)
(* callback: _mark_running, _mark_succeeded and _mark_failed re-read it.     *)
CancelledRunsStay ==
  [][\A r \in Requests : run[r] = "CANCELLED" => run'[r] = "CANCELLED"]_vars

(* Two callbacks may read the same version and each leave a pending review; *)
(* still one version of the inquiry gets at most one decision.              *)
OneDecisionPerVersion ==
  \A q, r \in Requests :
    /\ q # r
    /\ review[q] \in {"APPROVED", "REJECTED"}
    /\ review[r] \in {"APPROVED", "REJECTED"}
    => payload[q] # payload[r]

Ended == {"idle", "done", "dead"}

(* Never do all callbacks drop their work as stale: once they have ended,   *)
(* a questionnaire that is still open was analysed at its current version,  *)
(* or the callback that should have done it died.                           *)
CurrentVersionAnalysed ==
  status = QIP /\ (\A r \in Requests : pc[r] \in Ended) =>
    \E r \in Requests :
      \/ pc[r] = "dead"
      \/ /\ payload[r] = version
         /\ outcome[r] \in {"HUMAN_REVIEW_REQUIRED", "NO_STATE_EVENT_CANDIDATE",
                            "GUARD_REJECTED", "AI-LEDGER-PERSIST-01"}

(* The customer reads AI guidance only when a safe result with verified     *)
(* evidence was applied, or a consultant approved it.                       *)
GuidanceIsCleared ==
  [][status' = "AI_GUIDANCE" /\ status # "AI_GUIDANCE" =>
       \E r \in Requests :
         \/ /\ pc[r] = "persisting" /\ pc'[r] = "done"
            /\ result[r].risk = "general" /\ result[r].verified
            /\ result[r].followups = {}
         \/ review[r] = "PENDING" /\ review'[r] = "APPROVED"]_vars

(* Every run row that is opened is settled, unless its process dies.        *)
RunsSettle ==
  \A r \in Requests :
    run[r] \in ActiveRuns ~> (run[r] \notin ActiveRuns \/ pc[r] = "dead")

(* inquiry-events.yaml: when the Backend finds AI-TIMEOUT-01 it moves the   *)
(* inquiry to CONSULTATION_REQUIRED.                                        *)
TimeoutEscalates ==
  \A r \in Requests :
    run[r] = "TIMED_OUT" /\ pc[r] = "done" /\ payload[r] = version =>
      status # QIP
=============================================================================
