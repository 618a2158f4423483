---------------------------- MODULE StateMachine ----------------------------
(* The transition engine every backend service consults before it writes:   *)
(* apps/workflow/engine/state_machine.py over the contract tables           *)
(* contracts/state-machine/{inquiry-states,transition-rules}.yaml.          *)
(* Constant level: no variables, only the tables and what resolve() answers *)
(* for an inquiry state, a visit status and an event code.                  *)
EXTENDS Naturals

\* Python's None: no inquiry yet, or no visit.
NONE == "NONE"

InquiryStates ==
  {"DRAFT", "QUESTIONNAIRE_IN_PROGRESS", "AI_GUIDANCE",
   "CONSULTATION_REQUIRED", "CONSULTATION_IN_PROGRESS",
   "VISIT_REVIEW_PENDING", "VISIT_SCHEDULING", "VISIT_SCHEDULED",
   "COMPLETION_PENDING", "REVISIT_REQUIRED", "REOPENED",
   "RESOLVED", "CANCELLED"}

TerminalStates == {"RESOLVED", "CANCELLED"}

VisitStatuses ==
  {"ASSIGNING", "SCHEDULING", "CONFIRMED", "IN_PROGRESS", "COMPLETED",
   "FOLLOW_UP_REQUIRED", "CANCELLED"}

\* allowed_visit_statuses of each inquiry state.
AllowedVisitStatuses ==
  [s \in InquiryStates |->
     CASE s = "VISIT_REVIEW_PENDING" -> {"ASSIGNING"}
       [] s = "VISIT_SCHEDULING"     -> {"ASSIGNING", "SCHEDULING"}
       [] s = "VISIT_SCHEDULED"      -> {"CONFIRMED", "IN_PROGRESS"}
       [] s = "COMPLETION_PENDING"   -> {"COMPLETED"}
       [] s = "REVISIT_REQUIRED"     -> {"FOLLOW_UP_REQUIRED"}
       [] s = "REOPENED"             -> {"COMPLETED", "FOLLOW_UP_REQUIRED"}
       [] s = "RESOLVED"             -> {"COMPLETED"}
       [] s = "CANCELLED"            -> {"CANCELLED"}
       [] OTHER                      -> {}]

(* One transition rule.  mode is the rule's visit mode; vfrom and vto are   *)
(* its required/from and to visit statuses, NONE where it names none.       *)
Rule(event, from, to, mode, vfrom, vto) ==
  [event |-> event, from |-> from, to |-> to,
   mode |-> mode, vfrom |-> vfrom, vto |-> vto]

\* The three modes that name no status of their own.
Absent(event, from, to)   == Rule(event, from, to, "REQUIRE_ABSENT", NONE, NONE)
Preserve(event, from, to) == Rule(event, from, to, "PRESERVE", NONE, NONE)
Moves(event, from, to, v, w) == Rule(event, from, to, "TRANSITION", v, w)

\* TR-INQ-001 .. TR-INQ-042, in the order of the file.
Rules ==
  {Absent("START_INQUIRY", NONE, "DRAFT"),
   Absent("REGISTER_PHONE_INQUIRY", NONE, "CONSULTATION_REQUIRED"),
   Absent("SUBMIT_SYMPTOM", "DRAFT", "QUESTIONNAIRE_IN_PROGRESS"),
   Absent("SUBMIT_ANSWERS", "QUESTIONNAIRE_IN_PROGRESS", "QUESTIONNAIRE_IN_PROGRESS"),
   Absent("CANCEL_INQUIRY", "DRAFT", "CANCELLED"),
   Absent("CANCEL_INQUIRY", "QUESTIONNAIRE_IN_PROGRESS", "CANCELLED"),
   Absent("PRODUCT_VALIDATION_FAILED", "DRAFT", "CONSULTATION_REQUIRED"),
   Absent("PRODUCT_VALIDATION_FAILED", "QUESTIONNAIRE_IN_PROGRESS", "CONSULTATION_REQUIRED"),
   Absent("SAFE_GUIDANCE_READY", "QUESTIONNAIRE_IN_PROGRESS", "AI_GUIDANCE"),
   Absent("HUMAN_REVIEW_GUIDANCE_APPROVED", "QUESTIONNAIRE_IN_PROGRESS", "AI_GUIDANCE"),
   Absent("HUMAN_REVIEW_CONSULTATION_REQUIRED", "QUESTIONNAIRE_IN_PROGRESS", "CONSULTATION_REQUIRED"),
   Absent("HUMAN_REVIEW_REJECTED", "QUESTIONNAIRE_IN_PROGRESS", "CONSULTATION_REQUIRED"),
   Absent("DANGER_DETECTED", "QUESTIONNAIRE_IN_PROGRESS", "CONSULTATION_REQUIRED"),
   Absent("NO_EVIDENCE", "QUESTIONNAIRE_IN_PROGRESS", "CONSULTATION_REQUIRED"),
   Absent("AI_PROCESSING_TIMEOUT", "QUESTIONNAIRE_IN_PROGRESS", "CONSULTATION_REQUIRED"),
   Absent("CUSTOMER_REPORTED_SELF_RESOLVED", "AI_GUIDANCE", "RESOLVED"),
   Absent("REQUEST_CONSULTATION", "AI_GUIDANCE", "CONSULTATION_REQUIRED"),
   Absent("REQUEST_CONSULTATION", "CONSULTATION_REQUIRED", "CONSULTATION_REQUIRED"),
   Preserve("START_CONSULTATION", "CONSULTATION_REQUIRED", "CONSULTATION_IN_PROGRESS"),
   Preserve("UPDATE_CONSULTATION_SUMMARY", "CONSULTATION_IN_PROGRESS", "CONSULTATION_IN_PROGRESS"),
   Preserve("CONFIRM_CONSULTATION_SUMMARY", "CONSULTATION_IN_PROGRESS", "CONSULTATION_IN_PROGRESS"),
   Preserve("CONSULTATION_COMPLETED", "CONSULTATION_IN_PROGRESS", "COMPLETION_PENDING"),
   Absent("VISIT_REVIEW_REQUIRED", "CONSULTATION_IN_PROGRESS", "VISIT_REVIEW_PENDING"),
   Rule("VISIT_NEEDED", "VISIT_REVIEW_PENDING", "VISIT_SCHEDULING", "CREATE", NONE, "ASSIGNING"),
   Moves("UPDATE_VISIT_SCHEDULE", "VISIT_SCHEDULING", "VISIT_SCHEDULING", "ASSIGNING", "SCHEDULING"),
   Moves("UPDATE_VISIT_SCHEDULE", "VISIT_SCHEDULING", "VISIT_SCHEDULING", "SCHEDULING", "SCHEDULING"),
   Moves("CONFIRM_VISIT", "VISIT_SCHEDULING", "VISIT_SCHEDULED", "SCHEDULING", "CONFIRMED"),
   Rule("UPDATE_PREVISIT_REPORT", "VISIT_SCHEDULED", "VISIT_SCHEDULED", "PRESERVE_REQUIRE_STATUS", "CONFIRMED", NONE),
   Rule("CONFIRM_PREVISIT_REPORT", "VISIT_SCHEDULED", "VISIT_SCHEDULED", "PRESERVE_REQUIRE_STATUS", "CONFIRMED", NONE),
   Moves("START_VISIT", "VISIT_SCHEDULED", "VISIT_SCHEDULED", "CONFIRMED", "IN_PROGRESS"),
   Moves("VISIT_COMPLETED", "VISIT_SCHEDULED", "COMPLETION_PENDING", "IN_PROGRESS", "COMPLETED"),
   Moves("REVISIT_NEEDED", "VISIT_SCHEDULED", "REVISIT_REQUIRED", "IN_PROGRESS", "FOLLOW_UP_REQUIRED"),
   Moves("UPDATE_VISIT_SCHEDULE", "REVISIT_REQUIRED", "VISIT_SCHEDULING", "FOLLOW_UP_REQUIRED", "SCHEDULING"),
   Preserve("SUBMIT_RESOLUTION_FEEDBACK", "COMPLETION_PENDING", "COMPLETION_PENDING"),
   Preserve("CUSTOMER_REPORTED_UNRESOLVED", "COMPLETION_PENDING", "REOPENED"),
   Preserve("REQUEST_CONSULTATION", "COMPLETION_PENDING", "CONSULTATION_REQUIRED"),
   Preserve("RESUME_CONSULTATION", "REOPENED", "CONSULTATION_REQUIRED"),
   Preserve("FINALIZE_INQUIRY", "COMPLETION_PENDING", "RESOLVED"),
   Absent("VISIT_NOT_NEEDED", "VISIT_REVIEW_PENDING", "COMPLETION_PENDING"),
   Preserve("CLAIM_CONSULTATION", "CONSULTATION_REQUIRED", "CONSULTATION_REQUIRED"),
   Absent("CANCEL_INQUIRY", "CONSULTATION_REQUIRED", "CANCELLED"),
   Absent("CANCEL_INQUIRY", "CONSULTATION_IN_PROGRESS", "CANCELLED")}

EventCodes == {r.event : r \in Rules}

\* _ensure_visit_status_allowed: nothing to check without a state or a visit.
VisitStatusAllowed(s, v) ==
  \/ s = NONE
  \/ v = NONE
  \/ v \in AllowedVisitStatuses[s]

\* _visit_matches
VisitMatches(r, v) ==
  CASE r.mode \in {"REQUIRE_ABSENT", "CREATE"} -> v = NONE
    [] r.mode = "PRESERVE" -> TRUE
    [] OTHER -> v = r.vfrom

\* _next_visit_status
NextVisitStatus(r, v) ==
  CASE r.mode \in {"CREATE", "TRANSITION"} -> r.vto
    [] r.mode = "REQUIRE_ABSENT" -> NONE
    [] OTHER -> v

(* _next_version: INITIALIZE_1 of the two rules from NONE gives 1, and the  *)
(* inquiry that does not exist yet has version 0 here; INCREMENT adds 1.    *)
NextVersion(n) == n + 1

StateCandidates(e, s) == {r \in Rules : r.event = e /\ r.from = s}

Candidates(e, s, v) == {r \in StateCandidates(e, s) : VisitMatches(r, v)}

(* resolve(): the reason it raises InvalidStateTransition with, or "OK".    *)
(* The checks come in the order of the code.                                *)
ResolveReason(e, s, v) ==
  LET cand == Candidates(e, s, v)
  IN  IF s \in TerminalStates THEN "TERMINAL_STATE"
      ELSE IF ~VisitStatusAllowed(s, v) THEN "VISIT_STATUS_NOT_ALLOWED"
      ELSE IF cand = {}
           THEN IF StateCandidates(e, s) # {} THEN "VISIT_STATE_MISMATCH"
                                              ELSE "UNLISTED_TRANSITION"
      ELSE IF \E q, r \in cand : q # r THEN "AMBIGUOUS_TRANSITION"
      ELSE IF \E r \in cand : ~VisitStatusAllowed(r.to, NextVisitStatus(r, v))
           THEN "VISIT_STATUS_NOT_ALLOWED"
      ELSE "OK"

\* The rule resolve() plans with: a singleton, or empty when it raises.
Plan(e, s, v) ==
  {r \in Candidates(e, s, v) : ResolveReason(e, s, v) = "OK"}

\* resolve() returns a Transition from (s, v) to (t, w).
Resolves(e, s, v, t, w) ==
  \E r \in Plan(e, s, v) : t = r.to /\ w = NextVisitStatus(r, v)
=============================================================================
