--------------------------- MODULE AIAnalysisProofs ---------------------------
(* Proofs about the AI analysis, for any number of submissions, any set of  *)
(* questions and any AI results: what a cancel, a late callback, a second   *)
(* callback of the same version and a crash may never do to the inquiry.    *)
EXTENDS AIAnalysis, TLAPS

-----------------------------------------------------------------------------
(* The inductive invariant. *)

\* Requests are scheduled in order, and only a scheduled one has a callback.
Scheduled == \A r \in Requests : pc[r] = "idle" <=> r > requested

\* Where a callback is tells what has become of its run: none before
\* _create_run, a completed one while its result is being saved.
RunFollowsCallback ==
  \A r \in Requests :
    /\ pc[r] \in {"idle", "scheduled", "building", "built"} => run[r] = NONE
    /\ pc[r] \in {"persisting", "unsaved"} =>
         run[r] \in {"SUCCEEDED", "NO_EVIDENCE"}

\* A run is taken from its callback by a cancel only.
RunIsHeld ==
  status # "CANCELLED" =>
    \A r \in Requests :
      /\ pc[r] = "created" => run[r] = "QUEUED"
      /\ pc[r] = "calling" => run[r] = "RUNNING"

\* The callbacks that have read the answers.
HasRead ==
  {"built", "created", "calling", "persisting", "unsaved", "failed", "done"}

\* A payload of the current version holds the current answers.
PayloadIsFresh ==
  \A r \in Requests :
    pc[r] \in HasRead /\ payload[r] = version => seen[r] = answered

\* A review is left by a callback that ended, and a decision moved the
\* inquiry past the version it was made for.
ReviewsAreBehind ==
  \A r \in Requests :
    /\ review[r] # NONE => pc[r] = "done"
    /\ review[r] \in {"APPROVED", "REJECTED"} => payload[r] < version

\* The outcomes of an analysis that left the questionnaire open.
OpenOutcomes ==
  {"HUMAN_REVIEW_REQUIRED", "NO_STATE_EVENT_CANDIDATE", "GUARD_REJECTED",
   "AI-LEDGER-PERSIST-01"}

\* The newest request is the one for the current version of an open
\* questionnaire: it has not read it yet, died, or works on this version.
NewestIsCurrent ==
  status = QIP =>
    /\ requested \in Requests
    /\ \/ pc[requested] \in {"scheduled", "dead"}
       \/ /\ payload[requested] = version
          /\ pc[requested] = "done" => outcome[requested] \in OpenOutcomes

IInv ==
  /\ TypeOK
  /\ CancelStopsRuns
  /\ Scheduled
  /\ RunFollowsCallback
  /\ RunIsHeld
  /\ PayloadIsFresh
  /\ ReviewsAreBehind
  /\ NewestIsCurrent

-----------------------------------------------------------------------------
(* The routing tables. *)

\* The events an analysis may settle on, and those of its failure.
AnalysisEvents ==
  {"PRODUCT_VALIDATION_FAILED", "DANGER_DETECTED", "NO_EVIDENCE",
   "SAFE_GUIDANCE_READY"}

FailureEvents == {"AI_PROCESSING_TIMEOUT", "NO_EVIDENCE"}

(* Which events of the contract lead into an open questionnaire, a          *)
(* cancelled inquiry and the AI guidance.                                   *)
LEMMA RuleTargets ==
  ASSUME NEW rule \in Rules
  PROVE  /\ rule.to \in InquiryStates
         /\ rule.to = QIP => rule.event \in {"SUBMIT_SYMPTOM", "SUBMIT_ANSWERS"}
         /\ rule.to = "CANCELLED" <=> rule.event = "CANCEL_INQUIRY"
         /\ rule.to = "AI_GUIDANCE" =>
              rule.event \in {"SAFE_GUIDANCE_READY",
                              "HUMAN_REVIEW_GUIDANCE_APPROVED"}
BY DEF Rules, Absent, Preserve, Moves, Rule, InquiryStates, QIP, NONE

(* What resolve and apply_state_transition do together: the inquiry was     *)
(* open, its version moves by one, and the event says where it may land.    *)
LEMMA TransitFacts ==
  ASSUME NEW e, Transit(e)
  PROVE  /\ status \notin TerminalStates
         /\ status' \in InquiryStates
         /\ version' = version + 1
         /\ status' = QIP => e \in {"SUBMIT_SYMPTOM", "SUBMIT_ANSWERS"}
         /\ status' = "CANCELLED" <=> e = "CANCEL_INQUIRY"
         /\ status' = "AI_GUIDANCE" =>
              e \in {"SAFE_GUIDANCE_READY", "HUMAN_REVIEW_GUIDANCE_APPROVED"}
<1>1. PICK rule \in Plan(e, status, NONE) :
        status' = rule.to /\ version' = NextVersion(version)
  BY DEF Transit
<1>2. rule \in Rules /\ rule.event = e
  BY <1>1 DEF Plan, Candidates, StateCandidates
<1>3. status \notin TerminalStates
  BY <1>1 DEF Plan, ResolveReason
<1>4. QED
  BY <1>1, <1>2, <1>3, RuleTargets DEF NextVersion

(* Every event an analysis settles on is planned from an open               *)
(* questionnaire, so resolve() does not raise there.                        *)
LEMMA AnalysisIsPlanned ==
  ASSUME NEW e \in AnalysisEvents
  PROVE  Plan(e, QIP, NONE) # {}
<1> DEFINE to == IF e = "SAFE_GUIDANCE_READY" THEN "AI_GUIDANCE"
                 ELSE "CONSULTATION_REQUIRED"
<1> DEFINE rule == Absent(e, QIP, to)
<1>1. rule \in Rules
  BY DEF AnalysisEvents, Rules, QIP
<1>2. rule \in Candidates(e, QIP, NONE)
  BY <1>1 DEF Candidates, StateCandidates, VisitMatches, Absent, Rule
<1>3. \A q \in Rules : q.event = e /\ q.from = QIP => q = rule
  BY DEF AnalysisEvents, Rules, Absent, Preserve, Moves, Rule, QIP, NONE
<1>4. \A q \in Candidates(e, QIP, NONE) : q = rule
  BY <1>3 DEF Candidates, StateCandidates
<1>5. VisitStatusAllowed(rule.to, NextVisitStatus(rule, NONE))
  BY DEF VisitStatusAllowed, NextVisitStatus, Absent, Rule
<1>6. VisitStatusAllowed(QIP, NONE) /\ QIP \notin TerminalStates
  BY DEF VisitStatusAllowed, TerminalStates, QIP
<1>7. ResolveReason(e, QIP, NONE) = "OK"
  BY <1>2, <1>4, <1>5, <1>6 DEF ResolveReason
<1>8. QED
  BY <1>2, <1>7 DEF Plan

(* The event a result is routed to; guidance only on a general risk with    *)
(* verified evidence and no open question.                                  *)
LEMMA ChosenFacts ==
  ASSUME NEW res
  PROVE  /\ ChosenEvent(res) \in AnalysisEvents \cup {NONE}
         /\ ChosenEvent(res) = "SAFE_GUIDANCE_READY" =>
              /\ res.risk = "general"
              /\ res.verified
              /\ res.followups = {}
BY DEF ChosenEvent, EventCandidate, AnalysisEvents, NONE

-----------------------------------------------------------------------------
(* Init and the inquiry's own moves. *)

(* Before the first symptom the invariant holds.                            *)
LEMMA InitIInv == Init => IInv
<1> SUFFICES ASSUME Init PROVE IInv
  OBVIOUS
<1>1. TypeOK
  <2>1. /\ status \in InquiryStates /\ version \in Nat /\ asked \subseteq Questions
        /\ answered \subseteq asked /\ requested \in 0 .. MaxRequests
    BY AnalysisAssumption DEF Init, InquiryStates
  <2>2. /\ pc \in [Requests -> InFlight \cup {"idle", "done", "dead"}]
        /\ payload \in [Requests -> 0 .. version]
        /\ seen \in [Requests -> SUBSET Questions]
    BY DEF Init
  <2>3. /\ run \in [Requests -> RunStatuses \cup {NONE}]
        /\ retries \in [Requests -> {0, 1}]
        /\ review \in [Requests -> ReviewStatuses \cup {NONE}]
    BY DEF Init
  <2>4. result \in [Requests -> Results \cup {NoResult}]
    BY DEF Init
  <2>5. outcome \in [Requests -> PendingReasons \cup {NONE}]
    BY DEF Init
  <2>6. QED
    BY <2>1, <2>2, <2>3, <2>4, <2>5 DEF TypeOK
<1>2. /\ CancelStopsRuns /\ RunFollowsCallback /\ RunIsHeld /\ PayloadIsFresh
      /\ ReviewsAreBehind /\ NewestIsCurrent
  BY DEF Init, CancelStopsRuns, RunFollowsCallback, RunIsHeld, PayloadIsFresh,
         ReviewsAreBehind, NewestIsCurrent, HasRead, QIP, NONE
<1>3. Scheduled
  BY AnalysisAssumption DEF Init, Scheduled, Requests
<1>4. QED
  BY <1>1, <1>2, <1>3 DEF IInv

(* A submission: a new version, new answers, and the callback for them.     *)
LEMMA SubmitStep ==
  ASSUME IInv, NEW e \in {"SUBMIT_SYMPTOM", "SUBMIT_ANSWERS"}, Transit(e),
         Schedule, answered' \subseteq asked,
         UNCHANGED <<asked, payload, seen, run, retries, result, outcome, review>>
  PROVE  IInv'
<1> USE DEF IInv
<1>1. /\ status # "CANCELLED" /\ status' \in InquiryStates
      /\ version' = version + 1 /\ status' # "CANCELLED"
  BY TransitFacts DEF TerminalStates
<1>2. /\ requested + 1 \in Requests /\ pc[requested + 1] = "idle"
      /\ requested' = requested + 1
      /\ requested' \in 0 .. MaxRequests
      /\ pc' = [pc EXCEPT ![requested + 1] = "scheduled"]
  BY AnalysisAssumption DEF TypeOK, Schedule, Scheduled, Requests
<1>3. TypeOK'
  <2>1. payload' \in [Requests -> 0 .. version']
    BY <1>1 DEF TypeOK
  <2>2. pc' \in [Requests -> InFlight \cup {"idle", "done", "dead"}]
    BY <1>2 DEF TypeOK, InFlight
  <2>3. QED
    BY <1>1, <1>2, <2>1, <2>2 DEF TypeOK
<1>4. CancelStopsRuns' /\ Scheduled'
  BY <1>1, <1>2 DEF CancelStopsRuns, Scheduled, TypeOK, Requests
<1>5. RunFollowsCallback' /\ RunIsHeld'
  BY <1>1, <1>2 DEF RunFollowsCallback, RunIsHeld, TypeOK
<1>6. PayloadIsFresh'
  BY <1>1, <1>2 DEF PayloadIsFresh, HasRead, TypeOK
<1>7. ReviewsAreBehind'
  BY <1>1, <1>2 DEF ReviewsAreBehind, TypeOK
<1>8. NewestIsCurrent'
  BY <1>1, <1>2 DEF NewestIsCurrent, TypeOK
<1>9. QED
  BY <1>3, <1>4, <1>5, <1>6, <1>7, <1>8

(* A cancel stops every active run, and no callback is left to restart one. *)
LEMMA CancelStep ==
  ASSUME IInv, Cancel
  PROVE  IInv'
<1> USE DEF IInv, Cancel
<1>1. /\ status' = "CANCELLED" /\ status' # QIP
      /\ version' = version + 1 /\ status' \in InquiryStates
  BY TransitFacts DEF QIP
<1>2. TypeOK'
  <2>1. payload' \in [Requests -> 0 .. version']
    BY <1>1 DEF TypeOK
  <2>2. run' \in [Requests -> RunStatuses \cup {NONE}]
    BY DEF TypeOK, RunStatuses
  <2>3. QED
    BY <1>1, <2>1, <2>2 DEF TypeOK
<1>3. CancelStopsRuns' /\ Scheduled' /\ RunFollowsCallback' /\ RunIsHeld'
  BY <1>1 DEF CancelStopsRuns, Scheduled, RunFollowsCallback, RunIsHeld,
              ActiveRuns, TypeOK, NONE
<1>4. PayloadIsFresh' /\ ReviewsAreBehind' /\ NewestIsCurrent'
  BY <1>1 DEF PayloadIsFresh, ReviewsAreBehind, NewestIsCurrent, TypeOK
<1>5. QED
  BY <1>2, <1>3, <1>4

(* A decision moves the inquiry past the version it was made for.           *)
LEMMA DecideStep ==
  ASSUME IInv, NEW r \in Requests, NEW e \in Decisions, Decide(r, e)
  PROVE  IInv'
<1> USE DEF IInv, Decide
<1>1. /\ status' \notin {"CANCELLED", QIP} /\ status # "CANCELLED"
      /\ version' = version + 1 /\ status' \in InquiryStates
  BY TransitFacts DEF Decisions, QIP
<1>2. TypeOK'
  <2>1. payload' \in [Requests -> 0 .. version']
    BY <1>1 DEF TypeOK
  <2>2. review' \in [Requests -> ReviewStatuses \cup {NONE}]
    BY DEF TypeOK, ReviewStatuses
  <2>3. QED
    BY <1>1, <2>1, <2>2 DEF TypeOK
<1>3. CancelStopsRuns' /\ Scheduled' /\ RunFollowsCallback' /\ RunIsHeld'
  BY <1>1 DEF CancelStopsRuns, Scheduled, RunFollowsCallback, RunIsHeld
<1>4. PayloadIsFresh' /\ NewestIsCurrent'
  BY <1>1 DEF PayloadIsFresh, NewestIsCurrent, TypeOK
<1>5. ReviewsAreBehind'
  <2>1. review[r] # NONE
    BY DEF NONE
  <2>2. QED
    BY <1>1, <2>1 DEF ReviewsAreBehind, TypeOK
<1>6. QED
  BY <1>2, <1>3, <1>4, <1>5

-----------------------------------------------------------------------------
(* The callback, one lemma per step. *)

\* The types of what only a callback writes.
CallbackTypes ==
  /\ pc \in [Requests -> InFlight \cup {"idle", "done", "dead"}]
  /\ payload \in [Requests -> 0 .. version]
  /\ seen \in [Requests -> SUBSET Questions]
  /\ run \in [Requests -> RunStatuses \cup {NONE}]
  /\ retries \in [Requests -> {0, 1}]
  /\ result \in [Requests -> Results \cup {NoResult}]
  /\ outcome \in [Requests -> PendingReasons \cup {NONE}]

\* What the invariant says of one request, the inquiry aside.
RequestInv(r) ==
  /\ pc[r] # "idle" /\ r <= requested
  /\ pc[r] \in {"idle", "scheduled", "building", "built"} => run[r] = NONE
  /\ pc[r] \in {"persisting", "unsaved"} =>
       run[r] \in {"SUCCEEDED", "NO_EVIDENCE"}
  /\ status = "CANCELLED" => run[r] \notin ActiveRuns
  /\ status # "CANCELLED" /\ pc[r] = "created" => run[r] = "QUEUED"
  /\ status # "CANCELLED" /\ pc[r] = "calling" => run[r] = "RUNNING"
  /\ pc[r] \in HasRead /\ payload[r] = version => seen[r] = answered
  /\ status = QIP /\ r = requested =>
       \/ pc[r] \in {"scheduled", "dead"}
       \/ /\ payload[r] = version
          /\ pc[r] = "done" => outcome[r] \in OpenOutcomes

(* A callback in flight satisfies its part of the invariant and has left no *)
(* review yet.                                                              *)
LEMMA RequestFacts ==
  ASSUME IInv, NEW r \in Requests, pc[r] \in InFlight
  PROVE  RequestInv(r) /\ review[r] = NONE
<1>1. pc[r] # "idle" /\ pc[r] # "done"
  BY DEF InFlight
<1>2. r <= requested /\ review[r] = NONE
  BY <1>1 DEF IInv, Scheduled, ReviewsAreBehind, TypeOK, Requests
<1>3. QED
  BY <1>1, <1>2
     DEF IInv, RequestInv, RunFollowsCallback, CancelStopsRuns, RunIsHeld,
         PayloadIsFresh, NewestIsCurrent

(* A step of a callback that leaves the inquiry and the reviews alone keeps *)
(* the invariant when it keeps the part of its own request.                 *)
LEMMA LocalStep ==
  ASSUME IInv, NEW r \in Requests, pc[r] \in InFlight,
         UNCHANGED <<inquiry, review>>, CallbackTypes', RequestInv(r)',
         \A q \in Requests \ {r} :
           /\ pc'[q] = pc[q] /\ payload'[q] = payload[q] /\ seen'[q] = seen[q]
           /\ run'[q] = run[q] /\ outcome'[q] = outcome[q]
  PROVE  IInv'
<1> USE DEF IInv, inquiry
<1>1. TypeOK'
  BY DEF TypeOK, CallbackTypes
<1>2. Scheduled' /\ CancelStopsRuns'
  BY DEF Scheduled, CancelStopsRuns, RequestInv, TypeOK, Requests
<1>3. RunFollowsCallback' /\ RunIsHeld'
  BY DEF RunFollowsCallback, RunIsHeld, RequestInv
<1>4. PayloadIsFresh'
  BY DEF PayloadIsFresh, RequestInv
<1>5. ReviewsAreBehind'
  BY RequestFacts DEF ReviewsAreBehind, NONE
<1>6. NewestIsCurrent'
  BY DEF NewestIsCurrent, RequestInv
<1>7. QED
  BY <1>1, <1>2, <1>3, <1>4, <1>5, <1>6

(* The unlocked read of the inquiry and, later, that of its answers.        *)
LEMMA ReadStep ==
  ASSUME IInv, NEW r \in Requests, ReadInquiry(r) \/ ReadAnswers(r)
  PROVE  IInv'
<1>1. pc[r] \in InFlight /\ RequestInv(r) /\ UNCHANGED <<inquiry, review>>
  BY RequestFacts DEF ReadInquiry, ReadAnswers, InFlight
<1> USE DEF IInv, TypeOK
<1>2. CASE ReadInquiry(r)
  <2> USE <1>2 DEF ReadInquiry, Goto
  <2>1. CallbackTypes'
    BY DEF CallbackTypes, inquiry, InFlight
  <2>2. RequestInv(r)'
    BY <1>1 DEF RequestInv, inquiry, HasRead
  <2>3. QED
    BY <1>1, <2>1, <2>2, LocalStep
<1>3. CASE ReadAnswers(r)
  <2> USE <1>3 DEF ReadAnswers, Goto
  <2>1. CallbackTypes'
    BY DEF CallbackTypes, inquiry, InFlight
  <2>2. RequestInv(r)'
    BY <1>1 DEF RequestInv, inquiry, HasRead
  <2>3. QED
    BY <1>1, <2>1, <2>2, LocalStep
<1>4. QED
  BY <1>2, <1>3

(* _create_run looks at the locked inquiry before it queues a run.          *)
LEMMA CreateRunStep ==
  ASSUME IInv, NEW r \in Requests, CreateRun(r)
  PROVE  IInv'
<1>1. pc[r] \in InFlight /\ RequestInv(r) /\ UNCHANGED <<inquiry, review>>
  BY RequestFacts DEF CreateRun, InFlight
<1> USE DEF IInv, TypeOK, CreateRun, Goto, Finish
<1>2. CallbackTypes'
  BY DEF CallbackTypes, inquiry, InFlight, RunStatuses, ActiveRuns,
         PendingReasons
<1>3. RequestInv(r)'
  BY <1>1 DEF RequestInv, inquiry, HasRead, ActiveRuns, QIP
<1>4. QED
  BY <1>1, <1>2, <1>3, LocalStep

(* _mark_running and _mark_failed act on the run they find, or give up.     *)
LEMMA MarkStep ==
  ASSUME IInv, NEW r \in Requests,
         \/ MarkRunning(r)
         \/ \E n \in {0, 1}, as \in {"FAILED", "TIMED_OUT"} : MarkFailed(r, as, n)
  PROVE  IInv'
<1>1. pc[r] \in InFlight /\ RequestInv(r) /\ UNCHANGED <<inquiry, review>>
  BY RequestFacts DEF MarkRunning, MarkFailed, InFlight
<1> USE DEF IInv, TypeOK, Goto, GiveUp, Finish
<1>2. CASE MarkRunning(r)
  <2>1. CallbackTypes'
    BY <1>2 DEF CallbackTypes, MarkRunning, inquiry, InFlight, RunStatuses,
                ActiveRuns, PendingReasons
  <2>2. RequestInv(r)'
    BY <1>1, <1>2 DEF RequestInv, MarkRunning, inquiry, HasRead, ActiveRuns, QIP
  <2>3. QED
    BY <1>1, <1>2, <2>1, <2>2, LocalStep DEF MarkRunning
<1>3. ASSUME NEW n \in {0, 1}, NEW as \in {"FAILED", "TIMED_OUT"},
             MarkFailed(r, as, n)
      PROVE  IInv'
  <2>1. CallbackTypes'
    <3>1. CASE run[r] = "RUNNING"
      <4>1. run' \in [Requests -> RunStatuses \cup {NONE}]
        BY <1>3, <3>1 DEF MarkFailed, RunStatuses
      <4>2. pc' \in [Requests -> InFlight \cup {"idle", "done", "dead"}]
        BY <1>3, <3>1 DEF MarkFailed, InFlight
      <4>3. retries' \in [Requests -> {0, 1}]
        BY <1>3, <3>1 DEF MarkFailed
      <4>4. QED
        BY <1>3, <3>1, <4>1, <4>2, <4>3 DEF CallbackTypes, MarkFailed, inquiry
    <3>2. CASE run[r] # "RUNNING"
      BY <1>3, <3>2 DEF CallbackTypes, MarkFailed, inquiry, PendingReasons
    <3>3. QED
      BY <3>1, <3>2
  <2>2. RequestInv(r)'
    BY <1>1, <1>3 DEF RequestInv, MarkFailed, inquiry, HasRead, ActiveRuns, QIP
  <2>3. QED
    BY <1>1, <1>3, <2>1, <2>2, LocalStep DEF MarkFailed
<1>4. QED
  BY <1>2, <1>3

(* _mark_succeeded likewise.                                                *)
LEMMA MarkSucceededStep ==
  ASSUME IInv, NEW r \in Requests, NEW res \in Results, MarkSucceeded(r, res)
  PROVE  IInv'
<1>1. pc[r] \in InFlight /\ RequestInv(r) /\ UNCHANGED <<inquiry, review>>
  BY RequestFacts DEF MarkSucceeded, InFlight
<1> USE DEF IInv, TypeOK, MarkSucceeded, GiveUp, Finish
<1>2. CallbackTypes'
  BY DEF CallbackTypes, inquiry, InFlight, RunStatuses, PendingReasons
<1>3. RequestInv(r)'
  BY <1>1 DEF RequestInv, inquiry, HasRead, ActiveRuns, QIP
<1>4. QED
  BY <1>1, <1>2, <1>3, LocalStep

(* A result that is refused, or whose saving raises, leaves the inquiry as  *)
(* it is; on an open questionnaire resolve() does not raise.                *)
LEMMA RefusedStep ==
  ASSUME IInv, NEW r \in Requests,
         \/ PersistStale(r) \/ PersistRaises(r)
         \/ \E refused \in BOOLEAN : MarkUnsaved(r, refused)
  PROVE  IInv'
<1>1. pc[r] \in InFlight /\ RequestInv(r) /\ UNCHANGED <<inquiry, review>>
  BY RequestFacts DEF PersistStale, PersistRaises, MarkUnsaved, InFlight
<1> USE DEF IInv, TypeOK, Goto, Finish
<1>2. CASE PersistStale(r)
  <2>1. CallbackTypes'
    BY <1>2 DEF CallbackTypes, PersistStale, inquiry, InFlight, PendingReasons
  <2>2. RequestInv(r)'
    BY <1>1, <1>2 DEF RequestInv, PersistStale, inquiry, HasRead, ActiveRuns, QIP
  <2>3. QED
    BY <1>1, <1>2, <2>1, <2>2, LocalStep DEF PersistStale
<1>3. CASE PersistRaises(r)
  <2>1. CallbackTypes'
    BY <1>3 DEF CallbackTypes, PersistRaises, inquiry, InFlight, PendingReasons
  <2>2. status = QIP => pc'[r] = "unsaved"
    BY <1>3, ChosenFacts, AnalysisIsPlanned DEF PersistRaises
  <2>3. RequestInv(r)'
    BY <1>1, <1>3, <2>2
       DEF RequestInv, PersistRaises, inquiry, HasRead, ActiveRuns, QIP
  <2>4. QED
    BY <1>1, <1>3, <2>1, <2>3, LocalStep DEF PersistRaises
<1>4. ASSUME NEW refused \in BOOLEAN, MarkUnsaved(r, refused)
      PROVE  IInv'
  <2>1. CallbackTypes'
    BY <1>4 DEF CallbackTypes, MarkUnsaved, inquiry, InFlight, RunStatuses,
                PendingReasons
  <2>2. RequestInv(r)'
    BY <1>1, <1>4
       DEF RequestInv, MarkUnsaved, inquiry, HasRead, ActiveRuns, OpenOutcomes
  <2>3. QED
    BY <1>1, <1>4, <2>1, <2>2, LocalStep DEF MarkUnsaved
<1>5. QED
  BY <1>2, <1>3, <1>4

(* A crash leaves everything but the callback where it was.                 *)
LEMMA CrashStep ==
  ASSUME IInv, NEW r \in Requests, Crash(r)
  PROVE  IInv'
<1>1. pc[r] \in InFlight /\ RequestInv(r) /\ UNCHANGED <<inquiry, review>>
  BY RequestFacts DEF Crash
<1> USE DEF IInv, TypeOK, Crash, Goto
<1>2. CallbackTypes'
  BY DEF CallbackTypes, inquiry
<1>3. RequestInv(r)'
  BY <1>1 DEF RequestInv, inquiry, HasRead, ActiveRuns
<1>4. QED
  BY <1>1, <1>2, <1>3, LocalStep

(* A step that ends callback r by applying event e: nothing but the version *)
(* of the other requests' payloads changes for them, and the questionnaire  *)
(* is no longer open.                                                       *)
LEMMA AppliedStep ==
  ASSUME IInv, NEW r \in Requests, pc[r] \in {"persisting", "failed"},
         NEW e \in AnalysisEvents \cup FailureEvents, Transit(e),
         version = payload[r],
         asked \subseteq asked', asked' \subseteq Questions,
         review' \in [Requests -> ReviewStatuses \cup {NONE}],
         review'[r] \in {NONE, "PENDING"},
         \A q \in Requests \ {r} : review'[q] = review[q],
         Finish(r, "APPLIED"),
         UNCHANGED <<answered, requested, payload, seen, run, retries>>
  PROVE  IInv'
<1> USE DEF IInv, Finish
<1>1. /\ status' \notin {"CANCELLED", QIP} /\ status # "CANCELLED"
      /\ version' = version + 1 /\ status' \in InquiryStates
  BY TransitFacts DEF AnalysisEvents, FailureEvents, TerminalStates, QIP
<1>2. TypeOK'
  <2>1. payload' \in [Requests -> 0 .. version']
    BY <1>1 DEF TypeOK
  <2>2. /\ pc' \in [Requests -> InFlight \cup {"idle", "done", "dead"}]
        /\ outcome' \in [Requests -> PendingReasons \cup {NONE}]
        /\ result' \in [Requests -> Results \cup {NoResult}]
    BY DEF TypeOK, PendingReasons
  <2>3. QED
    BY <1>1, <2>1, <2>2 DEF TypeOK
<1>3. CancelStopsRuns' /\ NewestIsCurrent'
  BY <1>1 DEF CancelStopsRuns, NewestIsCurrent
<1>4. Scheduled' /\ RunFollowsCallback' /\ RunIsHeld'
  BY <1>1 DEF Scheduled, RunFollowsCallback, RunIsHeld, TypeOK
<1>5. PayloadIsFresh'
  BY <1>1 DEF PayloadIsFresh, TypeOK
<1>6. ReviewsAreBehind'
  <2>1. "done" # "persisting" /\ pc'[r] = "done"
    BY DEF TypeOK
  <2>2. \A q \in Requests \ {r} : pc'[q] = pc[q]
    BY DEF TypeOK
  <2>3. \A q \in Requests \ {r} : payload[q] < version => payload'[q] < version'
    BY <1>1 DEF TypeOK
  <2>4. QED
    BY <2>1, <2>2, <2>3 DEF ReviewsAreBehind, NONE
<1>7. QED
  BY <1>2, <1>3, <1>4, <1>5, <1>6

(* A step that ends callback r and leaves the status and version alone.     *)
LEMMA UnappliedStep ==
  ASSUME IInv, NEW r \in Requests, pc[r] \in {"persisting", "failed"},
         asked \subseteq asked', asked' \subseteq Questions,
         review' \in [Requests -> ReviewStatuses \cup {NONE}],
         review'[r] \in {NONE, "PENDING"},
         \A q \in Requests \ {r} : review'[q] = review[q],
         NEW reason \in PendingReasons, Finish(r, reason),
         status = QIP /\ version = payload[r] => reason \in OpenOutcomes,
         UNCHANGED <<status, version, answered, requested, payload, seen, run,
                     retries>>
  PROVE  IInv'
<1> USE DEF IInv, Finish
<1>1. RequestInv(r) /\ review[r] = NONE
  BY RequestFacts DEF InFlight
<1>2. TypeOK'
  BY DEF TypeOK
<1>3. CancelStopsRuns' /\ Scheduled' /\ RunFollowsCallback' /\ RunIsHeld'
  BY <1>1 DEF CancelStopsRuns, Scheduled, RunFollowsCallback, RunIsHeld, TypeOK
<1>4. PayloadIsFresh'
  BY DEF PayloadIsFresh, HasRead, TypeOK
<1>5. ReviewsAreBehind'
  <2>1. pc'[r] = "done" /\ \A q \in Requests \ {r} : pc'[q] = pc[q]
    BY DEF TypeOK
  <2>2. QED
    BY <2>1 DEF ReviewsAreBehind, NONE
<1>6. NewestIsCurrent'
  BY <1>1 DEF NewestIsCurrent, RequestInv, TypeOK
<1>7. QED
  BY <1>2, <1>3, <1>4, <1>5, <1>6

(* What saving the questions and the guidance writes.                       *)
LEMMA BundleFacts ==
  ASSUME IInv, NEW r \in Requests, pc[r] = "persisting", SaveBundle(r)
  PROVE  /\ asked \subseteq asked' /\ asked' \subseteq Questions
         /\ review' \in [Requests -> ReviewStatuses \cup {NONE}]
         /\ review'[r] \in {NONE, "PENDING"}
         /\ \A q \in Requests \ {r} : review'[q] = review[q]
<1>1. review[r] = NONE
  BY RequestFacts DEF InFlight
<1>2. result[r].followups \subseteq Questions
  <2>1. result[r] \in Results \cup {NoResult}
    BY DEF IInv, TypeOK
  <2>2. \A res \in Results : res.followups \subseteq Questions
    BY AnalysisAssumption DEF AIResult
  <2>3. QED
    BY <2>1, <2>2 DEF NoResult
<1>3. QED
  BY <1>1, <1>2 DEF IInv, TypeOK, SaveBundle, ReviewStatuses

(* _persist_validated_result: what it saves, and the event or the reason.   *)
LEMMA PersistStep ==
  ASSUME IInv, NEW r \in Requests, Persist(r)
  PROVE  IInv'
<1> DEFINE e == ChosenEvent(result[r])
<1>1. pc[r] = "persisting" /\ version = payload[r] /\ SaveBundle(r)
  BY DEF Persist
<1>2. e \in AnalysisEvents \cup {NONE}
  BY ChosenFacts
<1> HIDE DEF e
<1>3. CASE /\ UNCHANGED <<status, version>>
           /\ \/ Finish(r, NoEventReason(result[r]))
              \/ Finish(r, "GUARD_REJECTED")
  <2>1. PICK reason \in OpenOutcomes : Finish(r, reason)
    BY <1>3 DEF NoEventReason, OpenOutcomes
  <2>2. reason \in PendingReasons
    BY DEF OpenOutcomes, PendingReasons
  <2>3. QED
    BY <1>1, <1>3, <2>1, <2>2, BundleFacts, UnappliedStep DEF SaveBundle
<1>4. CASE e # NONE /\ Transit(e) /\ Finish(r, "APPLIED")
  BY <1>1, <1>2, <1>4, BundleFacts, AppliedStep DEF SaveBundle
<1>5. QED
  BY <1>3, <1>4 DEF Persist, e

(* _apply_timeout_event and _apply_unusable_ai_failure_event.               *)
LEMMA ApplyFailureStep ==
  ASSUME IInv, NEW r \in Requests, ApplyFailure(r)
  PROVE  IInv'
<1> USE DEF ApplyFailure
<1>1. /\ asked' \subseteq Questions /\ asked \subseteq asked'
      /\ review' \in [Requests -> ReviewStatuses \cup {NONE}]
      /\ review'[r] = NONE
      /\ \A q \in Requests \ {r} : review'[q] = review[q]
  BY RequestFacts DEF IInv, TypeOK, InFlight
<1>2. CASE Transit(FailureEvent(r)) /\ version = payload[r] /\ Finish(r, "APPLIED")
  <2>1. FailureEvent(r) \in FailureEvents
    BY DEF FailureEvent, FailureEvents
  <2>2. QED
    BY <1>1, <1>2, <2>1, AppliedStep
<1>3. ASSUME UNCHANGED <<status, version>>, NEW reason \in PendingReasons,
             Finish(r, reason),
             status = QIP /\ version = payload[r] => reason \in OpenOutcomes
      PROVE  IInv'
  BY <1>1, <1>3, UnappliedStep
<1>4. {"GUARD_REJECTED", "STALE_STATE_VERSION"} \subseteq PendingReasons
  BY DEF PendingReasons
<1>5. "GUARD_REJECTED" \in OpenOutcomes
  BY DEF OpenOutcomes
<1>6. QED
  BY <1>2, <1>3, <1>4, <1>5

(* The induction step: every submission, cancel, decision, step of a        *)
(* callback and crash keeps the invariant.                                  *)
LEMMA NextIInv == IInv /\ [Next]_vars => IInv'
<1> SUFFICES ASSUME IInv, [Next]_vars PROVE IInv'
  OBVIOUS
<1>1. CASE SubmitSymptom
  BY <1>1, SubmitStep DEF SubmitSymptom, IInv, TypeOK
<1>2. ASSUME NEW qs \in SUBSET Questions, SubmitAnswers(qs)
      PROVE  IInv'
  <2>1. answered' \subseteq asked
    BY <1>2 DEF SubmitAnswers, IInv, TypeOK
  <2>2. QED
    BY <1>2, <2>1, SubmitStep DEF SubmitAnswers
<1>3. ASSUME NEW r \in Requests, Callback(r)
      PROVE  IInv'
  BY <1>3, ReadStep, CreateRunStep, MarkStep, MarkSucceededStep, RefusedStep,
     PersistStep, ApplyFailureStep DEF Callback
<1>4. CASE UNCHANGED vars
  BY <1>4 DEF vars, IInv, TypeOK, CancelStopsRuns, Scheduled,
              RunFollowsCallback, RunIsHeld, PayloadIsFresh, ReviewsAreBehind,
              NewestIsCurrent
<1>5. QED
  BY <1>1, <1>2, <1>3, <1>4, CancelStep, DecideStep, CrashStep DEF Next

(* The inductive invariant holds in every state the callbacks can reach.    *)
THEOREM Invariance == Spec => []IInv
BY InitIInv, NextIInv, PTL DEF Spec

-----------------------------------------------------------------------------
(* The theorems. *)

(* Callbacks, runs and reviews hold the codes of their models, for any      *)
(* number of submissions.                                                   *)
THEOREM TypeCorrect == Spec => []TypeOK
<1>1. IInv => TypeOK
  BY DEF IInv
<1>2. QED
  BY <1>1, Invariance, PTL

(* A cancelled inquiry has no active AI run, however many callbacks were    *)
(* under way when it was cancelled.                                         *)
THEOREM CancelAlwaysStopsRuns == Spec => []CancelStopsRuns
<1>1. IInv => CancelStopsRuns
  BY DEF IInv
<1>2. QED
  BY <1>1, Invariance, PTL

(* One version of the inquiry is decided at most once, however many pending *)
(* reviews its callbacks left.                                              *)
THEOREM DecidedOncePerVersion == Spec => []OneDecisionPerVersion
<1>1. IInv /\ [Next]_vars /\ OneDecisionPerVersion => OneDecisionPerVersion'
  <2> SUFFICES ASSUME IInv, [Next]_vars, OneDecisionPerVersion,
                      NEW q \in Requests, NEW r \in Requests, q # r,
                      review'[q] \in {"APPROVED", "REJECTED"},
                      review'[r] \in {"APPROVED", "REJECTED"}
               PROVE  payload'[q] # payload'[r]
    BY DEF OneDecisionPerVersion
  <2> DEFINE Decided == {"APPROVED", "REJECTED"}
  <2> USE DEF IInv
  <2>1. CASE \E s \in Requests, e \in Decisions : Decide(s, e)
    <3>1. PICK s \in Requests, e \in Decisions : Decide(s, e)
      BY <2>1
    <3>2. payload' = payload /\ payload[s] = version
      BY <3>1 DEF Decide
    <3>3. \A t \in Requests \ {s} : review'[t] = review[t]
      BY <3>1 DEF Decide, TypeOK
    <3>4. \A t \in Requests \ {s} : review'[t] \in Decided => payload[t] < version
      BY <3>3 DEF ReviewsAreBehind
    <3>5. QED
      BY <3>2, <3>3, <3>4 DEF OneDecisionPerVersion, TypeOK
  <2>2. ASSUME \A t \in Requests : review'[t] \in Decided => review[t] \in Decided,
               \A t \in Requests : review[t] \in Decided => payload'[t] = payload[t]
        PROVE  payload'[q] # payload'[r]
    BY <2>2 DEF OneDecisionPerVersion
  <2>3. CASE UNCHANGED <<review, payload>>
    BY <2>2, <2>3
  <2>4. ASSUME NEW s \in Requests, ReadInquiry(s)
        PROVE  payload'[q] # payload'[r]
    <3>1. pc[s] # "done"
      BY <2>4 DEF ReadInquiry
    <3>2. \A t \in Requests : review[t] \in Decided => t # s
      BY <3>1 DEF ReviewsAreBehind, NONE
    <3>3. review' = review /\ \A t \in Requests \ {s} : payload'[t] = payload[t]
      BY <2>4 DEF ReadInquiry, TypeOK
    <3>4. QED
      BY <2>2, <3>2, <3>3
  <2>5. ASSUME NEW s \in Requests, Persist(s)
        PROVE  payload'[q] # payload'[r]
    <3>1. /\ payload' = payload /\ review'[s] \notin Decided
          /\ \A t \in Requests \ {s} : review'[t] = review[t]
      BY <2>5, BundleFacts DEF Persist, SaveBundle, NONE
    <3>2. QED
      BY <2>2, <3>1
  <2>6. ASSUME NEW s \in Requests, Callback(s) \/ Crash(s), ~ReadInquiry(s),
               ~Persist(s)
        PROVE  UNCHANGED <<review, payload>>
    BY <2>6 DEF Callback, ReadAnswers, CreateRun, MarkRunning, MarkSucceeded,
                MarkFailed, PersistStale, PersistRaises, MarkUnsaved,
                ApplyFailure, Crash
  <2>7. CASE UNCHANGED vars
    BY <2>3, <2>7 DEF vars
  <2>8. QED
    BY <2>1, <2>3, <2>4, <2>5, <2>6, <2>7
       DEF Next, SubmitSymptom, SubmitAnswers, Cancel
<1>2. Init => OneDecisionPerVersion
  BY DEF Init, OneDecisionPerVersion, NONE
<1>3. QED
  BY <1>1, <1>2, Invariance, PTL DEF Spec

(* Two callbacks and a customer cannot between them drop every result as    *)
(* stale: an open questionnaire whose callbacks have all ended was analysed *)
(* at its current version, or a callback died.                              *)
THEOREM NeverAllStale == Spec => []CurrentVersionAnalysed
<1>1. IInv => CurrentVersionAnalysed
  <2> SUFFICES ASSUME IInv, status = QIP, \A r \in Requests : pc[r] \in Ended
               PROVE  \E r \in Requests :
                        \/ pc[r] = "dead"
                        \/ payload[r] = version /\ outcome[r] \in OpenOutcomes
    BY DEF CurrentVersionAnalysed, OpenOutcomes
  <2>1. requested \in Requests /\ pc[requested] # "idle"
    BY DEF IInv, NewestIsCurrent, Scheduled, TypeOK
  <2>2. pc[requested] \in {"done", "dead"}
    BY <2>1 DEF Ended
  <2>3. QED
    BY <2>1, <2>2 DEF IInv, NewestIsCurrent
<1>2. QED
  BY <1>1, Invariance, PTL

-----------------------------------------------------------------------------
(* What a step may never do. *)

(* No callback writes the run that a cancel has taken from it.              *)
LEMMA NextKeepsCancelled ==
  ASSUME IInv, Next, NEW q \in Requests, run[q] = "CANCELLED"
  PROVE  run'[q] = "CANCELLED"
<1> USE DEF IInv, TypeOK
<1>1. CASE Cancel
  BY <1>1 DEF Cancel, ActiveRuns
<1>2. ASSUME NEW r \in Requests, Callback(r) \/ Crash(r)
      PROVE  run'[q] = "CANCELLED"
  <2>1. CASE CreateRun(r)
    BY <2>1 DEF CreateRun, RunFollowsCallback, NONE
  <2>2. CASE MarkRunning(r)
    BY <2>2 DEF MarkRunning, GiveUp
  <2>3. ASSUME NEW res \in Results, MarkSucceeded(r, res)
        PROVE  run'[q] = "CANCELLED"
    BY <2>3 DEF MarkSucceeded, GiveUp
  <2>4. ASSUME NEW n \in {0, 1}, NEW as \in {"FAILED", "TIMED_OUT"},
               MarkFailed(r, as, n)
        PROVE  run'[q] = "CANCELLED"
    BY <2>4 DEF MarkFailed, GiveUp
  <2>5. ASSUME NEW refused \in BOOLEAN, MarkUnsaved(r, refused)
        PROVE  run'[q] = "CANCELLED"
    BY <2>5 DEF MarkUnsaved, RunFollowsCallback
  <2>6. CASE UNCHANGED run
    BY <2>6
  <2>7. QED
    BY <1>2, <2>1, <2>2, <2>3, <2>4, <2>5, <2>6
       DEF Callback, ReadInquiry, ReadAnswers, PersistStale, Persist,
           SaveBundle, PersistRaises, ApplyFailure, Crash
<1>3. QED
  BY <1>1, <1>2 DEF Next, SubmitSymptom, SubmitAnswers, Decide

(* A run that a cancel stopped is never completed or failed by its own late *)
(* callback.                                                                *)
THEOREM CancelledRunsAlwaysStay == Spec => CancelledRunsStay
<1>1. IInv /\ [Next]_vars =>
        [\A r \in Requests : run[r] = "CANCELLED" => run'[r] = "CANCELLED"]_vars
  BY NextKeepsCancelled
<1>2. QED
  BY <1>1, Invariance, PTL DEF Spec, CancelledRunsStay

\* What DecidedOnAllAnswers asks of one request.
OnAllAnswers(r) ==
  /\ pc[r] \in {"persisting", "failed"} /\ pc'[r] = "done"
     /\ status' # status => seen[r] = answered
  /\ review'[r] # review[r] => seen[r] = answered

(* A step that moves the inquiry or a review rests on a fresh payload.      *)
LEMMA NextOnAllAnswers ==
  ASSUME IInv, Next, NEW q \in Requests
  PROVE  OnAllAnswers(q)
<1> USE DEF IInv, OnAllAnswers
<1>1. CASE \E r \in Requests, e \in Decisions : Decide(r, e)
  <2>1. PICK r \in Requests, e \in Decisions : Decide(r, e)
    BY <1>1
  <2>2. pc[r] = "done" /\ seen[r] = answered
    BY <2>1 DEF Decide, ReviewsAreBehind, PayloadIsFresh, HasRead, NONE
  <2>3. pc' = pc /\ \A t \in Requests \ {r} : review'[t] = review[t]
    BY <2>1 DEF Decide, TypeOK
  <2>4. QED
    BY <2>2, <2>3
<1>2. ASSUME NEW r \in Requests, Persist(r) \/ ApplyFailure(r)
      PROVE  OnAllAnswers(q)
  <2>1. \A t \in Requests \ {r} : pc'[t] = pc[t] /\ review'[t] = review[t]
    BY <1>2 DEF Persist, ApplyFailure, SaveBundle, Finish, TypeOK
  <2>2. pc[r] \in HasRead /\ (version = payload[r] => seen[r] = answered)
    BY <1>2 DEF Persist, ApplyFailure, PayloadIsFresh, HasRead
  <2>3. CASE q # r
    BY <2>1, <2>3
  <2>4. CASE q = r
    BY <1>2, <2>2, <2>4 DEF Persist, ApplyFailure
  <2>5. QED
    BY <2>3, <2>4
<1>3. ASSUME NEW r \in Requests, Callback(r) \/ Crash(r), ~Persist(r),
             ~ApplyFailure(r)
      PROVE  UNCHANGED <<status, review>>
  BY <1>3 DEF Callback, ReadInquiry, ReadAnswers, CreateRun, MarkRunning,
              MarkSucceeded, MarkFailed, PersistStale, PersistRaises,
              MarkUnsaved, Crash, inquiry
<1>4. CASE Cancel
  BY <1>4 DEF Cancel
<1>5. CASE Schedule /\ UNCHANGED review
  <2>1. pc'[q] # pc[q] => pc'[q] = "scheduled"
    BY <1>5 DEF Schedule, TypeOK
  <2>2. QED
    BY <1>5, <2>1
<1>6. QED
  BY <1>1, <1>2, <1>3, <1>4, <1>5 DEF Next, SubmitSymptom, SubmitAnswers

(* The AI and the reviewer move an inquiry only on every answer the         *)
(* customer has committed.                                                  *)
THEOREM AlwaysDecidedOnAllAnswers == Spec => DecidedOnAllAnswers
<1>1. IInv /\ [Next]_vars => [\A r \in Requests : OnAllAnswers(r)]_vars
  BY NextOnAllAnswers
<1>2. QED
  BY <1>1, Invariance, PTL DEF Spec, DecidedOnAllAnswers, OnAllAnswers

(* The steps that show the customer AI guidance.                            *)
LEMMA NextIsCleared ==
  ASSUME IInv, Next, status' = "AI_GUIDANCE", status # "AI_GUIDANCE"
  PROVE  \E r \in Requests :
           \/ /\ pc[r] = "persisting" /\ pc'[r] = "done"
              /\ result[r].risk = "general" /\ result[r].verified
              /\ result[r].followups = {}
           \/ review[r] = "PENDING" /\ review'[r] = "APPROVED"
<1>1. ASSUME NEW e, Transit(e)
      PROVE  e \in {"SAFE_GUIDANCE_READY", "HUMAN_REVIEW_GUIDANCE_APPROVED"}
  BY <1>1, TransitFacts
<1>2. ASSUME NEW r \in Requests, NEW e \in Decisions, Decide(r, e)
      PROVE  review[r] = "PENDING" /\ review'[r] = "APPROVED"
  BY <1>1, <1>2 DEF Decide, Decisions, IInv, TypeOK
<1>3. ASSUME NEW r \in Requests, Persist(r)
      PROVE  /\ pc[r] = "persisting" /\ pc'[r] = "done"
             /\ result[r].risk = "general" /\ result[r].verified
             /\ result[r].followups = {}
  <2>1. Transit(ChosenEvent(result[r])) /\ Finish(r, "APPLIED") /\ pc[r] = "persisting"
    BY <1>3 DEF Persist
  <2>2. ChosenEvent(result[r]) = "SAFE_GUIDANCE_READY"
    BY <1>1, <2>1, ChosenFacts DEF AnalysisEvents, NONE
  <2>3. QED
    BY <2>1, <2>2, ChosenFacts DEF Finish, IInv, TypeOK
<1>4. ASSUME NEW r \in Requests, Callback(r) \/ Crash(r), ~Persist(r)
      PROVE  FALSE
  <2>1. CASE ApplyFailure(r)
    BY <1>1, <2>1 DEF ApplyFailure, FailureEvent
  <2>2. QED
    BY <1>4, <2>1
       DEF Callback, ReadInquiry, ReadAnswers, CreateRun, MarkRunning,
           MarkSucceeded, MarkFailed, PersistStale, PersistRaises,
           MarkUnsaved, Crash, inquiry
<1>5. QED
  BY <1>1, <1>2, <1>3, <1>4 DEF Next, SubmitSymptom, SubmitAnswers, Cancel

(* Guidance is shown only after a safe result with verified evidence, or a  *)
(* consultant's approval.                                                   *)
THEOREM GuidanceAlwaysCleared == Spec => GuidanceIsCleared
<1>1. IInv /\ [Next]_vars =>
        [status' = "AI_GUIDANCE" /\ status # "AI_GUIDANCE" =>
           \E r \in Requests :
             \/ /\ pc[r] = "persisting" /\ pc'[r] = "done"
                /\ result[r].risk = "general" /\ result[r].verified
                /\ result[r].followups = {}
             \/ review[r] = "PENDING" /\ review'[r] = "APPROVED"]_vars
  BY NextIsCleared
<1>2. QED
  BY <1>1, Invariance, PTL DEF Spec, GuidanceIsCleared
===============================================================================
