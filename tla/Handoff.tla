------------------------------- MODULE Handoff -------------------------------
(* After an answer that sends the customer to a consultant, the AI service   *)
(* posts a handoff for it in a background task, while the Backend settles    *)
(* the AI run and, in a second transaction, applies its event.  The Backend  *)
(* stores one handoff per AI request and shows the best one as the draft     *)
(* summary of the open consultation.  Answers, runs, posts and consultations *)
(* of one inquiry interleave; a post can be lost, be refused, or be stored   *)
(* with its answer lost.  Every handler locks the inquiry, so each is one    *)
(* step.  The client of the repository posts schema 2 only; schema 1, which  *)
(* the endpoint still takes, is left out.                                    *)
EXTENDS StateMachine, Sequences, FiniteSetsExt

CONSTANTS
  Requests,        \* AI requests of the inquiry
  MaxVersion,      \* bound on state_version
  MaxRows          \* bound on the consultations of the inquiry

ASSUME HandoffAssumption == MaxVersion \in Nat \ {0} /\ MaxRows \in Nat

VARIABLES
  status,    \* Inquiry.status_code
  version,   \* Inquiry.state_version
  rows,      \* its consultations, by sequence
  run,       \* AIRun of each request: status, source version, completed_at
  clock,     \* runs completed so far
  applied,   \* the event in the transition history under the request's key
  review,    \* HumanReview of the request
  note,      \* the handoff the AI service has for the request
  post,      \* how far its delivery is
  handoffs   \* ConsultationHandoff rows, by id

inquiry == <<status, version>>
vars == <<inquiry, rows, run, clock, applied, review, note, post, handoffs>>

QIP == "QUESTIONNAIRE_IN_PROGRESS"

\* What the AI service can answer, and the handoff it then posts.
Answers ==
  {[result |-> "danger",      note |-> "DANGER_HANDOFF"],
   [result |-> "no_evidence", note |-> "NO_EVIDENCE"],
   [result |-> "fallback",    note |-> "FAIL_CLOSED"],
   [result |-> "fallback",    note |-> "HARNESS_ESCALATE"],
   [result |-> "safe",        note |-> NONE],
   [result |-> "caution",     note |-> NONE]}

Notes == {a.note : a \in Answers} \cup {"HUMAN_REVIEW_REJECTED"}
ResultCodes == {a.result : a \in Answers}

(* A run between its two transactions is PERSISTING or FAILING here: its    *)
(* row already has the final status_code, its event is not applied yet.     *)
Valid == {"PERSISTING", "SUCCEEDED", "NO_EVIDENCE"}
Invalid == {"FAILING", "FAILED"}

Runs ==
  [status : {NONE, "RUNNING"} \cup Valid \cup Invalid,
   version : 0 .. MaxVersion, done : Nat, result : ResultCodes \cup {NONE}]

\* WAITING stands for ASSIGNED as well: no code here tells them apart.
OpenRow == {"WAITING", "IN_PROGRESS"}

\* Posts wait for their first or second attempt, or are over.
Posts == {NONE, "first", "second", "DELIVERED", "FAILED", "STALE"}

(* Rows refer to handoffs and handoffs to rows that exist.                  *)
TypeOK ==
  /\ status \in InquiryStates
  /\ version \in 1 .. MaxVersion
  /\ rows \in Seq([status : OpenRow \cup {"COMPLETED"}, asked : BOOLEAN,
                   summary : 0 .. Len(handoffs)])
  /\ Len(rows) <= MaxRows
  /\ run \in [Requests -> Runs]
  /\ clock \in Nat
  /\ applied \in [Requests -> EventCodes \cup {NONE}]
  /\ review \in [Requests -> {NONE, "PENDING", "REJECTED"}]
  /\ note \in [Requests -> Notes]
  /\ post \in [Requests -> Posts]
  /\ handoffs \in Seq([request : Requests, note : Notes, row : 0 .. Len(rows)])

Init ==
  /\ status = QIP
  /\ version = 1
  /\ rows = << >>
  /\ run = [q \in Requests |->
              [status |-> NONE, version |-> 0, done |-> 0, result |-> NONE]]
  /\ clock = 0
  /\ applied = [q \in Requests |-> NONE]
  /\ review = [q \in Requests |-> NONE]
  /\ note = [q \in Requests |-> NONE]
  /\ post = [q \in Requests |-> NONE]
  /\ handoffs = << >>

Transit(e) ==
  \E rule \in Plan(e, status, NONE) :
    /\ version < MaxVersion
    /\ status' = rule.to
    /\ version' = NextVersion(version)

-----------------------------------------------------------------------------
(* The projection: ConsultationHandoffRepository. *)

\* _is_projection_eligible: a harness escalation is only kept in the ledger.
Eligible(h) == h.note # "HARNESS_ESCALATE"

\* Mutant: the handoff that was stored last is the newest.
OutranksById(hs, i, j) == i > j

\* _projection_rank: source version, completed_at of the run, id.
Outranks(hs, i, j) ==
  LET a == run[hs[i].request]
      b == run[hs[j].request]
  IN  \/ a.version > b.version
      \/ a.version = b.version /\ a.done > b.done
      \/ a.version = b.version /\ a.done = b.done /\ i > j

\* The best of a set of handoffs, 0 when it is empty.
Best(hs, ids) ==
  IF ids = {} THEN 0
  ELSE CHOOSE i \in ids : \A j \in ids \ {i} : Outranks(hs, i, j)

Shown(hs, n) == {i \in DOMAIN hs : hs[i].row = n}

\* Mutant: a handoff is shown whatever is shown already.
AttachAlways(rs, hs, n, i) ==
  IF n = 0 \/ i = 0 \/ ~Eligible(hs[i]) \/ hs[i].row \notin {0, n}
  THEN [rows |-> rs, handoffs |-> hs]
  ELSE [rows |-> [rs EXCEPT ![n].summary = i],
        handoffs |-> [hs EXCEPT ![i].row = n]]

(* attach_to_latest_consultation of handoff i to row n: refused when i is   *)
(* kept in the ledger only, is shown by another row, or is outranked.       *)
Attach(rs, hs, n, i) ==
  IF \/ n = 0
     \/ i = 0
     \/ ~Eligible(hs[i])
     \/ hs[i].row \notin {0, n}
     \/ \E j \in Shown(hs, n) \ {i} : Outranks(hs, j, i)
  THEN [rows |-> rs, handoffs |-> hs]
  ELSE [rows |-> [rs EXCEPT ![n].summary = i],
        handoffs |-> [hs EXCEPT ![i].row = n]]

\* The row it takes when the caller names none.
LatestOpen(rs) ==
  LET open == {n \in DOMAIN rs : rs[n].status \in OpenRow}
  IN  IF open = {} THEN 0 ELSE Max(open)

\* The handoff it takes when the caller names none.
Candidate(hs, n) ==
  Best(hs, {i \in DOMAIN hs : Eligible(hs[i]) /\ hs[i].row \in {0, n}})

Project(p) ==
  /\ rows' = p.rows
  /\ handoffs' = p.handoffs

-----------------------------------------------------------------------------
(* Consultations. *)

(* ConsultationRepository.request: a row that waits is kept, else a new one *)
(* is inserted.  Its RuntimeError on a row in progress is unreachable       *)
(* (InquiryWorkflow, NoRuntimeError).                                       *)
Requested ==
  IF rows # << >> /\ rows[Len(rows)].status = "WAITING" THEN rows
  ELSE Append(rows, [status |-> "WAITING", asked |-> FALSE, summary |-> 0])

\* Mutant: the new consultation is not given a handoff.
RequestAndAttachNothing ==
  LET n == Len(Requested)
  IN  /\ n <= MaxRows
      /\ rows' = [Requested EXCEPT ![n].asked = TRUE]
      /\ UNCHANGED handoffs

\* request, then attach to the row it returned.
RequestAndAttach ==
  LET n == Len(Requested)
  IN  /\ n <= MaxRows
      /\ Project(Attach([Requested EXCEPT ![n].asked = TRUE], handoffs, n,
                        Candidate(handoffs, n)))

\* Callers that do not attach: a detected danger, a resumed consultation.
RequestOnly ==
  /\ Len(Requested) <= MaxRows
  /\ rows' = Requested
  /\ UNCHANGED handoffs

\* ConsultationRequestService.execute
RequestConsultation ==
  /\ Transit("REQUEST_CONSULTATION")
  /\ RequestAndAttach
  /\ UNCHANGED <<run, clock, applied, review, note, post>>

\* ConsultationService.start: takes the waiting row or inserts one.
StartConsultation ==
  LET n == Len(Requested)
  IN  /\ Transit("START_CONSULTATION")
      /\ n <= MaxRows
      /\ rows' = [Requested EXCEPT ![n].status = "IN_PROGRESS"]
      /\ UNCHANGED <<run, clock, applied, review, note, post, handoffs>>

CompleteConsultation ==
  /\ rows # << >>
  /\ Transit("CONSULTATION_COMPLETED")
  /\ rows' = [rows EXCEPT ![Len(rows)].status = "COMPLETED"]
  /\ UNCHANGED <<run, clock, applied, review, note, post, handoffs>>

ReportUnresolved ==
  /\ Transit("CUSTOMER_REPORTED_UNRESOLVED")
  /\ UNCHANGED <<rows, run, clock, applied, review, note, post, handoffs>>

ResumeConsultation ==
  /\ Transit("RESUME_CONSULTATION")
  /\ RequestOnly
  /\ UNCHANGED <<run, clock, applied, review, note, post>>

-----------------------------------------------------------------------------
(* AI runs. *)

SubmitAnswers ==
  /\ Transit("SUBMIT_ANSWERS")
  /\ UNCHANGED <<rows, run, clock, applied, review, note, post, handoffs>>

\* The callback creates the run of the version it read.
StartRun(q) ==
  /\ status = QIP
  /\ run[q].status = NONE
  /\ run' = [run EXCEPT ![q].status = "RUNNING", ![q].version = version]
  /\ UNCHANGED <<inquiry, rows, clock, applied, review, note, post, handoffs>>

(* The AI service answers, perhaps after the Backend gave up, and, when the *)
(* answer is a handoff's, schedules its delivery to run after the response. *)
AIAnswers(q, a) ==
  /\ run[q].status \in {"RUNNING"} \cup Invalid
  /\ run[q].result = NONE
  /\ run' = [run EXCEPT ![q].result = a.result]
  /\ note' = [note EXCEPT ![q] = a.note]
  /\ post' = [post EXCEPT ![q] = IF a.note = NONE THEN NONE ELSE "first"]
  /\ UNCHANGED <<inquiry, rows, clock, applied, review, handoffs>>

\* _mark_succeeded, committed before the result itself is saved.
MarkSucceeded(q) ==
  /\ run[q].status = "RUNNING"
  /\ run[q].result # NONE
  /\ run' = [run EXCEPT ![q].status = "PERSISTING", ![q].done = clock + 1]
  /\ clock' = clock + 1
  /\ UNCHANGED <<inquiry, rows, applied, review, note, post, handoffs>>

\* _mark_failed: no answer, or none the Backend could read.
MarkFailed(q) ==
  /\ run[q].status = "RUNNING"
  /\ run' = [run EXCEPT ![q].status = "FAILING", ![q].done = clock + 1]
  /\ clock' = clock + 1
  /\ UNCHANGED <<inquiry, rows, applied, review, note, post, handoffs>>

\* _apply_timeout_event and _apply_unusable_ai_failure_event
ApplyFailure(q) ==
  /\ run[q].status = "FAILING"
  /\ run' = [run EXCEPT ![q].status = "FAILED"]
  /\ \/ /\ version # run[q].version \/ status # QIP
        /\ UNCHANGED <<inquiry, applied>>
     \/ /\ version = run[q].version
        /\ \E e \in {"NO_EVIDENCE", "AI_PROCESSING_TIMEOUT"} :
             /\ Transit(e)
             /\ applied' = [applied EXCEPT ![q] = e]
  /\ UNCHANGED <<rows, clock, review, note, post, handoffs>>

\* status_code of a run whose result is valid, as MarkSucceeded wrote it.
DoneStatus(q) ==
  IF run[q].result = "no_evidence" THEN "NO_EVIDENCE" ELSE "SUCCEEDED"

\* The events _apply_event_if_allowed may settle on.
Events(q) ==
  CASE run[q].result = "danger"      -> {"DANGER_DETECTED"}
    [] run[q].result = "no_evidence" -> {"NO_EVIDENCE"}
    [] run[q].result = "fallback"    -> {"NO_EVIDENCE", NONE}
    [] run[q].result = "safe"        -> {"SAFE_GUIDANCE_READY"}
    [] OTHER                         -> {NONE}

(* _persist_validated_result: the event of a current result is applied; a   *)
(* danger opens a consultation, a cautious result waits for its review.     *)
Persist(q) ==
  /\ run[q].status = "PERSISTING"
  /\ run' = [run EXCEPT ![q].status = DoneStatus(q)]
  /\ \/ /\ version # run[q].version \/ status # QIP
        /\ UNCHANGED <<inquiry, rows, applied, review, handoffs>>
     \/ /\ version = run[q].version
        /\ NONE \in Events(q)
        /\ review' = [review EXCEPT ![q] =
                        IF run[q].result = "caution" THEN "PENDING" ELSE @]
        /\ UNCHANGED <<inquiry, rows, applied, handoffs>>
     \/ /\ version = run[q].version
        /\ \E e \in Events(q) \ {NONE} :
             /\ Transit(e)
             /\ applied' = [applied EXCEPT ![q] = e]
             /\ IF e = "DANGER_DETECTED" THEN RequestOnly
                                         ELSE UNCHANGED <<rows, handoffs>>
        /\ UNCHANGED review
  /\ UNCHANGED <<clock, note, post>>

(* HumanReviewService.decide(REJECT) and, once ResumeDispatch has reached   *)
(* the AI service, the handoff of the resumed review.                       *)
RejectReview(q) ==
  /\ review[q] = "PENDING"
  /\ version = run[q].version
  /\ Transit("HUMAN_REVIEW_REJECTED")
  /\ RequestAndAttach
  /\ review' = [review EXCEPT ![q] = "REJECTED"]
  /\ UNCHANGED <<run, clock, applied, note, post>>

ResumeReview(q) ==
  /\ review[q] = "REJECTED"
  /\ note[q] = NONE
  /\ note' = [note EXCEPT ![q] = "HUMAN_REVIEW_REJECTED"]
  /\ post' = [post EXCEPT ![q] = "first"]
  /\ UNCHANGED <<inquiry, rows, run, clock, applied, review, handoffs>>

-----------------------------------------------------------------------------
(* Delivery: publish_consultation_handoff and ConsultationHandoffService. *)

\* The run is final for _lock_v2_ai_run once its first transaction commits.
Ready(q) == run[q].status \in Valid \cup Invalid

(* _validate_v2_route_authority: a valid output, and the transition or the  *)
(* review the reason claims.                                                *)
Authorised(q) ==
  /\ run[q].status \in Valid
  /\ note[q] = "DANGER_HANDOFF" => applied[q] = "DANGER_DETECTED"
  /\ note[q] = "NO_EVIDENCE" => applied[q] = "NO_EVIDENCE"
  /\ note[q] = "HUMAN_REVIEW_REJECTED" => review[q] = "REJECTED"

Existing(q) == {i \in DOMAIN handoffs : handoffs[i].request = q}

InFlight(q) == post[q] \in {"first", "second"}

\* After a failed attempt: again once if it may be retried, or never.
Retry(q) ==
  post' = [post EXCEPT ![q] = IF @ = "first" THEN "second" ELSE "FAILED"]

\* The response arrives, or it does not and the client tries again.
Accepted(q) ==
  \/ post' = [post EXCEPT ![q] = "DELIVERED"]
  \/ Retry(q)

\* The request does not reach the Backend.
PostLost(q) ==
  /\ InFlight(q)
  /\ Retry(q)
  /\ UNCHANGED <<inquiry, rows, run, clock, applied, review, note, handoffs>>

\* persist of a handoff that is stored already: only answered again.
Replay(q) ==
  /\ InFlight(q)
  /\ Existing(q) # {}
  /\ Accepted(q)
  /\ UNCHANGED <<inquiry, rows, run, clock, applied, review, note, handoffs>>

\* AI_HANDOFF_NOT_READY
NotReady(q) ==
  /\ InFlight(q)
  /\ Existing(q) = {}
  /\ ~Ready(q)
  /\ Retry(q)
  /\ UNCHANGED <<inquiry, rows, run, clock, applied, review, note, handoffs>>

\* AI_HANDOFF_STALE is never retried.
Stale(q) ==
  /\ InFlight(q)
  /\ Existing(q) = {}
  /\ Ready(q)
  /\ ~Authorised(q)
  /\ post' = [post EXCEPT ![q] = "STALE"]
  /\ UNCHANGED <<inquiry, rows, run, clock, applied, review, note, handoffs>>

\* Mutant: a handoff is inserted without a look for the one of its request.
StoreTwice(q) ==
  LET hs == Append(handoffs, [request |-> q, note |-> note[q], row |-> 0])
  IN  /\ InFlight(q)
      /\ Ready(q)
      /\ Authorised(q)
      /\ Project(Attach(rows, hs, LatestOpen(rows), Len(hs)))
      /\ Accepted(q)
      /\ UNCHANGED <<inquiry, run, clock, applied, review, note>>

\* persist of a new handoff: stored, and shown where it is the best.
Store(q) ==
  LET hs == Append(handoffs, [request |-> q, note |-> note[q], row |-> 0])
  IN  /\ InFlight(q)
      /\ Existing(q) = {}
      /\ Ready(q)
      /\ Authorised(q)
      /\ Project(Attach(rows, hs, LatestOpen(rows), Len(hs)))
      /\ Accepted(q)
      /\ UNCHANGED <<inquiry, run, clock, applied, review, note>>

Next ==
  \/ RequestConsultation
  \/ StartConsultation
  \/ CompleteConsultation
  \/ ReportUnresolved
  \/ ResumeConsultation
  \/ SubmitAnswers
  \/ \E q \in Requests :
       \/ StartRun(q)
       \/ \E a \in Answers : AIAnswers(q, a)
       \/ MarkSucceeded(q)
       \/ MarkFailed(q)
       \/ ApplyFailure(q)
       \/ Persist(q)
       \/ RejectReview(q)
       \/ ResumeReview(q)
       \/ PostLost(q)
       \/ Replay(q)
       \/ NotReady(q)
       \/ Stale(q)
       \/ Store(q)

Spec == Init /\ [][Next]_vars

-----------------------------------------------------------------------------
(* Properties. *)

(* Whatever the order of arrival, a consultation shows the best of the      *)
(* handoffs attached to it, an older one that came late included, and never *)
(* one that is for the ledger only.                                         *)
ShowsBestAttached ==
  \A n \in DOMAIN rows :
    /\ rows[n].summary = Best(handoffs, Shown(handoffs, n))
    /\ \A i \in Shown(handoffs, n) : Eligible(handoffs[i])

\* No handoff that may be shown at all outranks the summary of row n.
Newest(n) ==
  \A j \in DOMAIN handoffs \ {rows[n].summary} :
    Eligible(handoffs[j]) => Outranks(handoffs, rows[n].summary, j)

(* As long as an inquiry has one consultation, asked for by the customer or *)
(* by a rejected review, what it shows does not depend on the order of      *)
(* arrival: the newest of all handoffs stored before or after it, and       *)
(* nothing only if there is none.                                           *)
FirstShowsNewest ==
  LatestOpen(rows) = 1 /\ rows[1].asked =>
    IF rows[1].summary # 0 THEN Newest(1)
    ELSE \A i \in DOMAIN handoffs : ~Eligible(handoffs[i])

(* The integration guide says it of every consultation: a handoff that came *)
(* first is kept, and "when the customer's request creates a Consultation   *)
(* the newest Handoff is connected in the same Transaction".  A request     *)
(* never gives its consultation a handoff when a newer one is stored.       *)
RequestConnectsNewest ==
  [][\A n \in DOMAIN rows' :
       /\ rows'[n].asked
       /\ n \in DOMAIN rows => ~rows[n].asked
       /\ rows'[n].summary # 0
       => Newest(n)']_vars

(* "A past handoff does not overwrite": the summary a consultant reads is   *)
(* only ever replaced by one made from the same or from later answers of    *)
(* the customer, and never taken away.                                      *)
NeverDowngraded ==
  [][\A n \in DOMAIN rows :
       LET old == rows[n].summary
           new == rows'[n].summary
       IN  old # 0 =>
             /\ new # 0
             /\ run[handoffs'[new].request].version
                  >= run[handoffs[old].request].version]_vars

(* A lost answer, a retry or a replay never stores a second handoff, and    *)
(* the publisher reports a delivery only of a stored one.                   *)
StoredOnce ==
  \A q \in Requests :
    /\ Cardinality(Existing(q)) <= 1
    /\ post[q] = "DELIVERED" => Existing(q) # {}

(* AI_HANDOFF_STALE, which the client must not retry, means an old version  *)
(* or a lost authority: a handoff refused so would be refused ever after.   *)
StaleIsLasting ==
  \A q \in Requests : post[q] = "STALE" => ~Authorised(q)
=============================================================================
