------------------------------ MODULE AIService ------------------------------
(* POST /analyze of the AI service with the single RAG pipeline over MCP.    *)
(* A request takes one of a bounded number of worker slots and runs the      *)
(* pipeline in a thread; the handler waits for it up to the overall timeout. *)
(* A thread cannot be interrupted: the timeout sets the cancellation token,  *)
(* which the thread reads at the next stage boundary, and the slot stays     *)
(* taken until then.  The reliability harness verifies what the pipeline     *)
(* produced, repeats the retrieval at most once and, when it gives up, makes *)
(* a handoff that the Backend has to match with the answer it was given.     *)
(* Chunks are told apart by the retrieval attempt that found them.           *)
EXTENDS Naturals, FiniteSets

CONSTANTS
  Requests,   \* calls of /analyze
  Limit       \* AI_MAX_IN_FLIGHT_WORKERS

ASSUME AIServiceAssumption == Limit \in 1 .. 32 /\ IsFiniteSet(Requests)

VARIABLES
  slots,    \* free worker slots
  http,     \* the handler of each request
  token,    \* its cancellation token is set
  thread,   \* the stage its worker thread is in
  ctx,      \* its pipeline context with the state of the harness
  result    \* what its thread returned or raised, while the handler waits

vars == <<slots, http, token, thread, ctx, result>>

NONE == "NONE"
MaxRetrievalRetries == 1

Stages == {"ASSESS", "RETRIEVE", "GENERATE", "VERIFY"}
Handlers == {NONE, "WAITING", "ANSWERED", "BUSY", "TIMEOUT", "GONE"}
Risks == {"general", "caution", "danger"}
Faults == {NONE, "OK", "STAGE_TIMEOUT", "CANCELLED", "FAILED"}

\* A guidance (STOP: the stop a danger asks for) and the attempt it is from.
Guidance(s, n) == [status |-> s, from |-> n]
NoGuidance == Guidance(NONE, 0)

(* approved: product.runtime_approved.  asks: questions of low importance   *)
(* are left.  input: awaiting_customer_input, with questions or without.    *)
(* evidence: attempt that found evidence_references, 0 for none.            *)
(* captured and rejected: the guarded search since begin_attempt.           *)
(* tool: a failed MCP tool; late: a stage of the retry ran out of time.     *)
NewContext(p) ==
  [approved |-> p, risk |-> NONE, asks |-> FALSE, input |-> NONE,
   evidence |-> 0, outcome |-> NONE, guidance |-> NoGuidance,
   captured |-> 0, rejected |-> {}, tool |-> NONE, late |-> FALSE,
   retries |-> 0]

NoResult == [fault |-> NONE]

TypeOK ==
  /\ slots \in 0 .. Limit
  /\ http \in [Requests -> Handlers]
  /\ token \in [Requests -> BOOLEAN]
  /\ thread \in [Requests -> Stages \cup {NONE, "ENDED", "RELEASED"}]
  /\ \A q \in Requests :
       /\ result[q].fault \in Faults
       /\ ctx[q].retries \in 0 .. MaxRetrievalRetries
       /\ ctx[q].evidence \in 0 .. 1 + ctx[q].retries
       /\ ctx[q].guidance.from \in 0 .. 1 + ctx[q].retries

Init ==
  /\ slots = Limit
  /\ http = [q \in Requests |-> NONE]
  /\ token = [q \in Requests |-> FALSE]
  /\ thread = [q \in Requests |-> NONE]
  /\ ctx = [q \in Requests |-> NewContext(TRUE)]
  /\ result = [q \in Requests |-> NoResult]

-----------------------------------------------------------------------------
(* The handler: analyze_symptom. *)

\* A slot is taken without waiting and the thread started.
Admit(q) ==
  /\ http[q] = NONE
  /\ slots > 0
  /\ slots' = slots - 1
  /\ http' = [http EXCEPT ![q] = "WAITING"]
  /\ thread' = [thread EXCEPT ![q] = "ASSESS"]
  /\ \E p \in BOOLEAN : ctx' = [ctx EXCEPT ![q] = NewContext(p)]
  /\ UNCHANGED <<token, result>>

\* No slot is free: 503, retryable.
Refuse(q) ==
  /\ http[q] = NONE
  /\ slots = 0
  /\ http' = [http EXCEPT ![q] = "BUSY"]
  /\ UNCHANGED <<slots, token, thread, ctx, result>>

\* Mutant: the handler that gives up frees the slot of its thread.
TimeOutReleases(q) ==
  /\ http[q] = "WAITING"
  /\ http' = [http EXCEPT ![q] = "TIMEOUT"]
  /\ token' = [token EXCEPT ![q] = TRUE]
  /\ result' = [result EXCEPT ![q] = NoResult]
  /\ slots' = slots + 1
  /\ UNCHANGED <<thread, ctx>>

(* wait_for gives up: 504, and the shielded thread only learns of it.  The  *)
(* loop may run the timer before the completion of a thread that has ended. *)
TimeOut(q) ==
  /\ http[q] = "WAITING"
  /\ http' = [http EXCEPT ![q] = "TIMEOUT"]
  /\ token' = [token EXCEPT ![q] = TRUE]
  /\ result' = [result EXCEPT ![q] = NoResult]
  /\ UNCHANGED <<slots, thread, ctx>>

\* The handler itself is cancelled: the token stays as it is.
Abandon(q) ==
  /\ http[q] = "WAITING"
  /\ http' = [http EXCEPT ![q] = "GONE"]
  /\ result' = [result EXCEPT ![q] = NoResult]
  /\ UNCHANGED <<slots, token, thread, ctx>>

(* The thread is done and the handler answers, with the result or with the  *)
(* error for what was raised.  A stage timeout sets the token as well.  The *)
(* handoff of a result is queued to be posted after the answer.             *)
Answer(q) ==
  /\ http[q] = "WAITING"
  /\ thread[q] \in {"ENDED", "RELEASED"}
  /\ http' = [http EXCEPT ![q] = "ANSWERED"]
  /\ token' = [token EXCEPT ![q] = @ \/ result[q].fault = "STAGE_TIMEOUT"]
  /\ result' = [result EXCEPT ![q] = NoResult]
  /\ UNCHANGED <<slots, thread, ctx>>

\* Mutant: only a thread whose handler still waits gives its slot back.
ReleaseWaited(q) ==
  /\ thread[q] = "ENDED"
  /\ http[q] = "WAITING"
  /\ thread' = [thread EXCEPT ![q] = "RELEASED"]
  /\ slots' = slots + 1
  /\ UNCHANGED <<http, token, ctx, result>>

\* _release_worker_slot, the done callback of the thread's task.
Release(q) ==
  /\ thread[q] = "ENDED"
  /\ thread' = [thread EXCEPT ![q] = "RELEASED"]
  /\ slots' = slots + 1
  /\ UNCHANGED <<http, token, ctx, result>>

-----------------------------------------------------------------------------
(* The thread: PipelineRouter.run_pipeline and its stages. *)

(* The context is gone with the thread, and the result too when the handler *)
(* has given up.                                                            *)
Finish(q, r) ==
  /\ thread' = [thread EXCEPT ![q] = "ENDED"]
  /\ ctx' = [ctx EXCEPT ![q] = NewContext(TRUE)]
  /\ result' = [result EXCEPT ![q] = IF http[q] = "WAITING" THEN r
                                     ELSE NoResult]
  /\ UNCHANGED <<slots, http, token>>

GoOn(q, stage, c) ==
  /\ thread' = [thread EXCEPT ![q] = stage]
  /\ ctx' = [ctx EXCEPT ![q] = c]
  /\ UNCHANGED <<slots, http, token, result>>

At(q, stage) == thread[q] = stage /\ ~token[q]

\* raise_if_cancelled at a stage boundary.
NoticeCancel(q) ==
  /\ thread[q] \in Stages \ {"VERIFY"}
  /\ token[q]
  /\ Finish(q, [fault |-> "CANCELLED"])

\* MCP could not give the Backend's context: no search, no model call.
ContextFails(q) ==
  /\ At(q, "ASSESS")
  /\ \E r \in Risks :
       GoOn(q, "VERIFY", [ctx[q] EXCEPT !.risk = r, !.tool = "context"])

\* Structuring and safety find a danger: straight to the fixed guidance.
AssessDanger(q) ==
  /\ At(q, "ASSESS")
  /\ GoOn(q, "GENERATE", [ctx[q] EXCEPT !.risk = "danger"])

(* Required fields are missing: the questionnaire_pending stage asks, or    *)
(* gives up on a field that was answered and still cannot be confirmed.     *)
AwaitCustomer(q) ==
  /\ At(q, "ASSESS")
  /\ \E i \in {"asked", "unconfirmed"} :
       GoOn(q, "VERIFY",
            [ctx[q] EXCEPT !.risk = "caution", !.input = i,
                           !.guidance = Guidance("PENDING", 0)])

AssessComplete(q) ==
  /\ At(q, "ASSESS")
  /\ \E r \in Risks \ {"danger"}, a \in BOOLEAN :
       GoOn(q, "RETRIEVE", [ctx[q] EXCEPT !.risk = r, !.asks = a])

\* A repeated retrieval only goes on to a generation when it found evidence.
AfterSearch(c) ==
  IF c.retries > 0 /\ c.evidence = 0 THEN "VERIFY" ELSE "GENERATE"

(* The guarded search forwards the chunks of the product's model that are   *)
(* verified, and keeps the others; an unapproved product is not searched.   *)
Search(q) ==
  /\ At(q, "RETRIEVE")
  /\ \E found \in BOOLEAN, bad \in SUBSET {"WRONG_MODEL", "UNVERIFIED"} :
       LET n == 1 + ctx[q].retries
           k == IF found /\ ctx[q].approved THEN n ELSE 0
           c == [ctx[q] EXCEPT
                   !.evidence = k,
                   !.captured = k,
                   !.rejected = IF ctx[q].approved THEN bad ELSE {},
                   !.outcome = IF k > 0 THEN "AVAILABLE" ELSE "NO_MATCH"]
       IN  GoOn(q, AfterSearch(c), c)

(* An MCP search tool error goes to the harness.  In the first retrieval it *)
(* leaves the pipeline, in a repeated one the runtime's loop.               *)
SearchToolFails(q) ==
  /\ At(q, "RETRIEVE")
  /\ \E t \in {"search", "search_final"} :
       GoOn(q, "VERIFY", [ctx[q] EXCEPT !.tool = t])

\* Mutant: a repeated retrieval keeps the guidance it already has.
GenerateOnce(q) ==
  /\ At(q, "GENERATE")
  /\ LET c == ctx[q]
     IN  GoOn(q, "VERIFY",
              CASE c.risk = "danger" ->
                     [c EXCEPT !.guidance = Guidance("STOP", 0)]
                [] c.risk # "danger" /\ c.evidence = 0 ->
                     [c EXCEPT !.guidance = Guidance("PENDING", 0),
                               !.risk = "caution"]
                [] OTHER ->
                     IF c.guidance.from # 0 THEN c
                     ELSE [c EXCEPT !.guidance =
                             Guidance(IF c.risk = "general" THEN "NORMAL"
                                      ELSE "PARTIAL_STOP", c.evidence)])

(* Generation and validation: a fixed guidance for a danger or without      *)
(* evidence, else one the model writes from the references of the context.  *)
Generate(q) ==
  /\ At(q, "GENERATE")
  /\ LET c == ctx[q]
     IN  GoOn(q, "VERIFY",
              CASE c.risk = "danger" ->
                     [c EXCEPT !.guidance = Guidance("STOP", 0)]
                [] c.risk # "danger" /\ c.evidence = 0 ->
                     [c EXCEPT !.guidance = Guidance("PENDING", 0),
                               !.risk = "caution"]
                [] OTHER ->
                     [c EXCEPT !.guidance =
                        Guidance(IF c.risk = "general" THEN "NORMAL"
                                 ELSE "PARTIAL_STOP", c.evidence)])

(* The configuration, the index, a provider or the validation of a guidance *)
(* fails; a search and a model call were repeated once where that helps.    *)
StageFails(q) ==
  /\ thread[q] \in Stages \ {"VERIFY"}
  /\ ~token[q]
  /\ Finish(q, [fault |-> "FAILED"])

\* A stage passes its deadline: an error, except in a repeated retrieval.
StageTimesOut(q) ==
  /\ thread[q] \in Stages \ {"VERIFY"}
  /\ ~token[q]
  /\ IF ctx[q].retries = 0
     THEN Finish(q, [fault |-> "STAGE_TIMEOUT"])
     ELSE GoOn(q, "VERIFY", [ctx[q] EXCEPT !.late = TRUE])

-----------------------------------------------------------------------------
(* The harness: ReliabilityRuntime, HarnessRunner and HarnessVerifier. *)

Required(c) == c.input = NONE /\ c.risk # "danger"

\* The references that the guarded search of this attempt forwarded.
Accepted(c) == IF c.evidence = c.captured THEN c.evidence ELSE 0

\* accepted_evidence_chunk_ids: early verdicts accept nothing.
Verified(c) ==
  IF c.late \/ ~c.approved \/ c.tool # NONE THEN 0 ELSE Accepted(c)

Issues(c) ==
  CASE c.late -> {"AI_PROCESSING_TIMEOUT"}
    [] ~c.late /\ ~c.approved -> {"RUNTIME_PRODUCT_NOT_APPROVED"}
    [] ~c.late /\ c.approved /\ c.tool # NONE -> {"MCP_TOOL_FAILURE"}
    [] OTHER ->
         c.rejected
           \cup {i \in {"NO_EVIDENCE"} : Required(c) /\ Accepted(c) = 0}
           \cup {i \in {"OUTPUT_SCHEMA_INVALID"} : c.guidance.status = NONE}

(* verify: a clean search without a hit is final, a contaminated one may be *)
(* repeated.  A missing guidance would ask for a generation; a context      *)
(* that gets that far always has one.                                       *)
Verdict(c) ==
  CASE c.late \/ ~c.approved -> "ESCALATE"
    [] ~c.late /\ c.approved /\ c.tool # NONE ->
         IF c.tool = "search" THEN "RETRY" ELSE "ESCALATE"
    [] OTHER ->
         IF Required(c) /\ Accepted(c) = 0 /\ c.rejected = {} THEN "ESCALATE"
         ELSE IF /\ Required(c)
                 /\ Accepted(c) = 0 \/ "WRONG_MODEL" \in c.rejected
              THEN "RETRY"
         ELSE "PASS"

\* HarnessRetryPolicy.apply.
Exhausted(c) == Verdict(c) = "RETRY" /\ c.retries >= MaxRetrievalRetries

\* Another round of the runtime's loop: begin_attempt and the retrieval.
Retry(q) ==
  /\ thread[q] = "VERIFY"
  /\ Verdict(ctx[q]) = "RETRY"
  /\ ~Exhausted(ctx[q])
  /\ GoOn(q, "RETRIEVE",
          [ctx[q] EXCEPT !.retries = @ + 1, !.tool = NONE,
                         !.captured = 0, !.rejected = {}])

\* _route_final: an escalation blocks the guidance and what was not accepted.
Blocked(c) ==
  [c EXCEPT
     !.guidance = Guidance(IF c.risk = "danger" THEN "STOP"
                           ELSE "PENDING", 0),
     !.evidence = IF Verified(c) = 0 THEN 0 ELSE @,
     !.outcome = IF Verified(c) = 0 /\ @ = "AVAILABLE" THEN "NO_MATCH" ELSE @]

\* The first of the reasons, in their order of precedence, among the issues.
FirstReason(issues) ==
  IF "RUNTIME_PRODUCT_NOT_APPROVED" \in issues
  THEN "RUNTIME_PRODUCT_NOT_APPROVED"
  ELSE IF "MCP_TOOL_FAILURE" \in issues THEN "MCP_TOOL_FAILURE"
  ELSE IF "OUTPUT_SCHEMA_INVALID" \in issues THEN "OUTPUT_SCHEMA_INVALID"
  ELSE IF "NO_EVIDENCE" \in issues THEN "NO_EVIDENCE" ELSE NONE

\* is_no_evidence_fallback and _uses_retrieving_failure_stage.
FoundNothing(f) ==
  /\ f.outcome = "NO_MATCH"
  /\ f.evidence = 0
  /\ f.input = NONE
  /\ f.guidance.status = "PENDING"

\* PipelineResult.to_analysis_result, before the routing policy.
PublicReason(c, f, escalated) ==
  LET first == FirstReason(Issues(c))
  IN  CASE first # NONE -> first
        [] first = NONE /\ FoundNothing(f) -> "NO_EVIDENCE"
        [] OTHER -> IF escalated \/ f.input = "unconfirmed"
                    THEN "UNSPECIFIED_FALLBACK" ELSE NONE

PublicStage(f, escalated) ==
  CASE FoundNothing(f) -> "RETRIEVING"
    [] ~FoundNothing(f) /\ escalated -> "VALIDATING"
    [] OTHER -> IF f.input = "unconfirmed"
                THEN "CHECKING_MISSING_FIELDS" ELSE NONE

\* ResponseRoutingPolicy.apply to a success.
Disposition(f) ==
  CASE f.risk = "danger" -> "DANGER_HANDOFF"
    [] f.risk # "danger" /\ f.input = "asked" -> "CUSTOMER_INPUT_PENDING"
    [] f.risk = "caution" /\ f.input = NONE /\ f.evidence # 0
         /\ f.guidance.status = "PARTIAL_STOP" -> "PRE_SEND_HUMAN_REVIEW"
    [] f.risk = "general" /\ f.input # "asked" /\ f.evidence # 0
         /\ ~f.asks -> "AUTO_GUIDANCE"
    [] OTHER -> "INVALID"

Fallback(reason, stage, f) ==
  [status |-> "FALLBACK", reason |-> reason, stage |-> stage,
   route |-> "FAIL_CLOSED_CONSULTATION",
   guidance |-> IF f.risk = "danger" THEN f.guidance
                ELSE Guidance("PENDING", 0),
   evidence |-> f.evidence]

Public(c, f, escalated) ==
  LET stage == PublicStage(f, escalated)
  IN  CASE stage # NONE -> Fallback(PublicReason(c, f, escalated), stage, f)
        [] stage = NONE /\ Disposition(f) = "INVALID" ->
             Fallback("OUTPUT_SCHEMA_INVALID", "VALIDATING",
                      [f EXCEPT !.evidence = 0])
        [] OTHER -> [status |-> "SUCCEEDED", reason |-> NONE, stage |-> NONE,
                     route |-> Disposition(f), guidance |-> f.guidance,
                     evidence |-> f.evidence]

\* _canonical_escalation_reason with _exhausted_error_code.
EscalationReason(c) ==
  LET first == FirstReason(Issues(c))
  IN  CASE c.late -> "AI_PROCESSING_TIMEOUT"
        [] ~c.late /\ first # NONE -> first
        [] OTHER -> IF Exhausted(c) THEN "NO_EVIDENCE"
                    ELSE "UNSPECIFIED_FALLBACK"

\* _create_handoff with _context_routing_reason.
Note(reason, f) ==
  [reason |-> reason,
   route |-> CASE reason \in {"RUNTIME_PRODUCT_NOT_APPROVED",
                              "AI_PROCESSING_TIMEOUT"} ->
                    "FAIL_CLOSED_CONSULTATION"
               [] OTHER -> IF f.risk = "danger" THEN "DANGER_HANDOFF"
                           ELSE IF reason = "NO_EVIDENCE" \/ FoundNothing(f)
                                THEN "FAIL_CLOSED_CONSULTATION"
                           ELSE "HARNESS_ESCALATE"]

NoNote == [reason |-> NONE, route |-> NONE]

\* The result, with the evidence the harness accepted and rejected.
Return(q, f, escalated, note) ==
  Finish(q, [fault |-> "OK", public |-> Public(ctx[q], f, escalated),
             note |-> note, accepted |-> Verified(ctx[q]),
             rejected |-> ctx[q].rejected])

\* The harness passes what the pipeline made; a danger is handed over too.
Pass(q) ==
  /\ thread[q] = "VERIFY"
  /\ Verdict(ctx[q]) = "PASS"
  /\ Return(q, ctx[q], FALSE,
            IF ctx[q].risk = "danger" THEN Note("DANGER_PRIORITY", ctx[q])
            ELSE NoNote)

\* The harness gives up.
Escalate(q) ==
  /\ thread[q] = "VERIFY"
  /\ Verdict(ctx[q]) = "ESCALATE" \/ Exhausted(ctx[q])
  /\ LET f == Blocked(ctx[q])
     IN  Return(q, f, TRUE, Note(EscalationReason(ctx[q]), f))

Work(q) ==
  \/ ContextFails(q)
  \/ AssessDanger(q)
  \/ AwaitCustomer(q)
  \/ AssessComplete(q)
  \/ Search(q)
  \/ SearchToolFails(q)
  \/ Generate(q)
  \/ StageFails(q)
  \/ StageTimesOut(q)
  \/ NoticeCancel(q)
  \/ Retry(q)
  \/ Pass(q)
  \/ Escalate(q)

Next ==
  \E q \in Requests :
    \/ Admit(q)
    \/ Refuse(q)
    \/ TimeOut(q)
    \/ Abandon(q)
    \/ Answer(q)
    \/ Release(q)
    \/ Work(q)

Spec == Init /\ [][Next]_vars

(* A thread's stages are bounded by their deadlines and by the timeouts of  *)
(* the calls they make; the event loop runs its callbacks.                  *)
FairSpec ==
  /\ Spec
  /\ \A q \in Requests : WF_vars(Work(q)) /\ WF_vars(Release(q))
                         /\ WF_vars(Answer(q))

-----------------------------------------------------------------------------
(* Properties. *)

Alive(q) == thread[q] \in Stages \cup {"ENDED"}

(* Threads that were started and still run, those of handlers that gave up  *)
(* included, and the free slots always add up to the configured limit: no   *)
(* timeout, error or cancelled handler leaks a slot or frees it twice.      *)
SlotsAccounted ==
  slots + Cardinality({q \in Requests : Alive(q)}) = Limit

(* A guidance that goes to a customer, at once or after review, was written *)
(* from the very evidence the answer cites, and that evidence was accepted  *)
(* by the last verification: nothing of an attempt that was thrown away,    *)
(* of a mismatched search or of an interrupted retry survives in it.        *)
GuidanceGrounded ==
  \A q \in Requests :
    result[q].fault = "OK" =>
      LET p == result[q].public
      IN  p.route \in {"AUTO_GUIDANCE", "PRE_SEND_HUMAN_REVIEW"} =>
            /\ p.evidence # 0
            /\ p.guidance.from = p.evidence
            /\ result[q].accepted = p.evidence
            /\ "WRONG_MODEL" \notin result[q].rejected

HarnessReasons ==
  {"MCP_TOOL_FAILURE", "OUTPUT_SCHEMA_INVALID", "UNSPECIFIED_FALLBACK"}

(* What _validate_v2_route_authority asks of the run that has this answer.  *)
(* The run of an answer is not TIMED_OUT, which alone would bear out        *)
(* AI_PROCESSING_TIMEOUT.                                                   *)
Binds(p, n) ==
  CASE n.route = "DANGER_HANDOFF" ->
         p.guidance.status = "STOP"
    [] n.route = "HARNESS_ESCALATE" ->
         /\ p.reason \in HarnessReasons
         /\ p.stage = "VALIDATING"
         /\ n.reason = p.reason
    [] OTHER ->
         /\ n.route = "FAIL_CLOSED_CONSULTATION"
         /\ n.reason # "AI_PROCESSING_TIMEOUT"
         /\ n.reason = p.reason
         /\ ~(p.reason \in HarnessReasons /\ p.stage = "VALIDATING")
         /\ p.reason = "NO_EVIDENCE" => p.evidence = 0

(* _canonical_escalation_reason: "Return the exact reason Backend can bind  *)
(* to the authoritative AI run".  The Backend can match every handoff with  *)
(* the answer it was given.                                                 *)
HandoffBinds ==
  \A q \in Requests :
    result[q].fault = "OK" /\ result[q].note # NoNote =>
      Binds(result[q].public, result[q].note)

(* Every admitted request gives its slot back, whatever became of its       *)
(* handler, so a full service accepts requests again.                       *)
SlotsComeBack ==
  \A q \in Requests : http[q] = "WAITING" ~> thread[q] = "RELEASED"
=============================================================================
