# TLA+ verification of the WaterBridge backend

WaterBridge is a customer-care system for water purifiers. A customer opens an
*inquiry*; an AI service answers it or asks further questions; a consultant
takes over what the AI may not answer alone; a technician's visit may follow;
the customer confirms that the problem is solved and the consultant closes the
inquiry. The Django backend (`src/backend`) holds all authoritative state; the
AI service (`src/ai`), the web and the mobile clients talk to it over HTTP.

This project models the part of the backend that moves an inquiry, what it
exchanges with the AI service, the AI service's own request handling, and the
accounts of its customers. It checks the models with TLC on small instances,
and proves with TLAPS, for every value of the constants, every safety property
that the passing runs check.

## Inventory

| Component | State | Operations | Hard behaviour | What makes it correct |
|---|---|---|---|---|
| Transition engine (`apps/workflow/engine`, `contracts/state-machine`) | none: tables | `resolve(snapshot, event)` | 42 rules in YAML, consistent only by care | an event matches at most one rule; a visit is not lost; the services do nothing beside it |
| Inquiry services (`apps/inquiries/services`) | inquiry row: status, `state_version`, assignee; confirmations; action results; history | create, phone registration, symptom, answers, action result, consultation request, claim, feedback, unresolved, resume, finalize, cancel | any client in any order; rounds that repeat after a reopening | closing needs a fresh confirmation; closed is final; history follows the state |
| Consultation services (`apps/consultations`) | consultation rows by sequence | request, claim, start, save, confirm, complete, cancel; reassign and on-behalf by a supervisor | services act on "the latest row" without looking at its status | the latest row fits the inquiry's state; one open row; completed rows do not move |
| Visit services (`apps/visits`) | visit row: status, technician, date | review, create, schedule, confirm, not needed | a schedule can be changed, and emptied, any number of times | a visit has a reason; a confirmed visit has technician and date |
| AI callback (`inquiry_ai_service.py`) | AI run rows, questions, guidance | analyse after commit, apply result, apply failure | unlocked reads, a 30 s call outside any transaction, cancel and answers meanwhile, lost processes | nothing is decided on stale answers; a cancel stops runs; runs settle |
| Human review (`human_review_service.py`) | review row | create pending, decide, resume after rejection | two pending reviews of one version; decisions racing answers | one decision per version, on all answers |
| Idempotent command (`apps/workflow/services`) | idempotency records, row locks | every POST | the same request twice at once, rivals on one version, a crash before commit | one effect per key, same story for everyone, no lost update |
| Row locks (all services) | PostgreSQL row locks | `SELECT ... FOR UPDATE` in several orders | circles of waits, joined rows locked as well | no path inverts another's order; not modelled |
| Resume dispatch (`human_review_resume_dispatch_service.py`) | one outbox row per rejected review | enqueue, claim, send, settle; a command for what is left | threads that die between two steps, an answer that is late, two pickers of one row | at most one resume; the row claims no more than is known; only a dead process leaves it open |
| Consultation handoff (`handoff_client.py`, `consultation_handoff_service.py`) | handoff rows, the summary a consultation shows | publish with one retry, persist, attach | posts lost or repeated, out of order, racing the callback's two transactions and the next round | stored once; the best attached one is shown; never an older one afterwards; a request connects the newest |
| Questionnaires | session, answers, link | start, save, submit, link | link once | one inquiry per session |
| One-time codes (`p1_auth_service.py`, `p1_auth_email_outbox_service.py`) | challenges, rate buckets, outbox rows | request, mail, verify | workers with `skip_locked`, a challenge read before it is locked, mail sent inside the transaction that records it | bounded mails, to the current contact; only the newest code counts; the outbox drains |
| Accounts and sessions (`p1_auth_service.py`, `authentication_service.py`, `account_lifecycle_service.py`) | account with `auth_version`, tickets, receipts, refresh tokens | sign up, reset, log in, refresh, log out, deactivate | looks without a lock before each transaction | one effect per ticket, key and version; no session outlives the credentials |
| AI service (`src/ai/app`) | worker slots, the context of each analysis | admit, assess, search, generate, verify, retry, answer, hand over | a thread outlives its handler; a retry over a half-filled context | slots neither lost nor freed twice; a guidance cites what it was written from; answer and handoff agree |
| Care, evidence import, subscriptions, allowed actions, web, mobile | reference data, projections, UI | reads, imports | none that interleaves with the above | not in scope |

How they interact: a client's command locks the inquiry row, asks the engine
for the rule, evaluates guards, inserts an idempotency record, writes its rows,
moves the version, writes history and commits. A symptom or an answer leaves an
`on_commit` callback that calls the AI service and comes back as a SYSTEM
event. A cautious result becomes a review that a consultant decides, which is
again an event of the engine. A rejection leaves an outbox row whose dispatch
calls the AI service a second time. Every answer that sends the customer to a
consultant, and every such resume, is followed by a handoff that the AI service
posts back in a background task, beside the callback that applies the answer.
Accounts meet inquiries only through the customer's identity.

## Modules

| Module | Models | State and actions |
|---|---|---|
| `StateMachine` | `state_machine.py` and its tables | no variables; `ResolveReason` has the checks of `resolve()` in their order, `Plan` is the rule it returns |
| `WorkflowEngine` | what the tables promise by themselves | state, visit, version; one action, any accepted event |
| `InquiryWorkflow` | all services that write an inquiry | the inquiry with its consultations, visit, confirmations and history; one action per service method, each one committed transaction |
| `InquiryWorkflowProofs` | | the inductive invariant and its theorems; `ContractKeepsVisit` about `WorkflowEngine`, and the refinement of it |
| `AIAnalysis` | `analyze_inquiry` and `decide` | one program counter per callback; each statement or transaction is a step |
| `AIAnalysisProofs` | | invariance, and the safety properties from it |
| `AtomicCommand` | what a client may expect of an idempotent command | requests, records, effects, replies; a command is one step |
| `IdempotentCommand` | `AssignedConsultantActionService.execute` and the services that repeat it | extends `AtomicCommand` with program counters, the row lock and the unique index; each statement is a step |
| `IdempotentCommandProofs` | | invariance, the safety properties from it, and the refinement |
| `ResumeDispatch` | the outbox of rejected reviews and both ends of its HTTP call | the row, a program counter per worker, calls on the wire and in the AI service; each transaction and each HTTP event is a step |
| `ResumeDispatchProofs` | | invariance, and the safety properties from it |
| `Handoff` | runs, reviews, consultations and handoffs of one inquiry | rows and the delivery of each handoff; extends `StateMachine`, whose rules decide every transition |
| `HandoffProofs` | | the rank of handoffs, invariance, and the safety properties from it |
| `OtpDelivery` | challenges, their outbox and the mail worker | rows, and a program counter per worker with the locks it holds |
| `OtpDeliveryProofs` | | invariance, and the safety properties from it |
| `AccountSessions` | one customer's account, tickets, receipts and refresh tokens | rows, and the calls that have taken their unlocked look |
| `AccountSessionsProofs` | | invariance, and the safety properties from it |
| `AIService` | `analysis_routes.py`, the pipeline and the harness | slots, handler, thread, cancellation token and context of each request; each stage is a step |
| `AIServiceProofs` | | invariance, and the safety properties from it |
| `MC...` | | instances for TLC |

Refinements: `InquiryWorkflow` implements `WorkflowEngine` with the mapping
`status`, `visit.status`, `version - attempts` (action results move the version
outside the contract). `IdempotentCommand` implements `AtomicCommand` with the
identity on its variables: the detailed module only adds the transaction.

What each model leaves out on purpose. `InquiryWorkflow` takes a service call
as one atomic step: the services hold the inquiry row from their first read to
the commit, and `IdempotentCommand` shows that this makes them atomic. The
supervisor's reassignment takes the inquiry row last, but no other path can
change the consultation it holds. Versions stand for time stamps, as both are
written under that lock. Texts are reduced to "there is one". Refused requests
are stuttering steps. In `AIAnalysis` the consultation rows, which danger
results and escalating decisions open, are left to `InquiryWorkflow`, and the
AI service is external: any contract-valid result, an error, a timeout or
silence. In `IdempotentCommand` all guards but the version are a free choice.

`ResumeDispatch` takes a review as rejected by `AIAnalysis`, and everything
that moves the inquiry afterwards as one action. The other way round, `Handoff`
takes the resume of a rejected review as one step that may never happen. In
`Handoff` each handler is atomic, since each locks the inquiry; the callback's
two transactions are two steps, and so are an answer and its post. Evidence
checks, the schema 1 of the endpoint and texts are left out. In `OtpDelivery`
codes are not values: a right code exists once its mail has left. Contacts,
contracts and accounts are one value that changes when no worker holds it. In
`AccountSessions` passwords are left out, as they change only together with
`auth_version`, and so are access tokens, whose version every request compares
with the account's. In
`AIService` evidence is the number of the attempt that found it, so a guidance
written from an attempt that was thrown away can be told from one that was not;
what a search, a model call or a tool returns is a choice. The single-flight
`run_once` of the AI service's resume endpoint appears only as "an accepted call
starts its operation": the Backend's rows alone keep it from running twice.

## Runs

| Run | Shows |
|---|---|
| `inquiry` | all services in every order, two consultants, two rounds: `LatestMatchesStatus`, `RowsPassChecks`, `ResolvedOnFreshConfirmation`, `VisitGrounded`, `TerminalIsFinal`, and that they implement the contract (`ImplementsEngine`) |
| `ai` | three overlapping callbacks with answers, a cancel, reviews and crashes: `DecidedOnAllAnswers`, `CancelStopsRuns`, `CancelledRunsStay`, `OneDecisionPerVersion`, `CurrentVersionAnalysed`, `GuidanceIsCleared`, and the liveness property `RunsSettle` |
| `command` | every interleaving of three attempts, two keys, two inquiries: `OneEffectPerKey`, `NoLostUpdate`, `RepliesAgree`, `ImplementsAtomic`, and under fairness `EveryAttemptEnds` |
| `resume` | two reviews, two workers that die, calls that are lost, refused, late or cut by a restart: `ResumedAtMostOnce`, `LedgerIsTrue`, `SettledForGood`, `SettledUnlessOrphaned` |
| `handoff` | two AI requests whose handoffs are posted, lost, repeated and stored in any order over two rounds: `ShowsBestAttached`, `FirstShowsNewest`, `StoredOnce`, `NeverDowngraded` |
| `otp` | two mail workers, a crash, lost confirmations, a replaced challenge, a contact that comes and goes: `DeliveryLedger`, `OnlyNewestVerifies`, `MailsCurrentContact`, `OutboxDrains` |
| `sessions` | two calls between look and transaction, two tickets, two keys, three tokens: `SessionsEndWithCredentials`, `AppliedOnce` |
| `aiservice` | two requests on one slot, timeouts, cancelled handlers, tool failures, the retry: `SlotsAccounted`, `GuidanceGrounded`, `SlotsComeBack` |

The type invariants (`TypeOK`) follow from the proved inductive invariants in
every module that has states of its own, except that of `WorkflowEngine`, whose
states are those of `InquiryWorkflow`. No run spends a property on them.

Four runs end in a counterexample. Each states a sentence of the repository that
the code does not keep:

| Run | The repository says | The code does |
|---|---|---|
| `ai_timeout` | inquiry-events.yaml: AI-TIMEOUT-01 moves the inquiry to CONSULTATION_REQUIRED | only with `retry_count == 0`, while the AI service reports its own retry |
| `handoff_stale` | the handoff contract: a run that is not final yet is NOT_READY and retried; STALE, never retried, means an old version or a lost authority | between the two transactions of the callback the run is final and its event is not applied: the handoff is refused as STALE and never sent again. The client's initial delay makes this unlikely, not impossible |
| `handoff_newest` | the integration guide (고객_AI_상담_통합시나리오_검증_가이드.md:164-165): in whatever order they arrive, the request that creates a consultation connects the newest handoff | a new consultation is offered only handoffs attached to none; once the newest belongs to the first consultation, the second shows an older one. `RequestConnectsNewest` says what the guide says; what does hold is `FirstShowsNewest`, for the first consultation |
| `aiservice_reason` | `runner.py:714`: the handoff carries "the exact reason Backend can bind to the authoritative AI run" | a stage timeout inside the retry gives the handoff AI_PROCESSING_TIMEOUT beside an ordinary FALLBACK, which the Backend refuses. `HandoffBinds` has no exemption; a used-up retry beside accepted evidence (handoff NO_EVIDENCE, answer UNSPECIFIED_FALLBACK) breaks it too |

Further differences met while modelling, which no run states:

- completion-policy.yaml:70-73 resumes a reopened inquiry to
  CONSULTATION_REQUIRED and keeps its visit history; after a completed visit
  `resolve()` refuses that target, which allows no visit status.
- transition-rules.yaml:723 has `record_business_event: true` for a feedback;
  `resolution_service.py:248` moves the version and writes no row.
- concurrency-policy.yaml:15 moves the version on every successful write; a
  reassignment (`supervisor_consultation_service.py:165`) leaves it.
- concurrency-policy.yaml:67 fixes a lock order for visits (inquiry before
  visit). The supervisor's actions (consultation before inquiry) and the review
  decision (review before inquiry) take their rows the other way round than the
  services they can meet. This is read off the code and not checked.
- `process_human_review_resume_outbox`, which picks up the rows a dead request
  left PENDING, is started by no script or unit of the repository, hence no
  fairness of it here.
- Two refreshes that both read the blacklist before either wrote it both get a
  pair: a refresh token is not strictly single-use. Both pairs are of the same
  session and end with it.

### Bounds

- `inquiry`: `MaxVersion` 15 and `MaxConsultations` 2. Two rounds are what
  tells a fresh confirmation from an old one; two consultants what tells the
  assignee from another; one technician, since nothing compares two. A first
  round takes 7 to 9 versions, a second one with its closing 6.
- `ai`: three requests (a symptom and two answers, or two callbacks of one
  version and a later one), two questions, and ten results, one for each
  combination the routing tells apart.
- `command`: three attempts are a request, its resend and a rival; the values
  of keys, inquiries and attempts are interchangeable, but as one property is a
  liveness property there is no symmetry reduction.
- `resume`: two workers are all that can meet on one row (the request and the
  command, or two commands); two reviews tell "the oldest" from another.
- `handoff`: two requests give every order of two ranks, of one version and of
  two; two consultations give a handoff a wrong row to go to; six versions
  cover two answers, a consultation, its reopening and the next.
- `otp`: two challenges are a code and its replacement, two attempts a retry
  and the last one, one failed code the limit; two workers race on one row.
- `sessions`: two calls in flight race; the version can be raised twice; three
  tokens are a pair, its refresh and a rival's.
- `aiservice`: one slot and two requests: the second is refused, or served
  after the first. Requests share nothing else.

The deadlock check is off where the system may come to rest: closed inquiries,
all requests answered, or the version bound.

### Fairness

- `AIAnalysis!FairSpec`: weak fairness of each callback. The AI call has a
  30-second timeout and the rest are database statements; a lost process is a
  `Crash`, after which nothing is promised.
- `IdempotentCommand!FairSpecCommand`: weak fairness of each attempt's next
  statement. An attempt that waits for a lock is not enabled, so the property
  says that the lock is given back.
- `ResumeDispatch!FairSpec`: weak fairness of a worker that lives: its call has
  a 30-second timeout. None of the command, of the AI service or of the network.
- `OtpDelivery!FairSpec`: weak fairness of each mail worker, which systemd
  restarts (`waterbridge-p1-auth-email-worker.service`, `Restart=always`) and
  which polls for ever, and of the end of a retry delay. None of customers or
  of the mail server's verdict.
- `AIService!FairSpec`: weak fairness of a worker thread, whose stages have
  deadlines and whose calls have timeouts, and of the event loop's callbacks.

## Proofs

The theorems hold for every set of consultants, technicians, attempts, keys,
inquiries, requests, contacts and workers and for every bound. Assumed are only
the named assumptions of the modules: that the bounds are naturals (the limits
of the mail worker and `Handoff`'s versions positive), that the placeholder
values are not members of those sets, that the AI results of `AIAnalysis` keep
their contract, and that `AIService` has finitely many requests and the 1 to 32
slots its settings allow. Each inductive invariant was checked with TLC on the
module's own instance before it was proved.

`InquiryWorkflowProofs`. The invariants the run checks are not inductive by
themselves. `IInv` adds three facts that no service checks: a visit exists only
in the visit states (`VisitStage`), every stamp is at most the current version
(`StampsBounded`), and while a round is being closed its consultation was
completed after the last reopening (`RoundIsNew`). The last is why a
confirmation that is newer than the completion is also newer than the
reopening, which gives `ResolvedOnFreshConfirmation`. The proof has a lemma for
what the rule table says per event (`RuleTable`), one for each repository
operation, one for each kind of write, and then one step per action. From
`IInv` follow the invariants, that the repository's RuntimeErrors are
unreachable, and the two action properties.

`IdempotentCommandProofs`. `IInv` relates program counters to locks: an attempt
past the lock owns its inquiry (`LockedTarget`), what it read is the committed
version (`FreshRead`), and one past the insert owns its key, which has no
record (`ClaimOwned`). With it `Refinement` maps each statement to a stutter or
to one step of `AtomicCommand`. `UpdatesAreKept` adds that a committed record's
version lies behind the inquiry's, from which the version of an inquiry is one
more than the number of writes committed on it.

`ResumeDispatchProofs`. `ResumedAtMostOnce` is not inductive: it needs that at
most one worker is past the claim of a review (`OneSender`), that a worker about
to send is the first (`UnsentYet`), that a call on the wire is the only one of
its review (`OnTheWire`), and that a receipt is about a resume that happened
(`ReceiptsAreTrue`). Only the guard of `Claim`, which takes a PENDING row once,
gives the first; the rest follows along the call. `LedgerIsTrue` is part of the
same invariant, and `SettledStays` follows from it step by step.

`AccountSessionsProofs`. `IInv` adds that a token is of the version its session
began at (`TokensRooted`), that what a call saw before its transaction still
exists, though it may have been used (`CallsGrounded`), and that an effect has
used up its ticket, its key and its version (`EffectsSpent`). A sign-up or a
reset that passed its look is then refused by one of the three under the lock,
whichever call committed first.

The transition contract, in `InquiryWorkflowProofs`. `ContractKeepsVisit` is
about `WorkflowEngine` alone: over every sequence of events the tables accept,
those no service implements included, a rule that matches a visit never has
"no visit" as its outcome. It says nothing of dead ends: REOPENED with a
completed visit is one (see above). `ServicesImplementContract` is the
refinement: every service method is shown to be one planned rule on status,
visit status and contract version, or to leave all three alone; the rule tables
of the instance and of the services are shown to be the same first.

`AIAnalysisProofs`. `IInv` ties a callback's program counter to its run
(`RunFollowsCallback`, `RunIsHeld`), and its payload to the customer's answers:
a payload of the current version holds the current answers (`PayloadIsFresh`),
although version and answers are read by two statements. Together with the
version check of each transaction this gives `DecidedOnAllAnswers`. A decision
moved the version past its payload (`ReviewsAreBehind`), hence one decision per
version. The newest request is the one for the current version
(`NewestIsCurrent`), hence never are all results stale.

`HandoffProofs`. The properties speak of the *best* handoff, a CHOOSE over a
rank of three keys. The first lemmas show that the rank is a strict total order
and that a non-empty set of handoffs has a best one (the naturals are
well-founded), after which `IsBest` says the same without a choice. `IInv` says
that each row shows the best of its own, that an open row asked for shows the
best it may take, that only the last row is open, and that a stored handoff has
a finished run, so that no rank changes afterwards. Storing, attaching,
requesting and completing are then proved as operations on the pair of tables,
and each action as a use of them. `FirstAlwaysShowsNewest` needs that every
stored handoff that may be shown is free or attached to the only consultation
there is; with a second consultation it fails, as `handoff_newest` shows.

`OtpDeliveryProofs`. A worker's row is pending, may still be tried and is its
alone (`OnWaitingRow`, `Alone`), and the target of a code that is being sent
does not move (`TargetKept`). Every mail is counted by an attempt or by a crash,
or a worker has yet to commit it (`MailsCounted`): that is `DeliveryLedger`.
Only the newest challenge of a subject is unconsumed (`NewestIsOpen`), whatever
the workers still send: that is `OnlyNewestVerifies`.

`AIServiceProofs`. `IInv` says of every context that its evidence and guidance
are from attempts that have begun, and of one that reaches the verification that
its guidance was written from its evidence, unless a tool failed or the retry
was late (`WrittenFromEvidence`); of every result that it is grounded.
The verdict of the harness is proved by cases over the answers it may give.

Only model-checked: the liveness properties (`RunsSettle`, `EveryAttemptEnds`,
`SettledUnlessOrphaned`, `OutboxDrains`, `SlotsComeBack`), which the prover
cannot do under fairness. The four counterexamples (`TimeoutEscalates`,
`StaleIsLasting`, `RequestConnectsNewest`, `HandoffBinds`) are TLC's alone.

## Not modelled

Questionnaires and their link to an inquiry are rows that one customer writes
in sequence; they are left for later.

Row lock orders are left out: `select_for_update()` with `select_related` and no
`of=` (`assigned_consultant_action_service.py:243`, `inquiry_repository.py:87`)
also locks the joined subscription, product and user rows, so a model of one
inquiry's rows would rule out circles the code has.

Of the accounts the demo log-in, the recovery of a username, the consultants'
credentials and the administrators' rights are left out, and one writer that
matters: the admin site's user change form (`accounts/admin.py:182`) reads the
user without a lock and saves the whole row, so that it can put back a password
and an `auth_version` that a reset or a deactivation has just replaced. Refresh
tokens stay blacklisted there, which is what `SessionsEndWithCredentials` is
about. Of the AI service the multi-agent runtime, the mock mode, the harness's
HUMAN_REVIEW verdict, its SAFETY_CONFLICT (which escalates) and its repeated
generation are left out; PRODUCT_FAMILY_MISMATCH is merged into WRONG_MODEL, and
which stop a danger rule asks for is one value. Of the handoff endpoint schema 1,
the evidence checks, the authority of AI_PROCESSING_TIMEOUT
(`consultation_handoff_service.py:371-382`; it is in `AIService!Binds`) and the
mapping of RUNTIME_PRODUCT_NOT_APPROVED to PRODUCT_VALIDATION_FAILED are left
out, and of the callback in `Handoff` the failure to save a bundle, which
`AIAnalysis` has; there a database error without a ledger, which is raised
again, is a `Crash`.

Care schedules, evidence import,
subscriptions, products and common codes are reference data or date arithmetic
with no interleaving of their own. Allowed actions and the operations screens
are read-only projections. The web and mobile clients hold no authoritative
state; their retries are the repeated attempts of `IdempotentCommand`. The
technician's events (START_VISIT, VISIT_COMPLETED, REVISIT_NEEDED, the pre-visit
report) and CUSTOMER_REPORTED_SELF_RESOLVED are rules of the contract without a
service: they appear in `WorkflowEngine` and in no other module. Of the guard
evaluator the precedence of failing guards, which selects an error code, is left
out.

The modelled code is a small share of the repository's lines. Most of the rest
has no behaviour over time: experiments and their scripts
(`src/ai/app/experiments`, `src/ai/scripts/experiments`), data preparation and
its validation (`src/data/tools`, `src/scripts/database`), user interfaces,
serializers, views, migrations and tests. Of the admin
site the account actions are in `AccountSessions` and the user change form is
the gap named above.

## Plan

1. Done: engine, inquiry workflow, AI callback, command pattern,
   resume dispatch, handoff, one-time codes, accounts and sessions, AI service.
2. Done: theorems for every safety property of the passing runs, and both refinements.
3. `Questionnaire`: start, save, submit, link; one inquiry per session.
4. Summary revisions in `InquiryWorkflow` (a confirmation that is older than
   the text).
5. Lock orders over several inquiries with the rows they share, and the admin
   site's user change form in `AccountSessions`.
6. Theorems about how the modules fit: that an `AIAnalysis` decision and a
   `Handoff` are steps of the transition contract.
