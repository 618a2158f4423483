---------------------------- MODULE ResumeDispatch ----------------------------
(* A rejected review is resumed by one HTTP call from the Backend to the AI  *)
(* service, which calls the language model and writes a handoff.  The row in *)
(* human_review_resume_dispatch, inserted by the transaction of the REJECT,  *)
(* is the outbox.  The request that rejected dispatches it after its commit; *)
(* the management command process_human_review_resume_outbox picks up what   *)
(* is still PENDING.  Either process can die between any two steps, the AI   *)
(* service can restart, and the call can be lost, be refused, answer late or *)
(* not at all.  Reviews are those of the approved model, with the feature    *)
(* switched on: the others never get a row.                                  *)
EXTENDS Naturals, Sequences

CONSTANTS
  Reviews,      \* HumanReview rows
  Workers       \* request threads and runs of the command

NOTHING == "nothing"

ASSUME NothingAssumption == NOTHING \notin Reviews

VARIABLES
  status,   \* HumanReviewResumeDispatch.status of each review
  order,    \* the rows by created_at
  moved,    \* reviews whose inquiry has moved on since the REJECT
  at,       \* where each worker is
  task,     \* the review it works on
  batch,    \* workers that run the command
  wire,     \* requests on their way to the AI service
  running,  \* requests the AI service works on
  answer,   \* what a waiting worker can read from its connection
  ran,      \* how often the AI service ran the resume of a review
  orphaned  \* reviews whose worker died before it settled them

row == <<status, order>>
worker == <<at, task, batch>>
ai == <<wire, running, answer, ran>>
vars == <<row, moved, worker, ai, orphaned>>

Settled == {"SUCCEEDED", "FAILED_PRE_SEND", "OUTCOME_UNKNOWN"}
Statuses == Settled \cup {"ABSENT", "PENDING", "DISPATCHING"}
Sending == {"send", "await", "succeeded", "unknown"}
Calls == [review : Reviews, by : Workers]

(* Statuses of the model's choices, and workers at points process_dispatch  *)
(* has; a worker that is busy has a review.                                 *)
TypeOK ==
  /\ status \in [Reviews -> Statuses]
  /\ order \in Seq(Reviews)
  /\ moved \in SUBSET Reviews
  /\ at \in [Workers -> Sending \cup {"idle", "pick", "claim"}]
  /\ task \in [Workers -> Reviews \cup {NOTHING}]
  /\ \A w \in Workers : at[w] \in Sending \cup {"claim"} => task[w] \in Reviews
  /\ batch \in SUBSET Workers
  /\ wire \in SUBSET Calls
  /\ running \in SUBSET Calls
  /\ answer \in [Workers -> {"none", "receipt", "error"}]
  /\ ran \in [Reviews -> Nat]
  /\ orphaned \in SUBSET Reviews

Init ==
  /\ status = [r \in Reviews |-> "ABSENT"]
  /\ order = << >>
  /\ moved = {}
  /\ at = [w \in Workers |-> "idle"]
  /\ task = [w \in Workers |-> NOTHING]
  /\ batch = {}
  /\ wire = {}
  /\ running = {}
  /\ answer = [w \in Workers |-> "none"]
  /\ ran = [r \in Reviews |-> 0]
  /\ orphaned = {}

-----------------------------------------------------------------------------
(* The Backend. *)

Goto(w, place) == at' = [at EXCEPT ![w] = place]

\* process_dispatch returns: to the loop of process_pending, or for good.
Return(w) ==
  /\ Goto(w, IF w \in batch THEN "pick" ELSE "idle")
  /\ UNCHANGED <<task, batch>>

(* decide(REJECT): enqueue inserts the row in the same transaction, and the *)
(* on_commit callback goes on to process_dispatch.                          *)
Reject(w, r) ==
  /\ at[w] = "idle"
  /\ status[r] = "ABSENT"
  /\ status' = [status EXCEPT ![r] = "PENDING"]
  /\ order' = Append(order, r)
  /\ Goto(w, "claim")
  /\ task' = [task EXCEPT ![w] = r]
  /\ batch' = batch \ {w}
  /\ UNCHANGED <<moved, ai, orphaned>>

\* Somebody runs the command.
RunCommand(w) ==
  /\ at[w] = "idle"
  /\ Goto(w, "pick")
  /\ batch' = batch \cup {w}
  /\ UNCHANGED <<row, moved, task, ai, orphaned>>

\* The first PENDING row by created_at.
Oldest(r) ==
  \E i \in DOMAIN order :
    /\ order[i] = r
    /\ status[r] = "PENDING"
    /\ \A j \in 1 .. i - 1 : status[order[j]] # "PENDING"

(* process_pending: the oldest PENDING row, read without a lock; the loop   *)
(* ends when there is none or max_rows were taken.                          *)
Pick(w) ==
  /\ at[w] = "pick"
  /\ \/ /\ \E r \in Reviews :
             Oldest(r) /\ task' = [task EXCEPT ![w] = r]
        /\ Goto(w, "claim")
     \/ /\ Goto(w, "idle")
        /\ UNCHANGED task
  /\ UNCHANGED <<row, moved, batch, ai, orphaned>>

\* Mutant: a row left DISPATCHING is claimed again.
ClaimAgain(w) ==
  LET r == task[w] IN
  /\ at[w] = "claim"
  /\ \/ /\ status[r] \in Settled
        /\ Return(w)
        /\ UNCHANGED status
     \/ /\ status[r] \notin Settled
        /\ r \in moved
        /\ status' = [status EXCEPT ![r] = "FAILED_PRE_SEND"]
        /\ Return(w)
     \/ /\ status[r] \notin Settled
        /\ r \notin moved
        /\ status' = [status EXCEPT ![r] = "DISPATCHING"]
        /\ Goto(w, "send")
        /\ UNCHANGED <<task, batch>>
  /\ UNCHANGED <<order, moved, ai, orphaned>>

(* _claim, one transaction under the row lock: only a PENDING row is taken, *)
(* and a payload that no longer matches the ledger fails before the send.   *)
Claim(w) ==
  LET r == task[w] IN
  /\ at[w] = "claim"
  /\ \/ /\ status[r] # "PENDING"
        /\ Return(w)
        /\ UNCHANGED status
     \/ /\ status[r] = "PENDING"
        /\ r \in moved
        /\ status' = [status EXCEPT ![r] = "FAILED_PRE_SEND"]
        /\ Return(w)
     \/ /\ status[r] = "PENDING"
        /\ r \notin moved
        /\ status' = [status EXCEPT ![r] = "DISPATCHING"]
        /\ Goto(w, "send")
        /\ UNCHANGED <<task, batch>>
  /\ UNCHANGED <<order, moved, ai, orphaned>>

(* HumanReviewResumeClient: posts the payload, or raises because its own    *)
(* configuration is missing.                                                *)
Send(w) ==
  /\ at[w] = "send"
  /\ \/ /\ wire' = wire \cup {[review |-> task[w], by |-> w]}
        /\ answer' = [answer EXCEPT ![w] = "none"]
        /\ Goto(w, "await")
     \/ /\ Goto(w, "unknown")
        /\ UNCHANGED <<wire, answer>>
  /\ UNCHANGED <<row, moved, task, batch, running, ran, orphaned>>

(* A valid receipt, or a refusal, a broken connection or an invalid body.   *)
ReadAnswer(w) ==
  /\ at[w] = "await"
  /\ answer[w] # "none"
  /\ Goto(w, IF answer[w] = "receipt" THEN "succeeded" ELSE "unknown")
  /\ answer' = [answer EXCEPT ![w] = "none"]
  /\ UNCHANGED <<row, moved, task, batch, wire, running, ran, orphaned>>

\* Mutant: a timed out call puts the row back in the queue.
TimeOutRequeues(w) ==
  /\ at[w] = "await"
  /\ status' = [status EXCEPT ![task[w]] = "PENDING"]
  /\ Return(w)
  /\ UNCHANGED <<order, moved, ai, orphaned>>

\* The 30 seconds of the client are over; the AI service does not notice.
TimeOut(w) ==
  /\ at[w] = "await"
  /\ Goto(w, "unknown")
  /\ UNCHANGED <<row, moved, task, batch, ai, orphaned>>

\* Mutant: a call without a receipt is recorded as a success.
MarkAlwaysSucceeded(w) ==
  /\ at[w] \in {"succeeded", "unknown"}
  /\ status' = [status EXCEPT ![task[w]] = "SUCCEEDED"]
  /\ Return(w)
  /\ UNCHANGED <<order, moved, ai, orphaned>>

\* Mutant: only a success is written back.
MarkOnlySuccess(w) ==
  /\ at[w] \in {"succeeded", "unknown"}
  /\ status' = [status EXCEPT ![task[w]] =
                  IF at[w] = "succeeded" THEN "SUCCEEDED" ELSE @]
  /\ Return(w)
  /\ UNCHANGED <<order, moved, ai, orphaned>>

(* _mark_succeeded and _mark_outcome_unknown: each locks the row and writes *)
(* only if it is still DISPATCHING.                                         *)
Mark(w) ==
  /\ at[w] \in {"succeeded", "unknown"}
  /\ status' = [status EXCEPT ![task[w]] =
                  IF @ # "DISPATCHING" THEN @
                  ELSE IF at[w] = "succeeded" THEN "SUCCEEDED"
                  ELSE "OUTCOME_UNKNOWN"]
  /\ Return(w)
  /\ UNCHANGED <<order, moved, ai, orphaned>>

WorkerStep(w) ==
  \/ Pick(w)
  \/ Claim(w)
  \/ Send(w)
  \/ ReadAnswer(w)
  \/ TimeOut(w)
  \/ Mark(w)

(* The workers that will settle row r unless they die: the one that claimed *)
(* it, or those about to claim it.                                          *)
Owners(r) ==
  {w \in Workers :
     /\ task[w] = r
     /\ \/ status[r] = "PENDING" /\ at[w] = "claim"
        \/ status[r] = "DISPATCHING" /\ at[w] \in Sending}

\* The process of the worker dies: nothing of it but the rows is left.
Crash(w) ==
  /\ at[w] # "idle"
  /\ Goto(w, "idle")
  /\ orphaned' = orphaned \cup {r \in Reviews : w \in Owners(r)}
  /\ answer' = [answer EXCEPT ![w] = "none"]
  /\ UNCHANGED <<row, moved, task, batch, wire, running, ran>>

\* Another service moves the state_version of the inquiry of r.
InquiryMoves(r) ==
  /\ status[r] # "ABSENT"
  /\ r \notin moved
  /\ moved' = moved \cup {r}
  /\ UNCHANGED <<row, worker, ai, orphaned>>

-----------------------------------------------------------------------------
(* The AI service and the network. *)

\* What the sender of call c reads, if it is still there to read it.
Respond(c, what) ==
  answer' = IF at[c.by] = "await" /\ task[c.by] = c.review
            THEN [answer EXCEPT ![c.by] = what] ELSE answer

(* The endpoint accepts the call and run_once starts its operation.         *)
AIReceives(c) ==
  /\ c \in wire
  /\ wire' = wire \ {c}
  /\ running' = running \cup {c}
  /\ ran' = [ran EXCEPT ![c.review] = @ + 1]
  /\ UNCHANGED <<row, moved, worker, answer, orphaned>>

(* The call never arrives, or the endpoint refuses it: 503, 403 or 409.     *)
AIRefuses(c) ==
  /\ c \in wire
  /\ wire' = wire \ {c}
  /\ Respond(c, "error")
  /\ UNCHANGED <<row, moved, worker, running, ran, orphaned>>

\* The operation returns a handoff, or raises and the response is an error.
AIFinishes(c) ==
  /\ c \in running
  /\ running' = running \ {c}
  /\ \E what \in {"receipt", "error"} : Respond(c, what)
  /\ UNCHANGED <<row, moved, worker, wire, ran, orphaned>>

\* The AI process restarts: every call in it breaks.
AIRestarts ==
  /\ running # {}
  /\ running' = {}
  /\ answer' = [w \in Workers |->
                  IF \E c \in running :
                       c.by = w /\ at[w] = "await" /\ task[w] = c.review
                  THEN "error" ELSE answer[w]]
  /\ UNCHANGED <<row, moved, worker, wire, ran, orphaned>>

Next ==
  \/ \E w \in Workers :
       \/ \E r \in Reviews : Reject(w, r)
       \/ RunCommand(w)
       \/ WorkerStep(w)
       \/ Crash(w)
  \/ \E r \in Reviews : InquiryMoves(r)
  \/ \E c \in Calls : AIReceives(c) \/ AIRefuses(c) \/ AIFinishes(c)
  \/ AIRestarts

Spec == Init /\ [][Next]_vars

(* A worker that lives goes on: its call ends by an answer or by the        *)
(* client's timeout.  Nobody is bound to run the command or to answer.      *)
FairSpec == Spec /\ \A w \in Workers : WF_vars(WorkerStep(w))

-----------------------------------------------------------------------------
(* Properties. *)

(* human_review_resume_dispatch.py: "A started request is never retried".   *)
(* Whatever dies, times out or is picked up twice, the AI service resumes a *)
(* review, and so calls the language model for it, at most once.            *)
ResumedAtMostOnce == \A r \in Reviews : ran[r] <= 1

Underway(r) ==
  \/ \E w \in Workers : at[w] \in Sending /\ task[w] = r
  \/ \E c \in wire \cup running : c.review = r

(* The ledger never claims more than is known: a row that is waiting or     *)
(* failed before the send has not reached the AI service and cannot any     *)
(* more by a late call, and a SUCCEEDED row has been resumed.               *)
LedgerIsTrue ==
  \A r \in Reviews :
    /\ status[r] \in {"ABSENT", "PENDING", "FAILED_PRE_SEND"} =>
         ran[r] = 0 /\ ~Underway(r)
    /\ status[r] = "SUCCEEDED" => ran[r] = 1

(* A settled row is never written again, whoever still works on it, and a   *)
(* row under way never goes back to the queue.                              *)
SettledForGood ==
  [][\A r \in Reviews :
       /\ status[r] \in Settled => status'[r] = status[r]
       /\ status[r] = "DISPATCHING" => status'[r] \in Settled \cup {status[r]}
    ]_vars

(* A row is left unsettled only by a process that died: a PENDING one is    *)
(* settled without the command, since the request that rejected dispatches  *)
(* it, and one under way needs no answer of the AI service.                 *)
SettledUnlessOrphaned ==
  \A r \in Reviews :
    status[r] = "PENDING" ~> status[r] \in Settled \/ r \in orphaned
=============================================================================
