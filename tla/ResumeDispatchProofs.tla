------------------------- MODULE ResumeDispatchProofs -------------------------
(* For any number of reviews and workers: a review is resumed at most once,  *)
(* and the ledger never claims more than is known.                           *)
EXTENDS ResumeDispatch, SequenceTheorems, TLAPS

\* Before the claim of r nothing is on its way; the claim is made once.
OneSender ==
  \A v, w \in Workers :
    at[v] \in Sending /\ at[w] \in Sending /\ task[v] = task[w] => v = w

\* A worker about to send is the first to do so.
UnsentYet ==
  \A w \in Workers : at[w] = "send" =>
    /\ ran[task[w]] = 0
    /\ \A c \in wire \cup running : c.review # task[w]

\* A call on the wire is the only one of its review, and was not received.
OnTheWire ==
  \A c \in wire :
    /\ ran[c.review] = 0
    /\ \A d \in wire : d.review = c.review => d = c

\* What the AI service works on, and what a receipt is about, has been resumed.
ReceiptsAreTrue ==
  /\ \A c \in running : ran[c.review] = 1
  /\ \A w \in Workers :
       /\ at[w] = "await" /\ answer[w] = "receipt" => ran[task[w]] = 1
       /\ at[w] = "succeeded" => ran[task[w]] = 1

IInv ==
  /\ TypeOK
  /\ OneSender
  /\ UnsentYet
  /\ OnTheWire
  /\ ReceiptsAreTrue
  /\ ResumedAtMostOnce
  /\ LedgerIsTrue

-----------------------------------------------------------------------------
(* The row is inserted and its worker is about to claim it.                 *)
LEMMA RejectKeeps ==
  ASSUME IInv, NEW w \in Workers, NEW r \in Reviews, Reject(w, r)
  PROVE  IInv'
<1> USE DEF IInv, Reject, Goto, row, worker, ai
<1>1. TypeOK'
  BY DEF TypeOK, Sending, Statuses, Settled
<1>2. OneSender'
  BY DEF TypeOK, Sending, OneSender, LedgerIsTrue, Underway
<1>3. UnsentYet'
  BY DEF TypeOK, Sending, OneSender, UnsentYet, LedgerIsTrue, Underway
<1>4. OnTheWire'
  BY DEF TypeOK, Sending, UnsentYet, OnTheWire, ReceiptsAreTrue
<1>5. ReceiptsAreTrue'
  BY DEF TypeOK, Sending, UnsentYet, OnTheWire, ReceiptsAreTrue
<1>6. ResumedAtMostOnce'
  BY DEF TypeOK, OnTheWire, ResumedAtMostOnce
<1>7. LedgerIsTrue'
  BY DEF TypeOK, Sending, Settled, OnTheWire, ReceiptsAreTrue, LedgerIsTrue, Underway
<1> QED
  BY <1>1, <1>2, <1>3, <1>4, <1>5, <1>6, <1>7

(* The command only starts a worker.                                        *)
LEMMA RunCommandKeeps ==
  ASSUME IInv, NEW w \in Workers, RunCommand(w)
  PROVE  IInv'
<1> USE DEF IInv, RunCommand, Goto, row, worker, ai
<1>1. TypeOK'
  BY DEF TypeOK, Sending, Statuses, Settled
<1>2. OneSender'
  BY DEF TypeOK, Sending, OneSender, LedgerIsTrue, Underway
<1>3. UnsentYet'
  BY DEF TypeOK, Sending, OneSender, UnsentYet, LedgerIsTrue, Underway
<1>4. OnTheWire'
  BY DEF TypeOK, Sending, UnsentYet, OnTheWire, ReceiptsAreTrue
<1>5. ReceiptsAreTrue'
  BY DEF TypeOK, Sending, UnsentYet, OnTheWire, ReceiptsAreTrue
<1>6. ResumedAtMostOnce'
  BY DEF TypeOK, OnTheWire, ResumedAtMostOnce
<1>7. LedgerIsTrue'
  BY DEF TypeOK, Sending, Settled, OnTheWire, ReceiptsAreTrue, LedgerIsTrue, Underway
<1> QED
  BY <1>1, <1>2, <1>3, <1>4, <1>5, <1>6, <1>7

(* A worker that picks a row has claimed nothing yet.                       *)
LEMMA PickKeeps ==
  ASSUME IInv, NEW w \in Workers, Pick(w)
  PROVE  IInv'
<1> USE DEF IInv, Pick, Goto, row, worker, ai
<1>1. TypeOK'
  BY DEF TypeOK, Sending, Statuses, Settled
<1>2. OneSender'
  BY DEF TypeOK, Sending, OneSender, LedgerIsTrue, Underway
<1>3. UnsentYet'
  BY DEF TypeOK, Sending, OneSender, UnsentYet, LedgerIsTrue, Underway
<1>4. OnTheWire'
  BY DEF TypeOK, Sending, UnsentYet, OnTheWire, ReceiptsAreTrue
<1>5. ReceiptsAreTrue'
  BY DEF TypeOK, Sending, UnsentYet, OnTheWire, ReceiptsAreTrue
<1>6. ResumedAtMostOnce'
  BY DEF TypeOK, OnTheWire, ResumedAtMostOnce
<1>7. LedgerIsTrue'
  BY DEF TypeOK, Sending, Settled, OnTheWire, ReceiptsAreTrue, LedgerIsTrue, Underway
<1> QED
  BY <1>1, <1>2, <1>3, <1>4, <1>5, <1>6, <1>7

(* A claim is made on a row nobody has claimed.                             *)
LEMMA ClaimKeeps ==
  ASSUME IInv, NEW w \in Workers, Claim(w)
  PROVE  IInv'
<1> USE DEF IInv, Claim, Goto, Return, row, worker, ai
<1>1. TypeOK'
  BY DEF TypeOK, Sending, Statuses, Settled
<1>2. OneSender'
  BY DEF TypeOK, Sending, OneSender, LedgerIsTrue, Underway
<1>3. UnsentYet'
  BY DEF TypeOK, Sending, OneSender, UnsentYet, LedgerIsTrue, Underway
<1>4. OnTheWire'
  BY DEF TypeOK, Sending, UnsentYet, OnTheWire, ReceiptsAreTrue
<1>5. ReceiptsAreTrue'
  BY DEF TypeOK, Sending, UnsentYet, OnTheWire, ReceiptsAreTrue
<1>6. ResumedAtMostOnce'
  BY DEF TypeOK, OnTheWire, ResumedAtMostOnce
<1>7. LedgerIsTrue'
  BY DEF TypeOK, Sending, Settled, OnTheWire, ReceiptsAreTrue, LedgerIsTrue, Underway
<1> QED
  BY <1>1, <1>2, <1>3, <1>4, <1>5, <1>6, <1>7

(* The only sender of a review puts its only call on the wire.              *)
LEMMA SendKeeps ==
  ASSUME IInv, NEW w \in Workers, Send(w)
  PROVE  IInv'
<1> USE DEF IInv, Send, Goto, Calls, row, worker, ai
<1>1. TypeOK'
  <2>1. task[w] \in Reviews
    BY DEF TypeOK, Sending
  <2>2. wire' \in SUBSET Calls /\ answer' \in [Workers -> {"none", "receipt", "error"}]
    BY <2>1 DEF TypeOK
  <2>3. at' \in [Workers -> Sending \cup {"idle", "pick", "claim"}]
    BY DEF TypeOK, Sending
  <2>4. \A v \in Workers : at'[v] \in Sending \cup {"claim"} => task[v] \in Reviews
    BY <2>1 DEF TypeOK
  <2> QED
    BY <2>2, <2>3, <2>4 DEF TypeOK
<1>2. OneSender'
  <2>1. \A v \in Workers : at'[v] \in Sending <=> at[v] \in Sending
    BY DEF TypeOK, Sending
  <2> QED
    BY <2>1 DEF OneSender
<1>3. UnsentYet'
  BY DEF TypeOK, Sending, OneSender, UnsentYet, LedgerIsTrue, Underway
<1>4. OnTheWire'
  BY DEF TypeOK, Sending, UnsentYet, OnTheWire, ReceiptsAreTrue
<1>5. ReceiptsAreTrue'
  BY DEF TypeOK, Sending, UnsentYet, OnTheWire, ReceiptsAreTrue
<1>6. ResumedAtMostOnce'
  BY DEF TypeOK, OnTheWire, ResumedAtMostOnce
<1>7. LedgerIsTrue'
  BY DEF TypeOK, Sending, Settled, OnTheWire, ReceiptsAreTrue, LedgerIsTrue, Underway
<1> QED
  BY <1>1, <1>2, <1>3, <1>4, <1>5, <1>6, <1>7

(* A worker believes a receipt.                                             *)
LEMMA ReadAnswerKeeps ==
  ASSUME IInv, NEW w \in Workers, ReadAnswer(w)
  PROVE  IInv'
<1> USE DEF IInv, ReadAnswer, Goto, row, worker, ai
<1>1. TypeOK'
  BY DEF TypeOK, Sending, Statuses, Settled
<1>2. OneSender'
  BY DEF TypeOK, Sending, OneSender, LedgerIsTrue, Underway
<1>3. UnsentYet'
  BY DEF TypeOK, Sending, OneSender, UnsentYet, LedgerIsTrue, Underway
<1>4. OnTheWire'
  BY DEF TypeOK, Sending, UnsentYet, OnTheWire, ReceiptsAreTrue
<1>5. ReceiptsAreTrue'
  BY DEF TypeOK, Sending, UnsentYet, OnTheWire, ReceiptsAreTrue
<1>6. ResumedAtMostOnce'
  BY DEF TypeOK, OnTheWire, ResumedAtMostOnce
<1>7. LedgerIsTrue'
  BY DEF TypeOK, Sending, Settled, OnTheWire, ReceiptsAreTrue, LedgerIsTrue, Underway
<1> QED
  BY <1>1, <1>2, <1>3, <1>4, <1>5, <1>6, <1>7

(* A worker that stops waiting knows nothing.                               *)
LEMMA TimeOutKeeps ==
  ASSUME IInv, NEW w \in Workers, TimeOut(w)
  PROVE  IInv'
<1> USE DEF IInv, TimeOut, Goto, row, worker, ai
<1>1. TypeOK'
  BY DEF TypeOK, Sending, Statuses, Settled
<1>2. OneSender'
  BY DEF TypeOK, Sending, OneSender, LedgerIsTrue, Underway
<1>3. UnsentYet'
  BY DEF TypeOK, Sending, OneSender, UnsentYet, LedgerIsTrue, Underway
<1>4. OnTheWire'
  BY DEF TypeOK, Sending, UnsentYet, OnTheWire, ReceiptsAreTrue
<1>5. ReceiptsAreTrue'
  BY DEF TypeOK, Sending, UnsentYet, OnTheWire, ReceiptsAreTrue
<1>6. ResumedAtMostOnce'
  BY DEF TypeOK, OnTheWire, ResumedAtMostOnce
<1>7. LedgerIsTrue'
  BY DEF TypeOK, Sending, Settled, OnTheWire, ReceiptsAreTrue, LedgerIsTrue, Underway
<1> QED
  BY <1>1, <1>2, <1>3, <1>4, <1>5, <1>6, <1>7

(* The outcome is written to a row under way only.                          *)
LEMMA MarkKeeps ==
  ASSUME IInv, NEW w \in Workers, Mark(w)
  PROVE  IInv'
<1> USE DEF IInv, Mark, Goto, Return, row, worker, ai
<1>1. TypeOK'
  BY DEF TypeOK, Sending, Statuses, Settled
<1>2. OneSender'
  BY DEF TypeOK, Sending, OneSender, LedgerIsTrue, Underway
<1>3. UnsentYet'
  BY DEF TypeOK, Sending, OneSender, UnsentYet, LedgerIsTrue, Underway
<1>4. OnTheWire'
  BY DEF TypeOK, Sending, UnsentYet, OnTheWire, ReceiptsAreTrue
<1>5. ReceiptsAreTrue'
  BY DEF TypeOK, Sending, UnsentYet, OnTheWire, ReceiptsAreTrue
<1>6. ResumedAtMostOnce'
  BY DEF TypeOK, OnTheWire, ResumedAtMostOnce
<1>7. LedgerIsTrue'
  BY DEF TypeOK, Sending, Settled, OnTheWire, ReceiptsAreTrue, LedgerIsTrue, Underway
<1> QED
  BY <1>1, <1>2, <1>3, <1>4, <1>5, <1>6, <1>7

(* A worker that died sends nothing.                                        *)
LEMMA CrashKeeps ==
  ASSUME IInv, NEW w \in Workers, Crash(w)
  PROVE  IInv'
<1> USE DEF IInv, Crash, Goto, row, worker, ai
<1>1. TypeOK'
  BY DEF TypeOK, Sending, Statuses, Settled
<1>2. OneSender'
  BY DEF TypeOK, Sending, OneSender, LedgerIsTrue, Underway
<1>3. UnsentYet'
  BY DEF TypeOK, Sending, OneSender, UnsentYet, LedgerIsTrue, Underway
<1>4. OnTheWire'
  BY DEF TypeOK, Sending, UnsentYet, OnTheWire, ReceiptsAreTrue
<1>5. ReceiptsAreTrue'
  BY DEF TypeOK, Sending, UnsentYet, OnTheWire, ReceiptsAreTrue
<1>6. ResumedAtMostOnce'
  BY DEF TypeOK, OnTheWire, ResumedAtMostOnce
<1>7. LedgerIsTrue'
  BY DEF TypeOK, Sending, Settled, OnTheWire, ReceiptsAreTrue, LedgerIsTrue, Underway
<1> QED
  BY <1>1, <1>2, <1>3, <1>4, <1>5, <1>6, <1>7

(* The inquiry moves on without the row.                                    *)
LEMMA InquiryMovesKeeps ==
  ASSUME IInv, NEW r \in Reviews, InquiryMoves(r)
  PROVE  IInv'
<1> USE DEF IInv, InquiryMoves, row, worker, ai
<1>1. TypeOK'
  BY DEF TypeOK, Sending, Statuses, Settled
<1>2. OneSender'
  BY DEF TypeOK, Sending, OneSender, LedgerIsTrue, Underway
<1>3. UnsentYet'
  BY DEF TypeOK, Sending, OneSender, UnsentYet, LedgerIsTrue, Underway
<1>4. OnTheWire'
  BY DEF TypeOK, Sending, UnsentYet, OnTheWire, ReceiptsAreTrue
<1>5. ReceiptsAreTrue'
  BY DEF TypeOK, Sending, UnsentYet, OnTheWire, ReceiptsAreTrue
<1>6. ResumedAtMostOnce'
  BY DEF TypeOK, OnTheWire, ResumedAtMostOnce
<1>7. LedgerIsTrue'
  BY DEF TypeOK, Sending, Settled, OnTheWire, ReceiptsAreTrue, LedgerIsTrue, Underway
<1> QED
  BY <1>1, <1>2, <1>3, <1>4, <1>5, <1>6, <1>7

(* The one call of a review arrives.                                        *)
LEMMA AIReceivesKeeps ==
  ASSUME IInv, NEW c \in Calls, AIReceives(c)
  PROVE  IInv'
<1> USE DEF IInv, AIReceives, Calls, row, worker, ai
<1>1. TypeOK'
  BY DEF TypeOK, Sending, Statuses, Settled
<1>2. OneSender'
  BY DEF TypeOK, Sending, OneSender, LedgerIsTrue, Underway
<1>3. UnsentYet'
  BY DEF TypeOK, Sending, OneSender, UnsentYet, LedgerIsTrue, Underway
<1>4. OnTheWire'
  BY DEF TypeOK, Sending, UnsentYet, OnTheWire, ReceiptsAreTrue
<1>5. ReceiptsAreTrue'
  BY DEF TypeOK, Sending, UnsentYet, OnTheWire, ReceiptsAreTrue
<1>6. ResumedAtMostOnce'
  BY DEF TypeOK, OnTheWire, ResumedAtMostOnce
<1>7. LedgerIsTrue'
  BY DEF TypeOK, Sending, Settled, OnTheWire, ReceiptsAreTrue, LedgerIsTrue, Underway
<1> QED
  BY <1>1, <1>2, <1>3, <1>4, <1>5, <1>6, <1>7

(* A call is lost or refused.                                               *)
LEMMA AIRefusesKeeps ==
  ASSUME IInv, NEW c \in Calls, AIRefuses(c)
  PROVE  IInv'
<1> USE DEF IInv, AIRefuses, Respond, Calls, row, worker, ai
<1>1. TypeOK'
  BY DEF TypeOK, Sending, Statuses, Settled
<1>2. OneSender'
  BY DEF TypeOK, Sending, OneSender, LedgerIsTrue, Underway
<1>3. UnsentYet'
  BY DEF TypeOK, Sending, OneSender, UnsentYet, LedgerIsTrue, Underway
<1>4. OnTheWire'
  BY DEF TypeOK, Sending, UnsentYet, OnTheWire, ReceiptsAreTrue
<1>5. ReceiptsAreTrue'
  BY DEF TypeOK, Sending, UnsentYet, OnTheWire, ReceiptsAreTrue
<1>6. ResumedAtMostOnce'
  BY DEF TypeOK, OnTheWire, ResumedAtMostOnce
<1>7. LedgerIsTrue'
  BY DEF TypeOK, Sending, Settled, OnTheWire, ReceiptsAreTrue, LedgerIsTrue, Underway
<1> QED
  BY <1>1, <1>2, <1>3, <1>4, <1>5, <1>6, <1>7

(* A resume ends.                                                           *)
LEMMA AIFinishesKeeps ==
  ASSUME IInv, NEW c \in Calls, AIFinishes(c)
  PROVE  IInv'
<1> USE DEF IInv, AIFinishes, Respond, Calls, row, worker, ai
<1>1. TypeOK'
  BY DEF TypeOK, Sending, Statuses, Settled
<1>2. OneSender'
  BY DEF TypeOK, Sending, OneSender, LedgerIsTrue, Underway
<1>3. UnsentYet'
  BY DEF TypeOK, Sending, OneSender, UnsentYet, LedgerIsTrue, Underway
<1>4. OnTheWire'
  BY DEF TypeOK, Sending, UnsentYet, OnTheWire, ReceiptsAreTrue
<1>5. ReceiptsAreTrue'
  BY DEF TypeOK, Sending, UnsentYet, OnTheWire, ReceiptsAreTrue
<1>6. ResumedAtMostOnce'
  BY DEF TypeOK, OnTheWire, ResumedAtMostOnce
<1>7. LedgerIsTrue'
  BY DEF TypeOK, Sending, Settled, OnTheWire, ReceiptsAreTrue, LedgerIsTrue, Underway
<1> QED
  BY <1>1, <1>2, <1>3, <1>4, <1>5, <1>6, <1>7

(* The AI service loses what it works on.                                   *)
LEMMA AIRestartsKeeps ==
  ASSUME IInv, AIRestarts
  PROVE  IInv'
<1> USE DEF IInv, AIRestarts, Calls, row, worker, ai
<1>1. TypeOK'
  BY DEF TypeOK, Sending, Statuses, Settled
<1>2. OneSender'
  BY DEF TypeOK, Sending, OneSender, LedgerIsTrue, Underway
<1>3. UnsentYet'
  BY DEF TypeOK, Sending, OneSender, UnsentYet, LedgerIsTrue, Underway
<1>4. OnTheWire'
  BY DEF TypeOK, Sending, UnsentYet, OnTheWire, ReceiptsAreTrue
<1>5. ReceiptsAreTrue'
  BY DEF TypeOK, Sending, UnsentYet, OnTheWire, ReceiptsAreTrue
<1>6. ResumedAtMostOnce'
  BY DEF TypeOK, OnTheWire, ResumedAtMostOnce
<1>7. LedgerIsTrue'
  BY DEF TypeOK, Sending, Settled, OnTheWire, ReceiptsAreTrue, LedgerIsTrue, Underway
<1> QED
  BY <1>1, <1>2, <1>3, <1>4, <1>5, <1>6, <1>7

(* The inductive invariant: a call exists only after a claim, a claim is    *)
(* made once, and everything the AI service or a worker reports is about    *)
(* that one call.                                                           *)
THEOREM Invariance == Spec => []IInv
<1>1. Init => IInv
  <2> SUFFICES ASSUME Init
               PROVE  IInv
    OBVIOUS
  <2>1. TypeOK
    BY EmptySeq DEF Init, TypeOK, Statuses, Sending
  <2>2. OneSender /\ UnsentYet /\ OnTheWire /\ ReceiptsAreTrue
    BY DEF Init, OneSender, UnsentYet, OnTheWire, ReceiptsAreTrue, Sending
  <2>3. ResumedAtMostOnce /\ LedgerIsTrue
    BY DEF Init, ResumedAtMostOnce, LedgerIsTrue, Underway, Sending
  <2> QED
    BY <2>1, <2>2, <2>3 DEF IInv
<1>2. IInv /\ [Next]_vars => IInv'
  <2> SUFFICES ASSUME IInv, [Next]_vars
               PROVE  IInv'
    OBVIOUS
  <2>1. CASE \E w \in Workers :
               (\E r \in Reviews : Reject(w, r)) \/ RunCommand(w) \/ Crash(w)
    BY <2>1, RejectKeeps, RunCommandKeeps, CrashKeeps
  <2>2. CASE \E w \in Workers : WorkerStep(w)
    BY <2>2, PickKeeps, ClaimKeeps, SendKeeps, ReadAnswerKeeps, TimeOutKeeps,
       MarkKeeps DEF WorkerStep
  <2>3. CASE \E r \in Reviews : InquiryMoves(r)
    BY <2>3, InquiryMovesKeeps
  <2>4. CASE \E c \in Calls : AIReceives(c) \/ AIRefuses(c) \/ AIFinishes(c)
    BY <2>4, AIReceivesKeeps, AIRefusesKeeps, AIFinishesKeeps
  <2>5. CASE AIRestarts
    BY <2>5, AIRestartsKeeps
  <2>6. CASE UNCHANGED vars
    BY <2>6 DEF vars, row, worker, ai, IInv, TypeOK, OneSender, UnsentYet,
       OnTheWire, ReceiptsAreTrue, ResumedAtMostOnce, LedgerIsTrue, Underway
  <2> QED
    BY <2>1, <2>2, <2>3, <2>4, <2>5, <2>6 DEF Next
<1> QED
  BY <1>1, <1>2, PTL DEF Spec

(* human_review_resume_dispatch.py: a started request is never retried, so  *)
(* the language model is called at most once for a rejected review.         *)
THEOREM ResumedOnce == Spec => []ResumedAtMostOnce
<1>1. IInv => ResumedAtMostOnce
  BY DEF IInv
<1> QED
  BY <1>1, Invariance, PTL

(* The status of a dispatch never claims more than is known of the call.    *)
THEOREM LedgerAlwaysTrue == Spec => []LedgerIsTrue
<1>1. IInv => LedgerIsTrue
  BY DEF IInv
<1> QED
  BY <1>1, Invariance, PTL

(* A settled dispatch is never written again, and one under way never goes  *)
(* back to the queue, whatever worker still holds it.                       *)
THEOREM SettledStays == Spec => SettledForGood
<1> DEFINE Step ==
      \A r \in Reviews :
        /\ status[r] \in Settled => status'[r] = status[r]
        /\ status[r] = "DISPATCHING" => status'[r] \in Settled \cup {status[r]}
<1>1. IInv /\ [Next]_vars => [Step]_vars
  <2> SUFFICES ASSUME IInv, Next
               PROVE  Step
    OBVIOUS
  <2> USE DEF IInv, TypeOK, Settled, row, ai
  <2>1. CASE \E w \in Workers, r \in Reviews : Reject(w, r)
    BY <2>1 DEF Reject
  <2>2. CASE \E w \in Workers : Claim(w)
    BY <2>2 DEF Claim
  <2>3. CASE \E w \in Workers : Mark(w)
    BY <2>3 DEF Mark
  <2>4. CASE UNCHANGED status
    BY <2>4
  <2>5. CASE \E w \in Workers : RunCommand(w) \/ Crash(w) \/ Pick(w) \/ Send(w)
                                \/ ReadAnswer(w) \/ TimeOut(w)
    BY <2>5, <2>4 DEF RunCommand, Crash, Pick, Send, ReadAnswer, TimeOut
  <2>6. CASE \/ \E r \in Reviews : InquiryMoves(r)
             \/ \E c \in Calls : AIReceives(c) \/ AIRefuses(c) \/ AIFinishes(c)
             \/ AIRestarts
    BY <2>6, <2>4 DEF InquiryMoves, AIReceives, AIRefuses, AIFinishes, AIRestarts
  <2> QED
    BY <2>1, <2>2, <2>3, <2>5, <2>6 DEF Next, WorkerStep
<1>2. Spec => [][Step]_vars
  BY <1>1, Invariance, PTL DEF Spec
<1> QED
  BY <1>2 DEF SettledForGood, Step
=============================================================================
