--------------------------- MODULE AIServiceProofs ---------------------------
(* Proofs about the AI service, for any number of calls and any limit of    *)
(* worker slots: slots are neither leaked nor freed twice, and a guidance   *)
(* for a customer rests on the evidence the last verification accepted.     *)
EXTENDS AIService, FiniteSetTheorems, TLAPS

-----------------------------------------------------------------------------
(* The inductive invariant. *)

\* The pipeline contexts, a product's approval, an assessment and a search in.
Contexts ==
  [approved : BOOLEAN, risk : Risks \cup {NONE}, asks : BOOLEAN,
   input : {NONE, "asked", "unconfirmed"}, evidence : 0 .. 2,
   outcome : {NONE, "AVAILABLE", "NO_MATCH"},
   guidance : [status : {NONE, "STOP", "PENDING", "NORMAL", "PARTIAL_STOP"},
               from : 0 .. 2],
   captured : 0 .. 2, rejected : SUBSET {"WRONG_MODEL", "UNVERIFIED"},
   tool : {NONE, "context", "search", "search_final"}, late : BOOLEAN,
   retries : 0 .. MaxRetrievalRetries]

\* Evidence and guidance are from attempts that have begun.
FromBegunAttempts(c) ==
  /\ c.evidence <= 1 + c.retries
  /\ c.guidance.from <= 1 + c.retries

\* What the harness is given to verify: a guidance beside evidence was
\* written from it, unless a tool failed or the retry ran out of time.
WrittenFromEvidence(c) ==
  /\ ~c.late
  /\ c.tool = NONE
  /\ Required(c)
  /\ c.evidence # 0
  => c.guidance.from = c.evidence

SoundContext(stage, c) ==
  /\ c \in Contexts
  /\ FromBegunAttempts(c)
  /\ stage = "VERIFY" => WrittenFromEvidence(c)

\* What GuidanceGrounded asks of one result.
Grounded(r) ==
  LET p == r.public
  IN  p.route \in {"AUTO_GUIDANCE", "PRE_SEND_HUMAN_REVIEW"} =>
        /\ p.evidence # 0
        /\ p.guidance.from = p.evidence
        /\ r.accepted = p.evidence
        /\ "WRONG_MODEL" \notin r.rejected

SoundResult(r) ==
  /\ r.fault \in Faults
  /\ r.fault = "OK" => Grounded(r)

Threads == Stages \cup {NONE, "ENDED", "RELEASED"}

Running == {q \in Requests : Alive(q)}

Shape ==
  /\ slots \in Nat
  /\ http \in [Requests -> Handlers]
  /\ token \in [Requests -> BOOLEAN]
  /\ thread \in [Requests -> Threads]
  /\ DOMAIN ctx = Requests
  /\ DOMAIN result = Requests

\* A thread is started by its handler.
NotBegun == \A q \in Requests : http[q] = NONE => thread[q] = NONE

IInv ==
  /\ Shape
  /\ NotBegun
  /\ SlotsAccounted
  /\ \A q \in Requests : SoundContext(thread[q], ctx[q])
  /\ \A q \in Requests : SoundResult(result[q])

-----------------------------------------------------------------------------
(* Slots. *)

(* The slots still add up when no thread starts or is released.             *)
LEMMA SameSlots ==
  ASSUME SlotsAccounted, slots' = slots,
         \A q \in Requests : Alive(q)' <=> Alive(q)
  PROVE  SlotsAccounted'
<1>1. Running' = Running
  BY DEF Running
<1>2. QED
  BY <1>1 DEF SlotsAccounted, Running

(* Running threads are counted.                                             *)
LEMMA RunningFinite == IsFiniteSet(Running) /\ Cardinality(Running) \in Nat
<1>1. Running \subseteq Requests
  BY DEF Running
<1>2. IsFiniteSet(Running)
  BY <1>1, AIServiceAssumption, FS_Subset
<1>3. QED
  BY <1>2, FS_CardinalityType

(* A thread that starts takes a slot.                                       *)
LEMMA SlotTaken ==
  ASSUME Shape, SlotsAccounted, NEW q \in Requests, ~Alive(q),
         slots > 0, slots' = slots - 1,
         Alive(q)', \A p \in Requests \ {q} : Alive(p)' <=> Alive(p)
  PROVE  slots' \in Nat /\ SlotsAccounted'
<1>1. Running' = Running \cup {q} /\ q \notin Running
  BY DEF Running
<1>2. Cardinality(Running') = Cardinality(Running) + 1
  BY <1>1, RunningFinite, FS_AddElement
<1>3. slots + Cardinality(Running) = Limit /\ slots \in Nat
  BY DEF SlotsAccounted, Running, Shape
<1>4. slots' + Cardinality(Running') = Limit /\ slots' \in Nat
  BY <1>2, <1>3, RunningFinite
<1>5. QED
  BY <1>4 DEF SlotsAccounted, Running

(* A thread that is released gives it back.                                 *)
LEMMA SlotGivenBack ==
  ASSUME Shape, SlotsAccounted, NEW q \in Requests, Alive(q),
         slots' = slots + 1,
         ~Alive(q)', \A p \in Requests \ {q} : Alive(p)' <=> Alive(p)
  PROVE  slots' \in Nat /\ SlotsAccounted'
<1>1. Running' = Running \ {q} /\ q \in Running
  BY DEF Running
<1>2. Cardinality(Running') = Cardinality(Running) - 1
  BY <1>1, RunningFinite, FS_RemoveElement
<1>3. slots + Cardinality(Running) = Limit /\ slots \in Nat
  BY DEF SlotsAccounted, Running, Shape
<1>4. slots' + Cardinality(Running') = Limit /\ slots' \in Nat
  BY <1>2, <1>3, RunningFinite
<1>5. QED
  BY <1>4 DEF SlotsAccounted, Running

-----------------------------------------------------------------------------
(* Contexts and results that a step writes. *)

(* A new context is sound, in whatever stage.                               *)
LEMMA NewIsSound ==
  ASSUME NEW p \in BOOLEAN, NEW stage
  PROVE  SoundContext(stage, NewContext(p))
<1>1. NewContext(p) \in Contexts
  BY DEF NewContext, NoGuidance, Guidance, Contexts, Risks, MaxRetrievalRetries
<1>2. QED
  BY <1>1 DEF SoundContext, FromBegunAttempts, WrittenFromEvidence, NewContext,
              NoGuidance, Guidance

(* So is a result that is an error, or none.                                *)
LEMMA FaultIsSound ==
  ASSUME NEW f \in Faults \ {"OK"}
  PROVE  SoundResult([fault |-> f])
BY DEF SoundResult

(* A thread that goes on keeps the invariant with a sound context.          *)
LEMMA GoOnStep ==
  ASSUME IInv, NEW q \in Requests, thread[q] \in Stages,
         NEW stage \in Stages, NEW c, SoundContext(stage, c),
         GoOn(q, stage, c)
  PROVE  IInv'
<1> USE DEF IInv
<1>1. /\ thread' = [thread EXCEPT ![q] = stage]
      /\ ctx' = [ctx EXCEPT ![q] = c]
      /\ UNCHANGED <<slots, http, token, result>>
  BY DEF GoOn
<1>2. Shape'
  BY <1>1 DEF Shape, Threads
<1>3. SlotsAccounted'
  <2>1. \A p \in Requests : Alive(p)' <=> Alive(p)
    BY <1>1 DEF Alive, Shape
  <2>2. QED
    BY <1>1, <2>1, SameSlots
<1>4. NotBegun'
  BY <1>1 DEF NotBegun, Shape, Stages, NONE
<1>5. \A p \in Requests : SoundContext(thread'[p], ctx'[p])
  BY <1>1 DEF Shape
<1>6. \A p \in Requests : SoundResult(result'[p])
  BY <1>1
<1>7. QED
  BY <1>2, <1>3, <1>4, <1>5, <1>6

(* A thread that ends keeps the invariant with a sound result.              *)
LEMMA FinishStep ==
  ASSUME IInv, NEW q \in Requests, thread[q] \in Stages,
         NEW r, SoundResult(r), Finish(q, r)
  PROVE  IInv'
<1> USE DEF IInv
<1>1. /\ thread' = [thread EXCEPT ![q] = "ENDED"]
      /\ ctx' = [ctx EXCEPT ![q] = NewContext(TRUE)]
      /\ result' = [result EXCEPT ![q] = IF http[q] = "WAITING" THEN r ELSE NoResult]
      /\ UNCHANGED <<slots, http, token>>
  BY DEF Finish
<1>2. Shape'
  BY <1>1 DEF Shape, Threads
<1>3. SlotsAccounted'
  <2>1. \A p \in Requests : Alive(p)' <=> Alive(p)
    BY <1>1 DEF Alive, Shape
  <2>2. QED
    BY <1>1, <2>1, SameSlots
<1>4. NotBegun'
  BY <1>1 DEF NotBegun, Shape, Stages, NONE
<1>5. \A p \in Requests : SoundContext(thread'[p], ctx'[p])
  <2>1. SoundContext("ENDED", NewContext(TRUE))
    BY NewIsSound
  <2>2. QED
    BY <1>1, <2>1 DEF Shape
<1>6. \A p \in Requests : SoundResult(result'[p])
  <2>1. SoundResult(NoResult)
    BY FaultIsSound DEF NoResult, Faults, NONE
  <2>2. QED
    BY <1>1, <2>1 DEF Shape
<1>7. QED
  BY <1>2, <1>3, <1>4, <1>5, <1>6

-----------------------------------------------------------------------------
(* The handler. *)

(* Admission, refusal, timeout, cancellation, answer and release.           *)
LEMMA HandlerStep ==
  ASSUME IInv, NEW q \in Requests,
         \/ Admit(q) \/ Refuse(q) \/ TimeOut(q) \/ Abandon(q) \/ Answer(q)
         \/ Release(q)
  PROVE  IInv'
<1> USE DEF IInv
<1>1. CASE Admit(q)
  <2>1. PICK p \in BOOLEAN : ctx' = [ctx EXCEPT ![q] = NewContext(p)]
    BY <1>1 DEF Admit
  <2>2. /\ http[q] = NONE /\ slots > 0 /\ slots' = slots - 1
        /\ http' = [http EXCEPT ![q] = "WAITING"]
        /\ thread' = [thread EXCEPT ![q] = "ASSESS"]
        /\ UNCHANGED <<token, result>>
    BY <1>1 DEF Admit
  <2>3. thread[q] = NONE
    BY <2>2 DEF NotBegun
  <2>4. slots' \in Nat /\ SlotsAccounted'
    <3>1. ~Alive(q)
      BY <2>3 DEF Alive, Stages, NONE
    <3>2. Alive(q)' /\ \A r \in Requests \ {q} : Alive(r)' <=> Alive(r)
      BY <2>2 DEF Alive, Stages, Shape
    <3>3. QED
      BY <2>2, <3>1, <3>2, SlotTaken
  <2>5. Shape'
    BY <2>1, <2>2, <2>4 DEF Shape, Handlers, Threads, Stages
  <2>6. NotBegun'
    BY <2>2 DEF NotBegun, Shape, NONE
  <2>7. \A r \in Requests : SoundContext(thread'[r], ctx'[r])
    <3>1. SoundContext("ASSESS", NewContext(p))
      BY NewIsSound
    <3>2. QED
      BY <2>1, <2>2, <3>1 DEF Shape
  <2>8. QED
    BY <2>2, <2>4, <2>5, <2>6, <2>7
<1>2. CASE Release(q)
  <2>1. /\ thread[q] = "ENDED" /\ slots' = slots + 1
        /\ thread' = [thread EXCEPT ![q] = "RELEASED"]
        /\ UNCHANGED <<http, token, ctx, result>>
    BY <1>2 DEF Release
  <2>2. slots' \in Nat /\ SlotsAccounted'
    <3>1. Alive(q)
      BY <2>1 DEF Alive
    <3>2. ~Alive(q)' /\ \A r \in Requests \ {q} : Alive(r)' <=> Alive(r)
      BY <2>1 DEF Alive, Stages, Shape
    <3>3. QED
      BY <2>1, <3>1, <3>2, SlotGivenBack
  <2>3. Shape'
    BY <2>1, <2>2 DEF Shape, Threads
  <2>4. NotBegun'
    BY <2>1 DEF NotBegun, Shape, NONE
  <2>5. \A r \in Requests : SoundContext(thread'[r], ctx'[r])
    BY <2>1 DEF Shape, SoundContext
  <2>6. QED
    BY <2>1, <2>2, <2>3, <2>4, <2>5
<1>3. CASE Refuse(q) \/ TimeOut(q) \/ Abandon(q) \/ Answer(q)
  <2>1. /\ UNCHANGED <<slots, thread, ctx>>
        /\ \E h \in Handlers \ {NONE} : http' = [http EXCEPT ![q] = h]
        /\ token' \in [Requests -> BOOLEAN]
        /\ result' = result \/ result' = [result EXCEPT ![q] = NoResult]
    BY <1>3 DEF Refuse, TimeOut, Abandon, Answer, Handlers, NONE, Shape
  <2>2. Shape'
    BY <2>1 DEF Shape
  <2>3. SlotsAccounted'
    <3>1. \A p \in Requests : Alive(p)' <=> Alive(p)
      BY <2>1 DEF Alive
    <3>2. QED
      BY <2>1, <3>1, SameSlots
  <2>4. NotBegun'
    BY <2>1 DEF NotBegun, Shape
  <2>5. \A r \in Requests : SoundResult(result'[r])
    <3>1. SoundResult(NoResult)
      BY FaultIsSound DEF NoResult, Faults, NONE
    <3>2. QED
      BY <2>1, <3>1 DEF Shape
  <2>6. QED
    BY <2>1, <2>2, <2>3, <2>4, <2>5
<1>4. QED
  BY <1>1, <1>2, <1>3

-----------------------------------------------------------------------------
(* The stages of the pipeline. *)

(* The assessment keeps the context sound.                                  *)
LEMMA AssessStep ==
  ASSUME IInv, NEW q \in Requests,
         \/ ContextFails(q) \/ AssessDanger(q) \/ AwaitCustomer(q)
         \/ AssessComplete(q)
  PROVE  IInv'
<1> DEFINE c == ctx[q]
<1>1. /\ c \in Contexts /\ FromBegunAttempts(c)
      /\ thread[q] \in Stages
      /\ {"GENERATE", "VERIFY", "RETRIEVE"} \subseteq Stages
  BY DEF IInv, SoundContext, ContextFails, AssessDanger, AwaitCustomer,
         AssessComplete, At, Stages
<1>2. CASE ContextFails(q)
  <2>1. PICK r \in Risks :
          GoOn(q, "VERIFY", [c EXCEPT !.risk = r, !.tool = "context"])
    BY <1>2 DEF ContextFails
  <2> DEFINE d == [c EXCEPT !.risk = r, !.tool = "context"]
  <2>2. d \in Contexts /\ d.tool # NONE
    BY <1>1 DEF Contexts, NONE
  <2>3. FromBegunAttempts(d)
    BY <1>1 DEF FromBegunAttempts, Contexts
  <2> HIDE DEF d
  <2>4. SoundContext("VERIFY", d)
    BY <2>2, <2>3 DEF SoundContext, WrittenFromEvidence
  <2>5. GoOn(q, "VERIFY", d)
    BY <2>1 DEF d
  <2>6. QED
    BY <1>1, <2>4, <2>5, GoOnStep
<1>3. CASE AssessDanger(q)
  <2> DEFINE d == [c EXCEPT !.risk = "danger"]
  <2>1. GoOn(q, "GENERATE", d)
    BY <1>3 DEF AssessDanger
  <2>2. d \in Contexts
    BY <1>1 DEF Contexts, Risks
  <2>3. FromBegunAttempts(d)
    BY <1>1 DEF FromBegunAttempts, Contexts
  <2> HIDE DEF d
  <2>4. SoundContext("GENERATE", d)
    BY <2>2, <2>3 DEF SoundContext
  <2>5. QED
    BY <1>1, <2>1, <2>4, GoOnStep
<1>4. CASE AwaitCustomer(q)
  <2>1. PICK i \in {"asked", "unconfirmed"} :
          GoOn(q, "VERIFY", [c EXCEPT !.risk = "caution", !.input = i,
                                      !.guidance = Guidance("PENDING", 0)])
    BY <1>4 DEF AwaitCustomer
  <2> DEFINE d == [c EXCEPT !.risk = "caution", !.input = i,
                            !.guidance = Guidance("PENDING", 0)]
  <2>2. d \in Contexts /\ d.input # NONE
    <3> DEFINE e == [c EXCEPT !.risk = "caution", !.input = i]
    <3>1. e \in Contexts /\ e.input # NONE
      BY <1>1 DEF Contexts, Risks, NONE
    <3>2. d = [e EXCEPT !.guidance = Guidance("PENDING", 0)]
      BY <1>1
    <3> HIDE DEF e, d
    <3>3. QED
      BY <3>1, <3>2 DEF Contexts, Guidance
  <2>3. FromBegunAttempts(d)
    BY <1>1 DEF FromBegunAttempts, Contexts, Guidance, MaxRetrievalRetries
  <2> HIDE DEF d
  <2>4. SoundContext("VERIFY", d)
    BY <2>2, <2>3 DEF SoundContext, WrittenFromEvidence, Required
  <2>5. GoOn(q, "VERIFY", d)
    BY <2>1 DEF d
  <2>6. QED
    BY <1>1, <2>4, <2>5, GoOnStep
<1>5. CASE AssessComplete(q)
  <2>1. PICK r \in Risks \ {"danger"}, a \in BOOLEAN :
          GoOn(q, "RETRIEVE", [c EXCEPT !.risk = r, !.asks = a])
    BY <1>5 DEF AssessComplete
  <2> DEFINE d == [c EXCEPT !.risk = r, !.asks = a]
  <2>2. d \in Contexts
    BY <1>1 DEF Contexts
  <2>3. FromBegunAttempts(d)
    BY <1>1 DEF FromBegunAttempts, Contexts
  <2> HIDE DEF d
  <2>4. SoundContext("RETRIEVE", d)
    BY <2>2, <2>3 DEF SoundContext
  <2>5. GoOn(q, "RETRIEVE", d)
    BY <2>1 DEF d
  <2>6. QED
    BY <1>1, <2>4, <2>5, GoOnStep
<1>6. QED
  BY <1>2, <1>3, <1>4, <1>5

(* So do the guarded search and its failures.                               *)
LEMMA SearchStep ==
  ASSUME IInv, NEW q \in Requests, Search(q) \/ SearchToolFails(q)
  PROVE  IInv'
<1> DEFINE c == ctx[q]
<1>1. /\ c \in Contexts /\ FromBegunAttempts(c)
      /\ thread[q] \in Stages
      /\ {"GENERATE", "VERIFY"} \subseteq Stages
  BY DEF IInv, SoundContext, Search, SearchToolFails, At, Stages
<1>2. CASE SearchToolFails(q)
  <2>1. PICK t \in {"search", "search_final"} :
          GoOn(q, "VERIFY", [c EXCEPT !.tool = t])
    BY <1>2 DEF SearchToolFails
  <2> DEFINE d == [c EXCEPT !.tool = t]
  <2>2. d \in Contexts /\ d.tool # NONE
    BY <1>1 DEF Contexts, NONE
  <2>3. FromBegunAttempts(d)
    BY <1>1 DEF FromBegunAttempts, Contexts
  <2> HIDE DEF d
  <2>4. SoundContext("VERIFY", d)
    BY <2>2, <2>3 DEF SoundContext, WrittenFromEvidence
  <2>5. GoOn(q, "VERIFY", d)
    BY <2>1 DEF d
  <2>6. QED
    BY <1>1, <2>4, <2>5, GoOnStep
<1>3. CASE Search(q)
  <2>1. PICK found \in BOOLEAN, bad \in SUBSET {"WRONG_MODEL", "UNVERIFIED"} :
          LET n == 1 + ctx[q].retries
              k == IF found /\ ctx[q].approved THEN n ELSE 0
              e == [ctx[q] EXCEPT
                      !.evidence = k,
                      !.captured = k,
                      !.rejected = IF ctx[q].approved THEN bad ELSE {},
                      !.outcome = IF k > 0 THEN "AVAILABLE" ELSE "NO_MATCH"]
          IN  GoOn(q, AfterSearch(e), e)
    BY <1>3 DEF Search
  <2> DEFINE k == IF found /\ c.approved THEN 1 + c.retries ELSE 0
             b == IF c.approved THEN bad ELSE {}
             o == IF k > 0 THEN "AVAILABLE" ELSE "NO_MATCH"
             d == [c EXCEPT !.evidence = k, !.captured = k, !.rejected = b,
                            !.outcome = o]
  <2>2. GoOn(q, AfterSearch(d), d)
    BY <2>1
  <2>3. /\ k \in 0 .. 2 /\ k <= 1 + c.retries
        /\ b \in SUBSET {"WRONG_MODEL", "UNVERIFIED"}
        /\ o \in {NONE, "AVAILABLE", "NO_MATCH"}
    BY <1>1 DEF Contexts, MaxRetrievalRetries
  <2> HIDE DEF k, b, o
  <2>4. d \in Contexts
    BY <1>1, <2>3 DEF Contexts
  <2>5. FromBegunAttempts(d)
    BY <1>1, <2>3 DEF FromBegunAttempts, Contexts
  <2> HIDE DEF d
  <2>6. AfterSearch(d) \in Stages /\ SoundContext(AfterSearch(d), d)
    BY <1>1, <2>4, <2>5 DEF AfterSearch, SoundContext, WrittenFromEvidence
  <2>7. QED
    BY <1>1, <2>2, <2>6, GoOnStep
<1>4. QED
  BY <1>2, <1>3

(* A generation writes from the evidence of the context.                    *)
LEMMA GenerateStep ==
  ASSUME IInv, NEW q \in Requests, Generate(q)
  PROVE  IInv'
<1> DEFINE c == ctx[q]
<1>1. /\ c \in Contexts /\ FromBegunAttempts(c)
      /\ thread[q] \in Stages /\ "VERIFY" \in Stages
  BY DEF IInv, SoundContext, Generate, At, Stages
<1>2. c.evidence \in 0 .. 2 /\ c.retries \in 0 .. 1 /\ c.evidence <= 1 + c.retries
  BY <1>1 DEF Contexts, FromBegunAttempts, MaxRetrievalRetries
<1>3. CASE c.risk = "danger"
  <2> DEFINE d == [c EXCEPT !.guidance = Guidance("STOP", 0)]
  <2>1. GoOn(q, "VERIFY", d)
    BY <1>3 DEF Generate
  <2>2. d \in Contexts /\ d.risk = "danger"
    BY <1>1, <1>3 DEF Contexts, Guidance
  <2>3. FromBegunAttempts(d)
    BY <1>1 DEF FromBegunAttempts, Contexts, Guidance, MaxRetrievalRetries
  <2> HIDE DEF d
  <2>4. SoundContext("VERIFY", d)
    BY <2>2, <2>3 DEF SoundContext, WrittenFromEvidence, Required
  <2>5. QED
    BY <1>1, <2>1, <2>4, GoOnStep
<1>4. CASE c.risk # "danger" /\ c.evidence = 0
  <2> DEFINE d == [c EXCEPT !.guidance = Guidance("PENDING", 0), !.risk = "caution"]
  <2>1. GoOn(q, "VERIFY", d)
    BY <1>4 DEF Generate
  <2>2. d \in Contexts /\ d.evidence = 0
    BY <1>1, <1>4 DEF Contexts, Guidance, Risks
  <2>3. FromBegunAttempts(d)
    BY <1>1 DEF FromBegunAttempts, Contexts, Guidance, MaxRetrievalRetries
  <2> HIDE DEF d
  <2>4. SoundContext("VERIFY", d)
    BY <2>2, <2>3 DEF SoundContext, WrittenFromEvidence
  <2>5. QED
    BY <1>1, <2>1, <2>4, GoOnStep
<1>5. CASE c.risk # "danger" /\ c.evidence # 0
  <2> DEFINE s == IF c.risk = "general" THEN "NORMAL" ELSE "PARTIAL_STOP"
             d == [c EXCEPT !.guidance = Guidance(s, c.evidence)]
  <2>1. GoOn(q, "VERIFY", d)
    BY <1>5 DEF Generate
  <2>2. s \in {"NORMAL", "PARTIAL_STOP"}
    OBVIOUS
  <2> HIDE DEF s
  <2>3. d \in Contexts
    BY <1>1, <1>2, <2>2 DEF Contexts, Guidance
  <2>4. d.evidence = c.evidence /\ d.guidance.from = c.evidence /\ d.retries = c.retries
    BY <1>1 DEF Contexts, Guidance
  <2> HIDE DEF d
  <2>5. SoundContext("VERIFY", d)
    BY <1>2, <2>3, <2>4 DEF SoundContext, WrittenFromEvidence, FromBegunAttempts
  <2>6. QED
    BY <1>1, <2>1, <2>5, GoOnStep
<1>6. QED
  BY <1>3, <1>4, <1>5

(* A stage fails, is cancelled or runs out of time; a retrieval is repeated.*)
LEMMA TurnStep ==
  ASSUME IInv, NEW q \in Requests,
         \/ StageFails(q) \/ StageTimesOut(q) \/ NoticeCancel(q) \/ Retry(q)
  PROVE  IInv'
<1> DEFINE c == ctx[q]
<1>1. /\ c \in Contexts /\ FromBegunAttempts(c)
      /\ thread[q] \in Stages
      /\ {"RETRIEVE", "VERIFY"} \subseteq Stages
  BY DEF IInv, SoundContext, StageFails, StageTimesOut, NoticeCancel, Retry, Stages
<1>2. ASSUME NEW f \in {"FAILED", "CANCELLED", "STAGE_TIMEOUT"},
             Finish(q, [fault |-> f])
      PROVE  IInv'
  <2>1. f \in Faults \ {"OK"}
    BY <1>2 DEF Faults
  <2>2. SoundResult([fault |-> f])
    BY <2>1, FaultIsSound
  <2>3. QED
    BY <1>1, <1>2, <2>2, FinishStep
<1>3. CASE GoOn(q, "VERIFY", [c EXCEPT !.late = TRUE])
  <2> DEFINE d == [c EXCEPT !.late = TRUE]
  <2>1. d \in Contexts /\ d.late
    BY <1>1 DEF Contexts
  <2>2. FromBegunAttempts(d)
    BY <1>1 DEF FromBegunAttempts, Contexts
  <2>3. GoOn(q, "VERIFY", d)
    BY <1>3
  <2> HIDE DEF d
  <2>4. SoundContext("VERIFY", d)
    BY <2>1, <2>2 DEF SoundContext, WrittenFromEvidence
  <2>5. QED
    BY <1>1, <2>3, <2>4, GoOnStep
<1>4. CASE Retry(q)
  <2> DEFINE d == [c EXCEPT !.retries = c.retries + 1, !.tool = NONE,
                            !.captured = 0, !.rejected = {}]
  <2>1. GoOn(q, "RETRIEVE", d)
    BY <1>4 DEF Retry
  <2>2. c.retries = 0
    BY <1>1, <1>4 DEF Retry, Exhausted, MaxRetrievalRetries, Contexts
  <2>3. d \in Contexts
    <3> DEFINE R == 0 .. MaxRetrievalRetries
               B == SUBSET {"WRONG_MODEL", "UNVERIFIED"}
               n == c.retries + 1
               none == {}
    <3>1. n \in R /\ none \in B /\ 0 \in 0 .. 2
      BY <2>2 DEF MaxRetrievalRetries
    <3>2. d = [c EXCEPT !.retries = n, !.tool = NONE, !.captured = 0, !.rejected = none]
      OBVIOUS
    <3> HIDE DEF d, n, none
    <3>3. QED
      BY <1>1, <3>1, <3>2 DEF Contexts
  <2>4. FromBegunAttempts(d)
    BY <1>1, <2>2 DEF FromBegunAttempts, Contexts
  <2> HIDE DEF d
  <2>5. SoundContext("RETRIEVE", d)
    BY <2>3, <2>4 DEF SoundContext
  <2>6. QED
    BY <1>1, <2>1, <2>5, GoOnStep
<1>5. QED
  BY <1>2, <1>3, <1>4 DEF StageFails, StageTimesOut, NoticeCancel

-----------------------------------------------------------------------------
(* The verdict of the harness. *)

\* The result that Return hands to the handler.
Outcome(c, f, escalated, note) ==
  [fault |-> "OK", public |-> Public(c, f, escalated), note |-> note,
   accepted |-> Verified(c), rejected |-> c.rejected]

(* What a passing verdict has seen.                                         *)
LEMMA PassFacts ==
  ASSUME NEW c, Verdict(c) = "PASS"
  PROVE  /\ ~c.late /\ c.approved /\ c.tool = NONE
         /\ Verified(c) = Accepted(c)
         /\ Required(c) => Accepted(c) # 0 /\ "WRONG_MODEL" \notin c.rejected
<1>1. ~c.late /\ c.approved
  BY DEF Verdict
<1>2. c.tool = NONE
  BY <1>1 DEF Verdict
<1>3. Required(c) => Accepted(c) # 0 /\ "WRONG_MODEL" \notin c.rejected
  BY <1>1, <1>2 DEF Verdict
<1>4. QED
  BY <1>1, <1>2, <1>3 DEF Verified

(* An answer that goes to the customer is a success of the routing policy.  *)
LEMMA CustomerRoutes ==
  ASSUME NEW c, NEW f \in Contexts, NEW escalated \in BOOLEAN,
         Public(c, f, escalated).route \in {"AUTO_GUIDANCE", "PRE_SEND_HUMAN_REVIEW"}
  PROVE  /\ ~escalated
         /\ f.risk # "danger" /\ f.input = NONE /\ f.evidence # 0
         /\ Public(c, f, escalated).evidence = f.evidence
         /\ Public(c, f, escalated).guidance = f.guidance
<1> DEFINE p == Public(c, f, escalated)
<1>1. PublicStage(f, escalated) = NONE
  <2>1. PublicStage(f, escalated) # NONE =>
          p.route = "FAIL_CLOSED_CONSULTATION"
    BY DEF Public, Fallback
  <2>2. QED
    BY <2>1
<1>2. Disposition(f) # "INVALID"
  <2>1. Disposition(f) = "INVALID" => p.route = "FAIL_CLOSED_CONSULTATION"
    BY <1>1 DEF Public, Fallback
  <2>2. QED
    BY <2>1
<1>3. p.route = Disposition(f) /\ p.evidence = f.evidence /\ p.guidance = f.guidance
  BY <1>1, <1>2 DEF Public
<1>4. ~FoundNothing(f) /\ ~escalated /\ f.input # "unconfirmed"
  BY <1>1 DEF PublicStage, NONE
<1>5. f.risk # "danger" /\ f.input # "asked" /\ f.evidence # 0
  <2>1. Disposition(f) \in {"AUTO_GUIDANCE", "PRE_SEND_HUMAN_REVIEW"}
    BY <1>3
  <2>2. QED
    BY <2>1 DEF Disposition, NONE
<1>6. f.input \in {NONE, "asked", "unconfirmed"}
  BY DEF Contexts
<1>7. QED
  BY <1>3, <1>4, <1>5, <1>6

(* A guidance that passes was written from the evidence that was accepted.  *)
LEMMA PassGrounded ==
  ASSUME NEW c \in Contexts, SoundContext("VERIFY", c), Verdict(c) = "PASS",
         NEW note
  PROVE  Grounded(Outcome(c, c, FALSE, note))
<1> DEFINE p == Public(c, c, FALSE)
           r == Outcome(c, c, FALSE, note)
<1>1. r.public = p /\ r.accepted = Verified(c) /\ r.rejected = c.rejected
  BY DEF Outcome
<1> HIDE DEF r
<1>2. SUFFICES ASSUME p.route \in {"AUTO_GUIDANCE", "PRE_SEND_HUMAN_REVIEW"}
               PROVE  /\ p.evidence # 0
                      /\ p.guidance.from = p.evidence
                      /\ Verified(c) = p.evidence
                      /\ "WRONG_MODEL" \notin c.rejected
  BY <1>1 DEF Grounded, r
<1>3. /\ c.risk # "danger" /\ c.input = NONE /\ c.evidence # 0
      /\ p.evidence = c.evidence /\ p.guidance = c.guidance
  BY <1>2, CustomerRoutes
<1> HIDE DEF p
<1>4. Required(c)
  BY <1>3 DEF Required
<1>5. c.guidance.from = c.evidence
  BY <1>3, <1>4, PassFacts DEF SoundContext, WrittenFromEvidence
<1>6. Verified(c) = c.evidence /\ "WRONG_MODEL" \notin c.rejected
  BY <1>4, PassFacts DEF Accepted
<1>7. QED
  BY <1>3, <1>5, <1>6

(* The answer to an escalation is a fallback.                               *)
LEMMA EscalatedAnswer ==
  ASSUME NEW c, NEW f
  PROVE  Public(c, f, TRUE).route = "FAIL_CLOSED_CONSULTATION"
<1>1. PublicStage(f, TRUE) # NONE
  BY DEF PublicStage, NONE
<1>2. QED
  BY <1>1 DEF Public, Fallback

(* The verdict on a context is a sound result.                              *)
LEMMA VerdictStep ==
  ASSUME IInv, NEW q \in Requests, Pass(q) \/ Escalate(q)
  PROVE  IInv'
<1> DEFINE c == ctx[q]
<1>1. /\ thread[q] = "VERIFY" /\ thread[q] \in Stages
      /\ SoundContext("VERIFY", c) /\ c \in Contexts
  BY DEF IInv, Pass, Escalate, Stages, SoundContext
<1>2. ASSUME NEW r, r.fault = "OK", Grounded(r)
      PROVE  SoundResult(r)
  BY <1>2 DEF SoundResult, Faults
<1>3. CASE Pass(q)
  <2> DEFINE note == IF c.risk = "danger" THEN Note("DANGER_PRIORITY", c) ELSE NoNote
             r == Outcome(c, c, FALSE, note)
  <2>1. Verdict(c) = "PASS" /\ Finish(q, r)
    BY <1>3 DEF Pass, Return, Outcome
  <2>2. Grounded(r)
    BY <1>1, <2>1, PassGrounded
  <2>3. r.fault = "OK"
    BY DEF Outcome
  <2> HIDE DEF r
  <2>4. QED
    BY <1>1, <1>2, <2>1, <2>2, <2>3, FinishStep
<1>4. CASE Escalate(q)
  <2> DEFINE f == Blocked(c)
             r == Outcome(c, f, TRUE, Note(EscalationReason(c), f))
  <2>1. Finish(q, r)
    BY <1>4 DEF Escalate, Return, Outcome
  <2>2. r.fault = "OK" /\ r.public = Public(c, f, TRUE)
    BY DEF Outcome
  <2> HIDE DEF r
  <2>3. Grounded(r)
    <3>1. r.public.route = "FAIL_CLOSED_CONSULTATION"
      BY <2>2, EscalatedAnswer
    <3>2. QED
      BY <3>1 DEF Grounded
  <2>4. QED
    BY <1>1, <1>2, <2>1, <2>2, <2>3, FinishStep
<1>5. QED
  BY <1>3, <1>4

-----------------------------------------------------------------------------
(* The invariant, and what the runs check. *)

(* A service that has just started satisfies it.                            *)
LEMMA InitIInv == Init => IInv
<1> SUFFICES ASSUME Init
             PROVE  IInv
  OBVIOUS
<1>1. Shape
  BY AIServiceAssumption DEF Init, Shape, Handlers, Threads
<1>2. NotBegun
  BY DEF Init, NotBegun
<1>3. SlotsAccounted
  <2>1. {q \in Requests : Alive(q)} = {}
    BY DEF Init, Alive, Stages, NONE
  <2>2. QED
    BY <2>1, FS_EmptySet, AIServiceAssumption DEF Init, SlotsAccounted
<1>4. \A q \in Requests : SoundContext(thread[q], ctx[q])
  BY NewIsSound DEF Init
<1>5. \A q \in Requests : SoundResult(result[q])
  <2>1. SoundResult(NoResult)
    BY FaultIsSound DEF NoResult, Faults, NONE
  <2>2. QED
    BY <2>1 DEF Init
<1>6. QED
  BY <1>1, <1>2, <1>3, <1>4, <1>5 DEF IInv

(* The inductive invariant holds in every state of the AI service.          *)
THEOREM Invariance == Spec => []IInv
<1>1. ASSUME IInv, Next
      PROVE  IInv'
  <2>1. PICK q \in Requests :
          \/ Admit(q) \/ Refuse(q) \/ TimeOut(q) \/ Abandon(q) \/ Answer(q)
          \/ Release(q) \/ Work(q)
    BY <1>1 DEF Next
  <2>2. CASE Work(q)
    BY <1>1, <2>2, AssessStep, SearchStep, GenerateStep, TurnStep, VerdictStep
       DEF Work
  <2>3. QED
    BY <1>1, <2>1, <2>2, HandlerStep
<1>2. ASSUME IInv, UNCHANGED vars
      PROVE  IInv'
  <2>1. UNCHANGED <<slots, http, token, thread, ctx, result>>
    BY <1>2 DEF vars
  <2>2. SlotsAccounted'
    <3>1. \A q \in Requests : Alive(q)' <=> Alive(q)
      BY <2>1 DEF Alive
    <3>2. QED
      BY <1>2, <2>1, <3>1, SameSlots DEF IInv
  <2>3. QED
    BY <1>2, <2>1, <2>2 DEF IInv, Shape, NotBegun
<1>3. QED
  BY <1>1, <1>2, InitIInv, PTL DEF Spec

(* Slots, handlers, threads and contexts keep their types, and no evidence  *)
(* is from an attempt that has not begun.                                   *)
THEOREM TypeCorrect == Spec => []TypeOK
<1>1. IInv => TypeOK
  <2> SUFFICES ASSUME IInv
               PROVE  TypeOK
    OBVIOUS
  <2>1. slots \in 0 .. Limit
    <3>1. slots \in Nat /\ slots + Cardinality(Running) = Limit
      BY DEF IInv, Shape, SlotsAccounted, Running
    <3>2. QED
      BY <3>1, RunningFinite, AIServiceAssumption
  <2>2. ASSUME NEW q \in Requests
        PROVE  /\ result[q].fault \in Faults
               /\ ctx[q].retries \in 0 .. MaxRetrievalRetries
               /\ ctx[q].evidence \in 0 .. 1 + ctx[q].retries
               /\ ctx[q].guidance.from \in 0 .. 1 + ctx[q].retries
    <3>1. result[q].fault \in Faults
      BY DEF IInv, SoundResult
    <3>2. ctx[q] \in Contexts /\ FromBegunAttempts(ctx[q])
      BY DEF IInv, SoundContext
    <3>3. QED
      BY <3>1, <3>2 DEF Contexts, FromBegunAttempts, MaxRetrievalRetries
  <2>3. QED
    BY <2>1, <2>2 DEF IInv, Shape, Threads, TypeOK
<1>2. QED
  BY <1>1, Invariance, PTL

(* Free slots and running threads always add up to the limit.               *)
THEOREM SlotsAlwaysAccounted == Spec => []SlotsAccounted
<1>1. IInv => SlotsAccounted
  BY DEF IInv
<1>2. QED
  BY <1>1, Invariance, PTL

(* A guidance for a customer was written from the evidence it cites, which  *)
(* the last verification accepted.                                          *)
THEOREM GuidanceAlwaysGrounded == Spec => []GuidanceGrounded
<1>1. IInv => GuidanceGrounded
  BY DEF IInv, SoundResult, Grounded, GuidanceGrounded
<1>2. QED
  BY <1>1, Invariance, PTL

===============================================================================
