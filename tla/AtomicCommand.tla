---------------------------- MODULE AtomicCommand ----------------------------
(* What the write API promises a client (concurrency-policy.yaml,            *)
(* "idempotency" and "state_version"), with no lock, row or transaction in   *)
(* sight: a request takes effect in one step, on the version its sender      *)
(* knew, once per Idempotency-Key; every other request under that key gets   *)
(* the stored answer or a conflict.                                          *)
EXTENDS Naturals, FiniteSets

CONSTANTS
  Attempts,     \* executions of HTTP requests; a resend is another attempt
  Keys,         \* idempotency scopes: actor, operation and Idempotency-Key
  Inquiries,    \* the inquiries that requests name
  OPENING,      \* the target of a request that opens an inquiry
  MaxVersion    \* bound on state_version

ASSUME CommandAssumption ==
  /\ MaxVersion \in Nat \ {0}
  /\ OPENING \notin Inquiries
  /\ IsFiniteSet(Keys)

VARIABLES
  version,   \* Inquiry.state_version of each inquiry
  record,    \* the committed IdempotencyRecord of each key
  effects,   \* how often the write of a key was committed
  sent,      \* key and body of each attempt
  reply      \* what the attempt was answered

\* Body of a request: its target and the state_version its sender knew,
\* 0 for a request that opens an inquiry and sends none.
Bodies ==
  [target : Inquiries, version : 1 .. MaxVersion]
    \cup [target : {OPENING}, version : {0}]

Requests == [key : Keys, body : Bodies]

\* An attempt that has not been sent, and a key without a record.
NoBody == [target |-> OPENING, version |-> 1]
NotSent == [key |-> "none", body |-> NoBody]
NoRecord == [body |-> NoBody, version |-> 0]

Records == [body : Bodies, version : 1 .. MaxVersion + 1]

\* code is what the client can tell apart; version the stored response.
Reply(code, v) == [code |-> code, version |-> v]

NoReply == Reply("none", 0)

\* A committed write, its replay, and the three refusals.
Codes == {"none", "OK", "REPLAY", "DUPLICATE_EVENT", "REFUSED", "ERROR"}

vars == <<version, record, effects, sent, reply>>

Init ==
  /\ version = [i \in Inquiries |-> 1]
  /\ record = [k \in Keys |-> NoRecord]
  /\ effects = [k \in Keys |-> 0]
  /\ sent = [a \in Attempts |-> NotSent]
  /\ reply = [a \in Attempts |-> NoReply]

Waiting(a) == sent[a] # NotSent /\ reply[a] = NoReply

Answers(a, r) == reply' = [reply EXCEPT ![a] = r]

Send(a, q) ==
  /\ sent[a] = NotSent
  /\ sent' = [sent EXCEPT ![a] = q]
  /\ UNCHANGED <<version, record, effects, reply>>

\* The write itself: opening an inquiry, or moving one from the version named.
Write(a) ==
  LET k == sent[a].key
      b == sent[a].body
  IN  /\ Waiting(a)
      /\ record[k] = NoRecord
      /\ b.target # OPENING => version[b.target] = b.version
      /\ version' = [i \in Inquiries |->
                       IF i = b.target THEN version[i] + 1 ELSE version[i]]
      /\ record' = [record EXCEPT ![k] = [body |-> b, version |-> b.version + 1]]
      /\ effects' = [effects EXCEPT ![k] = @ + 1]
      /\ Answers(a, Reply("OK", b.version + 1))
      /\ UNCHANGED sent

\* Mutant: the request hash is not compared.
ReplayAlways(rec, b) == Reply("REPLAY", rec.version)

\* IdempotencyService.replay_or_conflict: what a stored record answers.
ReplayOrConflict(rec, b) ==
  IF rec.body = b THEN Reply("REPLAY", rec.version)
                  ELSE Reply("DUPLICATE_EVENT", 0)

Replay(a) ==
  LET rec == record[sent[a].key]
  IN  /\ Waiting(a)
      /\ rec # NoRecord
      /\ Answers(a, ReplayOrConflict(rec, sent[a].body))
      /\ UNCHANGED <<version, record, effects, sent>>

\* A guard fails, or the request dies: neither leaves a trace.
Refuse(a) ==
  /\ Waiting(a)
  /\ \E code \in {"REFUSED", "ERROR"} : Answers(a, Reply(code, 0))
  /\ UNCHANGED <<version, record, effects, sent>>

Next ==
  \E a \in Attempts :
    \/ \E q \in Requests : Send(a, q)
    \/ Write(a)
    \/ Replay(a)
    \/ Refuse(a)

Spec == Init /\ [][Next]_vars
=============================================================================
