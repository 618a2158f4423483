-------------------------- MODULE IdempotentCommand --------------------------
(* The transaction every write service runs: lock the inquiry, look for the  *)
(* idempotency record, evaluate the guards, insert the record under its      *)
(* unique index, write, commit.  Attempts interleave between any two of      *)
(* these statements; an exception or a lost process rolls one back.          *)
(* PostgreSQL (external) runs them READ COMMITTED: a SELECT FOR UPDATE waits *)
(* for the row and returns its committed value, an uncommitted insert is     *)
(* invisible to a SELECT, and an INSERT of the same unique key waits for its *)
(* owner to end.  START_INQUIRY has no inquiry to lock and no version guard: *)
(* only the unique index orders its attempts.                                *)
EXTENDS AtomicCommand

VARIABLES
  pc,       \* the next statement of each attempt
  seen,     \* state_version it read under the lock, 0 for START_INQUIRY
  lock,     \* the attempt whose transaction holds the inquiry row
  claim     \* the attempt with an uncommitted record under the key

NOBODY == "nobody"

ASSUME NobodyAssumption == NOBODY \notin Attempts

transaction == <<pc, seen, lock, claim>>

allVars == <<vars, transaction>>

InTransaction == {"lock", "check", "guard", "insert", "mutate"}

(* Committed versions and stored replies stay in range, and an attempt is   *)
(* at a point execute has.                                                  *)
TypeOK ==
  /\ version \in [Inquiries -> 1 .. MaxVersion + 1]
  /\ record \in [Keys -> Records \cup {NoRecord}]
  /\ effects \in [Keys -> Nat]
  /\ sent \in [Attempts -> Requests \cup {NotSent}]
  /\ reply \in [Attempts -> [code : Codes, version : 0 .. MaxVersion + 1]]
  /\ pc \in [Attempts -> InTransaction \cup {"idle", "done"}]
  /\ seen \in [Attempts -> 0 .. MaxVersion + 1]
  /\ lock \in [Inquiries -> Attempts \cup {NOBODY}]
  /\ claim \in [Keys -> Attempts \cup {NOBODY}]

InitCommand ==
  /\ Init
  /\ pc = [a \in Attempts |-> "idle"]
  /\ seen = [a \in Attempts |-> 0]
  /\ lock = [i \in Inquiries |-> NOBODY]
  /\ claim = [k \in Keys |-> NOBODY]

Key(a) == sent[a].key
Body(a) == sent[a].body
Target(a) == sent[a].body.target

\* Mutant: the row lock outlives the transaction.
EndKeepsLock(a) ==
  /\ pc' = [pc EXCEPT ![a] = "done"]
  /\ claim' = [k \in Keys |-> IF claim[k] = a THEN NOBODY ELSE claim[k]]
  /\ UNCHANGED <<seen, lock>>

\* The transaction of a ends: its locks and its uncommitted record go.
EndTransaction(a) ==
  /\ pc' = [pc EXCEPT ![a] = "done"]
  /\ lock' = [i \in Inquiries |-> IF lock[i] = a THEN NOBODY ELSE lock[i]]
  /\ claim' = [k \in Keys |-> IF claim[k] = a THEN NOBODY ELSE claim[k]]
  /\ UNCHANGED seen

Goto(a, next) == pc' = [pc EXCEPT ![a] = next]

\* A request arrives: a new one, or an old one sent again.
Receive(a, q) ==
  /\ pc[a] = "idle"
  /\ Send(a, q)
  /\ Goto(a, IF q.body.target = OPENING THEN "check" ELSE "lock")
  /\ UNCHANGED <<seen, lock, claim>>

\* Mutant: the inquiry is read without FOR UPDATE.
ReadInquiry(a) ==
  /\ pc[a] = "lock"
  /\ seen' = [seen EXCEPT ![a] = version[Target(a)]]
  /\ Goto(a, "check")
  /\ UNCHANGED <<vars, lock, claim>>

\* SELECT ... FOR UPDATE of the inquiry.
LockInquiry(a) ==
  /\ pc[a] = "lock"
  /\ lock[Target(a)] = NOBODY
  /\ lock' = [lock EXCEPT ![Target(a)] = a]
  /\ seen' = [seen EXCEPT ![a] = version[Target(a)]]
  /\ Goto(a, "check")
  /\ UNCHANGED <<vars, claim>>

\* replay_or_conflict on the committed record.
AnswerFromRecord(a) ==
  /\ record[Key(a)] # NoRecord
  /\ Answers(a, ReplayOrConflict(record[Key(a)], Body(a)))
  /\ EndTransaction(a)
  /\ UNCHANGED <<version, record, effects, sent>>

\* lock_idempotency_scope
CheckRecord(a) ==
  /\ pc[a] = "check"
  /\ \/ AnswerFromRecord(a)
     \/ /\ record[Key(a)] = NoRecord
        /\ Goto(a, "guard")
        /\ UNCHANGED <<vars, seen, lock, claim>>

(* resolve() and the guards: a request that names another version is always *)
(* refused, one that names this version may be (state, role, domain guards).*)
Guard(a) ==
  /\ pc[a] = "guard"
  /\ \/ /\ Target(a) # OPENING
        /\ Answers(a, Reply("REFUSED", 0))
        /\ EndTransaction(a)
        /\ UNCHANGED <<version, record, effects, sent>>
     \/ /\ Target(a) # OPENING => seen[a] = Body(a).version
        /\ Goto(a, "insert")
        /\ UNCHANGED <<vars, seen, lock, claim>>

\* Mutant: no unique index on actor, operation and key.
InsertUnindexed(a) ==
  /\ pc[a] = "insert"
  /\ claim' = [claim EXCEPT ![Key(a)] = a]
  /\ Goto(a, "mutate")
  /\ UNCHANGED <<vars, seen, lock>>

\* create_idempotency_record in a savepoint; IntegrityError reads it again.
InsertRecord(a) ==
  /\ pc[a] = "insert"
  /\ claim[Key(a)] = NOBODY
  /\ \/ AnswerFromRecord(a)
     \/ /\ record[Key(a)] = NoRecord
        /\ claim' = [claim EXCEPT ![Key(a)] = a]
        /\ Goto(a, "mutate")
        /\ UNCHANGED <<vars, seen, lock>>

\* Mutation, apply_state_transition, history, complete_idempotency_record, COMMIT.
Commit(a) ==
  /\ pc[a] = "mutate"
  /\ version' = [i \in Inquiries |->
                   IF i = Target(a) THEN seen[a] + 1 ELSE version[i]]
  /\ record' = [record EXCEPT ![Key(a)] =
                  [body |-> Body(a), version |-> seen[a] + 1]]
  /\ effects' = [effects EXCEPT ![Key(a)] = @ + 1]
  /\ Answers(a, Reply("OK", seen[a] + 1))
  /\ EndTransaction(a)
  /\ UNCHANGED sent

\* Mutant: the record is committed ahead of the write it belongs to.
RollbackKeepsRecord(a) ==
  /\ pc[a] = "mutate"
  /\ record' = [record EXCEPT ![Key(a)] =
                  [body |-> Body(a), version |-> seen[a] + 1]]
  /\ Answers(a, Reply("ERROR", 0))
  /\ EndTransaction(a)
  /\ UNCHANGED <<version, effects, sent>>

\* An exception, or the process or its connection is lost: ROLLBACK.
Rollback(a) ==
  /\ pc[a] \in InTransaction
  /\ Answers(a, Reply("ERROR", 0))
  /\ EndTransaction(a)
  /\ UNCHANGED <<version, record, effects, sent>>

Step(a) ==
  \/ LockInquiry(a)
  \/ CheckRecord(a)
  \/ Guard(a)
  \/ InsertRecord(a)
  \/ Commit(a)

NextCommand ==
  \E a \in Attempts :
    \/ \E q \in Requests : Receive(a, q)
    \/ Step(a)
    \/ Rollback(a)

SpecCommand == InitCommand /\ [][NextCommand]_allVars

(* A request that arrived is worked on until it is answered; nothing says   *)
(* that one is ever sent, or that a transaction fails.                      *)
FairSpecCommand == SpecCommand /\ \A a \in Attempts : WF_allVars(Step(a))

-----------------------------------------------------------------------------
(* Properties. *)

(* concurrency-policy.yaml, same_key_same_hash: however often a request is  *)
(* sent, and whatever else races under its key, its write is committed at   *)
(* most once, and exactly when its record is: a rollback leaves neither.    *)
OneEffectPerKey ==
  \A k \in Keys :
    effects[k] = IF record[k] = NoRecord THEN 0 ELSE 1

\* The keys under which a write of inquiry i was committed.
Writes(i) == {k \in Keys : record[k].version > 0 /\ record[k].body.target = i}

(* No lost update: each inquiry has moved by as many versions as writes     *)
(* were committed on it, and no two of them were answered the same version. *)
NoLostUpdate ==
  \A i \in Inquiries :
    /\ version[i] = 1 + Cardinality(Writes(i))
    /\ \A j, k \in Writes(i) : record[j].version = record[k].version => j = k

(* Whoever is told of success under a key is told of the same success, for  *)
(* the same request, and everyone else of a conflict or a failure.          *)
RepliesAgree ==
  \A a \in Attempts :
    reply[a].code \in {"OK", "REPLAY"} =>
      /\ record[Key(a)].body = Body(a)
      /\ record[Key(a)].version = reply[a].version

(* A request is answered at the first attempt or the connection is lost:    *)
(* waiting for the inquiry row and for the unique key never closes a cycle. *)
EveryAttemptEnds ==
  \A a \in Attempts : pc[a] \in InTransaction ~> pc[a] = "done"

(* The transactions implement the atomic commands: seen from the client     *)
(* every attempt takes effect in one step or not at all.                    *)
ImplementsAtomic == Spec
=============================================================================
