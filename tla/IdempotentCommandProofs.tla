----------------------- MODULE IdempotentCommandProofs -----------------------
(* For any number of attempts, keys and inquiries: the transactions of      *)
(* IdempotentCommand implement the atomic commands, and a key has at most   *)
(* one effect.                                                              *)
EXTENDS IdempotentCommand, FiniteSetTheorems, TLAPS

\* Attempts past the inquiry lock.
Locked == {"check", "guard", "insert", "mutate"}

\* pc, sent and reply tell the same story of an attempt.
Progress ==
  \A a \in Attempts :
    /\ pc[a] = "idle" <=> sent[a] = NotSent
    /\ pc[a] = "done" <=> reply[a] # NoReply

\* An attempt that has read nothing yet holds no version.
IdleUnread == \A a \in Attempts : pc[a] \in {"idle", "lock"} => seen[a] = 0

\* Only a request that names an inquiry waits for its row.
LockedTarget == \A a \in Attempts : pc[a] = "lock" => Target(a) # OPENING

\* What an attempt read under its lock is still what the row holds.
FreshRead ==
  \A a \in Attempts : pc[a] \in Locked =>
    /\ Target(a) = OPENING => seen[a] = 0
    /\ Target(a) # OPENING =>
         /\ lock[Target(a)] = a
         /\ seen[a] = version[Target(a)]
    /\ pc[a] \in {"insert", "mutate"} => seen[a] = Body(a).version

\* An uncommitted record belongs to the attempt that is about to commit it.
ClaimOwned ==
  /\ \A a \in Attempts : pc[a] = "mutate" => claim[Key(a)] = a
  /\ \A k \in Keys : claim[k] # NOBODY =>
       /\ record[k] = NoRecord
       /\ pc[claim[k]] = "mutate"
       /\ Key(claim[k]) = k

IInv ==
  /\ TypeOK
  /\ Progress
  /\ IdleUnread
  /\ LockedTarget
  /\ FreshRead
  /\ ClaimOwned
  /\ OneEffectPerKey
  /\ RepliesAgree
-----------------------------------------------------------------------------
(* The markers for "nothing there" are none of the real values.             *)
LEMMA Markers ==
  /\ NoBody \notin Bodies
  /\ NotSent \notin Requests
  /\ NoRecord \notin Records
  /\ \A q \in Requests : q.key \in Keys /\ q.body \in Bodies
  /\ \A b \in Bodies : /\ b.target \in Inquiries \cup {OPENING}
                       /\ b.version \in 0 .. MaxVersion
                       /\ b.target = OPENING => b.version = 0
BY CommandAssumption DEF NoBody, NotSent, NoRecord, Bodies, Requests, Records

(* An attempt that has begun names a real key, a real target and a version. *)
LEMMA SentFacts ==
  ASSUME IInv, NEW a \in Attempts, pc[a] # "idle"
  PROVE  /\ sent[a] \in Requests
         /\ Key(a) \in Keys
         /\ Body(a) \in Bodies
         /\ Target(a) \in Inquiries \cup {OPENING}
         /\ Body(a).version \in 0 .. MaxVersion
BY Markers DEF IInv, TypeOK, Progress, Key, Body, Target

(* Nothing has been sent, locked or recorded at the start.                  *)
LEMMA InitIInv == InitCommand => IInv
BY Markers, CommandAssumption, NobodyAssumption
   DEF InitCommand, Init, IInv, TypeOK, Progress, IdleUnread, LockedTarget,
       FreshRead, ClaimOwned, OneEffectPerKey, RepliesAgree, Locked, InTransaction, Codes,
       NoReply, Reply

(* A transaction that ends without a write: its answer is all it leaves.    *)
LEMMA EndKeeps ==
  ASSUME IInv, NEW a \in Attempts, pc[a] \in InTransaction,
         NEW r \in [code : Codes, version : 0 .. MaxVersion + 1],
         r # NoReply,
         r.code \in {"OK", "REPLAY"} =>
           record[Key(a)].body = Body(a) /\ record[Key(a)].version = r.version,
         Answers(a, r), EndTransaction(a),
         UNCHANGED <<version, record, effects, sent>>
  PROVE  IInv'
<1>1. TypeOK'
  BY DEF IInv, TypeOK, Answers, EndTransaction, InTransaction
<1>2. Progress'
  BY DEF IInv, TypeOK, Progress, Answers, EndTransaction, InTransaction
<1>3. FreshRead'
  <2>1. SUFFICES ASSUME NEW b \in Attempts, pc'[b] \in Locked
                 PROVE  /\ Target(b)' = OPENING => seen'[b] = 0
                        /\ Target(b)' # OPENING =>
                             /\ lock'[Target(b)'] = b
                             /\ seen'[b] = version'[Target(b)']
                        /\ pc'[b] \in {"insert", "mutate"} =>
                             seen'[b] = Body(b)'.version
    BY DEF FreshRead
  <2>2. b # a /\ pc[b] = pc'[b]
    BY <2>1 DEF IInv, TypeOK, EndTransaction, Locked
  <2>3. Target(b) \in Inquiries \cup {OPENING}
    BY <2>1, <2>2, SentFacts DEF Locked
  <2> QED
    BY <2>1, <2>2, <2>3
       DEF IInv, TypeOK, FreshRead, EndTransaction, Target, Body
<1>4. ClaimOwned'
  <2>1. \A b \in Attempts : pc'[b] = "mutate" => claim'[Key(b)'] = b
    <3> SUFFICES ASSUME NEW b \in Attempts, pc'[b] = "mutate"
                 PROVE  claim'[Key(b)'] = b
      OBVIOUS
    <3>1. b # a /\ pc[b] = "mutate"
      BY DEF IInv, TypeOK, EndTransaction
    <3>2. Key(b) \in Keys /\ Key(b)' = Key(b)
      BY <3>1, SentFacts DEF Key
    <3> QED
      BY <3>1, <3>2 DEF IInv, TypeOK, ClaimOwned, EndTransaction
  <2>2. ASSUME NEW k \in Keys, claim'[k] # NOBODY
        PROVE  (/\ record[k] = NoRecord
                /\ pc[claim[k]] = "mutate"
                /\ Key(claim[k]) = k)'
    <3>1. claim'[k] = claim[k] /\ claim[k] # NOBODY /\ claim[k] # a
      BY <2>2 DEF EndTransaction
    <3>2. claim[k] \in Attempts
      BY <3>1 DEF IInv, TypeOK
    <3> QED
      BY <3>1, <3>2 DEF IInv, TypeOK, ClaimOwned, EndTransaction, Key
  <2> QED
    BY <2>1, <2>2 DEF ClaimOwned
<1>5. OneEffectPerKey'
  BY DEF IInv, OneEffectPerKey
<1>6. RepliesAgree'
  BY DEF IInv, TypeOK, RepliesAgree, Answers, Key, Body
<1>7. IdleUnread' /\ LockedTarget'
  BY DEF IInv, TypeOK, IdleUnread, LockedTarget, Target, EndTransaction
<1> QED
  BY <1>1, <1>2, <1>3, <1>4, <1>5, <1>6, <1>7 DEF IInv

(* A refusal is a reply, and not one of success.                            *)
LEMMA Refusals ==
  \A c \in Codes \ {"none"} : \A v \in 0 .. MaxVersion + 1 :
    /\ Reply(c, v) \in [code : Codes, version : 0 .. MaxVersion + 1]
    /\ Reply(c, v) # NoReply
    /\ Reply(c, v).code = c
    /\ Reply(c, v).version = v
BY DEF Reply, NoReply, Codes

(* Answering from the stored record keeps the invariant.                    *)
LEMMA AnswerKeeps ==
  ASSUME IInv, NEW a \in Attempts, pc[a] \in InTransaction, AnswerFromRecord(a)
  PROVE  IInv'
<1> DEFINE rec == record[Key(a)]
           r == ReplayOrConflict(rec, Body(a))
<1>1. Key(a) \in Keys
  BY SentFacts DEF InTransaction
<1>2. rec \in Records
  BY <1>1 DEF IInv, TypeOK, AnswerFromRecord
<1>3. rec.version \in 0 .. MaxVersion + 1 /\ 0 \in 0 .. MaxVersion + 1
  BY <1>2, CommandAssumption DEF Records
<1>4. CASE rec.body = Body(a)
  <2>1. r = Reply("REPLAY", rec.version)
    BY <1>4 DEF ReplayOrConflict
  <2> HIDE DEF r
  <2>2. /\ r \in [code : Codes, version : 0 .. MaxVersion + 1]
        /\ r # NoReply
        /\ rec.version = r.version
    BY <2>1, <1>3, Refusals DEF Codes
  <2>3. Answers(a, r) /\ EndTransaction(a)
        /\ UNCHANGED <<version, record, effects, sent>>
    BY DEF AnswerFromRecord, r
  <2> QED
    BY <2>2, <2>3, <1>4, EndKeeps
<1>5. CASE rec.body # Body(a)
  <2>1. r = Reply("DUPLICATE_EVENT", 0)
    BY <1>5 DEF ReplayOrConflict
  <2> HIDE DEF r
  <2>2. /\ r \in [code : Codes, version : 0 .. MaxVersion + 1]
        /\ r # NoReply
        /\ r.code = "DUPLICATE_EVENT"
    BY <2>1, <1>3, Refusals DEF Codes
  <2>3. Answers(a, r) /\ EndTransaction(a)
        /\ UNCHANGED <<version, record, effects, sent>>
    BY DEF AnswerFromRecord, r
  <2> QED
    BY <2>2, <2>3, EndKeeps
<1> QED
  BY <1>4, <1>5

(* A refusal or a rollback keeps the invariant.                             *)
LEMMA RefusalKeeps ==
  ASSUME IInv, NEW a \in Attempts, pc[a] \in InTransaction,
         NEW c \in {"REFUSED", "ERROR"}, Answers(a, Reply(c, 0)),
         EndTransaction(a), UNCHANGED <<version, record, effects, sent>>
  PROVE  IInv'
<1>1. 0 \in 0 .. MaxVersion + 1 /\ c \in Codes \ {"none", "OK", "REPLAY"}
  BY CommandAssumption DEF Codes
<1>2. /\ Reply(c, 0) \in [code : Codes, version : 0 .. MaxVersion + 1]
      /\ Reply(c, 0) # NoReply
      /\ Reply(c, 0).code = c
  BY <1>1, Refusals
<1> QED
  BY <1>1, <1>2, EndKeeps

(* A new request touches no other attempt.                                  *)
LEMMA ReceiveKeeps ==
  ASSUME IInv, NEW a \in Attempts, NEW q \in Requests, Receive(a, q)
  PROVE  IInv'
<1> USE DEF Receive, Send, Goto
<1>1. pc[a] = "idle" /\ q # NotSent
  BY Markers
<1>2. TypeOK'
  BY DEF IInv, TypeOK, InTransaction
<1>3. Progress'
  BY <1>1, Markers DEF IInv, TypeOK, Progress
<1>4. FreshRead'
  <2>1. SUFFICES ASSUME NEW b \in Attempts, pc'[b] \in Locked
                 PROVE  (/\ Target(b) = OPENING => seen[b] = 0
                         /\ Target(b) # OPENING =>
                              /\ lock[Target(b)] = b
                              /\ seen[b] = version[Target(b)]
                         /\ pc[b] \in {"insert", "mutate"} =>
                              seen[b] = Body(b).version)'
    BY DEF FreshRead
  <2>2. CASE b = a
    <3>1. pc'[a] = "check" /\ sent'[a] = q /\ q.body.target = OPENING
      BY <2>1, <2>2 DEF IInv, TypeOK, Locked
    <3>2. seen'[a] = 0
      BY <1>1 DEF IInv, IdleUnread
    <3> QED
      BY <2>2, <3>1, <3>2 DEF Target, Body
  <2>3. CASE b # a
    BY <2>1, <2>3 DEF IInv, TypeOK, FreshRead, Target, Body
  <2> QED
    BY <2>2, <2>3
<1>5. ClaimOwned'
  <2>1. \A b \in Attempts : (pc[b] = "mutate" => claim[Key(b)] = b)'
    BY <1>1 DEF IInv, TypeOK, ClaimOwned, Key
  <2>2. ASSUME NEW k \in Keys, claim'[k] # NOBODY
        PROVE  (/\ record[k] = NoRecord
                /\ pc[claim[k]] = "mutate"
                /\ Key(claim[k]) = k)'
    <3>1. claim[k] \in Attempts /\ pc[claim[k]] = "mutate" /\ Key(claim[k]) = k
          /\ record[k] = NoRecord
      BY <2>2 DEF IInv, TypeOK, ClaimOwned
    <3>2. claim[k] # a
      BY <3>1, <1>1
    <3> QED
      BY <3>1, <3>2 DEF IInv, TypeOK, Key
  <2> QED
    BY <2>1, <2>2 DEF ClaimOwned
<1>6. OneEffectPerKey'
  BY DEF IInv, OneEffectPerKey
<1>7. RepliesAgree'
  <2>1. SUFFICES ASSUME NEW b \in Attempts, reply'[b].code \in {"OK", "REPLAY"}
                 PROVE  (/\ record[Key(b)].body = Body(b)
                         /\ record[Key(b)].version = reply[b].version)'
    BY DEF RepliesAgree
  <2>2. reply[b] # NoReply
    BY <2>1 DEF NoReply, Reply
  <2>3. b # a
    BY <2>2, <1>1 DEF IInv, Progress
  <2> QED
    BY <2>1, <2>3 DEF IInv, TypeOK, RepliesAgree, Key, Body
<1> QED
  BY <1>1, <1>2, <1>3, <1>4, <1>5, <1>6, <1>7
     DEF IInv, IdleUnread, LockedTarget, TypeOK, Target

(* An attempt that only moves its own pc forward within its transaction,    *)
(* with what FreshRead asks of the place it moves to.                       *)
LEMMA AdvanceKeeps ==
  ASSUME IInv, NEW a \in Attempts, NEW next \in {"guard", "insert"},
         pc[a] \in {"check", "guard"}, Goto(a, next),
         next = "insert" => seen[a] = Body(a).version,
         UNCHANGED <<vars, seen, lock, claim>>
  PROVE  IInv'
<1> USE DEF Goto, vars
<1>1. TypeOK'
  BY DEF IInv, TypeOK, InTransaction
<1>2. Progress' /\ IdleUnread' /\ LockedTarget'
  BY DEF IInv, TypeOK, Progress, IdleUnread, LockedTarget, Target
<1>3. FreshRead'
  BY DEF IInv, TypeOK, FreshRead, Locked, Target, Body
<1>4. ClaimOwned'
  <2>1. \A b \in Attempts : (pc[b] = "mutate" => claim[Key(b)] = b)'
    BY DEF IInv, TypeOK, ClaimOwned, Key
  <2>2. ASSUME NEW k \in Keys, claim'[k] # NOBODY
        PROVE  (/\ record[k] = NoRecord
                /\ pc[claim[k]] = "mutate"
                /\ Key(claim[k]) = k)'
    <3>1. claim[k] \in Attempts /\ pc[claim[k]] = "mutate" /\ Key(claim[k]) = k
          /\ record[k] = NoRecord
      BY <2>2 DEF IInv, TypeOK, ClaimOwned
    <3> QED
      BY <3>1 DEF IInv, TypeOK, Key
  <2> QED
    BY <2>1, <2>2 DEF ClaimOwned
<1>5. OneEffectPerKey' /\ RepliesAgree'
  BY DEF IInv, OneEffectPerKey, RepliesAgree, Key, Body
<1> QED
  BY <1>1, <1>2, <1>3, <1>4, <1>5 DEF IInv

(* Taking the inquiry row: nobody else holds it, so nobody's read of it     *)
(* goes stale.                                                              *)
LEMMA LockKeeps ==
  ASSUME IInv, NEW a \in Attempts, LockInquiry(a)
  PROVE  IInv'
<1> USE DEF LockInquiry, Goto, vars
<1>1. /\ sent[a] \in Requests
      /\ Target(a) \in Inquiries \cup {OPENING}
  BY SentFacts
<1>2. Target(a) \in Inquiries
  BY <1>1 DEF IInv, LockedTarget
<1>3. TypeOK'
  BY <1>2 DEF IInv, TypeOK, InTransaction
<1>4. Progress' /\ IdleUnread'
  BY DEF IInv, TypeOK, Progress, IdleUnread
<1>5. FreshRead'
  <2>1. SUFFICES ASSUME NEW b \in Attempts, pc'[b] \in Locked
                 PROVE  (/\ Target(b) = OPENING => seen[b] = 0
                         /\ Target(b) # OPENING =>
                              /\ lock[Target(b)] = b
                              /\ seen[b] = version[Target(b)]
                         /\ pc[b] \in {"insert", "mutate"} =>
                              seen[b] = Body(b).version)'
    BY DEF FreshRead
  <2>2. CASE b = a
    BY <2>2, <1>2, CommandAssumption DEF IInv, TypeOK, Target, Body
  <2>3. CASE b # a
    <3>1. pc[b] \in Locked
      BY <2>1, <2>3 DEF IInv, TypeOK
    <3>2. Target(b) # Target(a)
      BY <3>1, <1>2, NobodyAssumption, CommandAssumption DEF IInv, FreshRead
    <3>3. Target(b) \in Inquiries \cup {OPENING}
      BY <3>1, SentFacts DEF Locked
    <3> QED
      BY <2>3, <3>1, <3>2, <3>3 DEF IInv, TypeOK, FreshRead, Target, Body
  <2> QED
    BY <2>2, <2>3
<1>6. ClaimOwned'
  <2>1. \A b \in Attempts : (pc[b] = "mutate" => claim[Key(b)] = b)'
    BY DEF IInv, TypeOK, ClaimOwned, Key
  <2>2. ASSUME NEW k \in Keys, claim'[k] # NOBODY
        PROVE  (/\ record[k] = NoRecord
                /\ pc[claim[k]] = "mutate"
                /\ Key(claim[k]) = k)'
    <3>1. claim[k] \in Attempts /\ pc[claim[k]] = "mutate" /\ Key(claim[k]) = k
          /\ record[k] = NoRecord
      BY <2>2 DEF IInv, TypeOK, ClaimOwned
    <3> QED
      BY <3>1 DEF IInv, TypeOK, Key
  <2> QED
    BY <2>1, <2>2 DEF ClaimOwned
<1>7. OneEffectPerKey' /\ RepliesAgree'
  BY DEF IInv, OneEffectPerKey, RepliesAgree, Key, Body
<1> QED
  BY <1>3, <1>4, <1>5, <1>6, <1>7 DEF IInv, LockedTarget, TypeOK, Target

(* The insert that wins the unique index: the key has no other owner.       *)
LEMMA InsertKeeps ==
  ASSUME IInv, NEW a \in Attempts, pc[a] = "insert",
         claim[Key(a)] = NOBODY, record[Key(a)] = NoRecord,
         claim' = [claim EXCEPT ![Key(a)] = a], Goto(a, "mutate"),
         UNCHANGED <<vars, seen, lock>>
  PROVE  IInv'
<1> USE DEF Goto, vars
<1>1. Key(a) \in Keys
  BY SentFacts
<1>2. TypeOK'
  BY <1>1 DEF IInv, TypeOK, InTransaction
<1>3. Progress' /\ IdleUnread' /\ LockedTarget'
  BY DEF IInv, TypeOK, Progress, IdleUnread, LockedTarget, Target
<1>4. FreshRead'
  BY DEF IInv, TypeOK, FreshRead, Locked, Target, Body
<1>5. ClaimOwned'
  <2>1. ASSUME NEW b \in Attempts, pc'[b] = "mutate"
        PROVE  (claim[Key(b)] = b)'
    <3>1. CASE b = a
      BY <3>1, <1>1 DEF IInv, TypeOK, Key
    <3>2. CASE b # a
      <4>1. pc[b] = "mutate" /\ claim[Key(b)] = b
        BY <2>1, <3>2 DEF IInv, TypeOK, ClaimOwned
      <4>2. Key(b) # Key(a) /\ Key(b) \in Keys
        BY <4>1, NobodyAssumption, SentFacts
      <4> QED
        BY <4>1, <4>2 DEF IInv, TypeOK, Key
    <3> QED
      BY <3>1, <3>2
  <2>2. ASSUME NEW k \in Keys, claim'[k] # NOBODY
        PROVE  (/\ record[k] = NoRecord
                /\ pc[claim[k]] = "mutate"
                /\ Key(claim[k]) = k)'
    <3>1. CASE k = Key(a)
      <4>1. claim'[k] = a /\ pc'[a] = "mutate"
        BY <3>1, <1>1 DEF IInv, TypeOK
      <4> QED
        BY <3>1, <4>1 DEF Key
    <3>2. CASE k # Key(a)
      <4>1. claim[k] \in Attempts /\ pc[claim[k]] = "mutate"
            /\ Key(claim[k]) = k /\ record[k] = NoRecord /\ claim'[k] = claim[k]
        BY <2>2, <3>2, <1>1 DEF IInv, TypeOK, ClaimOwned
      <4> QED
        BY <4>1 DEF IInv, TypeOK, Key
    <3> QED
      BY <3>1, <3>2
  <2> QED
    BY <2>1, <2>2 DEF ClaimOwned
<1>6. OneEffectPerKey' /\ RepliesAgree'
  BY DEF IInv, OneEffectPerKey, RepliesAgree, Key, Body
<1> QED
  BY <1>2, <1>3, <1>4, <1>5, <1>6 DEF IInv

(* What the attempt that commits relies on: the key is still unused, and    *)
(* what it read is what the row holds and what its sender knew.             *)
LEMMA CommitFacts ==
  ASSUME IInv, NEW a \in Attempts, pc[a] = "mutate"
  PROVE  /\ record[Key(a)] = NoRecord
         /\ effects[Key(a)] = 0
         /\ Key(a) \in Keys
         /\ Body(a) \in Bodies
         /\ seen[a] = Body(a).version
         /\ seen[a] \in 0 .. MaxVersion
         /\ Target(a) \in Inquiries \cup {OPENING}
         /\ Target(a) # OPENING => version[Target(a)] = seen[a]
<1>1. Key(a) \in Keys /\ claim[Key(a)] = a
  BY SentFacts DEF IInv, ClaimOwned
<1>2. record[Key(a)] = NoRecord
  BY <1>1, NobodyAssumption DEF IInv, ClaimOwned
<1> QED
  BY <1>1, <1>2, SentFacts DEF IInv, OneEffectPerKey, FreshRead, Locked

(* The commit: the row moves under the holder of its lock only.             *)
LEMMA CommitKeeps ==
  ASSUME IInv, NEW a \in Attempts, Commit(a)
  PROVE  IInv'
<1> DEFINE v == seen[a] + 1
           rec == [body |-> Body(a), version |-> v]
           r == Reply("OK", v)
<1>1. pc[a] = "mutate"
  BY DEF Commit
<1>2. v \in 1 .. MaxVersion + 1 /\ v \in 0 .. MaxVersion + 1
  BY <1>1, CommitFacts, CommandAssumption
<1>3. rec \in Records /\ rec # NoRecord /\ rec.body = Body(a) /\ rec.version = v
  BY <1>1, <1>2, CommitFacts, Markers DEF Records
<1>4. /\ r \in [code : Codes, version : 0 .. MaxVersion + 1]
      /\ r # NoReply
      /\ r.version = v
  BY <1>2, Refusals DEF Codes
<1>5. /\ record' = [record EXCEPT ![Key(a)] = rec]
      /\ reply' = [reply EXCEPT ![a] = r]
      /\ version' = [i \in Inquiries |-> IF i = Target(a) THEN v ELSE version[i]]
      /\ effects' = [effects EXCEPT ![Key(a)] = @ + 1]
      /\ sent' = sent
  BY DEF Commit, Answers
<1>6. EndTransaction(a)
  BY DEF Commit
<1> HIDE DEF rec, r, v
<1>7. TypeOK'
  BY <1>1, <1>2, <1>3, <1>4, <1>5, <1>6, CommitFacts
     DEF IInv, TypeOK, EndTransaction
<1>8. Progress' /\ IdleUnread' /\ LockedTarget'
  BY <1>1, <1>4, <1>5, <1>6
     DEF IInv, TypeOK, Progress, IdleUnread, LockedTarget, Target, EndTransaction
<1>9. FreshRead'
  <2>1. SUFFICES ASSUME NEW b \in Attempts, pc'[b] \in Locked
                 PROVE  (/\ Target(b) = OPENING => seen[b] = 0
                         /\ Target(b) # OPENING =>
                              /\ lock[Target(b)] = b
                              /\ seen[b] = version[Target(b)]
                         /\ pc[b] \in {"insert", "mutate"} =>
                              seen[b] = Body(b).version)'
    BY DEF FreshRead
  <2>2. b # a /\ pc[b] = pc'[b]
    BY <2>1, <1>6 DEF IInv, TypeOK, EndTransaction, Locked
  <2>3. Target(b) \in Inquiries \cup {OPENING}
    BY <2>1, <2>2, SentFacts DEF Locked
  <2>4. Target(b) # OPENING => Target(b) # Target(a)
    BY <2>1, <2>2, <1>1 DEF IInv, FreshRead, Locked
  <2> QED
    BY <2>1, <2>2, <2>3, <2>4, <1>5, <1>6
       DEF IInv, TypeOK, FreshRead, EndTransaction, Target, Body
<1>10. ClaimOwned'
  <2>1. ASSUME NEW b \in Attempts, pc'[b] = "mutate"
        PROVE  (claim[Key(b)] = b)'
    <3>1. b # a /\ pc[b] = "mutate"
      BY <2>1, <1>6 DEF IInv, TypeOK, EndTransaction
    <3>2. Key(b) \in Keys /\ claim[Key(b)] = b
      BY <3>1, SentFacts DEF IInv, ClaimOwned
    <3> QED
      BY <3>1, <3>2, <1>5, <1>6 DEF EndTransaction, Key
  <2>2. ASSUME NEW k \in Keys, claim'[k] # NOBODY
        PROVE  (/\ record[k] = NoRecord
                /\ pc[claim[k]] = "mutate"
                /\ Key(claim[k]) = k)'
    <3>1. claim'[k] = claim[k] /\ claim[k] # NOBODY /\ claim[k] # a
      BY <2>2, <1>6 DEF EndTransaction
    <3>2. claim[k] \in Attempts /\ pc[claim[k]] = "mutate"
          /\ Key(claim[k]) = k /\ record[k] = NoRecord
      BY <3>1 DEF IInv, TypeOK, ClaimOwned
    <3>3. k # Key(a)
      BY <1>1, <3>1 DEF IInv, ClaimOwned
    <3> QED
      BY <3>1, <3>2, <3>3, <1>5, <1>6 DEF IInv, TypeOK, EndTransaction, Key
  <2> QED
    BY <2>1, <2>2 DEF ClaimOwned
<1>11. OneEffectPerKey'
  BY <1>1, <1>3, <1>5, CommitFacts DEF IInv, TypeOK, OneEffectPerKey
<1>12. RepliesAgree'
  <2>1. SUFFICES ASSUME NEW b \in Attempts, reply'[b].code \in {"OK", "REPLAY"}
                 PROVE  (/\ record[Key(b)].body = Body(b)
                         /\ record[Key(b)].version = reply[b].version)'
    BY DEF RepliesAgree
  <2>2. CASE b = a
    BY <2>2, <1>1, <1>3, <1>4, <1>5, CommitFacts DEF IInv, TypeOK, Key, Body
  <2>3. CASE b # a
    <3>1. reply'[b] = reply[b] /\ reply[b] # NoReply
      BY <2>1, <2>3, <1>5 DEF IInv, TypeOK, NoReply, Reply
    <3>2. pc[b] = "done" /\ record[Key(b)].body = Body(b)
          /\ record[Key(b)].version = reply[b].version
      BY <2>1, <3>1 DEF IInv, Progress, RepliesAgree
    <3>3. Body(b) \in Bodies /\ Key(b) \in Keys
      BY <3>2, SentFacts
    <3>4. Key(b) # Key(a)
      BY <3>2, <3>3, <1>1, CommitFacts, Markers DEF NoRecord
    <3> QED
      BY <3>1, <3>2, <3>3, <3>4, <1>5 DEF IInv, TypeOK, Key, Body
  <2> QED
    BY <2>2, <2>3
<1> QED
  BY <1>7, <1>8, <1>9, <1>10, <1>11, <1>12 DEF IInv

(* Every step keeps the invariant.                                          *)
LEMMA NextKeeps == IInv /\ [NextCommand]_allVars => IInv'
<1> SUFFICES ASSUME IInv, [NextCommand]_allVars
             PROVE  IInv'
  OBVIOUS
<1>1. CASE UNCHANGED allVars
  BY <1>1 DEF allVars, vars, transaction, IInv, TypeOK, Progress, IdleUnread,
              LockedTarget, FreshRead, ClaimOwned, OneEffectPerKey,
              RepliesAgree, Key, Body, Target
<1>2. ASSUME NEW a \in Attempts, NEW q \in Requests, Receive(a, q)
      PROVE  IInv'
  BY <1>2, ReceiveKeeps
<1>3. ASSUME NEW a \in Attempts, Step(a)
      PROVE  IInv'
  <2>1. CASE LockInquiry(a)
    BY <2>1, LockKeeps
  <2>2. CASE CheckRecord(a)
    BY <2>2, AnswerKeeps, AdvanceKeeps DEF CheckRecord, InTransaction
  <2>3. CASE Guard(a)
    <3>1. pc[a] = "guard" /\ pc[a] \in InTransaction
      BY <2>3 DEF Guard, InTransaction
    <3>2. Target(a) = OPENING => seen[a] = Body(a).version
      <4>1. Body(a) \in Bodies
        BY <3>1, SentFacts
      <4> QED
        BY <4>1, <3>1, Markers DEF IInv, FreshRead, Locked, Target, Body
    <3>3. CASE /\ Answers(a, Reply("REFUSED", 0))
               /\ EndTransaction(a)
               /\ UNCHANGED <<version, record, effects, sent>>
      BY <3>1, <3>3, RefusalKeeps
    <3>4. CASE /\ Target(a) # OPENING => seen[a] = Body(a).version
               /\ Goto(a, "insert")
               /\ UNCHANGED <<vars, seen, lock, claim>>
      BY <3>1, <3>2, <3>4, AdvanceKeeps
    <3> QED
      BY <2>3, <3>3, <3>4 DEF Guard
  <2>4. CASE InsertRecord(a)
    BY <2>4, AnswerKeeps, InsertKeeps DEF InsertRecord, InTransaction
  <2>5. CASE Commit(a)
    BY <2>5, CommitKeeps
  <2> QED
    BY <1>3, <2>1, <2>2, <2>3, <2>4, <2>5 DEF Step
<1>4. ASSUME NEW a \in Attempts, Rollback(a)
      PROVE  IInv'
  BY <1>4, RefusalKeeps DEF Rollback
<1> QED
  BY <1>1, <1>2, <1>3, <1>4 DEF NextCommand

(* The invariant holds in every reachable state.                            *)
THEOREM CommandInvariance == SpecCommand => []IInv
BY InitIInv, NextKeeps, PTL DEF SpecCommand

(* same_key_same_hash: a key's write is committed at most once, and exactly *)
(* when its record is.                                                      *)
THEOREM EffectsAreUnique == SpecCommand => []OneEffectPerKey
<1>1. IInv => OneEffectPerKey
  BY DEF IInv
<1> QED
  BY <1>1, CommandInvariance, PTL

(* Every answer of success under a key is the answer of its one write.      *)
THEOREM SuccessIsOneStory == SpecCommand => []RepliesAgree
<1>1. IInv => RepliesAgree
  BY DEF IInv
<1> QED
  BY <1>1, CommandInvariance, PTL

(* The types of the transactions' state.                                    *)
THEOREM CommandTypes == SpecCommand => []TypeOK
<1>1. IInv => TypeOK
  BY DEF IInv
<1> QED
  BY <1>1, CommandInvariance, PTL
-----------------------------------------------------------------------------
(* An answer from the record is the atomic replay.                          *)
LEMMA AnswerIsReplay ==
  ASSUME IInv, NEW a \in Attempts, pc[a] \in InTransaction, AnswerFromRecord(a)
  PROVE  Replay(a)
BY DEF IInv, Progress, InTransaction, AnswerFromRecord, Replay, Waiting, Key, Body

(* A refusal or a rollback is the atomic refusal.                           *)
LEMMA RefusalIsRefuse ==
  ASSUME IInv, NEW a \in Attempts, pc[a] \in InTransaction,
         NEW c \in {"REFUSED", "ERROR"}, Answers(a, Reply(c, 0)),
         UNCHANGED <<version, record, effects, sent>>
  PROVE  Refuse(a)
BY DEF IInv, Progress, InTransaction, Refuse, Waiting

(* The commit is the atomic write: what the transaction read under its lock *)
(* is what the row holds when it commits.                                   *)
LEMMA CommitIsWrite ==
  ASSUME IInv, NEW a \in Attempts, Commit(a)
  PROVE  Write(a)
<1>1. pc[a] = "mutate"
  BY DEF Commit
<1>2. Waiting(a)
  BY <1>1 DEF IInv, Progress, Waiting
<1>3. /\ record[Key(a)] = NoRecord
      /\ seen[a] = Body(a).version
      /\ Target(a) # OPENING => version[Target(a)] = Body(a).version
  BY <1>1, CommitFacts
<1>4. version' = [i \in Inquiries |->
                    IF i = Target(a) THEN version[i] + 1 ELSE version[i]]
  <2>1. \A i \in Inquiries : i = Target(a) => seen[a] = version[i]
    BY <1>3, CommandAssumption
  <2> QED
    BY <2>1 DEF Commit
<1> QED
  BY <1>2, <1>3, <1>4 DEF Commit, Write, Key, Body, Target

(* Every step of a transaction is a step of the atomic command or invisible *)
(* to the client.                                                           *)
LEMMA StepSimulation == IInv /\ [NextCommand]_allVars => [Next]_vars
<1> SUFFICES ASSUME IInv, [NextCommand]_allVars
             PROVE  [Next]_vars
  OBVIOUS
<1>1. CASE UNCHANGED allVars
  BY <1>1 DEF allVars
<1>2. ASSUME NEW a \in Attempts, NEW q \in Requests, Receive(a, q)
      PROVE  Next
  BY <1>2 DEF Receive, Next
<1>3. ASSUME NEW a \in Attempts, Step(a)
      PROVE  Next \/ UNCHANGED vars
  <2>1. CASE LockInquiry(a)
    BY <2>1 DEF LockInquiry
  <2>2. CASE CheckRecord(a)
    BY <2>2, AnswerIsReplay DEF CheckRecord, InTransaction, Next
  <2>3. CASE Guard(a)
    BY <2>3, RefusalIsRefuse DEF Guard, InTransaction, Next
  <2>4. CASE InsertRecord(a)
    BY <2>4, AnswerIsReplay DEF InsertRecord, InTransaction, Next
  <2>5. CASE Commit(a)
    BY <2>5, CommitIsWrite DEF Next
  <2> QED
    BY <1>3, <2>1, <2>2, <2>3, <2>4, <2>5 DEF Step
<1>4. ASSUME NEW a \in Attempts, Rollback(a)
      PROVE  Next
  BY <1>4, RefusalIsRefuse DEF Rollback, Next
<1> QED
  BY <1>1, <1>2, <1>3, <1>4 DEF NextCommand

(* The transactions of the services implement the atomic commands, for any  *)
(* number of concurrent attempts.                                           *)
THEOREM Refinement == SpecCommand => ImplementsAtomic
<1>1. InitCommand => Init
  BY DEF InitCommand
<1> QED
  BY <1>1, StepSimulation, CommandInvariance, PTL
     DEF SpecCommand, ImplementsAtomic, Spec
-----------------------------------------------------------------------------
(* NoLostUpdate needs to know that recorded versions are not ahead of the   *)
(* row.                                                                     *)
RecordsBehind ==
  \A i \in Inquiries : \A k \in Writes(i) : record[k].version <= version[i]

Counted == NoLostUpdate /\ RecordsBehind

(* The commit adds its key to the writes of its target and of no other.     *)
LEMMA WritesGrow ==
  ASSUME IInv, NEW a \in Attempts, Commit(a), NEW i \in Inquiries
  PROVE  /\ i = Target(a) => Writes(i)' = Writes(i) \cup {Key(a)}
         /\ i # Target(a) => Writes(i)' = Writes(i)
         /\ Key(a) \notin Writes(i)
<1> DEFINE rec == [body |-> Body(a), version |-> seen[a] + 1]
<1>1. /\ Key(a) \in Keys
      /\ record[Key(a)].version = 0
      /\ record' = [record EXCEPT ![Key(a)] = rec]
  BY CommitFacts DEF Commit, NoRecord
<1>2. rec.version > 0 /\ rec.body.target = Target(a)
  BY CommitFacts, CommandAssumption DEF Commit, Target, Body
<1> HIDE DEF rec
<1>3. \A k \in Keys : record'[k] = IF k = Key(a) THEN rec ELSE record[k]
  BY <1>1 DEF IInv, TypeOK
<1> QED
  BY <1>1, <1>2, <1>3 DEF Writes

(* The row of the commit's target moves by one, to the version answered.    *)
LEMMA CommitCounts ==
  ASSUME IInv, Counted, NEW a \in Attempts, Commit(a)
  PROVE  Counted'
<1>1. SUFFICES ASSUME NEW i \in Inquiries
               PROVE  (/\ version[i] = 1 + Cardinality(Writes(i))
                       /\ \A j, k \in Writes(i) :
                            record[j].version = record[k].version => j = k
                       /\ \A k \in Writes(i) : record[k].version <= version[i])'
  BY DEF Counted, NoLostUpdate, RecordsBehind
<1>2. /\ IsFiniteSet(Writes(i))
      /\ Writes(i) \subseteq Keys
      /\ Cardinality(Writes(i)) \in Nat
      /\ \A k \in Writes(i) : record[k].version \in Nat
  <2>1. Writes(i) \subseteq Keys
    BY DEF Writes
  <2>2. IsFiniteSet(Writes(i))
    BY <2>1, CommandAssumption, FS_Subset
  <2>3. \A k \in Keys : record[k].version \in Nat
    BY CommandAssumption DEF IInv, TypeOK, Records, NoRecord
  <2> QED
    BY <2>1, <2>2, <2>3, FS_CardinalityType
<1>3. /\ Key(a) \in Keys
      /\ \A k \in Keys : k # Key(a) => record'[k] = record[k]
      /\ record'[Key(a)].version = seen[a] + 1
      /\ version[i] \in Nat
      /\ seen[a] \in Nat
  BY CommitFacts, CommandAssumption DEF IInv, TypeOK, Commit
<1>4. CASE i = Target(a)
  <2>1. version[i] = seen[a] /\ version'[i] = seen[a] + 1
    BY <1>4, CommitFacts, CommandAssumption DEF Commit
  <2>2. Writes(i)' = Writes(i) \cup {Key(a)} /\ Key(a) \notin Writes(i)
    BY <1>4, WritesGrow
  <2>3. Cardinality(Writes(i)') = Cardinality(Writes(i)) + 1
    BY <1>2, <2>2, FS_AddElement
  <2>4. version'[i] = 1 + Cardinality(Writes(i)')
    BY <1>2, <2>1, <2>3 DEF Counted, NoLostUpdate
  <2>5. \A k \in Writes(i) :
          /\ record'[k].version = record[k].version
          /\ record[k].version <= seen[a]
    BY <1>2, <1>3, <2>1, <2>2 DEF Counted, RecordsBehind
  <2>6. \A j, k \in Writes(i)' : record'[j].version = record'[k].version => j = k
    BY <1>2, <1>3, <2>2, <2>5 DEF Counted, NoLostUpdate
  <2>7. \A k \in Writes(i)' : record'[k].version <= version'[i]
    BY <1>2, <1>3, <2>1, <2>2, <2>5
  <2> QED
    BY <2>4, <2>6, <2>7
<1>5. CASE i # Target(a)
  <2>1. version'[i] = version[i]
    BY <1>5 DEF Commit
  <2>2. Writes(i)' = Writes(i) /\ Key(a) \notin Writes(i)
    BY <1>5, WritesGrow
  <2>3. \A k \in Writes(i) : record'[k] = record[k]
    BY <1>2, <1>3, <2>2
  <2> QED
    BY <2>1, <2>2, <2>3 DEF Counted, NoLostUpdate, RecordsBehind
<1> QED
  BY <1>4, <1>5

(* No other step touches the rows or the records.                           *)
LEMMA NextCounts == IInv /\ Counted /\ [NextCommand]_allVars => Counted'
<1> SUFFICES ASSUME IInv, Counted, [NextCommand]_allVars
             PROVE  Counted'
  OBVIOUS
<1>1. CASE UNCHANGED <<version, record>>
  BY <1>1 DEF Counted, NoLostUpdate, RecordsBehind, Writes
<1>2. CASE \E a \in Attempts : Commit(a)
  BY <1>2, CommitCounts
<1>3. UNCHANGED <<version, record>> \/ \E a \in Attempts : Commit(a)
  BY DEF NextCommand, Step, Receive, Send, LockInquiry, CheckRecord, Guard,
         InsertRecord, Rollback, AnswerFromRecord, allVars, vars
<1> QED
  BY <1>1, <1>2, <1>3

(* No update is lost: an inquiry has moved by one version per committed     *)
(* write, whatever raced for it.                                            *)
THEOREM UpdatesAreKept == SpecCommand => []NoLostUpdate
<1>1. InitCommand => Counted
  <2> SUFFICES ASSUME InitCommand PROVE Counted
    OBVIOUS
  <2>1. \A i \in Inquiries : Writes(i) = {}
    BY DEF InitCommand, Init, Writes, NoRecord
  <2>2. \A i \in Inquiries : version[i] = 1 + Cardinality(Writes(i))
    <3>1. Cardinality({}) = 0
      BY FS_EmptySet
    <3>2. \A i \in Inquiries : version[i] = 1
      BY DEF InitCommand, Init
    <3> QED
      BY <2>1, <3>1, <3>2
  <2> QED
    BY <2>1, <2>2 DEF Counted, NoLostUpdate, RecordsBehind
<1>2. Counted => NoLostUpdate
  BY DEF Counted
<1> QED
  BY <1>1, <1>2, NextCounts, CommandInvariance, PTL DEF SpecCommand
=============================================================================
