-------------------------- MODULE OtpDeliveryProofs --------------------------
(* Proofs about one-time codes, for any number of subjects, contacts and    *)
(* workers and any bounds: how often a code is mailed, that only the newest *)
(* challenge of a subject is ever verified, and that a mail leaves only to  *)
(* the contact that is the customer's at that moment.                       *)
EXTENDS OtpDelivery, SequenceTheorems, TLAPS

-----------------------------------------------------------------------------
(* The inductive invariant. *)

Challenges ==
  [subject : Subjects, contact : Contacts \cup {NOBODY},
   state : {"open"} \cup Closed, failures : 0 .. MaxFailures]

Rows ==
  [status : {"PENDING", "SENT", "FAILED", "SUPPRESSED"},
   attempts : 0 .. MaxAttempts, due : BOOLEAN]

Shape ==
  /\ contact \in [Subjects -> Contacts \cup {NOBODY}]
  /\ bucket \in [Subjects -> [count : 0 .. MaxPerWindow, cooling : BOOLEAN]]
  /\ challenge \in Seq(Challenges)
  /\ outbox \in Seq(Rows) /\ Len(outbox) = Len(challenge)
  /\ mails \in Seq(Nat) /\ Len(mails) = Len(challenge)
  /\ crashes \in Nat

WorkerShape ==
  /\ at \in [Workers -> {"idle", "selected", "sending", "sent"}]
  /\ row \in [Workers -> Nat]
  /\ seen \in [Workers -> BOOLEAN]
  /\ reported \in [Workers -> BOOLEAN]

\* A busy worker is on a row that waits and may still be tried.
OnWaitingRow ==
  \A w \in Workers :
    /\ at[w] = "idle" => row[w] = 0
    /\ at[w] # "idle" => /\ row[w] \in Issued
                         /\ outbox[row[w]].status = "PENDING"
                         /\ outbox[row[w]].attempts < MaxAttempts

\* The lock of an outbox row has one holder.
Alone ==
  \A v, w \in Workers : at[v] # "idle" /\ at[w] # "idle" /\ row[v] = row[w] => v = w

\* lock_current holds the target of a code that is being sent.
TargetKept ==
  \A w \in Workers : at[w] \in {"sending", "sent"} => Current(row[w])

\* A confirmed transmission did leave.
ReportedLeft ==
  \A w \in Workers : reported[w] => at[w] = "sent" /\ mails[row[w]] > 0

\* The mail left, the transaction that counts the attempt is still open.
Uncounted(c) == \E w \in Workers : at[w] = "sent" /\ row[w] = c

\* Every mail is counted as an attempt, by a crash, or is about to be.
MailsCounted ==
  \A c \in Issued :
    \/ mails[c] <= outbox[c].attempts + crashes
    \/ Uncounted(c) /\ mails[c] <= outbox[c].attempts + crashes + 1

SentWasMailed == \A c \in Issued : outbox[c].status = "SENT" => mails[c] > 0

\* Only the newest challenge of a subject is not consumed.
NewestIsOpen ==
  \A c, d \in Issued :
    /\ challenge[c].state \in {"open", "expired"}
    /\ challenge[d].subject = challenge[c].subject
    => d <= c

Sending == WorkerShape /\ OnWaitingRow /\ Alone /\ TargetKept /\ ReportedLeft

Counted == MailsCounted /\ SentWasMailed

IInv == Shape /\ Sending /\ Counted /\ NewestIsOpen

-----------------------------------------------------------------------------
(* What every step promises besides the invariant. *)

\* The action of OnlyNewestVerifies.
VerifiesNewest ==
  \A c \in Issued :
    challenge'[c].state = "verified" /\ challenge[c].state # "verified"
      => /\ \A d \in Issued : challenge[d].subject = challenge[c].subject => d <= c
         /\ contact[challenge[c].subject] = challenge[c].contact

\* The action of MailsCurrentContact.
MailsCurrent == \A c \in Issued : mails'[c] > mails[c] => Current(c)

GoodStep == IInv' /\ VerifiesNewest /\ MailsCurrent

-----------------------------------------------------------------------------
(* Sequences. *)

(* The three tables are functions on the same challenges.                   *)
LEMMA Tables ==
  ASSUME Shape
  PROVE  /\ Len(challenge) \in Nat
         /\ Issued = 1 .. Len(challenge)
         /\ challenge \in [Issued -> Challenges]
         /\ outbox \in [Issued -> Rows]
         /\ mails \in [Issued -> Nat]
<1>1. challenge \in Seq(Challenges) /\ outbox \in Seq(Rows) /\ mails \in Seq(Nat)
  BY DEF Shape
<1>2. /\ Len(challenge) \in Nat
      /\ DOMAIN challenge = 1 .. Len(challenge)
      /\ challenge \in [1 .. Len(challenge) -> Challenges]
  BY <1>1, LenProperties
<1>3. outbox \in [1 .. Len(outbox) -> Rows]
  BY <1>1, LenProperties
<1>4. mails \in [1 .. Len(mails) -> Nat]
  BY <1>1, LenProperties
<1>5. QED
  BY <1>2, <1>3, <1>4 DEF Shape, Issued

(* A table whose rows are rewritten in place keeps its length.              *)
LEMMA Rewritten ==
  ASSUME NEW T, NEW seq \in Seq(T), NEW new \in [DOMAIN seq -> T]
  PROVE  /\ new \in Seq(T)
         /\ Len(new) = Len(seq)
<1>1. DOMAIN seq = 1 .. Len(seq) /\ Len(seq) \in Nat
  BY LenProperties
<1>2. new \in Seq(T)
  BY <1>1, SeqDef
<1>3. DOMAIN new = 1 .. Len(new) /\ Len(new) \in Nat
  BY <1>2, LenProperties
<1>4. QED
  BY <1>1, <1>2, <1>3

-----------------------------------------------------------------------------
(* Steps that leave the workers, the outbox and the mails alone. *)

(* Only the state and the failures of challenges change, and none opens     *)
(* again.                                                                   *)
LEMMA ChallengeStep ==
  ASSUME IInv,
         challenge' \in [Issued -> Challenges],
         \A c \in Issued :
           /\ challenge'[c].subject = challenge[c].subject
           /\ challenge'[c].contact = challenge[c].contact
           /\ challenge'[c].state \in {"open", "expired"} =>
                challenge[c].state \in {"open", "expired"},
         UNCHANGED <<contact, bucket, outbox, worker, mails, crashes>>
  PROVE  IInv' /\ MailsCurrent
<1>1. Shape /\ Sending /\ Counted /\ NewestIsOpen
  BY DEF IInv
<1>2. /\ Len(challenge) \in Nat
      /\ Issued = 1 .. Len(challenge)
      /\ mails \in [Issued -> Nat]
  BY <1>1, Tables
<1>3. challenge' \in Seq(Challenges) /\ Len(challenge') = Len(challenge)
  <2>1. challenge \in Seq(Challenges) /\ DOMAIN challenge = Issued
    BY <1>1 DEF Shape, Issued
  <2>2. QED
    BY <2>1, Rewritten
<1>4. Issued' = Issued
  <2>1. DOMAIN challenge' = Issued
    OBVIOUS
  <2>2. QED
    BY <2>1 DEF Issued
<1>5. Shape'
  BY <1>1, <1>3 DEF Shape
<1>6. Sending'
  <2>1. WorkerShape'
    BY <1>1 DEF Sending, WorkerShape, worker
  <2>2. OnWaitingRow'
    BY <1>1, <1>4 DEF Sending, OnWaitingRow, worker
  <2>3. Alone'
    BY <1>1 DEF Sending, Alone, worker
  <2>4. TargetKept'
    <3>1. ASSUME NEW w \in Workers, at'[w] \in {"sending", "sent"}
          PROVE  Current(row[w])'
      <4>1. at[w] \in {"sending", "sent"} /\ row'[w] = row[w]
        BY <3>1 DEF worker
      <4>2. row[w] \in Issued /\ Current(row[w])
        BY <1>1, <4>1 DEF Sending, OnWaitingRow, TargetKept
      <4>3. QED
        BY <4>1, <4>2 DEF Current
    <3>2. QED
      BY <3>1 DEF TargetKept
  <2>5. ReportedLeft'
    BY <1>1 DEF Sending, ReportedLeft, worker
  <2>6. QED
    BY <2>1, <2>2, <2>3, <2>4, <2>5 DEF Sending
<1>7. Counted'
  BY <1>1, <1>4 DEF Counted, MailsCounted, SentWasMailed, Uncounted, worker
<1>8. NewestIsOpen'
  BY <1>1, <1>4 DEF NewestIsOpen
<1>9. MailsCurrent
  BY <1>2 DEF MailsCurrent
<1>10. QED
  BY <1>5, <1>6, <1>7, <1>8, <1>9 DEF IInv

(* A wrong code is counted.                                                 *)
LEMMA WrongCodeStep ==
  ASSUME IInv, NEW c \in Issued, WrongCode(c)
  PROVE  GoodStep
<1>1. challenge \in [Issued -> Challenges]
  BY Tables DEF IInv
<1>2. challenge' = [challenge EXCEPT ![c].failures = @ + 1]
  BY DEF WrongCode
<1>3. challenge[c].failures + 1 \in 0 .. MaxFailures
  BY <1>1, BoundsAssumption DEF WrongCode, Answerable, Challenges
<1>4. [challenge[c] EXCEPT !.failures = @ + 1] \in Challenges
  BY <1>1, <1>3 DEF Challenges
<1>5. challenge' \in [Issued -> Challenges]
  BY <1>1, <1>2, <1>4
<1>6. \A d \in Issued :
        /\ challenge'[d].subject = challenge[d].subject
        /\ challenge'[d].contact = challenge[d].contact
        /\ challenge'[d].state = challenge[d].state
  BY <1>1, <1>2 DEF Challenges
<1>7. IInv' /\ MailsCurrent
  BY <1>5, <1>6, ChallengeStep DEF WrongCode
<1>8. QED
  BY <1>6, <1>7 DEF GoodStep, VerifiesNewest

(* The state of a challenge that is open changes.                           *)
LEMMA CloseStep ==
  ASSUME IInv, NEW c \in Issued, NEW v \in Closed,
         challenge[c].state = "open",
         challenge' = [challenge EXCEPT ![c].state = v],
         UNCHANGED <<contact, bucket, outbox, worker, mails, crashes>>
  PROVE  /\ IInv' /\ MailsCurrent
         /\ \A d \in Issued : d # c => challenge'[d] = challenge[d]
         /\ challenge'[c].state = v
<1>1. challenge \in [Issued -> Challenges]
  BY Tables DEF IInv
<1>2. [challenge[c] EXCEPT !.state = v] \in Challenges
  BY <1>1 DEF Challenges
<1>3. challenge' \in [Issued -> Challenges]
  BY <1>1, <1>2
<1>4. \A d \in Issued : d # c => challenge'[d] = challenge[d]
  BY <1>1
<1>5. /\ challenge'[c].subject = challenge[c].subject
      /\ challenge'[c].contact = challenge[c].contact
      /\ challenge'[c].state = v
  BY <1>1 DEF Challenges
<1>6. IInv' /\ MailsCurrent
  BY <1>3, <1>4, <1>5, ChallengeStep
<1>7. QED
  BY <1>4, <1>5, <1>6

(* A code that is right is accepted only for the newest challenge, whose    *)
(* contact is read under the lock.                                          *)
LEMMA RightCodeStep ==
  ASSUME IInv, NEW c \in Issued, RightCode(c)
  PROVE  GoodStep
<1> DEFINE v == IF Current(c) THEN "verified" ELSE "consumed"
<1>1. challenge[c].state = "open"
  BY DEF RightCode, Answerable
<1>2. v \in Closed
  BY DEF Closed
<1>3. challenge' = [challenge EXCEPT ![c].state = v]
  BY DEF RightCode
<1>4. v = "verified" => Current(c)
  OBVIOUS
<1> HIDE DEF v
<1>5. /\ IInv' /\ MailsCurrent
      /\ \A d \in Issued : d # c => challenge'[d] = challenge[d]
      /\ challenge'[c].state = v
  BY <1>1, <1>2, <1>3, CloseStep DEF RightCode
<1>6. \A d \in Issued : challenge[d].subject = challenge[c].subject => d <= c
  BY <1>1 DEF IInv, NewestIsOpen
<1>7. QED
  BY <1>4, <1>5, <1>6 DEF GoodStep, VerifiesNewest, Current

(* A challenge expires.                                                     *)
LEMMA ExpireStep ==
  ASSUME IInv, NEW c \in Issued, Expire(c)
  PROVE  GoodStep
<1>1. challenge[c].state = "open"
  BY DEF Expire
<1>2. "expired" \in Closed
  BY DEF Closed
<1>3. /\ IInv' /\ MailsCurrent
      /\ \A d \in Issued : d # c => challenge'[d] = challenge[d]
      /\ challenge'[c].state = "expired"
  BY <1>1, <1>2, CloseStep DEF Expire
<1>4. QED
  BY <1>3 DEF GoodStep, VerifiesNewest

(* A retry delay passes.                                                    *)
LEMMA BackoffStep ==
  ASSUME IInv, NEW c \in Issued, BackoffPasses(c)
  PROVE  GoodStep
<1>1. Shape /\ Sending /\ Counted /\ NewestIsOpen
  BY DEF IInv
<1>2. /\ outbox \in [Issued -> Rows]
      /\ mails \in [Issued -> Nat]
  BY <1>1, Tables
<1>3. outbox' = [outbox EXCEPT ![c].due = TRUE]
  BY DEF BackoffPasses
<1>4. [outbox[c] EXCEPT !.due = TRUE] \in Rows
  BY <1>2 DEF Rows
<1>5. outbox' \in [Issued -> Rows]
  BY <1>2, <1>3, <1>4
<1>6. \A d \in Issued : /\ outbox'[d].status = outbox[d].status
                        /\ outbox'[d].attempts = outbox[d].attempts
  BY <1>2, <1>3 DEF Rows
<1>7. outbox' \in Seq(Rows) /\ Len(outbox') = Len(outbox)
  <2>1. outbox \in Seq(Rows) /\ DOMAIN outbox = Issued
    BY <1>1, <1>2 DEF Shape
  <2>2. QED
    BY <1>5, <2>1, Rewritten
<1>8. Shape'
  BY <1>1, <1>7 DEF Shape, BackoffPasses
<1>9. Issued' = Issued
  BY DEF Issued, BackoffPasses
<1>10. Sending'
  <2>1. WorkerShape' /\ Alone' /\ ReportedLeft'
    BY <1>1 DEF Sending, WorkerShape, Alone, ReportedLeft, worker, BackoffPasses
  <2>2. OnWaitingRow'
    BY <1>1, <1>6, <1>9 DEF Sending, OnWaitingRow, worker, BackoffPasses
  <2>3. TargetKept'
    BY <1>1 DEF Sending, TargetKept, Current, worker, BackoffPasses
  <2>4. QED
    BY <2>1, <2>2, <2>3 DEF Sending
<1>11. Counted'
  BY <1>1, <1>6, <1>9
     DEF Counted, MailsCounted, SentWasMailed, Uncounted, worker, BackoffPasses
<1>12. NewestIsOpen'
  BY <1>1, <1>9 DEF NewestIsOpen, BackoffPasses
<1>13. VerifiesNewest /\ MailsCurrent
  BY <1>2 DEF VerifiesNewest, MailsCurrent, BackoffPasses
<1>14. QED
  BY <1>8, <1>10, <1>11, <1>12, <1>13 DEF GoodStep, IInv

(* Only the buckets or the contacts change, and no contact a code is being  *)
(* sent to.                                                                 *)
LEMMA AccountStep ==
  ASSUME IInv,
         bucket' \in [Subjects -> [count : 0 .. MaxPerWindow, cooling : BOOLEAN]],
         contact' \in [Subjects -> Contacts \cup {NOBODY}],
         \A t \in Subjects : TargetHeld(t) => contact'[t] = contact[t],
         UNCHANGED <<challenge, outbox, worker, mails, crashes>>
  PROVE  GoodStep
<1>1. Shape /\ Sending /\ Counted /\ NewestIsOpen
  BY DEF IInv
<1>2. /\ challenge \in [Issued -> Challenges]
      /\ mails \in [Issued -> Nat]
  BY <1>1, Tables
<1>3. Shape'
  BY <1>1 DEF Shape
<1>4. Issued' = Issued
  BY DEF Issued
<1>5. Sending'
  <2>1. WorkerShape' /\ Alone' /\ ReportedLeft'
    BY <1>1 DEF Sending, WorkerShape, Alone, ReportedLeft, worker
  <2>2. OnWaitingRow'
    BY <1>1, <1>4 DEF Sending, OnWaitingRow, worker
  <2>3. TargetKept'
    <3>1. ASSUME NEW w \in Workers, at'[w] \in {"sending", "sent"}
          PROVE  Current(row[w])'
      <4>1. at[w] \in {"sending", "sent"} /\ row'[w] = row[w]
        BY <3>1 DEF worker
      <4>2. row[w] \in Issued /\ Current(row[w])
        BY <1>1, <4>1 DEF Sending, OnWaitingRow, TargetKept
      <4>3. challenge[row[w]].subject \in Subjects
        BY <1>2, <4>2 DEF Challenges
      <4>4. TargetHeld(challenge[row[w]].subject)
        BY <4>1, <4>2 DEF TargetHeld, Held
      <4>5. QED
        BY <4>1, <4>2, <4>3, <4>4 DEF Current
    <3>2. QED
      BY <3>1 DEF TargetKept
  <2>4. QED
    BY <2>1, <2>2, <2>3 DEF Sending
<1>6. Counted'
  BY <1>1, <1>4 DEF Counted, MailsCounted, SentWasMailed, Uncounted, worker
<1>7. NewestIsOpen'
  BY <1>1, <1>4 DEF NewestIsOpen
<1>8. VerifiesNewest /\ MailsCurrent
  BY <1>2 DEF VerifiesNewest, MailsCurrent
<1>9. QED
  BY <1>3, <1>5, <1>6, <1>7, <1>8 DEF GoodStep, IInv

(* The clock moves a bucket.                                                *)
LEMMA BucketStep ==
  ASSUME IInv, NEW s \in Subjects, CoolingPasses(s) \/ WindowPasses(s)
  PROVE  GoodStep
<1>1. /\ bucket \in [Subjects -> [count : 0 .. MaxPerWindow, cooling : BOOLEAN]]
      /\ contact \in [Subjects -> Contacts \cup {NOBODY}]
  BY DEF IInv, Shape
<1>2. UNCHANGED <<contact, challenge, outbox, worker, mails, crashes>>
  BY DEF CoolingPasses, WindowPasses
<1>3. bucket' \in [Subjects -> [count : 0 .. MaxPerWindow, cooling : BOOLEAN]]
  <2>1. CASE CoolingPasses(s)
    <3>1. [bucket[s] EXCEPT !.cooling = FALSE]
            \in [count : 0 .. MaxPerWindow, cooling : BOOLEAN]
      BY <1>1
    <3>2. QED
      BY <1>1, <2>1, <3>1 DEF CoolingPasses
  <2>2. CASE WindowPasses(s)
    <3>1. [count |-> 0, cooling |-> FALSE]
            \in [count : 0 .. MaxPerWindow, cooling : BOOLEAN]
      BY BoundsAssumption
    <3>2. QED
      BY <1>1, <2>2, <3>1 DEF WindowPasses
  <2>3. QED
    BY <2>1, <2>2
<1>4. QED
  BY <1>1, <1>2, <1>3, AccountStep

(* A contact changes, but not under a worker that sends to it.              *)
LEMMA TargetStep ==
  ASSUME IInv, NEW s \in Subjects, TargetChanges(s)
  PROVE  GoodStep
<1>1. /\ bucket \in [Subjects -> [count : 0 .. MaxPerWindow, cooling : BOOLEAN]]
      /\ contact \in [Subjects -> Contacts \cup {NOBODY}]
  BY DEF IInv, Shape
<1>2. /\ contact' \in [Subjects -> Contacts \cup {NOBODY}]
      /\ \A t \in Subjects : t # s => contact'[t] = contact[t]
  BY <1>1 DEF TargetChanges
<1>3. UNCHANGED <<bucket, challenge, outbox, worker, mails, crashes>> /\ ~TargetHeld(s)
  BY DEF TargetChanges
<1>4. QED
  BY <1>1, <1>2, <1>3, AccountStep

-----------------------------------------------------------------------------
(* The worker. *)

(* A worker takes the lock of a row that is due and that no other has.      *)
LEMMA SelectStep ==
  ASSUME IInv, NEW w \in Workers, Select(w)
  PROVE  GoodStep
<1>1. Shape /\ Sending /\ Counted /\ NewestIsOpen
  BY DEF IInv
<1>2. /\ Len(challenge) \in Nat
      /\ Issued = 1 .. Len(challenge)
      /\ mails \in [Issued -> Nat]
  BY <1>1, Tables
<1>3. PICK c \in Due :
        /\ row' = [row EXCEPT ![w] = c]
        /\ seen' = [seen EXCEPT ![w] = /\ challenge[c].state = "open"
                                       /\ challenge[c].failures < MaxFailures]
  BY DEF Select
<1>4. /\ c \in Issued
      /\ outbox[c].status = "PENDING"
      /\ outbox[c].attempts < MaxAttempts
      /\ \A v \in Workers : at[v] # "idle" => row[v] # c
  BY DEF Due, Selected
<1>5. UNCHANGED <<contact, bucket, challenge, outbox, reported, mails, crashes>>
  BY DEF Select
<1>6. WorkerShape
  BY <1>1 DEF Sending
<1>7. /\ at[w] = "idle" /\ at'[w] = "selected" /\ row'[w] = c
      /\ \A v \in Workers : v # w => at'[v] = at[v] /\ row'[v] = row[v]
  BY <1>3, <1>6 DEF Select, WorkerShape
<1>8. Issued' = Issued
  BY <1>5 DEF Issued
<1>9. WorkerShape'
  BY <1>2, <1>3, <1>4, <1>5, <1>6 DEF WorkerShape, Select
<1>10. OnWaitingRow'
  BY <1>1, <1>4, <1>5, <1>7, <1>8 DEF Sending, OnWaitingRow
<1>11. Alone'
  BY <1>1, <1>4, <1>7 DEF Sending, Alone
<1>12. TargetKept'
  <2>1. ASSUME NEW v \in Workers, at'[v] \in {"sending", "sent"}
        PROVE  Current(row[v])'
    <3>1. v # w
      BY <1>7, <2>1
    <3>2. Current(row[v])
      BY <1>1, <1>7, <2>1, <3>1 DEF Sending, TargetKept
    <3>3. QED
      BY <1>5, <1>7, <3>1, <3>2 DEF Current
  <2>2. QED
    BY <2>1 DEF TargetKept
<1>13. ReportedLeft'
  BY <1>1, <1>5, <1>7 DEF Sending, ReportedLeft
<1>14. Counted'
  <2>1. \A d \in Issued : Uncounted(d) => Uncounted(d)'
    BY <1>7 DEF Uncounted
  <2>2. QED
    BY <1>1, <1>5, <1>8, <2>1 DEF Counted, MailsCounted, SentWasMailed
<1>15. Shape' /\ NewestIsOpen'
  BY <1>1, <1>5, <1>8 DEF Shape, NewestIsOpen
<1>16. VerifiesNewest /\ MailsCurrent
  BY <1>2, <1>5 DEF VerifiesNewest, MailsCurrent
<1>17. QED
  BY <1>9, <1>10, <1>11, <1>12, <1>13, <1>14, <1>15, <1>16
     DEF GoodStep, IInv, Sending

(* lock_current has found the target and keeps it.                          *)
LEMMA LockTargetStep ==
  ASSUME IInv, NEW w \in Workers, at[w] = "selected", Current(row[w]),
         at' = [at EXCEPT ![w] = "sending"],
         UNCHANGED <<contact, bucket, challenge, outbox, row, seen, reported,
                     mails, crashes>>
  PROVE  GoodStep
<1>1. Shape /\ Sending /\ Counted /\ NewestIsOpen
  BY DEF IInv
<1>2. mails \in [Issued -> Nat]
  BY <1>1, Tables
<1>3. Issued' = Issued
  BY DEF Issued
<1>4. WorkerShape
  BY <1>1 DEF Sending
<1>5. /\ at'[w] = "sending"
      /\ \A v \in Workers : v # w => at'[v] = at[v]
  BY <1>4 DEF WorkerShape
<1>6. WorkerShape'
  BY <1>4 DEF WorkerShape
<1>7. OnWaitingRow' /\ Alone'
  BY <1>1, <1>3, <1>5 DEF Sending, OnWaitingRow, Alone
<1>8. TargetKept'
  <2>1. ASSUME NEW v \in Workers, at'[v] \in {"sending", "sent"}
        PROVE  Current(row[v])'
    <3>1. Current(row[v])
      BY <1>1, <1>5, <2>1 DEF Sending, TargetKept
    <3>2. QED
      BY <3>1 DEF Current
  <2>2. QED
    BY <2>1 DEF TargetKept
<1>9. ReportedLeft'
  BY <1>1, <1>5 DEF Sending, ReportedLeft
<1>10. Counted'
  <2>1. \A d \in Issued : Uncounted(d) => Uncounted(d)'
    BY <1>5 DEF Uncounted
  <2>2. QED
    BY <1>1, <1>3, <2>1 DEF Counted, MailsCounted, SentWasMailed
<1>11. Shape' /\ NewestIsOpen'
  BY <1>1, <1>3 DEF Shape, NewestIsOpen
<1>12. VerifiesNewest /\ MailsCurrent
  BY <1>2 DEF VerifiesNewest, MailsCurrent
<1>13. QED
  BY <1>6, <1>7, <1>8, <1>9, <1>10, <1>11, <1>12 DEF GoodStep, IInv, Sending

\* The worker is between two rows again.
Released(w) ==
  /\ at' = [at EXCEPT ![w] = "idle"]
  /\ row' = [row EXCEPT ![w] = 0]
  /\ seen' = [seen EXCEPT ![w] = FALSE]
  /\ reported' = [reported EXCEPT ![w] = FALSE]

(* What is said of the workers still holds when one of them lets its row go *)
(* and no other's row has changed.                                          *)
LEMMA ReleaseWorker ==
  ASSUME IInv, NEW w \in Workers, at[w] # "idle", Released(w),
         UNCHANGED <<contact, challenge, mails>>,
         \A c \in Issued \ {row[w]} : outbox'[c] = outbox[c]
  PROVE  /\ Sending'
         /\ \A c \in Issued \ {row[w]} : Uncounted(c) => Uncounted(c)'
<1>1. Sending /\ WorkerShape
  BY DEF IInv, Sending
<1>2. Issued' = Issued
  BY DEF Issued
<1>3. /\ at'[w] = "idle" /\ row'[w] = 0 /\ ~reported'[w]
      /\ \A v \in Workers \ {w} :
           at'[v] = at[v] /\ row'[v] = row[v] /\ reported'[v] = reported[v]
  BY <1>1 DEF WorkerShape, Released
<1>4. WorkerShape'
  BY <1>1 DEF WorkerShape, Released
<1>5. \A v \in Workers \ {w} : at[v] # "idle" => row[v] \in Issued \ {row[w]}
  BY <1>1 DEF Sending, Alone, OnWaitingRow
<1>6. OnWaitingRow'
  <2>1. ASSUME NEW v \in Workers, at'[v] # "idle"
        PROVE  /\ row'[v] \in Issued
               /\ outbox'[row'[v]].status = "PENDING"
               /\ outbox'[row'[v]].attempts < MaxAttempts
    <3>1. v # w
      BY <1>3, <2>1
    <3>2. at[v] # "idle" /\ row'[v] = row[v]
      BY <1>3, <2>1, <3>1
    <3>3. outbox'[row[v]] = outbox[row[v]]
      BY <1>5, <3>1, <3>2
    <3>4. QED
      BY <1>1, <3>2, <3>3 DEF Sending, OnWaitingRow
  <2>2. \A v \in Workers : at'[v] = "idle" => row'[v] = 0
    BY <1>1, <1>3 DEF Sending, OnWaitingRow
  <2>3. QED
    BY <1>2, <2>1, <2>2 DEF OnWaitingRow
<1>7. Alone'
  BY <1>1, <1>3 DEF Sending, Alone
<1>8. TargetKept'
  <2>1. ASSUME NEW v \in Workers, at'[v] \in {"sending", "sent"}
        PROVE  Current(row[v])'
    <3>1. v # w
      BY <1>3, <2>1
    <3>2. Current(row[v]) /\ row'[v] = row[v]
      BY <1>1, <1>3, <2>1, <3>1 DEF Sending, TargetKept
    <3>3. QED
      BY <3>2 DEF Current
  <2>2. QED
    BY <2>1 DEF TargetKept
<1>9. ReportedLeft'
  BY <1>1, <1>3 DEF Sending, ReportedLeft
<1>10. \A c \in Issued \ {row[w]} : Uncounted(c) => Uncounted(c)'
  BY <1>3 DEF Uncounted
<1>11. QED
  BY <1>4, <1>6, <1>7, <1>8, <1>9, <1>10 DEF Sending

(* A row is settled: the attempt counts the mail that left, if one did.     *)
LEMMA SettleStep ==
  ASSUME IInv, NEW w \in Workers, at[w] # "idle",
         NEW st \in {"PENDING", "SENT", "FAILED", "SUPPRESSED"},
         st = "SENT" => mails[row[w]] > 0,
         Settle(w, st),
         UNCHANGED <<contact, bucket, challenge, mails, crashes>>
  PROVE  GoodStep
<1> DEFINE q == row[w]
           new == [outbox[q] EXCEPT !.status = st, !.attempts = @ + 1,
                                    !.due = (st # "PENDING")]
<1>1. Shape /\ Sending /\ Counted /\ NewestIsOpen
  BY DEF IInv
<1>2. /\ outbox \in [Issued -> Rows]
      /\ mails \in [Issued -> Nat]
      /\ crashes \in Nat
  BY <1>1, Tables DEF Shape
<1>3. q \in Issued /\ outbox[q].attempts < MaxAttempts
  BY <1>1 DEF Sending, OnWaitingRow
<1>4. new \in Rows /\ new.status = st /\ new.attempts = outbox[q].attempts + 1
  <2>1. outbox[q] \in Rows
    BY <1>2, <1>3
  <2>2. outbox[q].attempts + 1 \in 0 .. MaxAttempts
    BY <1>3, <2>1, BoundsAssumption DEF Rows
  <2>3. (st # "PENDING") \in BOOLEAN
    OBVIOUS
  <2>4. QED
    BY <2>1, <2>2, <2>3 DEF Rows
<1>5. outbox' = [outbox EXCEPT ![q] = new]
  BY <1>2, <1>3 DEF Settle
<1> HIDE DEF new
<1>6. /\ outbox' \in [Issued -> Rows]
      /\ outbox'[q] = new
      /\ \A c \in Issued \ {q} : outbox'[c] = outbox[c]
  BY <1>2, <1>3, <1>4, <1>5
<1>7. Released(w)
  BY DEF Settle, Released
<1>8. /\ Sending'
      /\ \A c \in Issued \ {q} : Uncounted(c) => Uncounted(c)'
  BY <1>6, <1>7, ReleaseWorker
<1>9. Shape'
  <2>1. outbox \in Seq(Rows) /\ DOMAIN outbox = Issued
    BY <1>1, <1>2 DEF Shape
  <2>2. outbox' \in Seq(Rows) /\ Len(outbox') = Len(outbox)
    BY <1>6, <2>1, Rewritten
  <2>3. QED
    BY <1>1, <2>2 DEF Shape
<1>10. Issued' = Issued
  BY DEF Issued
<1>11. MailsCounted'
  <2>1. ASSUME NEW c \in Issued
        PROVE  \/ mails[c] <= outbox'[c].attempts + crashes
               \/ Uncounted(c)' /\ mails[c] <= outbox'[c].attempts + crashes + 1
    <3>1. \/ mails[c] <= outbox[c].attempts + crashes
          \/ Uncounted(c) /\ mails[c] <= outbox[c].attempts + crashes + 1
      BY <1>1 DEF Counted, MailsCounted
    <3>2. outbox[c].attempts \in Nat /\ mails[c] \in Nat
      BY <1>2, BoundsAssumption DEF Rows
    <3>3. CASE c = q
      BY <1>2, <1>4, <1>6, <3>1, <3>2, <3>3
    <3>4. CASE c # q
      BY <1>6, <1>8, <3>1, <3>4
    <3>5. QED
      BY <3>3, <3>4
  <2>2. QED
    BY <1>10, <2>1 DEF MailsCounted
<1>12. SentWasMailed'
  BY <1>1, <1>4, <1>6, <1>10 DEF Counted, SentWasMailed
<1>13. NewestIsOpen'
  BY <1>1, <1>10 DEF NewestIsOpen
<1>14. VerifiesNewest /\ MailsCurrent
  BY <1>2 DEF VerifiesNewest, MailsCurrent
<1>15. QED
  BY <1>8, <1>9, <1>11, <1>12, <1>13, <1>14 DEF GoodStep, IInv, Counted

(* The target is locked, or the row is suppressed.                          *)
LEMMA LockStep ==
  ASSUME IInv, NEW w \in Workers, Lock(w)
  PROVE  GoodStep
<1>1. at[w] = "selected" /\ UNCHANGED <<contact, bucket, challenge, mails, crashes>>
  BY DEF Lock
<1>2. CASE /\ Current(row[w])
           /\ at' = [at EXCEPT ![w] = "sending"]
           /\ UNCHANGED <<outbox, row, seen, reported>>
  BY <1>1, <1>2, LockTargetStep
<1>3. CASE Settle(w, "SUPPRESSED")
  BY <1>1, <1>3, SettleStep
<1>4. QED
  BY <1>2, <1>3 DEF Lock

(* The end of _process_one.                                                 *)
LEMMA CommitStep ==
  ASSUME IInv, NEW w \in Workers, Commit(w)
  PROVE  GoodStep
<1> DEFINE st == IF reported[w] THEN "SENT"
                 ELSE IF outbox[row[w]].attempts + 1 >= MaxAttempts THEN "FAILED"
                 ELSE "PENDING"
<1>1. /\ at[w] = "sent"
      /\ Settle(w, st)
      /\ UNCHANGED <<contact, bucket, challenge, mails, crashes>>
  BY DEF Commit
<1>2. st \in {"PENDING", "SENT", "FAILED", "SUPPRESSED"}
  OBVIOUS
<1>3. st = "SENT" => mails[row[w]] > 0
  BY DEF IInv, Sending, ReportedLeft
<1> HIDE DEF st
<1>4. QED
  BY <1>1, <1>2, <1>3, SettleStep

(* A crash rolls the row back and counts for the mail that had left.        *)
LEMMA CrashStep ==
  ASSUME IInv, NEW w \in Workers, Crash(w)
  PROVE  GoodStep
<1>1. Shape /\ Sending /\ Counted /\ NewestIsOpen
  BY DEF IInv
<1>2. /\ outbox \in [Issued -> Rows]
      /\ mails \in [Issued -> Nat]
      /\ crashes \in Nat
  BY <1>1, Tables DEF Shape
<1>3. /\ at[w] # "idle" /\ Released(w) /\ crashes' = crashes + 1
      /\ UNCHANGED <<contact, bucket, challenge, outbox, mails>>
  BY DEF Crash, Released
<1>4. Sending'
  BY <1>3, ReleaseWorker
<1>5. Issued' = Issued
  BY <1>3 DEF Issued
<1>6. MailsCounted'
  <2>1. ASSUME NEW c \in Issued
        PROVE  mails[c] <= outbox[c].attempts + crashes + 1
    <3>1. outbox[c].attempts \in Nat /\ mails[c] \in Nat
      BY <1>2, BoundsAssumption DEF Rows
    <3>2. \/ mails[c] <= outbox[c].attempts + crashes
          \/ mails[c] <= outbox[c].attempts + crashes + 1
      BY <1>1 DEF Counted, MailsCounted
    <3>3. QED
      BY <1>2, <3>1, <3>2
  <2>2. \A c \in Issued : outbox[c].attempts \in Nat
    BY <1>2, BoundsAssumption DEF Rows
  <2>3. QED
    BY <1>2, <1>3, <1>5, <2>1, <2>2 DEF MailsCounted
<1>7. SentWasMailed'
  BY <1>1, <1>3, <1>5 DEF Counted, SentWasMailed
<1>8. Shape' /\ NewestIsOpen'
  BY <1>1, <1>3, <1>5 DEF Shape, NewestIsOpen
<1>9. VerifiesNewest /\ MailsCurrent
  BY <1>2, <1>3 DEF VerifiesNewest, MailsCurrent
<1>10. QED
  BY <1>4, <1>6, <1>7, <1>8, <1>9 DEF GoodStep, IInv, Counted

(* The code leaves, to the contact lock_current holds; at most one mail     *)
(* leaves before the attempt is counted.                                    *)
LEMMA TransmitStep ==
  ASSUME IInv, NEW w \in Workers, Transmit(w)
  PROVE  GoodStep
<1> DEFINE q == row[w]
<1>1. Shape /\ Sending /\ Counted /\ NewestIsOpen
  BY DEF IInv
<1>2. /\ outbox \in [Issued -> Rows]
      /\ mails \in [Issued -> Nat]
      /\ crashes \in Nat
  BY <1>1, Tables DEF Shape
<1>3. /\ at[w] = "sending"
      /\ UNCHANGED <<contact, bucket, challenge, outbox, row, seen, crashes>>
  BY DEF Transmit
<1>4. q \in Issued /\ Current(q)
  BY <1>1, <1>3 DEF Sending, OnWaitingRow, TargetKept
<1>5. WorkerShape
  BY <1>1 DEF Sending
<1>6. /\ at' \in [Workers -> {"idle", "selected", "sending", "sent"}]
      /\ at'[w] = "sent"
      /\ \A v \in Workers : v # w => at'[v] = at[v]
  BY <1>5 DEF WorkerShape, Transmit
<1>7. PICK left, confirmed \in BOOLEAN :
        /\ confirmed => left
        /\ mails' = IF left THEN [mails EXCEPT ![q] = @ + 1] ELSE mails
        /\ reported' = [reported EXCEPT ![w] = confirmed]
  BY DEF Transmit
<1>8. /\ reported' \in [Workers -> BOOLEAN]
      /\ reported'[w] = confirmed
      /\ \A v \in Workers : v # w => reported'[v] = reported[v]
  BY <1>5, <1>7 DEF WorkerShape
<1>9. /\ mails' \in [Issued -> Nat]
      /\ mails'[q] \in {mails[q], mails[q] + 1}
      /\ confirmed => mails'[q] = mails[q] + 1
      /\ \A c \in Issued : c # q => mails'[c] = mails[c]
  <2>1. CASE left
    BY <1>2, <1>4, <1>7, <2>1
  <2>2. CASE ~left
    BY <1>2, <1>4, <1>7, <2>2
  <2>3. QED
    BY <2>1, <2>2
<1>10. Issued' = Issued
  BY <1>3 DEF Issued
<1>11. Shape'
  <2>1. mails \in Seq(Nat) /\ DOMAIN mails = Issued
    BY <1>1, <1>2 DEF Shape
  <2>2. mails' \in Seq(Nat) /\ Len(mails') = Len(mails)
    BY <1>9, <2>1, Rewritten
  <2>3. QED
    BY <1>1, <1>3, <2>2 DEF Shape
<1>12. WorkerShape'
  BY <1>3, <1>5, <1>6, <1>8 DEF WorkerShape
<1>13. OnWaitingRow' /\ Alone'
  BY <1>1, <1>3, <1>6, <1>10 DEF Sending, OnWaitingRow, Alone
<1>14. TargetKept'
  <2>1. ASSUME NEW v \in Workers, at'[v] \in {"sending", "sent"}
        PROVE  Current(row[v])'
    <3>1. Current(row[v])
      BY <1>1, <1>4, <1>6, <2>1 DEF Sending, TargetKept
    <3>2. QED
      BY <1>3, <3>1 DEF Current
  <2>2. QED
    BY <2>1 DEF TargetKept
<1>15. ReportedLeft'
  <2>1. ASSUME NEW v \in Workers, reported'[v]
        PROVE  at'[v] = "sent" /\ mails'[row[v]] > 0
    <3>1. CASE v = w
      BY <1>2, <1>4, <1>6, <1>8, <1>9, <2>1, <3>1
    <3>2. CASE v # w
      <4>1. at[v] = "sent" /\ mails[row[v]] > 0
        BY <1>1, <1>8, <2>1, <3>2 DEF Sending, ReportedLeft
      <4>2. row[v] \in Issued \ {q}
        BY <1>1, <1>3, <3>2, <4>1 DEF Sending, OnWaitingRow, Alone
      <4>3. QED
        BY <1>6, <1>9, <3>2, <4>1, <4>2
    <3>3. QED
      BY <3>1, <3>2
  <2>2. QED
    BY <1>3, <2>1 DEF ReportedLeft
<1>16. MailsCounted'
  <2>1. ASSUME NEW c \in Issued
        PROVE  \/ mails'[c] <= outbox[c].attempts + crashes
               \/ Uncounted(c)' /\ mails'[c] <= outbox[c].attempts + crashes + 1
    <3>1. \/ mails[c] <= outbox[c].attempts + crashes
          \/ Uncounted(c) /\ mails[c] <= outbox[c].attempts + crashes + 1
      BY <1>1 DEF Counted, MailsCounted
    <3>2. outbox[c].attempts \in Nat /\ mails[c] \in Nat
      BY <1>2, BoundsAssumption DEF Rows
    <3>3. CASE c = q
      <4>1. ~Uncounted(c)
        BY <1>1, <1>3, <3>3 DEF Uncounted, Sending, Alone
      <4>2. Uncounted(c)'
        BY <1>3, <1>6, <3>3 DEF Uncounted
      <4>3. QED
        BY <1>2, <1>9, <3>1, <3>2, <3>3, <4>1, <4>2
    <3>4. CASE c # q
      <4>1. Uncounted(c) => Uncounted(c)'
        BY <1>3, <1>6 DEF Uncounted
      <4>2. QED
        BY <1>9, <3>1, <3>4, <4>1
    <3>5. QED
      BY <3>3, <3>4
  <2>2. QED
    BY <1>3, <1>10, <2>1 DEF MailsCounted
<1>17. SentWasMailed'
  <2>1. \A c \in Issued : mails[c] > 0 => mails'[c] > 0
    BY <1>2, <1>4, <1>9
  <2>2. QED
    BY <1>1, <1>3, <1>10, <2>1 DEF Counted, SentWasMailed
<1>18. NewestIsOpen'
  BY <1>1, <1>3, <1>10 DEF NewestIsOpen
<1>19. VerifiesNewest
  BY <1>3 DEF VerifiesNewest
<1>20. MailsCurrent
  BY <1>2, <1>4, <1>9 DEF MailsCurrent
<1>21. QED
  BY <1>11, <1>12, <1>13, <1>14, <1>15, <1>16, <1>17, <1>18, <1>19, <1>20
     DEF GoodStep, IInv, Sending, Counted

-----------------------------------------------------------------------------
(* A new challenge. *)

(* The subject's earlier challenges are consumed, so that the new one is    *)
(* the only one that may still be verified.                                 *)
LEMMA CreateStep ==
  ASSUME IInv, NEW s \in Subjects, Create(s)
  PROVE  GoodStep
<1> DEFINE n == Len(challenge) + 1
           earlier == {c \in Issued : /\ challenge[c].subject = s
                                      /\ challenge[c].state \in {"open", "expired"}}
           kept == [c \in Issued |-> IF c \in earlier
                                     THEN [challenge[c] EXCEPT !.state = "consumed"]
                                     ELSE challenge[c]]
           fresh == [subject |-> s, contact |-> contact[s],
                     state |-> "open", failures |-> 0]
           mail == [status |-> IF contact[s] = NOBODY THEN "SUPPRESSED" ELSE "PENDING",
                    attempts |-> 0, due |-> TRUE]
<1>1. Shape /\ Sending /\ Counted /\ NewestIsOpen
  BY DEF IInv
<1>2. /\ Len(challenge) \in Nat
      /\ Issued = 1 .. Len(challenge)
      /\ challenge \in [Issued -> Challenges]
      /\ outbox \in [Issued -> Rows]
      /\ mails \in [Issued -> Nat]
      /\ contact \in [Subjects -> Contacts \cup {NOBODY}]
      /\ crashes \in Nat
  BY <1>1, Tables DEF Shape
<1>3. /\ challenge' = Append(kept, fresh)
      /\ outbox' = Append(outbox, mail)
      /\ mails' = Append(mails, 0)
      /\ UNCHANGED <<contact, worker, crashes>>
  BY DEF Create
<1>4. /\ kept \in [Issued -> Challenges]
      /\ \A c \in Issued :
           /\ kept[c].subject = challenge[c].subject
           /\ kept[c].contact = challenge[c].contact
           /\ kept[c].state = "verified" => challenge[c].state = "verified"
           /\ kept[c].state \in {"open", "expired"} =>
                challenge[c].state \in {"open", "expired"} /\ challenge[c].subject # s
  <2>1. \A c \in Issued :
          /\ [challenge[c] EXCEPT !.state = "consumed"] \in Challenges
          /\ challenge[c] \in Challenges
    BY <1>2 DEF Challenges, Closed
  <2>2. kept \in [Issued -> Challenges]
    BY <2>1
  <2>3. ASSUME NEW c \in Issued
        PROVE  /\ kept[c].subject = challenge[c].subject
               /\ kept[c].contact = challenge[c].contact
               /\ kept[c].state = "verified" => challenge[c].state = "verified"
               /\ kept[c].state \in {"open", "expired"} =>
                    challenge[c].state \in {"open", "expired"} /\ challenge[c].subject # s
    <3>1. challenge[c] \in Challenges
      BY <1>2
    <3>2. CASE c \in earlier
      <4>1. kept[c] = [challenge[c] EXCEPT !.state = "consumed"]
        BY <3>2
      <4>2. QED
        BY <3>1, <4>1 DEF Challenges
    <3>3. CASE c \notin earlier
      BY <3>3
    <3>4. QED
      BY <3>2, <3>3
  <2>4. QED
    BY <2>2, <2>3
<1>5. fresh \in Challenges /\ fresh.subject = s
  BY <1>2, BoundsAssumption DEF Challenges
<1>6. mail \in Rows /\ mail.attempts = 0 /\ mail.status # "SENT"
  BY BoundsAssumption DEF Rows
<1> HIDE DEF kept, fresh, mail, earlier
<1>7. /\ challenge' \in Seq(Challenges)
      /\ Len(challenge') = n
      /\ \A c \in Issued : challenge'[c] = kept[c]
      /\ challenge'[n] = fresh
  <2>1. challenge \in Seq(Challenges) /\ DOMAIN challenge = Issued
    BY <1>1 DEF Shape, Issued
  <2>2. kept \in Seq(Challenges) /\ Len(kept) = Len(challenge)
    BY <1>4, <2>1, Rewritten
  <2>3. QED
    BY <1>2, <1>3, <1>5, <2>2, AppendProperties
<1>8. /\ outbox' \in Seq(Rows)
      /\ Len(outbox') = n
      /\ \A c \in Issued : outbox'[c] = outbox[c]
      /\ outbox'[n] = mail
  <2>1. outbox \in Seq(Rows) /\ Len(outbox) = Len(challenge)
    BY <1>1 DEF Shape
  <2>2. QED
    BY <1>2, <1>3, <1>6, <2>1, AppendProperties
<1>9. /\ mails' \in Seq(Nat)
      /\ Len(mails') = n
      /\ \A c \in Issued : mails'[c] = mails[c]
      /\ mails'[n] = 0
  <2>1. mails \in Seq(Nat) /\ Len(mails) = Len(challenge)
    BY <1>1 DEF Shape
  <2>2. mails' = Append(mails, 0) /\ 0 \in Nat
    BY <1>3
  <2>3. /\ Append(mails, 0) \in Seq(Nat)
        /\ Len(Append(mails, 0)) = Len(mails) + 1
        /\ \A c \in 1 .. Len(mails) : Append(mails, 0)[c] = mails[c]
        /\ Append(mails, 0)[Len(mails) + 1] = 0
    BY <2>1, <2>2, AppendProperties
  <2>4. QED
    BY <1>2, <2>1, <2>2, <2>3
<1>10. Issued' = Issued \cup {n} /\ n \notin Issued /\ n \in Nat
  <2>1. Issued' = 1 .. n
    BY <1>7, LenProperties DEF Issued
  <2>2. QED
    BY <1>2, <2>1
<1>11. bucket' \in [Subjects -> [count : 0 .. MaxPerWindow, cooling : BOOLEAN]]
  <2>1. bucket \in [Subjects -> [count : 0 .. MaxPerWindow, cooling : BOOLEAN]]
    BY <1>1 DEF Shape
  <2>2. bucket[s].count + 1 \in 0 .. MaxPerWindow
    BY <2>1, BoundsAssumption DEF Create
  <2>3. bucket' = [bucket EXCEPT ![s] = [count |-> @.count + 1, cooling |-> TRUE]]
    BY DEF Create
  <2>4. [count |-> bucket[s].count + 1, cooling |-> TRUE]
          \in [count : 0 .. MaxPerWindow, cooling : BOOLEAN]
    BY <2>2
  <2>5. QED
    BY <2>1, <2>3, <2>4
<1>12. Shape'
  BY <1>1, <1>3, <1>7, <1>8, <1>9, <1>11 DEF Shape
<1>13. Sending'
  <2>1. WorkerShape' /\ Alone'
    BY <1>1, <1>3 DEF Sending, WorkerShape, Alone, worker
  <2>2. OnWaitingRow'
    BY <1>1, <1>3, <1>8, <1>10 DEF Sending, OnWaitingRow, worker
  <2>3. TargetKept'
    <3>1. ASSUME NEW w \in Workers, at'[w] \in {"sending", "sent"}
          PROVE  Current(row[w])'
      <4>1. at[w] \in {"sending", "sent"} /\ row'[w] = row[w]
        BY <1>3, <3>1 DEF worker
      <4>2. row[w] \in Issued /\ Current(row[w])
        BY <1>1, <4>1 DEF Sending, OnWaitingRow, TargetKept
      <4>3. /\ challenge'[row[w]].subject = challenge[row[w]].subject
            /\ challenge'[row[w]].contact = challenge[row[w]].contact
        BY <1>4, <1>7, <4>2
      <4>4. QED
        BY <1>3, <4>1, <4>2, <4>3 DEF Current
    <3>2. QED
      BY <3>1 DEF TargetKept
  <2>4. ReportedLeft'
    <3>1. ASSUME NEW w \in Workers, reported[w]
          PROVE  at[w] = "sent" /\ mails'[row[w]] > 0
      <4>1. at[w] = "sent" /\ mails[row[w]] > 0
        BY <1>1, <3>1 DEF Sending, ReportedLeft
      <4>2. row[w] \in Issued
        BY <1>1, <4>1 DEF Sending, OnWaitingRow
      <4>3. QED
        BY <1>9, <4>1, <4>2
    <3>2. QED
      BY <1>3, <3>1 DEF ReportedLeft, worker
  <2>5. QED
    BY <2>1, <2>2, <2>3, <2>4 DEF Sending
<1>14. MailsCounted'
  <2>1. \A c \in Issued :
          \/ mails'[c] <= outbox'[c].attempts + crashes
          \/ Uncounted(c)' /\ mails'[c] <= outbox'[c].attempts + crashes + 1
    BY <1>1, <1>3, <1>8, <1>9 DEF Counted, MailsCounted, Uncounted, worker
  <2>2. mails'[n] <= outbox'[n].attempts + crashes
    BY <1>2, <1>6, <1>8, <1>9
  <2>3. QED
    BY <1>3, <1>10, <2>1, <2>2 DEF MailsCounted
<1>15. SentWasMailed'
  <2>1. \A c \in Issued : outbox'[c].status = "SENT" => mails'[c] > 0
    BY <1>1, <1>8, <1>9 DEF Counted, SentWasMailed
  <2>2. outbox'[n].status # "SENT"
    BY <1>6, <1>8
  <2>3. QED
    BY <1>10, <2>1, <2>2 DEF SentWasMailed
<1>16. NewestIsOpen'
  <2>1. ASSUME NEW c \in Issued', NEW d \in Issued',
               challenge'[c].state \in {"open", "expired"},
               challenge'[d].subject = challenge'[c].subject
        PROVE  d <= c
    <3>1. CASE c = n
      BY <1>2, <1>10, <3>1
    <3>2. CASE c \in Issued
      <4>1. challenge[c].state \in {"open", "expired"} /\ challenge[c].subject # s
        BY <1>4, <1>7, <2>1, <3>2
      <4>2. challenge'[c].subject = challenge[c].subject
        BY <1>4, <1>7, <3>2
      <4>3. d # n
        BY <1>5, <1>7, <2>1, <4>1, <4>2
      <4>4. d \in Issued
        BY <1>10, <4>3
      <4>5. challenge'[d].subject = challenge[d].subject
        BY <1>4, <1>7, <4>4
      <4>6. QED
        BY <1>1, <2>1, <3>2, <4>1, <4>2, <4>4, <4>5 DEF NewestIsOpen
    <3>3. QED
      BY <1>10, <3>1, <3>2
  <2>2. QED
    BY <2>1 DEF NewestIsOpen
<1>17. VerifiesNewest
  BY <1>4, <1>7 DEF VerifiesNewest
<1>18. MailsCurrent
  BY <1>2, <1>9 DEF MailsCurrent
<1>19. QED
  BY <1>12, <1>13, <1>14, <1>15, <1>16, <1>17, <1>18 DEF GoodStep, IInv, Counted

-----------------------------------------------------------------------------
(* The results. *)

(* No challenge, no mail, every worker idle.                                *)
LEMMA InitIInv ==
  ASSUME Init
  PROVE  IInv
<1>1. /\ challenge \in Seq(Challenges) /\ Len(challenge) = 0 /\ Issued = {}
      /\ outbox \in Seq(Rows) /\ Len(outbox) = 0
      /\ mails \in Seq(Nat) /\ Len(mails) = 0
  BY EmptySeq DEF Init, Issued
<1>2. bucket \in [Subjects -> [count : 0 .. MaxPerWindow, cooling : BOOLEAN]]
  BY BoundsAssumption DEF Init
<1>3. Shape
  BY <1>1, <1>2 DEF Shape, Init
<1>4. Sending
  BY DEF Sending, WorkerShape, OnWaitingRow, Alone, TargetKept, ReportedLeft, Init
<1>5. Counted /\ NewestIsOpen
  BY <1>1 DEF Counted, MailsCounted, SentWasMailed, NewestIsOpen
<1>6. QED
  BY <1>3, <1>4, <1>5 DEF IInv

(* Every step of the Backend, of a worker and of the customer is good.      *)
LEMMA EveryStep ==
  ASSUME IInv, Next
  PROVE  GoodStep
<1>1. CASE \E s \in Subjects :
             Create(s) \/ CoolingPasses(s) \/ WindowPasses(s) \/ TargetChanges(s)
  BY <1>1, CreateStep, BucketStep, TargetStep
<1>2. CASE \E c \in Issued :
             WrongCode(c) \/ RightCode(c) \/ Expire(c) \/ BackoffPasses(c)
  BY <1>2, WrongCodeStep, RightCodeStep, ExpireStep, BackoffStep
<1>3. CASE \E w \in Workers :
             Select(w) \/ Lock(w) \/ Transmit(w) \/ Commit(w) \/ Crash(w)
  BY <1>3, SelectStep, LockStep, TransmitStep, CommitStep, CrashStep
<1>4. QED
  BY <1>1, <1>2, <1>3 DEF Next

(* Nothing happens.                                                         *)
LEMMA Stutter ==
  ASSUME IInv, UNCHANGED vars
  PROVE  IInv'
<1>1. Shape /\ Sending /\ Counted /\ NewestIsOpen
  BY DEF IInv
<1>2. Shape' /\ NewestIsOpen'
  BY <1>1 DEF Shape, NewestIsOpen, Issued, vars
<1>3. WorkerShape' /\ OnWaitingRow' /\ Alone' /\ ReportedLeft'
  BY <1>1 DEF Sending, WorkerShape, OnWaitingRow, Alone, ReportedLeft, Issued,
              vars, worker
<1>4. TargetKept'
  BY <1>1 DEF Sending, TargetKept, Current, vars, worker
<1>5. Counted'
  BY <1>1 DEF Counted, MailsCounted, SentWasMailed, Uncounted, Issued, vars, worker
<1>6. QED
  BY <1>2, <1>3, <1>4, <1>5 DEF IInv, Sending

(* The inductive invariant holds always: a busy worker is alone on a row    *)
(* that waits, its target does not move, and every mail is accounted for.   *)
THEOREM Invariance == Spec => []IInv
<1>1. IInv /\ [Next]_vars => IInv'
  BY EveryStep, Stutter DEF GoodStep
<1>2. QED
  BY <1>1, InitIInv, PTL DEF Spec

(* The rows and workers keep the shape the tables and _process_one give     *)
(* them.                                                                    *)
THEOREM TypeCorrect == Spec => []TypeOK
<1>1. IInv => TypeOK
  <2>1. SUFFICES ASSUME IInv PROVE TypeOK
    OBVIOUS
  <2>2. Shape /\ Sending
    BY <2>1 DEF IInv
  <2>3. /\ Issued = 1 .. Len(challenge)
        /\ challenge \in [Issued -> Challenges]
        /\ outbox \in [Issued -> Rows]
        /\ mails \in [Issued -> Nat]
    BY <2>2, Tables
  <2>4. \A w \in Workers : at[w] # "idle" <=> row[w] \in Issued
    BY <2>2, <2>3 DEF Sending, OnWaitingRow
  <2>5. QED
    BY <2>2, <2>3, <2>4 DEF TypeOK, Shape, Challenges, Rows
<1>2. QED
  BY <1>1, Invariance, PTL

(* A code is mailed at most max_attempts times and once more for every      *)
(* crash, SENT says that a mail left, and a mail no attempt counts is the   *)
(* work of a crash or of a worker still at it.                              *)
THEOREM LedgerKept == Spec => []DeliveryLedger
<1>1. IInv => DeliveryLedger
  <2>1. SUFFICES ASSUME IInv, NEW c \in Issued
                 PROVE  /\ mails[c] <= MaxAttempts + crashes
                        /\ outbox[c].status = "SENT" => mails[c] > 0
                        /\ mails[c] > 0 /\ outbox[c].attempts = 0
                             => crashes > 0 \/ Selected(c)
    BY DEF DeliveryLedger
  <2>2. Shape /\ Sending /\ Counted
    BY <2>1 DEF IInv
  <2>3. /\ mails[c] \in Nat /\ crashes \in Nat
        /\ outbox[c].attempts \in 0 .. MaxAttempts /\ MaxAttempts \in Nat
    BY <2>2, Tables, BoundsAssumption DEF Shape, Rows
  <2>4. \/ mails[c] <= outbox[c].attempts + crashes
        \/ Uncounted(c) /\ mails[c] <= outbox[c].attempts + crashes + 1
    BY <2>2 DEF Counted, MailsCounted
  <2>5. Uncounted(c) => Selected(c) /\ outbox[c].attempts < MaxAttempts
    BY <2>2 DEF Uncounted, Selected, Sending, OnWaitingRow
  <2>6. outbox[c].status = "SENT" => mails[c] > 0
    BY <2>2 DEF Counted, SentWasMailed
  <2>7. mails[c] <= MaxAttempts + crashes
    BY <2>3, <2>4, <2>5
  <2>8. mails[c] > 0 /\ outbox[c].attempts = 0 => crashes > 0 \/ Selected(c)
    BY <2>3, <2>4, <2>5
  <2>9. QED
    BY <2>6, <2>7, <2>8
<1>2. QED
  BY <1>1, Invariance, PTL

(* A code is accepted only for the newest challenge of its subject and      *)
(* while the contact it went to is still the customer's.                    *)
THEOREM NewestAlwaysVerifies == Spec => OnlyNewestVerifies
<1>1. IInv /\ [Next]_vars => [VerifiesNewest]_vars
  BY EveryStep DEF GoodStep
<1>2. Spec => [][VerifiesNewest]_vars
  BY <1>1, Invariance, PTL DEF Spec
<1>3. QED
  BY <1>2 DEF OnlyNewestVerifies, VerifiesNewest

(* A mail leaves only to the contact that is the customer's at that moment. *)
THEOREM MailsGoToCurrent == Spec => MailsCurrentContact
<1>1. IInv /\ [Next]_vars => [MailsCurrent]_vars
  BY EveryStep DEF GoodStep
<1>2. Spec => [][MailsCurrent]_vars
  BY <1>1, Invariance, PTL DEF Spec
<1>3. QED
  BY <1>2 DEF MailsCurrentContact, MailsCurrent

===============================================================================
