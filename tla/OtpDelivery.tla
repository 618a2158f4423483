----------------------------- MODULE OtpDelivery -----------------------------
(* One-time codes for sign-up and account recovery.  A request writes a      *)
(* challenge and an outbox row in one transaction; the mail worker of        *)
(* process_p1_auth_email_outbox sends the code and settles the row inside a  *)
(* second one; the customer then types the code.  The worker reads the       *)
(* challenge when it selects the outbox row, before it holds the challenge's *)
(* lock, it can die before it commits, and the mail server can take a        *)
(* message whose transmission it then reports as failed.                     *)
(* A subject is a purpose with the fingerprint of the identity typed in.     *)
EXTENDS Naturals, Sequences

CONSTANTS
  Subjects,       \* what buckets and replacements are keyed by
  Contacts,       \* contract e-mail contacts
  Workers,        \* mail workers
  MaxAttempts,    \* P1AuthEmailOutbox.max_attempts
  MaxFailures,    \* P1_AUTH_OTP_MAX_FAILURES
  MaxPerWindow,   \* P1_AUTH_CHALLENGE_MAX_PER_WINDOW
  MaxChallenges,  \* bound on the challenges of a behaviour
  MaxCrashes      \* bound on the workers' crashes

NOBODY == "nobody"

ASSUME BoundsAssumption ==
  /\ {MaxAttempts, MaxFailures, MaxPerWindow} \subseteq Nat \ {0}
  /\ {MaxChallenges, MaxCrashes} \subseteq Nat
  /\ NOBODY \notin Contacts

VARIABLES
  contact,    \* of each subject: the contact lock_current finds now, if any
  bucket,     \* P1AuthChallengeRateBucket of each subject
  challenge,  \* P1AuthOtpChallenge rows, oldest first
  outbox,     \* the P1AuthEmailOutbox row of each challenge
  at,         \* where each worker is
  row,        \* the row it has selected
  seen,       \* whether the challenge was usable when it selected the row
  reported,   \* what the mail server told it
  mails,      \* how often the mail of a challenge left
  crashes

worker == <<at, row, seen, reported>>
vars == <<contact, bucket, challenge, outbox, worker, mails, crashes>>

Closed == {"expired", "consumed", "verified"}
Issued == DOMAIN challenge

Init ==
  /\ contact \in [Subjects -> Contacts \cup {NOBODY}]
  /\ bucket = [s \in Subjects |-> [count |-> 0, cooling |-> FALSE]]
  /\ challenge = << >>
  /\ outbox = << >>
  /\ at = [w \in Workers |-> "idle"]
  /\ row = [w \in Workers |-> 0]
  /\ seen = [w \in Workers |-> FALSE]
  /\ reported = [w \in Workers |-> FALSE]
  /\ mails = << >>
  /\ crashes = 0

-----------------------------------------------------------------------------
(* Row locks.  A worker holds the lock of its outbox row from the selection  *)
(* on, those of the challenge and of the contact once it has written         *)
(* delivery_attempted and called lock_current.                               *)

Selected(c) == \E w \in Workers : at[w] # "idle" /\ row[w] = c
Held(c) == \E w \in Workers : at[w] \in {"sending", "sent"} /\ row[w] = c
TargetHeld(s) == \E c \in Issued : challenge[c].subject = s /\ Held(c)

\* lock_current: the challenge's contact is still the one to write to.
Current(c) ==
  /\ challenge[c].contact # NOBODY
  /\ contact[challenge[c].subject] = challenge[c].contact

-----------------------------------------------------------------------------
(* The API. *)

\* Mutant: the earlier challenges stay open.
CreateKeepsOthers(s) ==
  /\ Len(challenge) < MaxChallenges
  /\ ~bucket[s].cooling
  /\ bucket[s].count < MaxPerWindow
  /\ challenge' = Append(challenge, [subject |-> s, contact |-> contact[s],
                                     state |-> "open", failures |-> 0])
  /\ outbox' = Append(outbox, [status |-> IF contact[s] = NOBODY THEN "SUPPRESSED"
                                                                 ELSE "PENDING",
                               attempts |-> 0, due |-> TRUE])
  /\ mails' = Append(mails, 0)
  /\ bucket' = [bucket EXCEPT ![s] = [count |-> @.count + 1, cooling |-> TRUE]]
  /\ UNCHANGED <<contact, worker, crashes>>

(* create_challenge with a new Idempotency-Key, serialized per subject by   *)
(* the bucket's lock.  It consumes the subject's unconsumed challenges, for *)
(* which it waits until no worker holds them.                               *)
Create(s) ==
  /\ Len(challenge) < MaxChallenges
  /\ ~bucket[s].cooling
  /\ bucket[s].count < MaxPerWindow
  /\ LET earlier == {c \in Issued : /\ challenge[c].subject = s
                                    /\ challenge[c].state \in {"open", "expired"}}
         kept == [c \in Issued |-> IF c \in earlier
                                   THEN [challenge[c] EXCEPT !.state = "consumed"]
                                   ELSE challenge[c]]
     IN /\ \A c \in earlier : ~Held(c)
        /\ challenge' = Append(kept, [subject |-> s, contact |-> contact[s],
                                      state |-> "open", failures |-> 0])
  /\ outbox' = Append(outbox, [status |-> IF contact[s] = NOBODY THEN "SUPPRESSED"
                                                                 ELSE "PENDING",
                               attempts |-> 0, due |-> TRUE])
  /\ mails' = Append(mails, 0)
  /\ bucket' = [bucket EXCEPT ![s] = [count |-> @.count + 1, cooling |-> TRUE]]
  /\ UNCHANGED <<contact, worker, crashes>>

\* The challenge takes a code: the early returns of _lock_and_verify_challenge.
Answerable(c) ==
  /\ ~Held(c)
  /\ challenge[c].state = "open"
  /\ challenge[c].failures < MaxFailures

WrongCode(c) ==
  /\ Answerable(c)
  /\ challenge' = [challenge EXCEPT ![c].failures = @ + 1]
  /\ UNCHANGED <<contact, bucket, outbox, worker, mails, crashes>>

(* The code of a mail that left.  A challenge whose target is no longer     *)
(* current is consumed without effect.                                      *)
RightCode(c) ==
  /\ Answerable(c)
  /\ mails[c] > 0
  /\ ~TargetHeld(challenge[c].subject)
  /\ challenge' = [challenge EXCEPT ![c].state = IF Current(c) THEN "verified"
                                                               ELSE "consumed"]
  /\ UNCHANGED <<contact, bucket, outbox, worker, mails, crashes>>

-----------------------------------------------------------------------------
(* The mail worker. *)

Due == {c \in Issued : /\ outbox[c].status = "PENDING"
                       /\ outbox[c].due
                       /\ outbox[c].attempts < MaxAttempts
                       /\ ~Selected(c)}

(* _process_one selects the oldest due row that is not locked, and reads its *)
(* challenge without a lock.                                                 *)
Select(w) ==
  /\ at[w] = "idle"
  /\ \E c \in Due :
       /\ \A d \in Due : c <= d
       /\ row' = [row EXCEPT ![w] = c]
       /\ seen' = [seen EXCEPT ![w] = /\ challenge[c].state = "open"
                                      /\ challenge[c].failures < MaxFailures]
  /\ at' = [at EXCEPT ![w] = "selected"]
  /\ UNCHANGED <<contact, bucket, challenge, outbox, reported, mails, crashes>>

\* The transaction commits with the row settled, or due again after a delay.
Settle(w, status) ==
  /\ outbox' = [outbox EXCEPT ![row[w]].status = status,
                              ![row[w]].attempts = @ + 1,
                              ![row[w]].due = (status # "PENDING")]
  /\ at' = [at EXCEPT ![w] = "idle"]
  /\ row' = [row EXCEPT ![w] = 0]
  /\ seen' = [seen EXCEPT ![w] = FALSE]
  /\ reported' = [reported EXCEPT ![w] = FALSE]

\* Mutant: the contact of the challenge is used without looking at it again.
LockUnchecked(w) ==
  /\ at[w] = "selected"
  /\ seen[w] => ~TargetHeld(challenge[row[w]].subject)
  /\ \/ /\ seen[w]
        /\ at' = [at EXCEPT ![w] = "sending"]
        /\ UNCHANGED <<outbox, row, seen, reported>>
     \/ /\ ~seen[w]
        /\ Settle(w, "SUPPRESSED")
  /\ UNCHANGED <<contact, bucket, challenge, mails, crashes>>

\* Mutant: a row that must not be delivered is left as it is.
LockSkips(w) ==
  /\ at[w] = "selected"
  /\ seen[w] => ~TargetHeld(challenge[row[w]].subject)
  /\ \/ /\ seen[w] /\ Current(row[w])
        /\ at' = [at EXCEPT ![w] = "sending"]
        /\ UNCHANGED <<outbox, row, seen, reported>>
     \/ /\ ~(seen[w] /\ Current(row[w]))
        /\ at' = [at EXCEPT ![w] = "idle"]
        /\ row' = [row EXCEPT ![w] = 0]
        /\ seen' = [seen EXCEPT ![w] = FALSE]
        /\ UNCHANGED <<outbox, reported>>
  /\ UNCHANGED <<contact, bucket, challenge, mails, crashes>>

(* delivery_attempted is written, which locks the challenge; for one that   *)
(* was usable lock_current waits for the target's rows and locks them.      *)
Lock(w) ==
  /\ at[w] = "selected"
  /\ seen[w] => ~TargetHeld(challenge[row[w]].subject)
  /\ \/ /\ seen[w] /\ Current(row[w])
        /\ at' = [at EXCEPT ![w] = "sending"]
        /\ UNCHANGED <<outbox, row, seen, reported>>
     \/ /\ ~(seen[w] /\ Current(row[w]))
        /\ Settle(w, "SUPPRESSED")
  /\ UNCHANGED <<contact, bucket, challenge, mails, crashes>>

(* deliver_otp: sent, refused by the policy or the server, or sent with the *)
(* confirmation lost.                                                       *)
Transmit(w) ==
  /\ at[w] = "sending"
  /\ \E left, confirmed \in BOOLEAN :
       /\ confirmed => left
       /\ mails' = IF left THEN [mails EXCEPT ![row[w]] = @ + 1] ELSE mails
       /\ reported' = [reported EXCEPT ![w] = confirmed]
  /\ at' = [at EXCEPT ![w] = "sent"]
  /\ UNCHANGED <<contact, bucket, challenge, outbox, row, seen, crashes>>

\* Mutant: a failed attempt leaves the row pending for good.
CommitForever(w) ==
  /\ at[w] = "sent"
  /\ outbox' = [outbox EXCEPT ![row[w]].status = IF reported[w] THEN "SENT" ELSE @,
                              ![row[w]].attempts = IF reported[w] THEN @ + 1 ELSE @,
                              ![row[w]].due = reported[w]]
  /\ at' = [at EXCEPT ![w] = "idle"]
  /\ row' = [row EXCEPT ![w] = 0]
  /\ seen' = [seen EXCEPT ![w] = FALSE]
  /\ reported' = [reported EXCEPT ![w] = FALSE]
  /\ UNCHANGED <<contact, bucket, challenge, mails, crashes>>

\* The end of _process_one.
Commit(w) ==
  /\ at[w] = "sent"
  /\ Settle(w, IF reported[w] THEN "SENT"
               ELSE IF outbox[row[w]].attempts + 1 >= MaxAttempts THEN "FAILED"
               ELSE "PENDING")
  /\ UNCHANGED <<contact, bucket, challenge, mails, crashes>>

(* The worker dies, or an exception ends it; the transaction is rolled back *)
(* and systemd starts the worker again.  What left has left.                *)
Crash(w) ==
  /\ at[w] # "idle"
  /\ crashes < MaxCrashes
  /\ crashes' = crashes + 1
  /\ at' = [at EXCEPT ![w] = "idle"]
  /\ row' = [row EXCEPT ![w] = 0]
  /\ seen' = [seen EXCEPT ![w] = FALSE]
  /\ reported' = [reported EXCEPT ![w] = FALSE]
  /\ UNCHANGED <<contact, bucket, challenge, outbox, mails>>

-----------------------------------------------------------------------------
(* Time, and the rest of the Backend. *)

Expire(c) ==
  /\ challenge[c].state = "open"
  /\ challenge' = [challenge EXCEPT ![c].state = "expired"]
  /\ UNCHANGED <<contact, bucket, outbox, worker, mails, crashes>>

BackoffPasses(c) ==
  /\ ~outbox[c].due
  /\ outbox' = [outbox EXCEPT ![c].due = TRUE]
  /\ UNCHANGED <<contact, bucket, challenge, worker, mails, crashes>>

CoolingPasses(s) ==
  /\ bucket[s].cooling
  /\ bucket' = [bucket EXCEPT ![s].cooling = FALSE]
  /\ UNCHANGED <<contact, challenge, outbox, worker, mails, crashes>>

WindowPasses(s) ==
  /\ bucket[s].count > 0
  /\ bucket' = [bucket EXCEPT ![s] = [count |-> 0, cooling |-> FALSE]]
  /\ UNCHANGED <<contact, challenge, outbox, worker, mails, crashes>>

(* A contact is replaced, a contract ends, an account is linked or disabled: *)
(* such a transaction waits for the rows lock_current holds.                 *)
TargetChanges(s) ==
  /\ ~TargetHeld(s)
  /\ \E k \in (Contacts \cup {NOBODY}) \ {contact[s]} :
       contact' = [contact EXCEPT ![s] = k]
  /\ UNCHANGED <<bucket, challenge, outbox, worker, mails, crashes>>

Next ==
  \/ \E s \in Subjects :
       Create(s) \/ CoolingPasses(s) \/ WindowPasses(s) \/ TargetChanges(s)
  \/ \E c \in Issued :
       WrongCode(c) \/ RightCode(c) \/ Expire(c) \/ BackoffPasses(c)
  \/ \E w \in Workers :
       Select(w) \/ Lock(w) \/ Transmit(w) \/ Commit(w) \/ Crash(w)

Spec == Init /\ [][Next]_vars

(* systemd keeps the worker running (Restart=always), it polls for ever, and *)
(* a retry delay passes.  Nothing is assumed of customers or of the mail     *)
(* server's verdict.                                                         *)
FairSpec ==
  /\ Spec
  /\ \A w \in Workers : WF_vars(Select(w) \/ Lock(w) \/ Transmit(w) \/ Commit(w))
  /\ \A c \in 1 .. MaxChallenges : WF_vars(c \in Issued /\ BackoffPasses(c))

-----------------------------------------------------------------------------

(* Rows of the model's states and workers at points _process_one has; a      *)
(* worker is on a row exactly while it is busy.                              *)
TypeOK ==
  /\ contact \in [Subjects -> Contacts \cup {NOBODY}]
  /\ bucket \in [Subjects -> [count : 0 .. MaxPerWindow, cooling : BOOLEAN]]
  /\ \A c \in Issued :
       challenge[c] \in [subject : Subjects, contact : Contacts \cup {NOBODY},
                         state : {"open"} \cup Closed, failures : 0 .. MaxFailures]
  /\ DOMAIN outbox = Issued /\ DOMAIN mails = Issued
  /\ \A c \in Issued :
       outbox[c] \in [status : {"PENDING", "SENT", "FAILED", "SUPPRESSED"},
                      attempts : 0 .. MaxAttempts, due : BOOLEAN]
  /\ \A w \in Workers : at[w] # "idle" <=> row[w] \in Issued

(* A code is mailed at most max_attempts times and once more for every       *)
(* crash, a row marked SENT was mailed, and a row that has not been tried    *)
(* was mailed only if a worker died or is at it.  The mail leaves inside the *)
(* transaction that records it, so neither count is exact.                   *)
DeliveryLedger ==
  \A c \in Issued :
    /\ mails[c] <= MaxAttempts + crashes
    /\ outbox[c].status = "SENT" => mails[c] > 0
    /\ mails[c] > 0 /\ outbox[c].attempts = 0 => crashes > 0 \/ Selected(c)

(* A code is accepted only for the newest challenge of its subject and while *)
(* the contact it went to is still the customer's, although a worker that    *)
(* read the challenge before it was replaced still mails the old code, and   *)
(* the contact can change at any point between the request and the answer.   *)
OnlyNewestVerifies ==
  [][\A c \in Issued :
       challenge'[c].state = "verified" /\ challenge[c].state # "verified"
         => /\ \A d \in Issued : challenge[d].subject = challenge[c].subject => d <= c
            /\ contact[challenge[c].subject] = challenge[c].contact]_vars

(* A mail leaves only to the contact that is the customer's at that moment.  *)
MailsCurrentContact ==
  [][\A c \in Issued : mails'[c] > mails[c] => Current(c)]_vars

(* Every code that waits is sent, given up or suppressed: a row that must    *)
(* not be delivered, a crash or a retry delay does not keep one pending.     *)
OutboxDrains ==
  LET Waiting(c) == c \in Issued /\ outbox[c].status = "PENDING"
  IN \A c \in 1 .. MaxChallenges : Waiting(c) ~> ~Waiting(c)

=============================================================================
