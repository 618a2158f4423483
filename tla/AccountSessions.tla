--------------------------- MODULE AccountSessions ---------------------------
(* The account of one contract customer: sign-up and password reset with a   *)
(* single-use ticket and an Idempotency-Key, log-in, refresh and log-out of  *)
(* token pairs, and the administrator's deactivation.  Sign-up, reset,       *)
(* refresh and log-out first look without a lock (is there a receipt, a      *)
(* usable ticket, is the token blacklisted) and then run a transaction that  *)
(* holds the rows it decides on; between the two anything can happen.        *)
(* Passwords are left out: they change only together with auth_version.      *)
EXTENDS Naturals

CONSTANTS
  Tickets,           \* P1AuthTicket rows
  Keys,              \* Idempotency-Keys clients use
  Tokens,            \* refresh tokens that can be issued
  Requests,          \* calls in flight
  MaxVersion,        \* bound on auth_version
  MaxLoginFailures,  \* P1_AUTH_LOGIN_MAX_FAILURES
  NOTHING            \* no such row, no call

Ops == {"signup", "reset"}

VARIABLES
  profile,    \* the customer profile is not deleted
  contract,   \* the challenge's contact and contract are still current
  account,    \* the customer's user row: [active, version], or NOTHING
  ticket,     \* per ticket: [op, state, version at issue], or NOTHING
  receipt,    \* per operation and key: [ticket, version, fresh], or NOTHING
  token,      \* per refresh token: [version, root, revoked], or NOTHING
  call,       \* per request: what it is about to do, or NOTHING
  failures,   \* P1AuthLoginRateBucket.failure_count
  applied     \* sign-ups and resets that took effect, with the version before

customer == <<profile, contract>>
vars == <<customer, account, ticket, receipt, token, call, failures, applied>>

Account == [active : BOOLEAN, version : Nat]
Ticket == [op : Ops, state : {"live", "spent"}, version : Nat]
Receipt == [ticket : Tickets, version : Nat, fresh : BOOLEAN]
Token == [version : Nat, root : Nat, revoked : BOOLEAN]
Call == [op : Ops, key : Keys, ticket : Tickets]
          \cup [op : {"refresh", "logout"}, token : Tokens]
Effect == [op : Ops, key : Keys, ticket : Tickets, version : Nat]

ASSUME SessionsAssumption ==
  /\ MaxVersion \in Nat
  /\ MaxLoginFailures \in Nat \ {0}
  /\ NOTHING \notin Account \cup Ticket \cup Receipt \cup Token \cup Call

(* The rows hold what the models declare; a call refers to a token that was *)
(* issued or to a ticket of its operation.                                  *)
TypeOK ==
  /\ profile \in BOOLEAN /\ contract \in BOOLEAN
  /\ account \in Account \cup {NOTHING}
  /\ ticket \in [Tickets -> Ticket \cup {NOTHING}]
  /\ receipt \in [Ops -> [Keys -> Receipt \cup {NOTHING}]]
  /\ token \in [Tokens -> Token \cup {NOTHING}]
  /\ call \in [Requests -> Call \cup {NOTHING}]
  /\ failures \in 0 .. MaxLoginFailures
  /\ applied \subseteq Effect

(* A customer without an account, or with one from the backfill. *)
Init ==
  /\ profile = TRUE
  /\ contract = TRUE
  /\ account \in {NOTHING, [active |-> TRUE, version |-> 1]}
  /\ ticket = [t \in Tickets |-> NOTHING]
  /\ receipt = [op \in Ops |-> [k \in Keys |-> NOTHING]]
  /\ token = [x \in Tokens |-> NOTHING]
  /\ call = [r \in Requests |-> NOTHING]
  /\ failures = 0
  /\ applied = {}

-----------------------------------------------------------------------------

Active == account # NOTHING /\ account.active
NextVersion == account.version + 1

\* P1AuthTargetService.lock_current, for a sign-up and for a reset.
TargetCurrent(op) ==
  /\ profile
  /\ contract
  /\ IF op = "signup" THEN account = NOTHING ELSE Active

\* issue_pair: a pair of the current auth_version, of a session begun at root.
Issue(before, version, root) ==
  \E x \in Tokens :
    /\ before[x] = NOTHING
    /\ token' = [before EXCEPT ![x] = [version |-> version, root |-> root,
                                       revoked |-> FALSE]]

\* Every OutstandingToken of the user is blacklisted.
RevokeAll ==
  token' = [x \in Tokens |-> IF token[x] = NOTHING THEN NOTHING
                             ELSE [token[x] EXCEPT !.revoked = TRUE]]

Answered(r) == call' = [call EXCEPT ![r] = NOTHING]

-----------------------------------------------------------------------------
(* Tickets. *)

(* verify_signup_challenge and verify_password_reset_challenge with the      *)
(* right code.                                                               *)
IssueTicket(t, op) ==
  /\ ticket[t] = NOTHING
  /\ TargetCurrent(op)
  /\ ticket' = [ticket EXCEPT ![t] = [op |-> op, state |-> "live",
                 version |-> IF op = "reset" THEN account.version ELSE 0]]
  /\ UNCHANGED <<customer, account, receipt, token, call, failures, applied>>

ExpireTicket(t) ==
  /\ ticket[t] # NOTHING
  /\ ticket[t].state = "live"
  /\ ticket' = [ticket EXCEPT ![t].state = "spent"]
  /\ UNCHANGED <<customer, account, receipt, token, call, failures, applied>>

(* The first lines of signup and confirm_password_reset: a receipt of the    *)
(* key, or a usable ticket.                                                  *)
Submit(r, op, k, t) ==
  /\ call[r] = NOTHING
  /\ ticket[t] # NOTHING
  /\ ticket[t].op = op
  /\ receipt[op][k] # NOTHING \/ ticket[t].state = "live"
  /\ call' = [call EXCEPT ![r] = [op |-> op, key |-> k, ticket |-> t]]
  /\ UNCHANGED <<customer, account, ticket, receipt, token, failures, applied>>

(* _lock_current_receipt_user, after the fingerprint was compared. *)
Replayable(c) ==
  LET seen == receipt[c.op][c.key] IN
  /\ seen.ticket = c.ticket
  /\ profile
  /\ Active
  /\ seen.fresh
  /\ seen.version = account.version

\* The ticket is consumed and the receipt written, with the account at version.
Spend(c, version) ==
  /\ ticket' = [ticket EXCEPT ![c.ticket].state = "spent"]
  /\ receipt' = [receipt EXCEPT ![c.op][c.key] =
                   [ticket |-> c.ticket, version |-> version, fresh |-> TRUE]]
  /\ applied' = applied \cup {[op |-> c.op, key |-> c.key, ticket |-> c.ticket,
                               version |-> version - 1]}

\* Mutant: a sign-up looks at its ticket and not at the customer.
SignupUnlinked(r) ==
  LET c == call[r] IN
  /\ c # NOTHING /\ c.op = "signup"
  /\ Answered(r)
  /\ \/ /\ receipt[c.op][c.key] # NOTHING
        /\ IF Replayable(c) THEN Issue(token, account.version, account.version)
                            ELSE UNCHANGED token
        /\ UNCHANGED <<account, ticket, receipt, applied>>
     \/ /\ receipt[c.op][c.key] = NOTHING
        /\ ticket[c.ticket].state = "live"
        /\ account' = [active |-> TRUE, version |-> 1]
        /\ Issue(token, 1, 1)
        /\ Spend(c, 1)
     \/ /\ receipt[c.op][c.key] = NOTHING
        /\ UNCHANGED <<account, ticket, receipt, token, applied>>
  /\ UNCHANGED <<customer, failures>>

(* signup under the key's lock: a replay of the receipt; or the ticket and   *)
(* the customer are locked and the account, the receipt and a first pair are *)
(* written; or it is refused, because the ticket or the target is gone or    *)
(* the username is taken.                                                    *)
Signup(r) ==
  LET c == call[r] IN
  /\ c # NOTHING /\ c.op = "signup"
  /\ Answered(r)
  /\ \/ /\ receipt[c.op][c.key] # NOTHING
        /\ IF Replayable(c) THEN Issue(token, account.version, account.version)
                            ELSE UNCHANGED token
        /\ UNCHANGED <<account, ticket, receipt, applied>>
     \/ /\ receipt[c.op][c.key] = NOTHING
        /\ ticket[c.ticket].state = "live"
        /\ TargetCurrent("signup")
        /\ account' = [active |-> TRUE, version |-> 1]
        /\ Issue(token, 1, 1)
        /\ Spend(c, 1)
     \/ /\ receipt[c.op][c.key] = NOTHING
        /\ UNCHANGED <<account, ticket, receipt, token, applied>>
  /\ UNCHANGED <<customer, failures>>

(* confirm_password_reset: a replay and a refusal change nothing; otherwise  *)
(* the version the ticket was issued for must still be the account's, which  *)
(* is raised, and every session ends.                                        *)
ConfirmReset(r) ==
  LET c == call[r] IN
  /\ c # NOTHING /\ c.op = "reset"
  /\ Answered(r)
  /\ \/ /\ receipt[c.op][c.key] = NOTHING
        /\ ticket[c.ticket].state = "live"
        /\ TargetCurrent("reset")
        /\ ticket[c.ticket].version = account.version
        /\ account.version < MaxVersion
        /\ account' = [account EXCEPT !.version = NextVersion]
        /\ RevokeAll
        /\ Spend(c, NextVersion)
     \/ /\ \/ receipt[c.op][c.key] # NOTHING
           \/ ticket[c.ticket].state = "spent"
           \/ ~TargetCurrent("reset")
           \/ ticket[c.ticket].version # account.version
        /\ UNCHANGED <<account, ticket, receipt, token, applied>>
  /\ UNCHANGED <<customer, failures>>

ReceiptAges(op, k) ==
  /\ receipt[op][k] # NOTHING
  /\ receipt[op][k].fresh
  /\ receipt' = [receipt EXCEPT ![op][k].fresh = FALSE]
  /\ UNCHANGED <<customer, account, ticket, token, call, failures, applied>>

-----------------------------------------------------------------------------
(* Sessions. *)

\* login with the right password.
Login ==
  /\ failures < MaxLoginFailures
  /\ Active
  /\ profile
  /\ Issue(token, account.version, account.version)
  /\ failures' = 0
  /\ UNCHANGED <<customer, account, ticket, receipt, call, applied>>

\* login with a wrong one, or of a customer who may not log in.
LoginFails ==
  /\ failures < MaxLoginFailures
  /\ failures' = failures + 1
  /\ UNCHANGED <<customer, account, ticket, receipt, token, call, applied>>

LoginWindowPasses ==
  /\ failures > 0
  /\ failures' = 0
  /\ UNCHANGED <<customer, account, ticket, receipt, token, call, applied>>

(* _validated_refresh: the blacklist is read before the user is locked. *)
Present(r, op, x) ==
  /\ call[r] = NOTHING
  /\ token[x] # NOTHING
  /\ ~token[x].revoked
  /\ call' = [call EXCEPT ![r] = [op |-> op, token |-> x]]
  /\ UNCHANGED <<customer, account, ticket, receipt, token, failures, applied>>

\* _active_user_for_refresh.
SessionCurrent(x) == Active /\ token[x].version = account.version

\* Mutant: whoever presents a token that was valid gets a new pair.
RefreshUnchecked(r) ==
  LET c == call[r] IN
  /\ c # NOTHING /\ c.op = "refresh"
  /\ Answered(r)
  /\ IF Active
     THEN Issue([token EXCEPT ![c.token].revoked = TRUE],
                account.version, token[c.token].root)
     ELSE UNCHANGED token
  /\ UNCHANGED <<customer, account, ticket, receipt, failures, applied>>

(* refresh under the user's lock: a new pair, and the old token is           *)
(* blacklisted whether or not another call has done so meanwhile.            *)
Refresh(r) ==
  LET c == call[r] IN
  /\ c # NOTHING /\ c.op = "refresh"
  /\ Answered(r)
  /\ IF SessionCurrent(c.token)
     THEN Issue([token EXCEPT ![c.token].revoked = TRUE],
                account.version, token[c.token].root)
     ELSE UNCHANGED token
  /\ UNCHANGED <<customer, account, ticket, receipt, failures, applied>>

Logout(r) ==
  LET c == call[r] IN
  /\ c # NOTHING /\ c.op = "logout"
  /\ Answered(r)
  /\ token' = IF SessionCurrent(c.token)
              THEN [token EXCEPT ![c.token].revoked = TRUE] ELSE token
  /\ UNCHANGED <<customer, account, ticket, receipt, failures, applied>>

(* AccountLifecycleService.deactivate and reactivate. *)
SetActive(active) ==
  /\ account # NOTHING
  /\ account.active = ~active
  /\ account.version < MaxVersion
  /\ account' = [active |-> active, version |-> NextVersion]
  /\ RevokeAll
  /\ UNCHANGED <<customer, ticket, receipt, call, failures, applied>>

(* deactivate_profiles and reactivate_profiles; a contact or a contract that *)
(* ends or comes back.                                                       *)
CustomerChanges ==
  /\ \/ profile' = ~profile /\ UNCHANGED contract
     \/ contract' = ~contract /\ UNCHANGED profile
  /\ UNCHANGED <<account, ticket, receipt, token, call, failures, applied>>

Next ==
  \/ \E t \in Tickets : ExpireTicket(t) \/ \E op \in Ops : IssueTicket(t, op)
  \/ \E op \in Ops, k \in Keys :
       ReceiptAges(op, k) \/ \E r \in Requests, t \in Tickets : Submit(r, op, k, t)
  \/ \E r \in Requests :
       \/ Signup(r) \/ ConfirmReset(r) \/ Refresh(r) \/ Logout(r)
       \/ \E op \in {"refresh", "logout"}, x \in Tokens : Present(r, op, x)
  \/ Login \/ LoginFails \/ LoginWindowPasses
  \/ \E active \in BOOLEAN : SetActive(active)
  \/ CustomerChanges

Spec == Init /\ [][Next]_vars

-----------------------------------------------------------------------------

(* No session outlives a change of the credentials or of the activation: a   *)
(* refresh token that still works belongs to an active account and to a      *)
(* session begun since the last change, whatever refresh, replay or log-in   *)
(* was in flight when the change was committed.                              *)
SessionsEndWithCredentials ==
  \A x \in Tokens :
    token[x] # NOTHING /\ ~token[x].revoked =>
      Active /\ token[x].root = account.version /\ token[x].version = account.version

(* One account per customer, one effect per ticket and per key, and one      *)
(* reset for each version a ticket was issued at: two verified challenges,   *)
(* a retry after a lost answer, and requests that all passed the unlocked    *)
(* look before one of them committed, take effect once.                      *)
AppliedOnce ==
  /\ \A e, f \in applied :
       e # f => /\ e.ticket # f.ticket
                /\ <<e.op, e.key>> # <<f.op, f.key>>
                /\ ~(e.op = "signup" /\ f.op = "signup")
                /\ e.version # f.version
  /\ \A e \in applied : e.op = "reset" => ticket[e.ticket].version = e.version
=============================================================================
