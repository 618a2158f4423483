------------------------ MODULE AccountSessionsProofs ------------------------
(* For any number of tickets, keys, refresh tokens and calls in flight: no   *)
(* session outlives the credentials it was begun with, and a sign-up or a    *)
(* password reset takes effect once.                                         *)
EXTENDS AccountSessions, TLAPS

\* A token exists only with an account, and is of the version it began at.
TokensRooted ==
  \A x \in Tokens : token[x] # NOTHING =>
    /\ account # NOTHING
    /\ token[x].root = token[x].version

\* What a call found before its transaction is still there, if it changed.
CallsGrounded ==
  \A r \in Requests : call[r] # NOTHING =>
    /\ call[r].op \in {"refresh", "logout"} => token[call[r].token] # NOTHING
    /\ call[r].op \in Ops => /\ ticket[call[r].ticket] # NOTHING
                             /\ ticket[call[r].ticket].op = call[r].op

\* An effect has used up its ticket, its key and the version it began with.
EffectsSpent ==
  \A e \in applied :
    /\ ticket[e.ticket] # NOTHING
    /\ ticket[e.ticket].state = "spent"
    /\ receipt[e.op][e.key] # NOTHING
    /\ account # NOTHING
    /\ e.version < account.version

IInv ==
  /\ TypeOK
  /\ TokensRooted
  /\ CallsGrounded
  /\ EffectsSpent
  /\ SessionsEndWithCredentials
  /\ AppliedOnce
-----------------------------------------------------------------------------
(* NOTHING is no row.                                                        *)
LEMMA NothingIsNoRow ==
  /\ NOTHING \notin Account
  /\ NOTHING \notin Ticket
  /\ NOTHING \notin Receipt
  /\ NOTHING \notin Token
BY SessionsAssumption

(* A call carries what its operation needs.                                  *)
LEMMA CallFacts ==
  ASSUME TypeOK, NEW r \in Requests, call[r] # NOTHING
  PROVE  /\ call[r].op \in Ops => call[r].key \in Keys /\ call[r].ticket \in Tickets
         /\ call[r].op \in {"refresh", "logout"} => call[r].token \in Tokens
BY DEF TypeOK, Call, Ops

(* An answered call is gone and the others stay.                             *)
LEMMA AnsweredFacts ==
  ASSUME TypeOK, NEW r \in Requests, Answered(r)
  PROVE  /\ call' \in [Requests -> Call \cup {NOTHING}]
         /\ \A q \in Requests : call'[q] # NOTHING => call'[q] = call[q]
BY DEF TypeOK, Answered

(* issue_pair adds one live token and leaves the others.                     *)
LEMMA IssueFacts ==
  ASSUME NEW before \in [Tokens -> Token \cup {NOTHING}], NEW v \in Nat,
         NEW root \in Nat, Issue(before, v, root)
  PROVE  /\ token' \in [Tokens -> Token \cup {NOTHING}]
         /\ \A x \in Tokens :
              \/ token'[x] = before[x]
              \/ /\ before[x] = NOTHING
                 /\ token'[x] = [version |-> v, root |-> root, revoked |-> FALSE]
<1>1. PICK x \in Tokens :
        /\ before[x] = NOTHING
        /\ token' = [before EXCEPT ![x] = [version |-> v, root |-> root,
                                           revoked |-> FALSE]]
  BY DEF Issue
<1>2. [version |-> v, root |-> root, revoked |-> FALSE] \in Token
  BY DEF Token
<1> QED
  BY <1>1, <1>2

(* A token that is revoked keeps its version and its root.                   *)
LEMMA RevokedToken ==
  ASSUME NEW y \in Token
  PROVE  /\ [y EXCEPT !.revoked = TRUE] \in Token
         /\ [y EXCEPT !.revoked = TRUE].version = y.version
         /\ [y EXCEPT !.revoked = TRUE].root = y.root
         /\ [y EXCEPT !.revoked = TRUE].revoked = TRUE
BY DEF Token

(* Revoking every token changes nothing else about them.                     *)
LEMMA RevokeAllFacts ==
  ASSUME TypeOK, RevokeAll
  PROVE  /\ token' \in [Tokens -> Token \cup {NOTHING}]
         /\ \A x \in Tokens :
              /\ token'[x] = NOTHING <=> token[x] = NOTHING
              /\ token[x] # NOTHING => /\ token'[x].revoked
                                       /\ token'[x].root = token[x].root
                                       /\ token'[x].version = token[x].version
<1>1. NOTHING \notin Token
  BY SessionsAssumption
<1>2. \A x \in Tokens :
        /\ token[x] = NOTHING => token'[x] = NOTHING
        /\ token[x] # NOTHING => token[x] \in Token
                                 /\ token'[x] = [token[x] EXCEPT !.revoked = TRUE]
  BY DEF TypeOK, RevokeAll
<1>3. token' \in [Tokens -> Token \cup {NOTHING}]
  BY <1>2, RevokedToken DEF RevokeAll
<1>4. ASSUME NEW x \in Tokens, token[x] # NOTHING
      PROVE  /\ token'[x] # NOTHING
             /\ token'[x].revoked
             /\ token'[x].root = token[x].root
             /\ token'[x].version = token[x].version
  <2>1. token[x] \in Token /\ token'[x] = [token[x] EXCEPT !.revoked = TRUE]
    BY <1>2, <1>4
  <2> QED
    BY <1>1, <2>1, RevokedToken
<1> QED
  BY <1>2, <1>3, <1>4

(* A call that takes effect spends its ticket and its key, and no other.     *)
LEMMA SpendFacts ==
  ASSUME TypeOK, NEW c, c.op \in Ops, c.key \in Keys, c.ticket \in Tickets,
         NEW v \in Nat \ {0}, ticket[c.ticket] # NOTHING, Spend(c, v)
  PROVE  /\ ticket' \in [Tickets -> Ticket \cup {NOTHING}]
         /\ receipt' \in [Ops -> [Keys -> Receipt \cup {NOTHING}]]
         /\ applied' \subseteq Effect
         /\ \A t \in Tickets : ticket[t] # NOTHING =>
              /\ ticket'[t] # NOTHING
              /\ ticket'[t].op = ticket[t].op
              /\ ticket'[t].version = ticket[t].version
              /\ ticket[t].state = "spent" => ticket'[t].state = "spent"
         /\ ticket'[c.ticket].state = "spent"
         /\ receipt'[c.op][c.key] # NOTHING
         /\ \A op \in Ops, k \in Keys :
              receipt[op][k] # NOTHING => receipt'[op][k] # NOTHING
<1>1. NOTHING \notin Ticket /\ NOTHING \notin Receipt
  BY SessionsAssumption
<1>2. ticket[c.ticket] \in Ticket
  BY DEF TypeOK
<1>3. /\ [ticket[c.ticket] EXCEPT !.state = "spent"] \in Ticket
      /\ [ticket[c.ticket] EXCEPT !.state = "spent"].op = ticket[c.ticket].op
      /\ [ticket[c.ticket] EXCEPT !.state = "spent"].version
           = ticket[c.ticket].version
      /\ [ticket[c.ticket] EXCEPT !.state = "spent"].state = "spent"
  BY <1>2 DEF Ticket
<1>4. /\ ticket' \in [Tickets -> Ticket \cup {NOTHING}]
      /\ ticket'[c.ticket] = [ticket[c.ticket] EXCEPT !.state = "spent"]
      /\ \A t \in Tickets \ {c.ticket} : ticket'[t] = ticket[t]
  BY <1>3 DEF TypeOK, Spend
<1>5. [ticket |-> c.ticket, version |-> v, fresh |-> TRUE] \in Receipt
  BY DEF Receipt
<1>6. /\ receipt' \in [Ops -> [Keys -> Receipt \cup {NOTHING}]]
      /\ receipt'[c.op][c.key] \in Receipt
      /\ \A op \in Ops, k \in Keys :
           receipt[op][k] # NOTHING => receipt'[op][k] # NOTHING
  BY <1>1, <1>5 DEF TypeOK, Spend
<1>7. applied' \subseteq Effect
  <2>1. [op |-> c.op, key |-> c.key, ticket |-> c.ticket, version |-> v - 1] \in Effect
    BY DEF Effect
  <2> QED
    BY <2>1 DEF TypeOK, Spend
<1>8. ASSUME NEW t \in Tickets, ticket[t] # NOTHING
      PROVE  /\ ticket'[t] # NOTHING
             /\ ticket'[t].op = ticket[t].op
             /\ ticket'[t].version = ticket[t].version
             /\ ticket[t].state = "spent" => ticket'[t].state = "spent"
  <2>1. CASE t = c.ticket
    <3>1. ticket'[t] # NOTHING
      BY <1>1, <1>3, <1>4, <2>1
    <3>2. ticket'[t].op = ticket[t].op /\ ticket'[t].version = ticket[t].version
      BY <1>3, <1>4, <2>1
    <3>3. ticket'[t].state = "spent"
      BY <1>3, <1>4, <2>1
    <3> QED
      BY <3>1, <3>2, <3>3
  <2>2. CASE t # c.ticket
    BY <1>4, <1>8, <2>2
  <2> QED
    BY <2>1, <2>2
<1>9. ticket'[c.ticket].state = "spent"
  BY <1>3, <1>4
<1>10. receipt'[c.op][c.key] # NOTHING
  BY <1>1, <1>6
<1> QED
  BY <1>4, <1>6, <1>7, <1>8, <1>9, <1>10

(* A ticket is issued for the version of today.                              *)
LEMMA IssueTicketKeeps ==
  ASSUME IInv, NEW t \in Tickets, NEW op \in Ops, IssueTicket(t, op)
  PROVE  IInv'
<1> USE SessionsAssumption DEF IInv, IssueTicket, TargetCurrent, Active, customer
<1>1. TypeOK'
  BY DEF TypeOK, Account, Ticket
<1>2. TokensRooted'
  BY DEF TokensRooted
<1>3. CallsGrounded'
  BY DEF CallsGrounded
<1>4. EffectsSpent'
  BY DEF EffectsSpent
<1>5. SessionsEndWithCredentials'
  BY DEF SessionsEndWithCredentials
<1>6. AppliedOnce'
  BY DEF EffectsSpent, AppliedOnce
<1> QED
  BY <1>1, <1>2, <1>3, <1>4, <1>5, <1>6

(* A ticket that expires cannot be used any more.                            *)
LEMMA ExpireTicketKeeps ==
  ASSUME IInv, NEW t \in Tickets, ExpireTicket(t)
  PROVE  IInv'
<1> USE SessionsAssumption DEF IInv, ExpireTicket, customer
<1>1. TypeOK'
  BY DEF TypeOK, Ticket
<1>2. TokensRooted'
  BY DEF TokensRooted
<1>3. CallsGrounded'
  BY DEF TypeOK, Ticket, CallsGrounded
<1>4. EffectsSpent'
  BY DEF EffectsSpent
<1>5. SessionsEndWithCredentials'
  BY DEF SessionsEndWithCredentials, Active
<1>6. AppliedOnce'
  BY DEF AppliedOnce
<1> QED
  BY <1>1, <1>2, <1>3, <1>4, <1>5, <1>6

(* The unlocked look changes nothing but the call.                           *)
LEMMA SubmitKeeps ==
  ASSUME IInv, NEW r \in Requests, NEW op \in Ops, NEW k \in Keys, NEW t \in Tickets,
         Submit(r, op, k, t)
  PROVE  IInv'
<1> USE SessionsAssumption DEF IInv, Submit, customer
<1>1. TypeOK'
  BY DEF TypeOK, Call
<1>2. TokensRooted'
  BY DEF TokensRooted
<1>3. CallsGrounded'
  BY DEF Ops, CallsGrounded
<1>4. EffectsSpent'
  BY DEF EffectsSpent
<1>5. SessionsEndWithCredentials'
  BY DEF SessionsEndWithCredentials, Active
<1>6. AppliedOnce'
  BY DEF AppliedOnce
<1> QED
  BY <1>1, <1>2, <1>3, <1>4, <1>5, <1>6

(* A log-in begins a session at the version of today.                        *)
LEMMA LoginKeeps ==
  ASSUME IInv, Login
  PROVE  IInv'
<1> USE SessionsAssumption DEF IInv, Login, Issue, Active, customer
<1>1. TypeOK'
  BY DEF TypeOK, Account, Token
<1>2. TokensRooted'
  BY DEF TokensRooted
<1>3. CallsGrounded'
  BY DEF CallsGrounded
<1>4. EffectsSpent'
  BY DEF EffectsSpent
<1>5. SessionsEndWithCredentials'
  BY DEF SessionsEndWithCredentials
<1>6. AppliedOnce'
  BY DEF AppliedOnce
<1> QED
  BY <1>1, <1>2, <1>3, <1>4, <1>5, <1>6

(* A failure is counted.                                                     *)
LEMMA LoginFailsKeeps ==
  ASSUME IInv, LoginFails
  PROVE  IInv'
<1> USE SessionsAssumption DEF IInv, LoginFails, customer
<1>1. TypeOK'
  BY DEF TypeOK
<1>2. TokensRooted'
  BY DEF TokensRooted
<1>3. CallsGrounded'
  BY DEF CallsGrounded
<1>4. EffectsSpent'
  BY DEF EffectsSpent
<1>5. SessionsEndWithCredentials'
  BY DEF SessionsEndWithCredentials, Active
<1>6. AppliedOnce'
  BY DEF AppliedOnce
<1> QED
  BY <1>1, <1>2, <1>3, <1>4, <1>5, <1>6

(* The count starts again.                                                   *)
LEMMA LoginWindowPassesKeeps ==
  ASSUME IInv, LoginWindowPasses
  PROVE  IInv'
<1> USE SessionsAssumption DEF IInv, LoginWindowPasses, customer
<1>1. TypeOK'
  BY DEF TypeOK
<1>2. TokensRooted'
  BY DEF TokensRooted
<1>3. CallsGrounded'
  BY DEF CallsGrounded
<1>4. EffectsSpent'
  BY DEF EffectsSpent
<1>5. SessionsEndWithCredentials'
  BY DEF SessionsEndWithCredentials, Active
<1>6. AppliedOnce'
  BY DEF AppliedOnce
<1> QED
  BY <1>1, <1>2, <1>3, <1>4, <1>5, <1>6

(* The unlocked look at the blacklist changes nothing but the call.          *)
LEMMA PresentKeeps ==
  ASSUME IInv, NEW r \in Requests, NEW op \in {"refresh", "logout"}, NEW x \in Tokens,
         Present(r, op, x)
  PROVE  IInv'
<1> USE SessionsAssumption DEF IInv, Present, customer
<1>1. TypeOK'
  BY DEF TypeOK, Call
<1>2. TokensRooted'
  BY DEF TokensRooted
<1>3. CallsGrounded'
  BY DEF Ops, CallsGrounded
<1>4. EffectsSpent'
  BY DEF EffectsSpent
<1>5. SessionsEndWithCredentials'
  BY DEF SessionsEndWithCredentials, Active
<1>6. AppliedOnce'
  BY DEF AppliedOnce
<1> QED
  BY <1>1, <1>2, <1>3, <1>4, <1>5, <1>6

(* The customer's rows are not the account's.                                *)
LEMMA CustomerChangesKeeps ==
  ASSUME IInv, CustomerChanges
  PROVE  IInv'
<1> USE SessionsAssumption DEF IInv, CustomerChanges, customer
<1>1. TypeOK'
  BY DEF TypeOK
<1>2. TokensRooted'
  BY DEF TokensRooted
<1>3. CallsGrounded'
  BY DEF CallsGrounded
<1>4. EffectsSpent'
  BY DEF EffectsSpent
<1>5. SessionsEndWithCredentials'
  BY DEF SessionsEndWithCredentials, Active
<1>6. AppliedOnce'
  BY DEF AppliedOnce
<1> QED
  BY <1>1, <1>2, <1>3, <1>4, <1>5, <1>6

(* What is left of a step that at most answers a call, revokes tokens and    *)
(* begins or continues a session of the current version.                     *)
LEMMA TokensMove ==
  ASSUME IInv, UNCHANGED <<customer, account, ticket, receipt, failures, applied>>,
         call' \in [Requests -> Call \cup {NOTHING}],
         \A q \in Requests : call'[q] # NOTHING => call'[q] = call[q],
         token' \in [Tokens -> Token \cup {NOTHING}],
         \A x \in Tokens :
           \/ token'[x] = token[x]
           \/ /\ token[x] # NOTHING
              /\ token'[x] # NOTHING
              /\ token'[x].revoked
              /\ token'[x].root = token[x].root
              /\ token'[x].version = token[x].version
           \/ /\ Active
              /\ token[x] = NOTHING
              /\ token'[x] # NOTHING
              /\ token'[x].root = account.version
              /\ token'[x].version = account.version
  PROVE  IInv'
<1> USE DEF IInv, customer
<1>1. TypeOK'
  BY DEF TypeOK
<1>2. TokensRooted'
  BY DEF TokensRooted, Active
<1>3. CallsGrounded'
  <2> SUFFICES ASSUME NEW q \in Requests, call'[q] # NOTHING
               PROVE  /\ call'[q].op \in {"refresh", "logout"} =>
                           token'[call'[q].token] # NOTHING
                      /\ call'[q].op \in Ops =>
                           /\ ticket'[call'[q].ticket] # NOTHING
                           /\ ticket'[call'[q].ticket].op = call'[q].op
    BY DEF CallsGrounded
  <2>1. call'[q] = call[q] /\ call[q] # NOTHING
    OBVIOUS
  <2>2. call[q].op \in {"refresh", "logout"} => call[q].token \in Tokens
    BY <2>1, CallFacts
  <2> QED
    BY <2>1, <2>2 DEF CallsGrounded
<1>4. EffectsSpent'
  BY DEF EffectsSpent
<1>5. SessionsEndWithCredentials'
  BY DEF SessionsEndWithCredentials, Active
<1>6. AppliedOnce'
  BY DEF AppliedOnce
<1> QED
  BY <1>1, <1>2, <1>3, <1>4, <1>5, <1>6

(* A replayed sign-up begins a session of the current version, a refused one *)
(* changes nothing, and one that takes effect finds no account, so there is  *)
(* neither a token nor an effect yet.                                        *)
LEMMA SignupKeeps ==
  ASSUME IInv, NEW r \in Requests, Signup(r)
  PROVE  IInv'
<1> DEFINE c == call[r]
<1> USE DEF customer
<1>1. /\ TypeOK
      /\ c # NOTHING
      /\ c.op = "signup"
      /\ c.op \in Ops
      /\ Answered(r)
      /\ UNCHANGED <<customer, failures>>
  BY DEF IInv, Signup, Ops
<1>2. /\ c.key \in Keys
      /\ c.ticket \in Tickets
      /\ ticket[c.ticket] # NOTHING
      /\ ticket[c.ticket].op = c.op
  BY <1>1, CallFacts DEF IInv, CallsGrounded
<1>3. /\ call' \in [Requests -> Call \cup {NOTHING}]
      /\ \A q \in Requests : call'[q] # NOTHING => call'[q] = call[q]
  BY <1>1, AnsweredFacts
<1>4. CASE /\ Replayable(c)
           /\ Issue(token, account.version, account.version)
           /\ UNCHANGED <<account, ticket, receipt, applied>>
  <2>1. Active
    BY <1>4 DEF Replayable
  <2>2. account.version \in Nat
    BY <1>1, <2>1 DEF TypeOK, Active, Account
  <2>3. token \in [Tokens -> Token \cup {NOTHING}]
    BY <1>1 DEF TypeOK
  <2>4. /\ token' \in [Tokens -> Token \cup {NOTHING}]
        /\ \A x \in Tokens :
             \/ token'[x] = token[x]
             \/ /\ token[x] = NOTHING
                /\ token'[x] = [version |-> account.version, root |-> account.version,
                                revoked |-> FALSE]
    BY <1>4, <2>2, <2>3, IssueFacts
  <2>5. [version |-> account.version, root |-> account.version, revoked |-> FALSE]
          # NOTHING
    <3>1. [version |-> account.version, root |-> account.version, revoked |-> FALSE]
            \in Token
      BY <2>2 DEF Token
    <3> QED
      BY <3>1, NothingIsNoRow
  <2> QED
    BY <1>1, <1>3, <1>4, <2>1, <2>4, <2>5, TokensMove
<1>5. CASE UNCHANGED <<account, ticket, receipt, token, applied>>
  <2>1. token' \in [Tokens -> Token \cup {NOTHING}]
    BY <1>1, <1>5 DEF TypeOK
  <2> QED
    BY <1>1, <1>3, <1>5, <2>1, TokensMove
<1>6. CASE /\ TargetCurrent("signup")
           /\ account' = [active |-> TRUE, version |-> 1]
           /\ Issue(token, 1, 1)
           /\ Spend(c, 1)
  <2>1. account = NOTHING /\ applied = {} /\ \A x \in Tokens : token[x] = NOTHING
    <3>1. account = NOTHING
      BY <1>6 DEF TargetCurrent
    <3>2. applied = {}
      BY <3>1 DEF IInv, EffectsSpent
    <3> QED
      BY <3>1, <3>2 DEF IInv, TokensRooted
  <2>2. account' \in Account /\ account' # NOTHING
    <3>1. account' \in Account
      BY <1>6 DEF Account
    <3> QED
      BY <3>1, NothingIsNoRow
  <2>3. token \in [Tokens -> Token \cup {NOTHING}]
    BY <1>1 DEF TypeOK
  <2>4. /\ token' \in [Tokens -> Token \cup {NOTHING}]
        /\ \A x \in Tokens :
             \/ token'[x] = NOTHING
             \/ token'[x] = [version |-> 1, root |-> 1, revoked |-> FALSE]
    BY <1>6, <2>1, <2>3, IssueFacts
  <2>5. /\ ticket' \in [Tickets -> Ticket \cup {NOTHING}]
        /\ receipt' \in [Ops -> [Keys -> Receipt \cup {NOTHING}]]
        /\ applied' \subseteq Effect
        /\ \A t \in Tickets : ticket[t] # NOTHING =>
             ticket'[t] # NOTHING /\ ticket'[t].op = ticket[t].op
        /\ ticket'[c.ticket].state = "spent"
        /\ receipt'[c.op][c.key] # NOTHING
    BY <1>1, <1>2, <1>6, SpendFacts
  <2>6. applied' = {[op |-> c.op, key |-> c.key, ticket |-> c.ticket, version |-> 0]}
    BY <1>6, <2>1 DEF Spend
  <2>7. TypeOK'
    BY <1>1, <1>3, <2>2, <2>4, <2>5 DEF TypeOK
  <2>8. TokensRooted'
    BY <2>2, <2>4 DEF TokensRooted
  <2>9. CallsGrounded'
    <3> SUFFICES ASSUME NEW q \in Requests, call'[q] # NOTHING
                 PROVE  /\ call'[q].op \in {"refresh", "logout"} =>
                             token'[call'[q].token] # NOTHING
                        /\ call'[q].op \in Ops =>
                             /\ ticket'[call'[q].ticket] # NOTHING
                             /\ ticket'[call'[q].ticket].op = call'[q].op
      BY DEF CallsGrounded
    <3>1. call'[q] = call[q] /\ call[q] # NOTHING
      BY <1>3
    <3>2. /\ call[q].op \in {"refresh", "logout"} => call[q].token \in Tokens
          /\ call[q].op \in Ops => call[q].ticket \in Tickets
      BY <1>1, <3>1, CallFacts
    <3>3. ~(call[q].op \in {"refresh", "logout"})
      BY <2>1, <3>1, <3>2 DEF IInv, CallsGrounded
    <3> QED
      BY <2>5, <3>1, <3>2, <3>3 DEF IInv, CallsGrounded
  <2>10. EffectsSpent'
    BY <1>2, <1>6, <2>2, <2>5, <2>6 DEF EffectsSpent
  <2>11. SessionsEndWithCredentials'
    BY <1>6, <2>2, <2>4 DEF SessionsEndWithCredentials, Active
  <2>12. AppliedOnce'
    BY <1>1, <2>6 DEF AppliedOnce
  <2> QED
    BY <2>7, <2>8, <2>9, <2>10, <2>11, <2>12 DEF IInv
<1> QED
  BY <1>4, <1>5, <1>6 DEF Signup

(* A reset that takes effect raises the version above that of every effect   *)
(* and revokes every token.                                                  *)
LEMMA ConfirmResetKeeps ==
  ASSUME IInv, NEW r \in Requests, ConfirmReset(r)
  PROVE  IInv'
<1> DEFINE c == call[r]
<1> USE DEF customer
<1>1. /\ TypeOK
      /\ c # NOTHING
      /\ c.op = "reset"
      /\ c.op \in Ops
      /\ Answered(r)
      /\ UNCHANGED <<customer, failures>>
  BY DEF IInv, ConfirmReset, Ops
<1>2. /\ c.key \in Keys
      /\ c.ticket \in Tickets
      /\ ticket[c.ticket] # NOTHING
      /\ ticket[c.ticket].op = c.op
  BY <1>1, CallFacts DEF IInv, CallsGrounded
<1>3. /\ call' \in [Requests -> Call \cup {NOTHING}]
      /\ \A q \in Requests : call'[q] # NOTHING => call'[q] = call[q]
  BY <1>1, AnsweredFacts
<1>4. CASE UNCHANGED <<account, ticket, receipt, token, applied>>
  <2>1. token' \in [Tokens -> Token \cup {NOTHING}]
    BY <1>1, <1>4 DEF TypeOK
  <2> QED
    BY <1>1, <1>3, <1>4, <2>1, TokensMove
<1>5. CASE /\ receipt[c.op][c.key] = NOTHING
           /\ ticket[c.ticket].state = "live"
           /\ TargetCurrent("reset")
           /\ ticket[c.ticket].version = account.version
           /\ account' = [account EXCEPT !.version = NextVersion]
           /\ RevokeAll
           /\ Spend(c, NextVersion)
  <2> DEFINE new == [op |-> c.op, key |-> c.key, ticket |-> c.ticket,
                     version |-> account.version]
  <2>1. account \in Account /\ account # NOTHING
    BY <1>1, <1>5 DEF TypeOK, TargetCurrent, Active
  <2>2. account.version \in Nat /\ NextVersion \in Nat \ {0}
        /\ NextVersion - 1 = account.version
    BY <2>1 DEF Account, NextVersion
  <2>3. /\ account' \in Account
        /\ account'.version = account.version + 1
        /\ account' # NOTHING
    <3>1. account' \in Account /\ account'.version = account.version + 1
      BY <1>5, <2>1 DEF Account, NextVersion
    <3> QED
      BY <3>1, NothingIsNoRow
  <2>4. /\ token' \in [Tokens -> Token \cup {NOTHING}]
        /\ \A x \in Tokens :
             /\ token'[x] = NOTHING <=> token[x] = NOTHING
             /\ token[x] # NOTHING => /\ token'[x].revoked
                                      /\ token'[x].root = token[x].root
                                      /\ token'[x].version = token[x].version
    BY <1>1, <1>5, RevokeAllFacts
  <2>5. /\ ticket' \in [Tickets -> Ticket \cup {NOTHING}]
        /\ receipt' \in [Ops -> [Keys -> Receipt \cup {NOTHING}]]
        /\ applied' \subseteq Effect
        /\ \A t \in Tickets : ticket[t] # NOTHING =>
             /\ ticket'[t] # NOTHING
             /\ ticket'[t].op = ticket[t].op
             /\ ticket'[t].version = ticket[t].version
             /\ ticket[t].state = "spent" => ticket'[t].state = "spent"
        /\ ticket'[c.ticket].state = "spent"
        /\ receipt'[c.op][c.key] # NOTHING
        /\ \A op \in Ops, k \in Keys :
             receipt[op][k] # NOTHING => receipt'[op][k] # NOTHING
    BY <1>1, <1>2, <1>5, <2>2, SpendFacts
  <2>6. applied' = applied \cup {new}
    BY <1>5, <2>2 DEF Spend
  <2>7. /\ new.op = "reset"
        /\ new.op = c.op
        /\ new.key = c.key
        /\ new.ticket = c.ticket
        /\ new.version = account.version
    BY <1>1
  <2>8. \A e \in applied : /\ e.op \in Ops
                           /\ e.key \in Keys
                           /\ e.ticket \in Tickets
                           /\ e.version \in Nat
    BY <1>1 DEF TypeOK, Effect
  <2>9. TypeOK'
    BY <1>1, <1>3, <2>3, <2>4, <2>5 DEF TypeOK
  <2>10. TokensRooted'
    BY <2>3, <2>4 DEF IInv, TokensRooted
  <2>11. CallsGrounded'
    <3> SUFFICES ASSUME NEW q \in Requests, call'[q] # NOTHING
                 PROVE  /\ call'[q].op \in {"refresh", "logout"} =>
                             token'[call'[q].token] # NOTHING
                        /\ call'[q].op \in Ops =>
                             /\ ticket'[call'[q].ticket] # NOTHING
                             /\ ticket'[call'[q].ticket].op = call'[q].op
      BY DEF CallsGrounded
    <3>1. call'[q] = call[q] /\ call[q] # NOTHING
      BY <1>3
    <3>2. /\ call[q].op \in {"refresh", "logout"} => call[q].token \in Tokens
          /\ call[q].op \in Ops => call[q].ticket \in Tickets
      BY <1>1, <3>1, CallFacts
    <3> QED
      BY <2>4, <2>5, <3>1, <3>2 DEF IInv, CallsGrounded
  <2>12. EffectsSpent'
    <3>1. ASSUME NEW e \in applied
          PROVE  /\ ticket'[e.ticket] # NOTHING
                 /\ ticket'[e.ticket].state = "spent"
                 /\ receipt'[e.op][e.key] # NOTHING
                 /\ e.version < account'.version
      BY <2>2, <2>3, <2>5, <2>8 DEF IInv, EffectsSpent
    <3>2. /\ ticket'[new.ticket] # NOTHING
          /\ ticket'[new.ticket].state = "spent"
          /\ receipt'[new.op][new.key] # NOTHING
          /\ new.version < account'.version
      BY <1>2, <2>2, <2>3, <2>5, <2>7
    <3> HIDE DEF new
    <3> QED
      BY <2>3, <2>6, <3>1, <3>2 DEF EffectsSpent
  <2>13. SessionsEndWithCredentials'
    BY <2>4 DEF SessionsEndWithCredentials
  <2>14. AppliedOnce'
    <3>1. ASSUME NEW e \in applied
          PROVE  /\ e.ticket # new.ticket
                 /\ <<e.op, e.key>> # <<new.op, new.key>>
                 /\ e.version # new.version
      <4>1. /\ ticket[e.ticket].state = "spent"
            /\ receipt[e.op][e.key] # NOTHING
            /\ e.version < account.version
        BY DEF IInv, EffectsSpent
      <4>2. e.ticket # new.ticket
        BY <1>5, <2>7, <4>1
      <4>3. <<e.op, e.key>> # <<new.op, new.key>>
        BY <1>5, <2>7, <4>1
      <4>4. e.version # new.version
        BY <2>2, <2>7, <2>8, <4>1
      <4> QED
        BY <4>2, <4>3, <4>4
    <3>2. ticket'[new.ticket].version = new.version
      BY <1>2, <1>5, <2>5, <2>7
    <3>3. ASSUME NEW e \in applied, e.op = "reset"
          PROVE  ticket'[e.ticket].version = e.version
      BY <2>5, <2>8, <3>3 DEF IInv, AppliedOnce, EffectsSpent
    <3>4. \A e, f \in applied :
            e # f => /\ e.ticket # f.ticket
                     /\ <<e.op, e.key>> # <<f.op, f.key>>
                     /\ ~(e.op = "signup" /\ f.op = "signup")
                     /\ e.version # f.version
      BY DEF IInv, AppliedOnce
    <3>5. new.op # "signup"
      BY <2>7
    <3> HIDE DEF new
    <3>6. \A e \in applied' : e \in applied \/ e = new
      BY <2>6
    <3>7. ASSUME NEW e \in applied', NEW f \in applied', e # f
          PROVE  /\ e.ticket # f.ticket
                 /\ <<e.op, e.key>> # <<f.op, f.key>>
                 /\ ~(e.op = "signup" /\ f.op = "signup")
                 /\ e.version # f.version
      <4>1. CASE e \in applied /\ f \in applied
        BY <3>4, <3>7, <4>1
      <4>2. CASE e \in applied /\ f = new
        BY <3>1, <3>5, <4>2
      <4>3. CASE e = new /\ f \in applied
        BY <3>1, <3>5, <4>3
      <4> QED
        BY <3>6, <3>7, <4>1, <4>2, <4>3
    <3>8. ASSUME NEW e \in applied', e.op = "reset"
          PROVE  ticket'[e.ticket].version = e.version
      BY <3>2, <3>3, <3>6, <3>8
    <3> QED
      BY <3>7, <3>8 DEF AppliedOnce
  <2> QED
    BY <2>9, <2>10, <2>11, <2>12, <2>13, <2>14 DEF IInv
<1> QED
  BY <1>4, <1>5 DEF ConfirmReset

(* A receipt that ages is still there.                                       *)
LEMMA ReceiptAgesKeeps ==
  ASSUME IInv, NEW op \in Ops, NEW k \in Keys, ReceiptAges(op, k)
  PROVE  IInv'
<1> USE DEF customer
<1>1. TypeOK /\ receipt[op][k] \in Receipt
  BY DEF IInv, TypeOK, ReceiptAges
<1>2. [receipt[op][k] EXCEPT !.fresh = FALSE] \in Receipt
  BY <1>1 DEF Receipt
<1>3. /\ receipt' \in [Ops -> [Keys -> Receipt \cup {NOTHING}]]
      /\ receipt'[op][k] \in Receipt
      /\ \A o \in Ops, j \in Keys :
           \/ receipt'[o][j] = receipt[o][j]
           \/ receipt'[o][j] \in Receipt
  BY <1>1, <1>2 DEF TypeOK, ReceiptAges
<1>4. TypeOK'
  BY <1>1, <1>3 DEF TypeOK, ReceiptAges
<1>5. TokensRooted' /\ CallsGrounded'
  BY DEF IInv, TokensRooted, CallsGrounded, ReceiptAges
<1>6. EffectsSpent'
  <2>1. \A e \in applied : e.op \in Ops /\ e.key \in Keys
    BY <1>1 DEF TypeOK, Effect
  <2> QED
    BY <1>3, <2>1, NothingIsNoRow DEF IInv, EffectsSpent, ReceiptAges
<1>7. SessionsEndWithCredentials' /\ AppliedOnce'
  BY DEF IInv, SessionsEndWithCredentials, AppliedOnce, Active, ReceiptAges
<1> QED
  BY <1>4, <1>5, <1>6, <1>7 DEF IInv

(* A token that is presented again is revoked, and the pair that replaces it *)
(* continues a session of the current version.                               *)
LEMMA RefreshKeeps ==
  ASSUME IInv, NEW r \in Requests, Refresh(r)
  PROVE  IInv'
<1> DEFINE y == call[r].token
           before == [token EXCEPT ![y].revoked = TRUE]
<1> USE DEF customer
<1>1. /\ TypeOK
      /\ call[r] # NOTHING
      /\ call[r].op = "refresh"
      /\ Answered(r)
      /\ UNCHANGED <<customer, account, ticket, receipt, failures, applied>>
  BY DEF IInv, Refresh
<1>2. y \in Tokens /\ token[y] # NOTHING /\ token[y] \in Token
  BY <1>1, CallFacts DEF IInv, CallsGrounded, TypeOK
<1>3. /\ call' \in [Requests -> Call \cup {NOTHING}]
      /\ \A q \in Requests : call'[q] # NOTHING => call'[q] = call[q]
  BY <1>1, AnsweredFacts
<1>4. CASE UNCHANGED token
  <2>1. token' \in [Tokens -> Token \cup {NOTHING}]
    BY <1>1, <1>4 DEF TypeOK
  <2> QED
    BY <1>1, <1>3, <1>4, <2>1, TokensMove
<1>5. CASE SessionCurrent(y) /\ Issue(before, account.version, token[y].root)
  <2>1. Active /\ account.version \in Nat /\ token[y].root = account.version
    BY <1>1, <1>2, <1>5 DEF IInv, TokensRooted, SessionCurrent, Active, TypeOK, Account
  <2>2. [token[y] EXCEPT !.revoked = TRUE] \in Token
    BY <1>2, RevokedToken
  <2>3. /\ before \in [Tokens -> Token \cup {NOTHING}]
        /\ before[y] = [token[y] EXCEPT !.revoked = TRUE]
        /\ \A x \in Tokens \ {y} : before[x] = token[x]
    BY <1>1, <1>2, <2>2 DEF TypeOK
  <2>4. /\ before[y] # NOTHING
        /\ before[y].revoked
        /\ before[y].root = token[y].root
        /\ before[y].version = token[y].version
    BY <1>2, <2>2, <2>3, RevokedToken, NothingIsNoRow
  <2> DEFINE fresh == [version |-> account.version, root |-> account.version,
                       revoked |-> FALSE]
  <2> HIDE DEF before
  <2>5. /\ token' \in [Tokens -> Token \cup {NOTHING}]
        /\ \A x \in Tokens : \/ token'[x] = before[x]
                             \/ before[x] = NOTHING /\ token'[x] = fresh
    BY <1>5, <2>1, <2>3, IssueFacts
  <2>6. /\ fresh # NOTHING
        /\ fresh.root = account.version
        /\ fresh.version = account.version
    <3>1. fresh \in Token
      BY <2>1 DEF Token
    <3>2. fresh # NOTHING
      BY <3>1, NothingIsNoRow
    <3> QED
      BY <3>2
  <2> HIDE DEF fresh
  <2>7. ASSUME NEW x \in Tokens
        PROVE  \/ token'[x] = token[x]
               \/ /\ token[x] # NOTHING
                  /\ token'[x] # NOTHING
                  /\ token'[x].revoked
                  /\ token'[x].root = token[x].root
                  /\ token'[x].version = token[x].version
               \/ /\ Active
                  /\ token[x] = NOTHING
                  /\ token'[x] # NOTHING
                  /\ token'[x].root = account.version
                  /\ token'[x].version = account.version
    <3>1. CASE x = y
      BY <1>2, <2>4, <2>5, <3>1
    <3>2. CASE x # y
      BY <2>1, <2>3, <2>5, <2>6, <3>2
    <3> QED
      BY <3>1, <3>2
  <2> QED
    BY <1>1, <1>3, <2>5, <2>7, TokensMove
<1> QED
  BY <1>4, <1>5 DEF Refresh

(* A log-out revokes one token.                                              *)
LEMMA LogoutKeeps ==
  ASSUME IInv, NEW r \in Requests, Logout(r)
  PROVE  IInv'
<1> DEFINE y == call[r].token
<1> USE DEF customer
<1>1. /\ TypeOK
      /\ call[r] # NOTHING
      /\ call[r].op = "logout"
      /\ Answered(r)
      /\ UNCHANGED <<customer, account, ticket, receipt, failures, applied>>
  BY DEF IInv, Logout
<1>2. y \in Tokens /\ token[y] # NOTHING /\ token[y] \in Token
  BY <1>1, CallFacts DEF IInv, CallsGrounded, TypeOK
<1>3. /\ call' \in [Requests -> Call \cup {NOTHING}]
      /\ \A q \in Requests : call'[q] # NOTHING => call'[q] = call[q]
  BY <1>1, AnsweredFacts
<1>4. CASE token' = token
  <2>1. token' \in [Tokens -> Token \cup {NOTHING}]
    BY <1>1, <1>4 DEF TypeOK
  <2> QED
    BY <1>1, <1>3, <1>4, <2>1, TokensMove
<1>5. CASE token' = [token EXCEPT ![y].revoked = TRUE]
  <2>1. [token[y] EXCEPT !.revoked = TRUE] \in Token
    BY <1>2, RevokedToken
  <2>2. /\ token' \in [Tokens -> Token \cup {NOTHING}]
        /\ token'[y] = [token[y] EXCEPT !.revoked = TRUE]
        /\ \A x \in Tokens \ {y} : token'[x] = token[x]
    BY <1>1, <1>2, <1>5, <2>1 DEF TypeOK
  <2>3. /\ token'[y] # NOTHING
        /\ token'[y].revoked
        /\ token'[y].root = token[y].root
        /\ token'[y].version = token[y].version
    BY <1>2, <2>1, <2>2, RevokedToken, NothingIsNoRow
  <2> HIDE DEF y
  <2> QED
    BY <1>1, <1>2, <1>3, <2>2, <2>3, TokensMove
<1> QED
  BY <1>4, <1>5 DEF Logout

(* A change of the activation raises the version and revokes every token.    *)
LEMMA SetActiveKeeps ==
  ASSUME IInv, NEW active \in BOOLEAN, SetActive(active)
  PROVE  IInv'
<1> USE DEF customer
<1>1. TypeOK /\ account \in Account /\ account # NOTHING
  BY DEF IInv, TypeOK, SetActive
<1>2. account' \in Account /\ account'.version = account.version + 1
  BY <1>1 DEF Account, SetActive, NextVersion
<1>3. account' # NOTHING
  BY <1>2, NothingIsNoRow
<1>4. /\ token' \in [Tokens -> Token \cup {NOTHING}]
      /\ \A x \in Tokens :
           /\ token'[x] = NOTHING <=> token[x] = NOTHING
           /\ token[x] # NOTHING => /\ token'[x].revoked
                                    /\ token'[x].root = token[x].root
                                    /\ token'[x].version = token[x].version
  BY <1>1, RevokeAllFacts DEF SetActive
<1>5. TypeOK'
  BY <1>1, <1>2, <1>4 DEF TypeOK, SetActive
<1>6. TokensRooted'
  BY <1>3, <1>4 DEF IInv, TokensRooted
<1>7. CallsGrounded'
  <2>1. \A q \in Requests : call[q] # NOTHING =>
          (call[q].op \in {"refresh", "logout"} => call[q].token \in Tokens)
    BY <1>1, CallFacts
  <2> QED
    BY <1>4, <2>1 DEF IInv, CallsGrounded, SetActive
<1>8. EffectsSpent'
  <2>1. account.version \in Nat /\ \A e \in applied : e.version \in Nat
    BY <1>1 DEF TypeOK, Account, Effect
  <2> QED
    BY <1>2, <1>3, <2>1 DEF IInv, EffectsSpent, SetActive
<1>9. SessionsEndWithCredentials'
  BY <1>4 DEF SessionsEndWithCredentials
<1>10. AppliedOnce'
  BY DEF IInv, AppliedOnce, SetActive
<1> QED
  BY <1>5, <1>6, <1>7, <1>8, <1>9, <1>10 DEF IInv
-----------------------------------------------------------------------------
(* The inductive invariant: tokens and calls refer to rows that exist, a     *)
(* token keeps the version its session began at, and an effect has used up   *)
(* its ticket, its key and its version.                                      *)
THEOREM Invariance == Spec => []IInv
<1>1. Init => IInv
  <2> SUFFICES ASSUME Init
               PROVE  IInv
    OBVIOUS
  <2>1. account \in Account \cup {NOTHING}
    <3>1. [active |-> TRUE, version |-> 1] \in Account
      BY DEF Account
    <3> QED
      BY <3>1 DEF Init
  <2>2. TypeOK
    BY <2>1, SessionsAssumption DEF Init, TypeOK
  <2>3. TokensRooted /\ CallsGrounded /\ EffectsSpent
    BY DEF Init, TokensRooted, CallsGrounded, EffectsSpent
  <2>4. SessionsEndWithCredentials /\ AppliedOnce
    BY DEF Init, SessionsEndWithCredentials, AppliedOnce
  <2> QED
    BY <2>2, <2>3, <2>4 DEF IInv
<1>2. IInv /\ [Next]_vars => IInv'
  <2> SUFFICES ASSUME IInv, [Next]_vars
               PROVE  IInv'
    OBVIOUS
  <2>1. CASE \E t \in Tickets : ExpireTicket(t) \/ \E op \in Ops : IssueTicket(t, op)
    BY <2>1, ExpireTicketKeeps, IssueTicketKeeps
  <2>2. CASE \E op \in Ops, k \in Keys :
               \/ ReceiptAges(op, k)
               \/ \E r \in Requests, t \in Tickets : Submit(r, op, k, t)
    BY <2>2, ReceiptAgesKeeps, SubmitKeeps
  <2>3. CASE \E r \in Requests :
               Signup(r) \/ ConfirmReset(r) \/ Refresh(r) \/ Logout(r)
    BY <2>3, SignupKeeps, ConfirmResetKeeps, RefreshKeeps, LogoutKeeps
  <2>4. CASE \E r \in Requests, op \in {"refresh", "logout"}, x \in Tokens :
               Present(r, op, x)
    BY <2>4, PresentKeeps
  <2>5. CASE Login \/ LoginFails \/ LoginWindowPasses
    BY <2>5, LoginKeeps, LoginFailsKeeps, LoginWindowPassesKeeps
  <2>6. CASE \E active \in BOOLEAN : SetActive(active)
    BY <2>6, SetActiveKeeps
  <2>7. CASE CustomerChanges
    BY <2>7, CustomerChangesKeeps
  <2>8. CASE UNCHANGED vars
    BY <2>8 DEF vars, customer, IInv, TypeOK, TokensRooted, CallsGrounded,
       EffectsSpent, SessionsEndWithCredentials, AppliedOnce, Active
  <2> QED
    BY <2>1, <2>2, <2>3, <2>4, <2>5, <2>6, <2>7, <2>8 DEF Next
<1> QED
  BY <1>1, <1>2, PTL DEF Spec

(* However a reset or a deactivation interleaves with log-ins, refreshes and *)
(* replays, a refresh token that still works is of a session begun after it. *)
THEOREM SessionsEnd == Spec => []SessionsEndWithCredentials
<1>1. IInv => SessionsEndWithCredentials
  BY DEF IInv
<1> QED
  BY <1>1, Invariance, PTL

(* However many calls passed the unlocked look at the receipt and the        *)
(* ticket, one of them takes effect.                                         *)
THEOREM EffectsAppliedOnce == Spec => []AppliedOnce
<1>1. IInv => AppliedOnce
  BY DEF IInv
<1> QED
  BY <1>1, Invariance, PTL
=============================================================================
