-------------------------- MODULE MCAccountSessions --------------------------
(* Two tickets, two keys, two calls in flight and three refresh tokens; the *)
(* version can be raised twice, which covers a reset followed by another    *)
(* reset or by a deactivation.                                              *)
EXTENDS AccountSessions, TLC

SessionSymmetry ==
  Permutations(Tickets) \cup Permutations(Keys) \cup Permutations(Tokens)
    \cup Permutations(Requests)
=============================================================================
