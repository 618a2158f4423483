------------------------ MODULE MCIdempotentCommand ------------------------
(* Three attempts under two keys on two inquiries: a request, its resend    *)
(* and a rival, in all combinations of the same or another key, body and    *)
(* target.  No symmetry: one of the properties is a liveness property.      *)
EXTENDS IdempotentCommand
=============================================================================
