------------------------------ MODULE MCHandoff ------------------------------
(* Two AI requests, of the same version or of two, and two consultations:   *)
(* the second is opened while handoffs of the first are still on their way. *)
EXTENDS Handoff, TLC

RequestSymmetry == Permutations(Requests)
=============================================================================
