---------------------------- MODULE MCOtpDelivery ----------------------------
(* One subject asked for two codes, a contact it can lose and get back, two *)
(* workers and one crash: a resend that races the worker, a retry after a   *)
(* lost confirmation, a rollback after the mail left.                       *)
EXTENDS OtpDelivery
=============================================================================
