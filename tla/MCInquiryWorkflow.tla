-------------------------- MODULE MCInquiryWorkflow --------------------------
(* TLC instance of the inquiry: two consultants, so that a reassignment and *)
(* a claim have someone else to go to.                                      *)
EXTENDS InquiryWorkflow
=============================================================================
