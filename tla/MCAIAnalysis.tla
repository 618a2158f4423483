---------------------------- MODULE MCAIAnalysis ----------------------------
(* Three submissions, two questions, and one AI result of every kind the     *)
(* routing tells apart.                                                      *)
EXTENDS AIAnalysis

CONSTANTS q1, q2

Res(reason, risk, verified, plain, followups, ledger) ==
  [reason |-> reason, risk |-> risk, verified |-> verified, plain |-> plain,
   followups |-> followups, ledger |-> ledger]

MCResults ==
  {Res("product", "general", FALSE, FALSE, {}, FALSE),
   Res("none", "danger", TRUE, FALSE, {}, FALSE),
   Res("no_evidence", "general", FALSE, FALSE, {}, TRUE),
   Res("no_evidence", "caution", FALSE, FALSE, {q1}, FALSE),
   Res("none", "general", TRUE, TRUE, {}, FALSE),
   Res("none", "general", FALSE, TRUE, {}, FALSE),
   Res("none", "general", FALSE, FALSE, {q1, q2}, FALSE),
   Res("none", "general", TRUE, FALSE, {}, FALSE),
   Res("none", "caution", TRUE, FALSE, {q2}, TRUE),
   Res("other", "caution", TRUE, FALSE, {}, FALSE)}
=============================================================================
