----------------------------- MODULE MCAIService -----------------------------
(* Two requests and one slot: the second one is refused while the thread of *)
(* the first, answered or given up, still runs, and is served after it.     *)
EXTENDS AIService
=============================================================================
