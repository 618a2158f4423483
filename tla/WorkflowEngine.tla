--------------------------- MODULE WorkflowEngine ---------------------------
(* What the transition contract promises by itself: an inquiry and its      *)
(* visit moved by every event the tables list, in any order, with no domain *)
(* guard.  It is the abstract specification the services must implement:    *)
(* InquiryWorkflow refines it.                                              *)
EXTENDS StateMachine

CONSTANT MaxEvents   \* bound on the events of a behaviour

VARIABLES
  inquiryState,   \* Inquiry.status_code, NONE before the inquiry exists
  visitStatus,    \* Visit.status of the latest visit, NONE without one
  stateVersion    \* Inquiry.state_version, 0 before the inquiry exists

contractVars == <<inquiryState, visitStatus, stateVersion>>

(* Inquiry.status_code, Visit.status_code and state_version hold values the *)
(* contract lists.                                                          *)
ContractTypeOK ==
  /\ inquiryState \in InquiryStates \cup {NONE}
  /\ visitStatus \in VisitStatuses \cup {NONE}
  /\ stateVersion \in 0 .. MaxEvents

InitContract ==
  /\ inquiryState = NONE
  /\ visitStatus = NONE
  /\ stateVersion = 0

\* One event accepted by StateMachine.resolve.
Apply(e) ==
  /\ stateVersion < MaxEvents
  /\ stateVersion' = NextVersion(stateVersion)
  /\ Resolves(e, inquiryState, visitStatus, inquiryState', visitStatus')

NextContract == \E e \in EventCodes : Apply(e)

SpecContract == InitContract /\ [][NextContract]_contractVars

-----------------------------------------------------------------------------
(* A visit once created is never lost by a transition: an inquiry with a    *)
(* visit cannot be cancelled or sent through a REQUIRE_ABSENT rule, whose   *)
(* outcome is "no visit" (_next_visit_status, lines 177-192).               *)
VisitNeverDropped == [][visitStatus # NONE => visitStatus' # NONE]_contractVars
=============================================================================
