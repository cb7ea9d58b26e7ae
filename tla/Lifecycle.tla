----------------------------- MODULE Lifecycle -----------------------------
(***************************************************************************)
(* The finding validation lifecycle: which status a human may move a       *)
(* finding to, given the status it has (services/lifecycle.py).  Pure: the  *)
(* reads and writes around it are in Triage.                               *)
(***************************************************************************)

\* Variant: an untriaged finding may be confirmed.
ALLOWED_TRANSITIONS_untriaged ==
  [new            |-> {"triaged", "validated", "false_positive", "accepted_risk"},
   triaged        |-> {"validated", "false_positive", "accepted_risk"},
   validated      |-> {"fixed", "false_positive"},
   fixed          |-> {"regression", "validated"},
   regression     |-> {"validated", "fixed"},
   accepted_risk  |-> {"triaged"},
   false_positive |-> {"triaged"}]

\* The allowlist, as data: from-status to the set of to-statuses.
ALLOWED_TRANSITIONS ==
  [new            |-> {"triaged", "false_positive", "accepted_risk"},
   triaged        |-> {"validated", "false_positive", "accepted_risk"},
   validated      |-> {"fixed", "false_positive"},
   fixed          |-> {"regression", "validated"},
   regression     |-> {"validated", "fixed"},
   accepted_risk  |-> {"triaged"},
   false_positive |-> {"triaged"}]

FindingStatus ==
  {"new", "triaged", "validated", "false_positive", "accepted_risk", "fixed", "regression"}

is_allowed(current, requested) == requested \in ALLOWED_TRANSITIONS[current]

=============================================================================
