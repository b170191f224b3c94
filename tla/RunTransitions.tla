--------------------------- MODULE RunTransitions ---------------------------
(***************************************************************************)
(* The run state machine of deerflow/runtime/runs/transitions.py: the six  *)
(* statuses, the terminal ones, the legal edges and the guard that         *)
(* RunManager.set_status and cancel apply to the in-memory record.         *)
(***************************************************************************)

\* The statuses list_inflight, create_or_reject and cancel treat as active.
InflightStatuses == {"pending", "running"}

TERMINAL_RUN_STATUSES == {"success", "error", "timeout", "interrupted"}

Statuses == InflightStatuses \cup TERMINAL_RUN_STATUSES

\* An interrupted run may still be re-classified to error (rollback).
LEGAL_RUN_TRANSITIONS ==
    [s \in Statuses |->
        CASE s = "pending"     -> {"running"} \cup TERMINAL_RUN_STATUSES
          [] s = "running"     -> TERMINAL_RUN_STATUSES
          [] s = "interrupted" -> {"error"}
          [] OTHER             -> {}]

\* assert_run_transition raises exactly when this is FALSE.
LegalTransition(current, target) ==
    current = target \/ target \in LEGAL_RUN_TRANSITIONS[current]

is_terminal_run_status(s) == s \in TERMINAL_RUN_STATUSES
=============================================================================
