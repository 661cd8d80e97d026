---------------------------- MODULE StreamStatus ----------------------------
(***************************************************************************)
(* The stream status vocabulary and its two transition tables: the one of  *)
(* the application (streamStatusService.ts) and the one the database       *)
(* trigger enforces on every UPDATE of vesting_streams.status (migrations  *)
(* 006 and 008).  Constant-level operators only.                           *)
(***************************************************************************)

Status == {"active", "pre_cliff", "expired", "cancelled", "drained", "clawedback"}

\* A recipient with no vesting_streams row.
Absent == "absent"

VALID_TRANSITIONS ==
    [s \in Status |->
        CASE s = "active"    -> {"cancelled", "expired", "clawedback"}
          [] s = "pre_cliff" -> {"active", "cancelled", "expired", "clawedback"}
          [] s = "expired"   -> {"drained"}
          [] OTHER           -> {}]

IsValidTransition(from, to) == from = to \/ to \in VALID_TRANSITIONS[from]

\* Mutant: the trigger accepts every new status.
TriggerAllows_Any(from, to) == TRUE

\* check_stream_status_transition, run by the BEFORE UPDATE trigger: FALSE
\* means that the trigger raises and the statement fails.
TriggerAllows(from, to) ==
    \/ from = to
    \/ from = "active"    /\ to \in {"cancelled", "expired", "clawedback"}
    \/ from = "pre_cliff" /\ to \in {"active", "cancelled", "expired", "clawedback"}
    \/ from = "expired"   /\ to = "drained"

=============================================================================
