------------------------------ MODULE TaskTable ------------------------------
(***************************************************************************)
(* The life cycle table of tasks/task-engine.ts.  setStatus accepts a      *)
(* status the task already has, and otherwise only what Allowed lists.     *)
(***************************************************************************)

Terminal == {"COMPLETED", "ROLLED_BACK", "CANCELLED"}

\* The states a restart interrupts (markInterruptedForRecovery).
Interruptible ==
    {"RUNNING", "DEPLOYING", "HEALTH_CHECKING", "RECOVERING", "ROLLING_BACK"}

\* The states resume() leaves.
Resumable ==
    {"PENDING", "PAUSED", "FAILED", "RECOVERY_REQUIRED", "WAITING_FOR_USER"}

TaskStatus ==
    Terminal \cup Interruptible \cup Resumable \cup {"ROLLBACK_REQUIRED"}

Allowed ==
  [ PENDING |->
      {"RUNNING", "DEPLOYING", "FAILED", "RECOVERING", "RECOVERY_REQUIRED",
       "ROLLBACK_REQUIRED", "WAITING_FOR_USER", "CANCELLED"},
    RUNNING |->
      TaskStatus \ {"PENDING", "RUNNING"},
    PAUSED |->
      {"RUNNING", "FAILED", "RECOVERING", "RECOVERY_REQUIRED",
       "ROLLBACK_REQUIRED", "WAITING_FOR_USER", "CANCELLED"},
    FAILED |->
      {"RUNNING", "RECOVERING", "RECOVERY_REQUIRED", "ROLLBACK_REQUIRED",
       "WAITING_FOR_USER", "CANCELLED"},
    WAITING_FOR_USER |->
      {"RUNNING", "RECOVERING", "RECOVERY_REQUIRED", "ROLLBACK_REQUIRED",
       "FAILED", "CANCELLED"},
    RECOVERY_REQUIRED |->
      {"RUNNING", "RECOVERING", "ROLLBACK_REQUIRED", "WAITING_FOR_USER",
       "FAILED", "CANCELLED"},
    DEPLOYING |->
      {"HEALTH_CHECKING", "FAILED", "RECOVERY_REQUIRED", "ROLLBACK_REQUIRED",
       "CANCELLED"},
    HEALTH_CHECKING |->
      {"COMPLETED", "ROLLED_BACK", "FAILED", "RECOVERY_REQUIRED",
       "ROLLBACK_REQUIRED", "CANCELLED"},
    RECOVERING |->
      {"RUNNING", "RECOVERY_REQUIRED", "FAILED", "ROLLBACK_REQUIRED",
       "WAITING_FOR_USER", "COMPLETED", "CANCELLED"},
    ROLLBACK_REQUIRED |->
      {"ROLLING_BACK", "WAITING_FOR_USER", "FAILED", "CANCELLED"},
    ROLLING_BACK |->
      {"HEALTH_CHECKING", "ROLLED_BACK", "FAILED", "WAITING_FOR_USER",
       "CANCELLED"},
    COMPLETED |-> {}, ROLLED_BACK |-> {}, CANCELLED |-> {} ]

CanSet(from, to) == from = to \/ to \in Allowed[from]

=============================================================================
