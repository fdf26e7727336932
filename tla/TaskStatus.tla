---- MODULE TaskStatus ----
(***************************************************************************)
(* The lifecycle statuses of a task row and the table of the moves that    *)
(* the state machine accepts (TaskStatus::can_transition_to in             *)
(* src-tauri/src/models/task.rs, consulted by transition_task_once in      *)
(* src-tauri/src/state_machine.rs before any conditional UPDATE).          *)
(***************************************************************************)

Statuses == {"queued", "downloading", "paused", "completed", "failed",
             "needs_attention", "retrying", "waiting_network"}

\* "absent" stands for a row that delete_task removed.
RowStates == Statuses \cup {"absent"}

\* The table of can_transition_to: no status may move to itself, and nothing
\* leaves "completed" through it.
CanTransition ==
  [queued          |-> {"downloading", "paused", "failed", "needs_attention",
                        "waiting_network"},
   downloading     |-> {"paused", "completed", "failed", "retrying",
                        "needs_attention", "waiting_network"},
   paused          |-> {"queued", "downloading", "failed"},
   retrying        |-> {"downloading", "paused", "failed", "needs_attention"},
   waiting_network |-> {"queued", "downloading", "failed"},
   needs_attention |-> {"queued", "failed"},
   failed          |-> {"queued", "retrying", "needs_attention"},
   completed       |-> {},
   absent          |-> {}]

\* The statuses that a live engine run owns (task_status_is_live_in_tx).
LiveStatuses == {"downloading", "retrying"}

\* Rows schedule_auto_retry may take back to the delayed queue.
AutoRetryFrom == LiveStatuses \cup {"failed"}

====
