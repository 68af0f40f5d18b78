---------------------------- MODULE TaskStates ----------------------------
(***************************************************************************)
(* The pure part of task orchestration: the states and events of           *)
(* models/task.py, the transition table of policy/state_machine.py and the *)
(* worker's mapping from Pub/Sub event types to state-machine events.      *)
(***************************************************************************)

Terminal == {"completed", "failed", "cancelled"}

TaskState == Terminal \cup
  {"created", "running", "awaiting_approval", "awaiting_webhook",
   "resuming", "quarantined"}

TaskEvent ==
  {"initial_invocation", "approval_required", "webhook_pending",
   "terminal_success", "terminal_failure", "security_event",
   "approval_received", "webhook_received", "runtime_restored",
   "resume_failed", "human_released", "cancellation"}

EventType ==
  {"task.start", "approval.created", "approval.rejected",
   "external.settlement.completed", "external.settlement.failed",
   "task.release", "task.cancel"}

VALID_TRANSITIONS ==
  { <<"created",           "initial_invocation", "running">>,
    <<"running",           "approval_required",  "awaiting_approval">>,
    <<"running",           "webhook_pending",    "awaiting_webhook">>,
    <<"running",           "terminal_success",   "completed">>,
    <<"running",           "terminal_failure",   "failed">>,
    <<"running",           "security_event",     "quarantined">>,
    <<"awaiting_approval", "approval_received",  "resuming">>,
    <<"awaiting_webhook",  "webhook_received",   "resuming">>,
    <<"resuming",          "runtime_restored",   "running">>,
    <<"resuming",          "resume_failed",      "failed">>,
    <<"quarantined",       "human_released",     "resuming">> }

(***************************************************************************)
(* transition(current, event) returns next; no related next state is the   *)
(* InvalidTransitionError.                                                 *)
(***************************************************************************)
Transition(current, event, next) ==
  \/ event = "cancellation" /\ current \notin Terminal /\ next = "cancelled"
  \/ <<current, event, next>> \in VALID_TRANSITIONS

(* _resolve_task_event: a failed settlement is read against the state. *)
ResolveTaskEvent(type, current) ==
  CASE type = "task.start"                    -> "initial_invocation"
    [] type = "approval.created"              -> "approval_received"
    [] type = "approval.rejected"             -> "cancellation"
    [] type = "external.settlement.completed" -> "webhook_received"
    [] type = "external.settlement.failed"    ->
         IF current = "resuming" THEN "resume_failed" ELSE "terminal_failure"
    [] type = "task.release"                  -> "human_released"
    [] type = "task.cancel"                   -> "cancellation"

(* The next state of a task in state current when an event of that type is  *)
(* handled.                                                                *)
Handles(type, current, next) ==
  Transition(current, ResolveTaskEvent(type, current), next)
===========================================================================
