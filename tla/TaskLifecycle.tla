--------------------------- MODULE TaskLifecycle ---------------------------
(***************************************************************************)
(* The life of one task document: the worker's Pub/Sub handler with its    *)
(* event receipts and checkpoints, the control plane's quarantine, release *)
(* and create paths, the push subscription, and the agent runtime that     *)
(* starts a wait or ends the task.                                         *)
(*                                                                         *)
(* Every store call is one atomic step (a Firestore transaction or a       *)
(* single document read or write) and every await between two store calls  *)
(* is a point where any other handler may run.  All handlers touch only    *)
(* the documents of their own task, so one task is modelled.               *)
(***************************************************************************)
EXTENDS Naturals, FiniteSets, TaskStates

CONSTANTS
  EventIds,            \* event_id of every event anyone may publish
  OccasionOf,          \* what each event was published for
  PublisherLayers,     \* base64 layers the control plane's EventPublisher adds
  Deliveries,          \* push requests the worker may be handling at a time
  Requests,            \* control-plane requests in progress at a time
  Creators,            \* those of them that may be a create_delegation
  Sessions,            \* values of Task.session_id other than ""
  MaxDeliveryAttempts, \* dead_letter_policy.max_delivery_attempts
  Absent, NoCheckpoint, NoSession, NoEvent

(* "approve" and "reject" are decisions posted to create_approval; the     *)
(* other events come from publishers outside the repository.               *)
Occasion == {"start", "approve", "reject", "approval_rejected", "settled",
             "settlement_failed", "release", "cancel"}

ASSUME OccasionAssumption == OccasionOf \in [EventIds -> Occasion]
ASSUME LayersAssumption == PublisherLayers \in Nat
ASSUME AttemptsAssumption == MaxDeliveryAttempts \in Nat \ {0}
ASSUME AbsentAssumption == Absent \notin TaskState

VARIABLES
  task,          \* tasks/{task_id}
  checkpoints,   \* checkpoints/*: a document is known by its content
  receipts,      \* event_receipts/{event_id}
  audit,         \* the worker's task.state.transition audit events
  sub,           \* each event's message on the push subscription
  delivered,     \* its delivery attempts
  handler,       \* the worker's handle_pubsub_event coroutines
  request,       \* the control plane's coroutines that write the task
  applied,       \* history: commits made by each event
  rejected       \* history: events answered with a permanent error

storeVars == <<task, checkpoints, receipts, audit>>
subVars   == <<sub, delivered>>
history   == <<applied, rejected>>
vars      == <<storeVars, subVars, handler, request, history>>

---------------------------------------------------------------------------
(* Documents. *)

SessionId == Sessions \cup {NoSession}

Checkpoint == [state : TaskState, version : Nat, session : SessionId]

ASSUME NoCheckpointAssumption == NoCheckpoint \notin Checkpoint

Document == [state : TaskState, version : Nat \ {0}, session : SessionId,
             checkpoint : Checkpoint \cup {NoCheckpoint}]

NoTask == [state |-> Absent, version |-> 0, session |-> NoSession,
           checkpoint |-> NoCheckpoint]

NewTask == [NoTask EXCEPT !.state = "created", !.version = 1]

CheckpointOf(t) ==
  [state |-> t.state, version |-> t.version, session |-> t.session]

(* A "processing" receipt is leased until its lease runs out, then stale. *)
ReceiptStatus == {"absent", "leased", "stale", "complete"}

MessageStatus == {"unpublished", "pending", "acked", "dead"}

HandlerPc == {"resume", "checkpoint", "commit", "audit", "complete"}

IdleHandler == [pc |-> "idle", event |-> NoEvent, read |-> NoTask, new |-> NoTask]

Handler ==
  {IdleHandler}
  \cup [pc : {"fetch"}, event : EventIds, read : {NoTask}, new : {NoTask}]
  \cup [pc : HandlerPc, event : EventIds, read : Document, new : Document]

IdleRequest == [pc |-> "idle", read |-> NoTask]

Request ==
  [pc : {"idle", "create"}, read : {NoTask}]
  \cup [pc : {"quarantine", "release"}, read : Document]

(* The documents, messages and coroutines have the values declared above.  *)
TypeOK ==
  /\ task \in Document \cup {NoTask}
  /\ checkpoints \subseteq Checkpoint
  /\ receipts \in [EventIds -> ReceiptStatus]
  /\ audit \subseteq [event : EventIds, from : TaskState, to : TaskState]
  /\ sub \in [EventIds -> MessageStatus]
  /\ delivered \in [EventIds -> 0 .. MaxDeliveryAttempts]
  /\ handler \in [Deliveries -> Handler]
  /\ request \in [Requests -> Request]
  /\ applied \in [EventIds -> Nat]
  /\ rejected \subseteq EventIds

---------------------------------------------------------------------------
(* Events. create_approval publishes approval.created whatever the decision.*)

FromControlPlane(e) == OccasionOf[e] \in {"approve", "reject"}

EventTypeOf(e) ==
  CASE FromControlPlane(e)                  -> "approval.created"
    [] OccasionOf[e] = "start"              -> "task.start"
    [] OccasionOf[e] = "approval_rejected"  -> "approval.rejected"
    [] OccasionOf[e] = "settled"            -> "external.settlement.completed"
    [] OccasionOf[e] = "settlement_failed"  -> "external.settlement.failed"
    [] OccasionOf[e] = "release"            -> "task.release"
    [] OccasionOf[e] = "cancel"             -> "task.cancel"

(* Push delivery wraps the published bytes in base64 once; the worker      *)
(* decodes once and needs the JSON of an EventEnvelope.                    *)
PublishedLayers(e) == IF FromControlPlane(e) THEN PublisherLayers ELSE 0

Decodable(e) == (PublishedLayers(e) + 1) - 1 = 0

---------------------------------------------------------------------------
(* The push subscription. *)

Publish(e) ==
  /\ sub[e] = "unpublished"
  /\ sub' = [sub EXCEPT ![e] = "pending"]
  /\ UNCHANGED <<storeVars, delivered, handler, request, history>>

(* Mutant: no delivery limit. *)
Undelivered(e) == sub[e] = "pending"

CanDeliver(e) == sub[e] = "pending" /\ delivered[e] < MaxDeliveryAttempts

(* Mutant: off by one. *)
OverExhausted(e) == delivered[e] > MaxDeliveryAttempts

Exhausted(e) == delivered[e] = MaxDeliveryAttempts

DeadLetter(e) ==
  /\ sub[e] = "pending" /\ Exhausted(e)
  /\ sub' = [sub EXCEPT ![e] = "dead"]
  /\ UNCHANGED <<storeVars, delivered, handler, request, history>>

(* A 2xx answer acknowledges the message. *)
Acked(e) == [sub EXCEPT ![e] = IF @ = "pending" THEN "acked" ELSE @]

(* More than lease_seconds have passed since first_seen_at. *)
LeaseExpires(e) ==
  /\ receipts[e] = "leased"
  /\ receipts' = [receipts EXCEPT ![e] = "stale"]
  /\ UNCHANGED <<task, checkpoints, audit, subVars, handler, request, history>>

---------------------------------------------------------------------------
(* The worker: handle_pubsub_event. *)

Reservable(e) == receipts[e] \in {"absent", "stale"}

(* Handler d goes on to pc; the event it handles stays the same. *)
Goto(d, pc, read, new) ==
  handler' = [handler EXCEPT ![d] =
               [pc |-> pc, event |-> handler[d].event, read |-> read, new |-> new]]

(* reserve_event_receipt admits a new event, or one whose lease expired. *)
Reserve(d, e) ==
  /\ handler[d].pc = "idle" /\ CanDeliver(e) /\ Decodable(e) /\ Reservable(e)
  /\ receipts' = [receipts EXCEPT ![e] = "leased"]
  /\ delivered' = [delivered EXCEPT ![e] = @ + 1]
  /\ handler' = [handler EXCEPT ![d] =
                [pc |-> "fetch", event |-> e, read |-> NoTask, new |-> NoTask]]
  /\ UNCHANGED <<task, checkpoints, audit, sub, request, history>>

(* ... and answers 200 duplicate_ignored to every other delivery. *)
IgnoreDuplicate(e) ==
  /\ CanDeliver(e) /\ Decodable(e) /\ ~Reservable(e)
  /\ delivered' = [delivered EXCEPT ![e] = @ + 1]
  /\ sub' = Acked(e)
  /\ UNCHANGED <<storeVars, handler, request, history>>

(* An envelope that does not decode is answered 400 before the receipt.    *)
RefuseMalformed(e) ==
  /\ CanDeliver(e) /\ ~Decodable(e)
  /\ delivered' = [delivered EXCEPT ![e] = @ + 1]
  /\ rejected' = rejected \cup {e}
  /\ UNCHANGED <<storeVars, sub, handler, request, applied>>

(* The task as the handler will write it, but for latest_checkpoint_id:    *)
(* one transition, or a transition to resuming, the restore of the runtime *)
(* references from the latest checkpoint, and the transition to running.   *)
Advanced(t, next) == [t EXCEPT !.state = next, !.version = @ + 1]

(* Mutant: the latest checkpoint is not looked at. *)
NewSessions(t) == IF t.session = NoSession THEN {} ELSE Sessions

RestoredSessions(t) ==
  IF t.checkpoint \in checkpoints THEN {t.checkpoint.session}
  ELSE IF t.session = NoSession THEN Sessions ELSE {t.session}

Accepts(e, next) ==
  task.state # Absent /\ Handles(EventTypeOf(e), task.state, next)

FetchTask(d) ==
  /\ handler[d].pc = "fetch"
  /\ \E next \in TaskState :
       /\ Accepts(handler[d].event, next)
       /\ IF next = "resuming"
          THEN \E s \in RestoredSessions(task) :
                 Goto(d, "resume", task, [Advanced(task, next) EXCEPT !.session = s])
          ELSE Goto(d, "checkpoint", task, Advanced(task, next))
  /\ UNCHANGED <<storeVars, subVars, request, history>>

(* 404 for an unknown task, 400 for an invalid transition. *)
RejectEvent(d) ==
  LET e == handler[d].event IN
  /\ handler[d].pc = "fetch"
  /\ ~ \E next \in TaskState : Accepts(e, next)
  /\ handler' = [handler EXCEPT ![d] = IdleHandler]
  /\ rejected' = rejected \cup {e}
  /\ UNCHANGED <<storeVars, subVars, request, applied>>

PutResumeCheckpoint(d) ==
  LET new == handler[d].new IN
  /\ handler[d].pc = "resume"
  /\ checkpoints' = checkpoints \cup {CheckpointOf(new)}
  /\ \E next \in TaskState :
       /\ Transition("resuming", "runtime_restored", next)
       /\ Goto(d, "checkpoint", handler[d].read, Advanced(new, next))
  /\ UNCHANGED <<task, receipts, audit, subVars, request, history>>

(* Mutant: the checkpoint is named but not stored. *)
NameRunningCheckpoint(d) ==
  LET new == handler[d].new IN
  /\ handler[d].pc = "checkpoint"
  /\ Goto(d, "commit", handler[d].read, [new EXCEPT !.checkpoint = CheckpointOf(new)])
  /\ UNCHANGED <<storeVars, subVars, request, history>>

PutRunningCheckpoint(d) ==
  LET new == handler[d].new IN
  /\ handler[d].pc = "checkpoint"
  /\ checkpoints' = checkpoints \cup {CheckpointOf(new)}
  /\ Goto(d, "commit", handler[d].read, [new EXCEPT !.checkpoint = CheckpointOf(new)])
  /\ UNCHANGED <<task, receipts, audit, subVars, request, history>>

(* Mutant: no optimistic precondition. *)
AnyVersion(read) == task.version >= read.version

(* mutate_task_atomic(..., expected_version). *)
VersionMatches(read) == task.version = read.version

CommitTask(d) ==
  /\ handler[d].pc = "commit" /\ VersionMatches(handler[d].read)
  /\ task' = handler[d].new
  /\ applied' = [applied EXCEPT ![handler[d].event] = @ + 1]
  /\ Goto(d, "audit", handler[d].read, handler[d].new)
  /\ UNCHANGED <<checkpoints, receipts, audit, subVars, request, rejected>>

(* ConcurrentTaskUpdateError: HTTP 500, the receipt stays "processing". *)
CommitConflict(d) ==
  /\ handler[d].pc = "commit" /\ ~VersionMatches(handler[d].read)
  /\ handler' = [handler EXCEPT ![d] = IdleHandler]
  /\ UNCHANGED <<storeVars, subVars, request, history>>

(* Mutant: the transition is not audited. *)
SkipTransitionAudit(d) ==
  /\ handler[d].pc = "audit"
  /\ Goto(d, "complete", handler[d].read, handler[d].new)
  /\ UNCHANGED <<storeVars, subVars, request, history>>

AppendTransitionAudit(d) ==
  /\ handler[d].pc = "audit"
  /\ audit' = audit \cup {[event |-> handler[d].event,
                           from  |-> handler[d].read.state,
                           to    |-> handler[d].new.state]}
  /\ Goto(d, "complete", handler[d].read, handler[d].new)
  /\ UNCHANGED <<task, checkpoints, receipts, subVars, request, history>>

(* mark_event_complete, then the 200 answer, which may be lost. *)
MarkComplete(d) ==
  LET e == handler[d].event IN
  /\ handler[d].pc = "complete"
  /\ receipts' = [receipts EXCEPT ![e] = "complete"]
  /\ sub' \in {sub, Acked(e)}
  /\ handler' = [handler EXCEPT ![d] = IdleHandler]
  /\ UNCHANGED <<task, checkpoints, audit, delivered, request, history>>

(* The instance dies, the request times out or a store call raises: the    *)
(* handler is gone and the receipt is left as it is.                       *)
HandlerFails(d) ==
  /\ handler[d].pc # "idle"
  /\ handler' = [handler EXCEPT ![d] = IdleHandler]
  /\ UNCHANGED <<storeVars, subVars, request, history>>

---------------------------------------------------------------------------
(* The control plane: _deny with quarantine_task, release_task and the     *)
(* task part of create_delegation. Each reads the task and writes it later.*)
(* Their delegation documents and audit events are those of GrantLifecycle *)
(* and AuditChain: nothing here reads them.                                *)

Begin(c, pc) ==
  /\ request[c].pc = "idle"
  /\ request' = [request EXCEPT ![c] = [pc |-> pc, read |-> task]]
  /\ UNCHANGED <<storeVars, subVars, handler, history>>

ReadForQuarantine(c) == task.state = "running" /\ Begin(c, "quarantine")

ReadForRelease(c) ==
  Transition(task.state, "human_released", "resuming") /\ Begin(c, "release")

ReadForCreate(c) == c \in Creators /\ task.state = Absent /\ Begin(c, "create")

(* What the request's mutator may write to the task it is applied to. *)
Written(c) ==
  CASE request[c].pc = "quarantine" -> {Advanced(task, "quarantined")}
    [] request[c].pc = "release" ->
         { [Advanced(task, "resuming") EXCEPT !.session = s] :
             s \in IF task.session = NoSession THEN Sessions ELSE {task.session} }

CommitRequest(c) ==
  /\ request[c].pc \in {"quarantine", "release"} /\ VersionMatches(request[c].read)
  /\ task' \in Written(c)
  /\ request' = [request EXCEPT ![c] = IdleRequest]
  /\ UNCHANGED <<checkpoints, receipts, audit, subVars, handler, history>>

(* put_task is unconditional: nothing is compared with the task read. *)
PutNewTask(c) ==
  /\ request[c].pc = "create"
  /\ task' = NewTask
  /\ request' = [request EXCEPT ![c] = IdleRequest]
  /\ UNCHANGED <<checkpoints, receipts, audit, subVars, handler, history>>

(* ConcurrentTaskUpdateError: release answers 409, a quarantine is skipped. *)
RequestConflict(c) ==
  /\ request[c].pc \in {"quarantine", "release"} /\ ~VersionMatches(request[c].read)
  /\ request' = [request EXCEPT ![c] = IdleRequest]
  /\ UNCHANGED <<storeVars, subVars, handler, history>>

(* The instance dies or the store call raises. *)
RequestFails(c) ==
  /\ request[c].pc # "idle"
  /\ request' = [request EXCEPT ![c] = IdleRequest]
  /\ UNCHANGED <<storeVars, subVars, handler, history>>

---------------------------------------------------------------------------
(* The agent runtime, external: it starts a wait under a checkpoint of the *)
(* session it runs in, or finishes the task.                               *)

RuntimeWaits(event, next) ==
  /\ event \in {"approval_required", "webhook_pending"}
  /\ Transition(task.state, event, next)
  /\ \E s \in Sessions :
       LET new == [Advanced(task, next) EXCEPT !.session = s]
           chk == CheckpointOf(new)
       IN  /\ checkpoints' = checkpoints \cup {chk}
           /\ task' = [new EXCEPT !.checkpoint = chk]
  /\ UNCHANGED <<receipts, audit, subVars, handler, request, history>>

RuntimeFinishes(event, next) ==
  /\ event \in {"terminal_success", "terminal_failure"}
  /\ Transition(task.state, event, next)
  /\ task' = Advanced(task, next)
  /\ UNCHANGED <<checkpoints, receipts, audit, subVars, handler, request, history>>

---------------------------------------------------------------------------
Init ==
  /\ task = NoTask
  /\ checkpoints = {}
  /\ receipts = [e \in EventIds |-> "absent"]
  /\ audit = {}
  /\ sub = [e \in EventIds |-> "unpublished"]
  /\ delivered = [e \in EventIds |-> 0]
  /\ handler = [d \in Deliveries |-> IdleHandler]
  /\ request = [c \in Requests |-> IdleRequest]
  /\ applied = [e \in EventIds |-> 0]
  /\ rejected = {}

Handle(d) ==
  \/ FetchTask(d) \/ RejectEvent(d)
  \/ PutResumeCheckpoint(d) \/ PutRunningCheckpoint(d)
  \/ CommitTask(d) \/ CommitConflict(d)
  \/ AppendTransitionAudit(d) \/ MarkComplete(d)

Push(e) ==
  \/ (\E d \in Deliveries : Reserve(d, e))
  \/ IgnoreDuplicate(e) \/ RefuseMalformed(e) \/ DeadLetter(e)

ControlPlane(c) ==
  \/ ReadForQuarantine(c) \/ ReadForRelease(c) \/ ReadForCreate(c)
  \/ CommitRequest(c) \/ PutNewTask(c)
  \/ RequestConflict(c) \/ RequestFails(c)

Runtime ==
  \E event \in TaskEvent, next \in TaskState :
    RuntimeWaits(event, next) \/ RuntimeFinishes(event, next)

Next ==
  \/ \E e \in EventIds : Publish(e) \/ LeaseExpires(e) \/ Push(e)
  \/ \E d \in Deliveries : Handle(d) \/ HandlerFails(d)
  \/ \E c \in Requests : ControlPlane(c)
  \/ Runtime

Spec == Init /\ [][Next]_vars

(* Cloud Run keeps running a handler that was started and Pub/Sub keeps     *)
(* pushing a message that is pending; nothing else has to happen.          *)
FairSpec ==
  /\ Spec
  /\ \A d \in Deliveries : WF_vars(Handle(d))
  /\ \A e \in EventIds : WF_vars(Push(e))
===========================================================================
