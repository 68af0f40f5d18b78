------------------------ MODULE TaskLifecycle_proofs ------------------------
(***************************************************************************)
(* Theorems about TaskLifecycle for every set of events, deliveries,       *)
(* requests and sessions and every delivery limit.                         *)
(***************************************************************************)
EXTENDS TaskLifecycleProperties, TLAPS

---------------------------------------------------------------------------
(* The transition table. *)

(* No transition leads back to "created", and each ends in a task state.   *)
LEMMA TransitionTarget ==
  ASSUME NEW s, NEW event, NEW next, Transition(s, event, next)
  PROVE  next \in TaskState \ {"created"}
  BY DEF Transition, VALID_TRANSITIONS, TaskState, Terminal

(* runtime_restored takes resuming to running and nowhere else.            *)
LEMMA RestoredRuns ==
  ASSUME NEW next, Transition("resuming", "runtime_restored", next)
  PROVE  next = "running"
  BY DEF Transition, VALID_TRANSITIONS

(* The worker's mapping yields state-machine events.                       *)
LEMMA ResolvedEvent ==
  ASSUME NEW e \in EventIds, NEW s
  PROVE  ResolveTaskEvent(EventTypeOf(e), s) \in TaskEvent
<1>1. EventTypeOf(e) \in EventType
  BY OccasionAssumption DEF EventTypeOf, EventType, FromControlPlane, Occasion
<1> QED BY <1>1 DEF ResolveTaskEvent, TaskEvent, EventType

---------------------------------------------------------------------------
(* The documents. *)

LEMMA AdvancedDocument ==
  ASSUME NEW t \in Document, NEW next \in TaskState
  PROVE  /\ Advanced(t, next) \in Document
         /\ Advanced(t, next).state = next
         /\ Advanced(t, next).version = t.version + 1
         /\ Advanced(t, next).session = t.session
         /\ Advanced(t, next).checkpoint = t.checkpoint
<1> DEFINE v == t.version + 1
           u == [t EXCEPT !.state = next, !.version = v]
<1>1. v \in Nat \ {0} BY DEF Document
<1> HIDE DEF v
<1>2. u \in Document
  BY <1>1 DEF Document
<1>3. /\ u.state = next /\ u.version = v
      /\ u.session = t.session /\ u.checkpoint = t.checkpoint
  BY <1>1 DEF Document
<1>4. Advanced(t, next) = u BY DEF Advanced, v
<1> QED BY <1>2, <1>3, <1>4, Zenon DEF v

LEMMA CheckpointType ==
  ASSUME NEW t \in Document
  PROVE  CheckpointOf(t) \in Checkpoint
  BY DEF CheckpointOf, Checkpoint, Document

(* A document written with another session or checkpoint is a document.    *)
LEMMA DocumentUpdate ==
  ASSUME NEW t \in Document
  PROVE  /\ \A s \in SessionId : [t EXCEPT !.session = s] \in Document
         /\ \A k \in Checkpoint : [t EXCEPT !.checkpoint = k] \in Document
  BY DEF Document

LEMMA NewTaskDocument ==
  /\ NewTask \in Document
  /\ NewTask.state = "created" /\ NewTask.version = 1
<1>1. NewTask = [[NoTask EXCEPT !.state = "created"] EXCEPT !.version = 1]
  BY DEF NewTask
<1>2. [NoTask EXCEPT !.state = "created"]
        = [state |-> "created", version |-> 0, session |-> NoSession,
           checkpoint |-> NoCheckpoint]
  BY DEF NoTask
<1>3. NewTask = [state |-> "created", version |-> 1, session |-> NoSession,
                 checkpoint |-> NoCheckpoint]
  BY <1>1, <1>2
<1> QED BY <1>3 DEF Document, TaskState, SessionId

LEMMA NoTaskIsNone == NoTask \notin Document /\ NoTask.state = Absent /\ NoTask.version = 0
  BY DEF NoTask, Document

(* The task is a document or absent, and its state tells which.            *)
LEMMA TaskIsDocument ==
  ASSUME TypeOK
  PROVE  task.state # Absent <=> task \in Document
  BY NoTaskIsNone, AbsentAssumption DEF TypeOK, Document

LEMMA RestoredSessionType ==
  ASSUME TypeOK, NEW t \in Document
  PROVE  RestoredSessions(t) \subseteq SessionId
  BY DEF TypeOK, RestoredSessions, Checkpoint, Document, SessionId

---------------------------------------------------------------------------
(* The type invariant. *)

LEMMA InitType == Init => TypeOK
<1> SUFFICES ASSUME Init PROVE TypeOK OBVIOUS
<1>1. IdleHandler \in Handler BY DEF Handler
<1>2. IdleRequest \in Request BY DEF IdleRequest, Request
<1> QED BY <1>1, <1>2, AttemptsAssumption DEF Init, TypeOK, ReceiptStatus, MessageStatus

(* What an active handler holds. *)
LEMMA ActiveHandler ==
  ASSUME TypeOK, NEW d \in Deliveries
  PROVE  /\ handler[d].pc = "fetch" => handler[d].event \in EventIds
         /\ handler[d].pc \in HandlerPc =>
              /\ handler[d].event \in EventIds
              /\ handler[d].read \in Document /\ handler[d].new \in Document
  BY DEF TypeOK, Handler, IdleHandler, HandlerPc

(* A handler that goes on with documents is a handler.                     *)
LEMMA GotoType ==
  ASSUME TypeOK, NEW d \in Deliveries, handler[d].event \in EventIds,
         NEW pc \in HandlerPc, NEW read \in Document, NEW new \in Document,
         Goto(d, pc, read, new)
  PROVE  handler' \in [Deliveries -> Handler]
<1>1. [pc |-> pc, event |-> handler[d].event, read |-> read, new |-> new] \in Handler
  BY DEF Handler
<1> QED BY <1>1 DEF TypeOK, Goto

LEMMA IdleType ==
  ASSUME TypeOK, NEW d \in Deliveries, handler' = [handler EXCEPT ![d] = IdleHandler]
  PROVE  handler' \in [Deliveries -> Handler]
  BY DEF TypeOK, Handler

(* A push attempt, an acknowledgement and the dead-letter queue.           *)
LEMMA PushType ==
  ASSUME TypeOK, NEW e \in EventIds,
         Publish(e) \/ LeaseExpires(e) \/ Push(e)
  PROVE  TypeOK'
<1> USE DEF TypeOK, storeVars, subVars, history
<1>1. CASE Publish(e) BY <1>1 DEF Publish, MessageStatus
<1>2. CASE LeaseExpires(e) BY <1>2 DEF LeaseExpires, ReceiptStatus
<1>3. ASSUME NEW d \in Deliveries, Reserve(d, e) PROVE TypeOK'
  <2>1. [pc |-> "fetch", event |-> e, read |-> NoTask, new |-> NoTask] \in Handler
    BY DEF Handler
  <2> QED BY <1>3, <2>1, AttemptsAssumption DEF Reserve, CanDeliver, ReceiptStatus
<1>4. CASE IgnoreDuplicate(e)
  BY <1>4, AttemptsAssumption DEF IgnoreDuplicate, CanDeliver, Acked, MessageStatus
<1>5. CASE RefuseMalformed(e)
  BY <1>5, AttemptsAssumption DEF RefuseMalformed, CanDeliver
<1>6. CASE DeadLetter(e) BY <1>6 DEF DeadLetter, MessageStatus
<1> QED BY <1>1, <1>2, <1>3, <1>4, <1>5, <1>6 DEF Push

(* The worker's handler. *)
LEMMA HandleType ==
  ASSUME TypeOK, NEW d \in Deliveries, Handle(d) \/ HandlerFails(d)
  PROVE  TypeOK'
<1> USE DEF storeVars, subVars, history
<1>1. CASE FetchTask(d)
  <2>1. PICK next \in TaskState :
          /\ Accepts(handler[d].event, next)
          /\ \/ \E s \in RestoredSessions(task) :
                  Goto(d, "resume", task, [Advanced(task, next) EXCEPT !.session = s])
             \/ Goto(d, "checkpoint", task, Advanced(task, next))
    BY <1>1 DEF FetchTask
  <2>2. task \in Document /\ Advanced(task, next) \in Document
    BY <2>1, TaskIsDocument, AdvancedDocument DEF Accepts
  <2>3. handler[d].event \in EventIds
    BY <1>1, ActiveHandler DEF FetchTask
  <2>4. ASSUME NEW s \in RestoredSessions(task)
        PROVE  [Advanced(task, next) EXCEPT !.session = s] \in Document
    BY <2>2, RestoredSessionType, DocumentUpdate
  <2>5. handler' \in [Deliveries -> Handler]
    BY <2>1, <2>2, <2>3, <2>4, GotoType DEF HandlerPc
  <2> QED BY <1>1, <2>5 DEF FetchTask, TypeOK
<1>2. CASE RejectEvent(d)
  <2>1. handler[d].event \in EventIds BY <1>2, ActiveHandler DEF RejectEvent
  <2> QED BY <1>2, <2>1, IdleType DEF RejectEvent, TypeOK
<1>3. CASE PutResumeCheckpoint(d)
  <2>1. /\ handler[d].event \in EventIds
        /\ handler[d].read \in Document /\ handler[d].new \in Document
    BY <1>3, ActiveHandler DEF PutResumeCheckpoint, HandlerPc
  <2>2. PICK next \in TaskState :
          Goto(d, "checkpoint", handler[d].read, Advanced(handler[d].new, next))
    BY <1>3 DEF PutResumeCheckpoint
  <2>3. handler' \in [Deliveries -> Handler]
    BY <2>1, <2>2, AdvancedDocument, GotoType DEF HandlerPc
  <2> QED BY <1>3, <2>1, <2>3, CheckpointType DEF PutResumeCheckpoint, TypeOK
<1>4. CASE PutRunningCheckpoint(d)
  <2>1. /\ handler[d].event \in EventIds
        /\ handler[d].read \in Document /\ handler[d].new \in Document
    BY <1>4, ActiveHandler DEF PutRunningCheckpoint, HandlerPc
  <2>2. CheckpointOf(handler[d].new) \in Checkpoint BY <2>1, CheckpointType
  <2>3. [handler[d].new EXCEPT !.checkpoint = CheckpointOf(handler[d].new)] \in Document
    BY <2>1, <2>2, DocumentUpdate
  <2>4. handler' \in [Deliveries -> Handler]
    BY <1>4, <2>1, <2>3, GotoType DEF PutRunningCheckpoint, HandlerPc
  <2> QED BY <1>4, <2>2, <2>4 DEF PutRunningCheckpoint, TypeOK
<1>5. CASE CommitTask(d)
  <2>1. /\ handler[d].event \in EventIds
        /\ handler[d].read \in Document /\ handler[d].new \in Document
    BY <1>5, ActiveHandler DEF CommitTask, HandlerPc
  <2>2. handler' \in [Deliveries -> Handler]
    BY <1>5, <2>1, GotoType DEF CommitTask, HandlerPc
  <2> QED BY <1>5, <2>1, <2>2 DEF CommitTask, TypeOK
<1>6. CASE CommitConflict(d) BY <1>6, IdleType DEF CommitConflict, TypeOK
<1>7. CASE AppendTransitionAudit(d)
  <2>1. /\ handler[d].event \in EventIds
        /\ handler[d].read \in Document /\ handler[d].new \in Document
    BY <1>7, ActiveHandler DEF AppendTransitionAudit, HandlerPc
  <2>2. handler' \in [Deliveries -> Handler]
    BY <1>7, <2>1, GotoType DEF AppendTransitionAudit, HandlerPc
  <2>3. handler[d].read.state \in TaskState /\ handler[d].new.state \in TaskState
    BY <2>1 DEF Document
  <2> QED BY <1>7, <2>1, <2>2, <2>3 DEF AppendTransitionAudit, TypeOK
<1>8. CASE MarkComplete(d)
  <2>1. handler[d].event \in EventIds
    BY <1>8, ActiveHandler DEF MarkComplete, HandlerPc
  <2>2. sub' \in [EventIds -> MessageStatus]
    BY <1>8 DEF MarkComplete, Acked, TypeOK, MessageStatus
  <2> QED BY <1>8, <2>1, <2>2, IdleType DEF MarkComplete, TypeOK, ReceiptStatus
<1>9. CASE HandlerFails(d) BY <1>9, IdleType DEF HandlerFails, TypeOK
<1> QED BY <1>1, <1>2, <1>3, <1>4, <1>5, <1>6, <1>7, <1>8, <1>9 DEF Handle

(* A request of the control plane. *)
LEMMA RequestType ==
  ASSUME TypeOK, NEW c \in Requests, ControlPlane(c)
  PROVE  TypeOK'
<1> USE DEF storeVars, subVars, history
<1>1. ASSUME NEW pc, Begin(c, pc),
             [pc |-> pc, read |-> task] \in Request
      PROVE  TypeOK'
  BY <1>1 DEF Begin, TypeOK
<1>2. CASE ReadForQuarantine(c)
  <2>1. task \in Document
    BY <1>2, TaskIsDocument, AbsentAssumption DEF ReadForQuarantine, TaskState
  <2> QED BY <1>1, <1>2, <2>1 DEF ReadForQuarantine, Request
<1>3. CASE ReadForRelease(c)
  <2>1. task.state = "quarantined"
    BY <1>3 DEF ReadForRelease, Transition, VALID_TRANSITIONS
  <2>2. task \in Document
    BY <2>1, TaskIsDocument, AbsentAssumption DEF TaskState
  <2> QED BY <1>1, <1>3, <2>2 DEF ReadForRelease, Request
<1>4. CASE ReadForCreate(c)
  <2>1. task = NoTask
    BY <1>4, TaskIsDocument DEF ReadForCreate, TypeOK
  <2> QED BY <1>1, <1>4, <2>1 DEF ReadForCreate, Request
<1>5. IdleRequest \in Request BY DEF IdleRequest, Request
<1>6. CASE CommitRequest(c)
  <2>1. Written(c) \subseteq Document
    <3>1. request[c].read \in Document
      BY <1>6 DEF CommitRequest, TypeOK, Request
    <3>2. task \in Document
      BY <1>6, <3>1, NoTaskIsNone DEF CommitRequest, VersionMatches, TypeOK, Document
    <3>3. /\ Advanced(task, "quarantined") \in Document
          /\ Advanced(task, "resuming") \in Document
      BY <3>2, AdvancedDocument DEF TaskState
    <3>4. \A s \in IF task.session = NoSession THEN Sessions ELSE {task.session} :
            s \in SessionId
      BY <3>2 DEF Document, SessionId
    <3>5. CASE request[c].pc = "quarantine"
      BY <3>3, <3>5 DEF Written
    <3>6. CASE request[c].pc = "release"
      BY <3>3, <3>4, <3>6, DocumentUpdate DEF Written
    <3> QED BY <1>6, <3>5, <3>6 DEF CommitRequest
  <2> QED BY <1>5, <1>6, <2>1 DEF CommitRequest, TypeOK
<1>7. CASE PutNewTask(c)
  BY <1>5, <1>7, NewTaskDocument DEF PutNewTask, TypeOK
<1>8. CASE RequestConflict(c) BY <1>5, <1>8 DEF RequestConflict, TypeOK
<1>9. CASE RequestFails(c) BY <1>5, <1>9 DEF RequestFails, TypeOK
<1> QED
  BY <1>2, <1>3, <1>4, <1>6, <1>7, <1>8, <1>9 DEF ControlPlane

(* The agent runtime. *)
LEMMA RuntimeType == TypeOK /\ Runtime => TypeOK'
<1> SUFFICES ASSUME TypeOK, NEW event, NEW next \in TaskState,
                    RuntimeWaits(event, next) \/ RuntimeFinishes(event, next)
             PROVE  TypeOK'
  BY DEF Runtime
<1>1. task \in Document
  <2>1. Transition(task.state, event, next) /\ event # "cancellation"
    BY DEF RuntimeWaits, RuntimeFinishes
  <2>2. task.state \in TaskState
    BY <2>1 DEF Transition, VALID_TRANSITIONS, TaskState
  <2> QED BY <2>2, TaskIsDocument, AbsentAssumption
<1>2. Advanced(task, next) \in Document BY <1>1, AdvancedDocument
<1>3. CASE RuntimeWaits(event, next)
  <2>1. PICK s \in Sessions :
          LET new == [Advanced(task, next) EXCEPT !.session = s]
              chk == CheckpointOf(new)
          IN  /\ checkpoints' = checkpoints \cup {chk}
              /\ task' = [new EXCEPT !.checkpoint = chk]
    BY <1>3 DEF RuntimeWaits
  <2> DEFINE new == [Advanced(task, next) EXCEPT !.session = s]
  <2>2. new \in Document BY <1>2, DocumentUpdate DEF SessionId
  <2> HIDE DEF new
  <2>3. CheckpointOf(new) \in Checkpoint BY <2>2, CheckpointType
  <2>4. [new EXCEPT !.checkpoint = CheckpointOf(new)] \in Document
    BY <2>2, <2>3, DocumentUpdate
  <2>5. task' \in Document /\ checkpoints' \subseteq Checkpoint
    BY <2>1, <2>3, <2>4 DEF new, TypeOK
  <2> QED BY <1>3, <2>5 DEF RuntimeWaits, TypeOK, subVars, history
<1>4. CASE RuntimeFinishes(event, next)
  BY <1>2, <1>4 DEF RuntimeFinishes, TypeOK, subVars, history
<1> QED BY <1>3, <1>4

LEMMA NextType == TypeOK /\ [Next]_vars => TypeOK'
<1> SUFFICES ASSUME TypeOK, [Next]_vars PROVE TypeOK' OBVIOUS
<1>1. CASE UNCHANGED vars
  BY <1>1 DEF vars, storeVars, subVars, history, TypeOK
<1> QED BY <1>1, PushType, HandleType, RequestType, RuntimeType DEF Next

(* The stored documents, messages and coroutines always have their types,  *)
(* whatever the number of events, deliveries and requests.                 *)
THEOREM TypeCorrect == Spec => []TypeOK
<1> QED BY InitType, NextType, PTL DEF Spec

---------------------------------------------------------------------------
(* Optimistic concurrency. The version of the task names its content: what *)
(* a handler or a request read is either the task as it still is, or of an *)
(* older version, which the compare-and-swap refuses.                      *)

Current(read) ==
  /\ read.version <= task.version
  /\ read.version = task.version => read = task

Awaiting == {"awaiting_approval", "awaiting_webhook"}

(* What the worker may write for an event of that type to a task it read.  *)
Handled(type, read, new) ==
  \/ /\ Handles(type, read.state, new.state)
     /\ new.version = read.version + 1
  \/ /\ Handles(type, read.state, "resuming")
     /\ Transition("resuming", "runtime_restored", new.state)
     /\ new.version = read.version + 2

Working == {"resume", "checkpoint", "commit"}

HandlerOK(d) ==
  LET h == handler[d] IN
  /\ h.pc \in Working =>
       /\ Current(h.read)
       /\ h.read.state \in Awaiting => h.new.session = h.read.session
  /\ h.pc = "resume" =>
       /\ Handles(EventTypeOf(h.event), h.read.state, "resuming")
       /\ h.new.version = h.read.version + 1
  /\ h.pc \in {"checkpoint", "commit"} =>
       Handled(EventTypeOf(h.event), h.read, h.new)
  /\ h.pc = "commit" =>
       /\ h.new.checkpoint = CheckpointOf(h.new)
       /\ h.new.checkpoint \in checkpoints

RequestOK(c) ==
  LET r == request[c] IN
  /\ r.pc = "create" => task = NoTask /\ c \in Creators
  /\ r.pc \in {"quarantine", "release"} => Current(r.read)
  /\ r.pc = "quarantine" => r.read.state = "running"
  /\ r.pc = "release" => Transition(r.read.state, "human_released", "resuming")

CasInv ==
  /\ TypeOK
  /\ \A d \in Deliveries : HandlerOK(d)
  /\ \A c \in Requests : RequestOK(c)
  /\ CheckpointRestorable

LEMMA InitCas == Init => CasInv
<1> SUFFICES ASSUME Init PROVE CasInv OBVIOUS
<1>1. \A d \in Deliveries : HandlerOK(d)
  BY DEF Init, HandlerOK, IdleHandler, Working
<1>2. \A c \in Requests : RequestOK(c)
  BY DEF Init, RequestOK, IdleRequest
<1>3. CheckpointRestorable
  BY AbsentAssumption DEF Init, NoTask, CheckpointRestorable, TaskState
<1> QED BY <1>1, <1>2, <1>3, InitType DEF CasInv

(* Every step leaves the task alone or raises its version. *)
Raised == task' \in Document /\ task'.version > task.version

LEMMA HandlerStays ==
  ASSUME TypeOK, NEW d \in Deliveries, HandlerOK(d), handler'[d] = handler[d],
         task' = task \/ Raised, checkpoints \subseteq checkpoints'
  PROVE  HandlerOK(d)'
<1> DEFINE h == handler[d]
<1>1. h.pc \in Working => h.read \in Document
  BY ActiveHandler DEF Working, HandlerPc
<1>2. task.version \in Nat BY NoTaskIsNone DEF TypeOK, Document
<1>3. h.pc \in Working =>
        h.read.version <= task'.version /\ (h.read.version = task'.version => h.read = task')
  BY <1>1, <1>2 DEF HandlerOK, Current, Raised, Document
<1> QED BY <1>3 DEF HandlerOK, Current

LEMMA RequestStays ==
  ASSUME TypeOK, NEW c \in Requests, RequestOK(c), request'[c] = request[c],
         task' = task \/ (task \in Document /\ Raised)
  PROVE  RequestOK(c)'
<1> DEFINE r == request[c]
<1>1. r.pc \in {"quarantine", "release"} => r.read \in Document
  BY DEF TypeOK, Request
<1>2. task.version \in Nat BY NoTaskIsNone DEF TypeOK, Document
<1>3. r.pc \in {"quarantine", "release"} =>
        r.read.version <= task'.version /\ (r.read.version = task'.version => r.read = task')
  BY <1>1, <1>2 DEF RequestOK, Current, Raised, Document
<1>4. r.pc = "create" => task' = NoTask /\ c \in Creators
  BY NoTaskIsNone DEF RequestOK
<1> QED BY <1>3, <1>4 DEF RequestOK, Current

LEMMA RestorableStays ==
  ASSUME CheckpointRestorable, task' = task, checkpoints \subseteq checkpoints'
  PROVE  CheckpointRestorable'
  BY DEF CheckpointRestorable

(* The handler that moved is where Goto says, and the others stayed.       *)
LEMMA GotoIs ==
  ASSUME TypeOK, NEW d \in Deliveries, NEW pc, NEW read, NEW new,
         Goto(d, pc, read, new)
  PROVE  /\ handler'[d].pc = pc /\ handler'[d].event = handler[d].event
         /\ handler'[d].read = read /\ handler'[d].new = new
         /\ \A x \in Deliveries \ {d} : handler'[x] = handler[x]
  BY DEF TypeOK, Goto

(* A step that leaves the task alone and moves one handler. *)
LEMMA HandlerMoves ==
  ASSUME CasInv, TypeOK', NEW d \in Deliveries, HandlerOK(d)',
         \A x \in Deliveries \ {d} : handler'[x] = handler[x],
         UNCHANGED <<task, request>>, checkpoints \subseteq checkpoints'
  PROVE  CasInv'
  BY HandlerStays, RequestStays, RestorableStays DEF CasInv

LEMMA HandlerStops ==
  ASSUME CasInv, TypeOK', NEW d \in Deliveries,
         handler' = [handler EXCEPT ![d] = IdleHandler],
         UNCHANGED <<task, request, checkpoints>>
  PROVE  CasInv'
<1>1. HandlerOK(d)' BY DEF HandlerOK, IdleHandler, Working, CasInv, TypeOK
<1>2. \A x \in Deliveries \ {d} : handler'[x] = handler[x]
  BY DEF CasInv, TypeOK
<1> QED BY <1>1, <1>2, HandlerMoves

(* A session is restored from the checkpoint of a task that waits.         *)
LEMMA FetchCas ==
  ASSUME CasInv, TypeOK', NEW d \in Deliveries, FetchTask(d)
  PROVE  CasInv'
<1> USE DEF storeVars, subVars, history
<1> DEFINE type == EventTypeOf(handler[d].event)
<1>1. PICK next \in TaskState :
        /\ Accepts(handler[d].event, next)
        /\ IF next = "resuming"
           THEN \E s \in RestoredSessions(task) :
                  Goto(d, "resume", task, [Advanced(task, next) EXCEPT !.session = s])
           ELSE Goto(d, "checkpoint", task, Advanced(task, next))
  BY DEF FetchTask
<1>2. task \in Document BY <1>1, TaskIsDocument DEF Accepts, CasInv
<1>3. Handles(type, task.state, next) BY <1>1 DEF Accepts
<1>4. UNCHANGED <<task, request, checkpoints>> BY DEF FetchTask
<1>5. Current(task)' BY <1>2, <1>4 DEF Current, Document
<1>6. Advanced(task, next) \in Document
  BY <1>2, AdvancedDocument
<1>7. CASE next = "resuming"
  <2>1. PICK s \in RestoredSessions(task) :
          Goto(d, "resume", task, [Advanced(task, next) EXCEPT !.session = s])
    BY <1>1, <1>7
  <2> DEFINE new == [Advanced(task, next) EXCEPT !.session = s]
  <2>2. new.version = task.version + 1 /\ new.session = s
    BY <1>2, <1>6, AdvancedDocument DEF Document
  <2>3. task.state \in Awaiting => s = task.session
    <3>1. SUFFICES ASSUME task.state \in Awaiting PROVE s = task.session
      OBVIOUS
    <3>2. task.checkpoint = CheckpointOf(task)
      BY <3>1 DEF CasInv, CheckpointRestorable, Awaiting
    <3>3. task.checkpoint \in checkpoints
      BY <1>2, <3>2, CheckpointType, NoCheckpointAssumption
      DEF CasInv, CheckpointRestorable
    <3>4. RestoredSessions(task) = {task.session}
      BY <3>2, <3>3 DEF RestoredSessions, CheckpointOf
    <3> QED BY <2>1, <3>4
  <2> HIDE DEF new
  <2>4. Goto(d, "resume", task, new) BY <2>1 DEF new
  <2>5. HandlerOK(d)'
    BY <1>3, <1>4, <1>5, <1>7, <2>2, <2>3, <2>4, GotoIs DEF HandlerOK, Working, CasInv
  <2> QED BY <1>4, <2>4, <2>5, GotoIs, HandlerMoves DEF CasInv
<1>8. CASE next # "resuming"
  <2>1. Goto(d, "checkpoint", task, Advanced(task, next)) BY <1>1, <1>8
  <2>2. Handled(type, task, Advanced(task, next))
    BY <1>2, <1>3, AdvancedDocument DEF Handled
  <2>3. Advanced(task, next).session = task.session BY <1>2, AdvancedDocument
  <2>4. HandlerOK(d)'
    BY <1>4, <1>5, <2>1, <2>2, <2>3, GotoIs DEF HandlerOK, Working, CasInv
  <2> QED BY <1>4, <2>1, <2>4, GotoIs, HandlerMoves DEF CasInv
<1> QED BY <1>7, <1>8

LEMMA PutResumeCas ==
  ASSUME CasInv, TypeOK', NEW d \in Deliveries, PutResumeCheckpoint(d)
  PROVE  CasInv'
<1> USE DEF storeVars, subVars, history
<1> DEFINE h == handler[d]
<1>1. PICK next \in TaskState :
        /\ Transition("resuming", "runtime_restored", next)
        /\ Goto(d, "checkpoint", h.read, Advanced(h.new, next))
  BY DEF PutResumeCheckpoint
<1>2. h.read \in Document /\ h.new \in Document
  BY ActiveHandler DEF PutResumeCheckpoint, HandlerPc, CasInv
<1>3. /\ UNCHANGED <<task, request>>
      /\ checkpoints \subseteq checkpoints'
      /\ h.pc = "resume"
  BY DEF PutResumeCheckpoint
<1>4. Handled(EventTypeOf(h.event), h.read, Advanced(h.new, next))
  BY <1>1, <1>2, <1>3, AdvancedDocument DEF CasInv, HandlerOK, Handled, Document
<1>5. h.read.state \in Awaiting => Advanced(h.new, next).session = h.read.session
  BY <1>2, <1>3, AdvancedDocument DEF CasInv, HandlerOK, Working
<1>6. Current(h.read) BY <1>3 DEF CasInv, HandlerOK, Working
<1>7. HandlerOK(d)'
  BY <1>1, <1>3, <1>4, <1>5, <1>6, GotoIs DEF HandlerOK, Working, CasInv, Current
<1> QED BY <1>1, <1>3, <1>7, GotoIs, HandlerMoves DEF CasInv

LEMMA PutRunningCas ==
  ASSUME CasInv, TypeOK', NEW d \in Deliveries, PutRunningCheckpoint(d)
  PROVE  CasInv'
<1> USE DEF storeVars, subVars, history
<1> DEFINE h == handler[d]
           new == [h.new EXCEPT !.checkpoint = CheckpointOf(h.new)]
<1>1. /\ UNCHANGED <<task, request>>
      /\ checkpoints' = checkpoints \cup {CheckpointOf(h.new)}
      /\ h.pc = "checkpoint" /\ Goto(d, "commit", h.read, new)
  BY DEF PutRunningCheckpoint
<1>2. h.read \in Document /\ h.new \in Document
  BY <1>1, ActiveHandler DEF HandlerPc, CasInv
<1>3. /\ new.state = h.new.state /\ new.version = h.new.version
      /\ new.session = h.new.session /\ new.checkpoint = CheckpointOf(h.new)
  BY <1>2 DEF Document
<1> HIDE DEF new
<1>4. CheckpointOf(new) = CheckpointOf(h.new) BY <1>3 DEF CheckpointOf
<1>5. /\ Current(h.read) /\ Handled(EventTypeOf(h.event), h.read, h.new)
      /\ h.read.state \in Awaiting => h.new.session = h.read.session
  BY <1>1 DEF CasInv, HandlerOK, Working
<1>6. Handled(EventTypeOf(h.event), h.read, new) BY <1>3, <1>5 DEF Handled
<1>7. HandlerOK(d)'
  BY <1>1, <1>3, <1>4, <1>5, <1>6, GotoIs DEF HandlerOK, Working, CasInv, Current
<1> QED BY <1>1, <1>7, GotoIs, HandlerMoves DEF CasInv

(* The compare-and-swap writes over the task that was read.                *)
LEMMA CommitCas ==
  ASSUME CasInv, TypeOK', NEW d \in Deliveries, CommitTask(d)
  PROVE  /\ CasInv'
         /\ task = handler[d].read /\ task \in Document
         /\ Handled(EventTypeOf(handler[d].event), task, task')
         /\ task.state \in Awaiting => task'.session = task.session
<1> USE DEF storeVars, subVars, history
<1> DEFINE h == handler[d]
<1>1. /\ h.pc = "commit" /\ task.version = h.read.version
      /\ task' = h.new /\ UNCHANGED <<request, checkpoints>>
      /\ Goto(d, "audit", h.read, h.new)
  BY DEF CommitTask, VersionMatches
<1>2. h.read \in Document /\ h.new \in Document
  BY <1>1, ActiveHandler DEF HandlerPc, CasInv
<1>3. task = h.read
  BY <1>1 DEF CasInv, HandlerOK, Working, Current
<1>4. Handled(EventTypeOf(h.event), task, task')
  BY <1>1, <1>3 DEF CasInv, HandlerOK
<1>5. task \in Document /\ Raised
  BY <1>1, <1>2, <1>3, <1>4 DEF Handled, Raised, Document
<1>6. HandlerOK(d)'
  BY <1>1, GotoIs DEF HandlerOK, Working, CasInv
<1>7. \A x \in Deliveries : HandlerOK(x)'
  BY <1>1, <1>5, <1>6, GotoIs, HandlerStays DEF CasInv
<1>8. \A c \in Requests : RequestOK(c)'
  BY <1>1, <1>5, RequestStays DEF CasInv
<1>9. CheckpointRestorable'
  <2>1. task'.checkpoint = CheckpointOf(task') /\ task'.checkpoint \in checkpoints'
    BY <1>1 DEF CasInv, HandlerOK
  <2>2. CheckpointOf(task').session = task'.session BY DEF CheckpointOf
  <2> QED BY <2>1, <2>2 DEF CheckpointRestorable, CheckpointOf
<1>10. task.state \in Awaiting => task'.session = task.session
  BY <1>1, <1>3 DEF CasInv, HandlerOK, Working
<1> QED BY <1>3, <1>4, <1>5, <1>7, <1>8, <1>9, <1>10 DEF CasInv

LEMMA HandleCas ==
  ASSUME CasInv, TypeOK', NEW d \in Deliveries, Handle(d) \/ HandlerFails(d)
  PROVE  CasInv'
<1> USE DEF storeVars, subVars, history
<1>1. CASE RejectEvent(d) BY <1>1, HandlerStops DEF RejectEvent
<1>2. CASE CommitConflict(d) BY <1>2, HandlerStops DEF CommitConflict
<1>3. CASE AppendTransitionAudit(d)
  <2>1. /\ Goto(d, "complete", handler[d].read, handler[d].new)
        /\ UNCHANGED <<task, request, checkpoints>>
    BY <1>3 DEF AppendTransitionAudit
  <2>2. HandlerOK(d)' BY <2>1, GotoIs DEF HandlerOK, Working, CasInv
  <2> QED BY <2>1, <2>2, GotoIs, HandlerMoves DEF CasInv
<1>4. CASE MarkComplete(d) BY <1>4, HandlerStops DEF MarkComplete
<1>5. CASE HandlerFails(d) BY <1>5, HandlerStops DEF HandlerFails
<1> QED
  BY <1>1, <1>2, <1>3, <1>4, <1>5, FetchCas, PutResumeCas, PutRunningCas, CommitCas
  DEF Handle

(* The subscription touches the task through the worker only.              *)
LEMMA PushCas ==
  ASSUME CasInv, TypeOK', NEW e \in EventIds,
         Publish(e) \/ LeaseExpires(e) \/ Push(e)
  PROVE  CasInv'
<1> USE DEF storeVars, subVars, history
<1>1. ASSUME NEW d \in Deliveries, Reserve(d, e) PROVE CasInv'
  <2>1. handler' = [handler EXCEPT ![d] =
                     [pc |-> "fetch", event |-> e, read |-> NoTask, new |-> NoTask]]
    BY <1>1 DEF Reserve
  <2>2. HandlerOK(d)' BY <2>1 DEF HandlerOK, Working, CasInv, TypeOK
  <2>3. \A x \in Deliveries \ {d} : handler'[x] = handler[x]
    BY <2>1 DEF CasInv, TypeOK
  <2> QED BY <1>1, <2>2, <2>3, HandlerMoves DEF Reserve
<1>2. ASSUME UNCHANGED <<task, checkpoints, handler, request>> PROVE CasInv'
  BY <1>2, HandlerStays, RequestStays, RestorableStays DEF CasInv
<1> QED
  BY <1>1, <1>2
  DEF Publish, LeaseExpires, Push, IgnoreDuplicate, RefuseMalformed, DeadLetter

---------------------------------------------------------------------------
(* What the control plane and the runtime do to the task. *)

(* A quarantine or release that commits writes over the task that was read.*)
LEMMA CommitRequestCas ==
  ASSUME CasInv, TypeOK', NEW c \in Requests, CommitRequest(c)
  PROVE  /\ CasInv'
         /\ task \in Document /\ task'.version = task.version + 1
         /\ \E event \in TaskEvent : Transition(task.state, event, task'.state)
         /\ task.state \notin Awaiting
<1> USE DEF storeVars, subVars, history
<1> DEFINE r == request[c]
<1>1. /\ r.pc \in {"quarantine", "release"} /\ task.version = r.read.version
      /\ task' \in Written(c)
      /\ request' = [request EXCEPT ![c] = IdleRequest]
      /\ UNCHANGED <<handler, checkpoints>>
  BY DEF CommitRequest, VersionMatches
<1>2. task = r.read /\ task \in Document
  BY <1>1 DEF CasInv, RequestOK, Current, TypeOK, Request
<1>3. /\ Advanced(task, "quarantined").state = "quarantined"
      /\ Advanced(task, "quarantined").version = task.version + 1
      /\ Advanced(task, "quarantined").session = task.session
      /\ Advanced(task, "quarantined").checkpoint = task.checkpoint
      /\ Advanced(task, "resuming") \in Document
      /\ Advanced(task, "resuming").state = "resuming"
      /\ Advanced(task, "resuming").version = task.version + 1
      /\ Advanced(task, "resuming").checkpoint = task.checkpoint
  BY <1>2, AdvancedDocument DEF TaskState
<1>4. \A s : LET u == [Advanced(task, "resuming") EXCEPT !.session = s] IN
        u.state = "resuming" /\ u.version = task.version + 1 /\ u.checkpoint = task.checkpoint
  BY <1>3 DEF Document
<1>5. ASSUME r.pc = "quarantine"
      PROVE  /\ task'.version = task.version + 1 /\ CheckpointRestorable'
             /\ \E event \in TaskEvent : Transition(task.state, event, task'.state)
             /\ task.state \notin Awaiting
  <2>1. task.state = "running" BY <1>2, <1>5 DEF CasInv, RequestOK
  <2>2. task' = Advanced(task, "quarantined") BY <1>1, <1>5 DEF Written
  <2>3. Transition(task.state, "security_event", task'.state)
    BY <1>3, <2>1, <2>2 DEF Transition, VALID_TRANSITIONS
  <2>4. CheckpointRestorable'
    BY <1>1, <1>3, <2>1, <2>2 DEF CasInv, CheckpointRestorable, CheckpointOf
  <2>5. \E event \in TaskEvent : Transition(task.state, event, task'.state)
    BY <2>3 DEF TaskEvent
  <2> QED BY <1>2, <1>3, <2>1, <2>2, <2>4, <2>5 DEF Awaiting
<1>6. ASSUME r.pc = "release"
      PROVE  /\ task'.version = task.version + 1 /\ CheckpointRestorable'
             /\ \E event \in TaskEvent : Transition(task.state, event, task'.state)
             /\ task.state \notin Awaiting
  <2>1. Transition(task.state, "human_released", "resuming")
    BY <1>2, <1>6 DEF CasInv, RequestOK
  <2>2. /\ task'.state = "resuming" /\ task'.version = task.version + 1
        /\ task'.checkpoint = task.checkpoint
    <3>1. PICK s : task' = [Advanced(task, "resuming") EXCEPT !.session = s]
      BY <1>1, <1>6 DEF Written
    <3> QED BY <1>4, <3>1
  <2>3. CheckpointRestorable'
    BY <1>1, <2>2 DEF CasInv, CheckpointRestorable
  <2>4. task.state \notin Awaiting
    BY <2>1 DEF Transition, VALID_TRANSITIONS, Awaiting
  <2>5. \E event \in TaskEvent : Transition(task.state, event, task'.state)
    BY <2>1, <2>2 DEF TaskEvent
  <2> QED BY <1>2, <2>2, <2>3, <2>4, <2>5
<1>7. task' \in Document
  BY <1>2, <1>5, <1>6, <1>1, NoTaskIsNone DEF TypeOK, Document
<1>8. Raised BY <1>1, <1>2, <1>5, <1>6, <1>7 DEF Raised, Document
<1>9. \A d \in Deliveries : HandlerOK(d)'
  BY <1>1, <1>8, HandlerStays DEF CasInv
<1>10. \A x \in Requests : RequestOK(x)'
  <2>1. ASSUME NEW x \in Requests, x # c PROVE RequestOK(x)'
    BY <1>1, <1>2, <1>8, <2>1, RequestStays DEF CasInv, TypeOK
  <2>2. RequestOK(c)' BY <1>1 DEF RequestOK, IdleRequest, CasInv, TypeOK
  <2> QED BY <2>1, <2>2
<1> QED BY <1>1, <1>2, <1>5, <1>6, <1>9, <1>10 DEF CasInv

(* With one creator at a time, a new task is put where there was none.     *)
LEMMA PutNewTaskCas ==
  ASSUME SoleCreator, CasInv, TypeOK', NEW c \in Requests, PutNewTask(c)
  PROVE  CasInv' /\ task = NoTask /\ task' = NewTask
<1> USE DEF storeVars, subVars, history
<1>1. /\ request[c].pc = "create" /\ task' = NewTask
      /\ request' = [request EXCEPT ![c] = IdleRequest]
      /\ UNCHANGED <<handler, checkpoints>>
  BY DEF PutNewTask
<1>2. task = NoTask BY <1>1 DEF CasInv, RequestOK
<1>3. Raised BY <1>1, <1>2, NewTaskDocument, NoTaskIsNone DEF Raised
<1>4. \A d \in Deliveries : HandlerOK(d)'
  BY <1>1, <1>3, HandlerStays DEF CasInv
<1>5. \A x \in Requests : RequestOK(x)'
  <2>1. RequestOK(c)' BY <1>1 DEF RequestOK, IdleRequest, CasInv, TypeOK
  <2>2. ASSUME NEW x \in Requests, x # c PROVE RequestOK(x)'
    <3>1. request'[x] = request[x] BY <1>1, <2>2 DEF CasInv, TypeOK
    <3>2. request[x].pc # "create"
      BY <1>1, <2>2 DEF SoleCreator, CasInv, RequestOK
    <3>3. request[x].pc \notin {"quarantine", "release"}
      <4>1. request[x].pc \in {"quarantine", "release"} => request[x].read.version # 0
        BY DEF CasInv, TypeOK, Request, Document
      <4>2. request[x].pc \in {"quarantine", "release"} => request[x].read.version <= 0
        BY <1>2, NoTaskIsNone DEF CasInv, RequestOK, Current
      <4>3. request[x].pc \in {"quarantine", "release"} => request[x].read.version \in Nat
        BY DEF CasInv, TypeOK, Request, Document
      <4> QED BY <4>1, <4>2, <4>3
    <3> QED BY <3>1, <3>2, <3>3 DEF RequestOK
  <2> QED BY <2>1, <2>2
<1>6. NewTask.checkpoint = NoCheckpoint /\ NewTask.state = "created"
  BY NewTaskDocument DEF NewTask, NoTask
<1>7. CheckpointRestorable' BY <1>1, <1>6 DEF CheckpointRestorable
<1> QED BY <1>1, <1>2, <1>4, <1>5, <1>7 DEF CasInv

LEMMA RequestCas ==
  ASSUME SoleCreator, CasInv, TypeOK', NEW c \in Requests, ControlPlane(c)
  PROVE  CasInv'
<1> USE DEF storeVars, subVars, history
<1>1. ASSUME UNCHANGED <<task, checkpoints, handler>>, RequestOK(c)',
             \A x \in Requests \ {c} : request'[x] = request[x]
      PROVE  CasInv'
  BY <1>1, HandlerStays, RequestStays, RestorableStays DEF CasInv
<1>2. ASSUME NEW pc, Begin(c, pc)
      PROVE  /\ UNCHANGED <<task, checkpoints, handler>>
             /\ request'[c].pc = pc /\ request'[c].read = task
             /\ task \in Document => Current(request[c].read)'
             /\ \A x \in Requests \ {c} : request'[x] = request[x]
  BY <1>2 DEF Begin, CasInv, TypeOK, Current, Document
<1>4. CASE ReadForQuarantine(c)
  <2>1. Begin(c, "quarantine") /\ task.state = "running"
    BY <1>4 DEF ReadForQuarantine
  <2>2. task \in Document
    BY <2>1, TaskIsDocument, AbsentAssumption DEF TaskState, CasInv
  <2>3. RequestOK(c)' BY <1>2, <2>1, <2>2 DEF RequestOK
  <2> QED BY <1>1, <1>2, <2>1, <2>3
<1>5. CASE ReadForRelease(c)
  <2>1. Begin(c, "release") /\ Transition(task.state, "human_released", "resuming")
    BY <1>5 DEF ReadForRelease
  <2>2. task.state = "quarantined"
    BY <2>1 DEF Transition, VALID_TRANSITIONS
  <2>3. task \in Document
    BY <2>2, TaskIsDocument, AbsentAssumption DEF TaskState, CasInv
  <2>4. RequestOK(c)' BY <1>2, <2>1, <2>3 DEF RequestOK
  <2> QED BY <1>1, <1>2, <2>1, <2>4
<1>6. CASE ReadForCreate(c)
  <2>1. Begin(c, "create") /\ task = NoTask /\ c \in Creators
    BY <1>6, TaskIsDocument DEF ReadForCreate, CasInv, TypeOK
  <2>2. RequestOK(c)' BY <1>2, <2>1 DEF RequestOK
  <2> QED BY <1>1, <1>2, <2>1, <2>2
<1>7. ASSUME request' = [request EXCEPT ![c] = IdleRequest],
             UNCHANGED <<task, checkpoints, handler>>
      PROVE  CasInv'
  <2>1. RequestOK(c)' BY <1>7 DEF RequestOK, IdleRequest, CasInv, TypeOK
  <2> QED BY <1>1, <1>7, <2>1 DEF CasInv, TypeOK
<1>8. CASE RequestConflict(c) BY <1>7, <1>8 DEF RequestConflict
<1>9. CASE RequestFails(c) BY <1>7, <1>9 DEF RequestFails
<1> QED
  BY <1>4, <1>5, <1>6, <1>8, <1>9, CommitRequestCas, PutNewTaskCas DEF ControlPlane

(* The runtime reads and writes in one step and stores its checkpoint first.*)
LEMMA RuntimeCas ==
  ASSUME CasInv, TypeOK', NEW event \in TaskEvent, NEW next \in TaskState,
         RuntimeWaits(event, next) \/ RuntimeFinishes(event, next)
  PROVE  /\ CasInv'
         /\ task \in Document /\ task'.version = task.version + 1
         /\ Transition(task.state, event, task'.state)
         /\ task.state = "running" /\ task'.state # "running"
<1> USE DEF storeVars, subVars, history
<1>1. /\ event \in {"approval_required", "webhook_pending",
                    "terminal_success", "terminal_failure"}
      /\ Transition(task.state, event, next)
      /\ UNCHANGED <<handler, request>> /\ checkpoints \subseteq checkpoints'
  BY DEF RuntimeWaits, RuntimeFinishes
<1>2. task.state = "running" /\ next # "running" /\ next # "quarantined"
  BY <1>1 DEF Transition, VALID_TRANSITIONS
<1>3. task \in Document
  BY <1>2, TaskIsDocument, AbsentAssumption DEF TaskState, CasInv
<1>4. /\ Advanced(task, next) \in Document
      /\ Advanced(task, next).state = next
      /\ Advanced(task, next).version = task.version + 1
      /\ Advanced(task, next).checkpoint = task.checkpoint
  BY <1>3, AdvancedDocument
<1>5. ASSUME RuntimeWaits(event, next)
      PROVE  /\ task'.state = next /\ task'.version = task.version + 1
             /\ CheckpointRestorable'
  <2>1. PICK s \in Sessions :
          LET new == [Advanced(task, next) EXCEPT !.session = s]
              chk == CheckpointOf(new)
          IN  /\ checkpoints' = checkpoints \cup {chk}
              /\ task' = [new EXCEPT !.checkpoint = chk]
    BY <1>5 DEF RuntimeWaits
  <2> DEFINE new == [Advanced(task, next) EXCEPT !.session = s]
  <2>2. new \in Document /\ new.state = next /\ new.version = task.version + 1
    BY <1>4, DocumentUpdate DEF SessionId, Document
  <2>3. /\ task' = [new EXCEPT !.checkpoint = CheckpointOf(new)]
        /\ CheckpointOf(new) \in checkpoints'
    BY <2>1
  <2> HIDE DEF new
  <2>4. /\ task'.state = new.state /\ task'.version = new.version
        /\ task'.session = new.session /\ task'.checkpoint = CheckpointOf(new)
    BY <2>2, <2>3 DEF Document
  <2>5. CheckpointOf(task') = CheckpointOf(new) BY <2>4 DEF CheckpointOf
  <2>6. CheckpointRestorable'
    BY <1>2, <2>2, <2>3, <2>4, <2>5 DEF CheckpointRestorable, CheckpointOf
  <2> QED BY <2>2, <2>4, <2>6
<1>6. ASSUME RuntimeFinishes(event, next)
      PROVE  /\ task'.state = next /\ task'.version = task.version + 1
             /\ CheckpointRestorable'
  <2>1. /\ task' = Advanced(task, next) /\ checkpoints' = checkpoints
        /\ next \in Terminal
    BY <1>2, <1>6
    DEF RuntimeFinishes, Transition, VALID_TRANSITIONS, Terminal
  <2>2. CheckpointRestorable'
    BY <1>4, <2>1 DEF CasInv, CheckpointRestorable, Terminal
  <2> QED BY <1>4, <2>1, <2>2
<1>7. task' \in Document
  BY <1>3, <1>5, <1>6, NoTaskIsNone DEF TypeOK, Document
<1>8. Raised BY <1>3, <1>5, <1>6, <1>7 DEF Raised, Document
<1>9. \A d \in Deliveries : HandlerOK(d)'
  BY <1>1, <1>8, HandlerStays DEF CasInv
<1>10. \A c \in Requests : RequestOK(c)'
  BY <1>1, <1>3, <1>8, RequestStays DEF CasInv
<1> QED BY <1>1, <1>2, <1>3, <1>5, <1>6, <1>9, <1>10 DEF CasInv

LEMMA NextCas ==
  ASSUME SoleCreator, CasInv, [Next]_vars
  PROVE  CasInv'
<1>1. TypeOK' BY NextType DEF CasInv
<1>2. CASE UNCHANGED vars
  BY <1>1, <1>2, HandlerStays, RequestStays, RestorableStays
  DEF CasInv, vars, storeVars, subVars, history
<1>3. CASE Next
  BY <1>1, <1>3, HandleCas, PushCas, RequestCas, RuntimeCas DEF Next, Runtime
<1> QED BY <1>2, <1>3

LEMMA CasCorrect ==
  ASSUME SoleCreator
  PROVE  Spec => []CasInv
<1>1. CasInv /\ [Next]_vars => CasInv' BY NextCas
<1> QED BY InitCas, <1>1, PTL DEF Spec

(* In every reachable state the checkpoint a task names is stored and is   *)
(* that of the version that runs or waits, so that a cold worker can go on.*)
THEOREM CheckpointsRestorable ==
  ASSUME SoleCreator
  PROVE  Spec => []CheckpointRestorable
<1>1. CasInv => CheckpointRestorable BY DEF CasInv
<1> QED BY <1>1, CasCorrect, PTL

---------------------------------------------------------------------------
(* What a step does to the task, seen by its readers. *)

TaskChange ==
  \/ UNCHANGED task
  \/ task = NoTask /\ task' = NewTask
  \/ /\ task \in Document
     /\ task.state \in Awaiting /\ task'.state = "running" =>
          task'.session = task.session
     /\ \/ /\ \E event \in TaskEvent : Transition(task.state, event, task'.state)
           /\ task'.version = task.version + 1
        \/ /\ \E event \in TaskEvent : Transition(task.state, event, "resuming")
           /\ Transition("resuming", "runtime_restored", task'.state)
           /\ task'.version = task.version + 2

LEMMA TaskSteps ==
  ASSUME SoleCreator, CasInv, [Next]_vars
  PROVE  TaskChange
<1> USE DEF storeVars, subVars, history
<1>1. TypeOK' BY NextType DEF CasInv
<1>2. CASE UNCHANGED vars BY <1>2 DEF vars, TaskChange
<1>3. ASSUME NEW e \in EventIds, Publish(e) \/ LeaseExpires(e) \/ Push(e)
      PROVE  TaskChange
  BY <1>3 DEF Publish, LeaseExpires, Push, Reserve, IgnoreDuplicate,
              RefuseMalformed, DeadLetter, TaskChange
<1>4. ASSUME NEW d \in Deliveries, CommitTask(d) PROVE TaskChange
  <2>1. /\ task \in Document
        /\ Handled(EventTypeOf(handler[d].event), task, task')
        /\ task.state \in Awaiting => task'.session = task.session
    BY <1>1, <1>4, CommitCas
  <2>2. handler[d].event \in EventIds
    BY <1>4, ActiveHandler DEF CommitTask, HandlerPc, CasInv
  <2>3. ResolveTaskEvent(EventTypeOf(handler[d].event), task.state) \in TaskEvent
    BY <2>2, ResolvedEvent
  <2> QED BY <2>1, <2>3 DEF Handled, Handles, TaskChange
<1>5. ASSUME NEW d \in Deliveries, Handle(d) \/ HandlerFails(d), ~CommitTask(d)
      PROVE  TaskChange
  BY <1>5 DEF Handle, FetchTask, RejectEvent, PutResumeCheckpoint,
              PutRunningCheckpoint, CommitConflict, AppendTransitionAudit,
              MarkComplete, HandlerFails, TaskChange
<1>6. ASSUME NEW c \in Requests, ControlPlane(c) PROVE TaskChange
  <2>1. CASE CommitRequest(c)
    BY <1>1, <2>1, CommitRequestCas DEF TaskChange
  <2>2. CASE PutNewTask(c) BY <1>1, <2>2, PutNewTaskCas DEF TaskChange
  <2> QED
    BY <1>6, <2>1, <2>2
    DEF ControlPlane, ReadForQuarantine, ReadForRelease, ReadForCreate, Begin,
        RequestConflict, RequestFails, TaskChange
<1>7. CASE Runtime
  <2>1. PICK event \in TaskEvent, next \in TaskState :
          RuntimeWaits(event, next) \/ RuntimeFinishes(event, next)
    BY <1>7 DEF Runtime
  <2> QED BY <1>1, <2>1, RuntimeCas DEF TaskChange
<1> QED BY <1>2, <1>3, <1>4, <1>5, <1>6, <1>7 DEF Next

(* However handlers, quarantines, releases and the runtime interleave, the *)
(* stored task follows the state machine, one version for each transition. *)
THEOREM TaskRefinement ==
  ASSUME SoleCreator
  PROVE  Spec => RefinesTaskMachine
<1>0. /\ TM!TaskEvent = TaskEvent
      /\ \A s, event, next : TM!Transition(s, event, next) <=> Transition(s, event, next)
  BY DEF TM!TaskEvent, TaskEvent, TM!Transition, Transition, TM!VALID_TRANSITIONS,
         VALID_TRANSITIONS, TM!Terminal, Terminal
<1>1. Init => TM!Init
  BY NoTaskIsNone DEF Init, TM!Init
<1>2. CasInv /\ [Next]_vars => [TM!Next]_(TM!vars)
  <2> SUFFICES ASSUME CasInv, [Next]_vars PROVE [TM!Next]_(TM!vars)
    OBVIOUS
  <2>1. TaskChange BY TaskSteps
  <2>2. CASE UNCHANGED task BY <2>2 DEF TM!vars
  <2>3. CASE task = NoTask /\ task' = NewTask
    BY <2>3, NoTaskIsNone, NewTaskDocument DEF TM!Next, TM!Create
  <2>4. ASSUME task \in Document,
               NEW event \in TaskEvent, Transition(task.state, event, task'.state),
               task'.version = task.version + 1
        PROVE  TM!Next
    <3>1. task.state # Absent BY <2>4, TaskIsDocument DEF CasInv
    <3>2. TM!Step BY <1>0, <2>4, <3>1 DEF TM!Step
    <3> QED BY <3>2 DEF TM!Next
  <2>5. ASSUME task \in Document,
               NEW event \in TaskEvent, Transition(task.state, event, "resuming"),
               Transition("resuming", "runtime_restored", task'.state),
               task'.version = task.version + 2
        PROVE  TM!Next
    <3>1. task.state # Absent BY <2>5, TaskIsDocument DEF CasInv
    <3>2. TM!Resume BY <1>0, <2>5, <3>1 DEF TM!Resume
    <3> QED BY <3>2 DEF TM!Next
  <2> QED BY <2>1, <2>2, <2>3, <2>4, <2>5 DEF TaskChange
<1> QED BY <1>1, <1>2, CasCorrect, PTL DEF Spec, RefinesTaskMachine, TM!Spec

(* A resumed task goes on in the session it waited in, whichever handler   *)
(* resumes it and whatever happened since that handler read it.            *)
THEOREM ResumeSession ==
  ASSUME SoleCreator
  PROVE  Spec => ResumeKeepsSession
<1> DEFINE Keeps == task.state \in {"awaiting_approval", "awaiting_webhook"}
                    /\ task'.state = "running" => task'.session = task.session
<1>1. CasInv /\ [Next]_vars => [Keeps]_vars
  <2> SUFFICES ASSUME CasInv, [Next]_vars PROVE [Keeps]_vars OBVIOUS
  <2>1. TaskChange BY TaskSteps
  <2>2. NoTask.state \notin Awaiting
    BY NoTaskIsNone, AbsentAssumption DEF Awaiting, TaskState
  <2> QED BY <2>1, <2>2 DEF TaskChange, Awaiting
<1> QED BY <1>1, CasCorrect, PTL DEF Spec, ResumeKeepsSession

---------------------------------------------------------------------------
(* A task is started once: a start that was applied has taken the task out *)
(* of "created" for good, and only a task read in "created" is started.    *)

Started(e) == IsStart(e) /\ applied[e] > 0

StartInv ==
  /\ CasInv
  /\ StartAppliedOnce
  /\ \A e \in EventIds : Started(e) => task.state \notin {Absent, "created"}

(* Only the worker's commit counts an event as applied. *)
LEMMA AppliedSteps ==
  ASSUME [Next]_vars
  PROVE  applied' = applied \/ \E d \in Deliveries : CommitTask(d)
  BY DEF Next, vars, storeVars, subVars, history, Publish, LeaseExpires, Push, Reserve,
         IgnoreDuplicate, RefuseMalformed, DeadLetter, Handle, FetchTask, RejectEvent,
         PutResumeCheckpoint, PutRunningCheckpoint, CommitConflict,
         AppendTransitionAudit, MarkComplete, HandlerFails, ControlPlane,
         ReadForQuarantine, ReadForRelease, ReadForCreate, Begin, CommitRequest,
         PutNewTask, RequestConflict, RequestFails, Runtime, RuntimeWaits,
         RuntimeFinishes

(* A task that has left "created" does not come back to it. *)
LEMMA NeverCreatedAgain ==
  ASSUME CasInv, TaskChange, task.state \notin {Absent, "created"}
  PROVE  task'.state \notin {Absent, "created"}
<1>1. \A s, event, next : Transition(s, event, next) => next \notin {Absent, "created"}
  BY TransitionTarget, AbsentAssumption
<1> QED BY <1>1, NoTaskIsNone DEF TaskChange

LEMMA StartsFromCreated ==
  ASSUME NEW e \in EventIds, IsStart(e), NEW t, NEW u,
         Handled(EventTypeOf(e), t, u)
  PROVE  t.state = "created" /\ u.state = "running"
  BY DEF IsStart, Handled, Handles, ResolveTaskEvent, Transition, VALID_TRANSITIONS

(* However often its start events are published, redelivered or taken up   *)
(* again after a crash, a task is started at most once.                    *)
THEOREM StartOnce ==
  ASSUME SoleCreator
  PROVE  Spec => []StartAppliedOnce
<1>1. Init => StartInv
  BY InitCas DEF Init, StartInv, StartAppliedOnce, Started
<1>2. StartInv /\ [Next]_vars => StartInv'
  <2> SUFFICES ASSUME StartInv, [Next]_vars PROVE StartInv'
    OBVIOUS
  <2>1. CasInv /\ CasInv' BY NextCas DEF StartInv
  <2>2. TaskChange BY <2>1, TaskSteps
  <2>3. task.state \notin {Absent, "created"} => task'.state \notin {Absent, "created"}
    BY <2>1, <2>2, NeverCreatedAgain
  <2>4. CASE applied' = applied
    BY <2>1, <2>3, <2>4 DEF StartInv, StartAppliedOnce, Started
  <2>5. ASSUME NEW d \in Deliveries, CommitTask(d) PROVE StartInv'
    <3> DEFINE x == handler[d].event
    <3>1. x \in EventIds /\ applied' = [applied EXCEPT ![x] = @ + 1]
      BY <2>1, <2>5, ActiveHandler DEF CommitTask, HandlerPc, CasInv
    <3>2. applied \in [EventIds -> Nat] BY <2>1 DEF CasInv, TypeOK
    <3>3. Handled(EventTypeOf(x), task, task')
      BY <2>1, <2>5, CommitCas DEF CasInv
    <3>4. CASE IsStart(x)
      <4>1. task.state = "created" /\ task'.state = "running"
        BY <3>1, <3>3, <3>4, StartsFromCreated
      <4>2. \A e \in EventIds : IsStart(e) => applied[e] = 0
        BY <3>2, <4>1 DEF StartInv, Started
      <4>3. \A e \in EventIds : IsStart(e) => applied'[e] = IF e = x THEN 1 ELSE 0
        BY <3>1, <3>2, <4>2
      <4>4. "running" \notin {Absent, "created"}
        BY AbsentAssumption DEF TaskState
      <4> QED BY <2>1, <4>1, <4>3, <4>4 DEF StartInv, StartAppliedOnce, Started
    <3>5. CASE ~IsStart(x)
      <4>1. \A e \in EventIds : IsStart(e) => applied'[e] = applied[e]
        BY <3>1, <3>2, <3>5
      <4> QED BY <2>1, <2>3, <4>1 DEF StartInv, StartAppliedOnce, Started
    <3> QED BY <3>4, <3>5
  <2> QED BY <2>4, <2>5, AppliedSteps
<1>3. StartInv => StartAppliedOnce BY DEF StartInv
<1> QED BY <1>1, <1>2, <1>3, PTL DEF Spec

---------------------------------------------------------------------------
(* A complete receipt. The handler that marks it has committed the event   *)
(* and appended its audit event, in that order.                            *)

DoneInv ==
  /\ TypeOK
  /\ CompleteMeansDone
  /\ \A d \in Deliveries :
       /\ handler[d].pc \in {"audit", "complete"} => applied[handler[d].event] > 0
       /\ handler[d].pc = "complete" =>
            \E a \in audit : a.event = handler[d].event

Done(e) == applied[e] > 0 /\ \E a \in audit : a.event = e

(* The counts and the audit events only grow; what the one handler that    *)
(* moved has to bring is that it has done what its pc says.                *)
LEMMA DoneStays ==
  ASSUME DoneInv, TypeOK', NEW d \in Deliveries,
         \A e \in EventIds : applied'[e] >= applied[e],
         audit \subseteq audit',
         \A e \in EventIds : receipts'[e] = "complete" =>
           receipts[e] = "complete" \/ Done(e),
         \A x \in Deliveries \ {d} : handler'[x] = handler[x],
         handler'[d].pc \in {"audit", "complete"} => applied'[handler'[d].event] > 0,
         handler'[d].pc = "complete" => \E a \in audit' : a.event = handler'[d].event
  PROVE  DoneInv'
<1>1. \A x \in Deliveries : handler[x].pc \in {"audit", "complete"} =>
        handler[x].event \in EventIds
  BY ActiveHandler DEF DoneInv, HandlerPc
<1>2. applied \in [EventIds -> Nat] /\ applied' \in [EventIds -> Nat]
  BY DEF DoneInv, TypeOK
<1>3. \A e \in EventIds : applied[e] > 0 => applied'[e] > 0 BY <1>2
<1>4. CompleteMeansDone' BY <1>3 DEF DoneInv, CompleteMeansDone, Done
<1> QED BY <1>1, <1>3, <1>4 DEF DoneInv

(* Steps of anyone but a handler. *)
LEMMA DoneElsewhere ==
  ASSUME DoneInv, TypeOK', UNCHANGED <<handler, applied, audit>>,
         \A e \in EventIds : receipts'[e] = "complete" => receipts[e] = "complete"
  PROVE  DoneInv'
  BY DEF DoneInv, CompleteMeansDone

LEMMA DonePush ==
  ASSUME DoneInv, TypeOK', NEW e \in EventIds,
         Publish(e) \/ LeaseExpires(e) \/ Push(e)
  PROVE  DoneInv'
<1> USE DEF storeVars, subVars, history
<1>1. ASSUME NEW d \in Deliveries, Reserve(d, e) PROVE DoneInv'
  <2>1. /\ handler'[d].pc = "fetch"
        /\ \A x \in Deliveries \ {d} : handler'[x] = handler[x]
        /\ \A f \in EventIds : receipts'[f] = "complete" => receipts[f] = "complete"
    BY <1>1 DEF Reserve, DoneInv, TypeOK
  <2>2. \A f \in EventIds : applied'[f] >= applied[f]
    BY <1>1 DEF Reserve, DoneInv, TypeOK
  <2> QED BY <1>1, <2>1, <2>2, DoneStays DEF Reserve
<1>2. CASE LeaseExpires(e)
  BY <1>2, DoneElsewhere DEF LeaseExpires, DoneInv, TypeOK
<1> QED
  BY <1>1, <1>2, DoneElsewhere
  DEF Publish, Push, IgnoreDuplicate, RefuseMalformed, DeadLetter

LEMMA DoneHandle ==
  ASSUME DoneInv, TypeOK', NEW d \in Deliveries, Handle(d) \/ HandlerFails(d)
  PROVE  DoneInv'
<1> USE DEF storeVars, subVars, history
<1>0. applied \in [EventIds -> Nat] BY DEF DoneInv, TypeOK
<1>1. ASSUME NEW pc, NEW read, NEW new, Goto(d, pc, read, new),
             pc \notin {"audit", "complete"}, UNCHANGED <<receipts, audit, applied>>
      PROVE  DoneInv'
  BY <1>0, <1>1, GotoIs, DoneStays DEF DoneInv
<1>2. ASSUME handler' = [handler EXCEPT ![d] = IdleHandler],
             UNCHANGED <<receipts, audit, applied>>
      PROVE  DoneInv'
  <2>1. /\ handler'[d].pc = "idle"
        /\ \A x \in Deliveries \ {d} : handler'[x] = handler[x]
    BY <1>2 DEF IdleHandler, DoneInv, TypeOK
  <2> QED BY <1>0, <1>2, <2>1, DoneStays
<1>3. CASE FetchTask(d)
  <2>1. \E next, s :
          \/ Goto(d, "resume", task, [Advanced(task, next) EXCEPT !.session = s])
          \/ Goto(d, "checkpoint", task, Advanced(task, next))
    BY <1>3 DEF FetchTask
  <2>2. UNCHANGED <<receipts, audit, applied>> BY <1>3 DEF FetchTask
  <2> QED BY <1>1, <2>1, <2>2
<1>4. CASE PutResumeCheckpoint(d) BY <1>1, <1>4 DEF PutResumeCheckpoint
<1>5. CASE PutRunningCheckpoint(d) BY <1>1, <1>5 DEF PutRunningCheckpoint
<1>6. CASE RejectEvent(d) \/ CommitConflict(d) \/ HandlerFails(d)
  BY <1>2, <1>6 DEF RejectEvent, CommitConflict, HandlerFails
<1>7. CASE CommitTask(d)
  <2>1. handler[d].event \in EventIds
    BY <1>7, ActiveHandler DEF CommitTask, HandlerPc, DoneInv
  <2>2. /\ Goto(d, "audit", handler[d].read, handler[d].new)
        /\ applied' = [applied EXCEPT ![handler[d].event] = @ + 1]
        /\ UNCHANGED <<receipts, audit>>
    BY <1>7 DEF CommitTask
  <2>3. /\ \A e \in EventIds : applied'[e] >= applied[e]
        /\ applied'[handler[d].event] > 0
    BY <1>0, <2>1, <2>2
  <2> QED BY <2>2, <2>3, GotoIs, DoneStays DEF DoneInv
<1>8. CASE AppendTransitionAudit(d)
  <2> DEFINE a == [event |-> handler[d].event, from |-> handler[d].read.state,
                   to |-> handler[d].new.state]
  <2>1. /\ Goto(d, "complete", handler[d].read, handler[d].new)
        /\ audit' = audit \cup {a} /\ UNCHANGED <<receipts, applied>>
        /\ handler[d].pc = "audit"
    BY <1>8 DEF AppendTransitionAudit
  <2>3. a \in audit' /\ a.event = handler[d].event /\ audit \subseteq audit'
    BY <2>1
  <2>2. applied[handler[d].event] > 0 BY <2>1 DEF DoneInv
  <2> HIDE DEF a
  <2> QED BY <1>0, <2>1, <2>2, <2>3, GotoIs, DoneStays DEF DoneInv
<1>9. CASE MarkComplete(d)
  <2>1. Done(handler[d].event)
    BY <1>9 DEF MarkComplete, DoneInv, Done
  <2>2. /\ handler'[d].pc = "idle"
        /\ \A x \in Deliveries \ {d} : handler'[x] = handler[x]
        /\ \A e \in EventIds : receipts'[e] = "complete" =>
             receipts[e] = "complete" \/ Done(e)
        /\ UNCHANGED <<audit, applied>>
    BY <1>9, <2>1 DEF MarkComplete, IdleHandler, DoneInv, TypeOK
  <2> QED BY <1>0, <2>2, DoneStays
<1> QED BY <1>3, <1>4, <1>5, <1>6, <1>7, <1>8, <1>9 DEF Handle

(* A receipt is complete only after its event was committed to the task    *)
(* and audited, whichever crashes and redeliveries came before.            *)
THEOREM CompleteReceipts == Spec => []CompleteMeansDone
<1>1. Init => DoneInv
  BY InitType DEF Init, DoneInv, CompleteMeansDone, IdleHandler
<1>2. DoneInv /\ [Next]_vars => DoneInv'
  <2> SUFFICES ASSUME DoneInv, [Next]_vars PROVE DoneInv' OBVIOUS
  <2>1. TypeOK' BY NextType DEF DoneInv
  <2>2. CASE UNCHANGED vars
    BY <2>1, <2>2, DoneElsewhere DEF vars, storeVars, history
  <2>3. ASSUME NEW c \in Requests, ControlPlane(c) PROVE DoneInv'
    BY <2>1, <2>3, DoneElsewhere
    DEF ControlPlane, ReadForQuarantine, ReadForRelease, ReadForCreate, Begin,
        CommitRequest, PutNewTask, RequestConflict, RequestFails,
        storeVars, subVars, history
  <2>4. CASE Runtime
    BY <2>1, <2>4, DoneElsewhere
    DEF Runtime, RuntimeWaits, RuntimeFinishes, subVars, history
  <2> QED BY <2>1, <2>2, <2>3, <2>4, DonePush, DoneHandle DEF Next
<1>3. DoneInv => CompleteMeansDone BY DEF DoneInv
<1> QED BY <1>1, <1>2, <1>3, PTL DEF Spec
=============================================================================
