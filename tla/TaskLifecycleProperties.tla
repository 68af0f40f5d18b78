---------------------- MODULE TaskLifecycleProperties ----------------------
(***************************************************************************)
(* What the task store, the control plane and the worker owe each other.   *)
(***************************************************************************)
EXTENDS TaskLifecycle

(* create_delegation puts a new task without comparing it with the one it  *)
(* read; the properties of this section hold where one request at a time   *)
(* does so, whatever the number of quarantines and releases.               *)
SoleCreator == \A c1, c2 \in Creators : c1 = c2

TM == INSTANCE TaskMachine WITH state <- task.state, version <- task.version

(* Whatever the interleaving of deliveries, quarantines, releases, crashes *)
(* and redeliveries, readers of the task see the state machine of          *)
(* policy/state_machine.py: a lost update would show as a transition the   *)
(* table does not have, or as a version that is reused.                    *)
RefinesTaskMachine == TM!Spec

IsStart(e) == EventTypeOf(e) = "task.start"

(* A task is started at most once, however often its start events are      *)
(* published, redelivered and reclaimed after a crash.                     *)
StartAppliedOnce ==
  \A e, f \in EventIds :
    IsStart(e) /\ IsStart(f) /\ applied[e] > 0 /\ applied[f] > 0 =>
      e = f /\ applied[e] = 1

(* A receipt is complete only when its event was committed to the task and *)
(* the transition has its audit event: a duplicate answered 200 because of *)
(* a complete receipt hides no unfinished work.                            *)
CompleteMeansDone ==
  \A e \in EventIds : receipts[e] = "complete" =>
    applied[e] > 0 /\ \E a \in audit : a.event = e

(* A task can be resumed by a cold worker after any crash: the checkpoint  *)
(* its document names was stored before the document did, and holds the    *)
(* session to go back to, whatever stale handlers wrote in the meantime.   *)
(* While the task runs or waits it is the checkpoint of this very version. *)
CheckpointRestorable ==
  /\ task.checkpoint # NoCheckpoint => task.checkpoint \in checkpoints
  /\ task.state \in {"running", "awaiting_approval", "awaiting_webhook"} =>
       task.checkpoint = CheckpointOf(task)
  /\ task.state = "quarantined" => task.checkpoint.session = task.session

(* A resumed task goes on in the session it waited in.                     *)
ResumeKeepsSession ==
  [][task.state \in {"awaiting_approval", "awaiting_webhook"}
     /\ task'.state = "running" => task'.session = task.session]_vars

(* No message stays on the subscription for ever: it is acknowledged or,   *)
(* after max_delivery_attempts, moved to the dead-letter topic.            *)
EventLeavesSubscription ==
  \A e \in EventIds : sub[e] = "pending" ~> sub[e] \in {"acked", "dead"}

---------------------------------------------------------------------------
(* What the repository says and the code does not do. *)

(* "return success only after durable state is written" (README.md): an    *)
(* acknowledged event has been applied, was refused for good, or a handler *)
(* is still at work on it.                                                 *)
AckedNotLost ==
  \A e \in EventIds : sub[e] = "acked" =>
    applied[e] > 0 \/ e \in rejected \/ \E d \in Deliveries : handler[d].event = e

(* A task leaves awaiting_approval on a "valid approval event"             *)
(* (RUNTIME_WORKFLOWS.md): a rejection does not resume it.                 *)
RejectionNeverApplied == \A e \in EventIds : OccasionOf[e] = "reject" => applied[e] = 0
============================================================================
