---------------------------- MODULE AuditChain ----------------------------
(***************************************************************************)
(* The hash-chained audit trail of one task.  The control plane, the       *)
(* gateway and the worker append with the same two calls: read the whole   *)
(* chain to find the head's hash, then append an event linked to it.  The  *)
(* append itself is a transaction, the pair is not.                        *)
(***************************************************************************)
EXTENDS Naturals, Sequences, FiniteSets, SequencesExt

CONSTANTS
  Events,      \* audit events, each appended by a request of its own
  MaxWriters   \* requests between their read and their append at a time

VARIABLES
  chain,     \* audit_events/{task_id}:{seq}, in the order of seq
  writer,    \* the append coroutine of each event
  reader,    \* the export_audit coroutine: the chain it read
  exported,  \* the chains uploaded to the retention bucket
  edited     \* history: has someone edited the stored chain?

vars == <<chain, writer, reader, exported, edited>>

---------------------------------------------------------------------------
(* chain.py.  SHA-256 is taken to be free of collisions: a hash stands for *)
(* what was hashed, the events from the genesis on.                        *)

Genesis == <<>>

ComputeEventHash(prev, event) == Append(prev, event)

(* Mutant: the event is hashed before it is linked. *)
FinalizeUnlinked(event, prev) ==
  [event |-> event, prev |-> prev, hash |-> ComputeEventHash(Genesis, event)]

FinalizeAuditEvent(event, prev) ==
  [event |-> event, prev |-> prev, hash |-> ComputeEventHash(prev, event)]

ExpectedPrev(c, i) == IF i = 1 THEN Genesis ELSE c[i - 1].hash

(* Mutant: only the links are compared. *)
BadLinkAt(c, i) == c[i].prev # ExpectedPrev(c, i)

InvalidAt(c, i) ==
  \/ c[i].prev # ExpectedPrev(c, i)
  \/ c[i].hash # ComputeEventHash(c[i].prev, c[i].event)

(* Mutant: only the head is verified. *)
VerifyHead(c) == \A i \in DOMAIN c : i = Len(c) => ~InvalidAt(c, i)

VerifyAuditChain(c) == \A i \in DOMAIN c : ~InvalidAt(c, i)

HeadHash(c) == IF c = <<>> THEN Genesis ELSE Last(c).hash

---------------------------------------------------------------------------
Writing == {e \in Events : writer[e].pc = "append"}

(* get_audit_events(task_id, limit=None): the chain is read in full.       *)
ReadHead(e) ==
  /\ writer[e].pc = "idle" /\ Cardinality(Writing) < MaxWriters
  /\ writer' = [writer EXCEPT ![e] = [pc |-> "append", prev |-> HeadHash(chain)]]
  /\ UNCHANGED <<chain, reader, exported, edited>>

AppendEvent(e) ==
  /\ writer[e].pc = "append"
  /\ chain' = Append(chain, FinalizeAuditEvent(e, writer[e].prev))
  /\ writer' = [writer EXCEPT ![e].pc = "done"]
  /\ UNCHANGED <<reader, exported, edited>>

(* The transaction is aborted or the instance dies before it.              *)
AppendFails(e) ==
  /\ writer[e].pc = "append"
  /\ writer' = [writer EXCEPT ![e].pc = "done"]
  /\ UNCHANGED <<chain, reader, exported, edited>>

(* export_audit reads the chain, export_chain verifies what was read.      *)
ReadForExport ==
  /\ chain # <<>>
  /\ reader' = chain
  /\ UNCHANGED <<chain, writer, exported, edited>>

(* Mutant: what was read is uploaded unverified. *)
ExportUnverified ==
  /\ reader # <<>>
  /\ exported' = exported \cup {reader}
  /\ reader' = <<>>
  /\ UNCHANGED <<chain, writer, edited>>

ExportChain ==
  /\ reader # <<>> /\ VerifyAuditChain(reader)
  /\ exported' = exported \cup {reader}
  /\ reader' = <<>>
  /\ UNCHANGED <<chain, writer, edited>>

RefuseExport ==
  /\ reader # <<>> /\ ~VerifyAuditChain(reader)
  /\ reader' = <<>>
  /\ UNCHANGED <<chain, writer, exported, edited>>

(* What the chain is there to show, done by someone with access to the     *)
(* store: an event is modified, two are swapped, or one goes missing. Only *)
(* edits of a chain that verifies are of interest.                         *)
ModifyEvent(i, event) ==
  /\ chain[i].event # event
  /\ chain' = [chain EXCEPT ![i].event = event]

SwapEvents(i, j) ==
  /\ i # j
  /\ chain' = [chain EXCEPT ![i] = chain[j], ![j] = chain[i]]

RemoveEvent(i) == chain' = RemoveAt(chain, i)

Tamper ==
  /\ VerifyAuditChain(chain) /\ edited' = TRUE
  /\ \E i \in DOMAIN chain :
       \/ \E event \in Events : ModifyEvent(i, event)
       \/ \E j \in DOMAIN chain : SwapEvents(i, j)
       \/ RemoveEvent(i)
  /\ UNCHANGED <<writer, reader, exported>>

---------------------------------------------------------------------------
Init ==
  /\ chain = <<>>
  /\ writer = [e \in Events |-> [pc |-> "idle", prev |-> Genesis]]
  /\ reader = <<>>
  /\ exported = {}
  /\ edited = FALSE

Next ==
  \/ \E e \in Events : ReadHead(e) \/ AppendEvent(e) \/ AppendFails(e)
  \/ ReadForExport \/ ExportChain \/ RefuseExport
  \/ Tamper

Spec == Init /\ [][Next]_vars

---------------------------------------------------------------------------
(* Properties. *)

(* The audit chain of a task verifies, if nobody edits it.                 *)
ChainVerifies == edited \/ VerifyAuditChain(chain)

(* Only concurrent appends and edits can break it: in a chain that does    *)
(* not verify and was not edited, two events are linked to the same head.  *)
(* Requests that append one after the other, or that fail before the       *)
(* append, leave a chain that verifies.                                    *)
InvalidOnlyByFork ==
  edited \/ VerifyAuditChain(chain) \/
  \E i, j \in DOMAIN chain : i # j /\ chain[i].prev = chain[j].prev

(* What is archived verifies, and is a prefix of the trail unless that was *)
(* edited, though the chain goes on growing between the read and the       *)
(* upload.                                                                 *)
ExportsVerify ==
  \A c \in exported : VerifyAuditChain(c) /\ (edited \/ IsPrefix(c, chain))

(* A chain that forked once never verifies again.                          *)
ForkIsPermanent == [][~VerifyAuditChain(chain) => ~VerifyAuditChain(chain')]_vars

(* Every edit of a chain that verified is found, except the loss of its    *)
(* last events: "middle event modified; order changed; missing event"      *)
(* (TESTING.md).                                                           *)
TamperEvident ==
  [][Tamper /\ VerifyAuditChain(chain) /\ VerifyAuditChain(chain') =>
       IsPrefix(chain', chain)]_vars
===========================================================================
