# Delegation Fabric in TLA+

Delegation Fabric lets a human sponsor delegate a task to an agent, and lets
the agent touch a business system only with a short-lived, signed, single-use
execution grant. These modules model the parts of the program where that
promise is kept or broken by the order in which things happen: several services
on Cloud Run, each with several instances, share one Firestore database and
receive at-least-once Pub/Sub pushes, and nearly every operation reads a
document, awaits, and writes it (or another one) later.

Short names below: CP is `apps/control_plane/main.py`, GW
`apps/execution_gateway/main.py`, WK `apps/worker/main.py`, and the store is
`packages/delegation_fabric_adapters/firestore/` (`store.py` in memory,
`firestore_store.py` on Firestore). With the in-memory store the awaits on an
uncontended lock do not yield; the interleavings modelled are those of the
Firestore store, whose calls run in threads, and of several instances.

## Inventory

| component | state it keeps | operations | status |
|---|---|---|---|
| task state machine (`policy/state_machine.py`, `models/task.py`) | none | `transition` | modelled |
| worker (WK) | event receipts, checkpoints, the task, audit events | `handle_pubsub_event` | modelled |
| control plane, tasks (CP) | the task | `create_delegation`, quarantine in `_deny`, `release_task` | modelled |
| control plane, grants (CP) | delegation, approvals, grants, audit events | `evaluate_grant`, `create_approval`, `revoke_delegation` | modelled |
| execution gateway (GW) | grants, audit events | `execute` | modelled |
| document store | all documents | transactions, single reads and unconditional puts | modelled as the atomic steps of its callers |
| audit chain and export (`audit/chain.py`, `gcs_exporter.py`) | the chain of a task, archived chains | finalize, append, verify, export | modelled |
| event publisher and push subscription (`adapters/pubsub`, Terraform) | messages, delivery attempts | publish, push, ack, dead-letter | partly |
| constraint engine | none | `evaluate_constraints`, called by CP and GW | modelled |
| response projection (`policy/projection.py`) | none | `project_fields`, called by GW | modelled |
| purpose policy, manifests (`policy/purpose.py`, `models/manifest.py`) | the policy version and manifests CP was deployed with | the lookups of `evaluate_grant` | modelled |
| semantic governance, content screening | none | three rules over tool and arguments; screening as evidence | partly: the rules, on abstract values |
| grant signing, key resolution (`adapters/kms`, `config.py`) | registered public keys, remembered failures | sign, verify, resolve, register | modelled, with signatures taken as sound |
| ERP adapters (`adapters/postgres/erp.py`) | payments, reconciliations | instruct, write, read | modelled |
| agents (`apps/agents`) | how far a workflow is | the workflows and the protected call they share | modelled, beside arbitrary other clients |
| runtime and memory ports | sessions | start, resume, store, recall | an external writer of the task |
| console, registry, metrics, tracing, seeds | none of interest | reads | not modelled |

How they interact. The agent calls `evaluate_grant`, gets a token, and presents
it to `execute`; GW re-reads the delegation and the task, consumes the grant in
a transaction, and calls the adapter. CP's `create_approval` publishes an event,
the subscription pushes it to WK, WK moves the task with a compare-and-swap on
its version and stores checkpoints for a cold resume. CP's `_deny` quarantines
a task, `release_task` takes it out, both with the same compare-and-swap;
`create_delegation` puts a new task without one. All three services append to
the audit chain of the task with two store calls: read the head, append.

What is hard here, and what the properties are for:

- a value read before an await and used after it: the task (compare-and-swap),
  the approval (no compare-and-swap), the delegation and the task in GW, the
  head of the audit chain;
- a handler that dies between any two store calls, with a receipt left leased,
  checkpoints nobody names, a grant consumed without a completion event;
- messages delivered twice, redelivered within a lease, exhausted;
- one store call of several failing: the audit append of an issued grant;
- a decision made of a dozen lookups in documents that change, in two services
  that each look at different ones, and callers that do not see which;
- keys that rotate under a process that learned them once, KMS that fails, and
  two clocks;
- a single-use credential presented by several requests at a time.

`PROJECT.json` lists every hazard at its line with the properties that cover it.

What makes each component correct: the task document follows the state machine
whoever writes it, can always be resumed, and a start is applied once; a grant
goes through a single-use life and its tool runs at most once, only as
authorised, approved and audited; nothing that begins after a revocation gets
through; whatever runs is within manifest, delegation, policy and approval, and
only an offence stops a task; a genuine grant is believed whichever key signed
it; the audit chain breaks only by a fork, which no later append repairs,
and every edit of a sound chain is found.

## Modules

| module | models | checked by |
|---|---|---|
| `TaskStates` | states, events, transition table, WK's event mapping | used by all |
| `TaskMachine` | abstract: what a reader of the task document is promised | refined by `TaskLifecycle` |
| `TaskLifecycle` | one task: WK, CP's task requests, subscription, runtime | `MCTask` |
| `TaskLifecycleProperties` | its properties and its refinement mapping | `MCTask` |
| `TaskLifecycle_proofs` | theorems about it | TLAPS |
| `SingleUseGrant` | abstract: the life of an execution grant | refined by `GrantLifecycle` |
| `GrantLifecycle` | one delegation: `evaluate_grant`, approvals, revocation, GW's `execute` | `MCGrant` |
| `GrantLifecycleProperties` | its properties and its refinement mapping | `MCGrant` |
| `GrantLifecycle_proofs` | theorems about it | TLAPS |
| `AuditChain` | the audit chain of one task, its writers and its export | `MCAudit` |
| `AuditChain_proofs` | theorems about it | TLAPS |
| `ConstraintEngine` | one constraint: path lookup, operators, Python's coercions | used by `ArgumentPolicy` |
| `ArgumentPolicy` | the arguments of a grant: pinning, limits, `evaluate_constraints` in CP and GW | `MCArguments` |
| `ArgumentPolicyProperties` | its properties | `MCArguments` |
| `ArgumentPolicy_proofs` | theorems about it and `ConstraintEngine` | TLAPS |
| `Projection` | `project_fields` | used by `ToolResponse` |
| `ToolResponse` | `ArgumentPolicy` with the answer of the tool and its projection | `MCArguments` |
| `ToolResponse_proofs` | theorems about it and `Projection` | TLAPS |
| `PurposePolicy` | default manifests and policy document, lookups | used by `AgentCalls` |
| `AgentCalls` | the agents' workflows and other clients against the decisions of CP and GW | `MCAgents` |
| `AgentCallsProperties` | its properties | `MCAgents` |
| `AgentCalls_proofs` | theorems about it | TLAPS |
| `GrantVerification` | signing keys, key resolution and clocks of CP, KMS and GW | `MCKeys` |
| `GrantVerificationProperties` | its properties | `MCKeys` |
| `GrantVerification_proofs` | theorems about it | TLAPS |
| `ErpBackend` | payments and reconciliations of the file and the PostgreSQL backend | `MCErp` |
| `ErpBackend_proofs` | theorems about it | TLAPS |

Every store call is one atomic step, every await between two of them a point
where any other request may run, and every step may be the last of its request.
Handlers only touch documents of their own task (and delegation), so one of
each is modelled.

### TaskLifecycle

`task`, `checkpoints`, `receipts` and `audit` are the documents; `sub` and
`delivered` the push subscription; `handler[d]` is a `handle_pubsub_event`
coroutine with the task it read and the task it is about to write;
`request[c]` a quarantine, release or create between its read and its write.
`applied` and `rejected` are history that nothing reads.

| action | code |
|---|---|
| `Reserve`, `IgnoreDuplicate`, `RefuseMalformed` | WK steps 1-2, `reserve_event_receipt` |
| `FetchTask`, `RejectEvent` | WK: read, `_resolve_task_event`, `transition`, restore from the latest checkpoint |
| `PutResumeCheckpoint`, `PutRunningCheckpoint` | WK: the one or two `put_checkpoint` calls |
| `CommitTask`, `CommitConflict` | `mutate_task_atomic` with `expected_version` |
| `AppendTransitionAudit`, `MarkComplete` | audit append, `mark_event_complete`, the 200 answer that may be lost |
| `HandlerFails`, `LeaseExpires` | a crash or exception; more than 60 s since `first_seen_at` |
| `ReadFor...`, `CommitRequest`, `PutNewTask`, `RequestConflict`, `RequestFails` | CP's `_deny`, `release_task`, `create_delegation` |
| `RuntimeWaits`, `RuntimeFinishes` | external: the agent runtime starts a wait or ends the task |

A resume is stored as one write that makes two transitions (x to `resuming` to
`running`), so `TaskMachine` has a `Resume` step that adds 2 to the version.
A checkpoint is known by its content, since its identifier is fresh.
`PublisherLayers` is the number of base64 layers `PubSubEventPublisher.publish`
adds before push delivery adds its own: 1 in the code, with which every event
of the control plane is refused as malformed. The liveness run uses 1; the others use 0, the in-memory publisher of the tests, so that the rest
of the worker is reached.

### GrantLifecycle

One coroutine per evaluate request, named for the grant it would mint, and a
set of execute coroutines. The phases of `evaluate_grant` that look only at the
request (agent, manifest, region, purpose, constraints, screening: D to F2, H,
I; they are in `AgentCalls`) are a free choice between going on and a denial; only denials of the
phases that pass `quarantine_task` may quarantine. Arguments and approval
subjects are partial functions from keys to values. `Pinned` is the EQ
constraint the control plane derives from each scalar argument; all keys of the
instances are scalar, as those of `payment.instruct` are. Among several
candidate approvals the choice is left open. The times are one clock (no skew
between services), and `now` is captured when a request begins, as in the code.
The "expired" branch of `consume_grant_atomic` compares the same two times as
the token's `exp` check and cannot be taken. The quarantine is one step that
may also be skipped: its compare-and-swap is the one of `TaskLifecycle`.
`late` and `spent` are history: whether the delegation or task had ended when the
request began, and the approvals under which a token had been handed out by then.

### AuditChain

A hash stands for what was hashed to get it: `GENESIS_HASH` for nothing, the hash
of an event for the events up to it. So it has no collisions, and no hash goes
into itself. `ReadHead` and
`AppendEvent` are the two calls of `_append_audit` in each service, `Tamper`
one edit of a chain that verifies by someone with access to the store. `edited`
is history: once someone has edited the chain, nothing is promised of it but
that the edit is found.

### ConstraintEngine and ArgumentPolicy

A JSON value is a pair of its type and its content, because the engine is about
types: a bool is 0 or 1 and equals that number under `==`, not-a-number is a
float that equals nothing. Text has no characters: what a prefix or a pattern
matches is a relation, and a pattern that is too long or does not compile
matches nothing, which is the outcome in the code. Containers inside containers
are not compared. The keys of arguments have no dots, as those of every tool of
the gateway, so that the path of a pinned key finds that key. `Values` is the set
of the JSON values that occur: whatever a list or dict of it holds is in it again
(`ValuesAssumption`). `Steps` is the loop of `get_nested_value`: what each of the
first parts of a path leads to. `Check` is one constraint: `CheckExists` for the one
operator that asks whether a value is there, `CheckFound` for the others once it is.
`UnknownPathsDeny` walks the path again part by part and asks of each container
whether it has that key or index, `OrderedNumbers` compares the numbers themselves;
neither uses the operators it is about.

`ArgumentPolicy` is the loop of `evaluate_constraints`, one constraint a step.
`Evaluate` is phase H of `evaluate_grant` on the constraints it has just built,
`Execute` step 12 of `execute` on whatever arguments are presented, again after
each refusal; `CallElsewhere` is any other call of the function. The order of
the pinned keys, which only decides which reason is reported first, is left
open. `GrantLifecycle` keeps of all this the EQ pins and leaves the rest of the
verdict open.

### Projection and ToolResponse

The tree that `_build_projection_tree` builds of the allowed paths is the set of
those paths, and a subtree the set of what is left of them below a key; the
count of dropped fields, which nobody reads, is left out. `ToolResponse` adds a
last step to `ArgumentPolicy`: an allowed execution gets whatever an adapter may
answer, projected on the fields of the policy of the grant. `Depth` is how deep a
value nests; that it has a limit (`RecursionAssumption`) is how `json.loads` and
`_project_recursive` work, both recursive in Python. The property takes the
values before and after apart level by level (`Levels`), and speaks of the leaves
it finds, where they are and under which keys, and not of the recursion. It names the three things
the code does that "only explicitly allowed fields" does not say: a longer path
narrows a shorter one, a scalar where an object was expected leaves null, and
scalars in a list on the way to a path pass (projection.py:47, 79, 72).

### PurposePolicy and AgentCalls

One task, its delegations, approvals and grants, the runs of the three workflows,
and other clients. Each request is one step: what may happen inside it is the
subject of `GrantLifecycle`. In exchange the whole decision is here, in the
order of the code, so that a property can ask which reason it was.

| action | code |
|---|---|
| `CreateDelegation`, `EndDelegation`, `Approve` | CP: `create_delegation`, `revoke_delegation` or `expires_at` passing, `create_approval` |
| `MoveTask` | the worker and `release_task`; any transition of `TaskStates` |
| `DeployPolicy` | a revision of CP with the next policy document |
| `Deny` with `ScopeRefusal`, `PolicyRefusal`, `CallRefusal`, `Quarantine` | `evaluate_grant` phases A to A3, D to F2, G to I, and `_deny` |
| `Issue`, `BindApproval` | the grant, its approval, the answer |
| `Refuse` with `GatewayRefusal` | `execute` steps 7 to 11 |
| `Serve` | the consumption, the adapter and its result |
| `StartWorkflow`, `Workflow...`, `CallFails` | `_evaluate_and_execute` and the three `agent.py` |
| `Other...` | external: a client that asks for anything and presents its tokens with anything |

`After` is what the three workflows do with an answer. Values are abstract: an
amount is within the limit, above it or negative, a text is plain or one that
the injection rule finds. The "expired" status of a delegation stands for
`expires_at`. The approval is the first independent one in the list, and the
order of the list is left open. The answer of the last step is kept in `reply`
for the two action properties; no step reads it, so the run leaves it out of
the fingerprint (`VIEW`): the action properties are checked on every
transition, and the state properties do not mention it. Configurations differ in
whether the backend needs all arguments of a write (file and PostgreSQL do, the
built-in one does not) and whether the semantic rules are enforced.

### GrantVerification

Cloud KMS and its operator (external), CP's signer, and one life after another
of a GW process. `AskKms` begins a lookup that blocks the process's event loop
(the resolver is synchronous) until `LookupSucceeds` or `LookupFails`; time,
KMS and CP go on. A failure is remembered from the beginning of the call, as
`now` is read before it. The resolver's table of keys with its 300 s is not in
the model because it is never hit: a key that was found is registered in the
verifier, which does not ask the resolver again (docs/DEPLOYMENT_OPERATIONS.md
speaks of that lifetime). The drift is constant in a behaviour. Issuer, audience
and region are configuration and left out; the local signer is one process.
`lastDown`, `started`, `lookups` and `trusted` are history.

### ErpBackend

What the adapter call of `GrantLifecycle` does at the other end. The gateway
calls it at most once for a grant, but documents `grant_id` as the key by which
an ambiguous outcome is resolved, so here calls repeat. `key` is the grant of a
payment and the id of a reconciliation. The file backend looks up and writes
under one lock (`FileWrite`); the PostgreSQL backend inserts with `ON CONFLICT
(key) DO NOTHING` (`Insert`, or `InsertRefused` by the primary key or a foreign
key) and reads the row in a second transaction (`Select`). `CommitUnknown` is a
commit the caller does not learn of, `CallFails` a missing argument or a
connection lost between the two. `FileRestart` empties the file backend, whose
records live in one process; its instances share nothing, so one is modelled.
Any id stands for a caller's and for a fresh one. The file backend checks neither
the primary key of `schema.sql` nor its references, and the model has that.

## Runs

| run | question | bounds |
|---|---|---|
| `task_lifecycle` | Does the task document keep to the state machine, stay resumable, and hide no unfinished event, under any interleaving and crash? | a start and an approval event, 2 handlers, 1 control-plane request at a time, 2 sessions, 2 delivery attempts |
| `task_liveness` | Does every message leave the subscription? | 1 handler, 2 attempts, the double encoding of the publisher |
| `task_lost_event` | Is an acknowledged event applied, refused or in work? No. | 1 event, 2 attempts |
| `task_rejection` | Does a rejection leave the task waiting? No. | a start and a rejection |
| `grant_lifecycle` | Does a token presented twice and concurrently run its tool once, only as authorised and as a human other than the sponsor approved, and is an approval spent for every request that begins after a credential was handed out? | 2 grants evaluated at a time, 2 executions, 1 approval by either of 2 humans of either of 2 values, clock 0..2, task moves of every kind |
| `grant_double_binding` | Does an approval yield one credential when two evaluations overlap? No. | 2 grants, 1 approval |
| `audit_chain` | What can break a chain, what is archived, and is every edit found? | 4 concurrent appends, any edits |
| `audit_fork` | Does the chain always verify? No. | 2 concurrent appends |
| `argument_policy` | Does a tool run only with the scalars it was granted with and within the limits, does the engine fail closed, and does the agent get exactly its fields? | 31 requests over two keys, 4 policies, every operator with 13 operands on 12 paths of 7 documents, answers that nest objects and lists under paths that overlap |
| `erp_writes` | Is a payment made once, and does every call learn which? | 3 calls, 2 grants, 3 ids, a known and an unknown batch, 2 restarts |
| `key_rotation` | Is a genuine grant believed through rotation, outages, restarts and clock drift, and is KMS spared? | 2 key versions, 2 tokens, life 2, tolerance 1, memory of failures 2, drift up to 2, clock 0..4 |
| `agent_calls` | Is whatever runs within manifest, delegation, policy and approval, does only an offence quarantine, do the two services agree, do workflows report the truth? | 1 run of any of the 3 workflows, 1 other client with 1 request of 9 and 11 claims, 1 delegation of 6, 1 approval, 2 policy versions, 2 configurations |

Why these bounds are enough. Two handlers, or a handler and a request, suffice
for every conflict on one document, since a conflict is between one stale
writer and one fresh one; a second delivery attempt reaches redelivery, lease
reclaim and exhaustion, and what happens on a third is the same. Two sessions
tell the session a task waited in from any other. In `grant_lifecycle` two
executions race for one grant, and three instants put the request before, at
and after each expiry; grants do not share state but through an approval, and
two of them compete for one, one after the other or at the same time; a third request
that comes after two that raced is left to `SpentForGood`. The choice among several
approvals is in `agent_calls` as a free one, and in the proofs. In `key_rotation` the second version
is the one the gateway was not started with, the drift goes beyond the tolerance
on both sides, and the clock has room for a failure, its end and another. In
`agent_calls` the requests and claims have, next to what is right, one wrong part
each: agent, version, region, tool, purpose, amount, text, argument keys. Four events make a chain with
two inner links and two forks. A limit of 2 has amounts below, at and above it
and at zero, of every type; one constraint is checked at a time, so lists of two
show what one does to the next. Three calls are one whose outcome is lost and two that find out.
The theorems below lift every property of the passing runs but liveness to any number
of everything, some of them under the conditions named there.

The version of the task is not bounded: the events can be applied only as often
as they are delivered, and a wait the runtime starts needs a task that runs.
`MaxDeliveryAttempts` is 5 in `main.tf`, `MaxTime`, `MaxEvaluations`,
`MaxWriters`, `MaxRestarts`, `MaxTokens`, `MaxDrift` and `MaxCalls` bound the clock,
the concurrency of the instances, the restarts, the grants, the difference of
the clocks and the requests of a client. Nothing has
to happen in a system that no client calls, so the runs do not check for
deadlock.

### Where the code disagrees with the repository

Four runs expect a violation; `PROJECT.json` quotes the line each contradicts.

- `AckedNotLost`: a redelivery during the 60 s lease of a dead handler is
  answered 200 as a duplicate, and with it the last copy of the event is gone.
  The subscription retries after 10 s.
- `RejectionNeverApplied`: `create_approval` publishes `approval.created` for a
  rejection too, and the worker resumes the waiting task.
- `ApprovalSingleUse` with two concurrent evaluations: both list the unbound
  approval before either binds it with an unconditional put. What the code does give
  is `NoLaterReuse`.
- `ChainVerifies`: two services that read the same head both link to it, and
  the chain of that task never verifies again.

Also met while modelling and kept as hazards: `subset_of` raising a TypeError on
nested lists where the engine promises a reason code; an event applied a second time
after a crash between commit and `mark_event_complete` (a start cannot be, an
approval of a second wait can); `create_delegation` overwriting a task that has
moved; a quarantine skipped when it loses its race; a released task that no
event takes on; `all()` over an empty approval subject, which lets an approval of
nothing authorise any arguments, where the comment above the line (main.py:574) says
that an empty overlap never does; the two layers of base64, with which the approval a
task waits for is answered 400, where docs/API_CONTRACTS.md:326 has the worker find
the JSON after one decoding; `in` taking `True` for 1 (engine.py:154), which `eq`
refuses, in lists of a kind the control plane does not build.

Met in `AgentCalls`, and left as they are by its properties:

- `reconciliation.write` is never called with a `task_id`
  (`invoice_reconciliation/tools.py`), which the file and PostgreSQL backends
  read: the grant is consumed and the call fails, though GW says malformed
  requests "never burn a single-use grant" (main.py:350-351). The answer is then no
  JSON, and the workflow raises.
- The invoice workflow does not look at the answer of `reconciliation.write` and
  reports "completed" whatever it was, also when, under
  `weekly_vendor_settlement`, that request quarantined its own running task.
  `OutcomeIsTrue` leaves out that step.
- The policy grants `exception.write` and `payment_batch.read`, which the gateway
  answers with `UNKNOWN_TOOL`, so two of the three workflows cannot complete against
  it; and the fields they branch on (`approval_status`, `amount_minor`,
  `risk_score`) are not among the fields the policy lets through.
- A request outside its purpose quarantines at once, where
  docs/RUNTIME_WORKFLOWS.md:269 says "repeatedly requests".
- A manifest's `allowed_regions` are never looked at.
- A grant issued without a key pins nothing of it: the gateway takes any value of
  a required key the grant was not asked for with.
- A key version disabled after a process registered it stays trusted until the
  process ends.

### Fairness

`FairSpec` assumes that a handler which has started goes on (Cloud Run keeps a
request's instance running; a crash is `HandlerFails`, not a stop) and that
Pub/Sub keeps pushing a pending message until it is acknowledged or its attempts
are used up. Both are weak fairness. Nothing is assumed of publishers, humans,
leases, the control plane or the runtime.

## Proofs

`TaskLifecycle_proofs` proves, for any events, handlers, requests, sessions and
delivery limit:

| theorem | statement |
|---|---|
| `TypeCorrect` | `Spec => []TypeOK` |
| `CompleteReceipts` | `Spec => []CompleteMeansDone` |
| `TaskRefinement` | `Spec => RefinesTaskMachine` |
| `CheckpointsRestorable` | `Spec => []CheckpointRestorable` |
| `ResumeSession` | `Spec => ResumeKeepsSession` |
| `StartOnce` | `Spec => []StartAppliedOnce` |

The last four are under `SoleCreator`: at most one request at a time may be a
`create_delegation` of this task, because its put is unconditional. Quarantines,
releases and deliveries are not limited. The other assumptions are those of
`TaskLifecycle`: every event has an occasion, the limit is positive, the
absent state is no task state, the absent checkpoint no checkpoint.

The argument. `CasInv` strengthens the type invariant with what optimistic
concurrency buys: a task read by a handler or a request is either of an older
version than the stored task, or *is* the stored task (`Current`), and what a
handler is about to write is a legal step or a resume from what it read
(`Handled`). None of the properties is inductive alone: only with `Current`
does the comparison of versions in `CommitTask` tell that the state the
transition was computed from is the state it is written over. `CasInv` is kept
because every write raises the version (`Raised`). `CommitCas` and its
siblings then say what a commit does to the task, `TaskSteps` collects them,
and the refinement, the session property and `StartInv` follow from it.
`CheckpointRestorable` is part of `CasInv`, since the session that a resume
restores comes from the checkpoint the task names. `DoneInv` adds to
`CompleteMeansDone` what a handler past its commit has done.

`GrantLifecycle_proofs` proves, for any evaluate and execute requests, approvals,
humans, arguments, policies, times and task moves:

| theorem | statement |
|---|---|
| `TypeCorrect` | `Spec => []TypeOK` |
| `AtMostOnce` | `Spec => []EffectAtMostOnce` |
| `Authorised` | `Spec => []EffectIsAuthorised` |
| `EndIsEnforced` | `Spec => []NothingAfterEnd` |
| `Truthful` | `Spec => []AuditTrailTruthful` |
| `SingleUseRefinement` | `Spec => RefinesSingleUseGrant` |
| `Approved` | `Spec => []EffectIsApproved` |
| `SpentForGood` | `Spec => []NoLaterReuse` |

`Approved` assumes that the tool's policy has the `delegation_sponsor` rule and
that every argument is a scalar: an argument that is a list or an object is not
pinned by the grant, so the agent may change it after the approval. The others
need no more than the assumptions of `GrantLifecycle`, and no theorem limits how many requests are evaluated at a time.

The argument. `GrantInv` ties each grant to where its requests are: a stored
grant is "issued" while its request is between the put and the return, a token
in the agent's hands has an audited issuance, a consumed grant was handed out
and was consumed in time (`GrantOK`); an execution that is about to call the
adapter holds a consumed grant with no effect yet, and no two executions do so
for one grant (`ExecOK`, `OneCaller`). `EffectAtMostOnce` is not inductive
alone: without `OneCaller` two executions past the consumption would both call.
A step of `evaluate_grant` can only be of a grant that nobody holds
(`EvaluatePending`), and a step of `execute` touches one grant
(`ExecuteApart`), so that each lemma looks at one grant and the frame lemmas
(`GrantStays`, `ExecStays`) do the rest. `LateOK` says where a late request
still may be: past its first read only if the task has ended, past its second
not at all; it needs that an end is final (`EndIsFinal`). `ApprovalInv` adds
that what phase G found of the approval stays true of the stored one
(`ApprovalsKept`: only `used_by_grant_id` changes, and is never cleared) and
that the arguments of a call match the pinned ones.

For `SpentForGood`, `SpentInv` adds to it that an approval spent when a request began
is used up, and is not the one the request found: the approval in its hands was free
at a moment after it began, and one that is used up never becomes free again
(`UsedKept`), although the put of a racing request overwrites whose it is. A token is
handed out only after its own put, so what is under a token is used up
(`SpentIsUsed`). A request that dies after the put has used the approval up for good,
which is listed as a hazard. Two requests that overlap may both have found the
approval free: there the theorem says nothing, and `grant_double_binding` shows that
the code gives nothing.

`AuditChain_proofs` proves, for any events and any number of writers:

| theorem | statement |
|---|---|
| `OnlyForks` | `Spec => []InvalidOnlyByFork` |
| `Exports` | `Spec => []ExportsVerify` |
| `ForkStays` | `Spec => ForkIsPermanent` |
| `EditsAreFound` | `Spec => TamperEvident` |

The argument. Every writer links to the hash of some event that was the head
when it read (`LinksKnown`). An append to a chain that verifies either links to
the last event, and then the chain still verifies (`AppendValidity`: an append
does not change what is wrong before it), or links to an earlier one, which
already has a successor, and that is a fork. Forks stay. Nothing is assumed of
events. For the edits, `HashTellsPlace` follows the hashes of a chain that
verifies down to `Genesis`: what an event links to is as long as its place. So a
modified event no longer has its hash, a swapped one links to another place, and
so does the one that moves up when an event in the middle is removed; what is left
is the removal of the last, which no chain can tell.

`ErpBackend_proofs` proves, for any calls, grants, ids, references and number of
restarts:

| theorem | statement |
|---|---|
| `TypeCorrect` | `Spec => []TypeOK` |
| `Once` | `Spec => []WrittenOnce` |
| `Answers` | `Spec => []AnswerIsStored` |

The argument. The table holds exactly the rows accepted in this life
(`RowsAccepted`), so a key that is not in the table was not accepted in it, and
the store adds no second row (`StoreKeeps`); a call that is at its read belongs
to the database, which has one life (`RequestMade`).

`GrantVerification_proofs` proves, for any key versions, lifetimes, tolerance,
drift and number of tokens:

| theorem | statement |
|---|---|
| `VerificationTypes` | `Spec => []TypeOK` |
| `RotationIsTransparent` | `Spec => []RefusedOnlyForKms` |
| `DriftIsBounded` | `Spec => []ClocksMayDiffer` |
| `LookupsAreBounded` | `Spec => []KmsAskedSeldom` |
| `TrustLasts` | `Spec => KnownKeysSurviveOutage` |

The argument. A remembered failure was seen while KMS would not give the key
out, so its end is no later than that moment plus the interval; a refusal is
either that failure or its repetition. Lookups of a key are spaced because the
next is allowed only at the end of the last failure, and none follows a
success: a process that is looking up a key has not registered it. What was
accepted is registered, and nothing leaves the table within a life.

`AgentCalls_proofs` proves, for any manifests, policy versions, offers, requests,
claims, workflows and callers:

| theorem | statement |
|---|---|
| `AgentInvariant` | `Spec => []AgentInv` |
| `AgentTypes` | `Spec => []TypeOK` |
| `OnlyNarrowCalls` | `Spec => []CallsAreNarrow` |
| `ReportsAreTrue` | `Spec => []OutcomeIsTrue` |
| `OffencesAlone` | `Spec => OnlyOffencesQuarantine` |
| `GrantedIsServed` | `Spec => ServicesAgree` |

Assumed of the constants: the agents of the workflows have manifests, a workflow
has arguments for its tools and writes with its last call only, and no event the
worker or `release_task` applies quarantines a running task.

The argument. `CallsAreNarrow` is not inductive: that a call is within bounds
is because its grant was when it was issued, and stays so although policy,
delegation and approvals change. So `AgentInv` says it of every grant
(`GrantsSound`), in terms that only freshly issued grants can touch: the purpose,
agents and regions of a delegation never change, the policy is the one of the grant's
version, an approval once bound stays bound. A new grant takes a place that
was empty (`PlacesFresh`), so no older one is overwritten. For the reports,
`PastServed` and `OwnCalls` say what a workflow has done by its current step,
and since only its last call writes, one that stops before has written nothing;
`ExecutesGrant` and `GrantForStep` tie the grant in its hands to that step.
`OnlyOffencesQuarantine` follows from the types and the case of each refusal;
`ServicesAgree` needs `ConsumedByCall` as well, that a grant is consumed by nothing but
a call of an adapter, so that one that was never served is still issued.

`ArgumentPolicy_proofs` proves, for any JSON values, requests, policies and other
callers, any depth bound and any prefix and pattern relations:

| theorem | statement |
|---|---|
| `ArgumentTypeCorrect` | `Spec => []TypeOK` |
| `ArgumentsExecutedAsGranted` | `Spec => []ExecutedAsGranted` |
| `ArgumentsWithinLimits` | `Spec => []WithinLimits` |
| `IssuedGrantsExecutable` | `Spec => []IssuedIsExecutable` |
| `AllConstraintsMustPass` | `Spec => []AllMustPass` |
| `UnknownPathsAreDenied` | `Spec => []UnknownPathsDeny` |
| `ComparisonsOrderNumbers` | `Spec => []OrderedNumbers` |

Assumed of the constants: values are JSON values, the arguments of a request are
an object and a policy's cap an integer and its currencies texts (the types of
`EvaluateGrantRequest`, `ExecuteRequest` and `ToolPolicy`), the constraints of other callers
have an operator of `ConstraintOp` and a JSON value.

The argument. `ArgumentInv` adds to the types where the loop is (`LoopInv`: every
constraint before `next` has passed on the arguments in hand, and an allowed list
has been passed to its end) and whose constraints they are (`GrantInv`: those
built from the grant's arguments and policy, and an issued grant was allowed them).
`AllMustPass` is not inductive alone, as the verdict does not say how far the loop
was. What a passed constraint means of the arguments is then a matter of the
operators: `CheckOk`, `KeyPassed` for the path of one key, `ScalarEquality` for what
`==` leaves after the type check. `UnknownPathsAreDenied` follows a path part by part
(`LookupFound`): once missing, always missing, so at the end of a path that leads
somewhere every part of it was a key or index of what came before (`ChildFound`).
`ComparisonsOrderNumbers` needs that a number of the model is ordered as its integer
and that what is not-a-number is neither less nor equal.

`ToolResponse_proofs` proves, for any answers and any allowed paths, of any depth:

| theorem | statement |
|---|---|
| `ProjectionExact` | `ResponseSpec => []ProjectionIsExact` |
| `ResponsesKeepArgumentPolicy` | `ResponseSpec => Spec` of `ArgumentPolicy` |

Assumed beyond the above: a backend answers with an object or a list, no path of a
policy is empty, and values have a depth below some limit.

The argument. `ProjectionExists` shows that the recursion of `_project_recursive`
ends, by induction on the depth, which gives its equation (`ProjectEquation`). What
the recursion carries down is what is left of the allowed paths after the keys
passed (`BelowAfter`), and `OneMoreKey` says how being allowed, or on the way to an
allowed path, passes from some keys to one more. So what the projection makes of
each part of an answer can be said of that part alone (`View`), part by part
(`DictParts`, `ListParts`), level by level (`LevelsShown`), and of the leaves
(`LeavesShown`), where `View` is the right side of `ProjectionIsExact`. The
invariant `ResponseInv` ties the stored answer to the policy it was projected with.

Liveness under fairness is beyond the prover and stays with TLC:
`EventLeavesSubscription`, and with it `ENABLED`. Induction is done with sets of
numbers (`NatSetInduction`, from the well-foundedness of <), since the provers
cannot instantiate the library's induction theorems; `RECURSIVE` operators occur in `MC`
modules only.

## Not modelled, and why

Cryptography is taken as sound; formatting is left out; what a text looks like to
the injection rule or to the screening is data, and the screening decides
nothing. The read-only endpoints, the registry facade, the console and metrics
change no state. The memory bank, in process or on Firestore, and the local runner's
session table are used by no service of the repository, only by their unit tests,
so no code says what they owe to whom. Store listings are complete here; the code cuts
`list_approvals` at 200. A publish that fails after `put_approval` is not
modelled. Seeds, demos and Terraform, but for the subscription's limits, are not
part of the running system.

## Plan

Done, in this order:

1. `TaskStates`, `TaskMachine`, `TaskLifecycle` with its proofs; `SingleUseGrant`,
   `GrantLifecycle` with its proofs; `AuditChain` with its proofs.
2. `ConstraintEngine`, `ArgumentPolicy`; `ErpBackend` with its proofs.
3. `PurposePolicy` and `AgentCalls` with its proofs: the decisions in order, in both
   services, and the agents that depend on them.
4. `Projection` and `ToolResponse`.
5. `GrantVerification` with its proofs: rotation, outages, clocks.
6. Proofs of what the runs had alone: arguments, projection, edits of the audit
   chain, approvals.

Left:

7. `ErpBackend` composed under `CallAdapter`: a grant pays at most once over the
   whole path, with a resolution of ambiguous outcomes by grant.
8. Publisher failures and the listing limit in `TaskLifecycle` and
   `GrantLifecycle`.
