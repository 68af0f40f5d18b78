----------------------------- MODULE ErpBackend -----------------------------
(***************************************************************************)
(* The writes of the ERP behind the gateway's adapters: instruct_payment,  *)
(* idempotent by grant_id, and write_reconciliation, idempotent by its own *)
(* id.  The file backend keeps the records in the memory of one process    *)
(* and writes under a lock; the PostgreSQL backend inserts in one          *)
(* transaction and reads the row back in another, from any instance.       *)
(***************************************************************************)
EXTENDS Naturals

CONSTANTS
  Calls,        \* calls of instruct_payment and write_reconciliation
  Grants,       \* grant_id of the payments
  Ids,          \* payment_id and reconciliation_id
  Refs,         \* batch_id or invoice_id that calls name
  KnownRefs,    \* those in payment_batches and invoices
  MaxRestarts,  \* bound on the lives of the file backend's process
  NoRow

ASSUME KnownRefsAssumption == KnownRefs \subseteq Refs
ASSUME MaxRestartsAssumption == MaxRestarts \in Nat

VARIABLES
  backend,   \* DF_ERP_BACKEND
  rows,      \* the tables payments and reconciliations
  life,      \* history: which life of the file backend's process this is
  call,      \* the coroutine of each call
  accepted   \* history: every row ever stored, with the life it was stored in

vars == <<backend, rows, life, call, accepted>>

---------------------------------------------------------------------------
(* Rows.  key is what makes a second write the same write.                 *)

Row == [table : {"payments", "reconciliations"}, key : Grants \cup Ids,
        id : Ids, ref : Refs]

ASSUME NoRowAssumption == NoRow \notin Row

IsPayment(row) == row.table = "payments" /\ row.key \in Grants

IsReconciliation(row) == row.table = "reconciliations" /\ row.key = row.id

(* Mutant: no id is drawn for a caller that gives none. *)
RequestsWithoutId ==
  {row \in [table : {"payments"}, key : Grants, id : Ids \cup {NoRow}, ref : Refs] :
     IsPayment(row)}

(* What a call asks to be stored.  The id is the caller's or a fresh one;  *)
(* any id stands for both.                                                 *)
Requests == {row \in Row : IsPayment(row) \/ IsReconciliation(row)}

IdleCall == [pc |-> "idle", req |-> NoRow, answer |-> NoRow, life |-> 0]

Call == [pc : {"idle", "write", "select", "done", "failed"},
         req : Row \cup {NoRow}, answer : Row \cup {NoRow}, life : 0 .. MaxRestarts]

(* The backend, its tables and the calls have the values declared above.   *)
TypeOK ==
  /\ backend \in {"file", "postgres"}
  /\ rows \subseteq Row
  /\ life \in 0 .. MaxRestarts
  /\ call \in [Calls -> Call]
  /\ accepted \subseteq [row : Row, life : 0 .. MaxRestarts]

---------------------------------------------------------------------------
SameKey(row, other) == row.table = other.table /\ row.key = other.key

(* Mutant: the conflict target is the primary key. *)
ExistingId(req) == {row \in rows : row.table = req.table /\ row.id = req.id}

Existing(req) == {row \in rows : SameKey(row, req)}

(* schema.sql: the primary key, and the reference to a batch or invoice.   *)
Violates(req) ==
  \/ \E row \in rows : row.table = req.table /\ row.id = req.id
  \/ req.ref \notin KnownRefs

Store(req) ==
  /\ rows' = rows \cup {req}
  /\ accepted' = accepted \cup {[row |-> req, life |-> life]}

(* The insert statement: ON CONFLICT (key) DO NOTHING.                     *)
InsertRow(req) ==
  \/ Existing(req) # {} /\ UNCHANGED <<rows, accepted>>
  \/ Existing(req) = {} /\ ~Violates(req) /\ Store(req)

Answer(c, row) ==
  call' = [call EXCEPT ![c].pc = "done", ![c].answer = row]

Goto(c, pc) == call' = [call EXCEPT ![c].pc = pc]

---------------------------------------------------------------------------
(* The gateway calls the adapter with the arguments of an execute request. *)
BeginCall(c) ==
  /\ call[c].pc = "idle"
  /\ \E req \in Requests :
       call' = [call EXCEPT ![c] =
         [pc |-> "write", req |-> req, answer |-> NoRow, life |-> life]]
  /\ UNCHANGED <<backend, rows, life, accepted>>

(* Mutant: the request is answered, not what is stored. *)
FileWriteEchoes(c) ==
  /\ backend = "file" /\ call[c].pc = "write"
  /\ Answer(c, call[c].req)
  /\ \/ Existing(call[c].req) = {} /\ Store(call[c].req)
     \/ Existing(call[c].req) # {} /\ UNCHANGED <<rows, accepted>>
  /\ UNCHANGED <<backend, life>>

(* FileERPBackend: look-up and write under one lock; neither the ids nor   *)
(* the batches and invoices are checked.                                   *)
FileWrite(c) ==
  /\ backend = "file" /\ call[c].pc = "write"
  /\ \/ /\ Existing(call[c].req) = {}
        /\ Store(call[c].req) /\ Answer(c, call[c].req)
     \/ /\ \E row \in Existing(call[c].req) : Answer(c, row)
        /\ UNCHANGED <<rows, accepted>>
  /\ UNCHANGED <<backend, life>>

(* The process of the file backend ends, and its records with it.          *)
FileRestart ==
  /\ backend = "file" /\ life < MaxRestarts
  /\ life' = life + 1 /\ rows' = {}
  /\ call' = [c \in Calls |->
       IF call[c].pc = "write" THEN [call[c] EXCEPT !.pc = "failed"] ELSE call[c]]
  /\ UNCHANGED <<backend, accepted>>

(* PostgresERPBackend: the first transaction.                              *)
Insert(c) ==
  /\ backend = "postgres" /\ call[c].pc = "write"
  /\ InsertRow(call[c].req) /\ Goto(c, "select")
  /\ UNCHANGED <<backend, life>>

InsertRefused(c) ==
  /\ backend = "postgres" /\ call[c].pc = "write"
  /\ Existing(call[c].req) = {} /\ Violates(call[c].req)
  /\ Goto(c, "failed")
  /\ UNCHANGED <<backend, rows, life, accepted>>

(* The transaction commits but the caller does not learn of it.            *)
CommitUnknown(c) ==
  /\ backend = "postgres" /\ call[c].pc = "write"
  /\ InsertRow(call[c].req) /\ Goto(c, "failed")
  /\ UNCHANGED <<backend, life>>

(* The second transaction reads the row of the key.                        *)
Select(c) ==
  /\ backend = "postgres" /\ call[c].pc = "select"
  /\ \E row \in Existing(call[c].req) : Answer(c, row)
  /\ UNCHANGED <<backend, rows, life, accepted>>

(* An argument is missing, or the connection or the instance is lost       *)
(* before the next transaction.                                            *)
CallFails(c) ==
  /\ call[c].pc \in {"write", "select"}
  /\ Goto(c, "failed")
  /\ UNCHANGED <<backend, rows, life, accepted>>

---------------------------------------------------------------------------
Init ==
  /\ backend \in {"file", "postgres"}
  /\ rows = {} /\ life = 0 /\ accepted = {}
  /\ call = [c \in Calls |-> IdleCall]

Step(c) ==
  \/ BeginCall(c) \/ FileWrite(c) \/ Insert(c) \/ InsertRefused(c)
  \/ CommitUnknown(c) \/ Select(c) \/ CallFails(c)

Next == FileRestart \/ \E c \in Calls : Step(c)

Spec == Init /\ [][Next]_vars

---------------------------------------------------------------------------
(* Properties. *)

(* A grant pays once and a reconciliation is written once, however often   *)
(* the call is repeated, by whichever instance, and though a call that     *)
(* failed may have been committed: "downstream grant_id idempotency key"   *)
(* (SECURITY.md).  The file backend promises it for one life of its        *)
(* process; the database has one life.                                     *)
WrittenOnce ==
  \A a, b \in accepted : a.life = b.life /\ SameKey(a.row, b.row) => a = b

(* Every answer is the row that was stored for the key of the call, not    *)
(* what the call asked for: a repeated call learns of the first payment.   *)
(* In the database it stays there.                                         *)
AnswerIsStored ==
  \A c \in Calls : call[c].pc = "done" =>
    /\ SameKey(call[c].answer, call[c].req)
    /\ [row |-> call[c].answer, life |-> call[c].life] \in accepted
    /\ backend = "postgres" => call[c].answer \in rows
===========================================================================
