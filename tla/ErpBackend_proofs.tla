-------------------------- MODULE ErpBackend_proofs --------------------------
(***************************************************************************)
(* Theorems about ErpBackend for every set of calls, grants, ids, batches  *)
(* and invoices, and any number of restarts.                               *)
(***************************************************************************)
EXTENDS ErpBackend, TLAPS

---------------------------------------------------------------------------
(* The type invariant. *)

LEMMA InitType == Init => TypeOK
<1> SUFFICES ASSUME Init PROVE TypeOK OBVIOUS
<1>1. life \in 0 .. MaxRestarts BY MaxRestartsAssumption DEF Init
<1>2. IdleCall \in Call BY MaxRestartsAssumption DEF IdleCall, Call
<1> QED BY <1>1, <1>2 DEF Init, TypeOK

LEMMA GotoType ==
  ASSUME TypeOK, NEW c \in Calls, Goto(c, "failed") \/ Goto(c, "select")
  PROVE  call' \in [Calls -> Call]
  BY DEF TypeOK, Goto, Call

LEMMA AnswerType ==
  ASSUME TypeOK, NEW c \in Calls, NEW row \in Row, Answer(c, row)
  PROVE  call' \in [Calls -> Call]
  BY DEF TypeOK, Answer, Call

LEMMA StoreType ==
  ASSUME TypeOK, NEW req \in Row, Store(req)
  PROVE  rows' \subseteq Row /\ accepted' \subseteq [row : Row, life : 0 .. MaxRestarts]
  BY DEF TypeOK, Store

(* A call that is to write or to read has a request; only the database is *)
(* read in a step of its own.                                             *)
RequestMade ==
  \A c \in Calls : call[c].pc \in {"write", "select"} =>
    /\ call[c].req \in Row /\ call[c].life = life
    /\ call[c].pc = "select" => backend = "postgres"

(* The rows are those stored in this life; the database has one life. *)
RowsAccepted ==
  /\ \A row \in Row : row \in rows <=> [row |-> row, life |-> life] \in accepted
  /\ \A a \in accepted : a.life <= life
  /\ backend = "postgres" => life = 0

ErpInv == TypeOK /\ RequestMade /\ RowsAccepted /\ WrittenOnce /\ AnswerIsStored

LEMMA InitInv == Init => ErpInv
<1> SUFFICES ASSUME Init PROVE ErpInv OBVIOUS
<1>1. TypeOK BY InitType
<1>2. RequestMade BY DEF Init, RequestMade, IdleCall
<1>3. RowsAccepted BY DEF Init, RowsAccepted
<1>4. WrittenOnce BY DEF Init, WrittenOnce
<1>5. AnswerIsStored BY DEF Init, AnswerIsStored, IdleCall
<1> QED BY <1>1, <1>2, <1>3, <1>4, <1>5 DEF ErpInv

(* A new row keeps one row for each key and loses none. *)
LEMMA StoreKeeps ==
  ASSUME ErpInv, NEW req \in Row, Existing(req) = {}, Store(req), UNCHANGED <<backend, life>>
  PROVE  /\ RowsAccepted' /\ WrittenOnce'
         /\ rows \subseteq rows' /\ accepted \subseteq accepted'
<1> DEFINE new == [row |-> req, life |-> life]
<1>1. accepted' = accepted \cup {new} /\ rows' = rows \cup {req} BY DEF Store
<1>2. RowsAccepted'
  <2>1. ASSUME NEW row \in Row
        PROVE  row \in rows' <=> [row |-> row, life |-> life] \in accepted'
    BY <1>1 DEF ErpInv, RowsAccepted
  <2>2. new.life <= life BY DEF ErpInv, TypeOK
  <2>3. \A a \in accepted' : a.life <= life BY <1>1, <2>2 DEF ErpInv, RowsAccepted
  <2> QED BY <2>1, <2>3 DEF RowsAccepted, ErpInv
<1>3. ASSUME NEW a \in accepted, a.life = life PROVE ~SameKey(a.row, req) /\ ~SameKey(req, a.row)
  <2>1. a.row \in Row /\ a = [row |-> a.row, life |-> life] BY <1>3 DEF ErpInv, TypeOK
  <2>2. a.row \in rows BY <2>1 DEF ErpInv, RowsAccepted
  <2> QED BY <2>2 DEF Existing, SameKey
<1>4. WrittenOnce'
  <2> SUFFICES ASSUME NEW a \in accepted', NEW b \in accepted',
                      a.life = b.life, SameKey(a.row, b.row)
               PROVE  a = b
    BY DEF WrittenOnce, SameKey
  <2>1. CASE a \in accepted /\ b \in accepted BY <2>1 DEF ErpInv, WrittenOnce
  <2>2. CASE a = new /\ b = new BY <2>2
  <2>3. CASE a = new /\ b \in accepted BY <2>3, <1>3
  <2>4. CASE a \in accepted /\ b = new BY <2>4, <1>3
  <2> QED BY <1>1, <2>1, <2>2, <2>3, <2>4
<1> QED BY <1>1, <1>2, <1>4

(* A call that ends without an answer, or moves on to the read. *)
LEMMA GotoKeeps ==
  ASSUME ErpInv, NEW c \in Calls, call[c].pc \in {"write", "select"},
         Goto(c, "failed") \/ (backend = "postgres" /\ Goto(c, "select")),
         rows \subseteq rows', accepted \subseteq accepted', UNCHANGED <<backend, life>>
  PROVE  RequestMade' /\ AnswerIsStored'
<1>1. RequestMade' BY DEF ErpInv, TypeOK, RequestMade, Goto, Call
<1>2. AnswerIsStored' BY DEF ErpInv, TypeOK, AnswerIsStored, SameKey, Goto, Call
<1> QED BY <1>1, <1>2

(* A call that is answered with a stored row of its key. *)
LEMMA AnswerKeeps ==
  ASSUME ErpInv, NEW c \in Calls, call[c].pc \in {"write", "select"},
         NEW row \in Row, row \in rows', SameKey(row, call[c].req), Answer(c, row),
         [row |-> row, life |-> life] \in accepted',
         rows \subseteq rows', accepted \subseteq accepted', UNCHANGED <<backend, life>>
  PROVE  RequestMade' /\ AnswerIsStored'
<1>1. RequestMade' BY DEF ErpInv, TypeOK, RequestMade, Answer, Call
<1>2. AnswerIsStored'
  <2> SUFFICES ASSUME NEW d \in Calls, call'[d].pc = "done"
               PROVE  /\ SameKey(call'[d].answer, call'[d].req)
                      /\ [row |-> call'[d].answer, life |-> call'[d].life] \in accepted'
                      /\ backend' = "postgres" => call'[d].answer \in rows'
    BY DEF AnswerIsStored, SameKey
  <2>1. CASE d # c BY <2>1 DEF ErpInv, TypeOK, AnswerIsStored, Answer
  <2>2. CASE d = c
    <3>1. call'[c].answer = row /\ call'[c].req = call[c].req /\ call'[c].life = life
      BY DEF ErpInv, TypeOK, RequestMade, Answer, Call
    <3> QED BY <2>2, <3>1
  <2> QED BY <2>1, <2>2
<1> QED BY <1>1, <1>2

LEMMA StutterKeeps ==
  ASSUME ErpInv, UNCHANGED <<backend, rows, life, accepted>>
  PROVE  RowsAccepted' /\ WrittenOnce'
  BY DEF ErpInv, RowsAccepted, WrittenOnce, SameKey

(* The insert statement stores the request or finds the row of its key. *)
LEMMA InsertKeeps ==
  ASSUME ErpInv, NEW req \in Row, InsertRow(req), UNCHANGED <<backend, life>>
  PROVE  /\ RowsAccepted' /\ WrittenOnce'
         /\ rows \subseteq rows' /\ accepted \subseteq accepted'
         /\ rows' \subseteq Row /\ accepted' \subseteq [row : Row, life : 0 .. MaxRestarts]
<1>1. CASE UNCHANGED <<rows, accepted>>
  BY <1>1, StutterKeeps DEF ErpInv, TypeOK
<1>2. CASE Existing(req) = {} /\ Store(req)
  BY <1>2, StoreKeeps, StoreType DEF ErpInv
<1> QED BY <1>1, <1>2 DEF InsertRow

---------------------------------------------------------------------------
LEMMA FileWriteInv ==
  ASSUME ErpInv, NEW c \in Calls, FileWrite(c)
  PROVE  ErpInv'
<1> DEFINE req == call[c].req
<1>0. req \in Row /\ call[c].pc = "write" /\ backend = "file" /\ UNCHANGED <<backend, life>>
  BY DEF ErpInv, RequestMade, FileWrite
<1>1. CASE Existing(req) = {} /\ Store(req) /\ Answer(c, req)
  <2>1. RowsAccepted' /\ WrittenOnce' /\ rows \subseteq rows' /\ accepted \subseteq accepted'
    BY <1>0, <1>1, StoreKeeps
  <2>2. req \in rows' /\ [row |-> req, life |-> life] \in accepted'
    BY <1>1 DEF Store
  <2>3. SameKey(req, req) BY DEF SameKey
  <2>4. RequestMade' /\ AnswerIsStored'
    BY <1>0, <1>1, <2>1, <2>2, <2>3, AnswerKeeps
  <2>5. TypeOK' BY <1>0, <1>1, StoreType, AnswerType DEF ErpInv, TypeOK
  <2> QED BY <2>1, <2>4, <2>5 DEF ErpInv
<1>2. ASSUME NEW row \in Existing(req), Answer(c, row), UNCHANGED <<rows, accepted>>
      PROVE  ErpInv'
  <2>1. row \in Row /\ row \in rows /\ SameKey(row, req)
    BY <1>2 DEF Existing, ErpInv, TypeOK
  <2>2. [row |-> row, life |-> life] \in accepted BY <2>1 DEF ErpInv, RowsAccepted
  <2>3. RequestMade' /\ AnswerIsStored' BY <1>0, <1>2, <2>1, <2>2, AnswerKeeps
  <2>4. RowsAccepted' /\ WrittenOnce' BY <1>0, <1>2, StutterKeeps
  <2>5. TypeOK' BY <1>0, <1>2, <2>1, AnswerType DEF ErpInv, TypeOK
  <2> QED BY <2>3, <2>4, <2>5 DEF ErpInv
<1> QED BY <1>1, <1>2 DEF FileWrite

LEMMA InsertInv ==
  ASSUME ErpInv, NEW c \in Calls, Insert(c) \/ CommitUnknown(c)
  PROVE  ErpInv'
<1>0. /\ call[c].req \in Row /\ call[c].pc = "write" /\ UNCHANGED <<backend, life>>
      /\ InsertRow(call[c].req) /\ backend = "postgres"
      /\ Goto(c, "select") \/ Goto(c, "failed")
  BY DEF ErpInv, RequestMade, Insert, CommitUnknown
<1>1. /\ RowsAccepted' /\ WrittenOnce' /\ rows \subseteq rows' /\ accepted \subseteq accepted'
      /\ rows' \subseteq Row /\ accepted' \subseteq [row : Row, life : 0 .. MaxRestarts]
  BY <1>0, InsertKeeps
<1>2. RequestMade' /\ AnswerIsStored' BY <1>0, <1>1, GotoKeeps
<1>3. TypeOK' BY <1>0, <1>1, GotoType DEF ErpInv, TypeOK
<1> QED BY <1>1, <1>2, <1>3 DEF ErpInv

LEMMA SelectInv ==
  ASSUME ErpInv, NEW c \in Calls, Select(c)
  PROVE  ErpInv'
<1>0. call[c].pc = "select" /\ UNCHANGED <<backend, rows, life, accepted>> BY DEF Select
<1>1. PICK row \in Existing(call[c].req) : Answer(c, row) BY DEF Select
<1>2. row \in Row /\ row \in rows /\ SameKey(row, call[c].req)
  BY DEF Existing, ErpInv, TypeOK
<1>3. [row |-> row, life |-> life] \in accepted BY <1>2 DEF ErpInv, RowsAccepted
<1>4. RequestMade' /\ AnswerIsStored' BY <1>0, <1>1, <1>2, <1>3, AnswerKeeps
<1>5. RowsAccepted' /\ WrittenOnce' BY <1>0, StutterKeeps
<1>6. TypeOK' BY <1>0, <1>1, <1>2, AnswerType DEF ErpInv, TypeOK
<1> QED BY <1>4, <1>5, <1>6 DEF ErpInv

LEMMA FailInv ==
  ASSUME ErpInv, NEW c \in Calls, InsertRefused(c) \/ CallFails(c)
  PROVE  ErpInv'
<1>0. /\ call[c].pc \in {"write", "select"} /\ Goto(c, "failed")
      /\ UNCHANGED <<backend, rows, life, accepted>>
  BY DEF InsertRefused, CallFails
<1>1. RequestMade' /\ AnswerIsStored' BY <1>0, GotoKeeps
<1>2. RowsAccepted' /\ WrittenOnce' BY <1>0, StutterKeeps
<1>3. TypeOK' BY <1>0, GotoType DEF ErpInv, TypeOK
<1> QED BY <1>1, <1>2, <1>3 DEF ErpInv

LEMMA BeginInv ==
  ASSUME ErpInv, NEW c \in Calls, BeginCall(c)
  PROVE  ErpInv'
<1>0. UNCHANGED <<backend, rows, life, accepted>> BY DEF BeginCall
<1>1. PICK req \in Requests :
        call' = [call EXCEPT ![c] =
          [pc |-> "write", req |-> req, answer |-> NoRow, life |-> life]]
  BY DEF BeginCall
<1>2. req \in Row BY DEF Requests
<1>3. TypeOK' BY <1>0, <1>1, <1>2 DEF ErpInv, TypeOK, Call
<1>4. RequestMade' BY <1>0, <1>1, <1>2 DEF ErpInv, TypeOK, RequestMade
<1>5. AnswerIsStored' BY <1>0, <1>1 DEF ErpInv, TypeOK, AnswerIsStored, SameKey
<1>6. RowsAccepted' /\ WrittenOnce' BY <1>0, StutterKeeps
<1> QED BY <1>3, <1>4, <1>5, <1>6 DEF ErpInv

LEMMA RestartInv ==
  ASSUME ErpInv, FileRestart
  PROVE  ErpInv'
<1>0. /\ backend = "file" /\ life < MaxRestarts /\ life' = life + 1 /\ rows' = {}
      /\ UNCHANGED <<backend, accepted>>
      /\ call' = [c \in Calls |->
           IF call[c].pc = "write" THEN [call[c] EXCEPT !.pc = "failed"] ELSE call[c]]
  BY DEF FileRestart
<1>1. life \in Nat /\ life' \in 0 .. MaxRestarts
  BY <1>0, MaxRestartsAssumption DEF ErpInv, TypeOK
<1>2. TypeOK' BY <1>0, <1>1 DEF ErpInv, TypeOK, Call
<1>3. RowsAccepted'
  <2>1. \A a \in accepted : a.life \in Nat /\ a.life <= life
    BY DEF ErpInv, TypeOK, RowsAccepted
  <2>2. \A a \in accepted : a.life <= life' /\ a.life # life' BY <1>0, <1>1, <2>1
  <2>3. \A row \in Row : [row |-> row, life |-> life'] \notin accepted
    BY <2>2
  <2> QED BY <1>0, <2>2, <2>3 DEF RowsAccepted
<1>4. WrittenOnce' BY <1>0 DEF ErpInv, WrittenOnce, SameKey
<1>5. RequestMade' BY <1>0 DEF ErpInv, TypeOK, RequestMade, Call
<1>6. AnswerIsStored' BY <1>0 DEF ErpInv, TypeOK, AnswerIsStored, SameKey, Call
<1> QED BY <1>2, <1>3, <1>4, <1>5, <1>6 DEF ErpInv

LEMMA NextInv == ErpInv /\ [Next]_vars => ErpInv'
<1> SUFFICES ASSUME ErpInv, [Next]_vars PROVE ErpInv' OBVIOUS
<1>1. ASSUME NEW c \in Calls, Step(c) PROVE ErpInv'
  BY <1>1, BeginInv, FileWriteInv, InsertInv, SelectInv, FailInv DEF Step
<1>2. CASE FileRestart BY <1>2, RestartInv
<1>3. CASE UNCHANGED vars
  BY <1>3 DEF vars, ErpInv, TypeOK, RequestMade, RowsAccepted, WrittenOnce,
     AnswerIsStored, SameKey
<1> QED BY <1>1, <1>2, <1>3 DEF Next

LEMMA Invariance == Spec => []ErpInv
  BY InitInv, NextInv, PTL DEF Spec

---------------------------------------------------------------------------
(* The backends, their tables and the calls always have their types.       *)
THEOREM TypeCorrect == Spec => []TypeOK
<1>1. ErpInv => TypeOK BY DEF ErpInv
<1> QED BY <1>1, Invariance, PTL

(* However calls repeat, fail, interleave and are lost, a grant pays once  *)
(* and a reconciliation is written once in the life of its store.          *)
THEOREM Once == Spec => []WrittenOnce
<1>1. ErpInv => WrittenOnce BY DEF ErpInv
<1> QED BY <1>1, Invariance, PTL

(* Every answer is the row stored first for the key of its call.           *)
THEOREM Answers == Spec => []AnswerIsStored
<1>1. ErpInv => AnswerIsStored BY DEF ErpInv
<1> QED BY <1>1, Invariance, PTL
============================================================================
