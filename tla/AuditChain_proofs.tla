-------------------------- MODULE AuditChain_proofs --------------------------
(***************************************************************************)
(* Theorems about AuditChain for every set of events and any number of     *)
(* concurrent writers.                                                     *)
(***************************************************************************)
EXTENDS AuditChain, SequenceTheorems, WellFoundedInduction, TLAPS

---------------------------------------------------------------------------
(* Chains. *)

(* What an event holds does not matter, only that a chain is a sequence. *)
IsChain(c) == \E S : c \in Seq(S)

LEMMA ChainDomain ==
  ASSUME NEW c, IsChain(c)
  PROVE  Len(c) \in Nat /\ DOMAIN c = 1 .. Len(c)
  BY LenProperties DEF IsChain

LEMMA EmptyChain == IsChain(<<>>) /\ Len(<<>>) = 0 /\ VerifyAuditChain(<<>>)
<1>1. <<>> \in Seq({}) /\ Len(<<>>) = 0 BY EmptySeq
<1>2. IsChain(<<>>) BY <1>1 DEF IsChain
<1>3. DOMAIN <<>> = {} BY <1>1, <1>2, ChainDomain
<1> QED BY <1>1, <1>2, <1>3 DEF VerifyAuditChain

LEMMA AppendFacts ==
  ASSUME NEW c, IsChain(c), NEW x
  PROVE  /\ IsChain(Append(c, x)) /\ Len(Append(c, x)) = Len(c) + 1
         /\ Append(c, x)[Len(c) + 1] = x
         /\ \A i \in 1 .. Len(c) : Append(c, x)[i] = c[i]
<1>1. PICK S : c \in Seq(S) BY DEF IsChain
<1>2. c \in Seq(S \cup {x}) BY <1>1, SeqMonotonic
<1> QED BY <1>2 DEF IsChain

LEMMA PrefixPointwise ==
  ASSUME NEW s, NEW t, IsChain(s), IsChain(t)
  PROVE  IsPrefix(s, t) <=> Len(s) <= Len(t) /\ \A i \in 1 .. Len(s) : s[i] = t[i]
<1>1. PICK S : s \in Seq(S) BY DEF IsChain
<1>2. PICK T : t \in Seq(T) BY DEF IsChain
<1> DEFINE U == S \cup T
<1>3. s \in Seq(U) /\ t \in Seq(U) BY <1>1, <1>2, SeqMonotonic
<1>4. Len(s) \in Nat /\ Len(t) \in Nat BY <1>3, LenProperties
<1> HIDE DEF U
<1>5. SUFFICES ASSUME Len(s) <= Len(t)
               PROVE  SubSeq(s, 1, Len(s)) = SubSeq(t, 1, Len(s))
                        <=> \A i \in 1 .. Len(s) : s[i] = t[i]
  BY DEF IsPrefix
<1>6. \A i \in 1 .. Len(s) : s[i] \in U /\ t[i] \in U
  BY <1>3, <1>4, <1>5, ElementOfSeq
<1>7. /\ SubSeq(s, 1, Len(s)) \in Seq(U)
      /\ Len(SubSeq(s, 1, Len(s))) = Len(s)
      /\ \A i \in 1 .. Len(s) : SubSeq(s, 1, Len(s))[i] = s[i]
  BY <1>4, <1>6, SubSeqProperties
<1>8. /\ SubSeq(t, 1, Len(s)) \in Seq(U)
      /\ Len(SubSeq(t, 1, Len(s))) = Len(s)
      /\ \A i \in 1 .. Len(s) : SubSeq(t, 1, Len(s))[i] = t[i]
  BY <1>4, <1>6, SubSeqProperties
<1> QED BY <1>7, <1>8, SeqEqual

(* An append does not change what is wrong with the events before it. *)
LEMMA AppendValidity ==
  ASSUME NEW c, IsChain(c), NEW x
  PROVE  VerifyAuditChain(Append(c, x)) <=>
           VerifyAuditChain(c) /\ ~InvalidAt(Append(c, x), Len(c) + 1)
<1> DEFINE d == Append(c, x)
<1>1. /\ Len(c) \in Nat /\ DOMAIN c = 1 .. Len(c)
      /\ DOMAIN d = 1 .. Len(c) + 1 /\ \A i \in 1 .. Len(c) : d[i] = c[i]
  BY ChainDomain, AppendFacts
<1>2. \A i \in 1 .. Len(c) : ExpectedPrev(d, i) = ExpectedPrev(c, i)
  BY <1>1 DEF ExpectedPrev
<1>3. \A i \in 1 .. Len(c) : InvalidAt(d, i) <=> InvalidAt(c, i)
  BY <1>1, <1>2 DEF InvalidAt
<1> HIDE DEF d
<1>4. 1 .. Len(c) + 1 = (1 .. Len(c)) \cup {Len(c) + 1} BY <1>1
<1>5. VerifyAuditChain(d) <=> VerifyAuditChain(c) /\ ~InvalidAt(d, Len(c) + 1)
  BY <1>1, <1>3, <1>4 DEF VerifyAuditChain
<1> QED BY <1>5 DEF d

---------------------------------------------------------------------------
(* The invariant. *)

(* The hash that the event after the first k links to. *)
HashAt(c, k) == IF k = 0 THEN Genesis ELSE c[k].hash

Forked(c) == \E i, j \in DOMAIN c : i # j /\ c[i].prev = c[j].prev

WriterType ==
  \E H : writer \in [Events -> [pc : {"idle", "append", "done"}, prev : H]]

(* A writer links to an event that was the head when it read. *)
LinksKnown ==
  \A e \in Events : writer[e].pc = "append" =>
    \E k \in 0 .. Len(chain) : writer[e].prev = HashAt(chain, k)

ExportsAreChains ==
  /\ IsChain(reader) /\ (edited \/ IsPrefix(reader, chain))
  /\ \A c \in exported : IsChain(c)

AuditInv ==
  /\ edited \in BOOLEAN /\ IsChain(chain) /\ WriterType
  /\ edited \/ LinksKnown
  /\ InvalidOnlyByFork
  /\ ExportsAreChains /\ ExportsVerify

(* The same, where the fork has its name. *)
LEMMA ForkNamed == InvalidOnlyByFork <=> (edited \/ VerifyAuditChain(chain) \/ Forked(chain))
  BY DEF InvalidOnlyByFork, Forked

LEMMA InitInv == Init => AuditInv
<1> SUFFICES ASSUME Init PROVE AuditInv OBVIOUS
<1>1. IsChain(chain) /\ IsChain(reader) /\ VerifyAuditChain(chain)
  BY EmptyChain DEF Init
<1>2. writer \in [Events -> [pc : {"idle", "append", "done"}, prev : {Genesis}]]
  BY DEF Init
<1>3. WriterType BY <1>2 DEF WriterType
<1>4. LinksKnown BY DEF Init, LinksKnown
<1>5. IsPrefix(reader, chain) BY <1>1, PrefixPointwise, EmptyChain DEF Init
<1> QED BY <1>1, <1>3, <1>4, <1>5
   DEF Init, AuditInv, InvalidOnlyByFork, ExportsAreChains, ExportsVerify

(* A head that was read is one of the chain's hashes, Genesis among them. *)
LEMMA HeadIsHash ==
  ASSUME NEW c, IsChain(c)
  PROVE  HeadHash(c) = HashAt(c, Len(c)) /\ Len(c) \in 0 .. Len(c)
<1>1. PICK S : c \in Seq(S) BY DEF IsChain
<1>2. c = <<>> <=> Len(c) = 0 BY <1>1, EmptySeq
<1>3. Len(c) \in Nat BY ChainDomain
<1> QED BY <1>2, <1>3 DEF HeadHash, HashAt, Last

LEMMA WriterReads ==
  ASSUME WriterType, NEW e \in Events, NEW h,
         writer' = [writer EXCEPT ![e] = [pc |-> "append", prev |-> h]]
  PROVE  /\ WriterType' /\ writer'[e] = [pc |-> "append", prev |-> h]
         /\ \A d \in Events \ {e} : writer'[d] = writer[d]
<1>1. PICK H : writer \in [Events -> [pc : {"idle", "append", "done"}, prev : H]]
  BY DEF WriterType
<1>2. writer \in [Events -> [pc : {"idle", "append", "done"}, prev : H \cup {h}]]
  BY <1>1
<1>3. writer' \in [Events -> [pc : {"idle", "append", "done"}, prev : H \cup {h}]]
  BY <1>2
<1>4. /\ writer'[e] = [pc |-> "append", prev |-> h]
      /\ \A d \in Events \ {e} : writer'[d] = writer[d]
  BY <1>1
<1> QED BY <1>3, <1>4 DEF WriterType

LEMMA WriterDone ==
  ASSUME WriterType, NEW e \in Events, writer' = [writer EXCEPT ![e].pc = "done"]
  PROVE  /\ WriterType' /\ writer'[e].pc = "done"
         /\ \A d \in Events \ {e} : writer'[d] = writer[d]
<1>1. PICK H : writer \in [Events -> [pc : {"idle", "append", "done"}, prev : H]]
  BY DEF WriterType
<1>2. writer' \in [Events -> [pc : {"idle", "append", "done"}, prev : H]] BY <1>1
<1>3. writer'[e].pc = "done" /\ \A d \in Events \ {e} : writer'[d] = writer[d] BY <1>1
<1> QED BY <1>2, <1>3 DEF WriterType

---------------------------------------------------------------------------
(* The steps. *)

(* What is a prefix of the trail stays one when the trail grows. *)
LEMMA PrefixGrows ==
  ASSUME NEW s, NEW c, NEW x, IsChain(s), IsChain(c), IsPrefix(s, c)
  PROVE  IsPrefix(s, Append(c, x))
<1>1. Len(s) \in Nat /\ Len(c) \in Nat BY ChainDomain
<1>2. Len(s) <= Len(c) /\ \A i \in 1 .. Len(s) : s[i] = c[i] BY PrefixPointwise
<1>3. /\ IsChain(Append(c, x)) /\ Len(Append(c, x)) = Len(c) + 1
      /\ \A i \in 1 .. Len(c) : Append(c, x)[i] = c[i]
  BY AppendFacts
<1>4. Len(s) <= Len(Append(c, x)) /\ \A i \in 1 .. Len(s) : s[i] = Append(c, x)[i]
  BY <1>1, <1>2, <1>3
<1> QED BY <1>3, <1>4, PrefixPointwise

LEMMA ExportsStay ==
  ASSUME AuditInv, UNCHANGED <<chain, reader, exported, edited>>
  PROVE  ExportsAreChains' /\ ExportsVerify' /\ InvalidOnlyByFork' /\ IsChain(chain)'
  BY DEF AuditInv, ExportsAreChains, ExportsVerify, InvalidOnlyByFork, IsChain

LEMMA ReadHeadInv ==
  ASSUME AuditInv, NEW e \in Events, ReadHead(e)
  PROVE  AuditInv'
<1> DEFINE h == HeadHash(chain)
<1>0. /\ writer' = [writer EXCEPT ![e] = [pc |-> "append", prev |-> h]]
      /\ UNCHANGED <<chain, reader, exported, edited>>
  BY DEF ReadHead
<1>1. /\ WriterType' /\ writer'[e] = [pc |-> "append", prev |-> h]
      /\ \A d \in Events \ {e} : writer'[d] = writer[d]
  BY <1>0, WriterReads DEF AuditInv
<1>2. (edited \/ LinksKnown)'
  <2> SUFFICES ASSUME ~edited, NEW d \in Events, writer'[d].pc = "append"
               PROVE  \E k \in 0 .. Len(chain) : writer'[d].prev = HashAt(chain, k)
    BY <1>0 DEF LinksKnown, HashAt
  <2>1. CASE d = e
    BY <1>1, <2>1, HeadIsHash DEF AuditInv
  <2>2. CASE d # e
    BY <1>1, <2>2 DEF AuditInv, LinksKnown
  <2> QED BY <2>1, <2>2
<1> QED BY <1>0, <1>1, <1>2, ExportsStay DEF AuditInv

LEMMA AppendFailsInv ==
  ASSUME AuditInv, NEW e \in Events, AppendFails(e)
  PROVE  AuditInv'
<1>0. writer' = [writer EXCEPT ![e].pc = "done"] /\ UNCHANGED <<chain, reader, exported, edited>>
  BY DEF AppendFails
<1>1. /\ WriterType' /\ writer'[e].pc = "done"
      /\ \A d \in Events \ {e} : writer'[d] = writer[d]
  BY <1>0, WriterDone DEF AuditInv
<1>2. (edited \/ LinksKnown)' BY <1>0, <1>1 DEF AuditInv, LinksKnown, HashAt
<1> QED BY <1>0, <1>1, <1>2, ExportsStay DEF AuditInv

LEMMA AppendEventInv ==
  ASSUME AuditInv, NEW e \in Events, AppendEvent(e)
  PROVE  AuditInv'
<1> DEFINE prev == writer[e].prev
           new == FinalizeAuditEvent(e, prev)
<1>0. /\ writer[e].pc = "append" /\ chain' = Append(chain, new)
      /\ writer' = [writer EXCEPT ![e].pc = "done"] /\ UNCHANGED <<reader, exported, edited>>
  BY DEF AppendEvent
<1>1. new.prev = prev /\ new.hash = ComputeEventHash(new.prev, new.event)
  BY DEF FinalizeAuditEvent
<1> HIDE DEF new
<1>2. /\ IsChain(chain) /\ Len(chain) \in Nat /\ DOMAIN chain = 1 .. Len(chain)
      /\ IsChain(chain') /\ Len(chain') = Len(chain) + 1
      /\ DOMAIN chain' = 1 .. Len(chain) + 1
      /\ chain'[Len(chain) + 1] = new /\ \A i \in 1 .. Len(chain) : chain'[i] = chain[i]
  BY <1>0, ChainDomain, AppendFacts DEF AuditInv
<1>3. /\ WriterType' /\ writer'[e].pc = "done"
      /\ \A d \in Events \ {e} : writer'[d] = writer[d]
  BY <1>0, WriterDone DEF AuditInv
<1>4. \A k \in 0 .. Len(chain) : HashAt(chain', k) = HashAt(chain, k) /\ k \in 0 .. Len(chain')
  BY <1>2 DEF HashAt
<1>5. (edited \/ LinksKnown)'
  <2> SUFFICES ASSUME ~edited, NEW d \in Events, writer'[d].pc = "append"
               PROVE  \E k \in 0 .. Len(chain') : writer'[d].prev = HashAt(chain', k)
    BY <1>0 DEF LinksKnown, HashAt
  <2>1. d # e /\ writer'[d] = writer[d] BY <1>3
  <2>2. PICK k \in 0 .. Len(chain) : writer[d].prev = HashAt(chain, k)
    BY <2>1 DEF AuditInv, LinksKnown
  <2> QED BY <1>4, <2>1, <2>2
<1>6. InvalidOnlyByFork'
  <2> SUFFICES ASSUME ~edited PROVE VerifyAuditChain(chain') \/ Forked(chain')
    BY <1>0 DEF InvalidOnlyByFork, Forked
  <2>1. CASE Forked(chain)
    <3>1. PICK i, j \in DOMAIN chain : i # j /\ chain[i].prev = chain[j].prev
      BY <2>1 DEF Forked
    <3> QED BY <1>2, <3>1 DEF Forked
  <2>2. CASE VerifyAuditChain(chain)
    <3>1. PICK k \in 0 .. Len(chain) : prev = HashAt(chain, k)
      BY <1>0 DEF AuditInv, LinksKnown
    <3>2. CASE k = Len(chain)
      <4>1. ExpectedPrev(chain', Len(chain) + 1) = HashAt(chain, Len(chain))
        BY <1>2 DEF ExpectedPrev, HashAt
      <4>2. ~InvalidAt(chain', Len(chain) + 1)
        BY <1>1, <1>2, <3>1, <3>2, <4>1 DEF InvalidAt
      <4> QED BY <1>0, <1>2, <2>2, <4>2, AppendValidity
    <3>3. CASE k < Len(chain)
      <4>1. k + 1 \in DOMAIN chain BY <1>2, <3>3
      <4>2. chain[k + 1].prev = ExpectedPrev(chain, k + 1)
        BY <2>2, <4>1 DEF VerifyAuditChain, InvalidAt
      <4>3. ExpectedPrev(chain, k + 1) = HashAt(chain, k)
        BY <1>2, <3>3 DEF ExpectedPrev, HashAt
      <4>4. /\ k + 1 \in DOMAIN chain' /\ Len(chain) + 1 \in DOMAIN chain'
            /\ k + 1 # Len(chain) + 1
            /\ chain'[k + 1].prev = chain'[Len(chain) + 1].prev
        BY <1>1, <1>2, <3>1, <3>3, <4>1, <4>2, <4>3
      <4> QED BY <4>4 DEF Forked
    <3>4. Len(chain) \in Nat => k = Len(chain) \/ k < Len(chain) OBVIOUS
    <3> QED BY <1>2, <3>2, <3>3, <3>4
  <2> QED BY <2>1, <2>2, ForkNamed DEF AuditInv
<1>7. ExportsAreChains'
  BY <1>0, <1>2, PrefixGrows DEF AuditInv, ExportsAreChains, IsChain
<1>8. ExportsVerify'
  BY <1>0, <1>2, PrefixGrows DEF AuditInv, ExportsAreChains, ExportsVerify
<1> QED BY <1>0, <1>2, <1>3, <1>5, <1>6, <1>7, <1>8 DEF AuditInv, IsChain

LEMMA WritersStay ==
  ASSUME AuditInv, UNCHANGED <<chain, writer, edited>>
  PROVE  /\ (edited \in BOOLEAN)' /\ IsChain(chain)' /\ WriterType'
         /\ (edited \/ LinksKnown)' /\ InvalidOnlyByFork'
  BY DEF AuditInv, IsChain, WriterType, LinksKnown, HashAt, InvalidOnlyByFork

LEMMA ExportInv ==
  ASSUME AuditInv, ReadForExport \/ ExportChain \/ RefuseExport
  PROVE  AuditInv'
<1>0. UNCHANGED <<chain, writer, edited>> BY DEF ReadForExport, ExportChain, RefuseExport
<1>1. IsPrefix(chain, chain) BY PrefixPointwise, ChainDomain DEF AuditInv
<1>2. IsPrefix(<<>>, chain)
  BY PrefixPointwise, EmptyChain, ChainDomain DEF AuditInv
<1>3. ASSUME ReadForExport PROVE ExportsAreChains' /\ ExportsVerify'
  BY <1>1, <1>3 DEF AuditInv, ReadForExport, ExportsAreChains, ExportsVerify, IsChain
<1>4. ASSUME ExportChain PROVE ExportsAreChains' /\ ExportsVerify'
  <2>1. /\ reader' = <<>> /\ exported' = exported \cup {reader}
        /\ VerifyAuditChain(reader)
    BY <1>4 DEF ExportChain
  <2>2. ExportsAreChains'
    BY <1>0, <1>2, <2>1, EmptyChain DEF AuditInv, ExportsAreChains, IsChain
  <2>3. ExportsVerify' BY <1>0, <2>1 DEF AuditInv, ExportsAreChains, ExportsVerify
  <2> QED BY <2>2, <2>3
<1>5. ASSUME RefuseExport PROVE ExportsAreChains' /\ ExportsVerify'
  <2>1. reader' = <<>> /\ exported' = exported BY <1>5 DEF RefuseExport
  <2>2. ExportsAreChains'
    BY <1>0, <1>2, <2>1, EmptyChain DEF AuditInv, ExportsAreChains, IsChain
  <2>3. ExportsVerify' BY <1>0, <2>1 DEF AuditInv, ExportsVerify
  <2> QED BY <2>2, <2>3
<1>6. ExportsAreChains' /\ ExportsVerify'
  BY <1>3, <1>4, <1>5
<1> QED BY <1>0, <1>6, WritersStay DEF AuditInv

LEMMA RemoveIsChain ==
  ASSUME NEW c, IsChain(c), NEW i \in DOMAIN c
  PROVE  IsChain(RemoveAt(c, i))
<1>1. PICK S : c \in Seq(S) BY DEF IsChain
<1>2. Len(c) \in Nat /\ i \in 1 .. Len(c) BY ChainDomain
<1>3. \A j \in 1 .. Len(c) : c[j] \in S BY <1>1, ElementOfSeq
<1>4. SubSeq(c, 1, i - 1) \in Seq(S) BY <1>2, <1>3, SubSeqProperties
<1>5. SubSeq(c, i + 1, Len(c)) \in Seq(S) BY <1>2, <1>3, SubSeqProperties
<1>6. RemoveAt(c, i) \in Seq(S) BY <1>4, <1>5, ConcatProperties DEF RemoveAt
<1> QED BY <1>6 DEF IsChain

LEMMA ExceptIsChain ==
  ASSUME NEW c, IsChain(c), NEW i \in DOMAIN c, NEW x
  PROVE  IsChain([c EXCEPT ![i] = x]) /\ DOMAIN [c EXCEPT ![i] = x] = DOMAIN c
<1>1. PICK S : c \in Seq(S) BY DEF IsChain
<1>2. c \in Seq(S \cup {x}) BY <1>1, SeqMonotonic
<1>3. i \in 1 .. Len(c) BY ChainDomain
<1>4. [c EXCEPT ![i] = x] \in Seq(S \cup {x}) BY <1>2, <1>3, ExceptSeq
<1> QED BY <1>4 DEF IsChain

(* After an edit nothing is promised of the trail, and what was archived  *)
(* still verifies.                                                        *)
LEMMA TamperInv ==
  ASSUME AuditInv, Tamper
  PROVE  AuditInv'
<1>0. edited' = TRUE /\ UNCHANGED <<writer, reader, exported>> BY DEF Tamper
<1>1. IsChain(chain')
  <2>1. ASSUME NEW i \in DOMAIN chain, NEW event, ModifyEvent(i, event) PROVE IsChain(chain')
    <3>1. chain' = [chain EXCEPT ![i] = [chain[i] EXCEPT !.event = event]]
      BY <2>1 DEF ModifyEvent
    <3> QED BY <3>1, ExceptIsChain DEF AuditInv
  <2>2. ASSUME NEW i \in DOMAIN chain, NEW j \in DOMAIN chain, SwapEvents(i, j)
        PROVE  IsChain(chain')
    <3> DEFINE c == [chain EXCEPT ![i] = chain[j]]
    <3>1. IsChain(c) /\ DOMAIN c = DOMAIN chain BY ExceptIsChain DEF AuditInv
    <3>2. chain' = [c EXCEPT ![j] = chain[i]] BY <2>2 DEF SwapEvents
    <3> HIDE DEF c
    <3> QED BY <3>1, <3>2, ExceptIsChain
  <2>3. ASSUME NEW i \in DOMAIN chain, RemoveEvent(i) PROVE IsChain(chain')
    BY <2>3, RemoveIsChain DEF AuditInv, RemoveEvent
  <2> QED BY <2>1, <2>2, <2>3 DEF Tamper
<1>2. WriterType' BY <1>0 DEF AuditInv, WriterType
<1> QED BY <1>0, <1>1, <1>2
   DEF AuditInv, IsChain, InvalidOnlyByFork, ExportsAreChains, ExportsVerify

LEMMA NextInv == AuditInv /\ [Next]_vars => AuditInv'
<1> SUFFICES ASSUME AuditInv, [Next]_vars PROVE AuditInv' OBVIOUS
<1>1. ASSUME NEW e \in Events, ReadHead(e) \/ AppendEvent(e) \/ AppendFails(e)
      PROVE  AuditInv'
  BY <1>1, ReadHeadInv, AppendEventInv, AppendFailsInv
<1>2. CASE ReadForExport \/ ExportChain \/ RefuseExport BY <1>2, ExportInv
<1>3. CASE Tamper BY <1>3, TamperInv
<1>4. CASE UNCHANGED vars
  BY <1>4, ExportsStay, WritersStay DEF vars, AuditInv
<1> QED BY <1>1, <1>2, <1>3, <1>4 DEF Next

LEMMA Invariance == Spec => []AuditInv
  BY InitInv, NextInv, PTL DEF Spec

---------------------------------------------------------------------------
(* With any number of concurrent writers, crashes and exports, a trail     *)
(* nobody edited is broken only by two appends to the same head.           *)
THEOREM OnlyForks == Spec => []InvalidOnlyByFork
<1>1. AuditInv => InvalidOnlyByFork BY DEF AuditInv
<1> QED BY <1>1, Invariance, PTL

(* Whatever is archived verifies.                                          *)
THEOREM Exports == Spec => []ExportsVerify
<1>1. AuditInv => ExportsVerify BY DEF AuditInv
<1> QED BY <1>1, Invariance, PTL

(* A trail that does not verify never verifies again.                      *)
THEOREM ForkStays == Spec => ForkIsPermanent
<1>1. ASSUME AuditInv, [Next]_vars, ~VerifyAuditChain(chain)
      PROVE  ~VerifyAuditChain(chain')
  <2>1. CASE UNCHANGED chain BY <1>1, <2>1
  <2>2. ASSUME NEW e \in Events, AppendEvent(e) PROVE ~VerifyAuditChain(chain')
    BY <1>1, <2>2, AppendValidity DEF AuditInv, AppendEvent
  <2>3. CASE Tamper BY <1>1, <2>3 DEF Tamper
  <2> QED BY <1>1, <2>1, <2>2, <2>3
     DEF Next, vars, ReadHead, AppendFails, ReadForExport, ExportChain, RefuseExport
<1>2. AuditInv /\ [Next]_vars =>
        [~VerifyAuditChain(chain) => ~VerifyAuditChain(chain')]_vars
  BY <1>1
<1> QED BY <1>2, Invariance, PTL DEF Spec, ForkIsPermanent

---------------------------------------------------------------------------
(* What verify_audit_chain finds of an edit. *)

IsEvent(x) == x = [event |-> x.event, prev |-> x.prev, hash |-> x.hash]

EntriesAreEvents == \A i \in DOMAIN chain : IsEvent(chain[i])

LEMMA RemoveFacts ==
  ASSUME NEW c, IsChain(c), NEW i \in DOMAIN c
  PROVE  /\ Len(RemoveAt(c, i)) = Len(c) - 1
         /\ \A j \in 1 .. Len(c) - 1 :
              RemoveAt(c, i)[j] = IF j < i THEN c[j] ELSE c[j + 1]
<1>1. PICK S : c \in Seq(S) BY DEF IsChain
<1>2. Len(c) \in Nat /\ i \in 1 .. Len(c) BY ChainDomain
<1>3. \A j \in 1 .. Len(c) : c[j] \in S BY <1>1, ElementOfSeq
<1> DEFINE a == SubSeq(c, 1, i - 1)
           b == SubSeq(c, i + 1, Len(c))
<1>4. a \in Seq(S) /\ Len(a) = i - 1 /\ \A j \in 1 .. i - 1 : a[j] = c[j]
  BY <1>2, <1>3, SubSeqProperties
<1>5. b \in Seq(S) /\ Len(b) = Len(c) - i /\ \A j \in 1 .. Len(c) - i : b[j] = c[i + j]
  BY <1>2, <1>3, SubSeqProperties
<1>6. RemoveAt(c, i) = a \o b BY DEF RemoveAt
<1> HIDE DEF a, b
<1>7. /\ Len(a \o b) = Len(a) + Len(b)
      /\ \A j \in 1 .. Len(a) + Len(b) :
           (a \o b)[j] = IF j <= Len(a) THEN a[j] ELSE b[j - Len(a)]
  BY <1>4, <1>5, ConcatProperties
<1> DEFINE d == a \o b
<1> HIDE DEF d
<1>8. /\ Len(d) = Len(c) - 1
      /\ \A j \in 1 .. Len(c) - 1 : d[j] = IF j <= i - 1 THEN a[j] ELSE b[j - (i - 1)]
  <2>1. Len(a) + Len(b) = Len(c) - 1 BY <1>2, <1>4, <1>5
  <2> QED BY <1>4, <1>7, <2>1 DEF d
<1>9. ASSUME NEW j \in 1 .. Len(c) - 1
      PROVE  d[j] = IF j < i THEN c[j] ELSE c[j + 1]
  <2>1. CASE j < i
    <3>1. j <= i - 1 /\ j \in 1 .. i - 1 BY <1>2, <2>1
    <3> QED BY <1>4, <1>8, <2>1, <3>1
  <2>2. CASE j >= i
    <3>1. /\ j - (i - 1) \in 1 .. Len(c) - i /\ i + (j - (i - 1)) = j + 1
          /\ ~(j <= i - 1) /\ ~(j < i)
      BY <1>2, <2>2
    <3>2. d[j] = b[j - (i - 1)] BY <1>8, <3>1
    <3>3. b[j - (i - 1)] = c[i + (j - (i - 1))] BY <1>5, <3>1
    <3> QED BY <3>1, <3>2, <3>3
  <2> QED BY <1>2, <2>1, <2>2
<1> QED BY <1>6, <1>8, <1>9 DEF d

LEMMA ExceptFacts ==
  ASSUME NEW c, IsChain(c), NEW i \in DOMAIN c, NEW x
  PROVE  LET d == [c EXCEPT ![i] = x] IN
         DOMAIN d = DOMAIN c /\ d[i] = x /\ \A j \in DOMAIN c \ {i} : d[j] = c[j]
OBVIOUS

LEMMA EntriesStay == AuditInv /\ EntriesAreEvents /\ [Next]_vars => EntriesAreEvents'
<1> SUFFICES ASSUME AuditInv, EntriesAreEvents, [Next]_vars PROVE EntriesAreEvents'
  OBVIOUS
<1>0. IsChain(chain) /\ Len(chain) \in Nat /\ DOMAIN chain = 1 .. Len(chain)
  BY ChainDomain DEF AuditInv
<1>1. CASE UNCHANGED chain BY <1>1 DEF EntriesAreEvents
<1>2. ASSUME NEW e \in Events, AppendEvent(e) PROVE EntriesAreEvents'
  <2> DEFINE new == FinalizeAuditEvent(e, writer[e].prev)
  <2>1. IsEvent(new) BY DEF IsEvent, FinalizeAuditEvent
  <2>2. chain' = Append(chain, new) BY <1>2 DEF AppendEvent
  <2> HIDE DEF new
  <2>3. /\ IsChain(chain') /\ Len(chain') = Len(chain) + 1
        /\ chain'[Len(chain) + 1] = new /\ \A i \in 1 .. Len(chain) : chain'[i] = chain[i]
    BY <1>0, <2>2, AppendFacts
  <2>4. DOMAIN chain' = 1 .. Len(chain) + 1 BY <2>3, ChainDomain
  <2> QED BY <1>0, <2>1, <2>3, <2>4 DEF EntriesAreEvents
<1>3. ASSUME NEW i \in DOMAIN chain, NEW event, ModifyEvent(i, event) PROVE EntriesAreEvents'
  <2> DEFINE new == [chain[i] EXCEPT !.event = event]
  <2>1. chain' = [chain EXCEPT ![i] = new] BY <1>3 DEF ModifyEvent
  <2>2. IsEvent(new) BY DEF EntriesAreEvents, IsEvent
  <2> HIDE DEF new
  <2>3. /\ DOMAIN chain' = DOMAIN chain /\ chain'[i] = new
        /\ \A j \in DOMAIN chain \ {i} : chain'[j] = chain[j]
    BY <1>0, <2>1, ExceptFacts
  <2> QED BY <2>2, <2>3 DEF EntriesAreEvents
<1>4. ASSUME NEW i \in DOMAIN chain, NEW j \in DOMAIN chain, SwapEvents(i, j)
      PROVE  EntriesAreEvents'
  <2>1. /\ DOMAIN chain' = DOMAIN chain /\ chain'[j] = chain[i]
        /\ chain'[i] = chain[j]
        /\ \A k \in DOMAIN chain \ {i, j} : chain'[k] = chain[k]
    BY <1>4 DEF SwapEvents
  <2> QED BY <2>1 DEF EntriesAreEvents
<1>5. ASSUME NEW i \in DOMAIN chain, RemoveEvent(i) PROVE EntriesAreEvents'
  <2>1. chain' = RemoveAt(chain, i) BY <1>5 DEF RemoveEvent
  <2>2. /\ IsChain(chain') /\ Len(chain') = Len(chain) - 1
        /\ \A j \in 1 .. Len(chain) - 1 :
             chain'[j] = IF j < i THEN chain[j] ELSE chain[j + 1]
    BY <1>0, <2>1, RemoveIsChain, RemoveFacts
  <2>3. DOMAIN chain' = 1 .. Len(chain) - 1 BY <2>2, ChainDomain
  <2>4. \A j \in 1 .. Len(chain) - 1 : j \in DOMAIN chain /\ j + 1 \in DOMAIN chain
    BY <1>0
  <2> QED BY <2>2, <2>3, <2>4 DEF EntriesAreEvents
<1>6. CASE Tamper BY <1>3, <1>4, <1>5, <1>6 DEF Tamper
<1> QED BY <1>1, <1>2, <1>6
   DEF Next, vars, ReadHead, AppendFails, ReadForExport, ExportChain, RefuseExport

(* In a chain that verifies, a hash tells how far its event is from the    *)
(* genesis.                                                                *)
LEMMA HashTellsPlace ==
  ASSUME NEW c, IsChain(c), VerifyAuditChain(c)
  PROVE  \A i \in DOMAIN c : /\ IsChain(c[i].prev) /\ Len(c[i].prev) = i - 1
                             /\ c[i].hash = Append(c[i].prev, c[i].event)
<1>1. Len(c) \in Nat /\ DOMAIN c = 1 .. Len(c) BY ChainDomain
<1> DEFINE Placed(i) == /\ IsChain(c[i].prev) /\ Len(c[i].prev) = i - 1
                        /\ c[i].hash = Append(c[i].prev, c[i].event)
           Bad == {i \in DOMAIN c : ~Placed(i)}
           R == {ss \in Nat \X Nat : ss[1] < ss[2]}
<1> SUFFICES ASSUME Bad # {} PROVE FALSE OBVIOUS
<1>2. PICK n \in Bad : \A m \in Bad : ~(m < n)
  <2>1. Bad \subseteq Nat BY <1>1
  <2>2. IsWellFoundedOn(R, Nat) BY NatLessThanWellFounded DEF OpToRel
  <2>3. \E n \in Bad : \A m \in Bad : <<m, n>> \notin R
    <3> HIDE DEF R, Bad
    <3> QED BY <2>1, <2>2, WFMin
  <2> HIDE DEF Bad
  <2> QED BY <2>1, <2>3
<1>3. /\ c[n].prev = ExpectedPrev(c, n)
      /\ c[n].hash = Append(c[n].prev, c[n].event)
  BY DEF VerifyAuditChain, InvalidAt, ComputeEventHash
<1>4. CASE n = 1
  <2>1. c[n].prev = <<>> BY <1>3, <1>4 DEF ExpectedPrev, Genesis
  <2> QED BY <1>3, <1>4, <2>1, EmptyChain
<1>5. CASE n # 1
  <2>1. n - 1 \in DOMAIN c /\ n - 1 < n BY <1>1, <1>5
  <2>2. Placed(n - 1) BY <1>2, <2>1
  <2>3. c[n].prev = Append(c[n - 1].prev, c[n - 1].event)
    BY <1>3, <1>5, <2>2 DEF ExpectedPrev
  <2>4. IsChain(c[n].prev) /\ Len(c[n].prev) = n - 1
    BY <1>1, <2>1, <2>2, <2>3, AppendFacts
  <2> QED BY <1>3, <2>4
<1> QED BY <1>4, <1>5

LEMMA TamperFound ==
  ASSUME AuditInv, EntriesAreEvents, Tamper,
         VerifyAuditChain(chain), VerifyAuditChain(chain')
  PROVE  IsPrefix(chain', chain)
<1>0. IsChain(chain) /\ Len(chain) \in Nat /\ DOMAIN chain = 1 .. Len(chain)
  BY ChainDomain DEF AuditInv
<1>1. ASSUME NEW i \in DOMAIN chain, NEW event, ModifyEvent(i, event) PROVE FALSE
  <2> DEFINE new == [chain[i] EXCEPT !.event = event]
             d == [chain EXCEPT ![i] = new]
  <2>1. chain' = d /\ chain[i].event # event BY <1>1 DEF ModifyEvent
  <2>2. new.event = event /\ new.prev = chain[i].prev /\ new.hash = chain[i].hash
    BY DEF EntriesAreEvents, IsEvent
  <2> HIDE DEF new
  <2>3. DOMAIN d = DOMAIN chain /\ d[i] = new BY <1>0, ExceptFacts
  <2>4. IsChain(d) BY <1>0, ExceptIsChain
  <2> HIDE DEF d
  <2>5. chain[i].hash = Append(new.prev, event) BY <2>1, <2>2, <2>3, <2>4, HashTellsPlace
  <2>6. /\ chain[i].hash = Append(new.prev, chain[i].event) /\ IsChain(new.prev)
    BY <1>0, <2>2, HashTellsPlace
  <2>7. \A x : Append(new.prev, x)[Len(new.prev) + 1] = x BY <2>6, AppendFacts
  <2>8. event = chain[i].event BY <2>5, <2>6, <2>7
  <2> QED BY <2>1, <2>8
<1>2. ASSUME NEW i \in DOMAIN chain, NEW j \in DOMAIN chain, SwapEvents(i, j) PROVE FALSE
  <2> DEFINE c == [chain EXCEPT ![i] = chain[j]]
             d == [c EXCEPT ![j] = chain[i]]
  <2>1. chain' = d /\ i # j BY <1>2 DEF SwapEvents
  <2>2. IsChain(c) /\ DOMAIN c = DOMAIN chain BY <1>0, ExceptIsChain
  <2>3. DOMAIN d = DOMAIN chain /\ d[j] = chain[i] BY <1>0
  <2> HIDE DEF c
  <2>4. IsChain(d) BY <2>2, ExceptIsChain
  <2> HIDE DEF d
  <2>5. Len(chain[i].prev) = j - 1 BY <2>1, <2>3, <2>4, HashTellsPlace
  <2>6. Len(chain[i].prev) = i - 1 BY <1>0, HashTellsPlace
  <2> QED BY <1>0, <2>1, <2>5, <2>6
<1>3. ASSUME NEW i \in DOMAIN chain, RemoveEvent(i) PROVE IsPrefix(chain', chain)
  <2> DEFINE d == RemoveAt(chain, i)
  <2>1. chain' = d BY <1>3 DEF RemoveEvent
  <2>2. /\ IsChain(d) /\ Len(d) = Len(chain) - 1
        /\ \A j \in 1 .. Len(chain) - 1 :
             d[j] = IF j < i THEN chain[j] ELSE chain[j + 1]
    BY <1>0, RemoveIsChain, RemoveFacts
  <2> HIDE DEF d
  <2>3. DOMAIN d = 1 .. Len(chain) - 1 BY <2>2, ChainDomain
  <2>4. CASE i < Len(chain)
    <3>1. i \in DOMAIN d /\ d[i] = chain[i + 1] /\ i + 1 \in DOMAIN chain
      BY <1>0, <2>2, <2>3, <2>4
    <3>2. Len(chain[i + 1].prev) = i - 1 BY <2>1, <2>2, <3>1, HashTellsPlace
    <3>3. Len(chain[i + 1].prev) = (i + 1) - 1 BY <1>0, <3>1, HashTellsPlace
    <3> QED BY <1>0, <3>2, <3>3
  <2>5. CASE i = Len(chain)
    <3>1. Len(d) <= Len(chain) /\ \A j \in 1 .. Len(d) : d[j] = chain[j]
      BY <1>0, <2>2, <2>5
    <3> QED BY <1>0, <2>1, <2>2, <3>1, PrefixPointwise
  <2> QED BY <1>0, <2>4, <2>5
<1> QED BY <1>1, <1>2, <1>3 DEF Tamper

(* However long the trail, an edit of it that verifies has removed its     *)
(* last event and nothing else.                                            *)
THEOREM EditsAreFound == Spec => TamperEvident
<1>1. Init => EntriesAreEvents
  <2>1. DOMAIN <<>> = {} BY EmptyChain, ChainDomain
  <2> QED BY <2>1 DEF Init, EntriesAreEvents
<1>2. Spec => []EntriesAreEvents
  BY <1>1, EntriesStay, Invariance, PTL DEF Spec
<1>3. AuditInv /\ EntriesAreEvents /\ [Next]_vars =>
        [Tamper /\ VerifyAuditChain(chain) /\ VerifyAuditChain(chain') =>
           IsPrefix(chain', chain)]_vars
  BY TamperFound
<1> QED BY <1>2, <1>3, Invariance, PTL DEF Spec, TamperEvident
============================================================================
