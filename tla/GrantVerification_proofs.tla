---------------------- MODULE GrantVerification_proofs ----------------------
(***************************************************************************)
(* Theorems about GrantVerification for every set of key versions, every   *)
(* lifetime, tolerance and difference of the clocks.                       *)
(***************************************************************************)
EXTENDS GrantVerificationProperties, TLAPS

---------------------------------------------------------------------------
(* The type invariant. *)

LEMMA InitType == Init => TypeOK
<1> SUFFICES ASSUME Init PROVE TypeOK OBVIOUS
<1>1. 0 \in Time BY TimesAssumption DEF Time
<1> QED BY <1>1 DEF Init, TypeOK

LEMMA NoteDownType ==
  ASSUME TypeOK, clock' \in Time, NoteDown
  PROVE  lastDown' \in [Kids -> Time \cup {Never}]
  BY DEF TypeOK, NoteDown

LEMMA TimeCheckType ==
  ASSUME NEW t \in Token, NEW now \in Int
  PROVE  /\ TimeCheck(t, now) \in Codes
         /\ TimeCheck(t, now) # "GRANT_INVALID_SIGNATURE"
  BY DEF TimeCheck, Codes

LEMMA AnswerType ==
  ASSUME TypeOK, NEW t \in Token, NEW code \in Codes, NEW came \in Time, Answer(t, code, came)
  PROVE  reply' \in Reply /\ trusted' \subseteq Kids
<1>1. reply' = [token |-> t, code |-> code, came |-> came, at |-> clock] BY DEF Answer
<1>2. reply' \in Reply BY <1>1 DEF TypeOK, Reply
<1>3. trusted' \subseteq Kids BY DEF TypeOK, Answer, Token
<1> QED BY <1>2, <1>3

LEMMA NextType == TypeOK /\ [Next]_vars => TypeOK'
<1> SUFFICES ASSUME TypeOK, [Next]_vars PROVE TypeOK' OBVIOUS
<1> USE DEF TypeOK
<1>1. CASE Tick
  <2>1. clock' \in Time BY <1>1, TimesAssumption DEF Tick, Time
  <2>2. lastDown' \in [Kids -> Time \cup {Never}] BY <1>1, <2>1, NoteDownType DEF Tick
  <2> QED BY <1>1, <2>1, <2>2 DEF Tick, issuer, process, NoAnswer
<1>2. CASE Outage
  <2>1. lastDown' \in [Kids -> Time \cup {Never}] BY <1>2, NoteDownType DEF Outage
  <2> QED BY <1>2, <2>1 DEF Outage, issuer, process, NoAnswer
<1>3. ASSUME NEW k \in Kids, EnableVersion(k) \/ DisableVersion(k) PROVE TypeOK'
  <2>1. clock' = clock /\ NoteDown
    BY <1>3 DEF EnableVersion, DisableVersion, SetVersion
  <2>2. lastDown' \in [Kids -> Time \cup {Never}] BY <2>1, NoteDownType
  <2> QED BY <1>3, <2>2 DEF EnableVersion, DisableVersion, SetVersion, issuer, process, NoAnswer
<1>4. ASSUME NEW k \in Kids, ConfigureSigner(k) PROVE TypeOK'
  BY <1>4 DEF ConfigureSigner, keyStore, process, NoAnswer
<1>5. ASSUME NEW k \in Kids, StartGateway(k) PROVE TypeOK'
  BY <1>5 DEF StartGateway, keyStore, issuer, NoAnswer
<1>6. CASE SignGrant
  <2>1. [kid |-> signer, iat |-> clock, exp |-> clock + GrantTtl] \in Token
    BY TimesAssumption DEF Token, Time
  <2> QED BY <1>6, <2>1 DEF SignGrant, keyStore, process, NoAnswer
<1>7. CASE Crash
  BY <1>7 DEF Crash, keyStore, issuer, NoAnswer
<1>8. ASSUME NEW t \in tokens, VerifyKnown(t) PROVE TypeOK'
  <2>1. TimeCheck(t, clock + drift) \in Codes BY TimeCheckType DEF Time
  <2>2. reply' \in Reply /\ trusted' \subseteq Kids BY <1>8, <2>1, AnswerType DEF VerifyKnown
  <2> QED BY <1>8, <2>2 DEF VerifyKnown, keyStore, issuer
<1>9. ASSUME NEW t \in tokens, RefuseRecentFailure(t) PROVE TypeOK'
  <2>1. reply' \in Reply /\ trusted' \subseteq Kids
    BY <1>9, AnswerType DEF RefuseRecentFailure, Codes
  <2> QED BY <1>9, <2>1 DEF RefuseRecentFailure, keyStore, issuer
<1>10. ASSUME NEW t \in tokens, AskKms(t) PROVE TypeOK'
  <2>1. lookup' \in Lookup BY <1>10 DEF AskKms, Lookup
  <2>2. lookups' \in [Kids -> Nat] BY <1>10 DEF AskKms, Token
  <2> QED BY <1>10, <2>1, <2>2 DEF AskKms, keyStore, issuer, NoAnswer
<1>11. CASE LookupSucceeds
  <2>1. lookup.token \in Token /\ lookup.came \in Time
    BY <1>11 DEF LookupSucceeds, Lookup
  <2>2. TimeCheck(lookup.token, lookup.came + drift) \in Codes
    BY <2>1, TimeCheckType DEF Time
  <2>3. reply' \in Reply /\ trusted' \subseteq Kids
    BY <1>11, <2>1, <2>2, AnswerType DEF LookupSucceeds
  <2> QED BY <1>11, <2>1, <2>3 DEF LookupSucceeds, RegisterPublicKey, Token, keyStore, issuer
<1>12. CASE LookupFails
  <2>1. lookup.token \in Token /\ lookup.came \in Time
    BY <1>12 DEF LookupFails, Lookup
  <2>2. reply' \in Reply /\ trusted' \subseteq Kids
    BY <1>12, <2>1, AnswerType DEF LookupFails, Codes
  <2>3. RefuseUntil(lookup.token.kid, lookup.came) \in Nat
    BY <2>1, TimesAssumption DEF RefuseUntil, Time
  <2>4. negativeUntil' \in [Kids -> Nat] BY <1>12, <2>3 DEF LookupFails
  <2> QED BY <1>12, <2>2, <2>4 DEF LookupFails, keyStore, issuer
<1>13. CASE UNCHANGED vars BY <1>13 DEF vars, keyStore, issuer, process
<1> QED BY <1>1, <1>2, <1>3, <1>4, <1>5, <1>6, <1>7, <1>8, <1>9, <1>10, <1>11, <1>12,
           <1>13 DEF Next, Verify

(* TypeOK of the run "key_rotation": what the verifier and KMS hold.       *)
THEOREM VerificationTypes == Spec => []TypeOK
  BY InitType, NextType, PTL DEF Spec

---------------------------------------------------------------------------
(* The inductive invariant. *)

(* lastDown is up to date: a key KMS does not give out is down now.        *)
DownIsNoted ==
  \A k \in Kids : /\ lastDown[k] # Never => lastDown[k] <= clock
                  /\ ~Available(k) => lastDown[k] = clock

(* Nothing comes from the future of the control plane's clock. *)
PastOnly == started <= clock /\ \A t \in tokens : t.iat <= clock

(* A failure that is still remembered was one of KMS. *)
FailureWasKms ==
  \A k \in Kids : clock < negativeUntil[k] =>
    lastDown[k] # Never /\ negativeUntil[k] <= lastDown[k] + NegativeTtl

(* An open lookup is of an unknown key, and was not too early. *)
LookupOpen ==
  lookup # NoToken =>
    /\ up /\ lookup.token.kid \notin publicKeys
    /\ lookup.token.iat <= lookup.came /\ lookup.came <= clock
    /\ lookups[lookup.token.kid] > 0
    /\ NegativeTtl * (lookups[lookup.token.kid] - 1) <= lookup.came - started

(* The lookups of an unknown key that have ended bar it long enough. *)
LookupsSpaced ==
  up => \A k \in Kids \ publicKeys :
    lookups[k] > 0 /\ (lookup # NoToken => lookup.token.kid # k) =>
      NegativeTtl * lookups[k] <= negativeUntil[k] - started

TrustedKnown == trusted \subseteq publicKeys

VerificationInv ==
  /\ TypeOK /\ DownIsNoted /\ PastOnly /\ FailureWasKms /\ LookupOpen
  /\ LookupsSpaced /\ TrustedKnown
  /\ RefusedOnlyForKms /\ ClocksMayDiffer /\ KmsAskedSeldom

LEMMA InitInv == Init => VerificationInv
<1> SUFFICES ASSUME Init PROVE VerificationInv OBVIOUS
<1>1. TypeOK BY InitType
<1>2. DownIsNoted BY DEF Init, DownIsNoted, Available
<1>3. PastOnly BY DEF Init, PastOnly
<1>4. FailureWasKms BY DEF Init, FailureWasKms
<1>5. LookupOpen BY DEF Init, LookupOpen
<1>6. LookupsSpaced BY DEF Init, LookupsSpaced
<1>7. TrustedKnown BY DEF Init, TrustedKnown
<1>8. RefusedOnlyForKms /\ ClocksMayDiffer
  BY DEF Init, RefusedOnlyForKms, ClocksMayDiffer, Answered
<1>9. KmsAskedSeldom BY DEF Init, KmsAskedSeldom
<1> QED BY <1>1, <1>2, <1>3, <1>4, <1>5, <1>6, <1>7, <1>8, <1>9 DEF VerificationInv

(* No answer, no claim about it. *)
LEMMA NoAnswerKeeps == NoAnswer => RefusedOnlyForKms' /\ ClocksMayDiffer'
  BY DEF NoAnswer, RefusedOnlyForKms, ClocksMayDiffer, Answered

(* Time and KMS may do what they like: the process is not touched. *)
LEMMA KmsStepKeeps ==
  ASSUME VerificationInv, TypeOK', clock' \in {clock, clock + 1}, NoteDown, NoAnswer,
         UNCHANGED <<drift, issuer, process>>
  PROVE  VerificationInv'
<1> USE DEF VerificationInv, TypeOK, Time
<1>1. DownIsNoted'
  <2> SUFFICES ASSUME NEW k \in Kids
               PROVE  /\ lastDown'[k] # Never => lastDown'[k] <= clock'
                      /\ ~Available(k)' => lastDown'[k] = clock'
    BY DEF DownIsNoted
  <2> QED BY DEF NoteDown, Available, DownIsNoted
<1>2. PastOnly' BY DEF PastOnly, issuer, process, Token
<1>3. FailureWasKms'
  <2> SUFFICES ASSUME NEW k \in Kids, clock' < negativeUntil'[k]
               PROVE  lastDown'[k] # Never /\ negativeUntil'[k] <= lastDown'[k] + NegativeTtl
    BY DEF FailureWasKms
  <2>1. clock < negativeUntil[k] /\ negativeUntil' = negativeUntil BY DEF process
  <2>2. lastDown[k] # Never /\ negativeUntil[k] <= lastDown[k] + NegativeTtl
    BY <2>1 DEF FailureWasKms
  <2>3. lastDown'[k] = lastDown[k] \/ lastDown'[k] = clock' BY DEF NoteDown
  <2>4. lastDown[k] <= clock BY <2>2 DEF DownIsNoted
  <2> QED BY <2>1, <2>2, <2>3, <2>4, TimesAssumption, NeverAssumption
<1>4. LookupOpen' BY DEF LookupOpen, process, Lookup
<1>5. LookupsSpaced' BY DEF LookupsSpaced, process
<1>6. TrustedKnown' BY DEF TrustedKnown, process
<1>7. KmsAskedSeldom'
  <2> SUFFICES ASSUME NEW k \in Kids, lookups'[k] > 0
               PROVE  NegativeTtl * (lookups'[k] - 1) <= clock' - started'
    BY DEF KmsAskedSeldom
  <2>1. lookups' = lookups /\ started' = started BY DEF process
  <2>2. NegativeTtl * (lookups[k] - 1) <= clock - started BY <2>1 DEF KmsAskedSeldom
  <2>3. NegativeTtl * (lookups[k] - 1) \in Int BY TimesAssumption
  <2> QED BY <2>1, <2>2, <2>3
<1> QED BY <1>1, <1>2, <1>3, <1>4, <1>5, <1>6, <1>7, NoAnswerKeeps

(* What the answers of TimeCheck say of the two clocks. *)
LEMMA TimeCheckKeeps ==
  ASSUME VerificationInv, NEW t \in Token, NEW came \in Time,
         t.iat <= came, Answer(t, TimeCheck(t, came + drift), came), UNCHANGED drift
  PROVE  RefusedOnlyForKms' /\ ClocksMayDiffer'
<1> DEFINE code == TimeCheck(t, came + drift)
<1>1. reply' = [token |-> t, code |-> code, came |-> came, at |-> clock] BY DEF Answer
<1>2. /\ came \in Int /\ drift \in Int /\ t.iat \in Int /\ t.exp \in Int
      /\ -MaxDrift <= drift /\ drift <= MaxDrift
  BY TimesAssumption DEF VerificationInv, TypeOK, Time, Token
<1>3. code = "GRANT_NOT_YET_VALID" => came + drift + Skew < t.iat BY DEF TimeCheck
<1>4. code = "GRANT_EXPIRED" => came + drift >= t.exp BY DEF TimeCheck
<1>5. code = "accepted" => came + drift < t.exp BY <1>2 DEF TimeCheck
<1>6. code # "GRANT_INVALID_SIGNATURE" BY <1>2, TimeCheckType
<1> HIDE DEF code
<1>7. code = "GRANT_NOT_YET_VALID" => Behind > Skew
  BY <1>2, <1>3, TimesAssumption DEF Behind
<1>8. code = "GRANT_EXPIRED" => came + Ahead >= t.exp
  BY <1>2, <1>4, TimesAssumption DEF Ahead
<1>9. code = "accepted" => came < t.exp + Behind
  BY <1>2, <1>5, TimesAssumption DEF Behind
<1>10. Behind' = Behind /\ Ahead' = Ahead BY DEF Behind, Ahead
<1> QED BY <1>1, <1>6, <1>7, <1>8, <1>9, <1>10 DEF ClocksMayDiffer, RefusedOnlyForKms, Answered

(* A refusal for the signature while KMS has just been down. *)
LEMMA RefusalKeeps ==
  ASSUME VerificationInv, NEW t \in Token, NEW came \in Time,
         Answer(t, "GRANT_INVALID_SIGNATURE", came), UNCHANGED lastDown,
         lastDown[t.kid] # Never, clock < lastDown[t.kid] + NegativeTtl
  PROVE  RefusedOnlyForKms' /\ ClocksMayDiffer' /\ trusted' = trusted
  BY DEF Answer, RefusedOnlyForKms, ClocksMayDiffer, Answered

(* The parts that no step of the process disturbs. *)
LEMMA ClockKeeps ==
  ASSUME VerificationInv, UNCHANGED <<clock, keyStore, tokens>>, started' <= clock'
  PROVE  DownIsNoted' /\ PastOnly'
<1>1. DownIsNoted' BY DEF VerificationInv, DownIsNoted, Available, keyStore
<1>2. PastOnly' BY DEF VerificationInv, PastOnly
<1> QED BY <1>1, <1>2

---------------------------------------------------------------------------
(* The steps of the services. *)

LEMMA IssuerKeeps ==
  ASSUME VerificationInv, TypeOK', SignGrant \/ \E k \in Kids : ConfigureSigner(k)
  PROVE  VerificationInv'
<1>1. UNCHANGED <<clock, drift, keyStore, process>> /\ NoAnswer
  BY DEF SignGrant, ConfigureSigner
<1>2. DownIsNoted' BY <1>1 DEF VerificationInv, DownIsNoted, Available, keyStore
<1>3. PastOnly'
  <2>1. \A t \in tokens' : t \in tokens \/ t.iat = clock BY DEF SignGrant, ConfigureSigner
  <2>2. started' = started /\ clock' = clock BY <1>1 DEF process
  <2>3. clock \in Int BY DEF VerificationInv, TypeOK, Time
  <2> QED BY <2>1, <2>2, <2>3 DEF VerificationInv, PastOnly
<1>4. FailureWasKms' BY <1>1 DEF VerificationInv, FailureWasKms, process, keyStore
<1>5. LookupOpen' BY <1>1 DEF VerificationInv, LookupOpen, process
<1>6. LookupsSpaced' BY <1>1 DEF VerificationInv, LookupsSpaced, process
<1>7. TrustedKnown' BY <1>1 DEF VerificationInv, TrustedKnown, process
<1>8. KmsAskedSeldom' BY <1>1 DEF VerificationInv, KmsAskedSeldom, process
<1> QED BY <1>1, <1>2, <1>3, <1>4, <1>5, <1>6, <1>7, <1>8, NoAnswerKeeps DEF VerificationInv

LEMMA CrashKeeps ==
  ASSUME VerificationInv, TypeOK', Crash
  PROVE  VerificationInv'
<1> USE DEF VerificationInv, Crash
<1>1. DownIsNoted' /\ PastOnly' BY ClockKeeps DEF PastOnly, issuer
<1>2. FailureWasKms' BY DEF FailureWasKms, keyStore
<1>3. LookupOpen' /\ LookupsSpaced' BY DEF LookupOpen, LookupsSpaced
<1>4. TrustedKnown' BY DEF TrustedKnown
<1>5. KmsAskedSeldom' BY DEF KmsAskedSeldom
<1> QED BY <1>1, <1>2, <1>3, <1>4, <1>5, NoAnswerKeeps

LEMMA StartKeeps ==
  ASSUME VerificationInv, TypeOK', NEW k \in Kids, StartGateway(k)
  PROVE  VerificationInv'
<1> USE DEF VerificationInv, StartGateway
<1>1. clock \in Nat BY TimesAssumption DEF TypeOK, Time
<1>2. DownIsNoted' /\ PastOnly' BY <1>1, ClockKeeps DEF issuer
<1>3. FailureWasKms' BY <1>1 DEF FailureWasKms
<1>4. LookupOpen' BY DEF LookupOpen
<1>5. LookupsSpaced' BY DEF LookupsSpaced
<1>6. TrustedKnown' BY DEF TrustedKnown
<1>7. KmsAskedSeldom' BY DEF KmsAskedSeldom
<1> QED BY <1>2, <1>3, <1>4, <1>5, <1>6, <1>7, NoAnswerKeeps

LEMMA VerifyKnownKeeps ==
  ASSUME VerificationInv, TypeOK', NEW t \in tokens, VerifyKnown(t)
  PROVE  VerificationInv'
<1> USE DEF VerificationInv, VerifyKnown
<1>1. t \in Token /\ clock \in Time /\ t.iat <= clock BY DEF TypeOK, PastOnly
<1>2. RefusedOnlyForKms' /\ ClocksMayDiffer' BY <1>1, TimeCheckKeeps
<1>3. DownIsNoted' /\ PastOnly' BY ClockKeeps DEF PastOnly, issuer
<1>4. FailureWasKms' BY DEF FailureWasKms, keyStore
<1>5. LookupOpen' BY DEF LookupOpen
<1>6. LookupsSpaced' BY DEF LookupsSpaced
<1>7. TrustedKnown' BY DEF TrustedKnown, Answer
<1>8. KmsAskedSeldom' BY DEF KmsAskedSeldom
<1> QED BY <1>2, <1>3, <1>4, <1>5, <1>6, <1>7, <1>8

LEMMA RefuseKeeps ==
  ASSUME VerificationInv, TypeOK', NEW t \in tokens, RefuseRecentFailure(t)
  PROVE  VerificationInv'
<1> USE DEF VerificationInv, RefuseRecentFailure
<1>1. t \in Token /\ t.kid \in Kids /\ clock \in Time BY DEF TypeOK, Token
<1>2. lastDown[t.kid] # Never /\ clock < lastDown[t.kid] + NegativeTtl
  <2>1. clock < negativeUntil[t.kid] BY <1>1 DEF MayAsk, TypeOK, Time
  <2>2. lastDown[t.kid] # Never /\ negativeUntil[t.kid] <= lastDown[t.kid] + NegativeTtl
    BY <1>1, <2>1 DEF FailureWasKms
  <2> QED BY <1>1, <2>1, <2>2, TimesAssumption DEF TypeOK, Time
<1>3. UNCHANGED lastDown BY DEF keyStore
<1>4. RefusedOnlyForKms' /\ ClocksMayDiffer' /\ trusted' = trusted
  BY <1>1, <1>2, <1>3, RefusalKeeps
<1>5. DownIsNoted' /\ PastOnly' BY ClockKeeps DEF PastOnly, issuer
<1>6. FailureWasKms' BY DEF FailureWasKms, keyStore
<1>7. LookupOpen' BY DEF LookupOpen
<1>8. LookupsSpaced' BY DEF LookupsSpaced
<1>9. TrustedKnown' BY <1>4 DEF TrustedKnown
<1>10. KmsAskedSeldom' BY DEF KmsAskedSeldom
<1> QED BY <1>4, <1>5, <1>6, <1>7, <1>8, <1>9, <1>10

LEMMA AskKeeps ==
  ASSUME VerificationInv, TypeOK', NEW t \in tokens, AskKms(t)
  PROVE  VerificationInv'
<1> USE DEF VerificationInv, AskKms
<1> DEFINE k == t.kid
           n == lookups[k]
<1>1. /\ t \in Token /\ k \in Kids /\ n \in Nat /\ clock \in Int /\ started \in Int
      /\ negativeUntil[k] \in Int /\ negativeUntil[k] <= clock
      /\ started <= clock /\ t.iat <= clock
  BY DEF TypeOK, Token, Time, MayAsk, PastOnly
<1>2. k \notin publicKeys /\ up /\ lookup = NoToken BY DEF Idle
<1>3. lookups'[k] = n + 1 /\ \A i \in Kids \ {k} : lookups'[i] = lookups[i]
  BY <1>1 DEF TypeOK
<1>4. NegativeTtl * n <= clock - started
  <2>1. CASE n = 0 BY <2>1, <1>1, TimesAssumption
  <2>2. CASE n > 0
    <3>1. NegativeTtl * n <= negativeUntil[k] - started BY <1>1, <1>2, <2>2 DEF LookupsSpaced
    <3>2. NegativeTtl * n \in Int BY <1>1, TimesAssumption
    <3> QED BY <1>1, <3>1, <3>2
  <2> QED BY <1>1, <2>1, <2>2
<1>5. (n + 1) - 1 = n BY <1>1
<1>6. lookup'.token = t /\ lookup'.came = clock /\ lookup' # NoToken
  <2>1. lookup' = [token |-> t, came |-> clock] OBVIOUS
  <2>2. lookup' \in Lookup BY <1>1, <2>1 DEF TypeOK, Lookup
  <2> QED BY <2>1, <2>2, NoTokenAssumption
<1>7. LookupOpen' BY <1>1, <1>2, <1>3, <1>4, <1>5, <1>6 DEF LookupOpen
<1>8. LookupsSpaced' BY <1>2, <1>3, <1>6 DEF LookupsSpaced
<1>9. KmsAskedSeldom' BY <1>1, <1>3, <1>4, <1>5 DEF KmsAskedSeldom
<1>10. DownIsNoted' /\ PastOnly' BY ClockKeeps DEF PastOnly, issuer
<1>11. FailureWasKms' BY DEF FailureWasKms, keyStore
<1>12. TrustedKnown' BY DEF TrustedKnown
<1> QED BY <1>7, <1>8, <1>9, <1>10, <1>11, <1>12, NoAnswerKeeps

LEMMA LookupSucceedsKeeps ==
  ASSUME VerificationInv, TypeOK', LookupSucceeds
  PROVE  VerificationInv'
<1> USE DEF VerificationInv, LookupSucceeds
<1>1. /\ lookup.token \in Token /\ lookup.came \in Time
      /\ lookup.token.iat <= lookup.came
  BY DEF TypeOK, Lookup, LookupOpen
<1>2. RefusedOnlyForKms' /\ ClocksMayDiffer' BY <1>1, TimeCheckKeeps
<1>3. DownIsNoted' /\ PastOnly' BY ClockKeeps DEF PastOnly, issuer
<1>4. FailureWasKms' BY DEF FailureWasKms, keyStore
<1>5. LookupOpen' BY DEF LookupOpen
<1>6. publicKeys' = publicKeys \cup {lookup.token.kid} BY DEF RegisterPublicKey
<1>7. LookupsSpaced' BY <1>6 DEF LookupsSpaced
<1>8. TrustedKnown' BY <1>6 DEF TrustedKnown, Answer
<1>9. KmsAskedSeldom' BY DEF KmsAskedSeldom
<1> QED BY <1>2, <1>3, <1>4, <1>5, <1>7, <1>8, <1>9

LEMMA LookupFailsKeeps ==
  ASSUME VerificationInv, TypeOK', LookupFails
  PROVE  VerificationInv'
<1> USE DEF VerificationInv, LookupFails
<1> DEFINE k == lookup.token.kid
           n == lookups[k]
           until == lookup.came + NegativeTtl
<1>1. /\ lookup.token \in Token /\ lookup.came \in Time /\ k \in Kids /\ n \in Nat
      /\ clock \in Time /\ lookup.came <= clock /\ started \in Int
  BY DEF TypeOK, Lookup, Token, Time, LookupOpen
<1>2. lastDown[k] = clock BY <1>1 DEF DownIsNoted
<1>3. lastDown[k] # Never /\ clock < lastDown[k] + NegativeTtl
  BY <1>1, <1>2, TimesAssumption, NeverAssumption DEF Time
<1>4. UNCHANGED lastDown BY DEF keyStore
<1>5. RefusedOnlyForKms' /\ ClocksMayDiffer' /\ trusted' = trusted
  BY <1>1, <1>3, <1>4, RefusalKeeps
<1>6. /\ negativeUntil'[k] = until
      /\ \A i \in Kids \ {k} : negativeUntil'[i] = negativeUntil[i]
  BY <1>1 DEF TypeOK, RefuseUntil
<1>7. FailureWasKms'
  <2>1. until <= lastDown'[k] + NegativeTtl BY <1>1, <1>2, <1>4, TimesAssumption DEF Time
  <2> QED BY <1>3, <1>4, <1>6, <2>1 DEF FailureWasKms
<1>8. DownIsNoted' /\ PastOnly' BY ClockKeeps DEF PastOnly, issuer
<1>9. LookupOpen' BY DEF LookupOpen
<1>10. LookupsSpaced'
  <2> SUFFICES ASSUME up, NEW i \in Kids \ publicKeys, lookups[i] > 0
               PROVE  NegativeTtl * lookups[i] <= negativeUntil'[i] - started
    BY DEF LookupsSpaced
  <2>1. CASE i = k
    <3>1. NegativeTtl * (n - 1) <= lookup.came - started BY DEF LookupOpen
    <3>2. NegativeTtl * n = NegativeTtl * (n - 1) + NegativeTtl BY <1>1, TimesAssumption
    <3>3. NegativeTtl * (n - 1) \in Int BY <1>1, TimesAssumption
    <3> QED BY <1>1, <1>6, <2>1, <3>1, <3>2, <3>3, TimesAssumption DEF Time
  <2>2. CASE i # k BY <1>6, <2>2 DEF LookupsSpaced
  <2> QED BY <2>1, <2>2
<1>11. TrustedKnown' BY <1>5 DEF TrustedKnown
<1>12. KmsAskedSeldom' BY DEF KmsAskedSeldom
<1> QED BY <1>5, <1>7, <1>8, <1>9, <1>10, <1>11, <1>12

LEMMA NextKeeps == VerificationInv /\ [Next]_vars => VerificationInv'
<1> SUFFICES ASSUME VerificationInv, [Next]_vars PROVE VerificationInv' OBVIOUS
<1>1. TypeOK' BY NextType DEF VerificationInv
<1>2. CASE Tick
  <2>1. clock' \in {clock, clock + 1} BY <1>2 DEF Tick
  <2> QED BY <1>1, <1>2, <2>1, KmsStepKeeps DEF Tick
<1>3. CASE Outage
  <2>1. clock' \in {clock, clock + 1} BY <1>3 DEF Outage
  <2> QED BY <1>1, <1>3, <2>1, KmsStepKeeps DEF Outage
<1>4. ASSUME NEW k \in Kids, EnableVersion(k) \/ DisableVersion(k) PROVE VerificationInv'
  <2>1. clock' \in {clock, clock + 1} /\ NoteDown /\ NoAnswer
        /\ UNCHANGED <<drift, issuer, process>>
    BY <1>4 DEF EnableVersion, DisableVersion, SetVersion
  <2> QED BY <1>1, <2>1, KmsStepKeeps
<1>5. CASE SignGrant \/ \E k \in Kids : ConfigureSigner(k) BY <1>1, <1>5, IssuerKeeps
<1>6. CASE Crash BY <1>1, <1>6, CrashKeeps
<1>7. ASSUME NEW k \in Kids, StartGateway(k) PROVE VerificationInv' BY <1>1, <1>7, StartKeeps
<1>8. ASSUME NEW t \in tokens, Verify(t) PROVE VerificationInv'
  BY <1>1, <1>8, VerifyKnownKeeps, RefuseKeeps, AskKeeps DEF Verify
<1>9. CASE LookupSucceeds BY <1>1, <1>9, LookupSucceedsKeeps
<1>10. CASE LookupFails BY <1>1, <1>10, LookupFailsKeeps
<1>11. CASE UNCHANGED vars
  <2>1. /\ DownIsNoted' /\ PastOnly' /\ FailureWasKms' /\ LookupOpen' /\ LookupsSpaced'
        /\ TrustedKnown' /\ KmsAskedSeldom'
    BY <1>11 DEF VerificationInv, DownIsNoted, Available, PastOnly, FailureWasKms, LookupOpen,
       LookupsSpaced, TrustedKnown, KmsAskedSeldom, vars, keyStore, issuer, process
  <2>2. RefusedOnlyForKms' /\ ClocksMayDiffer'
    BY <1>11 DEF VerificationInv, RefusedOnlyForKms, ClocksMayDiffer, Answered, Ahead, Behind,
       vars, keyStore
  <2> QED BY <1>1, <2>1, <2>2 DEF VerificationInv
<1> QED BY <1>2, <1>3, <1>4, <1>5, <1>6, <1>7, <1>8, <1>9, <1>10, <1>11 DEF Next

(* An unknown key is the only one a signature is refused for. *)
LEMMA RefusalIsOfUnknown ==
  ASSUME VerificationInv, [Next]_vars
  PROVE  [reply' # NoReply /\ reply'.code = "GRANT_INVALID_SIGNATURE" =>
            reply'.token.kid \notin trusted]_vars
<1> SUFFICES ASSUME Next, reply' # NoReply, reply'.code = "GRANT_INVALID_SIGNATURE"
             PROVE  reply'.token.kid \notin publicKeys
  BY DEF VerificationInv, TrustedKnown
<1>1. ~NoAnswer BY DEF NoAnswer
<1>2. ASSUME NEW t \in tokens, Verify(t) PROVE reply'.token.kid \notin publicKeys
  <2>1. CASE VerifyKnown(t)
    <3>1. reply'.code = TimeCheck(t, clock + drift) BY <2>1 DEF VerifyKnown, Answer
    <3>2. t \in Token /\ clock + drift \in Int BY DEF VerificationInv, TypeOK, Time
    <3> QED BY <3>1, <3>2, TimeCheckType
  <2>2. CASE RefuseRecentFailure(t) BY <2>2 DEF RefuseRecentFailure, Answer
  <2>3. CASE AskKms(t) BY <1>1, <2>3 DEF AskKms
  <2> QED BY <1>2, <2>1, <2>2, <2>3 DEF Verify
<1>3. CASE LookupSucceeds
  <2>1. reply'.code = TimeCheck(lookup.token, lookup.came + drift)
    BY <1>3 DEF LookupSucceeds, Answer
  <2>2. lookup.token \in Token /\ lookup.came + drift \in Int
    BY <1>3 DEF LookupSucceeds, VerificationInv, TypeOK, Lookup, Time
  <2> QED BY <2>1, <2>2, TimeCheckType
<1>4. CASE LookupFails
  BY <1>4 DEF LookupFails, Answer, VerificationInv, LookupOpen
<1> QED BY <1>1, <1>2, <1>3, <1>4 DEF Next, Tick, Outage, EnableVersion, DisableVersion,
           SetVersion, ConfigureSigner, StartGateway, SignGrant, Crash

---------------------------------------------------------------------------
(* The theorems. *)

LEMMA InvHolds == Spec => []VerificationInv
  BY InitInv, NextKeeps, PTL DEF Spec

(* RefusedOnlyForKms: whatever the rotation, restarts and outages, only a  *)
(* failure of KMS within NegativeTtl makes a genuine signature refused.    *)
THEOREM RotationIsTransparent == Spec => []RefusedOnlyForKms
<1>1. VerificationInv => RefusedOnlyForKms BY DEF VerificationInv
<1> QED BY <1>1, InvHolds, PTL

(* ClocksMayDiffer: how far the answers of step 6 may be off.              *)
THEOREM DriftIsBounded == Spec => []ClocksMayDiffer
<1>1. VerificationInv => ClocksMayDiffer BY DEF VerificationInv
<1> QED BY <1>1, InvHolds, PTL

(* KmsAskedSeldom: one lookup of a key at once and one per NegativeTtl.    *)
THEOREM LookupsAreBounded == Spec => []KmsAskedSeldom
<1>1. VerificationInv => KmsAskedSeldom BY DEF VerificationInv
<1> QED BY <1>1, InvHolds, PTL

(* KnownKeysSurviveOutage: a key once accepted stays so while the process  *)
(* lives.                                                                  *)
THEOREM TrustLasts == Spec => KnownKeysSurviveOutage
  BY InvHolds, RefusalIsOfUnknown, PTL DEF Spec, KnownKeysSurviveOutage
=============================================================================
