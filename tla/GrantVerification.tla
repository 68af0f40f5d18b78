------------------------- MODULE GrantVerification -------------------------
(***************************************************************************)
(* Which grants the gateway believes: the control plane signs with one key *)
(* version of Cloud KMS, the operator adds and disables versions and moves *)
(* the services from one to the next, and each life of the gateway's       *)
(* process learns the public keys it needs as it meets them (steps 3, 4    *)
(* and 6 of execute).                                                      *)
(*                                                                         *)
(* The two services read different clocks; `clock' is the control plane's. *)
(* A lookup at KMS is a blocking call on the gateway's event loop: no      *)
(* other request of that process is served until it answers, but time      *)
(* passes and the other parties act.                                       *)
(***************************************************************************)
EXTENDS Integers, FiniteSets

CONSTANTS
  Kids,         \* names of key versions
  GrantTtl,     \* DF_GRANT_TTL_SECONDS, in ticks
  Skew,         \* DF_CLOCK_SKEW_SECONDS
  NegativeTtl,  \* how long CachedKeyResolver remembers a failure
  MaxDrift,     \* bound on how far apart the clocks are
  MaxTime,      \* bound on the clock
  MaxTokens,    \* bound on the grants signed
  NoToken, NoReply, Never

ASSUME TimesAssumption ==
  /\ GrantTtl \in Nat \ {0} /\ NegativeTtl \in Nat \ {0}
  /\ Skew \in Nat /\ MaxDrift \in Nat /\ MaxTime \in Nat /\ MaxTokens \in Nat
ASSUME NeverAssumption == Never \notin Int

VARIABLES
  clock,
  drift,        \* the gateway's clock minus the control plane's
  kms,          \* the state of each key version
  kmsUp,        \* does Cloud KMS answer?
  signer,       \* DF_KMS_KEY_VERSION of the control plane
  tokens,       \* the signed grants
  up,           \* does the gateway's process run?
  publicKeys,   \* the kids of JWSGrantVerifier._public_keys
  negativeUntil,\* CachedKeyResolver._negative_until
  lookup,       \* the lookup the process is blocked in
  reply,        \* what steps 3 to 6 answered, if the last step was an answer
  lastDown,     \* history: when KMS last would not give each key out
  started,      \* history: when this life of the process began
  lookups,      \* history: lookups of each kid in this life
  trusted       \* history: kids of the grants accepted in this life

keyStore == <<kms, kmsUp, lastDown>>
issuer   == <<signer, tokens>>
process  == <<up, publicKeys, negativeUntil, lookup, started, lookups, trusted>>
vars == <<clock, drift, keyStore, issuer, process, reply>>

---------------------------------------------------------------------------
Time == 0 .. MaxTime

Token == [kid : Kids, iat : Time, exp : Nat]

Codes == {"accepted", "GRANT_INVALID_SIGNATURE", "GRANT_NOT_YET_VALID", "GRANT_EXPIRED"}

(* came: when the request arrived; at: when it was answered. *)
Reply == [token : Token, code : Codes, came : Time, at : Time]

Lookup == [token : Token, came : Time]

ASSUME NoTokenAssumption == NoToken \notin Lookup /\ NoReply \notin Reply

(* The clocks, keys, grants and tables have the values declared above.     *)
TypeOK ==
  /\ clock \in Time
  /\ drift \in -MaxDrift .. MaxDrift
  /\ kms \in [Kids -> {"absent", "enabled", "disabled"}]
  /\ kmsUp \in BOOLEAN
  /\ signer \in Kids
  /\ tokens \subseteq Token
  /\ up \in BOOLEAN
  /\ publicKeys \subseteq Kids
  /\ negativeUntil \in [Kids -> Nat]
  /\ lookup \in Lookup \cup {NoToken}
  /\ reply \in Reply \cup {NoReply}
  /\ lastDown \in [Kids -> Time \cup {Never}]
  /\ started \in Time
  /\ lookups \in [Kids -> Nat]
  /\ trusted \subseteq Kids

NoAnswer == reply' = NoReply

(* get_public_key and asymmetric_sign need an enabled version. *)
Available(k) == kmsUp /\ kms[k] = "enabled"

(* lastDown once KMS is in the state kms', kmsUp' at the time clock'.      *)
NoteDown ==
  lastDown' = [k \in Kids |->
    IF kmsUp' /\ kms'[k] = "enabled" THEN lastDown[k] ELSE clock']

---------------------------------------------------------------------------
(* Cloud KMS and its operator. *)

Tick ==
  /\ clock < MaxTime
  /\ clock' = clock + 1
  /\ UNCHANGED <<drift, kms, kmsUp, issuer, process>>
  /\ NoAnswer
  /\ NoteDown

SetVersion(k, from, to) ==
  /\ kms[k] \in from
  /\ kms' = [kms EXCEPT ![k] = to]
  /\ UNCHANGED <<clock, drift, kmsUp, issuer, process>>
  /\ NoAnswer
  /\ NoteDown

EnableVersion(k)  == SetVersion(k, {"absent", "disabled"}, "enabled")
DisableVersion(k) == SetVersion(k, {"enabled"}, "disabled")

Outage ==
  /\ kmsUp' = ~kmsUp
  /\ UNCHANGED <<clock, drift, kms, issuer, process>>
  /\ NoAnswer
  /\ NoteDown

---------------------------------------------------------------------------
(* Control plane. *)

(* A new revision is deployed with another enabled version. *)
ConfigureSigner(k) ==
  /\ k # signer /\ kms[k] = "enabled"
  /\ signer' = k
  /\ UNCHANGED <<clock, drift, keyStore, tokens, process>>
  /\ NoAnswer

(* sign_grant: without KMS there is no grant.                              *)
SignGrant ==
  /\ Available(signer) /\ Cardinality(tokens) < MaxTokens
  /\ tokens' = tokens \cup {[kid |-> signer, iat |-> clock, exp |-> clock + GrantTtl]}
  /\ UNCHANGED <<clock, drift, keyStore, signer, process>>
  /\ NoAnswer

---------------------------------------------------------------------------
(* Execution gateway. *)

Crash ==
  /\ up
  /\ up' = FALSE
  /\ lookup' = NoToken
  /\ UNCHANGED <<clock, drift, keyStore, issuer, publicKeys, negativeUntil, started,
                 lookups, trusted>>
  /\ NoAnswer

(* create_app_from_env registers the configured version, which has to be   *)
(* read from KMS, or the process does not come up.                         *)
StartGateway(k) ==
  /\ ~up /\ Available(k)
  /\ up' = TRUE
  /\ publicKeys' = {k}
  /\ negativeUntil' = [kid \in Kids |-> 0]
  /\ started' = clock
  /\ lookups' = [kid \in Kids |-> 0]
  /\ trusted' = {}
  /\ UNCHANGED <<clock, drift, keyStore, issuer, lookup>>
  /\ NoAnswer

(* Mutant: the tolerance also lengthens the life of the grant. *)
LenientTimeCheck(t, now) ==
  CASE now + Skew < t.iat  -> "GRANT_NOT_YET_VALID"
    [] now >= t.exp + Skew -> "GRANT_EXPIRED"
    [] OTHER               -> "accepted"

(* Step 6, on the gateway's clock when the request came; nbf is iat.       *)
TimeCheck(t, now) ==
  CASE now + Skew < t.iat -> "GRANT_NOT_YET_VALID"
    [] now >= t.exp       -> "GRANT_EXPIRED"
    [] OTHER              -> "accepted"

Answer(t, code, came) ==
  /\ reply' = [token |-> t, code |-> code, came |-> came, at |-> clock]
  /\ trusted' = IF code = "accepted" THEN trusted \cup {t.kid} ELSE trusted

(* KMS is asked from the event loop: meanwhile no other request is read.   *)
Idle == up /\ lookup = NoToken

(* The key is registered: KMS is not asked. *)
VerifyKnown(t) ==
  /\ Idle /\ t.kid \in publicKeys
  /\ Answer(t, TimeCheck(t, clock + drift), clock)
  /\ UNCHANGED <<clock, drift, keyStore, issuer, up, publicKeys, negativeUntil, lookup,
                 started, lookups>>

(* Mutant: the failure is remembered, but not looked at. *)
AlwaysAsk(k) == k \in Kids

MayAsk(k) == clock >= negativeUntil[k]

(* A recent failure is repeated without asking. *)
RefuseRecentFailure(t) ==
  /\ Idle /\ t.kid \notin publicKeys /\ ~MayAsk(t.kid)
  /\ Answer(t, "GRANT_INVALID_SIGNATURE", clock)
  /\ UNCHANGED <<clock, drift, keyStore, issuer, up, publicKeys, negativeUntil, lookup,
                 started, lookups>>

(* CachedKeyResolver asks KMS.  Its table of keys is never hit: a key that *)
(* was found is registered, and a registered key is not resolved again.    *)
AskKms(t) ==
  /\ Idle /\ t.kid \notin publicKeys /\ MayAsk(t.kid)
  /\ lookup' = [token |-> t, came |-> clock]
  /\ lookups' = [lookups EXCEPT ![t.kid] = @ + 1]
  /\ UNCHANGED <<clock, drift, keyStore, issuer, up, publicKeys, negativeUntil, started,
                 trusted>>
  /\ NoAnswer

(* Mutant: the verifier keeps one key, the last one it found. *)
RegisterOnly(k) == publicKeys' = {k}

RegisterPublicKey(k) == publicKeys' = publicKeys \cup {k}

LookupSucceeds ==
  /\ lookup # NoToken /\ Available(lookup.token.kid)
  /\ RegisterPublicKey(lookup.token.kid)
  /\ Answer(lookup.token, TimeCheck(lookup.token, lookup.came + drift), lookup.came)
  /\ lookup' = NoToken
  /\ UNCHANGED <<clock, drift, keyStore, issuer, up, negativeUntil, started, lookups>>

(* Mutant: the sign of the interval. *)
RefuseBefore(k, now) == now - NegativeTtl

(* Mutant: a failure is remembered for ever. *)
RefuseForEver(k, now) == MaxTime + now + 1

RefuseUntil(k, now) == now + NegativeTtl

(* The failure is dated from the beginning of the call. *)
LookupFails ==
  /\ lookup # NoToken /\ ~Available(lookup.token.kid)
  /\ negativeUntil' = [negativeUntil EXCEPT
                         ![lookup.token.kid] = RefuseUntil(lookup.token.kid, lookup.came)]
  /\ Answer(lookup.token, "GRANT_INVALID_SIGNATURE", lookup.came)
  /\ lookup' = NoToken
  /\ UNCHANGED <<clock, drift, keyStore, issuer, up, publicKeys, started, lookups>>

---------------------------------------------------------------------------
(* Both services are deployed with the same first version.                 *)
Init ==
  /\ clock = 0
  /\ drift \in -MaxDrift .. MaxDrift
  /\ \E k \in Kids :
       /\ kms = [kid \in Kids |-> IF kid = k THEN "enabled" ELSE "absent"]
       /\ lastDown = [kid \in Kids |-> IF kid = k THEN Never ELSE 0]
       /\ signer = k
       /\ publicKeys = {k}
  /\ kmsUp = TRUE
  /\ tokens = {}
  /\ up = TRUE
  /\ negativeUntil = [k \in Kids |-> 0]
  /\ lookup = NoToken
  /\ reply = NoReply
  /\ started = 0
  /\ lookups = [k \in Kids |-> 0]
  /\ trusted = {}

Verify(t) == VerifyKnown(t) \/ RefuseRecentFailure(t) \/ AskKms(t)

Next ==
  \/ Tick \/ Outage
  \/ \E k \in Kids : EnableVersion(k) \/ DisableVersion(k)
  \/ \E k \in Kids : ConfigureSigner(k) \/ StartGateway(k)
  \/ SignGrant
  \/ Crash
  \/ \E t \in tokens : Verify(t)
  \/ LookupSucceeds \/ LookupFails

Spec == Init /\ [][Next]_vars
=============================================================================
