-------------------- MODULE GrantVerificationProperties --------------------
(***************************************************************************)
(* What rotation, outages and clocks may do to a genuine grant.            *)
(***************************************************************************)
EXTENDS GrantVerification

Answered(code) == reply # NoReply /\ reply.code = code

(* "KMS key rotation does not require a gateway restart" (signer.py): a    *)
(* genuine grant is refused for its signature only if KMS would not give   *)
(* its key out less than NegativeTtl ago, whichever version signed it and  *)
(* whichever the gateway was started with.                                 *)
RefusedOnlyForKms ==
  Answered("GRANT_INVALID_SIGNATURE") =>
    /\ lastDown[reply.token.kid] # Never
    /\ reply.at < lastDown[reply.token.kid] + NegativeTtl

(* How far the gateway's clock is ahead of the control plane's, and behind.*)
Ahead  == IF drift > 0 THEN drift ELSE 0
Behind == IF drift < 0 THEN -drift ELSE 0

(* A grant appears to come from the future only to a gateway whose clock is*)
(* behind by more than the tolerance, and is called expired, or believed,  *)
(* outside its life by no more than the clock is ahead, or behind.         *)
ClocksMayDiffer ==
  /\ Answered("GRANT_NOT_YET_VALID") => Behind > Skew
  /\ Answered("GRANT_EXPIRED") => reply.came + Ahead >= reply.token.exp
  /\ Answered("accepted") => reply.came < reply.token.exp + Behind

(* "so a flood of bogus kids cannot hammer KMS" (CachedKeyResolver): over  *)
(* the life of a process KMS is asked for a key at most once at the start  *)
(* and once more per NegativeTtl, however often grants are presented.      *)
KmsAskedSeldom ==
  \A k \in Kids : lookups[k] > 0 => NegativeTtl * (lookups[k] - 1) <= clock - started

(* An outage of KMS, or the end of a version, does not interrupt the       *)
(* grants of a key the process has already accepted one with.              *)
KnownKeysSurviveOutage ==
  [][reply' # NoReply /\ reply'.code = "GRANT_INVALID_SIGNATURE" =>
       reply'.token.kid \notin trusted]_vars
=============================================================================
