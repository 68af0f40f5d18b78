---------------------- MODULE ArgumentPolicyProperties ----------------------
(***************************************************************************)
(* What the two checks of a grant's arguments owe the sponsor, and what    *)
(* evaluate_constraints promises every caller.                             *)
(***************************************************************************)
EXTENDS ArgumentPolicy

Verdicts == {"open", "allow", "ARGUMENT_CONSTRAINT_FAILED", "ARGUMENT_TYPE_MISMATCH",
             "ARGUMENT_PATH_UNKNOWN", "TypeError"}

(* The loop stays within its list and ends in a known verdict.             *)
TypeOK ==
  /\ call \in {"none", "issue", "execute", "other"}
  /\ granted \in Requests \cup {Missing}
  /\ \A i \in DOMAIN constraints : constraints[i].op \in Ops
  /\ next \in 1 .. Len(constraints) + 1
  /\ verdict \in Verdicts

SameValue(v, w) == (IsNumber(v) <=> IsNumber(w)) /\ ScalarEq(v, w)

(* A tool runs with every scalar argument it was granted with, and a       *)
(* number is never replaced by a bool or the other way round: whatever is  *)
(* presented to the gateway, and however often.                            *)
ExecutedAsGranted ==
  call = "execute" /\ verdict = "allow" =>
    \A k \in DOMAIN granted[2] : IsScalar(granted[2][k]) =>
      k \in DOMAIN arguments[2] /\ SameValue(arguments[2][k], granted[2][k])

(* Where the policy has a limit, what runs is a number above zero and at   *)
(* most the limit, in a currency of the policy: a missing amount, a bool,  *)
(* a text or not-a-number never passes for one.                            *)
WithinLimits ==
  call \in {"issue", "execute"} /\ verdict = "allow" =>
    /\ policy.max # NoCap =>
         /\ "amount_minor" \in DOMAIN arguments[2]
         /\ arguments[2]["amount_minor"] \in {"int", "float"} \X (1 .. policy.max)
    /\ policy.currencies # <<>> =>
         /\ "currency" \in DOMAIN arguments[2]
         /\ arguments[2]["currency"] \in {policy.currencies[i] : i \in DOMAIN policy.currencies}

(* A grant is not issued for arguments it would be refused with: the two   *)
(* services decide alike on the same arguments.                            *)
IssuedIsExecutable ==
  call = "execute" /\ arguments = granted => verdict \in {"open", "allow"}

(* "All constraints must pass (AND logic)": no constraint of an allowed    *)
(* list denies, whatever comes before it.                                  *)
AllMustPass ==
  verdict = "allow" =>
    \A i \in DOMAIN constraints : Check(constraints[i], arguments) = "ok"

(* The value has something under this part of a path: a dict that key, a   *)
(* list that index, another value nothing.                                 *)
HasChild(v, part) ==
  \/ v[1] = "dict" /\ part \in DOMAIN v[2]
  \/ v[1] = "list" /\ part \in DOMAIN IndexOf /\ IndexOf[part] \in 0 .. Len(v[2]) - 1

(* "Unknown paths deny", for negated operators too: arguments are allowed  *)
(* only if they have every part of the path of every constraint, inner     *)
(* keys and indices of lists as well, and no path is too deep.             *)
UnknownPathsDeny ==
  verdict = "allow" =>
    \A i \in DOMAIN constraints :
      LET path == constraints[i].path IN
      /\ Len(path) \in 1 .. MaxNestingDepth
      /\ \A n \in 1 .. Len(path) : HasChild(Steps(arguments, path)[n - 1], path[n])

Comparisons == {"lt", "lte", "gt", "gte"}

(* A comparison holds only between numbers that are ordered that way: no   *)
(* bool, text or not-a-number passes on either side, and a strict one is   *)
(* strict.                                                                 *)
OrderedNumbers ==
  verdict = "allow" =>
    \A i \in DOMAIN constraints :
      LET op == constraints[i].op
          v  == GetNestedValue(arguments, constraints[i].path)
          w  == constraints[i].value
      IN  op \in Comparisons =>
            /\ {v[1], w[1]} \subseteq {"int", "float"}
            /\ op = "lt"  => v[2] < w[2]
            /\ op = "lte" => v[2] <= w[2]
            /\ op = "gt"  => v[2] > w[2]
            /\ op = "gte" => v[2] >= w[2]
=============================================================================
