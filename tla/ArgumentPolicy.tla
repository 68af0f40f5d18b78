--------------------------- MODULE ArgumentPolicy ---------------------------
(***************************************************************************)
(* The arguments of one grant: the control plane builds constraints from   *)
(* the arguments it is asked for and the policy of the tool, and checks    *)
(* them (phase H); the execution gateway checks them again on the          *)
(* arguments it gets (step 12), as often as the token is presented.  Both  *)
(* run the loop of evaluate_constraints, which is also called with other   *)
(* lists of constraints.                                                   *)
(***************************************************************************)
EXTENDS ConstraintEngine, SequencesExt

CONSTANTS
  Requests,     \* arguments of evaluate and execute requests
  Policies,     \* [max : Int or NoCap, currencies : sequence of texts,
                \*  fields : set of paths]
  NoCap,        \* max_amount_minor is None
  OtherCalls    \* pairs <<constraints, arguments>> of the other callers

VARIABLES
  call,         \* "none", "issue", "execute" or "other": who runs the loop
  granted,      \* the arguments of the evaluate request
  policy,       \* its tool policy
  constraints, arguments,
  next,         \* index of the constraint the loop looks at
  verdict       \* "open", "allow", a reason code or an exception

vars == <<call, granted, policy, constraints, arguments, next, verdict>>

Constraint(path, op, value) == [path |-> path, op |-> op, value |-> value]

(* The models of the requests and of the policy document. *)
ASSUME RequestsAssumption ==
  /\ Requests \subseteq Values /\ \A args \in Requests : args[1] = "dict"
  /\ \A p \in Policies :
       /\ p.max # NoCap => p.max \in Int
       /\ DOMAIN p.currencies = 1 .. Len(p.currencies) /\ Len(p.currencies) \in Nat
       /\ \A i \in DOMAIN p.currencies :
            p.currencies[i] = <<"str", p.currencies[i][2]>>

ASSUME OtherCallsAssumption ==
  \A c \in OtherCalls :
    /\ c[2] \in Values
    /\ DOMAIN c[1] = 1 .. Len(c[1]) /\ Len(c[1]) \in Nat
    /\ \A i \in DOMAIN c[1] :
         c[1][i].op \in Ops /\ c[1][i].value \in Values

---------------------------------------------------------------------------
(* The constraints of a grant. *)

(* Mutant: text is pinned, numbers are left to the cap. *)
PinnedText(args) ==
  LET keys == {k \in DOMAIN args[2] : args[2][k][1] = "str"} IN
  [i \in 1 .. Cardinality(keys) |->
     LET k == SetToSeq(keys)[i] IN Constraint(<<k>>, "eq", args[2][k])]

(* One EQ per scalar argument; the keys have no dots, so each is a path.   *)
Pinned(args) ==
  LET keys == {k \in DOMAIN args[2] : IsScalar(args[2][k])} IN
  [i \in 1 .. Cardinality(keys) |->
     LET k == SetToSeq(keys)[i] IN Constraint(<<k>>, "eq", args[2][k])]

(* Mutant: no positivity. *)
CapOnly(p) ==
  IF p.max = NoCap THEN <<>>
  ELSE <<Constraint(<<"amount_minor">>, "lte", <<"int", p.max>>)>>

Caps(p) ==
  IF p.max = NoCap THEN <<>>
  ELSE << Constraint(<<"amount_minor">>, "lte", <<"int", p.max>>),
          Constraint(<<"amount_minor">>, "gt", <<"int", 0>>) >>

Currencies(p) ==
  IF p.currencies = <<>> THEN <<>>
  ELSE <<Constraint(<<"currency">>, "in", <<"list", p.currencies>>)>>

ArgConstraints(args, p) == Pinned(args) \o Caps(p) \o Currencies(p)

---------------------------------------------------------------------------
(* evaluate_constraints. *)

Root(args) == IF args[1] = "dict" THEN "open" ELSE "ARGUMENT_TYPE_MISMATCH"

(* Mutant: the loop counts from zero. *)
StartFromZero(who, cs, args) ==
  /\ call' = who
  /\ constraints' = cs
  /\ arguments' = args
  /\ next' = 0
  /\ verdict' = Root(args)

Start(who, cs, args) ==
  /\ call' = who
  /\ constraints' = cs
  /\ arguments' = args
  /\ next' = 1
  /\ verdict' = Root(args)

(* Mutant: a constraint "exists" that holds ends the loop. *)
PassThisOrAll ==
  IF constraints[next].op = "exists"
  THEN verdict' = "allow" /\ UNCHANGED next
  ELSE next' = next + 1 /\ UNCHANGED verdict

Pass == next' = next + 1 /\ UNCHANGED verdict

CheckNext ==
  /\ call # "none" /\ verdict = "open" /\ next <= Len(constraints)
  /\ LET reason == Check(constraints[next], arguments) IN
     \/ reason = "ok" /\ Pass
     \/ reason # "ok" /\ verdict' = reason /\ UNCHANGED next
  /\ UNCHANGED <<call, granted, policy, constraints, arguments>>

Allow ==
  /\ call # "none" /\ verdict = "open" /\ next > Len(constraints)
  /\ verdict' = "allow"
  /\ UNCHANGED <<call, granted, policy, constraints, arguments, next>>

---------------------------------------------------------------------------
(* The callers. *)

(* Mutant: no phase H. *)
EvaluateUnchecked(args, p) ==
  /\ call = "none"
  /\ granted' = args /\ policy' = p
  /\ call' = "issue" /\ verdict' = "allow" /\ next' = 1
  /\ constraints' = ArgConstraints(args, p) /\ arguments' = args

(* Phase H of evaluate_grant. *)
Evaluate(args, p) ==
  /\ call = "none"
  /\ granted' = args /\ policy' = p
  /\ Start("issue", ArgConstraints(args, p), args)

(* Step 12 of execute: once the grant is issued and whenever an earlier    *)
(* execution was refused, which does not consume the grant.                *)
Execute(args) ==
  /\ \/ call = "issue" /\ verdict = "allow"
     \/ call = "execute" /\ verdict \notin {"open", "allow"}
  /\ Start("execute", constraints, args)
  /\ UNCHANGED <<granted, policy>>

CallElsewhere ==
  /\ call = "none"
  /\ \E c \in OtherCalls : Start("other", c[1], c[2])
  /\ UNCHANGED <<granted, policy>>

Init ==
  /\ call = "none"
  /\ granted = Missing /\ arguments = Missing
  /\ policy = [max |-> NoCap, currencies |-> <<>>, fields |-> {}]
  /\ constraints = <<>>
  /\ next = 1
  /\ verdict = "open"

Next ==
  \/ \E args \in Requests, p \in Policies : Evaluate(args, p)
  \/ \E args \in Requests : Execute(args)
  \/ CallElsewhere
  \/ CheckNext \/ Allow

Spec == Init /\ [][Next]_vars
=============================================================================
