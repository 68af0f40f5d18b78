------------------------ MODULE ArgumentPolicy_proofs ------------------------
(***************************************************************************)
(* Theorems about ConstraintEngine and ArgumentPolicy for every set of     *)
(* values, requests, policies and other callers.                           *)
(***************************************************************************)
EXTENDS ArgumentPolicyProperties, FiniteSetTheorems, WellFoundedInduction, TLAPS

---------------------------------------------------------------------------
(* Induction on the naturals, with a set where the library's theorem has   *)
(* an operator.                                                            *)

LEMMA LeastNatural ==
  ASSUME NEW T, T \subseteq Nat, T # {}
  PROVE  \E n \in T : \A m \in T : n <= m
<1> DEFINE R == {ss \in Nat \X Nat : ss[1] < ss[2]}
<1>1. IsWellFoundedOn(R, Nat) BY NatLessThanWellFounded DEF OpToRel
<1>2. PICK n \in T : \A m \in T : <<m, n>> \notin R
  <2> HIDE DEF R
  <2> QED BY <1>1, WFMin
<1>3. \A m \in T : ~(m < n) BY <1>2
<1> HIDE DEF R
<1> QED BY <1>2, <1>3

LEMMA NatSetInduction ==
  ASSUME NEW S, 0 \in S, \A n \in Nat : n \in S => n + 1 \in S
  PROVE  Nat \subseteq S
<1> SUFFICES ASSUME Nat \ S # {} PROVE FALSE OBVIOUS
<1>1. PICK n \in Nat \ S : \A m \in Nat \ S : n <= m
  <2> DEFINE T == Nat \ S
  <2>1. T \subseteq Nat /\ T # {} OBVIOUS
  <2> HIDE DEF T
  <2>2. \E n \in T : \A m \in T : n <= m BY <2>1, LeastNatural
  <2> QED BY <2>2 DEF T
<1>2. n # 0 /\ n - 1 \in Nat BY <1>1
<1>3. n - 1 \in S BY <1>1, <1>2
<1>4. n - 1 + 1 \in S BY <1>2, <1>3
<1> QED BY <1>1, <1>2, <1>4

---------------------------------------------------------------------------
(* The lookup of a path. *)

(* A function that follows the equation of Steps exists for every number   *)
(* of parts, so Steps follows it too.                                      *)
LEMMA StepsExist ==
  ASSUME NEW data, NEW path, NEW length \in Nat
  PROVE  \E at : at = [n \in 0 .. length |->
                         IF n = 0 THEN data ELSE Child(at[n - 1], path[n])]
<1> DEFINE Exists(m) == \E at : at = [n \in 0 .. m |->
                                  IF n = 0 THEN data ELSE Child(at[n - 1], path[n])]
           S == {m \in Nat : Exists(m)}
<1>1. 0 \in S
  <2>1. [n \in 0 .. 0 |-> data] =
          [n \in 0 .. 0 |-> IF n = 0 THEN data
                            ELSE Child([i \in 0 .. 0 |-> data][n - 1], path[n])]
    OBVIOUS
  <2> QED BY <2>1
<1>2. ASSUME NEW m \in Nat, m \in S PROVE m + 1 \in S
  <2>1. PICK at : at = [n \in 0 .. m |-> IF n = 0 THEN data ELSE Child(at[n - 1], path[n])]
    BY <1>2
  <2> DEFINE new == [n \in 0 .. m + 1 |-> IF n \in 0 .. m THEN at[n] ELSE Child(at[m], path[m + 1])]
  <2>2. ASSUME NEW n \in 0 .. m + 1
        PROVE  new[n] = IF n = 0 THEN data ELSE Child(new[n - 1], path[n])
    <3>1. CASE n = 0 BY <2>1, <3>1
    <3>2. CASE n \in 1 .. m
      <4>1. n - 1 \in 0 .. m /\ n \in 0 .. m /\ n # 0 BY <3>2
      <4>2. at[n] = Child(at[n - 1], path[n]) BY <2>1, <4>1
      <4>3. new[n] = at[n] /\ new[n - 1] = at[n - 1] BY <4>1
      <4> QED BY <4>1, <4>2, <4>3
    <3>3. CASE n = m + 1
      <4>1. new[n] = Child(at[m], path[m + 1]) /\ new[n - 1] = at[m] /\ n # 0 BY <3>3
      <4> QED BY <3>3, <4>1
    <3> QED BY <3>1, <3>2, <3>3
  <2>3. new = [n \in 0 .. m + 1 |-> IF n = 0 THEN data ELSE Child(new[n - 1], path[n])]
    BY <2>2
  <2>4. Exists(m + 1) BY <2>3
  <2> QED BY <2>4
<1> HIDE DEF S
<1>3. Nat \subseteq S BY <1>1, <1>2, NatSetInduction
<1> QED BY <1>3 DEF S

LEMMA StepsAt ==
  ASSUME NEW data, NEW path, Len(path) \in Nat
  PROVE  /\ Steps(data, path)[0] = data
         /\ \A n \in 1 .. Len(path) :
              Steps(data, path)[n] = Child(Steps(data, path)[n - 1], path[n])
<1> DEFINE at == Steps(data, path)
<1>1. at = [n \in 0 .. Len(path) |-> IF n = 0 THEN data ELSE Child(at[n - 1], path[n])]
  BY StepsExist DEF Steps
<1> HIDE DEF at
<1>2. at[0] = data BY <1>1
<1>3. ASSUME NEW n \in 1 .. Len(path) PROVE at[n] = Child(at[n - 1], path[n])
  <2>1. n \in 0 .. Len(path) /\ n # 0 OBVIOUS
  <2> QED BY <1>1, <2>1
<1> QED BY <1>2, <1>3 DEF at

(* A path of one part is one step.                                         *)
LEMMA OnePart ==
  ASSUME NEW data, NEW k
  PROVE  GetNestedValue(data, <<k>>) = Child(data, k)
<1>1. Len(<<k>>) = 1 /\ <<k>>[1] = k OBVIOUS
<1>2. Steps(data, <<k>>)[1] = Child(Steps(data, <<k>>)[0], <<k>>[1]) BY <1>1, StepsAt
<1>3. Steps(data, <<k>>)[0] = data BY <1>1, StepsAt
<1> QED BY <1>1, <1>2, <1>3, DepthAssumption DEF GetNestedValue

LEMMA ChildType ==
  ASSUME NEW v \in Values \cup {Missing}, NEW part
  PROVE  Child(v, part) \in Values \cup {Missing}
<1>1. CASE v[1] = "dict" /\ part \in DOMAIN v[2]
  <2>1. v \in Values BY <1>1 DEF Missing
  <2> QED BY <1>1, <2>1, ValuesAssumption DEF Child
<1>2. CASE v[1] = "list" /\ part \in DOMAIN IndexOf /\ IndexOf[part] \in 0 .. Len(v[2]) - 1
  <2>1. v \in Values BY <1>2 DEF Missing
  <2>2. v[2] \in Seq(Values) BY <1>2, <2>1, ValuesAssumption
  <2>3. IndexOf[part] + 1 \in 1 .. Len(v[2]) BY <1>2, <2>2
  <2>4. v[2][IndexOf[part] + 1] \in Values BY <2>2, <2>3
  <2>5. Child(v, part) = v[2][IndexOf[part] + 1] BY <1>2 DEF Child
  <2> QED BY <2>4, <2>5
<1>3. CASE /\ ~(v[1] = "dict" /\ part \in DOMAIN v[2])
           /\ ~(v[1] = "list" /\ part \in DOMAIN IndexOf /\ IndexOf[part] \in 0 .. Len(v[2]) - 1)
  BY <1>3 DEF Child
<1> QED BY <1>1, <1>2, <1>3

(* A path leads to a value or nowhere.                                     *)
LEMMA LookupType ==
  ASSUME NEW data \in Values \cup {Missing}, NEW path
  PROVE  GetNestedValue(data, path) \in Values \cup {Missing}
<1> DEFINE at == Steps(data, path)
           S  == {n \in Nat : n <= Len(path) => at[n] \in Values \cup {Missing}}
<1> SUFFICES ASSUME Len(path) \in 1 .. MaxNestingDepth
             PROVE  at[Len(path)] \in Values \cup {Missing}
  BY DEF GetNestedValue
<1>1. Len(path) \in Nat BY DepthAssumption
<1>2. 0 \in S BY <1>1, StepsAt
<1>3. ASSUME NEW n \in Nat, n \in S PROVE n + 1 \in S
  <2> SUFFICES ASSUME n + 1 <= Len(path) PROVE at[n + 1] \in Values \cup {Missing} OBVIOUS
  <2>1. at[n] \in Values \cup {Missing} BY <1>1, <1>3
  <2>2. n + 1 \in 1 .. Len(path) /\ (n + 1) - 1 = n BY <1>1
  <2>3. at[n + 1] = Child(at[n], path[n + 1]) BY <1>1, <2>2, StepsAt
  <2> HIDE DEF at
  <2> QED BY <2>1, <2>3, ChildType
<1> HIDE DEF S
<1>4. Nat \subseteq S BY <1>2, <1>3, NatSetInduction
<1> QED BY <1>1, <1>4 DEF S

LEMMA ChildFound ==
  ASSUME NEW v, NEW part, Child(v, part) # Missing
  PROVE  HasChild(v, part) /\ v # Missing
BY DEF Child, HasChild, Missing

(* What is found was found part by part: nothing lies below what is        *)
(* missing, so no part of the path is.                                     *)
LEMMA LookupFound ==
  ASSUME NEW data, NEW path, GetNestedValue(data, path) # Missing
  PROVE  /\ Len(path) \in 1 .. MaxNestingDepth
         /\ \A n \in 1 .. Len(path) : HasChild(Steps(data, path)[n - 1], path[n])
<1> DEFINE at == Steps(data, path)
<1>1. Len(path) \in 1 .. MaxNestingDepth /\ at[Len(path)] # Missing BY DEF GetNestedValue
<1>2. Len(path) \in Nat BY <1>1, DepthAssumption
<1>3. ASSUME NEW n \in 1 .. Len(path) PROVE at[n] = Child(at[n - 1], path[n])
  BY <1>2, StepsAt
<1> HIDE DEF at
(* Backwards from the last part: m counts the parts left after it.         *)
<1> DEFINE S == {m \in Nat : m <= Len(path) => at[Len(path) - m] # Missing}
<1>4. 0 \in S BY <1>1, <1>2
<1>5. ASSUME NEW m \in Nat, m \in S PROVE m + 1 \in S
  <2> SUFFICES ASSUME m + 1 <= Len(path) PROVE at[Len(path) - (m + 1)] # Missing OBVIOUS
  <2>1. at[Len(path) - m] # Missing BY <1>2, <1>5
  <2>2. Len(path) - m \in 1 .. Len(path) /\ Len(path) - m - 1 = Len(path) - (m + 1) BY <1>2
  <2>3. at[Len(path) - m] = Child(at[Len(path) - (m + 1)], path[Len(path) - m])
    BY <1>3, <2>2
  <2> QED BY <2>1, <2>3, ChildFound
<1> HIDE DEF S
<1>6. Nat \subseteq S BY <1>4, <1>5, NatSetInduction
<1>7. ASSUME NEW n \in 1 .. Len(path) PROVE HasChild(at[n - 1], path[n])
  <2>1. Len(path) - n \in Nat /\ Len(path) - n <= Len(path)
        /\ Len(path) - (Len(path) - n) = n
    BY <1>2
  <2>2. Len(path) - n \in S BY <1>6, <2>1
  <2>3. at[n] # Missing BY <2>1, <2>2 DEF S
  <2> QED BY <1>3, <2>3, ChildFound
<1> QED BY <1>1, <1>7 DEF at

---------------------------------------------------------------------------
(* The constraints of a grant. *)

LEMMA SetToSeqIsBijection ==
  ASSUME NEW S, IsFiniteSet(S)
  PROVE  /\ Cardinality(S) \in Nat
         /\ SetToSeq(S) \in [1 .. Cardinality(S) -> S]
         /\ \A x \in S : \E i \in 1 .. Cardinality(S) : SetToSeq(S)[i] = x
<1> DEFINE D == 1 .. Cardinality(S)
           f == SetToSeq(S)
<1>1. Cardinality(S) \in Nat /\ ExistsBijection(D, S) BY FS_CardinalityType
<1>2. \E g \in [D -> S] : IsInjective(g)
  BY <1>1 DEF ExistsBijection, Bijection, Injection
<1>3. f \in [D -> S] /\ IsInjective(f) BY <1>2 DEF SetToSeq
<1>4. f \in Injection(D, S) BY <1>3 DEF Injection
<1>5. Cardinality(D) = Cardinality(S) BY <1>1, FS_Interval
<1> HIDE DEF f, D
<1>6. f \in Surjection(D, S) BY <1>4, <1>5, FS_Injection
<1>7. \A x \in S : \E i \in D : f[i] = x BY <1>6 DEF Surjection
<1> QED BY <1>1, <1>3, <1>7 DEF f, D

(* What the loop and the operators need to know of a constraint.           *)
Proper(c) ==
  /\ c.op \in Ops
  /\ c.value[1] \in {"int", "float", "bool"} => c.value[2] \in Int

IsList(cs) == Len(cs) \in Nat /\ DOMAIN cs = 1 .. Len(cs)

Cap(p)      == Constraint(<<"amount_minor">>, "lte", <<"int", p.max>>)
Positive    == Constraint(<<"amount_minor">>, "gt", <<"int", 0>>)
Currency(p) == Constraint(<<"currency">>, "in", <<"list", p.currencies>>)

(* Every scalar argument is pinned to its value, and nothing else is.      *)
LEMMA PinnedExactly ==
  ASSUME NEW args \in Requests
  PROVE  /\ IsList(Pinned(args)) /\ \A i \in DOMAIN Pinned(args) : Proper(Pinned(args)[i])
         /\ \A i \in DOMAIN Pinned(args) :
              \E k \in DOMAIN args[2] :
                IsScalar(args[2][k]) /\ Pinned(args)[i] = Constraint(<<k>>, "eq", args[2][k])
         /\ \A k \in DOMAIN args[2] : IsScalar(args[2][k]) =>
              \E i \in DOMAIN Pinned(args) :
                Pinned(args)[i] = Constraint(<<k>>, "eq", args[2][k])
<1> DEFINE keys == {k \in DOMAIN args[2] : IsScalar(args[2][k])}
           n    == Cardinality(keys)
           key  == SetToSeq(keys)
<1>1. /\ IsFiniteSet(DOMAIN args[2]) /\ DOMAIN args[2] \subseteq STRING
      /\ \A k \in DOMAIN args[2] : args[2][k] \in Values
  BY RequestsAssumption, ValuesAssumption
<1>2. IsFiniteSet(keys) BY <1>1, FS_Subset
<1> HIDE DEF keys
<1>3. /\ n \in Nat /\ key \in [1 .. n -> keys]
      /\ \A k \in keys : \E i \in 1 .. n : key[i] = k
  BY <1>2, SetToSeqIsBijection
<1>4. Pinned(args) = [i \in 1 .. n |-> Constraint(<<key[i]>>, "eq", args[2][key[i]])]
  BY DEF Pinned, keys
<1> HIDE DEF n, key
<1>5. ASSUME NEW k \in keys
      PROVE  /\ k \in DOMAIN args[2] /\ IsScalar(args[2][k])
             /\ Proper(Constraint(<<k>>, "eq", args[2][k]))
  <2>1. k \in DOMAIN args[2] /\ IsScalar(args[2][k]) BY DEF keys
  <2> QED BY <1>1, <2>1, ValuesAssumption DEF Constraint, Proper, Ops
<1>6. IsList(Pinned(args)) /\ \A i \in DOMAIN Pinned(args) : Proper(Pinned(args)[i])
  BY <1>3, <1>4, <1>5 DEF IsList
<1>7. ASSUME NEW k \in DOMAIN args[2], IsScalar(args[2][k])
      PROVE  \E i \in DOMAIN Pinned(args) : Pinned(args)[i] = Constraint(<<k>>, "eq", args[2][k])
  <2>1. k \in keys BY <1>7 DEF keys
  <2> QED BY <1>3, <1>4, <2>1
<1>8. ASSUME NEW i \in DOMAIN Pinned(args)
      PROVE  \E k \in DOMAIN args[2] :
               IsScalar(args[2][k]) /\ Pinned(args)[i] = Constraint(<<k>>, "eq", args[2][k])
  BY <1>3, <1>4, <1>5, <1>8
<1> QED BY <1>6, <1>7, <1>8

LEMMA ProperConstraints ==
  ASSUME NEW p \in Policies
  PROVE  /\ IsList(Caps(p)) /\ \A i \in DOMAIN Caps(p) : Proper(Caps(p)[i])
         /\ IsList(Currencies(p)) /\ \A i \in DOMAIN Currencies(p) : Proper(Currencies(p)[i])
<1>1. Proper(Positive) BY DEF Proper, Positive, Constraint, Ops
<1>2. p.max # NoCap => Proper(Cap(p))
  BY RequestsAssumption DEF Proper, Cap, Constraint, Ops
<1>3. Proper(Currency(p)) BY DEF Proper, Currency, Constraint, Ops
<1>4. Caps(p) = IF p.max = NoCap THEN <<>> ELSE <<Cap(p), Positive>>
  BY DEF Caps, Cap, Positive
<1>5. Currencies(p) = IF p.currencies = <<>> THEN <<>> ELSE <<Currency(p)>>
  BY DEF Currencies, Currency
<1>6. IsList(<<>>) /\ \A i \in DOMAIN <<>> : Proper(<<>>[i]) BY DEF IsList
<1>7. ASSUME NEW c, Proper(c) PROVE IsList(<<c>>) /\ \A i \in DOMAIN <<c>> : Proper(<<c>>[i])
  BY <1>7 DEF IsList
<1>8. ASSUME NEW c, NEW d, Proper(c), Proper(d)
      PROVE  IsList(<<c, d>>) /\ \A i \in DOMAIN <<c, d>> : Proper(<<c, d>>[i])
  <2>1. Len(<<c, d>>) = 2 /\ DOMAIN <<c, d>> = 1 .. 2 OBVIOUS
  <2>2. \A i \in 1 .. 2 : i = 1 \/ i = 2 OBVIOUS
  <2>3. <<c, d>>[1] = c /\ <<c, d>>[2] = d OBVIOUS
  <2> QED BY <1>8, <2>1, <2>2, <2>3 DEF IsList
<1>9. IsList(Caps(p)) /\ \A i \in DOMAIN Caps(p) : Proper(Caps(p)[i])
  BY <1>1, <1>2, <1>4, <1>6, <1>8
<1>10. IsList(Currencies(p)) /\ \A i \in DOMAIN Currencies(p) : Proper(Currencies(p)[i])
  BY <1>3, <1>5, <1>6, <1>7
<1> QED BY <1>9, <1>10

(* The constraints of a grant are those on its scalars, its limit and its  *)
(* currencies.                                                             *)
LEMMA ArgConstraintsExactly ==
  ASSUME NEW args \in Requests, NEW p \in Policies
  PROVE  LET cs == ArgConstraints(args, p) IN
         /\ IsList(cs) /\ \A i \in DOMAIN cs : Proper(cs[i])
         /\ \A k \in DOMAIN args[2] : IsScalar(args[2][k]) =>
              \E i \in DOMAIN cs : cs[i] = Constraint(<<k>>, "eq", args[2][k])
         /\ p.max # NoCap =>
              \E i, j \in DOMAIN cs : cs[i] = Cap(p) /\ cs[j] = Positive
         /\ p.currencies # <<>> => \E i \in DOMAIN cs : cs[i] = Currency(p)
<1> DEFINE s == Pinned(args)
           t == Caps(p)
           u == Currencies(p)
           cs == ArgConstraints(args, p)
<1>1. IsList(s) /\ \A i \in DOMAIN s : Proper(s[i]) BY PinnedExactly
<1>2. IsList(t) /\ \A i \in DOMAIN t : Proper(t[i]) BY ProperConstraints
<1>3. IsList(u) /\ \A i \in DOMAIN u : Proper(u[i]) BY ProperConstraints
<1>4. cs = s \o t \o u BY DEF ArgConstraints
<1> HIDE DEF s, t, u, cs
<1>5. /\ IsList(cs) /\ Len(cs) = Len(s) + Len(t) + Len(u)
      /\ \A i \in 1 .. Len(s) : cs[i] = s[i]
      /\ \A i \in 1 .. Len(t) : cs[Len(s) + i] = t[i]
      /\ \A i \in 1 .. Len(u) : cs[Len(s) + Len(t) + i] = u[i]
  BY <1>1, <1>2, <1>3, <1>4 DEF IsList
<1>6. /\ \A i \in DOMAIN s : i \in DOMAIN cs
      /\ \A i \in DOMAIN t : Len(s) + i \in DOMAIN cs
      /\ \A i \in DOMAIN u : Len(s) + Len(t) + i \in DOMAIN cs
  BY <1>1, <1>2, <1>3, <1>5 DEF IsList
<1>7. ASSUME NEW i \in DOMAIN cs PROVE Proper(cs[i])
  <2>1. CASE i \in 1 .. Len(s) BY <1>1, <1>5, <2>1 DEF IsList
  <2>2. CASE i - Len(s) \in 1 .. Len(t)
    <3>1. i = Len(s) + (i - Len(s)) BY <1>1, <1>5 DEF IsList
    <3> QED BY <1>2, <1>5, <2>2, <3>1 DEF IsList
  <2>3. CASE i - Len(s) - Len(t) \in 1 .. Len(u)
    <3>1. i = Len(s) + Len(t) + (i - Len(s) - Len(t)) BY <1>1, <1>2, <1>5 DEF IsList
    <3> QED BY <1>3, <1>5, <2>3, <3>1 DEF IsList
  <2> QED BY <1>1, <1>2, <1>3, <1>5, <2>1, <2>2, <2>3 DEF IsList
<1>8. ASSUME NEW k \in DOMAIN args[2], IsScalar(args[2][k])
      PROVE  \E i \in DOMAIN cs : cs[i] = Constraint(<<k>>, "eq", args[2][k])
  <2>1. PICK i \in DOMAIN s : s[i] = Constraint(<<k>>, "eq", args[2][k])
    BY <1>8, PinnedExactly DEF s
  <2> QED BY <1>1, <1>5, <1>6, <2>1 DEF IsList
<1>9. ASSUME p.max # NoCap
      PROVE  \E i, j \in DOMAIN cs : cs[i] = Cap(p) /\ cs[j] = Positive
  <2>1. t = <<Cap(p), Positive>> BY <1>9 DEF t, Caps, Cap, Positive
  <2>2. 1 \in DOMAIN t /\ 2 \in DOMAIN t /\ t[1] = Cap(p) /\ t[2] = Positive BY <2>1
  <2>3. cs[Len(s) + 1] = Cap(p) /\ cs[Len(s) + 2] = Positive BY <1>2, <1>5, <2>2 DEF IsList
  <2> QED BY <1>6, <2>2, <2>3
<1>10. ASSUME p.currencies # <<>> PROVE \E i \in DOMAIN cs : cs[i] = Currency(p)
  <2>1. u = <<Currency(p)>> BY <1>10 DEF u, Currencies, Currency
  <2>2. 1 \in DOMAIN u /\ u[1] = Currency(p) BY <2>1
  <2>3. cs[Len(s) + Len(t) + 1] = Currency(p) BY <1>3, <1>5, <2>2 DEF IsList
  <2> QED BY <1>6, <2>2, <2>3
<1> QED BY <1>5, <1>7, <1>8, <1>9, <1>10 DEF cs

---------------------------------------------------------------------------
(* The invariant. *)

(* The constraints before the one the loop looks at have passed.           *)
Passed ==
  verdict \in {"open", "allow"} =>
    \A i \in DOMAIN constraints : i < next => Check(constraints[i], arguments) = "ok"

(* What is allowed went through the whole list, on a JSON object.          *)
LoopInv ==
  /\ IsList(constraints) /\ \A i \in DOMAIN constraints : Proper(constraints[i])
  /\ arguments \in Values \cup {Missing}
  /\ call = "none" => verdict = "open"
  /\ call # "none" /\ verdict \in {"open", "allow"} => arguments[1] = "dict"
  /\ Passed
  /\ verdict = "allow" => next = Len(constraints) + 1

(* The gateway has the constraints the control plane derived and checked.  *)
GrantInv ==
  call \in {"issue", "execute"} =>
    /\ granted \in Requests /\ policy \in Policies
    /\ constraints = ArgConstraints(granted, policy)
    /\ call = "issue" => arguments = granted
    /\ call = "execute" =>
         \A i \in DOMAIN constraints : Check(constraints[i], granted) = "ok"

ArgumentInv == TypeOK /\ LoopInv /\ GrantInv

Refusals == Verdicts \ {"open", "allow"}

LEMMA CheckResult ==
  ASSUME NEW c, NEW args
  PROVE  Check(c, args) \in Refusals \cup {"ok"}
BY DEF Check, CheckExists, CheckFound, Refusals, Verdicts

LEMMA InitArgument == Init => ArgumentInv
<1> SUFFICES ASSUME Init PROVE ArgumentInv OBVIOUS
<1>1. Len(constraints) = 0 /\ DOMAIN constraints = {} BY DEF Init
<1>2. TypeOK BY <1>1 DEF Init, TypeOK, Verdicts
<1>3. LoopInv BY <1>1 DEF Init, LoopInv, IsList, Passed
<1>4. GrantInv BY DEF Init, GrantInv
<1> QED BY <1>2, <1>3, <1>4 DEF ArgumentInv

(* The loop begins on a list of proper constraints.                        *)
LEMMA StartLoop ==
  ASSUME NEW who \in {"issue", "execute", "other"}, NEW cs, NEW args \in Values,
         IsList(cs), \A i \in DOMAIN cs : Proper(cs[i]),
         granted' \in Requests \cup {Missing},
         Start(who, cs, args)
  PROVE  TypeOK' /\ LoopInv'
<1>1. /\ call' = who /\ constraints' = cs /\ arguments' = args /\ next' = 1
      /\ verdict' = Root(args)
  BY DEF Start
<1>2. verdict' = (IF args[1] = "dict" THEN "open" ELSE "ARGUMENT_TYPE_MISMATCH")
  BY <1>1 DEF Root
<1>3. Len(cs) \in Nat /\ DOMAIN cs = 1 .. Len(cs) BY DEF IsList
<1>4. TypeOK' BY <1>1, <1>2, <1>3 DEF TypeOK, Verdicts, Proper
<1>5. Passed' BY <1>1, <1>3 DEF Passed
<1> QED BY <1>1, <1>2, <1>4, <1>5 DEF LoopInv, IsList

LEMMA EvaluateArgument ==
  ASSUME ArgumentInv, NEW args \in Requests, NEW p \in Policies, Evaluate(args, p)
  PROVE  ArgumentInv'
<1> DEFINE cs == ArgConstraints(args, p)
<1>1. /\ granted' = args /\ policy' = p /\ Start("issue", cs, args) BY DEF Evaluate
<1>2. args \in Values BY RequestsAssumption
<1>3. IsList(cs) /\ \A i \in DOMAIN cs : Proper(cs[i]) BY ArgConstraintsExactly
<1> HIDE DEF cs
<1>4. TypeOK' /\ LoopInv' BY <1>1, <1>2, <1>3, StartLoop
<1>5. GrantInv' BY <1>1 DEF GrantInv, Start, cs
<1> QED BY <1>4, <1>5 DEF ArgumentInv

LEMMA ExecuteArgument ==
  ASSUME ArgumentInv, NEW args \in Requests, Execute(args)
  PROVE  ArgumentInv'
<1>1. /\ Start("execute", constraints, args) /\ UNCHANGED <<granted, policy>>
      /\ (call = "issue" /\ verdict = "allow") \/ call = "execute"
  BY DEF Execute
<1>2. args \in Values BY RequestsAssumption
<1>3. granted' \in Requests \cup {Missing} BY <1>1 DEF ArgumentInv, GrantInv
<1>4. IsList(constraints) /\ \A i \in DOMAIN constraints : Proper(constraints[i])
  BY DEF ArgumentInv, LoopInv
<1>5. TypeOK' /\ LoopInv' BY <1>1, <1>2, <1>3, <1>4, StartLoop
<1>6. \A i \in DOMAIN constraints : Check(constraints[i], granted) = "ok"
  <2>1. CASE call = "issue" /\ verdict = "allow"
    <3>1. arguments = granted /\ next = Len(constraints) + 1 BY <2>1 DEF ArgumentInv, GrantInv, LoopInv
    <3>2. \A i \in DOMAIN constraints : i < next BY <1>4, <3>1 DEF IsList
    <3> QED BY <2>1, <3>1, <3>2 DEF ArgumentInv, LoopInv, Passed
  <2>2. CASE call = "execute" BY <2>2 DEF ArgumentInv, GrantInv
  <2> QED BY <1>1, <2>1, <2>2
<1>7. GrantInv' BY <1>1, <1>6 DEF ArgumentInv, GrantInv, Start
<1> QED BY <1>5, <1>7 DEF ArgumentInv

LEMMA CallElsewhereArgument ==
  ASSUME ArgumentInv, CallElsewhere
  PROVE  ArgumentInv'
<1>1. PICK c \in OtherCalls : Start("other", c[1], c[2]) BY DEF CallElsewhere
<1>2. granted' = granted BY DEF CallElsewhere
<1>3. c[2] \in Values /\ IsList(c[1]) BY OtherCallsAssumption DEF IsList
<1>4. \A i \in DOMAIN c[1] : Proper(c[1][i])
  BY OtherCallsAssumption, ValuesAssumption DEF Proper
<1>5. granted' \in Requests \cup {Missing} BY <1>2 DEF ArgumentInv, TypeOK
<1>6. TypeOK' /\ LoopInv' BY <1>1, <1>3, <1>4, <1>5, StartLoop
<1>7. GrantInv' BY <1>1 DEF GrantInv, Start
<1> QED BY <1>6, <1>7 DEF ArgumentInv

LEMMA CheckNextArgument ==
  ASSUME ArgumentInv, CheckNext
  PROVE  ArgumentInv'
<1> DEFINE reason == Check(constraints[next], arguments)
<1>1. /\ call # "none" /\ verdict = "open" /\ next <= Len(constraints)
      /\ UNCHANGED <<call, granted, policy, constraints, arguments>>
      /\ \/ reason = "ok" /\ next' = next + 1 /\ verdict' = verdict
         \/ reason # "ok" /\ verdict' = reason /\ next' = next
  BY DEF CheckNext, Pass
<1>2. reason \in Refusals \cup {"ok"} BY CheckResult
<1>3. Len(constraints) \in Nat /\ DOMAIN constraints = 1 .. Len(constraints)
  BY DEF ArgumentInv, LoopInv, IsList
<1>4. next \in 1 .. Len(constraints) BY <1>1, <1>3 DEF ArgumentInv, TypeOK
<1>5. GrantInv' BY <1>1 DEF ArgumentInv, GrantInv
<1>6. CASE reason = "ok"
  <2>1. next' = next + 1 /\ verdict' = verdict BY <1>1, <1>6
  <2>2. TypeOK' BY <1>1, <1>3, <1>4, <2>1 DEF ArgumentInv, TypeOK
  <2>3. \A i \in DOMAIN constraints : i < next + 1 => Check(constraints[i], arguments) = "ok"
    BY <1>1, <1>3, <1>4, <1>6 DEF ArgumentInv, LoopInv, Passed
  <2>4. Passed' BY <1>1, <2>1, <2>3 DEF Passed
  <2>5. LoopInv' BY <1>1, <2>1, <2>4 DEF ArgumentInv, LoopInv, IsList
  <2> QED BY <1>5, <2>2, <2>5 DEF ArgumentInv
<1>7. CASE reason # "ok"
  <2>1. verdict' = reason /\ next' = next /\ reason \in Refusals BY <1>1, <1>2, <1>7
  <2> HIDE DEF reason
  <2>2. verdict' \in Verdicts /\ verdict' \notin {"open", "allow"} BY <2>1 DEF Refusals
  <2>3. TypeOK' BY <1>1, <2>1, <2>2 DEF ArgumentInv, TypeOK
  <2>4. LoopInv' BY <1>1, <2>2 DEF ArgumentInv, LoopInv, IsList, Passed
  <2> QED BY <1>5, <2>3, <2>4 DEF ArgumentInv
<1> QED BY <1>6, <1>7

LEMMA AllowArgument ==
  ASSUME ArgumentInv, Allow
  PROVE  ArgumentInv'
<1>1. /\ call # "none" /\ verdict = "open" /\ next > Len(constraints)
      /\ verdict' = "allow"
      /\ UNCHANGED <<call, granted, policy, constraints, arguments, next>>
  BY DEF Allow
<1>2. Len(constraints) \in Nat BY DEF ArgumentInv, LoopInv, IsList
<1>3. next = Len(constraints) + 1 BY <1>1, <1>2 DEF ArgumentInv, TypeOK
<1>4. TypeOK' BY <1>1 DEF ArgumentInv, TypeOK, Verdicts
<1>5. LoopInv' BY <1>1, <1>3 DEF ArgumentInv, LoopInv, IsList, Passed
<1>6. GrantInv' BY <1>1 DEF ArgumentInv, GrantInv
<1> QED BY <1>4, <1>5, <1>6 DEF ArgumentInv

LEMMA NextArgument == ArgumentInv /\ [Next]_vars => ArgumentInv'
<1> SUFFICES ASSUME ArgumentInv, [Next]_vars PROVE ArgumentInv' OBVIOUS
<1>1. ASSUME NEW args \in Requests, NEW p \in Policies, Evaluate(args, p) PROVE ArgumentInv'
  BY <1>1, EvaluateArgument
<1>2. ASSUME NEW args \in Requests, Execute(args) PROVE ArgumentInv' BY <1>2, ExecuteArgument
<1>3. CASE CallElsewhere BY <1>3, CallElsewhereArgument
<1>4. CASE CheckNext BY <1>4, CheckNextArgument
<1>5. CASE Allow BY <1>5, AllowArgument
<1>6. CASE UNCHANGED vars
  BY <1>6 DEF vars, ArgumentInv, TypeOK, LoopInv, IsList, Passed, GrantInv
<1> QED BY <1>1, <1>2, <1>3, <1>4, <1>5, <1>6 DEF Next

LEMMA ArgumentInvariant == Spec => []ArgumentInv
BY InitArgument, NextArgument, PTL DEF Spec

(* The checks of a grant's arguments and every other loop keep their types *)
(* and end in a known verdict.                                             *)
THEOREM ArgumentTypeCorrect == Spec => []TypeOK
<1>1. ArgumentInv => TypeOK BY DEF ArgumentInv
<1> QED BY <1>1, ArgumentInvariant, PTL

---------------------------------------------------------------------------
(* What the verdict says of the arguments. *)

(* A constraint passes only on a value that is there and that its operator *)
(* accepts.                                                                *)
LEMMA CheckOk ==
  ASSUME NEW c, NEW args, Check(c, args) = "ok"
  PROVE  LET v == GetNestedValue(args, c.path) IN
         /\ v # Missing
         /\ c.op # "exists" => WellTyped(c.op, v, c.value) /\ Holds(c.op, v, c.value)
BY DEF Check, CheckExists, CheckFound, Missing

(* The only value that equals a scalar of the same kind is that scalar.    *)
LEMMA ScalarEquality ==
  ASSUME NEW v, NEW w, IsScalar(w), WellTyped("eq", v, w), Holds("eq", v, w)
  PROVE  SameValue(v, w)
<1>1. PyEq(v, w) BY DEF Holds
<1>2. ScalarEq(v, w) BY <1>1 DEF PyEq, IsScalar, IsContainer
<1>3. TypeOf(v) = TypeOf(w) \/ (IsNumber(v) /\ IsNumber(w)) BY DEF WellTyped
<1>4. IsNumber(v) <=> IsNumber(w) BY <1>3 DEF TypeOf, IsNumber
<1> QED BY <1>2, <1>4 DEF SameValue

(* A top-level key on which a constraint of the list passed.               *)
LEMMA KeyPassed ==
  ASSUME ArgumentInv, call # "none", verdict = "allow",
         NEW k, NEW op, op # "exists", NEW w, NEW i \in DOMAIN constraints,
         constraints[i] = Constraint(<<k>>, op, w)
  PROVE  /\ arguments[1] = "dict" /\ k \in DOMAIN arguments[2]
         /\ arguments[2][k] \in Values
         /\ WellTyped(op, arguments[2][k], w) /\ Holds(op, arguments[2][k], w)
<1> DEFINE v == GetNestedValue(arguments, <<k>>)
<1>1. next = Len(constraints) + 1 /\ IsList(constraints) BY DEF ArgumentInv, LoopInv
<1>2. i < next BY <1>1 DEF IsList
<1>3. Check(constraints[i], arguments) = "ok" BY <1>2 DEF ArgumentInv, LoopInv, Passed
<1>4. /\ constraints[i].path = <<k>> /\ constraints[i].op = op /\ constraints[i].value = w
  BY DEF Constraint
<1>5. v # Missing /\ WellTyped(op, v, w) /\ Holds(op, v, w) BY <1>3, <1>4, CheckOk
<1>6. v = Child(arguments, k) BY OnePart
<1>7. arguments[1] = "dict" /\ arguments \in Values BY DEF ArgumentInv, LoopInv, Missing
<1> HIDE DEF v
<1>8. k \in DOMAIN arguments[2] /\ v = arguments[2][k] BY <1>5, <1>6, <1>7 DEF Child
<1> QED BY <1>5, <1>7, <1>8, ValuesAssumption

(* Whatever is presented to the gateway, and however often, a tool runs    *)
(* with every scalar argument of its grant.                                *)
THEOREM ArgumentsExecutedAsGranted == Spec => []ExecutedAsGranted
<1>1. ArgumentInv => ExecutedAsGranted
  <2> SUFFICES ASSUME ArgumentInv, call = "execute", verdict = "allow",
                      NEW k \in DOMAIN granted[2], IsScalar(granted[2][k])
               PROVE  k \in DOMAIN arguments[2] /\ SameValue(arguments[2][k], granted[2][k])
    BY DEF ExecutedAsGranted
  <2>1. /\ granted \in Requests /\ policy \in Policies
        /\ constraints = ArgConstraints(granted, policy)
    BY DEF ArgumentInv, GrantInv
  <2>2. PICK i \in DOMAIN constraints : constraints[i] = Constraint(<<k>>, "eq", granted[2][k])
    BY <2>1, ArgConstraintsExactly
  <2>3. /\ k \in DOMAIN arguments[2]
        /\ WellTyped("eq", arguments[2][k], granted[2][k])
        /\ Holds("eq", arguments[2][k], granted[2][k])
    BY <2>2, KeyPassed
  <2> QED BY <2>3, ScalarEquality
<1> QED BY <1>1, ArgumentInvariant, PTL

(* What is issued or runs is a number above zero and at most the limit, in *)
(* a currency of the policy.                                               *)
THEOREM ArgumentsWithinLimits == Spec => []WithinLimits
<1>1. ArgumentInv => WithinLimits
  <2> SUFFICES ASSUME ArgumentInv, call \in {"issue", "execute"}, verdict = "allow"
               PROVE  /\ policy.max # NoCap =>
                           /\ "amount_minor" \in DOMAIN arguments[2]
                           /\ arguments[2]["amount_minor"] \in {"int", "float"} \X (1 .. policy.max)
                      /\ policy.currencies # <<>> =>
                           /\ "currency" \in DOMAIN arguments[2]
                           /\ arguments[2]["currency"] \in
                                {policy.currencies[i] : i \in DOMAIN policy.currencies}
    BY DEF WithinLimits
  <2>1. /\ granted \in Requests /\ policy \in Policies
        /\ constraints = ArgConstraints(granted, policy)
    BY DEF ArgumentInv, GrantInv
  <2>2. ASSUME policy.max # NoCap
        PROVE  /\ "amount_minor" \in DOMAIN arguments[2]
               /\ arguments[2]["amount_minor"] \in {"int", "float"} \X (1 .. policy.max)
    <3> DEFINE v == arguments[2]["amount_minor"]
    <3>1. PICK i, j \in DOMAIN constraints : constraints[i] = Cap(policy) /\ constraints[j] = Positive
      BY <2>1, <2>2, ArgConstraintsExactly
    <3>2. /\ "amount_minor" \in DOMAIN arguments[2] /\ v \in Values
          /\ WellTyped("lte", v, <<"int", policy.max>>) /\ Holds("lte", v, <<"int", policy.max>>)
      BY <3>1, KeyPassed DEF Cap
    <3>3. Holds("gt", v, <<"int", 0>>) BY <3>1, KeyPassed DEF Positive
    <3>4. policy.max \in Int BY <2>1, <2>2, RequestsAssumption
    <3> HIDE DEF v
    <3>5. IsNumber(v) /\ LessEq(v, <<"int", policy.max>>) /\ Less(<<"int", 0>>, v)
      BY <3>2, <3>3 DEF WellTyped, Holds
    <3>6. v[1] # "nan" /\ v[1] \in {"int", "float"} BY <3>5 DEF Less, IsNumber
    <3>7. v = <<v[1], v[2]>> /\ v[2] \in Int BY <3>2, <3>6, ValuesAssumption
    <3>8. 0 < v[2] BY <3>5 DEF Less
    <3>9. v[2] < policy.max \/ v[2] = policy.max BY <3>5 DEF LessEq, Less, ScalarEq
    <3>10. v[2] \in 1 .. policy.max BY <3>4, <3>7, <3>8, <3>9
    <3> QED BY <3>2, <3>6, <3>7, <3>10 DEF v
  <2>3. ASSUME policy.currencies # <<>>
        PROVE  /\ "currency" \in DOMAIN arguments[2]
               /\ arguments[2]["currency"] \in
                    {policy.currencies[i] : i \in DOMAIN policy.currencies}
    <3> DEFINE v == arguments[2]["currency"]
               cs == policy.currencies
    <3>1. PICK i \in DOMAIN constraints : constraints[i] = Currency(policy)
      BY <2>1, <2>3, ArgConstraintsExactly
    <3>2. "currency" \in DOMAIN arguments[2] /\ v \in Values /\ Holds("in", v, <<"list", cs>>)
      BY <3>1, KeyPassed DEF Currency
    <3> HIDE DEF v
    <3>3. Member(<<"list", cs>>, v) BY <3>2 DEF Holds
    <3>4. PICK j \in DOMAIN cs : PyEq(cs[j], v) BY <3>3 DEF Member
    <3>5. cs[j] = <<"str", cs[j][2]>> BY <2>1, RequestsAssumption
    <3>6. v[1] = "str" /\ v[2] = cs[j][2] BY <3>4, <3>5 DEF PyEq, ScalarEq, IsContainer
    <3>7. v = <<v[1], v[2]>> BY <3>2, ValuesAssumption
    <3> QED BY <3>2, <3>5, <3>6, <3>7 DEF v
  <2> QED BY <2>2, <2>3
<1> QED BY <1>1, ArgumentInvariant, PTL

(* The gateway never refuses what the control plane issued the grant for.  *)
(* A refusal would come from a constraint that passed on the same arguments*)
(* before.                                                                 *)
THEOREM IssuedGrantsExecutable == Spec => []IssuedIsExecutable
<1>1. Init => IssuedIsExecutable BY DEF Init, IssuedIsExecutable
<1>2. ArgumentInv /\ IssuedIsExecutable /\ [Next]_vars => IssuedIsExecutable'
  <2> SUFFICES ASSUME ArgumentInv, IssuedIsExecutable, [Next]_vars,
                      call' = "execute", arguments' = granted'
               PROVE  verdict' \in {"open", "allow"}
    BY DEF IssuedIsExecutable
  <2>1. ASSUME NEW args \in Requests, NEW p \in Policies, Evaluate(args, p)
        PROVE  verdict' \in {"open", "allow"}
    BY <2>1 DEF Evaluate, Start
  <2>2. ASSUME NEW args \in Requests, Execute(args) PROVE verdict' \in {"open", "allow"}
    BY <2>2, RequestsAssumption DEF Execute, Start, Root
  <2>3. CASE CallElsewhere BY <2>3 DEF CallElsewhere, Start
  <2>4. CASE CheckNext
    <3>1. /\ verdict = "open" /\ next <= Len(constraints)
          /\ UNCHANGED <<call, granted, constraints, arguments>>
          /\ Check(constraints[next], arguments) # "ok" \/ verdict' = verdict
      BY <2>4 DEF CheckNext, Pass
    <3>2. next \in DOMAIN constraints BY <3>1 DEF ArgumentInv, TypeOK, LoopInv, IsList
    <3>3. Check(constraints[next], arguments) = "ok"
      BY <3>1, <3>2 DEF ArgumentInv, GrantInv
    <3> QED BY <3>1, <3>3
  <2>5. CASE Allow BY <2>5 DEF Allow
  <2>6. CASE UNCHANGED vars BY <2>6 DEF vars, IssuedIsExecutable
  <2> QED BY <2>1, <2>2, <2>3, <2>4, <2>5, <2>6 DEF Next
<1> QED BY <1>1, <1>2, ArgumentInvariant, PTL DEF Spec

(* No constraint of an allowed list denies, for every caller.              *)
LEMMA AllPassed == ArgumentInv => AllMustPass
<1> SUFFICES ASSUME ArgumentInv, verdict = "allow", NEW i \in DOMAIN constraints
             PROVE  Check(constraints[i], arguments) = "ok"
  BY DEF AllMustPass
<1>1. next = Len(constraints) + 1 /\ IsList(constraints) BY DEF ArgumentInv, LoopInv
<1>2. i < next BY <1>1 DEF IsList
<1> QED BY <1>2 DEF ArgumentInv, LoopInv, Passed

(* No execution and no issuance is allowed while a constraint would refuse *)
(* its arguments, however many constraints there are.                      *)
THEOREM AllConstraintsMustPass == Spec => []AllMustPass
BY AllPassed, ArgumentInvariant, PTL

(* A path that leads nowhere, at any of its parts, or is too deep denies   *)
(* whatever its operator.                                                  *)
THEOREM UnknownPathsAreDenied == Spec => []UnknownPathsDeny
<1>1. ArgumentInv => UnknownPathsDeny
  <2> SUFFICES ASSUME ArgumentInv, verdict = "allow", NEW i \in DOMAIN constraints
               PROVE  LET path == constraints[i].path IN
                      /\ Len(path) \in 1 .. MaxNestingDepth
                      /\ \A n \in 1 .. Len(path) :
                           HasChild(Steps(arguments, path)[n - 1], path[n])
    BY DEF UnknownPathsDeny
  <2>1. Check(constraints[i], arguments) = "ok" BY AllPassed DEF AllMustPass
  <2>2. GetNestedValue(arguments, constraints[i].path) # Missing BY <2>1, CheckOk
  <2> QED BY <2>2, LookupFound
<1> QED BY <1>1, ArgumentInvariant, PTL

(* A comparison that passes, strict or not and in either direction, is one *)
(* of integers or floats in that order.                                    *)
THEOREM ComparisonsOrderNumbers == Spec => []OrderedNumbers
<1>1. ArgumentInv => OrderedNumbers
  <2> SUFFICES ASSUME ArgumentInv, verdict = "allow", NEW i \in DOMAIN constraints,
                      constraints[i].op \in Comparisons
               PROVE  LET op == constraints[i].op
                          v  == GetNestedValue(arguments, constraints[i].path)
                          w  == constraints[i].value
                      IN  /\ {v[1], w[1]} \subseteq {"int", "float"}
                          /\ op = "lt"  => v[2] < w[2]
                          /\ op = "lte" => v[2] <= w[2]
                          /\ op = "gt"  => v[2] > w[2]
                          /\ op = "gte" => v[2] >= w[2]
    BY DEF OrderedNumbers
  <2> DEFINE op == constraints[i].op
             w  == constraints[i].value
             v  == GetNestedValue(arguments, constraints[i].path)
  <2>1. Check(constraints[i], arguments) = "ok" BY AllPassed DEF AllMustPass
  <2>2. WellTyped(op, v, w) /\ Holds(op, v, w) BY <2>1, CheckOk DEF Comparisons
  <2>3. v \in Values \cup {Missing} BY LookupType DEF ArgumentInv, LoopInv
  <2>4. Proper(constraints[i]) BY DEF ArgumentInv, LoopInv
  <2>5. w[1] \in {"int", "float", "bool"} => w[2] \in Int BY <2>4 DEF Proper
  <2>6. v[1] \in {"int", "float", "bool"} => v[2] \in Int BY <2>3, ValuesAssumption DEF Missing
  <2>7. op \in Comparisons OBVIOUS
  <2> HIDE DEF op, v, w
  <2>8. IsNumber(v) /\ IsNumber(w) BY <2>2, <2>7 DEF WellTyped, Comparisons
  <2>9. LessEq(v, w) \/ LessEq(w, v) BY <2>2, <2>7 DEF Holds, LessEq, Comparisons
  <2>10. {v[1], w[1]} \subseteq {"int", "float"}
    BY <2>8, <2>9 DEF LessEq, Less, ScalarEq, IsNumber
  <2>11. v[2] \in Int /\ w[2] \in Int BY <2>5, <2>6, <2>10
  <2>12. /\ op = "lt" => Less(v, w)
         /\ op = "lte" => LessEq(v, w)
         /\ op = "gt" => Less(w, v)
         /\ op = "gte" => LessEq(w, v)
    BY <2>2 DEF Holds
  <2>13. /\ Less(v, w) => v[2] < w[2]
         /\ Less(w, v) => w[2] < v[2]
         /\ LessEq(v, w) => v[2] <= w[2]
         /\ LessEq(w, v) => w[2] <= v[2]
    BY <2>11 DEF LessEq, Less, ScalarEq
  <2>14. /\ op = "lt"  => v[2] < w[2]
         /\ op = "lte" => v[2] <= w[2]
         /\ op = "gt"  => v[2] > w[2]
         /\ op = "gte" => v[2] >= w[2]
    BY <2>11, <2>12, <2>13
  <2> QED BY <2>10, <2>14 DEF op, v, w
<1> QED BY <1>1, ArgumentInvariant, PTL
=============================================================================
