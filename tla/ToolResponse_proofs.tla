------------------------- MODULE ToolResponse_proofs -------------------------
(***************************************************************************)
(* Theorems about Projection and ToolResponse for every set of values,     *)
(* requests, policies and answers.                                         *)
(***************************************************************************)
EXTENDS ToolResponse, ArgumentPolicy_proofs, SequenceTheorems

---------------------------------------------------------------------------
(* The recursion of _project_recursive. *)

Trees == SUBSET FieldPaths

(* One call of it, where f makes the calls it makes.                       *)
OneCall(f, data, tree) ==
  CASE data[1] = "dict" ->
         <<"dict", [key \in DOMAIN data[2] \cap Heads(tree) |->
            IF Below(tree, key) = {} THEN data[2][key]
            ELSE f[data[2][key]][Below(tree, key)]]>>
    [] data[1] = "list" ->
         <<"list", [i \in DOMAIN data[2] |->
            IF IsContainer(data[2][i]) THEN f[data[2][i]][tree]
            ELSE data[2][i]]>>
    [] OTHER -> None

LEMMA BelowIsTree ==
  ASSUME NEW tree \in Trees, NEW key
  PROVE  Below(tree, key) \in Trees
<1> SUFFICES ASSUME NEW path \in tree, Len(path) > 1 PROVE Tail(path) \in Seq(Key)
  BY DEF Below, Trees, FieldPaths
<1>1. path \in Seq(Key) BY DEF Trees, FieldPaths
<1> QED BY <1>1

(* What a list or dict holds are values, less deep than it.                *)
LEMMA Inside ==
  ASSUME NEW v \in Values, IsContainer(v), NEW k \in DOMAIN v[2]
  PROVE  v[2][k] \in Values /\ Depth[v[2][k]] < Depth[v]
<1>1. CASE v[1] = "dict" BY <1>1, ValuesAssumption, RecursionAssumption
<1>2. CASE v[1] = "list"
  <2>1. v[2] \in Seq(Values) BY <1>2, ValuesAssumption
  <2>2. v[2][k] \in Values BY <2>1
  <2> QED BY <2>2, RecursionAssumption
<1> QED BY <1>1, <1>2 DEF IsContainer

(* A call depends only on calls on what is inside.                         *)
LEMMA CallsAgree ==
  ASSUME NEW f, NEW g, NEW v \in Values, NEW tree \in Trees,
         \A w \in Values : Depth[w] < Depth[v] => f[w] = g[w]
  PROVE  OneCall(f, v, tree) = OneCall(g, v, tree)
<1>1. ASSUME IsContainer(v), NEW k \in DOMAIN v[2] PROVE f[v[2][k]] = g[v[2][k]]
  BY <1>1, Inside
<1>2. CASE v[1] = "dict" BY <1>1, <1>2 DEF OneCall, IsContainer
<1>3. CASE v[1] = "list" BY <1>1, <1>3 DEF OneCall, IsContainer
<1>4. CASE v[1] \notin {"dict", "list"} BY <1>4 DEF OneCall
<1> QED BY <1>2, <1>3, <1>4

(* A function that follows the equation exists for the values of each      *)
(* depth, and all values have a depth.                                     *)
LEMMA ProjectionExists ==
  \E f : f = [v \in Values |-> [tree \in Trees |-> OneCall(f, v, tree)]]
<1> DEFINE UpTo(n) == {v \in Values : Depth[v] < n}
           Exists(n) == \E f : \A v \in UpTo(n) : f[v] = [tree \in Trees |-> OneCall(f, v, tree)]
           S == {n \in Nat : Exists(n)}
<1>1. \A v \in Values : Depth[v] \in 0 .. RecursionLimit BY RecursionAssumption
<1>2. 0 \in S
  <2>1. UpTo(0) = {} BY <1>1
  <2> QED BY <2>1
<1>3. ASSUME NEW n \in Nat, n \in S PROVE n + 1 \in S
  <2>1. PICK f : \A v \in UpTo(n) : f[v] = [tree \in Trees |-> OneCall(f, v, tree)]
    BY <1>3
  <2> DEFINE h == [v \in UpTo(n + 1) |->
                     IF v \in UpTo(n) THEN f[v] ELSE [tree \in Trees |-> OneCall(f, v, tree)]]
  <2>2. ASSUME NEW v \in UpTo(n + 1) PROVE h[v] = [tree \in Trees |-> OneCall(h, v, tree)]
    <3>1. h[v] = [tree \in Trees |-> OneCall(f, v, tree)] BY <2>1
    <3>2. ASSUME NEW w \in Values, Depth[w] < Depth[v] PROVE h[w] = f[w]
      BY <1>1, <3>2
    <3>3. v \in Values OBVIOUS
    <3> HIDE DEF h
    <3>4. \A tree \in Trees : OneCall(h, v, tree) = OneCall(f, v, tree)
      BY <3>2, <3>3, CallsAgree
    <3> QED BY <3>1, <3>4
  <2> HIDE DEF h, UpTo
  <2>3. Exists(n + 1) BY <2>2
  <2> HIDE DEF Exists
  <2> QED BY <2>3
<1> HIDE DEF S
<1>4. Nat \subseteq S BY <1>2, <1>3, NatSetInduction
<1>5. RecursionLimit + 1 \in Nat /\ UpTo(RecursionLimit + 1) = Values
  BY <1>1, RecursionAssumption
<1>6. Exists(RecursionLimit + 1) BY <1>4, <1>5 DEF S
<1>7. PICK f : \A v \in Values : f[v] = [tree \in Trees |-> OneCall(f, v, tree)]
  BY <1>5, <1>6
<1> DEFINE g == [v \in Values |-> f[v]]
<1>8. \A v \in Values, tree \in Trees : OneCall(g, v, tree) = OneCall(f, v, tree)
  <2>1. \A v \in Values : g[v] = f[v] OBVIOUS
  <2> HIDE DEF g
  <2> QED BY <2>1, CallsAgree
<1>9. g = [v \in Values |-> [tree \in Trees |-> OneCall(g, v, tree)]]
  BY <1>7, <1>8
<1> QED BY <1>9

LEMMA ProjectEquation ==
  ASSUME NEW v \in Values, NEW tree \in Trees
  PROVE  ProjectRecursive[v][tree] = OneCall(ProjectRecursive, v, tree)
<1>1. ProjectRecursive =
        CHOOSE f : f = [w \in Values |-> [t \in Trees |-> OneCall(f, w, t)]]
  BY DEF ProjectRecursive, OneCall, Trees
<1>2. ProjectRecursive = [w \in Values |-> [t \in Trees |-> OneCall(ProjectRecursive, w, t)]]
  BY <1>1, ProjectionExists
<1> HIDE DEF ProjectRecursive
<1> QED BY <1>2

---------------------------------------------------------------------------
(* Prefixes of paths, entry by entry. *)

(* What is left of a path after its first n keys, and of a tree below some *)
(* keys.                                                                   *)
Drop(path, n) == SubSeq(path, n + 1, Len(path))

Longer(tree, keys) == {path \in tree : IsStrictPrefix(keys, path)}

After(tree, keys) == {Drop(path, Len(keys)) : path \in Longer(tree, keys)}

Agree(s, t, n) == \A i \in 1 .. n : s[i] = t[i]

LEMMA PathFacts ==
  ASSUME NEW s \in FieldPaths
  PROVE  /\ Len(s) \in Nat
         /\ \A i \in 1 .. Len(s) : s[i] \in Key
         /\ s = <<>> <=> Len(s) = 0
         /\ \A t \in FieldPaths : s = t <=> Len(s) = Len(t) /\ Agree(s, t, Len(s))
<1>1. /\ Len(s) \in Nat /\ \A i \in 1 .. Len(s) : s[i] \in Key
      /\ s = <<>> <=> Len(s) = 0
  BY EmptySeq DEF FieldPaths
<1>2. ASSUME NEW t \in FieldPaths, Len(s) = Len(t), Agree(s, t, Len(s)) PROVE s = t
  BY <1>2, SeqEqual DEF FieldPaths, Agree
<1> QED BY <1>1, <1>2 DEF Agree

LEMMA DropFacts ==
  ASSUME NEW path \in FieldPaths, NEW n \in Nat, n < Len(path)
  PROVE  /\ Drop(path, n) \in FieldPaths /\ Drop(path, n) # <<>>
         /\ Len(Drop(path, n)) = Len(path) - n
         /\ Drop(path, n)[1] = path[n + 1]
         /\ Tail(Drop(path, n)) = Drop(path, n + 1)
<1> DEFINE d == Drop(path, n)
           e == Drop(path, n + 1)
<1>1. Len(path) \in Nat /\ \A i \in 1 .. Len(path) : path[i] \in Key BY PathFacts
<1>2. /\ d \in FieldPaths /\ Len(d) = Len(path) - n
      /\ \A i \in 1 .. Len(path) - n : d[i] = path[n + i]
  <2>1. n + 1 \in Int /\ Len(path) \in Int /\ path \in Seq(Key)
    BY <1>1 DEF FieldPaths
  <2>2. \A i \in n + 1 .. Len(path) : path[i] \in Key BY <1>1
  <2> QED BY <1>1, <2>1, <2>2, SubSeqProperties DEF Drop, FieldPaths
<1>3. /\ e \in FieldPaths /\ Len(e) = Len(path) - (n + 1)
      /\ \A i \in 1 .. Len(path) - (n + 1) : e[i] = path[n + 1 + i]
  <2>1. n + 1 + 1 \in Int /\ Len(path) \in Int /\ path \in Seq(Key)
    BY <1>1 DEF FieldPaths
  <2>2. \A i \in n + 1 + 1 .. Len(path) : path[i] \in Key BY <1>1
  <2> QED BY <1>1, <2>1, <2>2, SubSeqProperties DEF Drop, FieldPaths
<1> HIDE DEF d, e
<1>4. d # <<>> /\ d[1] = path[n + 1] BY <1>1, <1>2, PathFacts
<1>5. Tail(d) = e
  <2>1. /\ Tail(d) \in FieldPaths /\ Len(Tail(d)) = Len(d) - 1
        /\ \A i \in 1 .. Len(Tail(d)) : Tail(d)[i] = d[i + 1]
    BY <1>2, <1>4, HeadTailProperties DEF FieldPaths
  <2>2. Len(Tail(d)) = Len(e) BY <1>1, <1>2, <1>3, <2>1
  <2>3. ASSUME NEW i \in 1 .. Len(e) PROVE Tail(d)[i] = e[i]
    <3>1. Tail(d)[i] = d[i + 1] BY <2>1, <2>2
    <3>2. i + 1 \in 1 .. Len(path) - n /\ n + (i + 1) = n + 1 + i BY <1>1, <1>3
    <3>3. d[i + 1] = path[n + (i + 1)] BY <1>2, <3>2
    <3> QED BY <1>3, <3>1, <3>2, <3>3
  <2> QED BY <1>3, <2>1, <2>2, <2>3, PathFacts DEF Agree
<1> QED BY <1>2, <1>4, <1>5 DEF d, e

LEMMA PrefixPoints ==
  ASSUME NEW s \in FieldPaths, NEW t \in FieldPaths
  PROVE  /\ IsPrefix(s, t) <=> Len(s) <= Len(t) /\ Agree(s, t, Len(s))
         /\ IsStrictPrefix(s, t) <=> Len(s) < Len(t) /\ Agree(s, t, Len(s))
<1>1. Len(s) \in Nat /\ Len(t) \in Nat BY PathFacts
<1> DEFINE u == SubSeq(t, 1, Len(s))
<1>2. ASSUME Len(s) <= Len(t)
      PROVE  u \in FieldPaths /\ Len(u) = Len(s) /\ \A i \in 1 .. Len(s) : u[i] = t[i]
  <2>1. 1 \in Int /\ Len(s) \in Int /\ t \in Seq(Key) BY <1>1 DEF FieldPaths
  <2>2. \A i \in 1 .. Len(s) : t[i] \in Key BY <1>1, <1>2, PathFacts
  <2> QED BY <1>1, <2>1, <2>2, SubSeqProperties DEF FieldPaths
<1>3. SubSeq(s, 1, Len(s)) = s BY SubSeqFull DEF FieldPaths
<1>4. IsPrefix(s, t) <=> Len(s) <= Len(t) /\ s = u BY <1>3 DEF IsPrefix
<1> HIDE DEF u
<1>5. IsPrefix(s, t) <=> Len(s) <= Len(t) /\ Agree(s, t, Len(s))
  BY <1>2, <1>4, PathFacts DEF Agree
<1> QED BY <1>1, <1>5, PathFacts DEF IsStrictPrefix

LEMMA AppendPoints ==
  ASSUME NEW keys \in FieldPaths, NEW k \in Key
  PROVE  LET more == Append(keys, k) IN
         /\ more \in FieldPaths /\ Len(more) = Len(keys) + 1
         /\ more[Len(keys) + 1] = k /\ Agree(more, keys, Len(keys))
BY AppendProperties DEF FieldPaths, Agree

(* A path goes on from one more key.                                       *)
LEMMA StrictlyLonger ==
  ASSUME NEW keys \in FieldPaths, NEW k \in Key, NEW more, more = Append(keys, k),
         NEW path \in FieldPaths
  PROVE  /\ more \in FieldPaths /\ Len(more) = Len(keys) + 1
         /\ IsPrefix(more, path) <=>
              IsStrictPrefix(keys, path) /\ path[Len(keys) + 1] = k
         /\ IsStrictPrefix(more, path) <=>
              /\ IsStrictPrefix(keys, path) /\ path[Len(keys) + 1] = k
              /\ Len(path) > Len(keys) + 1
         /\ IsPrefix(path, more) <=> IsPrefix(path, keys) \/ path = more
<1>1. /\ more \in FieldPaths /\ Len(more) = Len(keys) + 1
      /\ more[Len(keys) + 1] = k /\ Agree(more, keys, Len(keys))
  BY AppendPoints
<1>2. Len(keys) \in Nat /\ Len(path) \in Nat BY PathFacts
<1>3. Agree(more, path, Len(keys) + 1) <=>
        Agree(keys, path, Len(keys)) /\ path[Len(keys) + 1] = k
  BY <1>1, <1>2 DEF Agree
<1>4. IsPrefix(more, path) <=> IsStrictPrefix(keys, path) /\ path[Len(keys) + 1] = k
  <2>1. /\ IsPrefix(more, path) <=>
             Len(keys) + 1 <= Len(path) /\ Agree(more, path, Len(keys) + 1)
        /\ IsStrictPrefix(keys, path) <=>
             Len(keys) < Len(path) /\ Agree(keys, path, Len(keys))
    BY <1>1, PrefixPoints
  <2> QED BY <1>2, <1>3, <2>1
<1>5. IsStrictPrefix(more, path) <=>
        /\ IsStrictPrefix(keys, path) /\ path[Len(keys) + 1] = k
        /\ Len(path) > Len(keys) + 1
  <2>1. /\ IsStrictPrefix(more, path) <=>
             Len(keys) + 1 < Len(path) /\ Agree(more, path, Len(keys) + 1)
        /\ IsStrictPrefix(keys, path) <=>
             Len(keys) < Len(path) /\ Agree(keys, path, Len(keys))
    BY <1>1, PrefixPoints
  <2> QED BY <1>2, <1>3, <2>1
<1>6. IsPrefix(path, more) <=> IsPrefix(path, keys) \/ path = more
  <2>1. /\ IsPrefix(path, more) <=>
             Len(path) <= Len(keys) + 1 /\ Agree(path, more, Len(path))
        /\ IsPrefix(path, keys) <=>
             Len(path) <= Len(keys) /\ Agree(path, keys, Len(path))
        /\ path = more <=>
             Len(path) = Len(keys) + 1 /\ Agree(path, more, Len(path))
    BY <1>1, PrefixPoints, PathFacts
  <2>2. Len(path) <= Len(keys) =>
          (Agree(path, more, Len(path)) <=> Agree(path, keys, Len(path)))
    BY <1>1, <1>2 DEF Agree
  <2> QED BY <1>2, <2>1, <2>2
<1> QED BY <1>1, <1>4, <1>5, <1>6

(* What is left below one more key is what Below leaves.                   *)
LEMMA BelowAfter ==
  ASSUME NEW tree \in Trees, NEW keys \in FieldPaths, NEW k \in Key
  PROVE  Below(After(tree, keys), k) = After(tree, Append(keys, k))
<1> DEFINE more == Append(keys, k)
           n == Len(keys)
<1>1. more \in FieldPaths /\ Len(more) = n + 1 /\ n \in Nat
  BY StrictlyLonger, PathFacts
<1>2. ASSUME NEW path \in tree
      PROVE  /\ path \in FieldPaths
             /\ path \in Longer(tree, more) <=>
                  path \in Longer(tree, keys) /\ path[n + 1] = k /\ Len(path) > n + 1
             /\ path \in Longer(tree, keys) =>
                  /\ Drop(path, n)[1] = path[n + 1]
                  /\ Len(Drop(path, n)) > 1 <=> Len(path) > n + 1
                  /\ Tail(Drop(path, n)) = Drop(path, n + 1)
  <2>1. path \in FieldPaths BY DEF Trees
  <2>2. path \in Longer(tree, more) <=>
          path \in Longer(tree, keys) /\ path[n + 1] = k /\ Len(path) > n + 1
    <3>1. IsStrictPrefix(more, path) <=>
            IsStrictPrefix(keys, path) /\ path[n + 1] = k /\ Len(path) > n + 1
      BY <2>1, StrictlyLonger
    <3> QED BY <3>1 DEF Longer
  <2>3. path \in Longer(tree, keys) => n < Len(path)
    BY <2>1, PrefixPoints DEF Longer
  <2>4. Len(path) \in Nat BY <2>1, PathFacts
  <2> QED BY <1>1, <2>1, <2>2, <2>3, <2>4, DropFacts
<1> HIDE DEF more
<1>3. ASSUME NEW rest \in After(tree, keys), rest[1] = k, Len(rest) > 1
      PROVE  Tail(rest) \in After(tree, more)
  <2>1. PICK path \in Longer(tree, keys) : rest = Drop(path, n) BY DEF After
  <2>2. path \in tree BY DEF Longer
  <2> QED BY <1>1, <1>2, <1>3, <2>1, <2>2 DEF After
<1>4. ASSUME NEW rest \in After(tree, more)
      PROVE  \E long \in After(tree, keys) : long[1] = k /\ Len(long) > 1 /\ rest = Tail(long)
  <2>1. PICK path \in Longer(tree, more) : rest = Drop(path, n + 1) BY <1>1 DEF After
  <2>2. path \in tree BY DEF Longer
  <2>3. Drop(path, n) \in After(tree, keys) BY <1>2, <2>1, <2>2 DEF After
  <2> QED BY <1>2, <2>1, <2>2, <2>3
<1> QED BY <1>3, <1>4 DEF Below, more

LEMMA AfterIsTree ==
  ASSUME NEW tree \in Trees, NEW keys \in FieldPaths
  PROVE  After(tree, keys) \in Trees
<1> SUFFICES ASSUME NEW path \in Longer(tree, keys)
             PROVE  Drop(path, Len(keys)) \in FieldPaths
  BY DEF After, Trees
<1>1. path \in FieldPaths /\ IsStrictPrefix(keys, path) BY DEF Longer, Trees
<1>2. Len(keys) \in Nat /\ Len(keys) < Len(path) BY <1>1, PrefixPoints, PathFacts
<1> QED BY <1>1, <1>2, DropFacts

LEMMA AfterNothing ==
  ASSUME NEW tree \in Trees, <<>> \notin tree
  PROVE  After(tree, <<>>) = tree
<1>1. <<>> \in FieldPaths /\ Len(<<>>) = 0 BY DEF FieldPaths
<1>2. ASSUME NEW path \in tree
      PROVE  path \in Longer(tree, <<>>) /\ Drop(path, 0) = path
  <2>1. path \in FieldPaths /\ path # <<>> BY DEF Trees
  <2>2. Len(path) \in Nat /\ Len(path) # 0 BY <2>1, PathFacts
  <2>3. IsStrictPrefix(<<>>, path) BY <1>1, <2>1, <2>2, PrefixPoints DEF Agree
  <2> QED BY <2>1, <2>3, SubSeqFull DEF Longer, Drop, FieldPaths
<1> QED BY <1>1, <1>2 DEF After, Longer

LEMMA OnTheWayAfter ==
  ASSUME NEW tree, NEW keys
  PROVE  OnTheWay(keys, tree) <=> After(tree, keys) # {}
BY DEF OnTheWay, After, Longer

(* How being allowed passes from some keys to one more.                    *)
LEMMA OneMoreKey ==
  ASSUME NEW tree \in Trees, NEW keys \in FieldPaths, NEW k \in Key,
         NEW more, more = Append(keys, k)
  PROVE  /\ more \in FieldPaths
         /\ Granted(keys, tree) => Granted(more, tree)
         /\ OnTheWay(more, tree) => OnTheWay(keys, tree) /\ ~Granted(more, tree)
         /\ k \in Heads(After(tree, keys)) <=> OnTheWay(more, tree) \/ more \in tree
         /\ more \in tree /\ ~OnTheWay(more, tree) => Granted(more, tree)
         /\ Granted(more, tree) => Granted(keys, tree) \/ more \in tree
<1>1. \A path \in tree : path \in FieldPaths BY DEF Trees
<1>2. /\ more \in FieldPaths /\ Len(more) = Len(keys) + 1
      /\ Len(keys) \in Nat
  BY StrictlyLonger, PathFacts
<1>3. Granted(keys, tree) => Granted(more, tree)
  BY <1>1, StrictlyLonger DEF Granted
<1>4. ASSUME OnTheWay(more, tree)
      PROVE  OnTheWay(keys, tree) /\ ~Granted(more, tree)
  <2>1. PICK long \in tree : IsStrictPrefix(more, long) BY <1>4 DEF OnTheWay
  <2>2. OnTheWay(keys, tree) BY <1>1, <2>1, StrictlyLonger DEF OnTheWay
  <2>3. ASSUME NEW path \in tree, IsPrefix(path, more) PROVE IsStrictPrefix(path, long)
    <3>1. /\ Len(path) <= Len(more) /\ Agree(path, more, Len(path))
          /\ Len(more) < Len(long) /\ Agree(more, long, Len(more))
          /\ Len(path) \in Nat /\ Len(more) \in Nat /\ Len(long) \in Nat
      BY <1>1, <1>2, <2>1, <2>3, PrefixPoints, PathFacts
    <3>2. Len(path) < Len(long) /\ Agree(path, long, Len(path)) BY <3>1 DEF Agree
    <3> QED BY <1>1, <3>2, PrefixPoints
  <2> QED BY <2>2, <2>3 DEF Granted
<1>5. k \in Heads(After(tree, keys)) <=> OnTheWay(more, tree) \/ more \in tree
  <2>1. k \in Heads(After(tree, keys)) <=>
          \E path \in Longer(tree, keys) : Drop(path, Len(keys))[1] = k
    BY DEF Heads, After
  <2>2. ASSUME NEW path \in tree
        PROVE  /\ IsStrictPrefix(keys, path) => Drop(path, Len(keys))[1] = path[Len(keys) + 1]
               /\ IsPrefix(more, path) <=> IsStrictPrefix(more, path) \/ path = more
    <3>1. IsStrictPrefix(keys, path) => Len(keys) < Len(path) BY <1>1, PrefixPoints
    <3>2. IsPrefix(more, path) <=> IsStrictPrefix(more, path) \/ path = more
      <4>1. IsPrefix(more, more) BY <1>2, PrefixPoints, PathFacts
      <4> QED BY <4>1 DEF IsStrictPrefix
    <3> QED BY <1>1, <1>2, <3>1, <3>2, DropFacts
  <2>3. k \in Heads(After(tree, keys)) <=> \E path \in tree : IsPrefix(more, path)
    <3>1. \A path \in tree : IsPrefix(more, path) <=>
            IsStrictPrefix(keys, path) /\ path[Len(keys) + 1] = k
      BY <1>1, StrictlyLonger
    <3> QED BY <2>1, <2>2, <3>1 DEF Longer
  <2> QED BY <2>2, <2>3 DEF OnTheWay
<1>6. more \in tree /\ ~OnTheWay(more, tree) => Granted(more, tree)
  <2>1. IsPrefix(more, more) BY <1>2, PrefixPoints, PathFacts DEF Agree
  <2> QED BY <2>1 DEF Granted, OnTheWay
<1>7. Granted(more, tree) => Granted(keys, tree) \/ more \in tree
  BY <1>1, StrictlyLonger DEF Granted
<1> QED BY <1>2, <1>3, <1>4, <1>5, <1>6, <1>7

(* Nothing is both at or under an allowed path and on the way to one.      *)
LEMMA GrantedOrOnTheWay ==
  ASSUME NEW tree \in Trees, NEW keys \in FieldPaths
  PROVE  ~(Granted(keys, tree) /\ OnTheWay(keys, tree))
<1>1. \A path \in tree : path \in FieldPaths BY DEF Trees
<1> SUFFICES ASSUME NEW path \in tree, IsPrefix(path, keys),
                    ~\E long \in tree : IsStrictPrefix(path, long),
                    NEW far \in tree, IsStrictPrefix(keys, far)
             PROVE  FALSE
  BY DEF Granted, OnTheWay
<1>2. /\ Len(path) <= Len(keys) /\ Agree(path, keys, Len(path))
      /\ Len(keys) < Len(far) /\ Agree(keys, far, Len(keys))
      /\ Len(path) \in Nat /\ Len(keys) \in Nat /\ Len(far) \in Nat
  BY <1>1, PrefixPoints, PathFacts
<1>3. Len(path) < Len(far) /\ Agree(path, far, Len(path)) BY <1>2 DEF Agree
<1>4. IsStrictPrefix(path, far) BY <1>1, <1>3, PrefixPoints
<1> QED BY <1>4

---------------------------------------------------------------------------
(* The levels of a value. *)

LEMMA LevelsExist ==
  ASSUME NEW v, NEW depth \in Nat
  PROVE  \E level : level = [n \in 0 .. depth |->
           IF n = 0 THEN {Whole(v)} ELSE Deeper(level[n - 1])]
<1> DEFINE Exists(m) == \E level : level = [n \in 0 .. m |->
                          IF n = 0 THEN {Whole(v)} ELSE Deeper(level[n - 1])]
           S == {m \in Nat : Exists(m)}
           first == {Whole(v)}
<1> HIDE DEF first
<1>1. 0 \in S
  <2>1. [n \in 0 .. 0 |-> first] =
          [n \in 0 .. 0 |-> IF n = 0 THEN first
                            ELSE Deeper([i \in 0 .. 0 |-> first][n - 1])]
    OBVIOUS
  <2> QED BY <2>1 DEF first
<1>2. ASSUME NEW m \in Nat, m \in S PROVE m + 1 \in S
  <2>1. PICK level : level = [n \in 0 .. m |->
                       IF n = 0 THEN first ELSE Deeper(level[n - 1])]
    BY <1>2 DEF first
  <2> DEFINE new == [n \in 0 .. m + 1 |-> IF n \in 0 .. m THEN level[n] ELSE Deeper(level[m])]
  <2>2. ASSUME NEW n \in 0 .. m + 1
        PROVE  new[n] = IF n = 0 THEN first ELSE Deeper(new[n - 1])
    <3>1. CASE n = 0 BY <2>1, <3>1
    <3>2. CASE n \in 1 .. m
      <4>1. n - 1 \in 0 .. m /\ n \in 0 .. m /\ n # 0 BY <3>2
      <4>2. level[n] = Deeper(level[n - 1]) BY <2>1, <4>1
      <4>3. new[n] = level[n] /\ new[n - 1] = level[n - 1] BY <4>1
      <4> QED BY <4>1, <4>2, <4>3
    <3>3. CASE n = m + 1
      <4>1. new[n] = Deeper(level[m]) /\ new[n - 1] = level[m] /\ n # 0 BY <3>3
      <4> QED BY <3>3, <4>1
    <3> QED BY <3>1, <3>2, <3>3
  <2>3. new = [n \in 0 .. m + 1 |-> IF n = 0 THEN first ELSE Deeper(new[n - 1])]
    BY <2>2
  <2>4. Exists(m + 1) BY <2>3 DEF first
  <2> QED BY <2>4
<1> HIDE DEF S
<1>3. Nat \subseteq S BY <1>1, <1>2, NatSetInduction
<1> QED BY <1>3 DEF S, first

LEMMA LevelsAt ==
  ASSUME NEW v
  PROVE  /\ Levels(v)[0] = {Whole(v)}
         /\ \A n \in 1 .. RecursionLimit :
              Levels(v)[n] = Deeper(Levels(v)[n - 1])
<1> DEFINE level == Levels(v)
<1>1. level = [n \in 0 .. RecursionLimit |->
        IF n = 0 THEN {Whole(v)} ELSE Deeper(level[n - 1])]
  <2>1. level = CHOOSE g : g = [n \in 0 .. RecursionLimit |->
          IF n = 0 THEN {Whole(v)} ELSE Deeper(g[n - 1])]
    BY DEF Levels
  <2>2. \E g : g = [n \in 0 .. RecursionLimit |->
          IF n = 0 THEN {Whole(v)} ELSE Deeper(g[n - 1])]
    <3>1. RecursionLimit \in Nat BY RecursionAssumption
    <3> QED BY <3>1, LevelsExist, Zenon
  <2> HIDE DEF level
  <2> QED BY <2>1, <2>2, Zenon
<1> HIDE DEF level
<1>2. level[0] = {Whole(v)} BY <1>1, RecursionAssumption
<1>3. ASSUME NEW n \in 1 .. RecursionLimit
      PROVE  level[n] = Deeper(level[n - 1])
  <2>1. n \in 0 .. RecursionLimit /\ n # 0 BY RecursionAssumption
  <2> QED BY <1>1, <2>1
<1> QED BY <1>2, <1>3 DEF level

(* A part of a value of the model.                                         *)
With(part, v) ==
  [steps |-> part.steps, keys |-> part.keys, item |-> part.item, value |-> v]

IsPart(part) ==
  /\ part = With(part, part.value)
  /\ part.keys \in FieldPaths /\ part.item \in BOOLEAN /\ part.value \in Values

LEMMA PartsAreParts ==
  ASSUME NEW part, IsPart(part), IsContainer(part.value), NEW k \in DOMAIN part.value[2]
  PROVE  /\ IsPart(PartAt(part, k))
         /\ PartAt(part, k).value = part.value[2][k]
         /\ part.value[1] = "dict" =>
              /\ k \in Key
              /\ PartAt(part, k).keys = Append(part.keys, k) /\ ~PartAt(part, k).item
         /\ part.value[1] = "list" =>
              PartAt(part, k).keys = part.keys /\ PartAt(part, k).item
<1>1. part.value \in Values /\ part.keys \in FieldPaths BY DEF IsPart
<1>2. part.value[2][k] \in Values BY <1>1, Inside
<1>3. CASE part.value[1] = "dict"
  <2>1. k \in Key BY <1>1, <1>3, ValuesAssumption DEF Key
  <2>2. Append(part.keys, k) \in FieldPaths BY <1>1, <2>1, AppendPoints
  <2> QED BY <1>2, <1>3, <2>1, <2>2 DEF PartAt, IsPart, With
<1>4. CASE part.value[1] = "list"
  BY <1>1, <1>2, <1>4 DEF PartAt, IsPart, With
<1> QED BY <1>3, <1>4 DEF IsContainer

LEMMA LevelsAreParts ==
  ASSUME NEW v \in Values
  PROVE  \A n \in 0 .. RecursionLimit : \A part \in Levels(v)[n] : IsPart(part)
<1> DEFINE Typed(n) == n \in 0 .. RecursionLimit => \A part \in Levels(v)[n] : IsPart(part)
           S == {n \in Nat : Typed(n)}
<1>1. 0 \in S
  <2>1. IsPart(Whole(v)) BY DEF IsPart, With, Whole, FieldPaths
  <2> QED BY <2>1, LevelsAt
<1>2. ASSUME NEW n \in Nat, n \in S PROVE n + 1 \in S
  <2> SUFFICES ASSUME n + 1 \in 0 .. RecursionLimit, NEW part \in Levels(v)[n + 1]
               PROVE  IsPart(part)
    OBVIOUS
  <2>1. n + 1 \in 1 .. RecursionLimit /\ (n + 1) - 1 = n /\ n \in 0 .. RecursionLimit
    BY RecursionAssumption
  <2>2. Levels(v)[n + 1] = Deeper(Levels(v)[n]) BY <2>1, LevelsAt
  <2>3. PICK p \in Levels(v)[n] : part \in PartsOf(p) BY <2>2 DEF Deeper
  <2>4. IsPart(p) BY <1>2, <2>1
  <2>5. /\ IsContainer(p.value)
        /\ \E k \in DOMAIN p.value[2] : part = PartAt(p, k)
    BY <2>3 DEF PartsOf
  <2> QED BY <2>4, <2>5, PartsAreParts
<1> HIDE DEF S
<1>3. Nat \subseteq S BY <1>1, <1>2, NatSetInduction
<1> QED BY <1>3, RecursionAssumption DEF S

---------------------------------------------------------------------------
(* What the projection makes of each part. *)

Visible(part, tree) == Granted(part.keys, tree) \/ OnTheWay(part.keys, tree)

View(part, tree) ==
  IF Granted(part.keys, tree) THEN part.value
  ELSE IF IsContainer(part.value)
  THEN ProjectRecursive[part.value][After(tree, part.keys)]
  ELSE IF part.item THEN part.value
  ELSE None

Shown(part, tree) == With(part, View(part, tree))

ShownOf(parts, tree) == {Shown(part, tree) : part \in {p \in parts : Visible(p, tree)}}

(* The projection keeps a list a list and a dict a dict, and makes neither *)
(* of anything else.                                                       *)
LEMMA ViewKeepsType ==
  ASSUME NEW tree \in Trees, NEW part, IsPart(part)
  PROVE  /\ IsContainer(View(part, tree)) <=> IsContainer(part.value)
         /\ IsContainer(part.value) => View(part, tree)[1] = part.value[1]
<1>1. After(tree, part.keys) \in Trees BY AfterIsTree DEF IsPart
<1>2. CASE Granted(part.keys, tree) BY <1>2 DEF View
<1>3. CASE ~Granted(part.keys, tree) /\ IsContainer(part.value)
  <2> DEFINE shown == ProjectRecursive[part.value][After(tree, part.keys)]
  <2>1. View(part, tree) = shown BY <1>3 DEF View
  <2>2. shown = OneCall(ProjectRecursive, part.value, After(tree, part.keys))
    BY <1>1, ProjectEquation DEF IsPart
  <2>3. part.value[1] = "dict" \/ part.value[1] = "list" BY <1>3 DEF IsContainer
  <2> HIDE DEF shown
  <2>4. shown[1] = part.value[1] BY <2>2, <2>3 DEF OneCall
  <2> QED BY <1>3, <2>1, <2>4 DEF IsContainer
<1>4. CASE ~Granted(part.keys, tree) /\ ~IsContainer(part.value)
  BY <1>4 DEF View, None, IsContainer
<1> QED BY <1>2, <1>3, <1>4

(* A part that is not visible has no visible part in it.                   *)
LEMMA HiddenParts ==
  ASSUME NEW tree \in Trees, NEW part, IsPart(part), ~Visible(part, tree),
         NEW inner \in PartsOf(part)
  PROVE  ~Visible(inner, tree)
<1>1. IsContainer(part.value) /\ part.keys \in FieldPaths BY DEF PartsOf, IsPart
<1>2. PICK k \in DOMAIN part.value[2] : inner = PartAt(part, k) BY <1>1 DEF PartsOf
<1>3. CASE part.value[1] = "list" BY <1>1, <1>2, <1>3, PartsAreParts DEF Visible
<1>4. CASE part.value[1] = "dict"
  <2>1. k \in Key /\ inner.keys = Append(part.keys, k)
    BY <1>1, <1>2, <1>4, PartsAreParts
  <2> DEFINE more == Append(part.keys, k)
  <2> HIDE DEF more
  <2>2. /\ OnTheWay(more, tree) => OnTheWay(part.keys, tree)
        /\ Granted(more, tree) => Granted(part.keys, tree) \/ more \in tree
        /\ more \in tree => k \in Heads(After(tree, part.keys))
    BY <1>1, <2>1, OneMoreKey DEF more
  <2>3. Heads(After(tree, part.keys)) = {}
    BY OnTheWayAfter DEF Heads, Visible
  <2> QED BY <2>1, <2>2, <2>3 DEF Visible, more
<1> QED BY <1>1, <1>3, <1>4 DEF IsContainer

(* Under an allowed path all is kept.                                      *)
LEMMA GrantedParts ==
  ASSUME NEW tree \in Trees, NEW part, IsPart(part), Granted(part.keys, tree),
         NEW inner \in PartsOf(part)
  PROVE  Visible(inner, tree) /\ Shown(inner, tree) = inner
<1>1. IsContainer(part.value) /\ part.keys \in FieldPaths BY DEF PartsOf, IsPart
<1>2. PICK k \in DOMAIN part.value[2] : inner = PartAt(part, k) BY <1>1 DEF PartsOf
<1>3. IsPart(inner) BY <1>1, <1>2, PartsAreParts
<1>4. Granted(inner.keys, tree)
  <2>1. CASE part.value[1] = "list" BY <1>1, <1>2, <2>1, PartsAreParts
  <2>2. CASE part.value[1] = "dict"
    <3>1. k \in Key /\ inner.keys = Append(part.keys, k)
      BY <1>1, <1>2, <2>2, PartsAreParts
    <3> QED BY <1>1, <3>1, OneMoreKey
  <2> QED BY <1>1, <2>1, <2>2 DEF IsContainer
<1> QED BY <1>3, <1>4 DEF Visible, Shown, View, IsPart

(* On the way to an allowed path a dict keeps the keys that lead there,    *)
LEMMA DictParts ==
  ASSUME NEW tree \in Trees, NEW part, IsPart(part), part.value[1] = "dict",
         ~Granted(part.keys, tree), NEW k
  PROVE  LET shown == Shown(part, tree) IN
         /\ k \in DOMAIN shown.value[2] <=>
              k \in DOMAIN part.value[2] /\ Visible(PartAt(part, k), tree)
         /\ k \in DOMAIN shown.value[2] =>
              PartAt(shown, k) = Shown(PartAt(part, k), tree)
<1> DEFINE below == After(tree, part.keys)
           shown == Shown(part, tree)
           dict == [key \in DOMAIN part.value[2] \cap Heads(below) |->
                      IF Below(below, key) = {} THEN part.value[2][key]
                      ELSE ProjectRecursive[part.value[2][key]][Below(below, key)]]
<1>1. /\ part.value \in Values /\ part.keys \in FieldPaths /\ IsContainer(part.value)
      /\ below \in Trees
  BY AfterIsTree DEF IsPart, IsContainer
<1>2. View(part, tree) = <<"dict", dict>>
  <2>1. View(part, tree) = ProjectRecursive[part.value][below] BY <1>1 DEF View
  <2>2. ProjectRecursive[part.value][below] = OneCall(ProjectRecursive, part.value, below)
    BY <1>1, ProjectEquation
  <2> QED BY <2>1, <2>2 DEF OneCall
<1>3. /\ shown.value = <<"dict", dict>> /\ shown.steps = part.steps
      /\ shown.keys = part.keys
  BY <1>2 DEF Shown, With
<1>4. DOMAIN shown.value[2] = DOMAIN part.value[2] \cap Heads(below)
  BY <1>3
<1>5. ASSUME NEW key \in DOMAIN part.value[2]
      PROVE  /\ key \in Heads(below) <=> Visible(PartAt(part, key), tree)
             /\ key \in Heads(below) => dict[key] = View(PartAt(part, key), tree)
  <2> DEFINE inner == PartAt(part, key)
             more == Append(part.keys, key)
  <2>1. /\ IsPart(inner) /\ key \in Key /\ inner.keys = more /\ inner.item = FALSE
        /\ inner.value = part.value[2][key]
    BY <1>1, PartsAreParts DEF IsPart
  <2> HIDE DEF inner, more, below, dict
  <2>2. /\ more \in FieldPaths
        /\ OnTheWay(more, tree) => ~Granted(more, tree)
        /\ key \in Heads(below) <=> OnTheWay(more, tree) \/ more \in tree
        /\ more \in tree /\ ~OnTheWay(more, tree) => Granted(more, tree)
        /\ Granted(more, tree) => more \in tree
    BY <1>1, <2>1, OneMoreKey DEF more, below
  <2>3. Below(below, key) = After(tree, more) BY <1>1, <2>1, BelowAfter DEF more, below
  <2>4. OnTheWay(more, tree) <=> After(tree, more) # {} BY OnTheWayAfter
  <2>5. key \in Heads(below) <=> Visible(inner, tree) BY <2>1, <2>2 DEF Visible
  <2>6. ASSUME key \in Heads(below) PROVE dict[key] = View(inner, tree)
    <3>1. dict[key] = IF Below(below, key) = {} THEN inner.value
                      ELSE ProjectRecursive[inner.value][Below(below, key)]
      BY <2>1, <2>6 DEF dict
    <3>2. CASE After(tree, more) = {}
      BY <2>1, <2>2, <2>3, <2>4, <2>6, <3>1, <3>2 DEF View
    <3>3. CASE After(tree, more) # {} /\ IsContainer(inner.value)
      BY <2>1, <2>2, <2>3, <2>4, <3>1, <3>3 DEF View
    <3>4. CASE After(tree, more) # {} /\ ~IsContainer(inner.value)
      <4>1. ProjectRecursive[inner.value][After(tree, more)] =
              OneCall(ProjectRecursive, inner.value, After(tree, more))
        BY <1>1, <2>1, <2>2, AfterIsTree, ProjectEquation DEF IsPart
      <4>2. inner.value[1] # "dict" /\ inner.value[1] # "list"
        BY <3>4 DEF IsContainer
      <4>3. OneCall(ProjectRecursive, inner.value, After(tree, more)) = None
        BY <4>2 DEF OneCall
      <4>4. View(inner, tree) = None
        BY <2>1, <2>2, <2>4, <3>4 DEF View
      <4> QED BY <2>3, <3>1, <3>4, <4>1, <4>3, <4>4
    <3> QED BY <3>2, <3>3, <3>4
  <2> QED BY <2>5, <2>6 DEF inner
<1>6. ASSUME k \in DOMAIN shown.value[2]
      PROVE  PartAt(shown, k) = Shown(PartAt(part, k), tree)
  <2>1. k \in DOMAIN part.value[2] /\ k \in Heads(below) BY <1>4, <1>6
  <2>2. dict[k] = View(PartAt(part, k), tree) BY <1>5, <2>1
  <2>3. shown.value[1] = "dict" /\ shown.value[2][k] = dict[k] BY <1>3
  <2> HIDE DEF shown, dict
  <2> QED BY <1>3, <2>2, <2>3 DEF PartAt, Shown, With
<1>7. k \in DOMAIN shown.value[2] <=>
        k \in DOMAIN part.value[2] /\ Visible(PartAt(part, k), tree)
  BY <1>4, <1>5
<1> QED BY <1>6, <1>7

(* and a list all its items.                                               *)
LEMMA ListParts ==
  ASSUME NEW tree \in Trees, NEW part, IsPart(part), part.value[1] = "list",
         ~Granted(part.keys, tree), Visible(part, tree), NEW k
  PROVE  LET shown == Shown(part, tree) IN
         /\ k \in DOMAIN shown.value[2] <=> k \in DOMAIN part.value[2]
         /\ k \in DOMAIN shown.value[2] =>
              /\ Visible(PartAt(part, k), tree)
              /\ PartAt(shown, k) = Shown(PartAt(part, k), tree)
<1> DEFINE below == After(tree, part.keys)
           shown == Shown(part, tree)
           list == [i \in DOMAIN part.value[2] |->
                      IF IsContainer(part.value[2][i])
                      THEN ProjectRecursive[part.value[2][i]][below]
                      ELSE part.value[2][i]]
<1>1. /\ part.value \in Values /\ part.keys \in FieldPaths /\ IsContainer(part.value)
      /\ below \in Trees
  BY AfterIsTree DEF IsPart, IsContainer
<1>2. View(part, tree) = <<"list", list>>
  <2>1. View(part, tree) = ProjectRecursive[part.value][below] BY <1>1 DEF View
  <2>2. ProjectRecursive[part.value][below] = OneCall(ProjectRecursive, part.value, below)
    BY <1>1, ProjectEquation
  <2> QED BY <2>1, <2>2 DEF OneCall
<1>3. /\ shown.value = <<"list", list>> /\ shown.steps = part.steps
      /\ shown.keys = part.keys
  BY <1>2 DEF Shown, With
<1>4. DOMAIN shown.value[2] = DOMAIN part.value[2] BY <1>3
<1>5. ASSUME NEW i \in DOMAIN part.value[2]
      PROVE  /\ Visible(PartAt(part, i), tree)
             /\ list[i] = View(PartAt(part, i), tree)
  <2> DEFINE inner == PartAt(part, i)
  <2>1. /\ inner.keys = part.keys /\ inner.item = TRUE
        /\ inner.value = part.value[2][i]
    BY <1>1, PartsAreParts DEF IsPart
  <2>2. list[i] = IF IsContainer(inner.value) THEN ProjectRecursive[inner.value][below]
                  ELSE inner.value
    BY <2>1
  <2> HIDE DEF inner, list
  <2>3. list[i] = View(inner, tree) BY <2>1, <2>2 DEF View
  <2>4. Visible(inner, tree) BY <2>1 DEF Visible
  <2> QED BY <2>3, <2>4 DEF inner
<1>6. ASSUME k \in DOMAIN shown.value[2]
      PROVE  PartAt(shown, k) = Shown(PartAt(part, k), tree)
  <2>1. list[k] = View(PartAt(part, k), tree) BY <1>4, <1>5, <1>6
  <2>2. shown.value[1] = "list" /\ shown.value[2][k] = list[k] BY <1>3
  <2> HIDE DEF shown, list
  <2> QED BY <1>3, <2>1, <2>2 DEF PartAt, Shown, With
<1> QED BY <1>4, <1>5, <1>6

(* So the parts of what is left of a part are what is left of its parts,   *)
LEMMA ShownParts ==
  ASSUME NEW tree \in Trees, NEW part, IsPart(part), Visible(part, tree)
  PROVE  PartsOf(Shown(part, tree)) = ShownOf(PartsOf(part), tree)
<1> DEFINE shown == Shown(part, tree)
<1>1. CASE Granted(part.keys, tree)
  <2>1. shown = part BY <1>1 DEF Shown, View, IsPart
  <2>2. \A inner \in PartsOf(part) : Visible(inner, tree) /\ Shown(inner, tree) = inner
    BY <1>1, GrantedParts
  <2> HIDE DEF shown
  <2>3. ShownOf(PartsOf(part), tree) = PartsOf(part) BY <2>2 DEF ShownOf
  <2> QED BY <2>1, <2>3 DEF shown
<1>2. shown.value = View(part, tree) BY DEF Shown, With
<1>3. IsContainer(shown.value) <=> IsContainer(part.value) BY <1>2, ViewKeepsType
<1> HIDE DEF shown
<1>4. ASSUME ~Granted(part.keys, tree), IsContainer(part.value)
      PROVE  PartsOf(shown) = ShownOf(PartsOf(part), tree)
  <2>1. /\ \A k : k \in DOMAIN shown.value[2] <=>
             k \in DOMAIN part.value[2] /\ Visible(PartAt(part, k), tree)
        /\ \A k \in DOMAIN shown.value[2] :
             PartAt(shown, k) = Shown(PartAt(part, k), tree)
    <3>1. CASE part.value[1] = "dict" BY <1>4, <3>1, DictParts DEF shown
    <3>2. CASE part.value[1] = "list" BY <1>4, <3>2, ListParts DEF shown
    <3> QED BY <1>4, <3>1, <3>2 DEF IsContainer
  <2>2. PartsOf(shown) = {PartAt(shown, k) : k \in DOMAIN shown.value[2]}
    BY <1>3, <1>4 DEF PartsOf
  <2>3. PartsOf(part) = {PartAt(part, k) : k \in DOMAIN part.value[2]}
    BY <1>4 DEF PartsOf
  <2>4. ASSUME NEW p \in PartsOf(shown) PROVE p \in ShownOf(PartsOf(part), tree)
    <3>1. PICK k \in DOMAIN shown.value[2] : p = PartAt(shown, k) BY <2>2
    <3> QED BY <2>1, <2>3, <3>1 DEF ShownOf
  <2>5. ASSUME NEW p \in ShownOf(PartsOf(part), tree) PROVE p \in PartsOf(shown)
    <3>1. PICK inner \in PartsOf(part) : Visible(inner, tree) /\ p = Shown(inner, tree)
      BY DEF ShownOf
    <3>2. PICK k \in DOMAIN part.value[2] : inner = PartAt(part, k) BY <2>3
    <3>3. k \in DOMAIN shown.value[2] BY <2>1, <3>1, <3>2
    <3> QED BY <2>1, <2>2, <3>1, <3>2, <3>3
  <2> QED BY <2>4, <2>5
<1>5. CASE ~IsContainer(part.value)
  BY <1>3, <1>5 DEF PartsOf, ShownOf, shown
<1> QED BY <1>1, <1>4, <1>5 DEF shown

LEMMA ShownDeeper ==
  ASSUME NEW tree \in Trees, NEW parts, \A part \in parts : IsPart(part)
  PROVE  Deeper(ShownOf(parts, tree)) = ShownOf(Deeper(parts), tree)
<1>1. ASSUME NEW p \in Deeper(ShownOf(parts, tree)) PROVE p \in ShownOf(Deeper(parts), tree)
  <2>1. PICK part \in parts : Visible(part, tree) /\ p \in PartsOf(Shown(part, tree))
    BY DEF Deeper, ShownOf
  <2>2. p \in ShownOf(PartsOf(part), tree) BY <2>1, ShownParts
  <2> QED BY <2>2 DEF ShownOf, Deeper
<1>2. ASSUME NEW p \in ShownOf(Deeper(parts), tree) PROVE p \in Deeper(ShownOf(parts, tree))
  <2>1. PICK part \in parts : \E inner \in PartsOf(part) :
               Visible(inner, tree) /\ p = Shown(inner, tree)
    BY DEF Deeper, ShownOf
  <2>2. Visible(part, tree) BY <2>1, HiddenParts
  <2>3. p \in PartsOf(Shown(part, tree)) BY <2>1, <2>2, ShownParts DEF ShownOf
  <2> QED BY <2>2, <2>3 DEF Deeper, ShownOf
<1> QED BY <1>1, <1>2

(* and the levels of the projection are what is left of the levels.        *)
LEMMA LevelsShown ==
  ASSUME NEW tree \in Trees, NEW raw \in Values, NEW projected,
         Visible(Whole(raw), tree), Whole(projected) = Shown(Whole(raw), tree)
  PROVE  \A n \in 0 .. RecursionLimit :
           Levels(projected)[n] = ShownOf(Levels(raw)[n], tree)
<1> DEFINE Same(n) == n \in 0 .. RecursionLimit =>
                        Levels(projected)[n] = ShownOf(Levels(raw)[n], tree)
           S == {n \in Nat : Same(n)}
<1>1. 0 \in S
  <2>1. ShownOf({Whole(raw)}, tree) = {Whole(projected)} BY DEF ShownOf
  <2> QED BY <2>1, LevelsAt
<1>2. ASSUME NEW n \in Nat, n \in S PROVE n + 1 \in S
  <2> SUFFICES ASSUME n + 1 \in 0 .. RecursionLimit
               PROVE  Levels(projected)[n + 1] = ShownOf(Levels(raw)[n + 1], tree)
    OBVIOUS
  <2>1. n + 1 \in 1 .. RecursionLimit /\ (n + 1) - 1 = n /\ n \in 0 .. RecursionLimit
    BY RecursionAssumption
  <2>2. /\ Levels(raw)[n + 1] = Deeper(Levels(raw)[n])
        /\ Levels(projected)[n + 1] = Deeper(Levels(projected)[n])
    BY <2>1, LevelsAt
  <2>3. Levels(projected)[n] = ShownOf(Levels(raw)[n], tree) BY <1>2, <2>1
  <2>4. \A part \in Levels(raw)[n] : IsPart(part) BY <2>1, LevelsAreParts
  <2> QED BY <2>2, <2>3, <2>4, ShownDeeper
<1> HIDE DEF S
<1>3. Nat \subseteq S BY <1>1, <1>2, NatSetInduction
<1> QED BY <1>3, RecursionAssumption DEF S

(* What holds nothing has no leaves.                                       *)
LEMMA NoLeaves ==
  ASSUME NEW v, IsContainer(v), DOMAIN v[2] = {}
  PROVE  Leaves(v) = {}
<1>1. PartsOf(Whole(v)) = {} BY DEF PartsOf, Whole
<1> DEFINE Bare(n) == n \in 0 .. RecursionLimit => Levels(v)[n] \subseteq {Whole(v)}
           S == {n \in Nat : Bare(n)}
<1>2. 0 \in S BY LevelsAt
<1>3. ASSUME NEW n \in Nat, n \in S PROVE n + 1 \in S
  <2> SUFFICES ASSUME n + 1 \in 0 .. RecursionLimit
               PROVE  Levels(v)[n + 1] \subseteq {Whole(v)}
    OBVIOUS
  <2>1. n + 1 \in 1 .. RecursionLimit /\ (n + 1) - 1 = n /\ n \in 0 .. RecursionLimit
    BY RecursionAssumption
  <2>2. Levels(v)[n + 1] = Deeper(Levels(v)[n]) BY <2>1, LevelsAt
  <2>3. Levels(v)[n] \subseteq {Whole(v)} BY <1>3, <2>1
  <2>4. Deeper(Levels(v)[n]) = {} BY <1>1, <2>3 DEF Deeper
  <2> QED BY <2>2, <2>4
<1> HIDE DEF S
<1>4. Nat \subseteq S BY <1>2, <1>3, NatSetInduction
<1>5. \A n \in 0 .. RecursionLimit : Levels(v)[n] \subseteq {Whole(v)}
  BY <1>4, RecursionAssumption DEF S
<1>6. IsContainer(Whole(v).value) BY DEF Whole
<1> QED BY <1>5, <1>6 DEF Leaves

(* What an agent gets of an answer: the right side of ProjectionIsExact.   *)
Allowed(raw, tree) ==
  {leaf \in Leaves(raw) : \/ Granted(leaf.keys, tree)
                          \/ OnTheWay(leaf.keys, tree) /\ leaf.item}
  \cup {[leaf EXCEPT !.value = None] : leaf \in
          {l \in Leaves(raw) : OnTheWay(l.keys, tree) /\ ~l.item}}

LEMMA LeavesShown ==
  ASSUME NEW tree \in Trees, NEW raw \in Values, NEW projected,
         Visible(Whole(raw), tree), Whole(projected) = Shown(Whole(raw), tree)
  PROVE  Leaves(projected) = Allowed(raw, tree)
<1>1. \A n \in 0 .. RecursionLimit : \A part \in Levels(raw)[n] : IsPart(part)
  BY LevelsAreParts
<1>2. \A n \in 0 .. RecursionLimit :
        Levels(projected)[n] = ShownOf(Levels(raw)[n], tree)
  BY LevelsShown
<1>3. \A part : IsPart(part) =>
        (IsContainer(Shown(part, tree).value) <=> IsContainer(part.value))
  BY ViewKeepsType DEF Shown, With
<1>4. \A leaf \in Leaves(raw) : IsPart(leaf) /\ ~IsContainer(leaf.value)
  BY <1>1 DEF Leaves
<1>5. Leaves(projected) = ShownOf(Leaves(raw), tree)
  <2>1. ASSUME NEW p \in Leaves(projected) PROVE p \in ShownOf(Leaves(raw), tree)
    <3>1. PICK n \in 0 .. RecursionLimit : p \in Levels(projected)[n] BY DEF Leaves
    <3>2. ~IsContainer(p.value) BY DEF Leaves
    <3>3. PICK part \in Levels(raw)[n] : Visible(part, tree) /\ p = Shown(part, tree)
      BY <1>2, <3>1 DEF ShownOf
    <3>4. part \in Leaves(raw) BY <1>1, <1>3, <3>2, <3>3 DEF Leaves
    <3> QED BY <3>3, <3>4 DEF ShownOf
  <2>2. ASSUME NEW p \in ShownOf(Leaves(raw), tree) PROVE p \in Leaves(projected)
    <3>1. PICK leaf \in Leaves(raw) : Visible(leaf, tree) /\ p = Shown(leaf, tree)
      BY DEF ShownOf
    <3>2. PICK n \in 0 .. RecursionLimit : leaf \in Levels(raw)[n] BY DEF Leaves
    <3>3. p \in Levels(projected)[n] BY <1>2, <3>1, <3>2 DEF ShownOf
    <3>4. ~IsContainer(p.value) BY <1>3, <1>4, <3>1
    <3> QED BY <3>3, <3>4 DEF Leaves
  <2> QED BY <2>1, <2>2
<1>6. ASSUME NEW leaf \in Leaves(raw)
      PROVE  /\ ~(Granted(leaf.keys, tree) /\ OnTheWay(leaf.keys, tree))
             /\ Granted(leaf.keys, tree) \/ leaf.item => Shown(leaf, tree) = leaf
             /\ ~Granted(leaf.keys, tree) /\ ~leaf.item =>
                  Shown(leaf, tree) = [leaf EXCEPT !.value = None]
  <2>1. IsPart(leaf) /\ ~IsContainer(leaf.value) BY <1>4
  <2>2. ~(Granted(leaf.keys, tree) /\ OnTheWay(leaf.keys, tree))
    BY <2>1, GrantedOrOnTheWay DEF IsPart
  <2>3. Granted(leaf.keys, tree) \/ leaf.item => Shown(leaf, tree) = leaf
    BY <2>1 DEF Shown, View, IsPart
  <2>4. ASSUME ~Granted(leaf.keys, tree), ~leaf.item
        PROVE  Shown(leaf, tree) = [leaf EXCEPT !.value = None]
    <3>1. View(leaf, tree) = None BY <2>1, <2>4 DEF View
    <3>2. [leaf EXCEPT !.value = None] = With(leaf, None)
      BY <2>1 DEF IsPart, With
    <3> QED BY <3>1, <3>2 DEF Shown
  <2> QED BY <2>2, <2>3, <2>4
<1>7. ASSUME NEW p \in ShownOf(Leaves(raw), tree) PROVE p \in Allowed(raw, tree)
  <2>1. PICK leaf \in Leaves(raw) : Visible(leaf, tree) /\ p = Shown(leaf, tree)
    BY DEF ShownOf
  <2>2. CASE Granted(leaf.keys, tree) \/ leaf.item
    BY <1>6, <2>1, <2>2 DEF Visible, Allowed
  <2>3. CASE ~Granted(leaf.keys, tree) /\ ~leaf.item
    BY <1>6, <2>1, <2>3 DEF Visible, Allowed
  <2> QED BY <2>2, <2>3
<1>8. ASSUME NEW p \in Allowed(raw, tree) PROVE p \in ShownOf(Leaves(raw), tree)
  <2>1. CASE p \in Leaves(raw) /\ (\/ Granted(p.keys, tree)
                                   \/ OnTheWay(p.keys, tree) /\ p.item)
    <3>1. Visible(p, tree) /\ Shown(p, tree) = p BY <1>6, <2>1 DEF Visible
    <3> QED BY <2>1, <3>1 DEF ShownOf
  <2>2. ASSUME NEW leaf \in Leaves(raw), OnTheWay(leaf.keys, tree), ~leaf.item,
               p = [leaf EXCEPT !.value = None]
        PROVE  p \in ShownOf(Leaves(raw), tree)
    <3>1. Visible(leaf, tree) /\ Shown(leaf, tree) = p BY <1>6, <2>2 DEF Visible
    <3> QED BY <3>1 DEF ShownOf
  <2> QED BY <2>1, <2>2 DEF Allowed
<1> QED BY <1>5, <1>7, <1>8

(* What project_fields leaves of an answer.                                *)
LEMMA ProjectFieldsExact ==
  ASSUME NEW raw \in Payloads, NEW tree \in Trees, <<>> \notin tree
  PROVE  Leaves(ProjectFields(raw, tree)) = Allowed(raw, tree)
<1>1. raw \in Values /\ IsContainer(raw) BY ResponsesAssumption
<1>2. tree \ {<<>>} = tree OBVIOUS
<1> DEFINE projected == ProjectFields(raw, tree)
<1>3. CASE tree # {}
  <2>1. projected = ProjectRecursive[raw][tree]
    BY <1>1, <1>2, <1>3 DEF ProjectFields, IsContainer
  <2>2. IsPart(Whole(raw)) /\ Whole(raw).keys = <<>> /\ <<>> \in FieldPaths
    BY <1>1 DEF IsPart, With, Whole, FieldPaths
  <2>3. After(tree, <<>>) = tree BY AfterNothing
  <2>4. OnTheWay(<<>>, tree) BY <1>3, <2>3, OnTheWayAfter
  <2>5. ~Granted(<<>>, tree) BY <2>2, <2>4, GrantedOrOnTheWay
  <2> HIDE DEF projected
  <2>6. View(Whole(raw), tree) = projected
    BY <1>1, <2>1, <2>2, <2>3, <2>5 DEF View, Whole
  <2>7. Whole(projected) = Shown(Whole(raw), tree)
    BY <2>6 DEF Shown, With, Whole
  <2>8. Visible(Whole(raw), tree) BY <2>2, <2>4 DEF Visible
  <2> QED BY <1>1, <2>7, <2>8, LeavesShown DEF projected
<1>4. CASE tree = {}
  <2>1. IsContainer(projected) /\ DOMAIN projected[2] = {}
    <3>1. CASE raw[1] = "list"
      <4>1. projected = <<"list", <<>>>> BY <1>1, <1>4, <3>1 DEF ProjectFields
      <4> QED BY <4>1 DEF IsContainer
    <3>2. CASE raw[1] = "dict"
      <4>1. projected = ProjectRecursive[raw][tree]
        BY <1>1, <1>2, <3>2 DEF ProjectFields
      <4>2. projected = OneCall(ProjectRecursive, raw, tree)
        BY <1>1, <4>1, ProjectEquation
      <4>3. Heads(tree) = {} BY <1>4 DEF Heads
      <4> HIDE DEF projected
      <4>4. projected[1] = "dict" /\ DOMAIN projected[2] = {}
        BY <3>2, <4>2, <4>3 DEF OneCall
      <4> QED BY <4>4 DEF IsContainer
    <3> QED BY <1>1, <3>1, <3>2 DEF IsContainer
  <2> HIDE DEF projected
  <2>2. Leaves(projected) = {} BY <2>1, NoLeaves
  <2>3. Allowed(raw, tree) = {} BY <1>4 DEF Allowed, Granted, OnTheWay
  <2> QED BY <2>2, <2>3 DEF projected
<1> QED BY <1>3, <1>4

---------------------------------------------------------------------------
(* The answers of executions. *)

ResponseInv ==
  /\ policy.fields \subseteq FieldPaths \ {<<>>}
  /\ response # NoResponse =>
       /\ call = "execute" /\ verdict = "allow"
       /\ \E raw \in Payloads :
            response = [raw |-> raw, projected |-> ProjectFields(raw, policy.fields)]

LEMMA InitResponse == ResponseInit => ResponseInv
BY DEF ResponseInit, Init, ResponseInv

LEMMA NextResponse == ResponseInv /\ [ResponseNext]_<<vars, response>> => ResponseInv'
<1> SUFFICES ASSUME ResponseInv, [ResponseNext]_<<vars, response>> PROVE ResponseInv'
  OBVIOUS
<1>1. ASSUME NEW args \in Requests, NEW p \in Policies, Evaluate(args, p),
             UNCHANGED response
      PROVE  ResponseInv'
  <2>1. call = "none" /\ policy' = p BY <1>1 DEF Evaluate
  <2>2. response' = NoResponse BY <1>1, <2>1 DEF ResponseInv
  <2> QED BY <2>1, <2>2, ResponsesAssumption DEF ResponseInv
<1>2. ASSUME NEW args \in Requests, Execute(args), UNCHANGED response PROVE ResponseInv'
  <2>1. response' = NoResponse /\ policy' = policy BY <1>2 DEF Execute, ResponseInv
  <2> QED BY <2>1 DEF ResponseInv
<1>3. ASSUME CallElsewhere, UNCHANGED response PROVE ResponseInv'
  <2>1. response' = NoResponse /\ policy' = policy BY <1>3 DEF CallElsewhere, ResponseInv
  <2> QED BY <2>1 DEF ResponseInv
<1>4. ASSUME CheckNext \/ Allow, UNCHANGED response PROVE ResponseInv'
  <2>1. response' = NoResponse /\ policy' = policy BY <1>4 DEF CheckNext, Allow, ResponseInv
  <2> QED BY <2>1 DEF ResponseInv
<1>5. ASSUME NEW raw \in Payloads, ProjectResponse(raw) PROVE ResponseInv'
  BY <1>5 DEF ProjectResponse, ResponseInv, vars
<1>6. CASE UNCHANGED <<vars, response>> BY <1>6 DEF ResponseInv, vars
<1> QED BY <1>1, <1>2, <1>3, <1>4, <1>5, <1>6 DEF ResponseNext, Next

(* The agent gets exactly the fields its policy lets through, whatever the *)
(* tool answered and however deep (project_fields on the response of       *)
(* execute).                                                               *)
THEOREM ProjectionExact == ResponseSpec => []ProjectionIsExact
<1>1. ResponseInv => ProjectionIsExact
  <2> SUFFICES ASSUME ResponseInv, response # NoResponse PROVE ProjectionIsExact
    BY DEF ProjectionIsExact
  <2>1. PICK raw \in Payloads :
          response = [raw |-> raw, projected |-> ProjectFields(raw, policy.fields)]
    BY DEF ResponseInv
  <2>2. policy.fields \in Trees /\ <<>> \notin policy.fields BY DEF ResponseInv, Trees
  <2>3. Leaves(response.projected) = Allowed(response.raw, policy.fields)
    BY <2>1, <2>2, ProjectFieldsExact
  <2> QED BY <2>3 DEF ProjectionIsExact, Allowed
<1>2. ResponseSpec => []ResponseInv BY InitResponse, NextResponse, PTL DEF ResponseSpec
<1> QED BY <1>1, <1>2, PTL

(* Answering changes nothing of how arguments are checked: the composition *)
(* implements ArgumentPolicy, and has all its properties.                  *)
THEOREM ResponsesKeepArgumentPolicy == ResponseSpec => Spec
<1>1. ResponseInit => Init BY DEF ResponseInit
<1>2. [ResponseNext]_<<vars, response>> => [Next]_vars
  BY DEF ResponseNext, ProjectResponse, vars
<1> QED BY <1>1, <1>2, PTL DEF ResponseSpec, Spec
=============================================================================
