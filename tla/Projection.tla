----------------------------- MODULE Projection -----------------------------
(***************************************************************************)
(* The fields of a tool's response that reach the agent (project_fields),  *)
(* on the JSON values of ConstraintEngine.  The tree of the allowed paths  *)
(* is the set of the paths from its root, so its subtrees are the sets of  *)
(* the paths that are left below a key.                                    *)
(***************************************************************************)
EXTENDS ConstraintEngine

CONSTANTS
  RecursionLimit,  \* how deep json.loads and _project_recursive go
  Depth            \* of each value: how deep its lists and dicts nest

ASSUME RecursionAssumption ==
  /\ RecursionLimit \in Nat
  /\ Depth \in [Values -> 0 .. RecursionLimit]
  /\ \A v \in Values : IsContainer(v) =>
       \A k \in DOMAIN v[2] : Depth[v[2][k]] < Depth[v]

Key == STRING
FieldPaths == Seq(Key)

None == <<"none", 0>>

Heads(tree) == {path[1] : path \in tree}

(* Mutant: a path that ends at the key allows all of it, whatever deeper   *)
(* paths say.                                                              *)
BelowUnlessAllowed(tree, key) ==
  IF <<key>> \in tree THEN {}
  ELSE {Tail(path) : path \in {p \in tree : p[1] = key}}

(* A path and a longer one that begins with it make the same tree as the   *)
(* longer one alone.                                                       *)
Below(tree, key) ==
  {Tail(path) : path \in {p \in tree : p[1] = key /\ Len(p) > 1}}

ProjectRecursive[data \in Values] == [tree \in SUBSET FieldPaths |->
  CASE data[1] = "dict" ->
         <<"dict", [key \in DOMAIN data[2] \cap Heads(tree) |->
            IF Below(tree, key) = {} THEN data[2][key]
            ELSE ProjectRecursive[data[2][key]][Below(tree, key)]]>>
    [] data[1] = "list" ->
         <<"list", [i \in DOMAIN data[2] |->
            IF IsContainer(data[2][i]) THEN ProjectRecursive[data[2][i]][tree]
            ELSE data[2][i]]>>
    [] OTHER -> None]

(* No allowed path leaves nothing of the root; an empty path counts as an  *)
(* entry of the list but adds nothing to the tree.                         *)
ProjectFields(payload, allowed) ==
  CASE ~IsContainer(payload) -> None
    [] payload[1] = "list" /\ allowed = {} -> <<"list", <<>>>>
    [] OTHER -> ProjectRecursive[payload][allowed \ {<<>>}]
=============================================================================
