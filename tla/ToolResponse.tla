---------------------------- MODULE ToolResponse ----------------------------
(***************************************************************************)
(* ArgumentPolicy with the answer of the tool: what an allowed execution   *)
(* gets back is projected on the fields of the policy the grant was issued *)
(* under (step 14 of execute).                                             *)
(***************************************************************************)
EXTENDS ArgumentPolicyProperties, Projection

CONSTANTS
  Payloads,     \* what an adapter or an ERP backend may answer
  NoResponse

(* The backends answer with an object, and no field of a policy is empty.  *)
ASSUME ResponsesAssumption ==
  /\ Payloads \subseteq Values /\ \A raw \in Payloads : IsContainer(raw)
  /\ \A p \in Policies : p.fields \subseteq FieldPaths \ {<<>>}

VARIABLE response   \* [raw, projected] of the execution that was allowed

ProjectResponse(raw) ==
  /\ call = "execute" /\ verdict = "allow" /\ response = NoResponse
  /\ response' = [raw |-> raw, projected |-> ProjectFields(raw, policy.fields)]
  /\ UNCHANGED vars

ResponseInit == Init /\ response = NoResponse

ResponseNext ==
  \/ Next /\ UNCHANGED response
  \/ \E raw \in Payloads : ProjectResponse(raw)

ResponseSpec == ResponseInit /\ [][ResponseNext]_<<vars, response>>

---------------------------------------------------------------------------
(* The parts of a value, level by level: the steps that lead to a part, as *)
(* keys and positions in lists, the keys among them, whether the part is   *)
(* an item of a list, and its value.                                       *)

Whole(v) == [steps |-> <<>>, keys |-> <<>>, item |-> FALSE, value |-> v]

PartAt(part, k) ==
  LET v == part.value IN
  [steps |-> Append(part.steps, <<v[1], k>>),
   keys  |-> IF v[1] = "dict" THEN Append(part.keys, k) ELSE part.keys,
   item  |-> v[1] = "list",
   value |-> v[2][k]]

PartsOf(part) ==
  IF IsContainer(part.value) THEN {PartAt(part, k) : k \in DOMAIN part.value[2]} ELSE {}

Deeper(parts) == UNION {PartsOf(part) : part \in parts}

Levels(v) ==
  LET level[n \in 0 .. RecursionLimit] ==
        IF n = 0 THEN {Whole(v)} ELSE Deeper(level[n - 1])
  IN  level

(* The leaves of a value: the scalars in it. *)
Leaves(v) ==
  {part \in UNION {Levels(v)[n] : n \in 0 .. RecursionLimit} : ~IsContainer(part.value)}

(* At or under an allowed path that no longer one narrows.                 *)
Granted(keys, allowed) ==
  \E path \in allowed :
    /\ IsPrefix(path, keys)
    /\ ~\E longer \in allowed : IsStrictPrefix(path, longer)

OnTheWay(keys, allowed) == \E path \in allowed : IsStrictPrefix(keys, path)

(* The agent gets every scalar at or under an allowed path, in its place,  *)
(* and nothing else of what the tool answered, but for this: a path that   *)
(* another one goes on from allows only what the longer one does; a scalar *)
(* where an object was expected leaves null; and the scalars that stand in *)
(* a list on the way to an allowed path pass with it (project_fields).     *)
ProjectionIsExact ==
  response # NoResponse =>
    LET raw == Leaves(response.raw) IN
    Leaves(response.projected) =
      {leaf \in raw : \/ Granted(leaf.keys, policy.fields)
                      \/ OnTheWay(leaf.keys, policy.fields) /\ leaf.item}
      \cup {[leaf EXCEPT !.value = None] : leaf \in
              {l \in raw : OnTheWay(l.keys, policy.fields) /\ ~l.item}}
=============================================================================
