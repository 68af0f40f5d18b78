-------------------------- MODULE ConstraintEngine --------------------------
(***************************************************************************)
(* One constraint on the arguments of a tool: the lookup of its path and   *)
(* the check of its operator (constraints/engine.py), with the coercions   *)
(* Python makes.                                                           *)
(*                                                                         *)
(* A JSON value is a pair <<type, content>>.  Numbers are integers in some *)
(* unit, a bool is 0 or 1, not-a-number is a float of its own, the content *)
(* of a list is a sequence and that of a dict a function on its keys.      *)
(***************************************************************************)
EXTENDS Integers, Sequences, FiniteSets

CONSTANTS
  Values,           \* the JSON values that occur
  MaxNestingDepth,  \* MAX_NESTING_DEPTH
  IndexOf,          \* int(part) of the path parts that are numerals
  Starts,           \* pairs <<text, prefix>> with text.startswith(prefix)
  Finds             \* pairs <<text, pattern>> where the search of a pattern
                    \* that compiles and is not too long finds a match

Missing == <<"missing", 0>>

IsNumber(v)    == v[1] \in {"int", "float", "nan"}
IsScalar(v)    == v[1] \in {"str", "int", "float", "nan", "bool"}
IsContainer(v) == v[1] \in {"list", "dict"}
TypeOf(v)      == IF v[1] = "nan" THEN "float" ELSE v[1]

ASSUME DepthAssumption == MaxNestingDepth \in Nat \ {0}

(* What json.loads returns: the items of a list or dict are values again.  *)
ASSUME ValuesAssumption ==
  \A v \in Values :
    /\ v = <<v[1], v[2]>>
    /\ IsScalar(v) \/ IsContainer(v) \/ v[1] = "none"
    /\ v[1] \in {"int", "float", "bool"} => v[2] \in Int
    /\ v[1] = "list" => v[2] \in Seq(Values)
    /\ v[1] = "dict" => /\ DOMAIN v[2] \subseteq STRING /\ IsFiniteSet(DOMAIN v[2])
                        /\ \A k \in DOMAIN v[2] : v[2][k] \in Values

---------------------------------------------------------------------------
(* get_nested_value. *)

Child(v, part) ==
  CASE v[1] = "dict" /\ part \in DOMAIN v[2] -> v[2][part]
    [] v[1] = "list" /\ part \in DOMAIN IndexOf /\ IndexOf[part] \in 0 .. Len(v[2]) - 1 ->
         v[2][IndexOf[part] + 1]
    [] OTHER -> Missing

(* What the first n parts of the path lead to, for each n. *)
Steps(data, path) ==
  LET at[n \in 0 .. Len(path)] == IF n = 0 THEN data ELSE Child(at[n - 1], path[n])
  IN  at

GetNestedValue(data, path) ==
  IF Len(path) \in 1 .. MaxNestingDepth THEN Steps(data, path)[Len(path)] ELSE Missing

---------------------------------------------------------------------------
(* Python's comparisons: a bool counts as a number in == and `in`, nothing *)
(* equals not-a-number or is ordered with it.  Containers in containers    *)
(* are not compared.                                                       *)

ScalarEq(v, w) ==
  \/ {v[1], w[1]} \subseteq {"bool", "int", "float"} /\ v[2] = w[2]
  \/ v[1] = w[1] /\ v[1] \in {"str", "none"} /\ v[2] = w[2]

PyEq(v, w) ==
  \/ ScalarEq(v, w)
  \/ /\ v[1] = w[1] /\ IsContainer(v)
     /\ DOMAIN v[2] = DOMAIN w[2]
     /\ \A k \in DOMAIN v[2] : ScalarEq(v[2][k], w[2][k])

Member(list, v) == \E i \in DOMAIN list[2] : PyEq(list[2][i], v)

Less(v, w) == v[1] # "nan" /\ w[1] # "nan" /\ v[2] < w[2]

(* Mutant: not-a-number is not greater than anything. *)
NotGreater(v, w) == ~Less(w, v)

LessEq(v, w) == Less(v, w) \/ ScalarEq(v, w)

---------------------------------------------------------------------------
(* evaluate_constraints: one constraint c on the arguments. *)

Ops == {"eq", "neq", "in", "not_in", "lt", "lte", "gt", "gte", "prefix",
        "subset_of", "matches", "exists"}

(* The operands the operator accepts. *)
WellTyped(op, v, w) ==
  CASE op \in {"eq", "neq"} -> TypeOf(v) = TypeOf(w) \/ (IsNumber(v) /\ IsNumber(w))
    [] op \in {"in", "not_in"} -> w[1] = "list" /\ ~IsContainer(v)
    [] op \in {"lt", "lte", "gt", "gte"} -> IsNumber(v) /\ IsNumber(w)
    [] op \in {"prefix", "matches"} -> v[1] = "str" /\ w[1] = "str"
    [] op = "subset_of" -> v[1] = "list" /\ w[1] = "list"

Holds(op, v, w) ==
  CASE op = "eq"        -> PyEq(v, w)
    [] op = "neq"       -> ~PyEq(v, w)
    [] op = "in"        -> Member(w, v)
    [] op = "not_in"    -> ~Member(w, v)
    [] op = "lt"        -> Less(v, w)
    [] op = "lte"       -> LessEq(v, w)
    [] op = "gt"        -> Less(w, v)
    [] op = "gte"       -> LessEq(w, v)
    [] op = "prefix"    -> <<v[2], w[2]>> \in Starts
    [] op = "matches"   -> <<v[2], w[2]>> \in Finds
    [] op = "subset_of" -> \A i \in DOMAIN v[2] : Member(w, v[2][i])

(* A set of values is built from w, and the items of v are looked up in it *)
(* until one is not there; a list or dict in either raises a TypeError.    *)
Raises(v, w) ==
  LET absent == {i \in DOMAIN v[2] : ~Member(w, v[2][i])} IN
  \/ \E i \in DOMAIN w[2] : IsContainer(w[2][i])
  \/ \E i \in DOMAIN v[2] : IsContainer(v[2][i]) /\ \A j \in absent : i <= j

(* "exists" is for a value that is there and is not None.                  *)
CheckExists(v) ==
  IF v[1] \notin {"missing", "none"} THEN "ok" ELSE "ARGUMENT_CONSTRAINT_FAILED"

(* The other operators, on a value that is there.                          *)
CheckFound(op, v, w) ==
  IF ~WellTyped(op, v, w) THEN "ARGUMENT_TYPE_MISMATCH"
  ELSE IF op = "subset_of" /\ Raises(v, w) THEN "TypeError"
  ELSE IF Holds(op, v, w) THEN "ok"
  ELSE "ARGUMENT_CONSTRAINT_FAILED"

(* Mutant: what is not there differs from everything and is in no list. *)
CheckAbsentDiffers(c, arguments) ==
  LET v == GetNestedValue(arguments, c.path) IN
  IF c.op = "exists" THEN CheckExists(v)
  ELSE IF v # Missing THEN CheckFound(c.op, v, c.value)
  ELSE IF c.op \in {"neq", "not_in"} THEN "ok"
  ELSE "ARGUMENT_PATH_UNKNOWN"

(* Constraint c on the arguments: "ok", the reason code or the exception.  *)
Check(c, arguments) ==
  LET v == GetNestedValue(arguments, c.path) IN
  IF c.op = "exists" THEN CheckExists(v)
  ELSE IF v = Missing THEN "ARGUMENT_PATH_UNKNOWN"
  ELSE CheckFound(c.op, v, c.value)
=============================================================================
