---------------------------- MODULE MCArguments ----------------------------
(* Instances of ToolResponse: payments of small amounts, every operator on a *)
(* document that has each type at some depth, and nested responses.         *)
EXTENDS ToolResponse, TLC

Amounts == {<<"int", 0>>, <<"int", 1>>, <<"int", 2>>, <<"int", 3>>, <<"float", 1>>,
            <<"bool", 1>>, <<"nan", 0>>, <<"str", "INR">>, <<"none", 0>>,
            <<"list", <<<<"int", 1>>>>>>}
Texts == {<<"str", "INR">>, <<"str", "USD">>, <<"bool", 1>>}

Fields(k, values) == {k :> v : v \in values}

MCRequests ==
  {<<"dict", <<>>>>} \cup {<<"dict", f>> : f \in Fields("amount_minor", Amounts)}
  \cup {<<"dict", f @@ g>> : f \in Fields("amount_minor", Amounts),
                             g \in Fields("currency", Texts)}

INR == <<<<"str", "INR">>>>

MCPolicies ==
  { [max |-> NoCap, currencies |-> <<>>, fields |-> {}],
    [max |-> NoCap, currencies |-> INR, fields |-> {<<"status">>, <<"vendor">>, <<"vendor", "legal_name">>}],
    [max |-> 2, currencies |-> <<>>, fields |-> {<<"lines", "line_no">>, <<"lines", "vendor", "legal_name">>}],
    [max |-> 2, currencies |-> INR, fields |-> {<<"status">>, <<"vendor">>, <<"lines">>, <<"line_no">>}] }

MCIndexOf == "-1" :> -1 @@ "0" :> 0 @@ "1" :> 1 @@ "2" :> 2
MCStarts  == {<<"INR", "INR">>, <<"INR", "IN">>, <<"USD", "USD">>}
MCFinds   == {<<"INR", "N">>}

Scalars == {<<"int", 1>>, <<"int", 2>>, <<"float", 1>>, <<"bool", 1>>, <<"nan", 0>>,
            <<"str", "INR">>, <<"none", 0>>}

Document ==
  LET l  == <<"list", <<<<"int", 1>>, <<"str", "INR">>>>>>
      d6 == <<"dict", "f" :> <<"int", 1>>>>
      d5 == <<"dict", "e" :> d6>>
      d4 == <<"dict", "d" :> d5>>
      d3 == <<"dict", "c" :> d4>>
      d2 == <<"dict", "b" :> d3>>
  IN  "a" :> d2 @@ "n" :> <<"list", <<l, <<"int", 1>>>>>> @@ "l" :> l

Documents == {<<"dict", Document @@ f>> : f \in Fields("v", Scalars)}

Operands ==
  Scalars \cup {<<"str", "IN">>, <<"str", "N">>, <<"list", <<>>>>,
                <<"list", <<<<"int", 1>>, <<"str", "INR">>>>>>,
                <<"list", <<<<"bool", 1>>>>>>, <<"list", <<<<"list", <<>>>>>>>>}

Paths == {<<"v">>, <<"w">>, <<"l">>, <<"l", "0">>, <<"l", "2">>, <<"l", "-1">>, <<"l", "x">>,
          <<"n">>, <<"v", "0">>, <<"a", "x">>, <<"a", "b", "c", "d", "e">>, <<"a", "b", "c", "d", "e", "f">>}

Roots == {<<"str", "INR">>, <<"list", <<>>>>, <<"dict", <<>>>>}

AllConstraints == [path : Paths, op : Ops, value : Operands]

MCOtherCalls ==
  {<<<<c>>, d>> : c \in AllConstraints, d \in Documents}
  \cup {<<<<Constraint(p, "exists", <<"none", 0>>), c>>, d>> :
           p \in {<<"v">>, <<"l", "1">>}, c \in [path : {<<"v">>}, op : Ops, value : Operands],
           d \in Documents}
  \cup {<<<<>>, a>> : a \in Roots}

---------------------------------------------------------------------------
Vendor == "legal_name" :> <<"str", "ACME">> @@ "bank" :> <<"str", "IBAN">>
Line   == "line_no" :> <<"int", 1>> @@ "vendor" :> <<"dict", Vendor>>

(* Objects and lists where the paths expect them, and where they do not. *)
MCPayloads ==
  {<<"dict", "status" :> <<"str", "open">> @@ "vendor" :> v @@ "lines" :> l>> :
     v \in {<<"dict", Vendor>>, <<"list", <<<<"dict", Vendor>>, <<"str", "IBAN">>>>>>,
            <<"str", "ACME">>, <<"dict", <<>>>>},
     l \in {<<"list", <<<<"dict", Line>>, <<"dict", Line>>>>>>,
            <<"list", <<<<"list", <<<<"dict", Line>>, <<"int", 2>>>>>>, <<"int", 3>>>>>>,
            <<"dict", Line>>, <<"none", 0>>}}
  \cup {<<"list", <<<<"dict", Line>>, <<"int", 4>>>>>>}

RECURSIVE Parts(_)

Parts(v) ==
  {v} \cup IF IsContainer(v) THEN UNION {Parts(v[2][k]) : k \in DOMAIN v[2]} ELSE {}

MCValues ==
  UNION {Parts(v) : v \in MCRequests \cup Documents \cup Operands \cup Roots \cup MCPayloads}

RECURSIVE DepthOf(_)

DepthOf(v) ==
  IF IsContainer(v) THEN 1 + Max({0} \cup {DepthOf(v[2][k]) : k \in DOMAIN v[2]}) ELSE 0

MCDepth == [v \in MCValues |-> DepthOf(v)]
============================================================================
