------------------------------ MODULE MCAgents ------------------------------
(* Instances of AgentCalls: the default manifests and policy document, and  *)
(* a later document without the procurement purpose.                        *)
EXTENDS AgentCallsProperties

(* No step reads the last answer: it is there for the action properties.    *)
WithoutReply ==
  <<policyVersion, config, task, delegations, approvals, grants, runs, asked, calls>>

MCPolicies ==
  << DefaultPolicyDocument,
     [p \in DOMAIN DefaultPolicyDocument \ {"procurement_exception"} |->
        DefaultPolicyDocument[p]] >>

Deploy(region, checksArgs, enforce) ==
  [region |-> region, checksArgs |-> checksArgs, enforce |-> enforce]

MCConfigs == {Deploy("asia-south1", FALSE, TRUE), Deploy("asia-south1", TRUE, FALSE)}

MCRequiredArgs ==
  "invoice.read" :> {"invoice_id"} @@ "purchase_order.read" :> {"po_id"}
  @@ "vendor.read" :> {"vendor_id"} @@ "reconciliation.write" :> {"invoice_id"}
  @@ "payment.instruct" :> {"batch_id", "amount_minor", "currency"}

MCBackendArgs ==
  "reconciliation.write" :> {"invoice_id", "task_id", "result"}
  @@ "payment.instruct" :> {"batch_id"}

MCWorkflow ==
  "invoice-reconciliation" :> <<"invoice.read", "purchase_order.read", "reconciliation.write">>
  @@ "procurement-exception" :> <<"vendor.read", "exception.write">>
  @@ "treasury-approval" :> <<"payment_batch.read", "payment.instruct">>

NoArgs == <<>>

Pay(amount) == [batch_id |-> "text", amount_minor |-> amount, currency |-> "INR"]

MCCallArgs ==
  "invoice.read" :> [invoice_id |-> "text"] @@ "purchase_order.read" :> [po_id |-> "text"]
  @@ "reconciliation.write" :> [invoice_id |-> "text", result |-> "text", variance_minor |-> "text"]
  @@ "vendor.read" :> [vendor_id |-> "text"]
  @@ "exception.write" :> [invoice_id |-> "text", severity |-> "text", reason |-> "text"]
  @@ "payment_batch.read" :> [batch_id |-> "text"] @@ "payment.instruct" :> Pay("within")

MCOffers ==
  [purpose : DOMAIN DefaultPolicyDocument, agents : {{}}, regions : {{"asia-south1"}}, bound : {TRUE}]
  \cup {[purpose |-> "invoice_reconciliation", agents |-> {"treasury-approval"},
         regions |-> {"asia-south1"}, bound |-> TRUE],
        [purpose |-> "weekly_vendor_settlement", agents |-> {},
         regions |-> {"eu-west1"}, bound |-> TRUE],
        [purpose |-> "weekly_vendor_settlement", agents |-> {},
         regions |-> {"asia-south1"}, bound |-> FALSE]}

Ask(agent, version, tool, args, region) ==
  [agent |-> agent, version |-> version, tool |-> tool, args |-> args, region |-> region]

MCRequests ==
  {Ask("treasury-approval", "1.0.3", "payment.instruct", Pay(amount), "asia-south1") :
      amount \in {"within", "excessive"}}
  \cup {Ask("invoice-reconciliation", v, "invoice.read", NoArgs, r) :
          v \in {"1.0.0", "0.9.0"}, r \in {"asia-south1", "eu-west1"}}
  \cup {Ask("invoice-reconciliation", "1.0.0", "payment.instruct", Pay("within"), "asia-south1"),
        Ask("invoice-reconciliation", "1.0.0", "invoice.read", [invoice_id |-> "injected"],
            "asia-south1"),
        Ask("unknown-agent", "1.0.0", "invoice.read", NoArgs, "asia-south1")}

Present(agent, version, tool, args) ==
  [agent |-> agent, version |-> version, tool |-> tool, args |-> args]

MCClaims ==
  {Present("treasury-approval", v, "payment.instruct", Pay(amount)) :
      v \in {"1.0.3", "1.0.0"}, amount \in {"within", "excessive"}}
  \cup {Present(a, "1.0.0", "invoice.read", args) :
          a \in {"invoice-reconciliation", "procurement-exception"},
          args \in {NoArgs, [invoice_id |-> "text"], [invoice_id |-> "text", po_id |-> "text"]}}
  \cup {Present("invoice-reconciliation", "1.0.0", "purchase_order.read", [po_id |-> "text"])}

MCSubjects == {Pay("within"), NoArgs}
=============================================================================
