--------------------------- MODULE PurposePolicy ---------------------------
(***************************************************************************)
(* Who may ask for what: the manifests the control plane starts with, the  *)
(* baseline policy document, and the two lookups a decision makes in them. *)
(* Of a tool's policy, `approval' is requires_approval with the sponsor    *)
(* rule, and `limited' says that it bounds amount_minor and currency; the  *)
(* limits themselves are in ArgumentPolicy, allowed_fields in ToolResponse.*)
(***************************************************************************)
EXTENDS TLC

DefaultManifests ==
  "invoice-reconciliation" :>
     [version      |-> "1.0.0",
      capabilities |-> {"invoice.read", "purchase_order.read", "reconciliation.write"},
      denied       |-> {"payment.instruct", "vendor_bank_account.read"}]
  @@ "procurement-exception" :>
     [version      |-> "1.0.0",
      capabilities |-> {"vendor.read", "exception.write"},
      denied       |-> {"payment.instruct", "exception.approve_self"}]
  @@ "treasury-approval" :>
     [version      |-> "1.0.3",
      capabilities |-> {"payment_batch.read", "payment.instruct"},
      denied       |-> {}]

Free == [approval |-> FALSE, limited |-> FALSE]
Paid == [approval |-> TRUE, limited |-> TRUE]

DefaultPolicyDocument ==
  "weekly_vendor_settlement" :>
     ("invoice-reconciliation" :>
        ("invoice.read" :> Free @@ "purchase_order.read" :> Free)
      @@ "procurement-exception" :> ("vendor.read" :> Free)
      @@ "treasury-approval" :>
        ("payment.instruct" :> Paid @@ "payment_batch.read" :> Free))
  @@ "invoice_reconciliation" :>
     ("invoice-reconciliation" :>
        ("invoice.read" :> Free @@ "purchase_order.read" :> Free
         @@ "reconciliation.write" :> Free))
  @@ "procurement_exception" :>
     ("procurement-exception" :> ("vendor.read" :> Free @@ "exception.write" :> Free))

---------------------------------------------------------------------------
CanRequestTool(manifest, tool) ==
  tool \notin manifest.denied /\ tool \in manifest.capabilities

InPolicy(policy, purpose, agent, tool) ==
  /\ purpose \in DOMAIN policy
  /\ agent \in DOMAIN policy[purpose]
  /\ tool \in DOMAIN policy[purpose][agent]

ToolPolicy(policy, purpose, agent, tool) == policy[purpose][agent][tool]
============================================================================
