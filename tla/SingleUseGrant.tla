--------------------------- MODULE SingleUseGrant ---------------------------
(***************************************************************************)
(* What an execution grant promises: it is issued once, either handed to   *)
(* the agent or withdrawn but never both, consumed at most once and only   *)
(* after it was handed out, and performs its tool at most once, after the  *)
(* consumption.  No status is ever taken back.                             *)
(***************************************************************************)
CONSTANT Grants

VARIABLES
  status,     \* "none", "issued", "consumed" or "expired"
  held,       \* grants whose token the agent holds
  performed   \* grants whose tool has run

vars == <<status, held, performed>>

Init ==
  /\ status = [g \in Grants |-> "none"]
  /\ held = {}
  /\ performed = {}

Move(g, from, to) ==
  /\ status[g] = from
  /\ status' = [status EXCEPT ![g] = to]
  /\ UNCHANGED <<held, performed>>

Issue(g)    == Move(g, "none", "issued")
Withdraw(g) == g \notin held /\ Move(g, "issued", "expired")
Consume(g)  == g \in held /\ Move(g, "issued", "consumed")

HandOut(g) ==
  /\ status[g] = "issued" /\ g \notin held
  /\ held' = held \cup {g}
  /\ UNCHANGED <<status, performed>>

Perform(g) ==
  /\ status[g] = "consumed" /\ g \notin performed
  /\ performed' = performed \cup {g}
  /\ UNCHANGED <<status, held>>

Next ==
  \E g \in Grants :
    Issue(g) \/ Withdraw(g) \/ Consume(g) \/ HandOut(g) \/ Perform(g)

Spec == Init /\ [][Next]_vars
=============================================================================
