---------------------------- MODULE TaskMachine ----------------------------
(***************************************************************************)
(* What the task document promises to everyone who reads it: one state     *)
(* machine, whose version grows with every change of state and whose       *)
(* terminal states are final, no matter how many services write to it.     *)
(*                                                                         *)
(* The worker stores the two transitions x -> resuming -> running of a     *)
(* resume in one write, so a resume is one step that adds 2 to the version.*)
(***************************************************************************)
EXTENDS Naturals, TaskStates

CONSTANT Absent          \* the state of a task that has no document yet

VARIABLES state, version

vars == <<state, version>>

Init == state = Absent /\ version = 0

Create ==
  /\ state = Absent
  /\ state' = "created"
  /\ version' = 1

Step ==
  /\ state # Absent
  /\ \E event \in TaskEvent : Transition(state, event, state')
  /\ version' = version + 1

Resume ==
  /\ state # Absent
  /\ \E event \in TaskEvent : Transition(state, event, "resuming")
  /\ Transition("resuming", "runtime_restored", state')
  /\ version' = version + 2

Next == Create \/ Step \/ Resume

Spec == Init /\ [][Next]_vars
===========================================================================
