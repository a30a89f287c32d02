--------------------------- MODULE BindingRegistry ---------------------------
(***************************************************************************)
(* What the bindings promise, without rows, handlers and lookups: for each *)
(* property and connector at most one binding, which once it exists is     *)
(* switched on and off and never disappears, and an audit trail that shows *)
(* every switch in the same step.                                          *)
(***************************************************************************)
CONSTANT Pairs   \* a property and a connector

VARIABLES
    status,   \* the state of each pair's binding
    trail     \* the state that the audit trail shows

vars == <<status, trail>>

Init ==
    /\ status = [pair \in Pairs |-> "absent"]
    /\ trail = status

Switch(pair, state) ==
    /\ status' = [status EXCEPT ![pair] = state]
    /\ trail' = [trail EXCEPT ![pair] = state]

Attach(pair) == status[pair] # "on" /\ Switch(pair, "on")
Detach(pair) == status[pair] = "on" /\ Switch(pair, "off")

Next == \E pair \in Pairs : Attach(pair) \/ Detach(pair)

Spec == Init /\ [][Next]_vars
=============================================================================
