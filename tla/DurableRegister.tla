--------------------------- MODULE DurableRegister ---------------------------
(* What the loader promises of graph.json: a register that takes a value at *)
(* once, persists it some time later, and after a power failure holds the   *)
(* value it had persisted.                                                  *)
CONSTANTS Data, None
VARIABLES value, durable

Init == value = None /\ durable = None
Write == value' \in Data /\ UNCHANGED durable
Persist == durable' = value /\ UNCHANGED value
Fail == value' = durable /\ UNCHANGED durable
Next == Write \/ Persist \/ Fail
Spec == Init /\ [][Next]_<<value, durable>>
=============================================================================
