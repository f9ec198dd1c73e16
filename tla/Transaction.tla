---------------------------- MODULE Transaction ----------------------------
(***************************************************************************)
(* What the write pipeline promises about graph.json: a command puts all   *)
(* of its proposals into the graph or none of them, and its report says    *)
(* which of the two happened.                                              *)
(***************************************************************************)
CONSTANT Items

VARIABLES landed, acked, request, outcome

vars == <<landed, acked, request, outcome>>

Idle == "idle"

Init == landed = {} /\ acked = {} /\ request = {} /\ outcome = Idle

Begin == /\ outcome = Idle /\ outcome' = "running" /\ request' \in SUBSET Items
         /\ UNCHANGED <<landed, acked>>

Commit == /\ outcome = "running" /\ outcome' = "done"
          /\ landed' = landed \cup request
          /\ \E A \in SUBSET request : acked' = acked \cup A
          /\ UNCHANGED request

Abort == outcome = "running" /\ outcome' = "aborted" /\ UNCHANGED <<landed, acked, request>>

Close == /\ outcome \in {"done", "aborted"} /\ outcome' = Idle /\ request' = {}
         /\ UNCHANGED <<landed, acked>>

Next == Begin \/ Commit \/ Abort \/ Close

Spec == Init /\ [][Next]_vars
=============================================================================
