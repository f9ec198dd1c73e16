---------------------------- MODULE MCExecSession ----------------------------
(* Instances of ExecSession for TLC. *)
EXTENDS ExecSession, TLC

OneSession == [p \in Callers \cup Closers |-> CHOOSE s \in Sessions : TRUE]

\* Two sessions: both closers and c1, c3 work on the first, c2 on the second.
CONSTANTS c1, c2, c3, k1, k2, s1, s2
PairedSessions == (c1 :> s1) @@ (c2 :> s2) @@ (c3 :> s1) @@ (k1 :> s1) @@ (k2 :> s1)

\* Every edit writes new content.
FreshContent == [g \in Gens |-> g]

Same == Permutations(Callers)
==============================================================================
