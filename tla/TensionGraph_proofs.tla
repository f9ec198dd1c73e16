-------------------------- MODULE TensionGraph_proofs --------------------------
(***************************************************************************)
(* Proofs about the tension graph, for any requirements, stakeholders and  *)
(* tensions.  As long as nobody edits graph.json by hand, the gate keeps a *)
(* graph without violations free of them (Clean); what the checks were     *)
(* written for then follows from their absence.                            *)
(***************************************************************************)
EXTENDS TensionGraph, FiniteSetTheorems, TLAPS

Clean == AllViolations(graph) = {}
Inv == TypeOK /\ Clean

-----------------------------------------------------------------------------
(* Types. *)

LEMMA InitType == Init => TypeOK
  BY InputsAssumption DEF Init, TypeOK, Graphs

LEMMA RowUpdate ==
    ASSUME graph \in Graphs, NEW r \in Requirements, NEW row \in Rows
    PROVE  [graph EXCEPT !.row[r] = row] \in Graphs
  BY DEF Graphs

LEMMA ConflictUpdate ==
    ASSUME graph \in Graphs, NEW t \in Tensions, NEW c \in Conflicts
    PROVE  [graph EXCEPT !.conflict[t] = c] \in Graphs
  BY DEF Graphs

LEMMA ConflictType ==
    ASSUME graph \in Graphs, NEW t \in ConflictIDs(graph)
    PROVE  graph.conflict[t] \in Conflicts
  BY DEF Graphs, ConflictIDs

LEMMA MovedType ==
    ASSUME NEW c \in Conflicts, NEW l \in Lifecycles,
           NEW d \in Stakeholders \cup {Nobody}
    PROVE  Moved(c, l, d) \in Conflicts
  BY DEF Moved, signed, Conflicts, IsJudged, IsDecided, IsHeld

LEMMA RequirementType == TypeOK /\ Requirement => TypeOK'
<1> SUFFICES ASSUME TypeOK,
             NEW r \in Requirements, NEW owner \in Stakeholders, NEW status \in Statuses,
             NEW relations \in SUBSET Successors,
             ProposedRequirement(r, owner, status, relations)
    PROVE  TypeOK'
  BY DEF Requirement
<1> DEFINE old == IF r \in RequirementIDs(graph) THEN graph.row[r].replaces ELSE {}
           row == [owner |-> owner, status |-> status,
                   replaces |-> IF relations = {} THEN old ELSE relations]
<1>1. old \in SUBSET Requirements
  BY DEF TypeOK, Graphs, RequirementIDs, Rows
<1>2. row \in Rows
  BY <1>1, InputsAssumption DEF Rows
<1>3. graph' = [graph EXCEPT !.row[r] = row]
  BY DEF ProposedRequirement, Apply
<1> QED BY <1>2, <1>3, RowUpdate DEF TypeOK

LEMMA RejectionType == TypeOK /\ Rejection => TypeOK'
<1> SUFFICES ASSUME TypeOK, NEW r \in Requirements, NEW replacedBy \in SUBSET Successors,
             ProposedRejection(r, replacedBy)
    PROVE  TypeOK'
  BY DEF Rejection
<1>1. graph' = [graph EXCEPT !.row = [q \in Requirements |-> Superseded(q, r, replacedBy)]]
  BY DEF ProposedRejection, Apply
<1>2. ASSUME NEW q \in Requirements PROVE Superseded(q, r, replacedBy) \in Rows \cup {Missing}
  <2>1. CASE q \notin {r} \cup replacedBy
    BY <2>1 DEF Superseded, TypeOK, Graphs
  <2>2. CASE q \in {r} \cup replacedBy
    <3>1. graph.row[q] \in Rows
      BY <2>2 DEF ProposedRejection, RequirementIDs, TypeOK, Graphs
    <3> QED BY <2>2, <3>1 DEF Superseded, Rows, RequirementStates
  <2> QED BY <2>1, <2>2
<1> QED BY <1>1, <1>2 DEF TypeOK, Graphs

LEMMA ConflictProposalsType ==
    TypeOK /\ (Conflict \/ ConflictTransition \/ ConflictMemberUpdate) => TypeOK'
<1> SUFFICES ASSUME TypeOK
    PROVE  Conflict \/ ConflictTransition \/ ConflictMemberUpdate => TypeOK'
  OBVIOUS
<1>1. ASSUME NEW t \in Tensions, NEW members \in SUBSET Requirements,
             NEW resolver \in Stakeholders, NEW l \in Lifecycles,
             NEW d \in Stakeholders \cup {Nobody},
             ProposedConflict(t, members, resolver, l, d)
      PROVE  TypeOK'
  <2> DEFINE c == [members |-> members, resolver |-> resolver, lifecycle |-> l,
                   decidedBy |-> d, signoff |-> Nobody]
  <2>1. c \in Conflicts BY DEF Conflicts
  <2>2. graph' = [graph EXCEPT !.conflict[t] = c]
    BY <1>1 DEF ProposedConflict, Apply
  <2> QED BY <2>1, <2>2, ConflictUpdate DEF TypeOK
<1>2. ASSUME NEW t \in Tensions, NEW l \in Lifecycles,
             NEW d \in Stakeholders \cup {Nobody},
             ProposedConflictTransition(t, l, d)
      PROVE  TypeOK'
  <2>1. Moved(graph.conflict[t], l, d) \in Conflicts
    BY <1>2, ConflictType, MovedType DEF ProposedConflictTransition, TypeOK
  <2>2. graph' = [graph EXCEPT !.conflict[t] = Moved(graph.conflict[t], l, d)]
    BY <1>2 DEF ProposedConflictTransition, Apply
  <2> QED BY <2>1, <2>2, ConflictUpdate DEF TypeOK
<1>3. ASSUME NEW t \in Tensions, NEW add \in SUBSET Requirements,
             NEW remove \in SUBSET Requirements,
             ProposedConflictMemberUpdate(t, add, remove)
      PROVE  TypeOK'
  <2> DEFINE kept == (graph.conflict[t].members \ remove) \cup add
  <2>1. graph.conflict[t] \in Conflicts
    BY <1>3, ConflictType DEF ProposedConflictMemberUpdate, TypeOK
  <2>2. graph' = [graph EXCEPT !.conflict[t] = [@ EXCEPT !.members = kept]]
    BY <1>3 DEF ProposedConflictMemberUpdate, Apply
  <2>3. [graph.conflict[t] EXCEPT !.members = kept] \in Conflicts
    BY <2>1 DEF Conflicts
  <2> QED BY <2>2, <2>3, ConflictUpdate DEF TypeOK
<1> QED BY <1>1, <1>2, <1>3 DEF Conflict, ConflictTransition, ConflictMemberUpdate

LEMMA OthersType == TypeOK /\ (Stakeholder \/ Axis \/ HandEdit) => TypeOK'
<1> SUFFICES ASSUME TypeOK PROVE Stakeholder \/ Axis \/ HandEdit => TypeOK' OBVIOUS
<1>1. ASSUME Stakeholder PROVE TypeOK'
  BY <1>1 DEF Stakeholder, ProposedStakeholder, Apply, TypeOK, Graphs
<1>2. ASSUME Axis PROVE TypeOK'
  BY <1>2 DEF Axis, ProposedAxis, Apply, TypeOK, Graphs
<1>3. ASSUME NEW p \in graph.people, graph' = [graph EXCEPT !.people = @ \ {p}]
      PROVE  TypeOK'
  BY <1>3 DEF TypeOK, Graphs
<1>4. ASSUME NEW r \in RequirementIDs(graph), NEW p \in Stakeholders,
             graph' = [graph EXCEPT !.row[r].owner = p]
      PROVE  TypeOK'
  <2>1. r \in Requirements /\ graph.row[r] \in Rows
    BY DEF RequirementIDs, TypeOK, Graphs
  <2>2. [graph.row[r] EXCEPT !.owner = p] \in Rows
    BY <2>1 DEF Rows
  <2> QED BY <1>4, <2>1, <2>2, RowUpdate DEF TypeOK, Graphs
<1> QED BY <1>1, <1>2, <1>3, <1>4 DEF HandEdit

(* The graph is well typed in every state, hand edits included.              *)
THEOREM TypeCorrect == Spec => []TypeOK
<1>1. TypeOK /\ [Next]_graph => TypeOK'
  <2>1. TypeOK /\ UNCHANGED graph => TypeOK' BY DEF TypeOK
  <2> QED BY <2>1, RequirementType, RejectionType, ConflictProposalsType, OthersType
          DEF Next, Proposal
<1> QED BY <1>1, InitType, PTL DEF Spec

-----------------------------------------------------------------------------
(* Without hand edits the graph stays clean.                                 *)

LEMMA InitClean == Init => Clean
<1> SUFFICES ASSUME Init PROVE Clean OBVIOUS
<1>1. RequirementIDs(graph) = {} /\ ConflictIDs(graph) = {}
  BY DEF Init, RequirementIDs, ConflictIDs
<1>2. danglingOwners(graph) = {} /\ danglingRelations(graph) = {}
      /\ danglingConflictRefs(graph) = {}
  BY <1>1 DEF danglingOwners, danglingRelations, danglingConflictRefs
<1>3. /\ fewMembers(graph) = {} /\ axisUnregistered(graph) = {} /\ lifecycleUnknown(graph) = {}
      /\ resolverInside(graph) = {} /\ rationaleMissing(graph) = {}
      /\ deciderMissing(graph) = {} /\ deciderUnknown(graph) = {} /\ deciderInside(graph) = {}
  BY <1>1 DEF fewMembers, axisUnregistered, lifecycleUnknown, resolverInside,
              rationaleMissing, deciderMissing, deciderUnknown, deciderInside
<1> QED BY <1>2, <1>3 DEF Clean, AllViolations, Found

(* The gate: in a clean graph every violation is new. *)
LEMMA NothingIsExcused ==
    ASSUME Clean, NEW h PROVE newViolationsSince(graph, h) = AllViolations(h)
  BY DEF Clean, newViolationsSince

LEMMA GateKeepsClean == ASSUME Clean, NEW h, Apply(h) PROVE Clean'
  BY NothingIsExcused DEF Apply, Clean

LEMMA ProposalKeepsClean == Clean /\ Proposal => Clean'
<1> SUFFICES ASSUME Clean, Proposal PROVE Clean' OBVIOUS
<1>1. PICK h : Apply(h)
  BY DEF Proposal, Requirement, ProposedRequirement, Rejection, ProposedRejection,
         Conflict, ProposedConflict, ConflictTransition, ProposedConflictTransition,
         ConflictMemberUpdate, ProposedConflictMemberUpdate,
         Stakeholder, ProposedStakeholder, Axis, ProposedAxis
<1> QED BY <1>1, GateKeepsClean

LEMMA StaysClean == ~HandEdits => (Spec => []Inv)
<1> SUFFICES ASSUME ~HandEdits PROVE Spec => []Inv OBVIOUS
<1>1. Clean /\ [Next]_graph => Clean'
  <2>1. Clean /\ UNCHANGED graph => Clean' BY DEF Clean
  <2> QED BY <2>1, ProposalKeepsClean DEF Next, HandEdit
<1>2. Init => Clean BY InitClean
<1>3. Spec => []Clean BY <1>1, <1>2, PTL DEF Spec
<1> QED BY <1>3, TypeCorrect, PTL DEF Inv

-----------------------------------------------------------------------------
(* What the absence of violations means for one conflict.                    *)
LEMMA CleanConflict ==
    ASSUME Inv, NEW t \in ConflictIDs(graph)
    PROVE  LET c == graph.conflict[t]
           IN  /\ c \in Conflicts
               /\ c.members \subseteq RequirementIDs(graph)
               /\ Cardinality(c.members) >= 2
               /\ Outside(graph, c, c.resolver)
               /\ IsJudged(c) => Outside(graph, c, c.decidedBy)
<1> DEFINE c == graph.conflict[t]
<1>1. c \in Conflicts BY ConflictType DEF Inv, TypeOK
<1>2. danglingConflictRefs(graph) = {}
  BY DEF Inv, Clean, AllViolations
<1>3. c.resolver \in graph.people /\ c.members \subseteq RequirementIDs(graph)
  <2> DEFINE X == ({c.resolver, c.decidedBy} \ (graph.people \cup {Nobody}))
                  \cup (c.members \ RequirementIDs(graph))
  <2>1. ASSUME NEW x \in X PROVE <<"conflict_refs", t, x>> \in danglingConflictRefs(graph)
    BY DEF danglingConflictRefs
  <2>2. X = {}
    BY <1>2, <2>1
  <2>3. c.resolver # Nobody
    BY <1>1, MarkersAssumption DEF Conflicts
  <2> QED BY <2>2, <2>3
<1>4. t \notin fewMembers(graph) /\ t \notin resolverInside(graph)
      /\ t \notin deciderMissing(graph) /\ t \notin deciderUnknown(graph)
      /\ t \notin deciderInside(graph)
  BY DEF Inv, Clean, AllViolations, Found
<1>5. Cardinality(c.members) >= 2
  <2>1. IsFiniteSet(c.members)
    BY <1>1, FiniteAssumption, FS_Subset DEF Conflicts
  <2>2. Cardinality(c.members) \in Nat
    BY <2>1, FS_CardinalityType
  <2> QED BY <1>4, <2>2 DEF fewMembers
<1>6. Outside(graph, c, c.resolver)
  BY <1>3, <1>4 DEF Outside, resolverInside
<1>7. IsJudged(c) => Outside(graph, c, c.decidedBy)
  BY <1>4 DEF Outside, deciderMissing, deciderUnknown, deciderInside
<1> QED BY <1>1, <1>3, <1>5, <1>6, <1>7

(* In every reachable state each conflict is judged from outside: its        *)
(* resolver and its decider own no member (the resolver and decider checks,  *)
(* under every proposal).                                                    *)
THEOREM FromOutside == ~HandEdits => (Spec => []JudgedFromOutside)
<1>1. Inv => JudgedFromOutside
  <2> SUFFICES ASSUME Inv, NEW t \in ConflictIDs(graph)
      PROVE  LET c == graph.conflict[t]
             IN  /\ Cardinality(c.members \cap RequirementIDs(graph)) >= 2
                 /\ Outside(graph, c, c.resolver)
                 /\ IsJudged(c) => Outside(graph, c, c.decidedBy)
    BY DEF JudgedFromOutside
  <2>1. graph.conflict[t].members \cap RequirementIDs(graph) = graph.conflict[t].members
    BY CleanConflict
  <2> QED BY <2>1, CleanConflict
<1> QED BY <1>1, StaysClean, PTL

-----------------------------------------------------------------------------
(* The resolver's decision meets no objection.                               *)

LEMMA DecisionIsClean ==
    ASSUME Inv, NEW t \in ConflictIDs(graph)
    PROVE  AllViolations([graph EXCEPT !.conflict[t] =
               Moved(graph.conflict[t], "DECIDED", graph.conflict[t].resolver)]) = {}
<1> DEFINE old == graph.conflict[t]
           c == Moved(old, "DECIDED", old.resolver)
           h == [graph EXCEPT !.conflict[t] = c]
<1>0. graph \in Graphs /\ t \in Tensions /\ AllViolations(graph) = {}
  BY DEF Inv, TypeOK, Clean, ConflictIDs
<1>1. old \in Conflicts /\ Outside(graph, old, old.resolver)
  BY CleanConflict
<1>2. /\ c \in Conflicts /\ c.lifecycle = "DECIDED" /\ c.decidedBy = old.resolver
      /\ c.members = old.members /\ c.resolver = old.resolver
  BY <1>1, MovedType DEF Moved, signed, Conflicts, Lifecycles, ConflictStates
<1>3. /\ h.row = graph.row /\ h.people = graph.people /\ h.axes = graph.axes
      /\ h.conflict[t] = c
      /\ \A u \in Tensions \ {t} : h.conflict[u] = graph.conflict[u]
  BY <1>0 DEF Graphs
<1> HIDE DEF h, c
<1>4. RequirementIDs(h) = RequirementIDs(graph) /\ ConflictIDs(h) = ConflictIDs(graph)
  <2>1. c # Missing BY <1>2, MarkersAssumption
  <2> QED BY <1>0, <1>3, <2>1 DEF RequirementIDs, ConflictIDs
<1>5. \A d : memberOwners(h, d) = memberOwners(graph, d)
  BY <1>3, <1>4 DEF memberOwners
<1>6. memberOwners(graph, c) = memberOwners(graph, old)
  BY <1>2 DEF memberOwners
<1>7. ConflictIDs(h) \subseteq Tensions
  BY DEF ConflictIDs
<1>8. danglingOwners(h) = {} /\ danglingRelations(h) = {}
  BY <1>0, <1>3, <1>4 DEF AllViolations, danglingOwners, danglingRelations
<1>9. danglingConflictRefs(h) = {}
  <2> DEFINE X(u) == ({h.conflict[u].resolver, h.conflict[u].decidedBy}
                         \ (h.people \cup {Nobody}))
                     \cup (h.conflict[u].members \ RequirementIDs(h))
  <2>1. ASSUME NEW u \in ConflictIDs(h) PROVE X(u) = {}
    <3>1. CASE u = t
      <4>1. old.members \subseteq RequirementIDs(graph) /\ old.resolver \in graph.people
        BY CleanConflict, <1>1 DEF Outside
      <4> QED BY <1>2, <1>3, <1>4, <3>1, <4>1
    <3>2. CASE u # t
      <4>1. h.conflict[u] = graph.conflict[u] BY <1>3, <1>7, <3>2
      <4>2. ASSUME NEW x \in X(u) PROVE <<"conflict_refs", u, x>> \in danglingConflictRefs(graph)
        BY <1>3, <1>4, <4>1, <2>1 DEF danglingConflictRefs
      <4> QED BY <1>0, <4>2 DEF AllViolations
    <3> QED BY <3>1, <3>2
  <2>2. danglingConflictRefs(h) = UNION {{<<"conflict_refs", u, x>> : x \in X(u)} : u \in ConflictIDs(h)}
    BY DEF danglingConflictRefs
  <2> HIDE DEF X
  <2> QED BY <2>1, <2>2
<1>10. fewMembers(h) = {} /\ axisUnregistered(h) = {} /\ lifecycleUnknown(h) = {}
       /\ rationaleMissing(h) = {} /\ resolverInside(h) = {}
  <2>1. fewMembers(graph) = {} /\ axisUnregistered(graph) = {} /\ lifecycleUnknown(graph) = {}
        /\ rationaleMissing(graph) = {} /\ resolverInside(graph) = {}
    BY <1>0 DEF AllViolations, Found
  <2>2. fewMembers(h) = {} /\ axisUnregistered(h) = {}
    BY <1>2, <1>3, <1>4, <1>7, <2>1 DEF fewMembers, axisUnregistered
  <2>3. lifecycleUnknown(h) = {} /\ rationaleMissing(h) = {}
    BY <1>2, <1>3, <1>4, <1>7, <2>1 DEF lifecycleUnknown, rationaleMissing
  <2>4. resolverInside(h) = {}
    BY <1>2, <1>3, <1>4, <1>5, <1>6, <1>7, <2>1 DEF resolverInside
  <2> QED BY <2>2, <2>3, <2>4
<1>11. deciderMissing(h) = {} /\ deciderUnknown(h) = {} /\ deciderInside(h) = {}
  <2>1. deciderMissing(graph) = {} /\ deciderUnknown(graph) = {} /\ deciderInside(graph) = {}
    BY <1>0 DEF AllViolations, Found
  <2>2. old.resolver # Nobody /\ old.resolver \in graph.people
        /\ old.resolver \notin memberOwners(graph, old)
    BY <1>1, MarkersAssumption DEF Conflicts, Outside
  <2>3. deciderMissing(h) = {}
    BY <1>2, <1>3, <1>4, <1>7, <2>1, <2>2 DEF deciderMissing
  <2>4. deciderUnknown(h) = {}
    BY <1>2, <1>3, <1>4, <1>7, <2>1, <2>2 DEF deciderUnknown
  <2>5. deciderInside(h) = {}
    BY <1>2, <1>3, <1>4, <1>5, <1>6, <1>7, <2>1, <2>2 DEF deciderInside
  <2> QED BY <2>3, <2>4, <2>5
<1>12. AllViolations(h) = {}
  BY <1>8, <1>9, <1>10, <1>11 DEF AllViolations, Found
<1> QED BY <1>12 DEF h, c

(* Whatever the proposals did to a conflict, its resolver can still decide   *)
(* it: the gate refuses no such decision (newViolationsSince).               *)
THEOREM ResolverDecides == ~HandEdits => (Spec => []ResolverCanDecide)
<1>1. Inv => ResolverCanDecide
  <2> SUFFICES ASSUME Inv, NEW t \in ConflictIDs(graph)
      PROVE  newViolationsSince(graph, [graph EXCEPT !.conflict[t] =
                 Moved(@, "DECIDED", @.resolver)]) = {}
    BY DEF ResolverCanDecide
  <2>1. [graph EXCEPT !.conflict[t] = Moved(@, "DECIDED", @.resolver)]
        = [graph EXCEPT !.conflict[t] =
               Moved(graph.conflict[t], "DECIDED", graph.conflict[t].resolver)]
    OBVIOUS
  <2> QED BY <2>1, DecisionIsClean, NothingIsExcused DEF Inv
<1> QED BY <1>1, StaysClean, PTL
-----------------------------------------------------------------------------
(* What holds of every step, hand edits included.                            *)

(* What a step may do to one conflict: leave it, raise it, move it, or change*)
(* its members.                                                              *)
Raised(t) == t \notin ConflictIDs(graph) /\ graph'.conflict[t].signoff = Nobody
Transited(t) ==
    \E l \in Lifecycles, d \in Stakeholders \cup {Nobody} :
        /\ graph'.conflict[t] = Moved(graph.conflict[t], l, d)
        /\ IsJudged(graph'.conflict[t]) => d # Nobody
Regrouped(t) ==
    \E members \in SUBSET Requirements :
        graph'.conflict[t] = [graph.conflict[t] EXCEPT !.members = members]

LEMMA ConflictStep ==
    ASSUME TypeOK, Next, NEW t \in Tensions
    PROVE  \/ graph'.conflict[t] = graph.conflict[t]
           \/ Raised(t)
           \/ t \in ConflictIDs(graph) /\ (Transited(t) \/ Regrouped(t))
<1>1. CASE Requirement
  <2>1. PICK r \in Requirements : \E row : graph' = [graph EXCEPT !.row[r] = row]
    BY <1>1 DEF Requirement, ProposedRequirement, Apply
  <2> QED BY <2>1 DEF TypeOK, Graphs
<1>2. CASE Rejection
  <2>1. PICK row : graph' = [graph EXCEPT !.row = row]
    BY <1>2 DEF Rejection, ProposedRejection, Apply
  <2> QED BY <2>1 DEF TypeOK, Graphs
<1>3. CASE Conflict
  <2>1. PICK u \in Tensions, members \in SUBSET Requirements, resolver \in Stakeholders,
             l \in Lifecycles, d \in Stakeholders \cup {Nobody} :
                 ProposedConflict(u, members, resolver, l, d)
    BY <1>3 DEF Conflict
  <2> DEFINE c == [members |-> members, resolver |-> resolver, lifecycle |-> l,
                   decidedBy |-> d, signoff |-> Nobody]
  <2>2. u \notin ConflictIDs(graph) /\ graph' = [graph EXCEPT !.conflict[u] = c]
    BY <2>1 DEF ProposedConflict, Apply
  <2>3. CASE t = u
    BY <2>2, <2>3 DEF Raised, TypeOK, Graphs
  <2>4. CASE t # u
    BY <2>2, <2>4 DEF TypeOK, Graphs
  <2> QED BY <2>3, <2>4
<1>4. CASE ConflictTransition
  <2>1. PICK u \in Tensions, l \in Lifecycles, d \in Stakeholders \cup {Nobody} :
            ProposedConflictTransition(u, l, d)
    BY <1>4 DEF ConflictTransition
  <2> DEFINE c == Moved(graph.conflict[u], l, d)
  <2>2. /\ u \in ConflictIDs(graph) /\ (IsJudged(c) => d # Nobody)
        /\ graph' = [graph EXCEPT !.conflict[u] = c]
    BY <2>1 DEF ProposedConflictTransition, Apply
  <2> HIDE DEF c
  <2>3. CASE t = u
    <3>1. graph'.conflict[t] = c
      BY <2>2, <2>3 DEF TypeOK, Graphs
    <3> QED BY <2>2, <2>3, <3>1 DEF Transited, c
  <2>4. CASE t # u
    BY <2>2, <2>4 DEF TypeOK, Graphs
  <2> QED BY <2>3, <2>4
<1>5. CASE ConflictMemberUpdate
  <2>1. PICK u \in Tensions, add \in SUBSET Requirements, remove \in SUBSET Requirements :
            ProposedConflictMemberUpdate(u, add, remove)
    BY <1>5 DEF ConflictMemberUpdate
  <2> DEFINE kept == (graph.conflict[u].members \ remove) \cup add
  <2>2. /\ u \in ConflictIDs(graph)
        /\ graph' = [graph EXCEPT !.conflict[u] = [@ EXCEPT !.members = kept]]
    BY <2>1 DEF ProposedConflictMemberUpdate, Apply
  <2>3. kept \in SUBSET Requirements
    BY <2>2, ConflictType DEF TypeOK, Conflicts
  <2> HIDE DEF kept
  <2>4. CASE t = u
    <3>1. graph'.conflict[t] = [graph.conflict[t] EXCEPT !.members = kept]
      BY <2>2, <2>4 DEF TypeOK, Graphs
    <3> QED BY <2>2, <2>3, <2>4, <3>1 DEF Regrouped
  <2>5. CASE t # u
    BY <2>2, <2>5 DEF TypeOK, Graphs
  <2> QED BY <2>4, <2>5
<1>6. CASE Stakeholder \/ Axis
  BY <1>6 DEF Stakeholder, ProposedStakeholder, Axis, ProposedAxis, Apply, TypeOK, Graphs
<1>7. CASE HandEdit
  BY <1>7 DEF HandEdit, TypeOK, Graphs
<1> QED BY <1>1, <1>2, <1>3, <1>4, <1>5, <1>6, <1>7 DEF Next, Proposal

LEMMA SignoffStep == TypeOK /\ SignoffNamesDecider /\ [Next]_graph => SignoffNamesDecider'
<1> SUFFICES ASSUME TypeOK, SignoffNamesDecider, [Next]_graph,
                    NEW t \in ConflictIDs(graph'), IsJudged(graph'.conflict[t])
    PROVE  graph'.conflict[t].signoff \in {Nobody, graph'.conflict[t].decidedBy}
  BY DEF SignoffNamesDecider
<1>1. t \in Tensions /\ graph'.conflict[t] # Missing
  BY DEF ConflictIDs
<1>2. CASE graph'.conflict[t] = graph.conflict[t]
  BY <1>1, <1>2 DEF SignoffNamesDecider, ConflictIDs
<1>3. CASE Raised(t)
  BY <1>3 DEF Raised
<1>4. CASE t \in ConflictIDs(graph) /\ Transited(t)
  <2>1. graph.conflict[t] \in Conflicts
    BY <1>4, ConflictType DEF TypeOK
  <2> QED BY <1>4, <2>1 DEF Transited, Moved, signed, Conflicts, IsJudged, IsDecided, IsHeld
<1>5. CASE t \in ConflictIDs(graph) /\ Regrouped(t)
  <2>1. graph.conflict[t] \in Conflicts
    BY <1>5, ConflictType DEF TypeOK
  <2> QED BY <1>5, <2>1
          DEF Regrouped, SignoffNamesDecider, Conflicts, IsJudged, IsDecided, IsHeld
<1> QED BY <1>1, <1>2, <1>3, <1>4, <1>5, ConflictStep

(* A signoff in force names the decider in force, in damaged graphs too      *)
(* (ProposedConflictTransition.mutate).                                      *)
THEOREM SignoffTrue == Spec => []SignoffNamesDecider
<1>1. Init => SignoffNamesDecider
  BY DEF Init, SignoffNamesDecider, ConflictIDs
<1> QED BY <1>1, SignoffStep, TypeCorrect, PTL DEF Spec

LEMMA RequirementsStay ==
    ASSUME TypeOK, Next PROVE RequirementIDs(graph) \subseteq RequirementIDs(graph')
<1> SUFFICES ASSUME NEW q \in RequirementIDs(graph) PROVE graph'.row[q] # Missing
  BY DEF RequirementIDs
<1>0. q \in Requirements /\ graph.row[q] \in Rows /\ Missing \notin Rows
  BY MarkersAssumption DEF RequirementIDs, TypeOK, Graphs
<1>1. CASE Requirement
  <2>1. PICK r \in Requirements, owner \in Stakeholders, status \in Statuses,
             relations \in SUBSET Successors :
                 ProposedRequirement(r, owner, status, relations)
    BY <1>1 DEF Requirement
  <2> DEFINE old == IF r \in RequirementIDs(graph) THEN graph.row[r].replaces ELSE {}
             row == [owner |-> owner, status |-> status,
                     replaces |-> IF relations = {} THEN old ELSE relations]
  <2>2. old \in SUBSET Requirements
    BY DEF TypeOK, Graphs, RequirementIDs, Rows
  <2>3. row \in Rows
    BY <2>2, InputsAssumption DEF Rows
  <2>4. graph' = [graph EXCEPT !.row[r] = row]
    BY <2>1 DEF ProposedRequirement, Apply
  <2> HIDE DEF row
  <2> QED BY <1>0, <2>3, <2>4 DEF TypeOK, Graphs
<1>2. CASE Rejection
  <2>1. PICK r \in Requirements, replacedBy \in SUBSET Successors :
                 ProposedRejection(r, replacedBy)
    BY <1>2 DEF Rejection
  <2>2. graph'.row[q] = Superseded(q, r, replacedBy)
    BY <1>0, <2>1 DEF ProposedRejection, Apply, TypeOK, Graphs
  <2>3. Superseded(q, r, replacedBy) \in Rows
    BY <1>0, <2>1 DEF Superseded, Rows, RequirementStates
  <2> QED BY <1>0, <2>2, <2>3
<1>3. CASE Conflict \/ ConflictTransition \/ ConflictMemberUpdate
  <2>1. CASE Conflict
    BY <1>0, <2>1 DEF Conflict, ProposedConflict, Apply, TypeOK, Graphs
  <2>2. CASE ConflictTransition
    BY <1>0, <2>2 DEF ConflictTransition, ProposedConflictTransition, Apply, TypeOK, Graphs
  <2>3. CASE ConflictMemberUpdate
    BY <1>0, <2>3 DEF ConflictMemberUpdate, ProposedConflictMemberUpdate, Apply, TypeOK, Graphs
  <2> QED BY <1>3, <2>1, <2>2, <2>3
<1>4. CASE Stakeholder \/ Axis
  BY <1>0, <1>4 DEF Stakeholder, ProposedStakeholder, Axis, ProposedAxis, Apply, TypeOK, Graphs
<1>5. CASE HandEdit
  <2>1. ASSUME NEW r \in RequirementIDs(graph), NEW p \in Stakeholders,
               graph' = [graph EXCEPT !.row[r].owner = p]
        PROVE  graph'.row[q] # Missing
    <3>1. r \in Requirements /\ graph.row[r] \in Rows
      BY DEF RequirementIDs, TypeOK, Graphs
    <3>2. [graph.row[r] EXCEPT !.owner = p] \in Rows
      BY <3>1 DEF Rows
    <3> QED BY <1>0, <2>1, <3>1, <3>2 DEF TypeOK, Graphs
  <2> QED BY <1>0, <1>5, <2>1 DEF HandEdit, TypeOK, Graphs
<1> QED BY <1>1, <1>2, <1>3, <1>4, <1>5 DEF Next, Proposal

(* No proposal deletes a requirement or a conflict, and a signed conflict    *)
(* stays signed (R-rejected-preserved-not-deleted).                          *)
THEOREM NothingGoes == Spec => NothingIsLost
<1>1. TypeOK /\ TypeOK' /\ [Next]_graph =>
          [/\ RequirementIDs(graph) \subseteq RequirementIDs(graph')
           /\ \A t \in ConflictIDs(graph) :
                 /\ t \in ConflictIDs(graph')
                 /\ graph.conflict[t].signoff # Nobody
                        => graph'.conflict[t].signoff # Nobody]_graph
  <2> SUFFICES ASSUME TypeOK, TypeOK', Next, NEW t \in ConflictIDs(graph)
      PROVE  /\ t \in ConflictIDs(graph')
             /\ graph.conflict[t].signoff # Nobody => graph'.conflict[t].signoff # Nobody
    BY RequirementsStay
  <2>1. t \in Tensions /\ graph.conflict[t] \in Conflicts /\ graph.conflict[t] # Missing
    BY ConflictType DEF TypeOK, ConflictIDs
  <2>2. CASE graph'.conflict[t] = graph.conflict[t]
    BY <2>1, <2>2 DEF ConflictIDs
  <2>3. CASE Transited(t)
    <3>1. PICK l \in Lifecycles, d \in Stakeholders \cup {Nobody} :
              /\ graph'.conflict[t] = Moved(graph.conflict[t], l, d)
              /\ IsJudged(graph'.conflict[t]) => d # Nobody
      BY <2>3 DEF Transited
    <3>2. graph'.conflict[t] \in Conflicts
      BY <2>1, <3>1, MovedType
    <3>3. t \in ConflictIDs(graph')
      BY <2>1, <3>2, MarkersAssumption DEF ConflictIDs
    <3>4. graph'.conflict[t].signoff \in {d, graph.conflict[t].signoff}
          /\ (~IsJudged(graph'.conflict[t])
                => graph'.conflict[t].signoff = graph.conflict[t].signoff)
      BY <2>1, <3>1 DEF Moved, signed, Conflicts, IsJudged, IsDecided, IsHeld
    <3> QED BY <3>1, <3>3, <3>4
  <2>4. CASE Regrouped(t)
    <3>1. graph'.conflict[t] \in Conflicts /\ graph'.conflict[t].signoff = graph.conflict[t].signoff
      BY <2>1, <2>4 DEF Regrouped, Conflicts
    <3> QED BY <2>1, <3>1, MarkersAssumption DEF ConflictIDs
  <2> QED BY <2>1, <2>2, <2>3, <2>4, ConflictStep DEF Raised
<1>2. Spec => [][TypeOK /\ TypeOK' /\ [Next]_graph]_graph
  BY TypeCorrect, PTL DEF Spec
<1> QED BY <1>1, <1>2, PTL DEF NothingIsLost

(* The gate compares violations by their key, which holds the conflict they  *)
(* are reported under: a conflict that had none gets none, whatever else is  *)
(* broken in the graph (newViolationsSince).                                 *)
THEOREM SoundStaySound == Spec => ProposalsKeepSoundConflicts
<1>1. ASSUME NEW h, Apply(h), NEW t, Sound(graph, t) PROVE Sound(graph', t)
  <2> SUFFICES ASSUME NEW v \in AllViolations(h), v[2] = t PROVE FALSE
    BY <1>1 DEF Apply, Sound
  <2>1. \A w \in AllViolations(graph) : violationKey(w) # violationKey(v)
    BY <1>1 DEF Sound, violationKey
  <2> QED BY <1>1, <2>1 DEF Apply, newViolationsSince
<1>2. ASSUME Proposal PROVE \E h : Apply(h)
  BY <1>2 DEF Proposal, Requirement, ProposedRequirement, Rejection, ProposedRejection,
         Conflict, ProposedConflict, ConflictTransition, ProposedConflictTransition,
         ConflictMemberUpdate, ProposedConflictMemberUpdate,
         Stakeholder, ProposedStakeholder, Axis, ProposedAxis
<1>3. [Next]_graph =>
        [(\E t \in ConflictIDs(graph) : Sound(graph, t) /\ ~Sound(graph', t)) => ~Proposal]_graph
  BY <1>1, <1>2
<1> QED BY <1>3, PTL DEF Spec, ProposalsKeepSoundConflicts
=============================================================================
