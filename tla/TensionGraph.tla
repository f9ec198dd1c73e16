----------------------------- MODULE TensionGraph -----------------------------
(***************************************************************************)
(* The part of graph.json that decides who may decide: requirements with   *)
(* their owners, the conflicts between them, the stakeholders and the axes,*)
(* under the proposals that change them (internal/proposal) and the        *)
(* invariant checks that guard every proposal (internal/invariants).       *)
(*                                                                         *)
(* A conflict is known by its tension, the pair of axis and context it was *)
(* raised on: its id is a hash of the two.  Claims, dates and texts are    *)
(* left out; the conflict gate in front of a requirement proposal asks for *)
(* evidence somebody may always give and is part of the module Land.       *)
(***************************************************************************)
EXTENDS FiniteSets, Integers

CONSTANTS
    Requirements,   \* R- ids
    Stakeholders,   \* names a proposal may give as owner, resolver or decider
    Founders,       \* the stakeholders of the initial graph
    Axes,           \* slugs a conflict may be raised on
    DeclaredAxes,   \* the axes of the initial graph
    Contexts,
    Successors,     \* requirements a relations or replaced_by list may name
    Statuses,       \* the statuses a requirement proposal may give
    HandEdits,      \* BOOLEAN: people edit graph.json past the proposals
    Nobody,         \* an empty decided_by, no signoff
    Missing         \* no such requirement, no such conflict

Tensions == Axes \X Contexts

RequirementStates == {"DRAFT", "SETTLED", "OPEN", "REJECTED"}
ConflictStates == {"DETECTED", "ACKNOWLEDGED", "DECIDED", "REVISIT_WHEN", "HELD"}

(* What a proposal may write into lifecycle: the states, a decision without *)
(* its rationale, and a word that only begins like one.                     *)
Lifecycles == ConflictStates \cup {"DECIDED()", "DECIDEDLY"}

Rows == [owner : Stakeholders, status : RequirementStates, replaces : SUBSET Requirements]
Conflicts == [members : SUBSET Requirements, resolver : Stakeholders,
              lifecycle : Lifecycles, decidedBy : Stakeholders \cup {Nobody},
              signoff : Stakeholders \cup {Nobody}]

ASSUME InputsAssumption ==
    /\ Founders \subseteq Stakeholders /\ DeclaredAxes \subseteq Axes
    /\ Successors \subseteq Requirements /\ Statuses \subseteq RequirementStates
    /\ HandEdits \in BOOLEAN

ASSUME FiniteAssumption == IsFiniteSet(Requirements)

ASSUME MarkersAssumption ==
    /\ Nobody \notin Stakeholders
    /\ Missing \notin Rows \cup Conflicts

VARIABLE graph      \* the graph of the last successful command

Graphs == [row : [Requirements -> Rows \cup {Missing}],
           conflict : [Tensions -> Conflicts \cup {Missing}],
           people : SUBSET Stakeholders,
           axes : SUBSET Axes]

Init == graph = [row |-> [r \in Requirements |-> Missing],
                 conflict |-> [t \in Tensions |-> Missing],
                 people |-> Founders, axes |-> DeclaredAxes]

RequirementIDs(g) == {r \in Requirements : g.row[r] # Missing}
ConflictIDs(g) == {t \in Tensions : g.conflict[t] # Missing}

IsUnresolved(c) == c.lifecycle \in {"DETECTED", "ACKNOWLEDGED"}
IsDecided(c) == c.lifecycle \in {"DECIDED", "DECIDED()", "DECIDEDLY"}
IsHeld(c) == c.lifecycle = "HELD"
IsJudged(c) == IsDecided(c) \/ IsHeld(c)

memberOwners(g, c) == {g.row[m].owner : m \in c.members \cap RequirementIDs(g)}

-----------------------------------------------------------------------------
(* The checks, each a set of <<check, anchor, what>>: the anchor is the id  *)
(* the violation is reported under, what tells two messages apart.          *)
danglingOwners(g) ==
    {<<"requirement_owner", r, g.row[r].owner>> :
        r \in {q \in RequirementIDs(g) : g.row[q].owner \notin g.people}}

danglingRelations(g) ==
    UNION {{<<"requirement_relations", r, s>> : s \in g.row[r].replaces \ RequirementIDs(g)} :
        r \in RequirementIDs(g)}

danglingConflictRefs(g) ==
    UNION {{<<"conflict_refs", t, x>> :
               x \in ({g.conflict[t].resolver, g.conflict[t].decidedBy}
                         \ (g.people \cup {Nobody}))
                     \cup (g.conflict[t].members \ RequirementIDs(g))} :
        t \in ConflictIDs(g)}

fewMembers(g) == {t \in ConflictIDs(g) : Cardinality(g.conflict[t].members) < 2}

axisUnregistered(g) == {t \in ConflictIDs(g) : t[1] \notin g.axes}

lifecycleUnknown(g) == {t \in ConflictIDs(g) : g.conflict[t].lifecycle = "DECIDEDLY"}

resolverInsideWhileOpen(g) ==
    {t \in ConflictIDs(g) : /\ IsUnresolved(g.conflict[t])
                            /\ g.conflict[t].resolver \in memberOwners(g, g.conflict[t])}

resolverInside(g) ==
    {t \in ConflictIDs(g) : g.conflict[t].resolver \in memberOwners(g, g.conflict[t])}

rationaleMissing(g) == {t \in ConflictIDs(g) : g.conflict[t].lifecycle = "DECIDED()"}

(* The three checks of a decision, each in its DECIDED and its HELD form. *)
deciderMissing(g) ==
    {t \in ConflictIDs(g) : IsJudged(g.conflict[t]) /\ g.conflict[t].decidedBy = Nobody}

deciderUnknown(g) ==
    {t \in ConflictIDs(g) : /\ IsJudged(g.conflict[t])
                            /\ g.conflict[t].decidedBy \notin g.people \cup {Nobody}}

deciderInsideDecided(g) ==
    {t \in ConflictIDs(g) : /\ IsDecided(g.conflict[t])
                            /\ g.conflict[t].decidedBy \in g.people
                            /\ g.conflict[t].decidedBy \in memberOwners(g, g.conflict[t])}

deciderInside(g) ==
    {t \in ConflictIDs(g) : /\ IsJudged(g.conflict[t])
                            /\ g.conflict[t].decidedBy \in g.people
                            /\ g.conflict[t].decidedBy \in memberOwners(g, g.conflict[t])}

Found(check, T) == {<<check, t, t>> : t \in T}

AllViolations(g) ==
    danglingOwners(g) \cup danglingRelations(g) \cup danglingConflictRefs(g)
    \cup Found("min_two_members", fewMembers(g))
    \cup Found("axis_in_registry", axisUnregistered(g))
    \cup Found("lifecycle_in_lifecycle", lifecycleUnknown(g))
    \cup Found("resolver_not_a_member_owner", resolverInside(g))
    \cup Found("rationale_or_derived", rationaleMissing(g))
    \cup Found("nonempty_decided_by", deciderMissing(g))
    \cup Found("decided_by_is_known", deciderUnknown(g))
    \cup Found("decided_by_not_member_owner", deciderInside(g))

violationKey(v) == <<v[1], v[2]>>

newViolationsByNumber(g, h) ==
    {v \in AllViolations(h) : Cardinality(AllViolations(h)) > Cardinality(AllViolations(g))}

newViolationsSince(g, h) ==
    {v \in AllViolations(h) : violationKey(v) \notin {violationKey(w) : w \in AllViolations(g)}}

(* applyToGraph: the mutated graph is kept only if no violation is new. *)
Apply(h) == newViolationsSince(graph, h) = {} /\ graph' = h

-----------------------------------------------------------------------------
(* Create, or update with patch semantics: owner and status are always      *)
(* overwritten, an empty relations list keeps the old edges.                *)
ProposedRequirement(r, owner, status, relations) ==
    LET old == IF r \in RequirementIDs(graph) THEN graph.row[r].replaces ELSE {}
    IN  Apply([graph EXCEPT !.row[r] =
            [owner |-> owner, status |-> status,
             replaces |-> IF relations = {} THEN old ELSE relations]])

(* Rejected requirements stay; each successor gets an edge to this one.     *)
Superseded(q, r, replacedBy) ==
    IF q \notin {r} \cup replacedBy THEN graph.row[q]
    ELSE [graph.row[q] EXCEPT !.status = IF q = r THEN "REJECTED" ELSE @,
                              !.replaces = IF q \in replacedBy THEN @ \cup {r} ELSE @]

ProposedRejection(r, replacedBy) ==
    /\ r \in RequirementIDs(graph) /\ replacedBy \subseteq RequirementIDs(graph)
    /\ Apply([graph EXCEPT !.row = [q \in Requirements |-> Superseded(q, r, replacedBy)]])

(* The founders of a graph may still be missing: then any resolver will do  *)
(* here, and the dangling reference is left to the checks.                  *)
ProposedConflict(t, members, resolver, lifecycle, decidedBy) ==
    LET c == [members |-> members, resolver |-> resolver, lifecycle |-> lifecycle,
              decidedBy |-> decidedBy, signoff |-> Nobody]
    IN  /\ Cardinality(members) >= 2
        /\ lifecycle = "DETECTED" \/ (IsDecided(c) /\ decidedBy # Nobody)
        /\ t \notin ConflictIDs(graph) /\ t[1] \in graph.axes
        /\ members \subseteq RequirementIDs(graph)
        /\ resolver \notin memberOwners(graph, c)
        /\ graph.people # {} => resolver \in graph.people
        /\ Apply([graph EXCEPT !.conflict[t] = c])

(* A decision is signed by its decider; any other move keeps the signoff of *)
(* the last one.  The present lifecycle is not asked.                       *)
signedDecided(c) == IF IsDecided(c) THEN [c EXCEPT !.signoff = c.decidedBy] ELSE c

signedWithLifecycle(c) == IF IsJudged(c) THEN [c EXCEPT !.signoff = c.lifecycle] ELSE c

signed(c) == IF IsJudged(c) THEN [c EXCEPT !.signoff = c.decidedBy] ELSE c

MovedFresh(c, lifecycle, decidedBy) ==
    signed([c EXCEPT !.lifecycle = lifecycle, !.decidedBy = decidedBy, !.signoff = Nobody])

Moved(c, lifecycle, decidedBy) ==
    signed([c EXCEPT !.lifecycle = lifecycle, !.decidedBy = decidedBy])

ProposedConflictTransition(t, lifecycle, decidedBy) ==
    /\ t \in ConflictIDs(graph)
    /\ LET c == Moved(graph.conflict[t], lifecycle, decidedBy)
       IN  /\ IsJudged(c) => decidedBy # Nobody
           /\ Apply([graph EXCEPT !.conflict[t] = c])

ProposedConflictMemberUpdate(t, add, remove) ==
    /\ t \in ConflictIDs(graph) /\ add \cup remove # {}
    /\ LET kept == (graph.conflict[t].members \ remove) \cup add
       IN  /\ Cardinality(kept) >= 2
           /\ Apply([graph EXCEPT !.conflict[t].members = kept])

ProposedStakeholder(p) ==
    p \notin graph.people /\ Apply([graph EXCEPT !.people = @ \cup {p}])

(* An axis that exists has its description updated. *)
ProposedAxis(a) == Apply([graph EXCEPT !.axes = @ \cup {a}])

(* graph.json is a text file: people also edit it past the proposals, and   *)
(* the loader checks shapes, not references.                                *)
HandEdit ==
    /\ HandEdits
    /\ \/ \E p \in graph.people : graph' = [graph EXCEPT !.people = @ \ {p}]
       \/ \E r \in RequirementIDs(graph), p \in Stakeholders :
              graph' = [graph EXCEPT !.row[r].owner = p]

Requirement ==
    \E r \in Requirements, owner \in Stakeholders, status \in Statuses,
       relations \in SUBSET Successors :
           ProposedRequirement(r, owner, status, relations)
Rejection ==
    \E r \in Requirements, replacedBy \in SUBSET Successors : ProposedRejection(r, replacedBy)
Conflict ==
    \E t \in Tensions, members \in SUBSET Requirements, resolver \in Stakeholders,
       lifecycle \in Lifecycles, decidedBy \in Stakeholders \cup {Nobody} :
           ProposedConflict(t, members, resolver, lifecycle, decidedBy)
ConflictTransition ==
    \E t \in Tensions, lifecycle \in Lifecycles, decidedBy \in Stakeholders \cup {Nobody} :
        ProposedConflictTransition(t, lifecycle, decidedBy)
ConflictMemberUpdate ==
    \E t \in Tensions, add \in SUBSET Requirements, remove \in SUBSET Requirements :
        ProposedConflictMemberUpdate(t, add, remove)
Stakeholder == \E p \in Stakeholders : ProposedStakeholder(p)
Axis == \E a \in Axes : ProposedAxis(a)

Proposal == Requirement \/ Rejection \/ Conflict \/ ConflictTransition
            \/ ConflictMemberUpdate \/ Stakeholder \/ Axis
Next == Proposal \/ HandEdit

Spec == Init /\ [][Next]_graph

-----------------------------------------------------------------------------
TypeOK == graph \in Graphs

(* A conflict is judged from outside: its resolver, and whoever decided or   *)
(* held it, is a known stakeholder who owns none of its members, however the *)
(* owners, the members and the decision have changed since                   *)
(* (check_resolver_not_a_member_owner, check_decided_by_not_member_owner and *)
(* their kin, under every proposal).                                         *)
Outside(g, c, p) == p \in g.people /\ p \notin memberOwners(g, c)
JudgedFromOutside ==
    \A t \in ConflictIDs(graph) :
        LET c == graph.conflict[t]
        IN  /\ Cardinality(c.members \cap RequirementIDs(graph)) >= 2
            /\ Outside(graph, c, c.resolver)
            /\ IsJudged(c) => Outside(graph, c, c.decidedBy)

(* No conflict is stuck: whatever happened to it, the resolver can decide it *)
(* with a rationale and no check refuses the decision (R-decided-needs-      *)
(* human-signoff leaves an act for a human; the gate must not take it away). *)
ResolverCanDecide ==
    \A t \in ConflictIDs(graph) :
        newViolationsSince(graph, [graph EXCEPT !.conflict[t] =
            Moved(@, "DECIDED", @.resolver)]) = {}

(* A signoff in force names the decider in force: a conflict that is decided *)
(* or held shows either no signoff (it was created decided) or that of the   *)
(* decider it names (ProposedConflictTransition.mutate).                     *)
SignoffNamesDecider ==
    \A t \in ConflictIDs(graph) :
        LET c == graph.conflict[t]
        IN  IsJudged(c) => c.signoff \in {Nobody, c.decidedBy}

(* Nothing is deleted: a requirement or a conflict once in the graph stays,  *)
(* and a signed conflict never becomes unsigned again (R-rejected-preserved- *)
(* not-deleted; every proposal writes over a row, none removes one).         *)
NothingIsLost == [][
    /\ RequirementIDs(graph) \subseteq RequirementIDs(graph')
    /\ \A t \in ConflictIDs(graph) :
          /\ t \in ConflictIDs(graph')
          /\ graph.conflict[t].signoff # Nobody => graph'.conflict[t].signoff # Nobody]_graph

(* In a graph somebody damaged by hand, a proposal harms no conflict that is *)
(* sound: the checks compare violations conflict by conflict (violationKey), *)
(* so a violation elsewhere never excuses one here.                          *)
Sound(g, t) == \A v \in AllViolations(g) : v[2] # t
ProposalsKeepSoundConflicts == [][
    (\E t \in ConflictIDs(graph) : Sound(graph, t) /\ ~Sound(graph', t)) => ~Proposal]_graph

=============================================================================
