------------------------------ MODULE SyncDomain ------------------------------
(***************************************************************************)
(* `hotam sync-domain`: the requirements written in a domain's code are    *)
(* projected onto graph.json.  A dry run presents the difference and a     *)
(* hash; a second run given that hash computes everything again, passes    *)
(* the gates and writes.  Between the two, and between the steps of one    *)
(* run (each of which builds and executes the domain's code), the code can *)
(* be edited; between runs other commands land into the graph.             *)
(*                                                                         *)
(* The write itself (snapshot, lock, regeneration, rollback) is module     *)
(* Land's subject: here it is the short path write, acknowledge, verify.   *)
(* `hotam sync-self` is the same command over the registry compiled into   *)
(* the binary, without stakeholders.                                       *)
(***************************************************************************)
EXTENDS AtomRegistry

CONSTANTS
    Manifests,  \* [full, authority, atoms]: discipline, claim_authority, self_executing_atoms
    Codes,      \* manifest -> the states the code of such a domain goes through
    Graphs,     \* manifest -> the graphs such a domain starts from
    Carriers,   \* the Conflicts the graph holds: [id, members]
    Flaky,      \* tests that can fail in one execution and pass in the next
    MaxEdits, MaxLands, MaxRuns  \* bounds: edits of the code, other landings, runs

\* A graph: its requirements have bodies, journals and signoffs.
IsTrail(h) == h \in Seq({h[i] : i \in DOMAIN h})
IsNode(n) ==
    /\ n = [body |-> n.body, history |-> n.history, signoffs |-> n.signoffs]
    /\ IsTrail(n.history)
IsGraph(g) ==
    /\ g = [reqs |-> g.reqs, people |-> g.people, open |-> g.open]
    /\ g.reqs = [id \in DOMAIN g.reqs |-> g.reqs[id]]
    /\ \A id \in DOMAIN g.reqs : IsNode(g.reqs[id])
    /\ g.open \subseteq Carriers

Fields == {"claim", "owner", "status", "prose", "subject", "tests", "uses", "order"}

\* A body has its fields, and a code has an answer for every test a body names.
IsBody(b, c) == DOMAIN b = Fields /\ b.tests \in Seq(DOMAIN c.titles)

ASSUME SyncAssumption ==
    /\ \A m \in Manifests : \A g \in Graphs[m] : IsGraph(g)
    /\ \A m \in Manifests : \A c \in Codes[m] :
          /\ \A t \in DOMAIN c.titles : IsTrail(c.titles[t])
          /\ \A d \in Codes[m] : \A id \in DOMAIN d.hand : IsBody(d.hand[id], c)
          /\ \A g \in Graphs[m] : \A id \in DOMAIN g.reqs : IsBody(g.reqs[id].body, c)
    /\ MaxEdits \in Nat /\ MaxLands \in Nat /\ MaxRuns \in Nat

VARIABLES
    manifest,
    code,
    graph,   \* [reqs: id -> [body, history, signoffs], people: id -> name, open: unresolved Conflicts]
    ticket,  \* what a dry run presented and its operator holds on to
    op,      \* the run under way, or how the last one ended
    edits, lands, runs

vars == <<manifest, code, graph, ticket, op, edits, lands, runs>>

-----------------------------------------------------------------------------
(* SyncGraph *)

Diffs(new, old) == {f \in Fields : new[f] # old[f]}

\* [ADDED] names an id only; [CHANGED] lists the fields with both values.
Report(g, reg) ==
    LET stale == {id \in DOMAIN reg \intersect DOMAIN g.reqs : Diffs(reg[id], g.reqs[id].body) # {}}
    IN  [added |-> DOMAIN reg \ DOMAIN g.reqs,
         changed |-> [id \in stale |-> [f \in Diffs(reg[id], g.reqs[id].body) |->
                                          [old |-> g.reqs[id].body[f], new |-> reg[id][f]]]]]

IsEmpty(report) == report.added = {} /\ DOMAIN report.changed = {}

Created(body) == [body |-> body, history |-> <<[by |-> "created"]>>, signoffs |-> {}]

Merged_KeepsUses(body, old) ==
    [old EXCEPT !.body = [body EXCEPT !.uses = old.body.uses],
                !.history = Append(@, [by |-> "sync", fields |-> [f \in Diffs(body, old.body) |-> body[f]]])]

Merged(body, old) ==
    [old EXCEPT !.body = body,
                !.history = Append(@, [by |-> "sync", fields |-> [f \in Diffs(body, old.body) |-> body[f]]])]

Projected(reqs, reg) ==
    [id \in DOMAIN reqs \union DOMAIN reg |->
        IF id \notin DOMAIN reg THEN reqs[id]
        ELSE IF id \notin DOMAIN reqs THEN Created(reg[id])
        ELSE IF Diffs(reg[id], reqs[id].body) = {} THEN reqs[id]
        ELSE Merged(reg[id], reqs[id])]

\* appendDomainStakeholders: a stakeholder the graph knows is never rewritten.
Unknown(g, people) == [p \in DOMAIN people \ DOMAIN g.people |-> people[p]]

WithPeople(g, people) ==
    [p \in DOMAIN g.people \union DOMAIN people |->
        IF p \in DOMAIN g.people THEN g.people[p] ELSE people[p]]

Synced(g, reg, people) ==
    [g EXCEPT !.reqs = Projected(g.reqs, reg), !.people = WithPeople(g, people)]

-----------------------------------------------------------------------------
(* The gates *)

Hash_DiffOnly(t) == <<t.report, t.people>>

\* The hash covers the bytes of graph.json, the report and the new people.
Hash(t) == <<t.base, t.report, t.people>>

NoAck == [conflict |-> None, decision |-> FALSE]
HasAck(ack) == ack # NoAck

Confronted_AddedOnly(report) == report.added

\* Gate 7 looks at added requirements and at changed claims.
Confronted(report) ==
    report.added \union {id \in DOMAIN report.changed : "claim" \in DOMAIN report.changed[id]}

Hits(g, id) == (UNION {c.members : c \in {c \in g.open : id \in c.members}}) \ {id}
Blockers(g, report) == {id \in Confronted(report) : Hits(g, id) # {}}

\* --ack-conflict has to name a Conflict behind every hit.
Covers(g, ack, ids) ==
    ack.conflict # None =>
        \A id \in ids : \A hit \in Hits(g, id) :
            \E c \in g.open : c.id = ack.conflict /\ {id, hit} \subseteq c.members

ConfrontPasses(g, report, ack) ==
    LET blockers == Blockers(g, report)
    IN  blockers # {} => HasAck(ack) /\ Covers(g, ack, blockers)

\* Gate 8 compares what the proposal gate's checks say before and after.
Scenario(test) == code.titles[test] # << >> \/ test \in code.proves

Violations(g) ==
    {<<"owner", id>> : id \in {id \in DOMAIN g.reqs : g.reqs[id].body.owner \notin DOMAIN g.people}}
    \union
    {<<"scenario", id>> : id \in {id \in DOMAIN g.reqs :
        LET body == g.reqs[id].body
        IN  /\ manifest.full /\ body.status = "SETTLED" /\ ~body.prose
            /\ body.subject = None \/ \A t \in ToSet(body.tests) : ~Scenario(t)}}

\* Gate 9: nothing of a requirement's journals is dropped or rewritten.
AppendOnly(old, new) ==
    \A id \in DOMAIN old.reqs :
        /\ id \in DOMAIN new.reqs
        /\ IsPrefix(old.reqs[id].history, new.reqs[id].history)
        /\ old.reqs[id].signoffs \subseteq new.reqs[id].signoffs

GatesPass(g, after, report, ack) ==
    /\ ConfrontPasses(after, report, ack)
    /\ Violations(after) \subseteq Violations(g)
    /\ AppendOnly(g, after)

\* check_claim_matches_scenario, which the proposal gate leaves out.
StaleClaims(g, bad) ==
    {id \in DOMAIN g.reqs :
        LET body == g.reqs[id].body
            claim == Narrated(code, bad, body.tests)
        IN  /\ InClaimScope(body)
            /\ IF manifest.atoms THEN AtomClaimIsStale(code, id, body)
               ELSE manifest.full /\ manifest.authority /\ claim # << >> /\ claim # body.claim}

\* gen-spec reads the registry and the atoms again, and mirrors them.
Regenerates(g, bad) ==
    manifest.atoms /\ DOMAIN g.reqs # {} =>
        LET found == DiscoverAtoms(code.hand, code, bad)
        IN  /\ code.builds /\ found.ok
            /\ DOMAIN found.reg \subseteq DOMAIN g.reqs
            /\ \A id \in DOMAIN g.reqs : g.reqs[id].body.status # "REJECTED" => id \in DOMAIN found.reg

Verifies_ProposalGate(g, bad) == Regenerates(g, bad) /\ Violations(g) = {}

Verifies(g, bad) == Regenerates(g, bad) /\ Violations(g) = {} /\ StaleClaims(g, bad) = {}

-----------------------------------------------------------------------------
(* One run *)

NoTicket == [base |-> None, report |-> None, people |-> None, reg |-> None]
Ended(how) == [at |-> how, token |-> NoTicket, ack |-> NoAck, before |-> None,
               hand |-> None, people |-> None, reg |-> None, bad |-> {}]
Endings == {"idle", "presented", "refused", "rolled back", "failed", "landed"}
Resting == op.at \in Endings

Init ==
    /\ manifest \in Manifests
    /\ code \in Codes[manifest]
    /\ graph \in Graphs[manifest]
    /\ ticket = NoTicket
    /\ op = Ended("idle")
    /\ edits = 0 /\ lands = 0 /\ runs = 0

Acks == [conflict : {c.id : c \in Carriers} \union {None}, decision : BOOLEAN]

\* The registry is dumped first.  A dump that fails, or outlives its
\* deadline, ends the run with an error.
Dump(token, ack) ==
    /\ Resting /\ runs < MaxRuns
    /\ runs' = runs + 1
    /\ op' = IF code.builds
             THEN [Ended("dumped") EXCEPT !.token = token, !.ack = ack, !.before = graph,
                                          !.hand = code.hand, !.people = code.people]
             ELSE Ended("refused")
    /\ UNCHANGED <<manifest, code, graph, ticket, edits, lands>>

Present == Dump(NoTicket, NoAck)
Confirm(ack) == ticket # NoTicket /\ Dump(ticket, ack)

\* Atoms are discovered, or claims derived, by executing the code as it now is.
Derive(bad) ==
    /\ op.at = "dumped"
    /\ LET found == DiscoverAtoms(op.hand, code, bad)
           lost == \E id \in DOMAIN op.before.reqs :
                      /\ op.before.reqs[id].body.status # "REJECTED"
                      /\ id \notin DOMAIN found.reg
           reg == IF manifest.atoms THEN found.reg
                  ELSE IF manifest.full THEN WithDerivedClaims(op.hand, code, bad) ELSE op.hand
       IN  op' = IF manifest.atoms /\ (~found.ok \/ lost) THEN Ended("refused")
                 ELSE [op EXCEPT !.at = "derived", !.reg = reg]
    /\ UNCHANGED <<manifest, code, graph, ticket, edits, lands, runs>>

After == Synced(op.before, op.reg, op.people)
Found == [base |-> graph, report |-> Report(op.before, op.reg),
          people |-> Unknown(op.before, op.people), reg |-> op.reg]

\* A dry run prints what it found, gates or no gates; its operator may keep
\* an earlier printout instead.
Show ==
    /\ op.at = "derived" /\ op.token = NoTicket
    /\ ticket' \in {ticket, Found}
    /\ op' = Ended("presented")
    /\ UNCHANGED <<manifest, code, graph, edits, lands, runs>>

\* A confirmation that has something to do, of what was presented, goes on.
Judge ==
    /\ op.at = "derived" /\ op.token # NoTicket
    /\ op' = IF /\ ~IsEmpty(Found.report) \/ DOMAIN Found.people # {}
                /\ Hash(op.token) = Hash(Found)
                /\ GatesPass(op.before, After, Found.report, op.ack)
             THEN [op EXCEPT !.at = "judged"] ELSE Ended("refused")
    /\ UNCHANGED <<manifest, code, graph, ticket, edits, lands, runs>>

\* WriteGraph, which can fail after it has renamed the new graph into place.
Write ==
    /\ op.at = "judged"
    /\ \/ graph' = After /\ op' = [op EXCEPT !.at = "written"]
       \/ graph' \in {graph, After} /\ op' = Ended("failed")
    /\ UNCHANGED <<manifest, code, ticket, edits, lands, runs>>

RollBack == graph' = op.before /\ op' = Ended("rolled back")

Acked_Rewrites(g, report, ack) ==
    [g EXCEPT !.reqs = [id \in DOMAIN @ |->
        IF id \in Blockers(g, report) THEN [@[id] EXCEPT !.history = <<[by |-> "ack", ack |-> ack]>>]
        ELSE @[id]]]

\* appendDomainSyncAckHistory, or a lock or history write that fails.
Acked(g, report, ack) ==
    LET flagged == Blockers(g, report)
    IN  [g EXCEPT !.reqs = [id \in DOMAIN g.reqs |->
            IF id \in flagged
            THEN [g.reqs[id] EXCEPT !.history = Append(@, [by |-> "ack", ack |-> ack])]
            ELSE g.reqs[id]]]

Acknowledge ==
    /\ op.at = "written"
    /\ \/ /\ graph' = IF HasAck(op.ack) THEN Acked(graph, op.token.report, op.ack) ELSE graph
          /\ op' = [op EXCEPT !.at = "acknowledged"]
       \/ RollBack
    /\ UNCHANGED <<manifest, code, ticket, edits, lands, runs>>

\* gen-spec, then every check: any violation rolls back.
Verify(bad) ==
    /\ op.at = "acknowledged"
    /\ IF Verifies(graph, bad)
       THEN op' = [op EXCEPT !.at = "landed", !.bad = bad] /\ UNCHANGED graph
       ELSE RollBack
    /\ UNCHANGED <<manifest, code, ticket, edits, lands, runs>>

Crash ==
    /\ ~Resting
    /\ op' = Ended("idle")
    /\ UNCHANGED <<manifest, code, graph, ticket, edits, lands, runs>>

-----------------------------------------------------------------------------
(* Everybody else *)

EditCode ==
    /\ edits < MaxEdits
    /\ code' \in Codes[manifest] \ {code}
    /\ edits' = edits + 1
    /\ UNCHANGED <<manifest, graph, ticket, op, lands, runs>>

SignedOff(node, signoff) ==
    [node EXCEPT !.history = Append(@, [by |-> "land"]), !.signoffs = @ \union {signoff}]

\* Between runs `hotam land` signs a requirement off, or opens or resolves a
\* Conflict, and leaves an entry in the journals it touches.
LandOther ==
    /\ Resting /\ lands < MaxLands
    /\ lands' = lands + 1
    /\ op' = Ended("idle")
    /\ \/ \E id \in DOMAIN graph.reqs :
            graph' = [graph EXCEPT !.reqs[id] = SignedOff(@, lands')]
       \/ \E c \in {c \in Carriers : c.members \subseteq DOMAIN graph.reqs} :
            graph' = [graph EXCEPT !.open = IF c \in @ THEN @ \ {c} ELSE @ \union {c}]
    /\ UNCHANGED <<manifest, code, ticket, edits, runs>>

Next ==
    \/ Present \/ \E ack \in Acks : Confirm(ack)
    \/ \E bad \in SUBSET Flaky : Derive(bad) \/ Verify(bad)
    \/ Show \/ Judge \/ Write \/ Acknowledge \/ Crash
    \/ EditCode \/ LandOther

Spec == Init /\ [][Next]_vars

-----------------------------------------------------------------------------
(* Properties *)

TypeOK ==
    /\ manifest \in Manifests /\ code \in Codes[manifest]
    /\ IsGraph(graph)
    /\ op = [at |-> op.at, token |-> op.token, ack |-> op.ack, before |-> op.before,
             hand |-> op.hand, people |-> op.people, reg |-> op.reg, bad |-> op.bad]
    /\ op.at \in Endings \union {"dumped", "derived", "judged", "written", "acknowledged"}
    /\ op.ack \in Acks \union {NoAck}
    /\ edits \in 0..MaxEdits /\ lands \in 0..MaxLands /\ runs \in 0..MaxRuns

Landed == op.at = "landed"

\* A landed sync leaves the graph saying what the code said: every requirement
\* of the registry is there with all its fields, every stakeholder is known,
\* and under atoms nothing that is not rejected stands without code.  It holds
\* across the claim derivation, the projection and the acknowledgements, which
\* each rewrite part of the same nodes.
LandedIsCode ==
    Landed =>
        /\ \A id \in DOMAIN op.reg :
              id \in DOMAIN graph.reqs /\ \A f \in Fields : graph.reqs[id].body[f] = op.reg[id][f]
        /\ DOMAIN op.people \subseteq DOMAIN graph.people
        /\ manifest.atoms =>
              \A id \in DOMAIN graph.reqs : graph.reqs[id].body.status # "REJECTED" => id \in DOMAIN op.reg

\* Whatever was edited or landed since the dry run, a landed sync changes the
\* graph that was presented, in the requirements, the fields and the
\* stakeholders that were presented, and nothing else but the journals.
OnlyPresentedChanges ==
    Landed =>
        LET t == op.token
        IN  /\ DOMAIN graph.reqs = DOMAIN t.base.reqs \union t.report.added
            /\ \A id \in DOMAIN t.base.reqs : \A f \in Fields :
                  graph.reqs[id].body[f] =
                      IF id \in DOMAIN t.report.changed /\ f \in DOMAIN t.report.changed[id]
                      THEN t.report.changed[id][f].new ELSE t.base.reqs[id].body[f]
            /\ \A id \in DOMAIN t.base.reqs : id \notin DOMAIN t.report.changed =>
                  graph.reqs[id] = t.base.reqs[id]
            /\ \A p \in DOMAIN graph.people :
                  graph.people[p] = IF p \in DOMAIN t.base.people THEN t.base.people[p] ELSE t.people[p]

\* A claim that changed under an unresolved Conflict landed only with a
\* decision on record: the requirement's history ends with the
\* acknowledgement, which cites that Conflict or a human's decision.
ConflictsAcknowledged ==
    Landed =>
        \A c \in graph.open, id \in DOMAIN op.before.reqs :
            /\ id \in c.members
            /\ c.members # {id}
            /\ graph.reqs[id].body.claim # op.before.reqs[id].body.claim
            => /\ Last(graph.reqs[id].history).by = "ack"
               /\ \/ Last(graph.reqs[id].history).ack.decision
                  \/ \E d \in graph.open : /\ d.id = Last(graph.reqs[id].history).ack.conflict
                                           /\ id \in d.members

\* No step of a run drops or rewrites a history entry, a signoff or a
\* stakeholder, or loses a requirement, except a rollback, which restores the
\* graph the run began with.
JournalsSurvive ==
    [][\/ op'.at = "rolled back" /\ graph' = op.before
       \/ /\ AppendOnly(graph, graph')
          /\ \A p \in DOMAIN graph.people : p \in DOMAIN graph'.people /\ graph'.people[p] = graph.people[p]]_vars

\* In a domain whose claims belong to its scenarios, the claims a sync lands
\* are those its tests narrated in the run that verified them: an edit of a
\* test after the registry was derived, or a test that failed once, does not
\* slip a shortened or outdated claim through.
ClaimsAreNarrated ==
    [][Landed' /\ ~Landed /\ manifest.full /\ manifest.authority /\ ~manifest.atoms =>
         \A id \in DOMAIN graph'.reqs :
            LET body == graph'.reqs[id].body
                told == FlattenSeq([n \in DOMAIN body.tests |->
                                      TitlesOf(code, op'.bad, body.tests[n])])
            IN  InClaimScope(body) /\ told # << >> => body.claim = told]_vars

=============================================================================
