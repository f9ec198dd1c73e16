------------------------- MODULE RequirementRecord -------------------------
(***************************************************************************)
(* One requirement of graph.json with the trail of its changes: the patch  *)
(* rules of the proposals that write it (internal/proposal/mutate.go), the *)
(* History entry each of them derives (history.go) and the checks on the   *)
(* record (internal/invariants) that may refuse the result.                *)
(*                                                                         *)
(* Fields that follow the rule of one that is here are left out:           *)
(* review_after is dated like last_reviewed_at, implemented_by and         *)
(* verified_by are cleared like enforced_by.  A list is the set of its     *)
(* members, a date the number of a day, 0 a date that is not given.        *)
(***************************************************************************)
EXTENDS Integers, Sequences

CONSTANTS
    Claims,
    Statuses,       \* what a proposal may write into status
    Enforcements,   \* what it may write into enforcement, "" is omitted
    EnforcerLists,  \* what it may write into enforced_by, {} is omitted
    Enforcers,      \* the names that resolve to a check or a Go test
    Clear,          \* the sentinel "<clear>"
    SettledDates,   \* what it may write into settled_at
    ReviewDates,    \* what it may write into last_reviewed_at
    EvidenceLists,  \* what it may write into evidence
    Days,           \* what --today may say
    Stakeholders,   \* the known ones
    Deciders,       \* the names a signoff may give
    Stages,         \* gate_stage_order of the manifest, a sequence
    StageNames,     \* the stages a gate signoff may name
    Runs,           \* pipeline runs
    Batches,        \* the lengths of a gate signoff batch
    MaxHistory, MaxGates,   \* bounds on the record
    Nobody,         \* no signoff
    Missing         \* no such requirement yet

RequirementStates == {"DRAFT", "SETTLED", "OPEN", "REJECTED"}
EnforcementLevels == {"PROSE", "STRUCTURAL", "ENFORCED"}

ASSUME DatesAssumption == Days \subseteq Nat \ {0} /\ SettledDates \cup ReviewDates \subseteq Nat
ASSUME InputsAssumption ==
    /\ Statuses \subseteq RequirementStates
    /\ Enforcements \subseteq EnforcementLevels \cup {""}
    /\ Stakeholders \subseteq Deciders /\ Nobody \notin Deciders
    /\ Clear \notin Enforcers
    /\ Batches \subseteq Nat \ {0}
    /\ Stages \in Seq({Stages[i] : i \in DOMAIN Stages})

(* No check reads the stage, the run or the decider of a deferral.          *)
Entries == [stage : StageNames, state : {"SIGNED"}, run : Runs, by : Deciders \cup {Nobody}]
           \cup [state : {"DEFERRED"}]

Fields == {"claim", "status", "enforcement", "enforced_by", "settled_at",
           "last_reviewed_at", "evidence", "gate_signoffs"}

Rows == [claim : Claims, status : RequirementStates, enforcement : EnforcementLevels,
         enforced_by : SUBSET UNION EnforcerLists, settled_at : Nat, last_reviewed_at : Nat,
         evidence : SUBSET UNION EvidenceLists, gate_signoffs : Seq(Entries)]

ASSUME MissingAssumption == Missing \notin Rows

(* A requirement proposal; gate_signoffs and history are not among its keys. *)
Proposals == [claim : Claims, status : Statuses, enforcement : Enforcements,
              enforced_by : EnforcerLists, settled_at : SettledDates,
              last_reviewed_at : ReviewDates, evidence : EvidenceLists]

VARIABLES
    row,        \* the requirement in the graph
    history,    \* its trail
    born        \* what its creation wrote; no file keeps it

vars == <<row, history, born>>

Init == row = Missing /\ born = Missing /\ history = <<>>

-----------------------------------------------------------------------------
(* The trail. *)

summarizeFieldDiffUndated(old, new) ==
    [f \in {g \in Fields \ {"settled_at"} : old[g] # new[g]} |-> <<old[f], new[f]>>]

(* The fields that differ, each with its old and its new value.             *)
summarizeFieldDiff(old, new) ==
    [f \in {g \in Fields : old[g] # new[g]} |-> <<old[f], new[f]>>]

(* A change is narrated; a signoff is recorded even if nothing changed.     *)
narrated(old, new, today, by) ==
    LET summary == summarizeFieldDiff(old, new)
    IN  IF DOMAIN summary = {} /\ by = Nobody THEN history
        ELSE Append(history, [at |-> today, by |-> by, summary |-> summary])

-----------------------------------------------------------------------------
(* The checks.  All of them report under the id of this requirement, so the *)
(* name of the check is the key of its violation.                           *)
historyDated(h) == \A i \in DOMAIN h : h[i].at # 0

historyWellformed(h) ==
    \A i \in 1..Len(h) - 1 : h[i].at <= h[i + 1].at

enforcedNamesSomebody(r) ==
    /\ r.enforcement \in EnforcementLevels
    /\ r.enforcement = "ENFORCED" => r.enforced_by # {}

enforcedByResolvable(r) ==
    r.status = "SETTLED" /\ r.enforcement = "ENFORCED" => r.enforced_by \subseteq Enforcers

SignedStages(r, run) ==
    {r.gate_signoffs[i].stage : i \in {j \in DOMAIN r.gate_signoffs :
        r.gate_signoffs[j].state = "SIGNED" /\ r.gate_signoffs[j].run = run}}

(* A stage that is named twice stands at its last place.                    *)
stageIndex(stage, n) == Stages[n] = stage /\ \A m \in n + 1 .. Len(Stages) : Stages[m] # stage

(* Every signed stage is in the order and has every place before its own    *)
(* signed in the same run.  A domain without a stage order is not asked.    *)
gateSignoffMonotonic(r) ==
    Stages # <<>> => \A run \in Runs : \A stage \in SignedStages(r, run) :
        \E n \in DOMAIN Stages :
            /\ stageIndex(stage, n)
            /\ \A m \in 1..n : \E earlier \in SignedStages(r, run) : stageIndex(earlier, m)

gateDeciderKnown(r) ==
    \A i \in DOMAIN r.gate_signoffs :
        r.gate_signoffs[i].state = "SIGNED" => r.gate_signoffs[i].by \in Stakeholders

Found(check, holds) == IF holds THEN {} ELSE {check}

AllViolations(r, h) ==
    IF r = Missing THEN {}
    ELSE Found("history_wellformed", historyWellformed(h))
         \cup Found("enforced_names_invariant", enforcedNamesSomebody(r))
         \cup Found("enforced_by_resolvable", enforcedByResolvable(r))
         \cup Found("gate_signoff_monotonic", gateSignoffMonotonic(r))
         \cup Found("gate_signoff_decided_by_is_known", gateDeciderKnown(r))

(* applyToGraph: the mutated record is kept only if no violation is new.    *)
Apply(r, h) ==
    /\ \A v \in AllViolations(r, h) : v \in AllViolations(row, history)
    /\ row' = r /\ history' = h

-----------------------------------------------------------------------------
(* The patch rules: an empty value keeps the old one. *)
coalesceStr(new, old) == IF new = "" THEN old ELSE new
coalesceDate(new, old) == IF new = 0 THEN old ELSE new
coalesceSlice(new, old) == IF new = {} THEN old ELSE new
resolveEnforcedByIfSet(new, old) ==
    IF new = {Clear} /\ old # {} THEN {} ELSE coalesceSlice(new, old)

resolveEnforcedBy(new, old) == IF new = {Clear} THEN {} ELSE coalesceSlice(new, old)

settledAtWhileSettled(p, old, today) ==
    IF p.settled_at # 0 THEN p.settled_at
    ELSE IF p.status = "SETTLED" THEN today
    ELSE old.settled_at

(* The day it was decided: given, or stamped when it becomes SETTLED.       *)
settledAt(p, old, today) ==
    IF p.settled_at # 0 THEN p.settled_at
    ELSE IF p.status = "SETTLED" /\ old.status # "SETTLED" THEN today
    ELSE old.settled_at

validate(p) ==
    /\ Clear \in p.enforced_by => p.enforced_by = {Clear}
    /\ p.last_reviewed_at # 0 => p.evidence # {}

updated(old, p, today) ==
    [claim |-> p.claim, status |-> p.status,
     enforcement |-> coalesceStr(p.enforcement, old.enforcement),
     enforced_by |-> resolveEnforcedBy(p.enforced_by, old.enforced_by),
     settled_at |-> settledAt(p, old, today),
     last_reviewed_at |-> coalesceDate(p.last_reviewed_at, old.last_reviewed_at),
     evidence |-> coalesceSlice(p.evidence, old.evidence),
     gate_signoffs |-> old.gate_signoffs]

created(p, today) ==
    [claim |-> p.claim, status |-> p.status,
     enforcement |-> coalesceStr(p.enforcement, "PROSE"),
     enforced_by |-> p.enforced_by,
     settled_at |-> IF p.status = "SETTLED" THEN coalesceDate(p.settled_at, today)
                    ELSE p.settled_at,
     last_reviewed_at |-> p.last_reviewed_at,
     evidence |-> p.evidence,
     gate_signoffs |-> <<>>]

resolveUnchecked(signoff) == signoff \in Deciders \cup {Nobody}

resolveHistorySignoff(signoff) == signoff \in Stakeholders \cup {Nobody}

(* A signoff decides about an existing requirement; a new one has none.     *)
CreateRequirement(p, signoff, today) ==
    /\ row = Missing /\ validate(p) /\ signoff = Nobody
    /\ Apply(created(p, today), <<>>)
    /\ born' = row'

UpdateRequirement(p, signoff, today) ==
    /\ row # Missing /\ validate(p) /\ resolveHistorySignoff(signoff)
    /\ LET new == updated(row, p, today)
       IN  Apply(new, narrated(row, new, today, signoff))
    /\ UNCHANGED born

(* A rejection leaves no entry in the trail. *)
ProposedRejection ==
    /\ row # Missing
    /\ Apply([row EXCEPT !.status = "REJECTED"], history)
    /\ UNCHANGED born

reviewed(reviewedAt, evidence, today) ==
    [row EXCEPT !.last_reviewed_at = coalesceDate(reviewedAt, today), !.evidence = evidence]

ProposedReviewMark(reviewedAt, evidence, today) ==
    /\ row # Missing /\ evidence # {}
    /\ LET new == reviewed(reviewedAt, evidence, today)
       IN  Apply(new, narrated(row, new, today, Nobody))
    /\ UNCHANGED born

(* The entries are appended one by one, each with its own entry in the      *)
(* trail, and the checks judge the whole batch.                             *)
narratedBatch(entries, today) ==
    LET gates == row.gate_signoffs
    IN  [i \in 1..Len(entries) |-> [at |-> today, by |-> Nobody,
            summary |-> [f \in {"gate_signoffs"} |->
                <<gates \o SubSeq(entries, 1, i - 1), gates \o SubSeq(entries, 1, i)>>]]]

ProposedGateSignoffBatch(entries, today) ==
    /\ row # Missing
    /\ \A i \in DOMAIN entries : entries[i].state = "SIGNED" => entries[i].by # Nobody
    /\ Len(row.gate_signoffs) + Len(entries) <= MaxGates
    /\ Apply([row EXCEPT !.gate_signoffs = @ \o entries],
             history \o narratedBatch(entries, today))
    /\ UNCHANGED born

Requirement == \E p \in Proposals, signoff \in Deciders \cup {Nobody}, today \in Days :
    CreateRequirement(p, signoff, today) \/ UpdateRequirement(p, signoff, today)
ReviewMark == \E reviewedAt \in ReviewDates, evidence \in EvidenceLists, today \in Days :
    ProposedReviewMark(reviewedAt, evidence, today)
GateSignoffBatch == \E n \in Batches : \E entries \in [1..n -> Entries], today \in Days :
    ProposedGateSignoffBatch(entries, today)

Rejection == ProposedRejection

(* A full trail ends the experiment; a rejection adds nothing to it.        *)
Next == \/ Rejection
        \/ /\ Len(history) < MaxHistory
           /\ Requirement \/ ReviewMark \/ GateSignoffBatch

Spec == Init /\ [][Next]_vars

-----------------------------------------------------------------------------
TypeOK ==
    /\ row \in Rows \cup {Missing} /\ born \in Rows \cup {Missing}
    /\ row = Missing <=> born = Missing
    /\ row = Missing => history = <<>>
    /\ \A i \in DOMAIN history :
          /\ history[i].at \in Days /\ history[i].by \in Stakeholders \cup {Nobody}
          /\ DOMAIN history[i].summary \subseteq Fields

(* After its first n entries the trail h says that field f has value v: the  *)
(* last entry to mention f wrote v, or none does and the creation, b, did.   *)
Mentions(e, f) == f \in DOMAIN e.summary
Says(h, b, f, v, n) ==
    \/ v = b[f] /\ \A i \in 1..n : ~Mentions(h[i], f)
    \/ \E i \in 1..n : /\ Mentions(h[i], f) /\ v = h[i].summary[f][2]
                      /\ \A j \in i + 1 .. n : ~Mentions(h[j], f)

(* The trail explains the record: replayed from the creation, every entry    *)
(* starts where the one before it ended and the last one ends at the record. *)
(* Only a rejection, which writes no entry, may come between (mutate.go 605, *)
(* summarizeFieldDiff).                                                      *)
Explained(h, b, f, v, n) == Says(h, b, f, v, n) \/ (f = "status" /\ v = "REJECTED")
Explains(h, b, r) ==
    /\ \A f \in Fields : Explained(h, b, f, r[f], Len(h))
    /\ \A i \in DOMAIN h : \A f \in DOMAIN h[i].summary :
           Explained(h, b, f, h[i].summary[f][1], i - 1)
TrailExplainsRecord == row # Missing => Explains(history, born, row)

(* The date of a settled requirement is that of its decision: given by       *)
(* somebody, that of its creation, or that of an entry that made it SETTLED, *)
(* and never that of an edit after it (ProposedRequirement.mutate stamps the *)
(* transition, not the status every update resends).                         *)
SettledBy(e) == "status" \in DOMAIN e.summary /\ e.summary["status"][2] = "SETTLED"
OnItsDay(r, h, b) ==
    r.status = "SETTLED" =>
        /\ r.settled_at # 0
        /\ \/ r.settled_at \in SettledDates
           \/ b.status = "SETTLED" /\ r.settled_at = b.settled_at
           \/ \E i \in DOMAIN h : SettledBy(h[i]) /\ r.settled_at = h[i].at
SettledOnItsDay == row # Missing => OnItsDay(row, history, born)

(* An update repeated, on that day or a later one, changes nothing: whoever  *)
(* does not know whether a command landed may run it again.  (With a signoff *)
(* it records the signoff once more.)                                        *)
RetryChangesNothing ==
    row # Missing =>
        \A p \in Proposals, today \in Days :
            LET once == updated(row, p, today)
            IN  validate(p) => \A later \in Days : updated(once, p, later) = once

(* What is SETTLED and ENFORCED names an enforcer, and one that exists, in   *)
(* whatever order status, enforcement and enforced_by were written.          *)
EnforcedIsReal ==
    row # Missing /\ row.status = "SETTLED" /\ row.enforcement = "ENFORCED" =>
        row.enforced_by # {} /\ row.enforced_by \subseteq Enforcers

(* No gate is passed on an earlier day than a gate before it: the order of   *)
(* the stages holds along the dates of the trail, not only in the end.       *)
SignedOn(i) == history[CHOOSE k \in DOMAIN history :
    /\ "gate_signoffs" \in DOMAIN history[k].summary
    /\ Len(history[k].summary["gate_signoffs"][2]) = i].at
Signed(i, stage, run) ==
    LET e == row.gate_signoffs[i]
    IN  e.state = "SIGNED" /\ e.stage = stage /\ e.run = run
GatesPassedInOrder ==
    row # Missing /\ Stages # <<>> =>
        \A run \in Runs, j \in DOMAIN row.gate_signoffs, n \in DOMAIN Stages :
            Signed(j, Stages[n], run) =>
                \A m \in 1..n : \E i \in DOMAIN row.gate_signoffs :
                    Signed(i, Stages[m], run) /\ SignedOn(i) <= SignedOn(j)

=============================================================================
