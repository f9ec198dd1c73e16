-------------------------------- MODULE Land --------------------------------
(***************************************************************************)
(* The write pipeline of one domain directory: `hotam land` (one proposal  *)
(* or --batch), `hotam apply-proposal`, the confirmed `hotam sync-self`    *)
(* and `hotam gen-spec`, one command at a time, with the failures each     *)
(* step can meet and the rollback the code then runs.                      *)
(*                                                                         *)
(* A graph is what has been written into it: the proposals it carries, the *)
(* requirements with an acknowledgement entry in their history, and        *)
(* whether somebody edited graph.json by hand.  A generated file is the    *)
(* graph it was rendered from.                                             *)
(*                                                                         *)
(* A definition named after another one with a suffix (hasAckOfNobody,     *)
(* restoreLockForgotten, ...) is that definition with a plausible slip:    *)
(* the runs are shown to notice it.  Next uses none of them.               *)
(***************************************************************************)
EXTENDS Naturals

CONSTANTS
    Requirements,   \* anchors a ProposedRequirement or a sync entry may name
    Others,         \* anchors of proposals of the other kinds
    Blocked,        \* named, with another member, by an unresolved Conflict
    Incomplete,     \* SETTLED without provenance where the manifest demands it
    Breaking,       \* their mutation introduces an invariant violation
    SelfHosting,    \* manifest.json self_hosting
    Atoms,          \* manifest.json self_executing_atoms: SPEC.md has shards
    Views,          \* the generated files other than SPEC.md and its shards
    Faults,         \* the failures and outside edits that may happen
    Torn,           \* a file cut short
    Absent          \* no such file

Proposals == Requirements \cup Others

FaultKinds == {"graphWrite", "lockWrite", "render", "drift", "restore", "crash",
               "handEdit", "discipline"}

ASSUME InputsAssumption ==
    /\ Blocked \subseteq Requirements /\ Incomplete \subseteq Requirements
    /\ Breaking \subseteq Proposals
    /\ SelfHosting \in BOOLEAN /\ Atoms \in BOOLEAN
    /\ Faults \subseteq FaultKinds

Graphs == [landed : SUBSET Proposals, acked : SUBSET Requirements, edited : BOOLEAN]
Locks  == [sha : Graphs, pin : BOOLEAN]

ASSUME MarkersAssumption ==
    Torn # Absent /\ {Torn, Absent} \cap (Graphs \cup Locks) = {}

VARIABLES
    graph, lock,            \* graph.json and graph.lock
    full,                   \* manifest.json declares discipline "full"
    views, listed,          \* docs/gen; does REPO-MAP list SPEC.md
    spec, shards,           \* SPEC.md and its shards
    pc, op, hadConflict,    \* the running command
    after, snap, undoSpec,  \* its in-memory graph, its snapshot, its rollback
    result,                 \* what the last command reported
    before                  \* history: the directory when the command began

docs == <<views, listed, spec, shards>>
disk == <<graph, lock, views, listed, spec, shards>>
directory == [graph |-> graph, lock |-> lock, views |-> views, listed |-> listed,
              spec |-> spec, shards |-> shards]
memory == <<op, hadConflict, after, snap, undoSpec, before>>
vars == <<graph, lock, full, views, listed, spec, shards, pc, op, hadConflict,
          after, snap, undoSpec, result, before>>

Commands == {"land", "apply", "batch", "sync", "gen"}
(* No evidence, a valid acknowledgement, the id of no conflict, the id of a  *)
(* conflict that blocks something else, a signoff on the proposal.           *)
Overrides == {"none", "ack", "unknownId", "otherId", "signoff"}
Results == {"none", "nothingLanded", "writeError", "applied", "landed",
            "generated", "rolledBack", "rollbackIncomplete"}

EmptyGraph == [landed |-> {}, acked |-> {}, edited |-> FALSE]
NoOp == [cmd |-> "gen", items |-> {}, override |-> "none", spec |-> FALSE]
NoSnap == [graph |-> EmptyGraph, lock |-> Absent, spec |-> Absent]
NoDirectory == [graph |-> EmptyGraph, lock |-> Absent, views |-> [v \in Views |-> Absent],
                listed |-> FALSE, spec |-> Absent, shards |-> Absent]

Init ==
    /\ graph = EmptyGraph /\ lock = Absent /\ full \in BOOLEAN
    /\ views = [v \in Views |-> Absent] /\ listed = FALSE
    /\ spec = Absent /\ shards = Absent
    /\ pc = "idle" /\ result = "none"
    /\ op = NoOp /\ hadConflict = FALSE /\ after = EmptyGraph /\ snap = NoSnap
    /\ undoSpec = FALSE /\ before = NoDirectory

(* The requirement proposals of the command, and those a carrier names. *)
Candidates == op.items \cap Requirements
Flagged == Candidates \cap Blocked
hasAckOfNobody == op.override = "otherId"

hasAck == op.override \in {"ack", "unknownId", "otherId"}

-----------------------------------------------------------------------------
(* A command ends with a report; a rollback starts here. *)
Finish(r) == pc' = "exit" /\ result' = r /\ UNCHANGED memory

Goto(l) == pc' = l /\ UNCHANGED <<result, memory>>

Rollback(withSpec) ==
    /\ pc' = "rbGraph" /\ undoSpec' = withSpec
    /\ UNCHANGED <<op, hadConflict, after, snap, before, result>>

(* An error inside the apply step: land prints "nothing landed", the other *)
(* commands return the error; none of them rolls back.                     *)
applyStepFailed ==
    Finish(IF op.cmd \in {"land", "batch"} THEN "nothingLanded" ELSE "writeError")

-----------------------------------------------------------------------------
(* The invocation: command, proposals, override flags, --spec of gen-spec. *)
Ops == [cmd : Commands, items : SUBSET Proposals, override : Overrides, spec : BOOLEAN]

Legal(o) ==
    /\ o.cmd \in {"land", "apply"} => \E p \in Proposals : o.items = {p}
    /\ o.cmd = "gen" => o.items = {}
    /\ o.cmd \in {"gen", "batch"} => o.override = "none"
    /\ o.cmd = "sync" => SelfHosting /\ o.items \subseteq Requirements /\ o.items # {}
    /\ o.override = "signoff" => o.cmd # "sync" /\ o.items \subseteq Requirements
    /\ o.spec => o.cmd = "gen"

Invoke ==
    /\ pc = "idle"
    /\ op' \in {o \in Ops : Legal(o)}
    /\ pc' = CASE op'.cmd = "gen" -> "generate" [] op'.cmd = "batch" -> "snapshot"
               [] OTHER -> "gate"
    /\ before' = directory
    /\ UNCHANGED <<disk, full, hadConflict, after, snap, undoSpec, result>>

(* semanticConflictGate and provenanceGate; for sync-self runSyncGates. *)
gateRefuses ==
    \/ graph = Torn /\ (op.cmd = "sync" \/ Candidates # {})
    \/ op.override = "unknownId" /\ op.cmd # "sync" /\ Candidates # {}
    \/ op.override \in {"unknownId", "otherId"} /\ Flagged # {}
    \/ Flagged # {} /\ op.override = "none"
    \/ op.cmd # "sync" /\ Candidates \cap Incomplete # {}
    \/ op.cmd = "sync" /\ op.items \cap Breaking # {}

Gate ==
    /\ pc = "gate" /\ UNCHANGED <<disk, full>>
    /\ \/ gateRefuses /\ Finish("nothingLanded")
       \/ /\ ~gateRefuses
          /\ hadConflict' = (Flagged # {})
          /\ pc' = IF op.cmd = "apply" THEN "apply" ELSE "snapshot"
          /\ UNCHANGED <<op, after, snap, undoSpec, before, result>>

snapshotGraphFiles ==
    /\ pc = "snapshot" /\ pc' = "apply"
    /\ snap' = [graph |-> graph, lock |-> lock, spec |-> spec]
    /\ UNCHANGED <<disk, full, op, hadConflict, after, undoSpec, before, result>>

applyRefusesNoBatch == graph = Torn \/ op.items = {} \/ op.items \cap Breaking # {}

(* Apply and ApplyBatch up to WriteGraph: a fresh load, the locks of a     *)
(* self-hosting domain, the proposal gate; a batch also meets both         *)
(* requirement gates here, with no override.                               *)
applyRefuses ==
    \/ graph = Torn
    \/ op.items = {}
    \/ SelfHosting /\ Candidates # {}
    \/ op.items \cap Breaking # {}
    \/ op.cmd = "batch" /\ (Flagged # {} \/ Candidates \cap Incomplete # {})

applyPerItem ==
    /\ pc = "apply" /\ UNCHANGED <<lock, docs, full>>
    /\ \/ /\ applyRefuses /\ graph # Torn /\ Finish("nothingLanded")
          /\ graph' = [graph EXCEPT !.landed = @ \cup (op.items \ Breaking)]
       \/ /\ ~applyRefuses /\ UNCHANGED graph
          /\ after' = [graph EXCEPT !.landed = @ \cup op.items]
          /\ pc' = "writeGraph"
          /\ UNCHANGED <<op, hadConflict, snap, undoSpec, before, result>>

applyToGraph ==
    /\ pc = "apply" /\ UNCHANGED <<disk, full>>
    /\ \/ op.cmd # "sync" /\ applyRefuses /\ Finish("nothingLanded")
       \/ /\ graph # Torn /\ (op.cmd = "sync" \/ ~applyRefuses)
          /\ after' = [graph EXCEPT !.landed = @ \cup op.items]
          /\ pc' = "writeGraph"
          /\ UNCHANGED <<op, hadConflict, snap, undoSpec, before, result>>

-----------------------------------------------------------------------------
(* WriteGraph: graph.json by temp file and rename, then WriteLock(""). *)
writeGraphFile ==
    /\ pc = "writeGraph"
    /\ \/ graph' = after /\ Goto("pinLock")
       \/ "graphWrite" \in Faults /\ UNCHANGED graph /\ applyStepFailed
    /\ UNCHANGED <<lock, full, docs>>

(* WriteLock: hash what is on disk, keep an earlier pin, observe the       *)
(* manifest.  An absent or unreadable lock counts as "no pin yet".         *)
pinned(l) == l \notin {Absent, Torn} /\ l.pin
WriteLockLiveOnly == lock' = [sha |-> graph, pin |-> full]

WriteLock == lock' = [sha |-> graph, pin |-> pinned(lock) \/ full]

pinLock ==
    /\ pc = "pinLock"
    /\ \/ WriteLock /\ Goto("noteLock")
       \/ "lockWrite" \in Faults /\ UNCHANGED lock /\ applyStepFailed
    /\ UNCHANGED <<graph, full, docs>>

afterApplyNoDocs ==
    IF op.cmd = "apply" THEN Finish("applied") ELSE Goto("verify")

afterApply ==
    IF op.cmd = "apply" THEN Finish("applied") ELSE Goto("generate")

(* The second WriteLock, with the note. *)
noteLock ==
    /\ pc = "noteLock"
    /\ \/ WriteLock /\ IF hadConflict /\ hasAck THEN Goto("ackGraph") ELSE afterApply
       \/ /\ "lockWrite" \in Faults /\ UNCHANGED lock
          /\ IF op.cmd = "sync" THEN Rollback(FALSE) ELSE applyStepFailed
    /\ UNCHANGED <<graph, full, docs>>

(* appendAckHistory and appendSyncAckHistory: load, append, WriteGraph. *)
ackFailed == IF op.cmd = "apply" THEN Finish("writeError") ELSE Rollback(op.cmd = "land")

acknowledged == IF op.cmd = "sync" THEN Flagged ELSE Candidates

ackGraph ==
    /\ pc = "ackGraph"
    /\ \/ graph' = [graph EXCEPT !.acked = @ \cup acknowledged] /\ Goto("ackLock")
       \/ "graphWrite" \in Faults /\ UNCHANGED graph /\ ackFailed
    /\ UNCHANGED <<lock, full, docs>>

ackLock ==
    /\ pc = "ackLock"
    /\ \/ WriteLock /\ afterApply
       \/ "lockWrite" \in Faults /\ UNCHANGED lock /\ ackFailed
    /\ UNCHANGED <<graph, full, docs>>

-----------------------------------------------------------------------------
specRenderNeeded == spec # Absent \/ full

includeSpec ==
    CASE op.cmd = "gen" -> op.spec [] op.cmd = "sync" -> TRUE [] OTHER -> specRenderNeeded

(* genSpec loads graph.json, renders everything, then writes the files in  *)
(* parallel.                                                               *)
Publish(incl) ==
    /\ views' = [v \in Views |-> graph]
    /\ listed' = (incl \/ spec # Absent)
    /\ spec' = IF incl THEN graph ELSE spec
    /\ shards' = IF incl /\ Atoms THEN graph ELSE shards

(* A failed or interrupted run leaves any of its files new, old or cut short. *)
PublishSome(incl) ==
    /\ views' \in [Views -> {graph, Torn} \cup {views[v] : v \in Views}]
    /\ \A v \in Views : views'[v] \in {views[v], graph, Torn}
    /\ listed' \in {listed, incl \/ spec # Absent}
    /\ spec' \in IF incl THEN {spec, graph, Torn} ELSE {spec}
    /\ shards' \in IF incl /\ Atoms THEN {shards, graph, Torn} ELSE {shards}

genFailed == IF op.cmd = "gen" THEN Finish("writeError") ELSE Rollback(TRUE)

genSpec ==
    /\ pc = "generate" /\ UNCHANGED <<graph, lock, full>>
    /\ \/ /\ graph # Torn /\ Publish(includeSpec)
          /\ IF op.cmd = "gen" THEN Finish("generated") ELSE Goto("verify")
       \/ "render" \in Faults /\ graph # Torn /\ PublishSome(includeSpec) /\ genFailed
       \/ graph = Torn /\ UNCHANGED docs /\ genFailed

violatedNoRatchet == lock = Torn \/ (lock # Absent /\ lock.sha # graph)

(* What all-violations reports of the directory itself: the lock check, the *)
(* discipline ratchet, the SPEC.md check.                                   *)
violated ==
    \/ lock = Torn \/ (lock # Absent /\ lock.sha # graph)
    \/ pinned(lock) /\ ~full
    \/ IF spec = Absent THEN full \/ Atoms ELSE spec # graph \/ (Atoms /\ shards # graph)

verifyRetries ==
    /\ pc = "verify" /\ UNCHANGED <<disk, full>>
    /\ \/ ~violated /\ Finish("landed")
       \/ (violated \/ "drift" \in Faults) /\ Goto("generate")

verify ==
    /\ pc = "verify" /\ UNCHANGED <<disk, full>>
    /\ \/ ~violated /\ Finish("landed")
       \/ (violated \/ "drift" \in Faults) /\ Rollback(TRUE)

-----------------------------------------------------------------------------
(* rollbackLand, and for rollbackSyncSelf the SPEC.md restore after it.  A *)
(* restore writes in place: when it fails the file may be cut short.       *)
restoreFailed == "restore" \in Faults /\ Finish("rollbackIncomplete")

restoreGraphForgotten ==
    pc = "rbGraph" /\ Goto("rbLock") /\ UNCHANGED <<disk, full>>

restoreGraph ==
    /\ pc = "rbGraph"
    /\ \/ graph' = snap.graph /\ Goto("rbLock")
       \/ graph' \in {graph, Torn} /\ restoreFailed
    /\ UNCHANGED <<lock, full, docs>>

restoreLockForgotten ==
    pc = "rbLock" /\ Goto("rbGen") /\ UNCHANGED <<disk, full>>
restoreLockRemovesGraph ==
    pc = "rbLock" /\ Goto("rbGen") /\ graph' = Absent /\ UNCHANGED <<lock, full, docs>>

restoreLock ==
    /\ pc = "rbLock"
    /\ \/ lock' = snap.lock /\ Goto("rbGen")
       \/ lock' \in {lock, Torn} /\ restoreFailed
    /\ UNCHANGED <<graph, full, docs>>

regenerate ==
    /\ pc = "rbGen"
    /\ \/ Publish(FALSE) /\ IF undoSpec THEN Goto("rbSpec") ELSE Finish("rolledBack")
       \/ PublishSome(FALSE) /\ restoreFailed
    /\ UNCHANGED <<graph, lock, full>>

restoreSpecForgotten ==
    pc = "rbSpec" /\ Finish("rolledBack") /\ UNCHANGED <<disk, full>>

restoreSpec ==
    /\ pc = "rbSpec"
    /\ \/ spec' = snap.spec /\ Finish("rolledBack")
       \/ spec' \in {spec, Torn} /\ restoreFailed
    /\ UNCHANGED <<graph, lock, full, views, listed, shards>>

-----------------------------------------------------------------------------
(* The process ends, by itself or killed at any point: its memory is gone. *)
Forget ==
    /\ pc' = "idle" /\ result' = "none"
    /\ op' = NoOp /\ hadConflict' = FALSE /\ after' = EmptyGraph /\ snap' = NoSnap
    /\ undoSpec' = FALSE /\ before' = NoDirectory

Exit == pc = "exit" /\ Forget /\ UNCHANGED <<disk, full>>

(* A rename is all or nothing; a write in place may be cut short. *)
Crash ==
    /\ "crash" \in Faults /\ pc \notin {"idle", "exit"} /\ Forget
    /\ UNCHANGED full
    /\ \/ UNCHANGED disk
       \/ pc = "rbGraph" /\ graph' = Torn /\ UNCHANGED <<lock, docs>>
       \/ pc = "rbLock" /\ lock' = Torn /\ UNCHANGED <<graph, docs>>
       \/ /\ pc \in {"generate", "rbGen"} /\ graph # Torn
          /\ UNCHANGED <<graph, lock>> /\ PublishSome(pc = "generate" /\ includeSpec)
       \/ /\ pc = "rbSpec" /\ spec' = Torn
          /\ UNCHANGED <<graph, lock, views, listed, shards>>

(* Between commands people edit graph.json and manifest.json. *)
HandEdit ==
    /\ "handEdit" \in Faults /\ pc = "idle" /\ graph # Torn
    /\ graph' = [graph EXCEPT !.edited = TRUE]
    /\ UNCHANGED <<lock, full, docs, pc, result, memory>>

SetDiscipline ==
    /\ "discipline" \in Faults /\ pc = "idle" /\ full' = ~full
    /\ UNCHANGED <<disk, pc, result, memory>>

Step ==
    \/ Gate \/ snapshotGraphFiles \/ applyToGraph
    \/ writeGraphFile \/ pinLock \/ noteLock \/ ackGraph \/ ackLock
    \/ genSpec \/ verify
    \/ restoreGraph \/ restoreLock \/ regenerate \/ restoreSpec \/ Exit

Next == Invoke \/ Step \/ Crash \/ HandEdit \/ SetDiscipline

Spec == Init /\ [][Next]_vars
FairSpec == Spec /\ WF_vars(Step)

-----------------------------------------------------------------------------
Files == Graphs \cup {Torn, Absent}
Labels == {"idle", "gate", "snapshot", "apply", "writeGraph", "pinLock", "noteLock",
           "ackGraph", "ackLock", "generate", "verify", "rbGraph", "rbLock", "rbGen",
           "rbSpec", "exit"}

TypeOK ==
    /\ graph \in Graphs \cup {Torn} /\ lock \in Locks \cup {Torn, Absent}
    /\ full \in BOOLEAN
    /\ views \in [Views -> Files] /\ listed \in BOOLEAN
    /\ spec \in Files /\ shards \in Files
    /\ pc \in Labels /\ hadConflict \in BOOLEAN /\ undoSpec \in BOOLEAN
    /\ op \in Ops
    /\ after \in Graphs
    /\ snap \in [graph : Graphs \cup {Torn}, lock : Locks \cup {Torn, Absent},
                 spec : Files]
    /\ result \in Results

(* A command that printed "landed: graph applied, docs regenerated, 0        *)
(* violations" (land.go, sync_self.go) left a directory in which the lock    *)
(* pins the graph and the live discipline, every generated file shows that   *)
(* graph, the change is the requested one and nothing else, and an           *)
(* acknowledged conflict is in the history: whatever earlier commands,       *)
(* crashes or hand edits left behind.                                        *)
LandedIsConsistent == result = "landed" =>
    /\ graph.landed = before.graph.landed \cup op.items
    /\ lock = [sha |-> graph, pin |-> full]
    /\ \A v \in Views : views[v] = graph
    /\ listed <=> spec # Absent
    /\ IF spec = Absent THEN ~full /\ ~Atoms ELSE spec = graph /\ (Atoms => shards = graph)
    /\ hasAck /\ Flagged # {} => Flagged \subseteq graph.acked

(* A land, batch or sync that reports "rolled back" put graph.json,          *)
(* graph.lock and, where the rollback covers it, SPEC.md back to what they   *)
(* were, and rendered the other files from that graph (rollbackSyncSelf).    *)
RolledBackIsRestored == result = "rolledBack" =>
    /\ graph = before.graph /\ lock = before.lock /\ spec = before.spec
    /\ \A v \in Views : views[v] = graph

(* No command lets a requirement past an unresolved carrier without recorded *)
(* evidence: a batch never does, the others only with an acknowledgement or  *)
(* a signoff, and no Conflict id that covers no blocker (semanticConflictGate,*)
(* batchConflictChecker, runSyncGates).                                      *)
BlockedNeedsDecision == [][
    graph # Torn /\ graph' # Torn =>
        \A r \in Blocked : r \in graph'.landed \ graph.landed =>
            op.cmd # "batch" /\ op.override \in {"ack", "signoff"}]_vars

(* The audit entry is never false and never missing: an acknowledgement is   *)
(* written only for a requirement a carrier blocked and only when one was    *)
(* given, and a command that succeeded with one has written it               *)
(* (appendAckHistory, semantic_gate.go).                                     *)
AuditIsHonest ==
    /\ graph # Torn => graph.acked \subseteq Blocked \cap graph.landed
    /\ result \in {"applied", "landed"} /\ op.override = "ack" => Flagged \subseteq graph.acked

(* "nothing landed" is true: a refusal by a gate or by the apply step leaves *)
(* the whole directory as it was (land.go, ApplyBatch).                      *)
NothingLandedIsTrue == result = "nothingLanded" => directory = before

(* Outside rollback no command clears the lock's discipline pin, whatever    *)
(* the manifest says by then (WriteLock's one-way ratchet).                  *)
OnlyRollbackUnpins == [][pinned(lock) /\ ~pinned(lock') => pc = "rbLock"]_vars

(* Every command ends: each path through the failures reaches a report.      *)
CommandEnds == (pc # "idle") ~> (pc = "idle")

-----------------------------------------------------------------------------
(* While a command runs, the graph the outside world may rely on is the one *)
(* it started from.                                                         *)
visible == IF pc \in {"idle", "exit"} THEN graph ELSE before.graph

outcome == CASE pc = "idle" -> "idle"
             [] pc \notin {"idle", "exit"} -> "running"
             [] pc = "exit" /\ result \in {"landed", "applied", "generated"} -> "done"
             [] OTHER -> "aborted"

T == INSTANCE Transaction WITH
        Items <- Proposals, request <- op.items,
        landed <- visible.landed, acked <- visible.acked

(* The pipeline is all or nothing, and its report is true: `hotam land` and  *)
(* the other commands implement Transaction as long as no write or restore   *)
(* of graph.json or graph.lock itself fails and no process is killed         *)
(* (land.go: "The whole pipeline is TRANSACTIONAL").                         *)
ImplementsTransaction == T!Spec
=============================================================================
