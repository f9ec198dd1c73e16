----------------------------- MODULE Land_proofs -----------------------------
(***************************************************************************)
(* Proofs about the write pipeline, for every set of proposals, every      *)
(* domain configuration and every set of failures.                         *)
(***************************************************************************)
EXTENDS Land, TLAPS

(* Where graph.json has just been written or loaded it is readable. *)
Readable ==
    /\ pc \in {"pinLock", "noteLock", "ackGraph", "ackLock"} => graph # Torn
    /\ pc \in {"snapshot", "apply"} /\ op.cmd = "sync" => graph # Torn

TypeInv == TypeOK /\ Readable

LEMMA ForgetType == EmptyGraph \in Graphs /\ NoOp \in Ops
                    /\ NoSnap \in [graph : Graphs \cup {Torn},
                                    lock : Locks \cup {Torn, Absent}, spec : Files]
<1>1. EmptyGraph \in Graphs
  BY DEF EmptyGraph, Graphs
<1>2. NoOp \in Ops
  BY DEF NoOp, Ops, Commands, Overrides
<1> QED BY <1>1, <1>2 DEF NoSnap, Files

LEMMA InitType == Init => TypeInv
<1> SUFFICES ASSUME Init PROVE TypeInv OBVIOUS
<1>1. views \in [Views -> Files] /\ spec \in Files /\ shards \in Files
  BY DEF Init, Files
<1> QED
  BY <1>1, ForgetType
     DEF Init, TypeInv, TypeOK, Readable, Labels, Results

LEMMA InvokeType == TypeInv /\ Invoke => TypeInv'
<1> SUFFICES ASSUME TypeInv, Invoke PROVE TypeInv' OBVIOUS
<1>1. /\ op' \in Ops /\ pc' \in {"generate", "snapshot", "gate"}
      /\ pc' = "snapshot" => op'.cmd = "batch"
  BY DEF Invoke, Ops, Commands
<1> QED
  BY <1>1 DEF Invoke, TypeInv, TypeOK, Readable, disk, Labels

LEMMA GatesType ==
    TypeInv /\ (Gate \/ snapshotGraphFiles \/ applyToGraph) => TypeInv'
<1> SUFFICES ASSUME TypeInv PROVE Gate \/ snapshotGraphFiles \/ applyToGraph => TypeInv'
  OBVIOUS
<1> USE DEF TypeInv
<1>1. ASSUME Gate PROVE TypeInv'
  <2>1. ~gateRefuses /\ op.cmd = "sync" => graph # Torn
    BY DEF gateRefuses
  <2> QED
    BY <1>1, <2>1 DEF Gate, TypeOK, Readable, Finish, memory, disk, Labels, Results
<1>2. ASSUME snapshotGraphFiles PROVE TypeInv'
  BY <1>2 DEF snapshotGraphFiles, TypeOK, Readable, disk, Labels
<1>3. ASSUME applyToGraph PROVE TypeInv'
  BY <1>3 DEF applyToGraph, TypeOK, Readable, Finish, memory, disk, Labels, Results, Graphs, Ops
<1> QED BY <1>1, <1>2, <1>3

(* What every write of graph.lock leaves, given a readable graph. *)
LEMMA WriteLockType ==
    ASSUME graph \in Graphs, full \in BOOLEAN, lock \in Locks \cup {Torn, Absent}, WriteLock
    PROVE  lock' \in Locks /\ lock'.sha = graph /\ (full => lock'.pin)
<1>1. pinned(lock) \/ full \in BOOLEAN
  BY MarkersAssumption DEF pinned, Locks
<1> QED BY <1>1 DEF WriteLock, Locks

LEMMA WritesType ==
    TypeInv /\ (writeGraphFile \/ pinLock \/ noteLock \/ ackGraph \/ ackLock) => TypeInv'
<1> SUFFICES ASSUME TypeInv
             PROVE writeGraphFile \/ pinLock \/ noteLock \/ ackGraph \/ ackLock => TypeInv'
  OBVIOUS
<1> USE DEF TypeInv
<1>0. Torn \notin Graphs
  BY MarkersAssumption
<1>1. ASSUME writeGraphFile PROVE TypeInv'
  BY <1>0, <1>1 DEF writeGraphFile, applyStepFailed, Goto, Finish, TypeOK, Readable, memory,
                    docs, Labels, Results
<1>2. ASSUME pinLock PROVE TypeInv'
  BY <1>2, WriteLockType DEF pinLock, applyStepFailed, Goto, Finish, TypeOK, Readable, memory,
                    docs, Labels, Results
<1>3. ASSUME noteLock PROVE TypeInv'
  BY <1>3, WriteLockType DEF noteLock, afterApply, applyStepFailed, Rollback, Goto, Finish,
                    TypeOK, Readable, memory, docs, Labels, Results
<1>4. ASSUME ackGraph PROVE TypeInv'
  <2>1. graph \in Graphs => [graph EXCEPT !.acked = @ \cup acknowledged] \in Graphs
    BY DEF acknowledged, Flagged, Candidates, Graphs
  <2> QED
    BY <1>0, <1>4, <2>1 DEF ackGraph, ackFailed, Rollback, Goto, Finish, TypeOK, Readable,
                    memory, docs, Labels, Results
<1>5. ASSUME ackLock PROVE TypeInv'
  BY <1>5, WriteLockType DEF ackLock, afterApply, ackFailed, Rollback, Goto, Finish,
                    TypeOK, Readable, memory, docs, Labels, Results
<1> QED BY <1>1, <1>2, <1>3, <1>4, <1>5

(* Every run of genSpec, complete or not, leaves files of the right kind. *)
LEMMA PublishType ==
    ASSUME NEW incl \in BOOLEAN, TypeOK, Publish(incl) \/ PublishSome(incl)
    PROVE  /\ views' \in [Views -> Files] /\ listed' \in BOOLEAN
           /\ spec' \in Files /\ shards' \in Files
<1>1. graph \in Files /\ Torn \in Files
  BY DEF TypeOK, Files
<1>2. listed' \in BOOLEAN /\ spec' \in Files /\ shards' \in Files
  BY <1>1 DEF TypeOK, Publish, PublishSome
<1>3. CASE Publish(incl)
  BY <1>1, <1>2, <1>3 DEF Publish
<1>4. CASE PublishSome(incl)
  <2>1. {graph, Torn} \cup {views[v] : v \in Views} \subseteq Files
    BY <1>1 DEF TypeOK
  <2> QED BY <1>2, <1>4, <2>1 DEF PublishSome
<1> QED BY <1>3, <1>4

LEMMA RenderType == TypeInv /\ (genSpec \/ verify \/ regenerate) => TypeInv'
<1> SUFFICES ASSUME TypeInv PROVE genSpec \/ verify \/ regenerate => TypeInv'
  OBVIOUS
<1> USE DEF TypeInv
<1>0. includeSpec \in BOOLEAN
  BY DEF includeSpec, specRenderNeeded, TypeOK, Ops
<1>1. ASSUME genSpec PROVE TypeInv'
  <2>1. views' \in [Views -> Files] /\ listed' \in BOOLEAN /\ spec' \in Files /\ shards' \in Files
    BY <1>0, <1>1, PublishType DEF genSpec, TypeOK, docs
  <2> QED
    BY <1>1, <2>1 DEF genSpec, genFailed, Rollback, Goto, Finish, TypeOK, Readable, memory,
                      Labels, Results
<1>2. ASSUME verify PROVE TypeInv'
  BY <1>2 DEF verify, Rollback, Finish, TypeOK, Readable, memory, disk, Labels, Results
<1>3. ASSUME regenerate PROVE TypeInv'
  <2>1. views' \in [Views -> Files] /\ listed' \in BOOLEAN /\ spec' \in Files /\ shards' \in Files
    BY <1>3, PublishType DEF regenerate
  <2> QED
    BY <1>3, <2>1 DEF regenerate, restoreFailed, Goto, Finish, TypeOK, Readable, memory,
                      Labels, Results
<1> QED BY <1>1, <1>2, <1>3

LEMMA RestoresType ==
    TypeInv /\ (restoreGraph \/ restoreLock \/ restoreSpec \/ Exit) => TypeInv'
<1> SUFFICES ASSUME TypeInv
             PROVE restoreGraph \/ restoreLock \/ restoreSpec \/ Exit => TypeInv'
  OBVIOUS
<1> USE DEF TypeInv
<1>1. ASSUME restoreGraph PROVE TypeInv'
  BY <1>1 DEF restoreGraph, restoreFailed, Goto, Finish, TypeOK, Readable, memory, docs,
              Labels, Results
<1>2. ASSUME restoreLock PROVE TypeInv'
  BY <1>2 DEF restoreLock, restoreFailed, Goto, Finish, TypeOK, Readable, memory, docs,
              Labels, Results
<1>3. ASSUME restoreSpec PROVE TypeInv'
  BY <1>3 DEF restoreSpec, restoreFailed, Finish, TypeOK, Readable, memory,
              Labels, Results, Files
<1>4. ASSUME Exit PROVE TypeInv'
  BY <1>4, ForgetType DEF Exit, TypeOK, Readable, disk, Forget, Labels, Results
<1> QED BY <1>1, <1>2, <1>3, <1>4

LEMMA OutsideType == TypeInv /\ (Crash \/ HandEdit \/ SetDiscipline) => TypeInv'
<1> SUFFICES ASSUME TypeInv PROVE Crash \/ HandEdit \/ SetDiscipline => TypeInv'
  OBVIOUS
<1> USE DEF TypeInv
<1>1. ASSUME Crash PROVE TypeInv'
  <2>1. views' \in [Views -> Files] /\ listed' \in BOOLEAN /\ spec' \in Files /\ shards' \in Files
    <3>1. (pc = "generate" /\ includeSpec) \in BOOLEAN
      OBVIOUS
    <3> QED BY <1>1, <3>1, PublishType DEF Crash, TypeOK, disk, docs, Files
  <2>2. graph' \in {graph, Torn} /\ lock' \in {lock, Torn}
    BY <1>1 DEF Crash, disk
  <2> QED BY <1>1, <2>1, <2>2, ForgetType
         DEF Crash, TypeOK, Readable, Forget, Labels, Results
<1>2. ASSUME HandEdit PROVE TypeInv'
  BY <1>2 DEF HandEdit, TypeOK, Readable, Graphs, memory, docs
<1>3. ASSUME SetDiscipline PROVE TypeInv'
  BY <1>3 DEF SetDiscipline, TypeOK, Readable, memory, disk
<1> QED BY <1>1, <1>2, <1>3

(* Type correctness: whatever fails and in whatever order commands and edits *)
(* come, every file and every variable keeps to its set.                     *)
THEOREM TypeCorrect == Spec => []TypeOK
<1>1. TypeInv /\ [Next]_vars => TypeInv'
  <2> SUFFICES ASSUME TypeInv, [Next]_vars PROVE TypeInv' OBVIOUS
  <2>1. CASE UNCHANGED vars
    BY <2>1 DEF TypeInv, TypeOK, Readable, vars
  <2>2. CASE Next
    BY <2>2, InvokeType, GatesType, WritesType, RenderType, RestoresType, OutsideType
       DEF Next, Step
  <2> QED BY <2>1, <2>2
<1>2. TypeInv => TypeOK
  BY DEF TypeInv
<1> QED BY InitType, <1>1, <1>2, PTL DEF Spec

-----------------------------------------------------------------------------
(* The inductive invariant behind the two reports "rolled back" and          *)
(* "nothing landed": which commands reach which label, what the directory    *)
(* still has of its old contents there, and how much of it a running         *)
(* rollback has put back.                                                    *)
Transactional == {"land", "batch", "sync"}
Early == {"gate", "snapshot", "apply", "writeGraph"}
Writing == {"pinLock", "noteLock", "ackGraph", "ackLock"}
Undoing == {"rbGraph", "rbLock", "rbGen", "rbSpec"}

CommandAt ==
    /\ pc \in Early \cup Writing => op.cmd # "gen"
    /\ pc \in {"snapshot", "verify"} \cup Undoing => op.cmd \in Transactional
    /\ pc = "generate" => op.cmd # "apply"

Untouched == pc \in Early => directory = before

SnapshotIsOld ==
    pc \in {"apply", "writeGraph", "generate", "verify"} \cup Writing \cup Undoing
            /\ op.cmd \in Transactional =>
        snap = [graph |-> before.graph, lock |-> before.lock, spec |-> before.spec]

SpecKept == pc \in Writing \/ (pc \in Undoing /\ ~undoSpec) => spec = before.spec

Undone ==
    /\ pc \in {"rbLock", "rbGen", "rbSpec"} => graph = before.graph
    /\ pc \in {"rbGen", "rbSpec"} => lock = before.lock
    /\ pc = "rbSpec" => \A v \in Views : views[v] = graph

RollbackInv ==
    /\ TypeInv /\ (pc # "exit" => result = "none")
    /\ CommandAt /\ Untouched /\ SnapshotIsOld /\ SpecKept /\ Undone
    /\ RolledBackIsRestored

LEMMA InitRollback == Init => RollbackInv
BY InitType DEF Init, RollbackInv, CommandAt, Untouched, SnapshotIsOld, SpecKept, Undone,
                RolledBackIsRestored, Early, Writing, Undoing

LEMMA StepRollback == RollbackInv /\ [Next]_vars => RollbackInv'
<1> SUFFICES ASSUME RollbackInv, [Next]_vars PROVE RollbackInv' OBVIOUS
<1>t. TypeInv'
  BY InvokeType, GatesType, WritesType, RenderType, RestoresType, OutsideType
     DEF RollbackInv, Next, Step, vars, TypeInv, TypeOK, Readable
<1>c. op.cmd \in Commands
  BY DEF RollbackInv, TypeInv, TypeOK, Ops
<1> USE <1>t, <1>c DEF RollbackInv, Early, Writing, Undoing, Transactional, Commands
<1>1. CASE Invoke
  BY <1>1 DEF Invoke, CommandAt, Untouched, SnapshotIsOld, SpecKept, Undone,
              RolledBackIsRestored, directory, disk
<1>2. CASE Gate
  BY <1>2 DEF Gate, Finish, memory, disk, CommandAt, Untouched, SnapshotIsOld, SpecKept,
              Undone, RolledBackIsRestored, directory
<1>3. CASE snapshotGraphFiles
  BY <1>3 DEF snapshotGraphFiles, disk, CommandAt, Untouched, SnapshotIsOld, SpecKept,
              Undone, RolledBackIsRestored, directory
<1>4. CASE applyToGraph
  BY <1>4 DEF applyToGraph, Finish, memory, disk, CommandAt, Untouched, SnapshotIsOld,
              SpecKept, Undone, RolledBackIsRestored, directory
<1>5. CASE writeGraphFile
  BY <1>5 DEF writeGraphFile, applyStepFailed, Goto, Finish, memory, docs, CommandAt,
              Untouched, SnapshotIsOld, SpecKept, Undone, RolledBackIsRestored, directory
<1>6. CASE pinLock
  BY <1>6 DEF pinLock, applyStepFailed, Goto, Finish, memory, docs, CommandAt,
              Untouched, SnapshotIsOld, SpecKept, Undone, RolledBackIsRestored
<1>7. CASE noteLock
  BY <1>7 DEF noteLock, afterApply, applyStepFailed, Rollback, Goto, Finish, memory, docs,
              CommandAt, Untouched, SnapshotIsOld, SpecKept, Undone, RolledBackIsRestored
<1>8. CASE ackGraph
  BY <1>8 DEF ackGraph, ackFailed, Rollback, Goto, Finish, memory, docs, CommandAt,
              Untouched, SnapshotIsOld, SpecKept, Undone, RolledBackIsRestored
<1>9. CASE ackLock
  BY <1>9 DEF ackLock, afterApply, ackFailed, Rollback, Goto, Finish, memory, docs,
              CommandAt, Untouched, SnapshotIsOld, SpecKept, Undone, RolledBackIsRestored
<1>10. CASE genSpec
  BY <1>10 DEF genSpec, genFailed, Rollback, Goto, Finish, memory, CommandAt,
              Untouched, SnapshotIsOld, SpecKept, Undone, RolledBackIsRestored
<1>11. CASE verify
  BY <1>11 DEF verify, Rollback, Finish, memory, disk, CommandAt, Untouched,
              SnapshotIsOld, SpecKept, Undone, RolledBackIsRestored
<1>12. CASE restoreGraph
  BY <1>12 DEF restoreGraph, restoreFailed, Goto, Finish, memory, docs, CommandAt,
              Untouched, SnapshotIsOld, SpecKept, Undone, RolledBackIsRestored
<1>13. CASE restoreLock
  BY <1>13 DEF restoreLock, restoreFailed, Goto, Finish, memory, docs, CommandAt,
              Untouched, SnapshotIsOld, SpecKept, Undone, RolledBackIsRestored
<1>14. CASE regenerate
  BY <1>14 DEF regenerate, Publish, PublishSome, restoreFailed, Goto, Finish, memory,
              CommandAt, Untouched, SnapshotIsOld, SpecKept, Undone, RolledBackIsRestored
<1>15. CASE restoreSpec
  BY <1>15 DEF restoreSpec, restoreFailed, Finish, memory, CommandAt, Untouched,
              SnapshotIsOld, SpecKept, Undone, RolledBackIsRestored
<1>16. CASE Exit \/ Crash
  BY <1>16 DEF Exit, Crash, Forget, CommandAt, Untouched, SnapshotIsOld, SpecKept, Undone,
              RolledBackIsRestored
<1>17. CASE HandEdit \/ SetDiscipline \/ UNCHANGED vars
  <2>1. UNCHANGED <<lock, views, listed, spec, shards, pc, memory, result>>
    BY <1>17 DEF HandEdit, SetDiscipline, vars, memory, docs, disk
  <2>2. pc = "idle" \/ UNCHANGED graph
    BY <1>17 DEF HandEdit, SetDiscipline, vars, disk
  <2>3. pc # "exit" => result = "none"
    OBVIOUS
  <2> QED
    BY <2>1, <2>2, <2>3 DEF memory, CommandAt, Untouched, SnapshotIsOld, SpecKept, Undone,
              RolledBackIsRestored, directory
<1> QED
  BY <1>1, <1>2, <1>3, <1>4, <1>5, <1>6, <1>7, <1>8, <1>9, <1>10, <1>11, <1>12, <1>13,
     <1>14, <1>15, <1>16, <1>17 DEF Next, Step

(* A command that reports "rolled back" has restored graph.json, graph.lock  *)
(* and SPEC.md and re-rendered the rest (rollbackLand, rollbackSyncSelf):    *)
(* after any failure of any step, and after any history of crashes.          *)
THEOREM RollbackRestores == Spec => []RolledBackIsRestored
<1>1. RollbackInv => RolledBackIsRestored
  BY DEF RollbackInv
<1> QED BY InitRollback, StepRollback, <1>1, PTL DEF Spec

-----------------------------------------------------------------------------
(* The inductive invariant behind the report "landed": what the graph holds, *)
(* what the lock pins, what is rendered and what is acknowledged at each     *)
(* label on the way to the verification.                                     *)
Prepared == pc = "writeGraph" => after.landed = before.graph.landed \cup op.items

Held == pc \in Writing \cup {"generate", "verify"} /\ op.cmd # "gen" =>
            graph.landed = before.graph.landed \cup op.items

Relocked == pc \in (Writing \ {"pinLock"}) \cup {"generate", "verify"} /\ op.cmd # "gen" =>
                lock \in Locks /\ (full => lock.pin)

Rendered == pc = "verify" => (\A v \in Views : views[v] = graph) /\ (listed <=> spec # Absent)

Gated ==
    /\ op.cmd = "batch" => op.override = "none"
    /\ pc \in {"snapshot", "apply", "writeGraph"} \cup Writing /\ op.cmd # "batch" =>
          hadConflict = (Flagged # {})

Acknowledged ==
    pc \in {"ackLock", "generate", "verify"} /\ op.cmd # "gen" /\ hasAck /\ Flagged # {} =>
        Flagged \subseteq graph.acked

LandedInv ==
    /\ RollbackInv /\ Prepared /\ Held /\ Relocked /\ Rendered /\ Gated /\ Acknowledged
    /\ LandedIsConsistent

LEMMA InitLanded == Init => LandedInv
BY InitRollback DEF Init, LandedInv, Prepared, Held, Relocked, Rendered, Gated, Acknowledged,
                LandedIsConsistent, Writing, NoOp

LEMMA StepLanded == LandedInv /\ [Next]_vars => LandedInv'
<1> SUFFICES ASSUME LandedInv, [Next]_vars PROVE LandedInv' OBVIOUS
<1>r. RollbackInv'
  BY StepRollback DEF LandedInv
<1>c. op.cmd \in Commands /\ graph \in Graphs \cup {Torn} /\ lock \in Locks \cup {Torn, Absent}
  BY DEF LandedInv, RollbackInv, TypeInv, TypeOK, Ops
<1>n. pc # "exit" => result = "none"
  BY DEF LandedInv, RollbackInv
<1>w. pc \in Writing => graph \in Graphs /\ op.cmd # "gen"
  BY <1>c DEF LandedInv, RollbackInv, TypeInv, Readable, Writing, CommandAt
<1>f. full \in BOOLEAN /\ full' \in BOOLEAN
  BY <1>r DEF LandedInv, RollbackInv, TypeInv, TypeOK
<1> DEFINE Same == UNCHANGED <<op, before, full, hadConflict>>
<1> USE <1>r, <1>c, <1>n DEF LandedInv, Writing
<1>1. CASE Invoke
  <2>1. op'.cmd = "batch" => op'.override = "none"
    BY <1>1 DEF Invoke, Legal
  <2>2. pc' \in {"generate", "snapshot", "gate"} /\ (pc' = "generate" => op'.cmd = "gen")
        /\ (pc' = "snapshot" => op'.cmd = "batch") /\ result' = "none"
    BY <1>1 DEF Invoke
  <2> QED
    BY <2>1, <2>2 DEF Prepared, Held, Relocked, Rendered, Gated, Acknowledged,
              LandedIsConsistent
<1>2. CASE Gate
  <2>1. pc = "gate" /\ UNCHANGED <<disk, full, op, after, before>>
        /\ pc' \in {"exit", "apply", "snapshot"} /\ result' \in {"none", "nothingLanded"}
        /\ (pc' # "exit" => hadConflict' = (Flagged # {}))
    BY <1>2 DEF Gate, Finish, memory
  <2> QED
    BY <2>1 DEF Prepared, Held, Relocked, Rendered, Gated, Acknowledged,
              LandedIsConsistent, Flagged, Candidates
<1>3. CASE snapshotGraphFiles
  BY <1>3 DEF snapshotGraphFiles, disk, Prepared, Held, Relocked, Rendered, Gated,
              Acknowledged, LandedIsConsistent, Flagged, Candidates
<1>4. CASE applyToGraph
  <2>1. pc = "apply" /\ UNCHANGED <<disk, full, op, hadConflict, before>>
        /\ pc' \in {"exit", "writeGraph"} /\ result' \in {"none", "nothingLanded"}
        /\ (pc' = "writeGraph" => graph \in Graphs
                                  /\ after' = [graph EXCEPT !.landed = @ \cup op.items])
    BY <1>4 DEF applyToGraph, Finish, memory
  <2>2. directory = before /\ graph = before.graph
    BY <2>1 DEF RollbackInv, Untouched, Early, directory
  <2>3. Prepared'
    BY <2>1, <2>2 DEF Prepared, Graphs
  <2> QED
    BY <2>1, <2>3 DEF Held, Relocked, Rendered, Gated, Acknowledged,
              LandedIsConsistent, Flagged, Candidates
<1>5. CASE writeGraphFile
  BY <1>5 DEF writeGraphFile, applyStepFailed, Goto, Finish, memory, docs, Prepared, Held,
              Relocked, Rendered, Gated, Acknowledged, LandedIsConsistent, Flagged, Candidates
<1>6. CASE pinLock
  BY <1>6, <1>w, <1>f, WriteLockType
     DEF pinLock, applyStepFailed, Goto, Finish, memory, docs, Prepared, Held,
              Relocked, Rendered, Gated, Acknowledged, LandedIsConsistent, Flagged, Candidates
<1>7. CASE noteLock
  <2>1. pc = "noteLock" /\ UNCHANGED <<graph, full, docs, op, after, hadConflict, before>>
        /\ (lock' = lock \/ (lock' \in Locks /\ (full => lock'.pin)))
        /\ pc' \in {"ackGraph", "generate", "rbGraph", "exit"}
        /\ (pc' = "generate" => ~(hadConflict /\ hasAck))
        /\ result' # "landed"
    BY <1>7, <1>w, <1>f, WriteLockType
       DEF noteLock, afterApply, applyStepFailed, Rollback, Goto, Finish, memory
  <2> QED
    BY <2>1, <1>w DEF docs, Prepared, Held, Relocked, Rendered, Gated, Acknowledged,
              LandedIsConsistent, Flagged, Candidates, hasAck
<1>8. CASE ackGraph
  <2>1. pc = "ackGraph" /\ UNCHANGED <<lock, full, docs, op, after, hadConflict, before>>
        /\ pc' \in {"ackLock", "rbGraph", "exit"} /\ result' # "landed"
        /\ (pc' = "ackLock" => graph' = [graph EXCEPT !.acked = @ \cup acknowledged])
    BY <1>8 DEF ackGraph, ackFailed, Rollback, Goto, Finish, memory
  <2>2. pc' = "ackLock" => graph'.landed = graph.landed
                           /\ graph'.acked = graph.acked \cup acknowledged
    BY <2>1, <1>w DEF Graphs
  <2> QED
    BY <2>1, <2>2, <1>w DEF docs, Prepared, Held, Relocked, Rendered, Gated, Acknowledged,
              LandedIsConsistent, acknowledged, Flagged, Candidates, hasAck
<1>9. CASE ackLock
  <2>1. pc = "ackLock" /\ UNCHANGED <<graph, full, docs, op, after, hadConflict, before>>
        /\ (lock' = lock \/ (lock' \in Locks /\ (full => lock'.pin)))
        /\ pc' \in {"generate", "rbGraph", "exit"} /\ result' # "landed"
    BY <1>9, <1>w, <1>f, WriteLockType
       DEF ackLock, afterApply, ackFailed, Rollback, Goto, Finish, memory
  <2> QED
    BY <2>1, <1>w DEF docs, Prepared, Held, Relocked, Rendered, Gated, Acknowledged,
              LandedIsConsistent, Flagged, Candidates, hasAck
<1>10. CASE genSpec
  <2>1. pc = "generate" /\ UNCHANGED <<graph, lock, full, op, after, hadConflict, before>>
        /\ pc' \in {"verify", "rbGraph", "exit"} /\ result' # "landed"
        /\ (pc' = "verify" => graph \in Graphs /\ op.cmd # "gen" /\ Publish(includeSpec))
    BY <1>10 DEF genSpec, genFailed, Rollback, Goto, Finish, memory
  <2>2. graph \in Graphs => graph # Absent
    BY MarkersAssumption
  <2> QED
    BY <2>1, <2>2 DEF Publish, Prepared, Held, Relocked, Rendered, Gated, Acknowledged,
              LandedIsConsistent, Flagged, Candidates, hasAck
<1>11. CASE verify
  <2>1. pc = "verify" /\ UNCHANGED <<disk, full, op, after, hadConflict, before>>
        /\ pc' \in {"rbGraph", "exit"} /\ (result' = "landed" => ~violated)
        /\ op.cmd # "gen"
    BY <1>11 DEF verify, Rollback, Finish, memory, RollbackInv, CommandAt, Transactional
  <2>2. ~violated => lock = [sha |-> graph, pin |-> full]
    <3>1. lock \in Locks /\ lock \notin {Torn, Absent} /\ (full => lock.pin)
      BY <2>1, MarkersAssumption DEF Relocked
    <3>2. ~violated => lock.sha = graph /\ (lock.pin => full)
      BY <3>1 DEF violated, pinned
    <3> QED BY <3>1, <3>2, <1>f DEF Locks
  <2>3. ~violated => IF spec = Absent THEN ~full /\ ~Atoms
                     ELSE spec = graph /\ (Atoms => shards = graph)
    BY DEF violated
  <2>4. LandedIsConsistent'
    BY <2>1, <2>2, <2>3 DEF disk, LandedIsConsistent, Held, Rendered, Acknowledged,
              Flagged, Candidates, hasAck
  <2> QED
    BY <2>1, <2>4 DEF disk, Prepared, Held, Relocked, Rendered, Gated, Acknowledged,
              Flagged, Candidates
<1>12. CASE restoreGraph \/ restoreLock \/ regenerate \/ restoreSpec
  <2>1. pc' \in {"rbLock", "rbGen", "rbSpec", "exit"} /\ result' # "landed" /\ op' = op
    BY <1>12 DEF restoreGraph, restoreLock, regenerate, restoreSpec, restoreFailed, Goto,
                 Finish, memory
  <2> QED
    BY <2>1 DEF Prepared, Held, Relocked, Rendered, Gated, Acknowledged, LandedIsConsistent
<1>13. CASE Exit \/ Crash
  BY <1>13 DEF Exit, Crash, Forget, NoOp, Prepared, Held, Relocked, Rendered, Gated,
              Acknowledged, LandedIsConsistent
<1>14. CASE HandEdit \/ SetDiscipline \/ UNCHANGED vars
  <2>1. CASE pc = "idle"
    <3>1. pc' = "idle" /\ UNCHANGED <<op, result>>
      BY <1>14, <2>1 DEF HandEdit, SetDiscipline, vars, memory
    <3> QED
      BY <2>1, <3>1 DEF Prepared, Held, Relocked, Rendered, Gated, Acknowledged,
                LandedIsConsistent
  <2>2. CASE UNCHANGED vars
    BY <2>2 DEF vars, Prepared, Held, Relocked, Rendered, Gated, Acknowledged,
              LandedIsConsistent, Flagged, Candidates, hasAck
  <2> QED BY <1>14, <2>1, <2>2 DEF HandEdit, SetDiscipline
<1> QED
  BY <1>1, <1>2, <1>3, <1>4, <1>5, <1>6, <1>7, <1>8, <1>9, <1>10, <1>11, <1>12, <1>13,
     <1>14 DEF Next, Step

(* A command that reports "landed" leaves a lock that pins the graph and the *)
(* live discipline, documents of that graph, exactly the requested change    *)
(* and the acknowledgement it needed: from any directory an earlier failure, *)
(* crash or hand edit left behind.                                           *)
THEOREM LandedConsistent == Spec => []LandedIsConsistent
<1>1. LandedInv => LandedIsConsistent
  BY DEF LandedInv
<1> QED BY InitLanded, StepLanded, <1>1, PTL DEF Spec

-----------------------------------------------------------------------------
(* What any step may do to graph.json and to graph.lock: the facts every     *)
(* property of one of the two files alone starts from.                       *)
LEMMA GraphStep ==
    ASSUME LandedInv, [Next]_vars
    PROVE  \/ graph' = graph
           \/ graph' = Torn
           \/ pc = "writeGraph" /\ graph' = after
           \/ pc = "ackGraph" /\ graph' = [graph EXCEPT !.acked = @ \cup acknowledged]
           \/ pc = "rbGraph" /\ graph' = before.graph
           \/ pc = "idle" /\ graph # Torn /\ graph' = [graph EXCEPT !.edited = TRUE]
<1>1. pc = "rbGraph" => snap.graph = before.graph
  BY DEF LandedInv, RollbackInv, SnapshotIsOld, CommandAt, Undoing
<1>2. CASE writeGraphFile \/ ackGraph \/ restoreGraph \/ Crash \/ HandEdit
  BY <1>1, <1>2 DEF writeGraphFile, ackGraph, restoreGraph, Crash, HandEdit, disk
<1>3. CASE Invoke \/ Gate \/ snapshotGraphFiles \/ applyToGraph \/ pinLock \/ noteLock
             \/ ackLock \/ genSpec \/ verify
  BY <1>3 DEF Invoke, Gate, snapshotGraphFiles, applyToGraph, pinLock, noteLock, ackLock,
              genSpec, verify, disk
<1>4. CASE restoreLock \/ regenerate \/ restoreSpec \/ Exit \/ SetDiscipline \/ UNCHANGED vars
  BY <1>4 DEF restoreLock, regenerate, restoreSpec, Exit, SetDiscipline, disk, vars
<1> QED BY <1>2, <1>3, <1>4 DEF Next, Step

LEMMA LockStep ==
    ASSUME LandedInv, [Next]_vars
    PROVE  lock' = lock \/ (WriteLock /\ graph \in Graphs) \/ pc = "rbLock"
<1>1. pc \in Writing => graph \in Graphs
  BY DEF LandedInv, RollbackInv, TypeInv, TypeOK, Readable, Writing
<1>2. CASE pinLock \/ noteLock \/ ackLock
  BY <1>1, <1>2 DEF pinLock, noteLock, ackLock, Writing
<1>3. CASE Invoke \/ Gate \/ snapshotGraphFiles \/ applyToGraph \/ writeGraphFile \/ ackGraph
             \/ genSpec \/ verify
  BY <1>3 DEF Invoke, Gate, snapshotGraphFiles, applyToGraph, writeGraphFile, ackGraph,
              genSpec, verify, disk
<1>4. CASE restoreGraph \/ restoreLock \/ regenerate \/ restoreSpec \/ Exit \/ Crash \/ HandEdit
             \/ SetDiscipline \/ UNCHANGED vars
  BY <1>4 DEF restoreGraph, restoreLock, regenerate, restoreSpec, Exit, Crash, HandEdit,
              SetDiscipline, disk, vars
<1> QED BY <1>2, <1>3, <1>4 DEF Next, Step

(* The discipline pin of graph.lock is a one-way ratchet (WriteLock): in     *)
(* every history of failures, crashes and edits only the lock restore of a   *)
(* rollback, or its being cut short, takes a pin away.                       *)
THEOREM OnlyRollbackClearsPin == Spec => OnlyRollbackUnpins
<1>1. LandedInv /\ [Next]_vars => [pinned(lock) /\ ~pinned(lock') => pc = "rbLock"]_vars
  <2> SUFFICES ASSUME LandedInv, [Next]_vars, pinned(lock), pc # "rbLock" PROVE pinned(lock')
    OBVIOUS
  <2>1. lock' = lock \/ (WriteLock /\ graph \in Graphs)
    BY LockStep
  <2>2. CASE WriteLock /\ graph \in Graphs
    <3>1. full \in BOOLEAN /\ lock \in Locks \cup {Torn, Absent}
      BY DEF LandedInv, RollbackInv, TypeInv, TypeOK
    <3>2. lock' \in Locks
      BY <2>2, <3>1, WriteLockType
    <3>3. lock' \notin {Absent, Torn}
      BY <3>2, MarkersAssumption
    <3>4. lock'.pin
      BY <2>2 DEF WriteLock
    <3> QED BY <3>3, <3>4 DEF pinned
  <2> QED BY <2>1, <2>2
<1> QED BY <1>1, InitLanded, StepLanded, PTL DEF Spec, OnlyRollbackUnpins

-----------------------------------------------------------------------------
(* The inductive invariant behind the audit entry and the decision: the      *)
(* shape of the invocation holds as long as the command runs, evidence was   *)
(* seen before the change is written, and every graph the command may still  *)
(* write back is one whose entries are honest.                               *)
HonestGraph(g) == g # Torn => g.acked \subseteq Blocked \cap g.landed

Decided == pc \in {"writeGraph"} \cup Writing /\ Flagged # {} =>
               op.cmd # "batch" /\ op.override \in {"ack", "signoff"}

GateDecided == pc \in {"snapshot", "apply"} /\ op.cmd # "batch" /\ Flagged # {} =>
                   op.override \in {"ack", "signoff"}

AckIsDue == pc = "ackGraph" => hadConflict /\ hasAck

Undoable == pc = "rbGraph" /\ graph # Torn => before.graph.landed \subseteq graph.landed

AuditInv ==
    /\ LandedInv /\ Legal(op) /\ Decided /\ GateDecided /\ AckIsDue
    /\ HonestGraph(graph) /\ HonestGraph(before.graph)
    /\ pc = "writeGraph" => HonestGraph(after) /\ graph \in Graphs
    /\ AuditIsHonest

LEMMA InitAudit == Init => AuditInv
<1>1. Legal(NoOp)
  BY DEF Legal, NoOp
<1>2. HonestGraph(EmptyGraph)
  BY DEF HonestGraph, EmptyGraph
<1> QED
  BY <1>1, <1>2, InitLanded
     DEF Init, AuditInv, Decided, GateDecided, AckIsDue, NoDirectory, Writing, AuditIsHonest,
         EmptyGraph

LEMMA OpStep ==
    ASSUME AuditInv, [Next]_vars
    PROVE  /\ Legal(op')
           /\ HonestGraph(before'.graph)
           /\ \/ op' = op /\ before' = before
              \/ pc = "idle"
              \/ pc' = "idle" /\ op' = NoOp
<1>1. CASE Invoke
  BY <1>1 DEF Invoke, AuditInv, directory
<1>2. CASE Exit \/ Crash
  <2>1. Legal(NoOp) /\ HonestGraph(NoDirectory.graph)
    BY DEF Legal, NoOp, HonestGraph, NoDirectory, EmptyGraph
  <2> QED BY <1>2, <2>1 DEF Exit, Crash, Forget
<1>3. CASE UNCHANGED <<op, before>>
  BY <1>3 DEF AuditInv
<1>4. CASE Gate \/ snapshotGraphFiles \/ applyToGraph \/ writeGraphFile \/ pinLock \/ noteLock
             \/ ackGraph \/ ackLock
  BY <1>3, <1>4 DEF Gate, snapshotGraphFiles, applyToGraph, writeGraphFile, pinLock, noteLock,
              ackGraph, ackLock, afterApply, applyStepFailed, ackFailed, Goto, Finish,
              Rollback, memory
<1>5. CASE genSpec \/ verify \/ restoreGraph \/ restoreLock \/ regenerate \/ restoreSpec
             \/ HandEdit \/ SetDiscipline \/ UNCHANGED vars
  BY <1>3, <1>5 DEF genSpec, verify, restoreGraph, restoreLock, regenerate, restoreSpec,
              HandEdit, SetDiscipline, vars, genFailed, restoreFailed, Goto, Finish,
              Rollback, memory
<1> QED BY <1>1, <1>2, <1>4, <1>5 DEF Next, Step

(* The entries of the graph stay honest: an acknowledgement is appended only *)
(* where the gate saw a carrier, and only to requirements this command put   *)
(* into the graph.                                                           *)
LEMMA HonestStep ==
    ASSUME AuditInv, [Next]_vars
    PROVE  HonestGraph(graph')
<1>t. graph \in Graphs \cup {Torn}
  BY DEF AuditInv, LandedInv, RollbackInv, TypeInv, TypeOK
<1>1. CASE graph' = graph \/ graph' = Torn \/ (pc = "writeGraph" /\ graph' = after)
             \/ (pc = "rbGraph" /\ graph' = before.graph)
  BY <1>1 DEF AuditInv, HonestGraph
<1>2. CASE pc = "ackGraph" /\ graph' = [graph EXCEPT !.acked = @ \cup acknowledged]
  <2>1. graph \in Graphs /\ graph.landed = before.graph.landed \cup op.items
        /\ op.cmd # "gen" /\ hadConflict /\ hasAck
    BY <1>2, <1>t DEF AuditInv, LandedInv, Held, AckIsDue, Writing, RollbackInv, TypeInv,
                      Readable, CommandAt
  <2>2. op.cmd # "batch" /\ Flagged # {}
    BY <1>2, <2>1 DEF AuditInv, LandedInv, Gated, Writing, hasAck
  <2>3. acknowledged = Flagged
    <3>1. op.cmd \in {"land", "apply", "sync"}
      BY <2>1, <2>2 DEF AuditInv, LandedInv, RollbackInv, TypeInv, TypeOK, Ops, Commands
    <3>2. op.cmd # "sync" => \E p \in Proposals : op.items = {p}
      BY <3>1 DEF AuditInv, Legal
    <3> QED BY <2>2, <3>2 DEF acknowledged, Flagged, Candidates
  <2>4. Flagged \subseteq Blocked \cap op.items
    BY DEF Flagged, Candidates
  <2>5. graph'.acked = graph.acked \cup Flagged /\ graph'.landed = graph.landed
    BY <1>2, <2>1, <2>3 DEF Graphs
  <2>6. graph.acked \subseteq Blocked \cap graph.landed
    BY <2>1, MarkersAssumption DEF AuditInv, HonestGraph
  <2> QED BY <2>1, <2>4, <2>5, <2>6 DEF HonestGraph
<1>3. CASE graph # Torn /\ graph' = [graph EXCEPT !.edited = TRUE]
  <2>1. graph'.acked = graph.acked /\ graph'.landed = graph.landed
    BY <1>3, <1>t DEF Graphs
  <2> QED BY <1>3, <2>1 DEF AuditInv, HonestGraph
<1> QED BY <1>1, <1>2, <1>3, GraphStep DEF AuditInv

LEMMA StepAudit == AuditInv /\ [Next]_vars => AuditInv'
<1> SUFFICES ASSUME AuditInv, [Next]_vars PROVE AuditInv' OBVIOUS
<1>l. LandedInv' /\ Legal(op)' /\ HonestGraph(graph)' /\ HonestGraph(before.graph)'
  BY StepLanded, OpStep, HonestStep DEF AuditInv
<1>n. pc # "exit" => result = "none"
  BY DEF AuditInv, LandedInv, RollbackInv
<1> DEFINE Rest == /\ Decided /\ GateDecided /\ AckIsDue
                   /\ pc = "writeGraph" => HonestGraph(after) /\ graph \in Graphs
                   /\ result \in {"applied", "landed"} /\ op.override = "ack" =>
                          Flagged \subseteq graph.acked
<1> SUFFICES Rest'
  BY <1>l DEF AuditInv, AuditIsHonest, HonestGraph
<1> USE <1>n DEF Writing
<1>1. CASE Invoke
  BY <1>1 DEF Invoke, Decided, GateDecided, AckIsDue
<1>2. CASE Gate
  <2>1. pc = "gate" /\ op' = op /\ pc' \in {"exit", "apply", "snapshot"}
        /\ result' \in {"none", "nothingLanded"} /\ (pc' # "exit" => ~gateRefuses)
    BY <1>2 DEF Gate, Finish, memory
  <2>2. ~gateRefuses /\ Flagged # {} => op.override \in {"ack", "signoff"}
    BY DEF gateRefuses, AuditInv, LandedInv, RollbackInv, TypeInv, TypeOK, Ops, Overrides
  <2> QED BY <2>1, <2>2 DEF Decided, GateDecided, AckIsDue, Flagged, Candidates
<1>3. CASE snapshotGraphFiles
  BY <1>3 DEF snapshotGraphFiles, AuditInv, Decided, GateDecided, AckIsDue, Flagged, Candidates,
              LandedInv, RollbackInv, CommandAt, Early, Transactional
<1>t. graph \in Graphs \cup {Torn}
  BY DEF AuditInv, LandedInv, RollbackInv, TypeInv, TypeOK
<1>4. CASE applyToGraph
  <2>1. pc = "apply" /\ op' = op /\ pc' \in {"exit", "writeGraph"}
        /\ result' \in {"none", "nothingLanded"} /\ graph' = graph
        /\ (pc' = "writeGraph" =>
              /\ graph \in Graphs /\ after' = [graph EXCEPT !.landed = @ \cup op.items]
              /\ op.cmd = "batch" => ~applyRefuses)
    BY <1>4, <1>t DEF applyToGraph, Finish, memory, disk
  <2>2. graph \in Graphs /\ after' = [graph EXCEPT !.landed = @ \cup op.items] =>
            HonestGraph(after')
    BY MarkersAssumption DEF HonestGraph, AuditInv, Graphs
  <2>3. ~applyRefuses /\ op.cmd = "batch" => Flagged = {}
    BY DEF applyRefuses
  <2> QED BY <2>1, <2>2, <2>3 DEF AuditInv, Decided, GateDecided, AckIsDue, Flagged, Candidates
<1>5. CASE writeGraphFile
  BY <1>5 DEF writeGraphFile, applyStepFailed, Goto, Finish, memory, AuditInv, Decided,
              GateDecided, AckIsDue, Flagged, Candidates
<1>6. CASE pinLock
  BY <1>6 DEF pinLock, applyStepFailed, Goto, Finish, memory, AuditInv, Decided,
              GateDecided, AckIsDue, Flagged, Candidates
<1>7. CASE noteLock
  <2>1. op' = op /\ graph' = graph /\ pc = "noteLock"
        /\ pc' \in {"ackGraph", "exit", "generate", "rbGraph"} /\ hadConflict' = hadConflict
        /\ (pc' = "ackGraph" => hadConflict /\ hasAck)
        /\ (result' \in {"applied", "landed"} => op.cmd = "apply" /\ ~(hadConflict /\ hasAck))
    BY <1>7 DEF noteLock, afterApply, applyStepFailed, Rollback, Goto, Finish, memory
  <2>2. op.cmd = "apply" /\ op.override = "ack" /\ ~(hadConflict /\ hasAck) => Flagged = {}
    BY <2>1 DEF hasAck, AuditInv, LandedInv, Gated
  <2> QED
    BY <2>1, <2>2 DEF AuditInv, Decided, GateDecided, AckIsDue, Flagged, Candidates, hasAck
<1>8. CASE ackGraph
  BY <1>8 DEF ackGraph, ackFailed, Rollback, Goto, Finish, memory, AuditInv, Decided,
              GateDecided, AckIsDue, Flagged, Candidates
<1>9. CASE ackLock
  <2>1. op' = op /\ graph' = graph /\ pc = "ackLock" /\ pc' \in {"exit", "generate", "rbGraph"}
    BY <1>9 DEF ackLock, afterApply, ackFailed, Rollback, Goto, Finish, memory
  <2>2. op.override = "ack" => Flagged \subseteq graph.acked
    <3>1. op.cmd # "gen"
      BY <2>1 DEF AuditInv, LandedInv, RollbackInv, CommandAt
    <3> QED BY <2>1, <3>1 DEF AuditInv, LandedInv, Acknowledged, hasAck
  <2> QED
    BY <2>1, <2>2 DEF Decided, GateDecided, AckIsDue, Flagged, Candidates
<1>10. CASE genSpec
  BY <1>10 DEF genSpec, genFailed, Rollback, Goto, Finish, memory, Decided, GateDecided, AckIsDue
<1>11. CASE verify
  <2>1. op' = op /\ graph' = graph /\ pc = "verify" /\ pc' \in {"exit", "rbGraph"}
    BY <1>11 DEF verify, Rollback, Finish, memory, disk
  <2>2. op.override = "ack" => Flagged \subseteq graph.acked
    <3>1. op.cmd # "gen"
      BY <2>1 DEF AuditInv, LandedInv, RollbackInv, CommandAt, Transactional
    <3> QED BY <2>1, <3>1 DEF AuditInv, LandedInv, Acknowledged, hasAck
  <2> QED
    BY <2>1, <2>2 DEF Decided, GateDecided, AckIsDue, Flagged, Candidates
<1>12. CASE restoreGraph \/ restoreLock \/ regenerate \/ restoreSpec
  <2>1. pc' \in {"rbLock", "rbGen", "rbSpec", "exit"} /\ result' \notin {"landed", "applied"}
    BY <1>12 DEF restoreGraph, restoreLock, regenerate, restoreSpec, restoreFailed, Goto,
                 Finish, memory
  <2> QED BY <2>1 DEF Decided, GateDecided, AckIsDue
<1>13. CASE Exit \/ Crash
  BY <1>13 DEF Exit, Crash, Forget, Decided, GateDecided, AckIsDue
<1>14. CASE HandEdit \/ SetDiscipline
  BY <1>14 DEF HandEdit, SetDiscipline, Decided, GateDecided, AckIsDue
<1>15. CASE UNCHANGED vars
  BY <1>15 DEF vars, AuditInv, AuditIsHonest, Decided, GateDecided, AckIsDue, Flagged,
               Candidates, hasAck
<1> QED
  BY <1>1, <1>2, <1>3, <1>4, <1>5, <1>6, <1>7, <1>8, <1>9, <1>10, <1>11, <1>12, <1>13,
     <1>14, <1>15 DEF Next, Step

(* The audit trail never lies: an acknowledgement entry exists only for a    *)
(* blocked requirement that is in the graph, and a command that succeeded on *)
(* the strength of one has written it (appendAckHistory).                    *)
THEOREM AuditHonest == Spec => []AuditIsHonest
<1>1. AuditInv => AuditIsHonest
  BY DEF AuditInv
<1> QED BY <1>1, InitAudit, StepAudit, PTL DEF Spec

-----------------------------------------------------------------------------
(* A rollback starts from a graph that still holds all it will restore.      *)
LEMMA StepUndoable == LandedInv /\ Undoable /\ [Next]_vars => Undoable'
<1> SUFFICES ASSUME LandedInv, Undoable, [Next]_vars, pc' = "rbGraph"
             PROVE  before'.graph.landed \subseteq graph'.landed \/ graph' = Torn
  BY DEF Undoable
<1>1. CASE noteLock \/ ackGraph \/ ackLock \/ genSpec \/ verify
  <2>1. pc \in Writing \cup {"generate", "verify"} /\ graph' = graph /\ before' = before
    BY <1>1 DEF noteLock, ackGraph, ackLock, genSpec, verify, afterApply, applyStepFailed,
                ackFailed, genFailed, Rollback, Goto, Finish, memory, disk, Writing
  <2>2. op.cmd # "gen"
    <3>1. pc' = "rbGraph" => op.cmd # "gen"
      BY <1>1 DEF noteLock, ackGraph, ackLock, genSpec, verify, afterApply, applyStepFailed,
                ackFailed, genFailed, Rollback, Goto, Finish, LandedInv, RollbackInv, CommandAt,
                Writing, Transactional
    <3> QED BY <3>1
  <2>3. graph.landed = before.graph.landed \cup op.items
    BY <2>1, <2>2 DEF LandedInv, Held
  <2> QED BY <2>1, <2>3
<1>2. CASE Invoke \/ Gate \/ snapshotGraphFiles \/ applyToGraph \/ writeGraphFile \/ pinLock
  BY <1>2 DEF Invoke, Gate, snapshotGraphFiles, applyToGraph, writeGraphFile, pinLock,
              applyStepFailed, Goto, Finish
<1>3. CASE restoreGraph \/ restoreLock \/ regenerate \/ restoreSpec \/ Exit \/ Crash
  BY <1>3 DEF restoreGraph, restoreLock, regenerate, restoreSpec, Exit, Crash, Forget,
              restoreFailed, Goto, Finish
<1>4. CASE HandEdit \/ SetDiscipline \/ UNCHANGED vars
  BY <1>4 DEF HandEdit, SetDiscipline, vars, memory, disk, Undoable
<1> QED BY <1>1, <1>2, <1>3, <1>4 DEF Next, Step

(* No requirement passes an unresolved carrier without recorded evidence:    *)
(* not by a batch, not by the write-back of a rollback, not over the debris  *)
(* of an earlier crash (semanticConflictGate, runSyncGates).                 *)
THEOREM NothingPassesABlocker == Spec => BlockedNeedsDecision
<1> DEFINE NoneNew == graph # Torn /\ graph' # Torn =>
               \A r \in Blocked : r \in graph'.landed \ graph.landed =>
                   op.cmd # "batch" /\ op.override \in {"ack", "signoff"}
<1>1. AuditInv /\ Undoable /\ [Next]_vars => [NoneNew]_vars
  <2> SUFFICES ASSUME AuditInv, Undoable, [Next]_vars, graph # Torn, graph' # Torn,
                      NEW r \in Blocked, r \in graph'.landed, r \notin graph.landed
               PROVE  op.cmd # "batch" /\ op.override \in {"ack", "signoff"}
    OBVIOUS
  <2>1. graph \in Graphs /\ (\A A : [graph EXCEPT !.acked = A].landed = graph.landed)
        /\ [graph EXCEPT !.edited = TRUE].landed = graph.landed
    BY DEF AuditInv, LandedInv, RollbackInv, TypeInv, TypeOK, Graphs
  <2>2. ~(pc = "rbGraph" /\ graph' = before.graph)
    BY DEF Undoable
  <2>3. pc = "writeGraph" /\ graph' = after
    BY <2>1, <2>2, GraphStep DEF AuditInv
  <2>4. r \in op.items
    <3>1. after.landed = before.graph.landed \cup op.items /\ graph = before.graph
      BY <2>3 DEF AuditInv, LandedInv, Prepared, RollbackInv, Untouched, Early, directory
    <3> QED BY <2>3, <3>1
  <2>5. r \in Flagged
    BY <2>4, InputsAssumption DEF Flagged, Candidates
  <2> QED BY <2>3, <2>5 DEF AuditInv, Decided
<1>2. Init => Undoable
  BY DEF Init, Undoable
<1>3. AuditInv => LandedInv
  BY DEF AuditInv
<1> QED
  BY <1>1, <1>2, <1>3, InitAudit, StepAudit, StepUndoable, PTL DEF Spec, BlockedNeedsDecision

-----------------------------------------------------------------------------
(* While graph.lock can be written, a refusal by a gate or by the apply step *)
(* leaves the whole directory as it was, whatever else fails, dies or is     *)
(* edited.  Without the hypothesis it is false: run LandLockWrite.           *)
THEOREM NothingLandedTrue == "lockWrite" \notin Faults => (Spec => []NothingLandedIsTrue)
<1> SUFFICES ASSUME "lockWrite" \notin Faults PROVE Spec => []NothingLandedIsTrue OBVIOUS
<1>1. RollbackInv /\ NothingLandedIsTrue /\ [Next]_vars => NothingLandedIsTrue'
  <2> SUFFICES ASSUME RollbackInv, NothingLandedIsTrue, [Next]_vars, result' = "nothingLanded"
               PROVE  directory' = before'
    BY DEF NothingLandedIsTrue
  <2>1. CASE Gate \/ applyToGraph \/ writeGraphFile
    <3>1. pc \in Early /\ before' = before
      BY <2>1 DEF Gate, applyToGraph, writeGraphFile, applyStepFailed, Goto, Finish, memory, Early
    <3>2. UNCHANGED disk
      <4>1. pc # "exit" => result = "none"
        BY DEF RollbackInv
      <4> QED
        BY <2>1, <3>1, <4>1 DEF Gate, applyToGraph, writeGraphFile, applyStepFailed, Goto, Finish,
                           disk, docs, Early
    <3> QED BY <3>1, <3>2 DEF RollbackInv, Untouched, directory, disk
  <2>2. CASE Invoke \/ snapshotGraphFiles \/ pinLock \/ noteLock \/ ackGraph \/ ackLock
             \/ genSpec \/ verify
    BY <2>2 DEF RollbackInv, Invoke, snapshotGraphFiles, pinLock, noteLock, ackGraph, ackLock,
                genSpec, verify, afterApply, ackFailed, genFailed, Rollback, Goto, Finish
  <2>3. CASE restoreGraph \/ restoreLock \/ regenerate \/ restoreSpec \/ Exit \/ Crash
    BY <2>3 DEF RollbackInv, restoreGraph, restoreLock, regenerate, restoreSpec, Exit, Crash,
                Forget, restoreFailed, Goto, Finish
  <2>4. CASE HandEdit \/ SetDiscipline
    BY <2>4 DEF RollbackInv, HandEdit, SetDiscipline
  <2>5. CASE UNCHANGED vars
    BY <2>5 DEF NothingLandedIsTrue, vars, directory
  <2> QED BY <2>1, <2>2, <2>3, <2>4, <2>5 DEF Next, Step
<1>2. Init => NothingLandedIsTrue
  BY DEF Init, NothingLandedIsTrue
<1> QED BY <1>1, <1>2, InitRollback, StepRollback, PTL DEF Spec

-----------------------------------------------------------------------------
(* The pipeline implements Transaction.  The inductive invariant keeps the   *)
(* graph readable and says how far the graph of a running command has moved  *)
(* from the one it started with.                                             *)
Reliable == Faults \cap {"graphWrite", "lockWrite", "restore", "crash"} = {}

Moved ==
    /\ pc = "generate" /\ op.cmd = "gen" => graph = before.graph
    /\ pc = "writeGraph" => after.acked = before.graph.acked
    /\ pc \in Writing \cup {"generate", "verify"} /\ op.cmd # "gen" =>
           /\ before.graph.acked \subseteq graph.acked
           /\ graph.acked \subseteq before.graph.acked \cup op.items

TransactionInv == AuditInv /\ graph # Torn /\ (pc # "idle" => before.graph # Torn) /\ Moved

LEMMA InitTransaction == Init => TransactionInv
BY InitAudit, ForgetType, MarkersAssumption DEF Init, TransactionInv, Moved, Writing

LEMMA StepTransaction == Reliable /\ TransactionInv /\ [Next]_vars => TransactionInv'
<1> SUFFICES ASSUME Reliable, TransactionInv, [Next]_vars PROVE TransactionInv' OBVIOUS
<1>a. AuditInv'
  BY StepAudit DEF TransactionInv
<1>t. graph \in Graphs /\ after \in Graphs
  BY DEF TransactionInv, AuditInv, LandedInv, RollbackInv, TypeInv, TypeOK
<1>c. ~Crash
  BY DEF Crash, Reliable
<1>1. graph' # Torn
  <2>1. pc \in Undoing => before.graph # Torn
    BY DEF TransactionInv, Undoing
  <2>2. CASE restoreGraph
    BY <2>1, <2>2 DEF restoreGraph, restoreFailed, Reliable, TransactionInv, AuditInv,
                      LandedInv, RollbackInv, SnapshotIsOld, CommandAt, Undoing
  <2>3. CASE graph' \in Graphs
    BY <2>3, MarkersAssumption
  <2>4. [graph EXCEPT !.acked = @ \cup acknowledged] \in Graphs
        /\ [graph EXCEPT !.edited = TRUE] \in Graphs
    BY <1>t DEF acknowledged, Flagged, Candidates, Graphs
  <2>5. graph' = Torn => restoreGraph \/ Crash
    <3>1. CASE Invoke \/ Gate \/ snapshotGraphFiles \/ applyToGraph \/ writeGraphFile \/ pinLock
               \/ noteLock \/ ackGraph \/ ackLock
      BY <3>1, <1>t, <2>3, <2>4 DEF Invoke, Gate, snapshotGraphFiles, applyToGraph, writeGraphFile,
               pinLock, noteLock, ackGraph, ackLock, disk
    <3>2. CASE genSpec \/ verify \/ restoreLock \/ regenerate \/ restoreSpec \/ Exit \/ HandEdit
               \/ SetDiscipline \/ UNCHANGED vars
      BY <3>2, <1>t, <2>3, <2>4 DEF genSpec, verify, restoreLock, regenerate, restoreSpec, Exit,
               HandEdit, SetDiscipline, disk, vars
    <3> QED BY <3>1, <3>2 DEF Next, Step
  <2> QED BY <1>c, <2>2, <2>5
<1> DEFINE Rest == (pc # "idle" => before.graph # Torn) /\ Moved
<1> SUFFICES Rest'
  BY <1>a, <1>1 DEF TransactionInv
<1> USE DEF Writing
<1>2. CASE Invoke
  <2>1. pc' \in {"generate", "snapshot", "gate"} /\ (pc' = "generate" => op'.cmd = "gen")
        /\ before'.graph = graph /\ graph' = graph
    BY <1>2 DEF Invoke, disk, directory
  <2> QED BY <2>1 DEF TransactionInv, Moved
<1>3. CASE Gate \/ snapshotGraphFiles
  <2>1. pc' \in {"exit", "snapshot", "apply"} /\ before' = before /\ pc # "idle"
    BY <1>3 DEF Gate, snapshotGraphFiles, Finish, memory
  <2> QED BY <2>1 DEF TransactionInv, Moved
<1>4. CASE applyToGraph
  <2>1. pc = "apply" /\ pc' \in {"exit", "writeGraph"} /\ before' = before
        /\ (pc' = "writeGraph" => after' = [graph EXCEPT !.landed = @ \cup op.items])
    BY <1>4 DEF applyToGraph, Finish, memory
  <2>2. graph = before.graph
    BY <2>1 DEF TransactionInv, AuditInv, LandedInv, RollbackInv, Untouched, Early, directory
  <2>3. [graph EXCEPT !.landed = @ \cup op.items].acked = graph.acked
    BY <1>t DEF Graphs
  <2> QED BY <2>1, <2>2, <2>3 DEF TransactionInv, Moved
<1>5. CASE writeGraphFile
  <2>1. pc = "writeGraph" /\ pc' = "pinLock" /\ graph' = after /\ op' = op /\ before' = before
    BY <1>5 DEF writeGraphFile, Reliable, Goto, memory
  <2> QED BY <2>1 DEF TransactionInv, Moved
<1>6. CASE pinLock \/ noteLock \/ ackLock
  <2>1. pc \in Writing /\ op.cmd # "gen"
    BY <1>6 DEF pinLock, noteLock, ackLock, TransactionInv, AuditInv, LandedInv, RollbackInv,
                CommandAt
  <2>2. pc' \in {"noteLock", "ackGraph", "generate", "exit"}
        /\ UNCHANGED <<op, before, graph>>
    BY <1>6 DEF pinLock, noteLock, ackLock, Reliable, Goto, Finish, afterApply, memory
  <2> QED BY <2>1, <2>2 DEF TransactionInv, Moved
<1>7. CASE ackGraph
  <2>1. pc = "ackGraph" /\ pc' = "ackLock" /\ UNCHANGED <<op, before>> /\ op.cmd # "gen"
        /\ graph' = [graph EXCEPT !.acked = @ \cup acknowledged]
    BY <1>7 DEF ackGraph, Reliable, Goto, memory, TransactionInv, AuditInv, LandedInv,
                RollbackInv, CommandAt
  <2>2. graph'.acked = graph.acked \cup acknowledged
    BY <2>1, <1>t DEF Graphs
  <2>3. acknowledged \subseteq op.items
    BY DEF acknowledged, Flagged, Candidates
  <2> QED BY <2>1, <2>2, <2>3 DEF TransactionInv, Moved
<1>8. CASE genSpec \/ verify
  <2>1. pc \in {"generate", "verify"} /\ UNCHANGED <<op, before, graph>>
        /\ pc' \in {"verify", "rbGraph", "exit"} /\ (pc' = "verify" => op.cmd # "gen")
    BY <1>8 DEF genSpec, verify, genFailed, Goto, Finish, Rollback, memory, disk
  <2> QED BY <2>1 DEF TransactionInv, Moved
<1>9. CASE restoreGraph \/ restoreLock \/ regenerate \/ restoreSpec
  <2>1. pc' \in {"rbLock", "rbGen", "rbSpec", "exit"} /\ before' = before /\ pc # "idle"
    BY <1>9 DEF restoreGraph, restoreLock, regenerate, restoreSpec, restoreFailed, Goto,
                Finish, memory
  <2> QED BY <2>1 DEF TransactionInv, Moved
<1>10. CASE Exit \/ HandEdit \/ SetDiscipline
  BY <1>10 DEF Exit, Forget, HandEdit, SetDiscipline, Moved
<1>11. CASE UNCHANGED vars
  BY <1>11 DEF vars, TransactionInv, Moved
<1> QED
  BY <1>c, <1>2, <1>3, <1>4, <1>5, <1>6, <1>7, <1>8, <1>9, <1>10, <1>11 DEF Next, Step

(* A command that succeeds has committed, any other has changed nothing.     *)
LEMMA EndsTransaction ==
    ASSUME Reliable, TransactionInv, [Next]_vars, pc \notin {"idle", "exit"}, pc' = "exit"
    PROVE  T!Commit \/ T!Abort
<1>t. graph \in Graphs /\ before.graph # Torn /\ UNCHANGED <<op, before>>
  BY OpStep DEF TransactionInv, AuditInv, LandedInv, RollbackInv, TypeInv, TypeOK
<1>o. outcome = "running" /\ visible = before.graph /\ visible' = graph'
  BY DEF outcome, visible
<1>g. CASE graph'.landed = before.graph.landed /\ graph'.acked = before.graph.acked
           /\ result' \notin {"landed", "applied", "generated"}
  <2>1. outcome' = "aborted"
    BY <1>g DEF outcome
  <2> QED BY <1>t, <1>o, <1>g, <2>1 DEF T!Abort
<1>d. ASSUME result' \in {"landed", "applied", "generated"}, graph' = graph,
             graph.landed = before.graph.landed \cup op.items,
             before.graph.acked \subseteq graph.acked,
             graph.acked \subseteq before.graph.acked \cup op.items
      PROVE  T!Commit
  <2>1. outcome' = "done"
    BY <1>d DEF outcome
  <2>2. \E A \in SUBSET op.items : graph'.acked = before.graph.acked \cup A
    <3>1. graph.acked \ before.graph.acked \in SUBSET op.items
          /\ graph'.acked = before.graph.acked \cup (graph.acked \ before.graph.acked)
      BY <1>d
    <3> QED BY <3>1
  <2> QED BY <1>t, <1>o, <1>d, <2>1, <2>2 DEF T!Commit
<1>1. CASE Gate \/ applyToGraph
  <2>1. pc \in Early /\ graph' = graph /\ result' = "nothingLanded"
    BY <1>1 DEF Gate, applyToGraph, Finish, disk, Early
  <2> QED BY <1>g, <2>1 DEF TransactionInv, AuditInv, LandedInv, RollbackInv, Untouched, directory
<1>2. CASE noteLock \/ ackLock
  <2>1. pc \in Writing /\ graph' = graph /\ result' = "applied" /\ op.cmd # "gen"
    BY <1>2 DEF noteLock, ackLock, afterApply, Reliable, Goto, Finish, Writing, TransactionInv,
                AuditInv, LandedInv, RollbackInv, CommandAt
  <2> QED BY <1>d, <2>1 DEF TransactionInv, Moved, AuditInv, LandedInv, Held
<1>3. CASE genSpec
  <2>1. pc = "generate" /\ graph' = graph /\ result' \in {"generated", "writeError"}
        /\ op.cmd = "gen"
    BY <1>3 DEF genSpec, genFailed, Rollback, Goto, Finish
  <2>2. graph = before.graph /\ op.items = {}
    BY <2>1 DEF TransactionInv, Moved, AuditInv, Legal
  <2> QED BY <1>g, <1>d, <2>1, <2>2
<1>4. CASE verify
  <2>1. pc = "verify" /\ graph' = graph /\ result' = "landed" /\ op.cmd # "gen"
    BY <1>4 DEF verify, Rollback, Finish, disk, TransactionInv, AuditInv, LandedInv,
                RollbackInv, CommandAt, Transactional
  <2> QED BY <1>d, <2>1 DEF TransactionInv, Moved, AuditInv, LandedInv, Held
<1>5. CASE restoreGraph \/ restoreLock \/ regenerate \/ restoreSpec
  <2>1. pc \in {"rbGen", "rbSpec"} /\ graph' = graph /\ result' = "rolledBack"
    BY <1>5 DEF restoreGraph, restoreLock, regenerate, restoreSpec, restoreFailed, Reliable,
                Goto, Finish
  <2> QED BY <1>g, <2>1 DEF TransactionInv, AuditInv, LandedInv, RollbackInv, Undone
<1>6. CASE Invoke \/ snapshotGraphFiles \/ writeGraphFile \/ pinLock \/ ackGraph
  BY <1>6 DEF Invoke, snapshotGraphFiles, writeGraphFile, pinLock, ackGraph, Reliable, Goto
<1>7. CASE Exit \/ Crash \/ HandEdit \/ SetDiscipline \/ UNCHANGED vars
  BY <1>7 DEF Exit, Crash, Forget, HandEdit, SetDiscipline, vars
<1> QED BY <1>1, <1>2, <1>3, <1>4, <1>5, <1>6, <1>7 DEF Next, Step

(* `hotam land` and the other commands are all-or-nothing transactions whose *)
(* reports are true, when neither a write nor a restore of graph.json or     *)
(* graph.lock fails and no process is killed: renders and verifications may  *)
(* fail, proposals be refused and people edit both files between commands.   *)
THEOREM PipelineIsTransaction == Reliable => (Spec => ImplementsTransaction)
<1> SUFFICES ASSUME Reliable PROVE Spec => ImplementsTransaction OBVIOUS
<1>1. Init => T!Init
  BY DEF Init, T!Init, T!Idle, visible, outcome, EmptyGraph, NoOp
<1>2. TransactionInv /\ [Next]_vars => [T!Next]_T!vars
  <2> SUFFICES ASSUME TransactionInv, [Next]_vars PROVE T!Next \/ UNCHANGED T!vars
    OBVIOUS
  <2>g. graph \in Graphs
    BY DEF TransactionInv, AuditInv, LandedInv, RollbackInv, TypeInv, TypeOK
  <2>1. CASE Invoke
    <3>1. pc = "idle" /\ pc' \in {"generate", "snapshot", "gate"} /\ before'.graph = graph
          /\ op'.items \in SUBSET Proposals
      BY <2>1 DEF Invoke, Ops, directory
    <3>2. outcome = "idle" /\ outcome' = "running" /\ visible = graph /\ visible' = graph
      BY <3>1 DEF outcome, visible
    <3> QED BY <3>1, <3>2 DEF T!Next, T!Begin, T!Idle
  <2>2. CASE Exit
    <3>1. pc = "exit" /\ pc' = "idle" /\ graph' = graph /\ op' = NoOp
      BY <2>2 DEF Exit, Forget, disk
    <3>2. outcome \in {"done", "aborted"} /\ outcome' = "idle" /\ visible = graph
          /\ visible' = graph
      BY <3>1 DEF outcome, visible
    <3> QED BY <3>1, <3>2 DEF T!Next, T!Close, T!Idle, NoOp
  <2>3. CASE HandEdit \/ SetDiscipline
    <3>1. pc = "idle" /\ pc' = "idle" /\ op' = op
          /\ (graph' = graph \/ graph' = [graph EXCEPT !.edited = TRUE])
      BY <2>3 DEF HandEdit, SetDiscipline, disk, memory
    <3>2. graph'.landed = graph.landed /\ graph'.acked = graph.acked
      BY <3>1, <2>g DEF Graphs
    <3> QED BY <3>1, <3>2 DEF T!vars, outcome, visible
  <2>4. CASE UNCHANGED vars
    BY <2>4 DEF vars, T!vars, outcome, visible
  <2>5. CASE pc \notin {"idle", "exit"} /\ pc' = "exit"
    BY <2>5, EndsTransaction DEF T!Next
  <2>6. CASE pc \notin {"idle", "exit"} /\ pc' \notin {"idle", "exit"}
    <3>1. op' = op /\ before' = before
      BY <2>6, OpStep DEF TransactionInv
    <3> QED BY <2>6, <3>1 DEF T!vars, outcome, visible
  <2>7. Step => Exit \/ (pc \notin {"idle", "exit"} /\ pc' # "idle")
    BY DEF Step, Gate, snapshotGraphFiles, applyToGraph, writeGraphFile, pinLock, noteLock,
           ackGraph, ackLock, genSpec, verify, restoreGraph, restoreLock, regenerate,
           restoreSpec, afterApply, applyStepFailed, ackFailed, genFailed, restoreFailed,
           Rollback, Goto, Finish
  <2>8. ~Crash
    BY DEF Crash, Reliable
  <2> QED BY <2>1, <2>2, <2>3, <2>4, <2>5, <2>6, <2>7, <2>8 DEF Next
<1>3. TransactionInv /\ [Next]_vars => TransactionInv'
  BY StepTransaction
<1> QED BY <1>1, <1>2, <1>3, InitTransaction, PTL DEF Spec, ImplementsTransaction, T!Spec
=============================================================================
