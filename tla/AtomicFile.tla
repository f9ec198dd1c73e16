----------------------------- MODULE AtomicFile -----------------------------
(***************************************************************************)
(* atomicWriteFile of the loader, the writer of graph.json, graph.lock and *)
(* manifest.json, over a file system with inodes, a page cache and a       *)
(* journal of names, next to readers that read the file in pieces.         *)
(*                                                                         *)
(* A file is Chunks pieces long.  What is written is one value in every    *)
(* piece, so that a file is whole exactly when all its pieces agree.  The  *)
(* file system is external: its actions say what a process may rely on.    *)
(*                                                                         *)
(* A definition named after another one with a suffix (syncSkipped, ...)   *)
(* is that definition with a plausible slip.  Next uses none of them.      *)
(***************************************************************************)
EXTENDS Naturals

CONSTANTS
    Writers,    \* processes inside atomicWriteFile on one path
    Readers,    \* processes inside os.ReadFile of it
    Data,       \* what may be written
    Inodes,
    Chunks,     \* pieces of a file
    Faults,     \* system calls that may fail, and the ways to stop
    None        \* no inode, no value

FaultKinds == {"open", "write", "sync", "rename", "kill", "power"}

ASSUME FileAssumption ==
    /\ Chunks \in Nat \ {0} /\ Faults \subseteq FaultKinds
    /\ None \notin Data /\ None \notin Inodes

(* One process at a time writes a path: the condition the theorems need. *)
SingleWriter == \A v, w \in Writers : v = w

Pieces == 1 .. Chunks
Nul == "nul"            \* a hole, or a block the disk never received
End == "end"            \* past the end of the file

ASSUME PieceAssumption == Nul \notin Data /\ End \notin Data

Contents == [Pieces -> Data \cup {Nul, End}]
Empty == [k \in Pieces |-> End]
Full(d) == [k \in Pieces |-> d]
Whole(c) == \E d \in Data : c = Full(d)

VARIABLES
    names,      \* what `path` and `path + ".tmp"` are bound to, as processes see it
    onDisk,     \* the same as far as the journal has written it
    content,    \* of each inode
    synced,     \* the inodes whose content is on disk
    pc, fd, at, data,       \* of each writer: where it is, its file, its offset, its value
    report,                 \* what its last call returned
    rfd, rat, got, opened   \* of each reader; history: what `path` held when it opened it

files == <<names, onDisk, content, synced>>
writers == <<pc, fd, at, data, report>>
readers == <<rfd, rat, got, opened>>
vars == <<names, onDisk, content, synced, pc, fd, at, data, report, rfd, rat, got, opened>>

NoNames == [path |-> None, tmp |-> None]

Init ==
    /\ names = NoNames /\ onDisk = NoNames
    /\ content = [i \in Inodes |-> Empty] /\ synced = {}
    /\ pc = [w \in Writers |-> "idle"] /\ fd = [w \in Writers |-> None]
    /\ at = [w \in Writers |-> 1] /\ data = [w \in Writers |-> None]
    /\ report = [w \in Writers |-> "none"]
    /\ rfd = [r \in Readers |-> None] /\ rat = [r \in Readers |-> 1]
    /\ got = [r \in Readers |-> Empty] /\ opened = [r \in Readers |-> Empty]

(* What a reader of `path` finds at this instant. *)
Held == IF names.path = None THEN Empty ELSE content[names.path]

InUse(i) ==
    \/ i \in {names.path, names.tmp, onDisk.path, onDisk.tmp}
    \/ \E w \in Writers : fd[w] = i
    \/ \E r \in Readers : rfd[r] = i

-----------------------------------------------------------------------------
(* The call: marshalled data, the directory made. *)
Call(w) ==
    /\ pc[w] = "idle"
    /\ \E d \in Data : data' = [data EXCEPT ![w] = d]
    /\ pc' = [pc EXCEPT ![w] = "open"] /\ report' = [report EXCEPT ![w] = "none"]
    /\ UNCHANGED <<files, fd, at, readers>>

Return(w, r) ==
    /\ pc' = [pc EXCEPT ![w] = "idle"] /\ fd' = [fd EXCEPT ![w] = None]
    /\ at' = [at EXCEPT ![w] = 1] /\ report' = [report EXCEPT ![w] = r]
    /\ data' = IF r = "ok" THEN data ELSE [data EXCEPT ![w] = None]

(* cleanup removes the name, whoever created the file it names. *)
Cleanup == names' = [names EXCEPT !.tmp = None]

(* OpenFile(tmp, O_CREATE|O_TRUNC): an existing temp file is emptied. *)
Opened(w, i) ==
    /\ content' = [content EXCEPT ![i] = Empty] /\ synced' = synced \ {i}
    /\ fd' = [fd EXCEPT ![w] = i] /\ at' = [at EXCEPT ![w] = 1]
    /\ pc' = [pc EXCEPT ![w] = "write"] /\ UNCHANGED <<data, report>>

Open(w) ==
    /\ pc[w] = "open" /\ UNCHANGED <<onDisk, readers>>
    /\ \/ names.tmp # None /\ UNCHANGED names /\ Opened(w, names.tmp)
       \/ /\ names.tmp = None
          /\ \E i \in Inodes : ~InUse(i) /\ names' = [names EXCEPT !.tmp = i] /\ Opened(w, i)
       \/ "open" \in Faults /\ UNCHANGED <<names, content, synced>> /\ Return(w, "error")

(* f.Write, one piece at a time at the writer's own offset. *)
Put(w) == [content EXCEPT ![fd[w]] =
    [k \in Pieces |-> IF k = at[w] THEN data[w]
                      ELSE IF k < at[w] /\ @[k] = End THEN Nul ELSE @[k]]]

WriteOffByOne(w) ==
    /\ pc[w] = "write" /\ UNCHANGED <<onDisk, readers>>
    /\ content' = Put(w) /\ synced' = synced \ {fd[w]} /\ at' = [at EXCEPT ![w] = @ + 1]
    /\ pc' = [pc EXCEPT ![w] = IF at[w] > Chunks THEN "sync" ELSE "write"]
    /\ UNCHANGED <<names, fd, data, report>>

Write(w) ==
    /\ pc[w] = "write" /\ UNCHANGED <<onDisk, readers>>
    /\ \/ /\ content' = Put(w) /\ synced' = synced \ {fd[w]}
          /\ at' = [at EXCEPT ![w] = @ + 1]
          /\ pc' = [pc EXCEPT ![w] = IF at[w] = Chunks THEN "sync" ELSE "write"]
          /\ UNCHANGED <<names, fd, data, report>>
       \/ "write" \in Faults /\ Cleanup /\ Return(w, "error") /\ UNCHANGED <<content, synced>>

syncSkipped(w) ==
    /\ pc[w] = "sync" /\ UNCHANGED <<onDisk, content, synced, readers>>
    /\ pc' = [pc EXCEPT ![w] = "rename"] /\ UNCHANGED <<names, fd, at, data, report>>

Sync(w) ==
    /\ pc[w] = "sync" /\ UNCHANGED <<onDisk, content, readers>>
    /\ \/ /\ synced' = synced \cup {fd[w]} /\ pc' = [pc EXCEPT ![w] = "rename"]
          /\ UNCHANGED <<names, fd, at, data, report>>
       \/ "sync" \in Faults /\ Cleanup /\ Return(w, "error") /\ UNCHANGED synced

RenameUnchecked(w) ==
    /\ pc[w] = "rename" /\ UNCHANGED <<onDisk, content, synced, readers>>
    /\ \/ names.tmp # None /\ names' = [path |-> names.tmp, tmp |-> None]
       \/ "rename" \in Faults /\ Cleanup
    /\ Return(w, "ok")

(* Rename moves whatever the temp name is bound to by now. *)
Rename(w) ==
    /\ pc[w] = "rename" /\ UNCHANGED <<onDisk, content, synced, readers>>
    /\ \/ /\ names.tmp # None /\ names' = [path |-> names.tmp, tmp |-> None]
          /\ Return(w, "ok")
       \/ /\ names.tmp = None \/ "rename" \in Faults
          /\ Cleanup /\ Return(w, "error")

(* The writing process dies: nothing is cleaned up. *)
Kill(w) ==
    /\ "kill" \in Faults /\ pc[w] # "idle"
    /\ Return(w, "none") /\ UNCHANGED <<files, readers>>

-----------------------------------------------------------------------------
(* os.ReadFile: one open, then piece after piece of that inode. *)
ReadOpen(r) ==
    /\ rfd[r] = None /\ names.path # None
    /\ rfd' = [rfd EXCEPT ![r] = names.path] /\ rat' = [rat EXCEPT ![r] = 1]
    /\ got' = [got EXCEPT ![r] = Empty] /\ opened' = [opened EXCEPT ![r] = Held]
    /\ UNCHANGED <<files, writers>>

Read(r) ==
    /\ rfd[r] # None /\ rat[r] <= Chunks
    /\ got' = [got EXCEPT ![r][rat[r]] = content[rfd[r]][rat[r]]]
    /\ rat' = [rat EXCEPT ![r] = @ + 1]
    /\ UNCHANGED <<files, writers, rfd, opened>>

ReadClose(r) ==
    /\ rfd[r] # None /\ rat[r] > Chunks
    /\ rfd' = [rfd EXCEPT ![r] = None]
    /\ UNCHANGED <<files, writers, rat, got, opened>>

-----------------------------------------------------------------------------
(* A file without a name and without an open descriptor is freed, at the      *)
(* latest when the names are journaled.                                       *)
Freed(i) ==
    /\ i \notin {names.path, names.tmp} /\ \A w \in Writers : fd[w] # i
    /\ \A r \in Readers : rfd[r] # i

(* The file system writes its journal of names, in order, whenever it likes. *)
Journal ==
    /\ onDisk' = names /\ onDisk # names
    /\ content' = [i \in Inodes |-> IF Freed(i) THEN Empty ELSE content[i]]
    /\ synced' = {i \in synced : ~Freed(i)}
    /\ UNCHANGED <<names, writers, readers>>

(* A power failure: names as journaled; the files not synced have lost any   *)
(* of their pieces; every process is gone.                                   *)
Lost(c, kept) == [k \in Pieces |-> IF k \in kept \/ c[k] = End THEN c[k] ELSE Nul]

Power ==
    /\ "power" \in Faults /\ names' = onDisk /\ UNCHANGED onDisk
    /\ \E kept \in SUBSET Pieces :
        content' = [i \in Inodes |->
            IF i \notin {onDisk.path, onDisk.tmp} THEN Empty
            ELSE IF i \in synced THEN content[i] ELSE Lost(content[i], kept)]
    /\ synced' = synced \cap {onDisk.path, onDisk.tmp}
    /\ pc' = [w \in Writers |-> "idle"] /\ fd' = [w \in Writers |-> None]
    /\ at' = [w \in Writers |-> 1] /\ report' = [w \in Writers |-> "none"]
    /\ data' = [w \in Writers |-> None]
    /\ rfd' = [r \in Readers |-> None] /\ rat' = [r \in Readers |-> 1]
    /\ got' = [r \in Readers |-> Empty] /\ opened' = [r \in Readers |-> Empty]

Running(w) == Open(w) \/ Write(w) \/ Sync(w) \/ Rename(w)

Next ==
    \/ \E w \in Writers : Call(w) \/ Running(w) \/ Kill(w)
    \/ \E r \in Readers : ReadOpen(r) \/ Read(r) \/ ReadClose(r)
    \/ Journal \/ Power

Spec == Init /\ [][Next]_vars

-----------------------------------------------------------------------------
Names == [path : Inodes \cup {None}, tmp : Inodes \cup {None}]

TypeOK ==
    /\ names \in Names /\ onDisk \in Names
    /\ content \in [Inodes -> Contents] /\ synced \subseteq Inodes
    /\ pc \in [Writers -> {"idle", "open", "write", "sync", "rename"}]
    /\ fd \in [Writers -> Inodes \cup {None}] /\ at \in [Writers -> 1 .. Chunks + 1]
    /\ data \in [Writers -> Data \cup {None}]
    /\ report \in [Writers -> {"none", "ok", "error"}]
    /\ rfd \in [Readers -> Inodes \cup {None}] /\ rat \in [Readers -> 1 .. Chunks + 1]
    /\ got \in [Readers -> Contents] /\ opened \in [Readers -> Contents]

(* graph.json, graph.lock and manifest.json are never torn: at every instant *)
(* the file is absent or whole, both as processes see it and as a power      *)
(* failure would leave it (WriteManifest: "the same crash-safe writer").     *)
PathIsWhole ==
    /\ names.path # None => Whole(content[names.path])
    /\ onDisk.path # None => onDisk.path \in synced /\ Whole(content[onDisk.path])

(* LoadGraph reads a snapshot: what it has read so far is what the file held *)
(* when it was opened, however many writes were completed meanwhile.         *)
ReadIsSnapshot == \A r \in Readers : rfd[r] # None =>
    \A k \in Pieces : k < rat[r] => got[r][k] = opened[r][k]

(* When atomicWriteFile returns nil the file is the data of that call and no *)
(* temp file is left, not even one an earlier, killed call left behind.      *)
ReportIsTrue == \A w \in Writers :
    report[w] = "ok" => Held = Full(data[w]) /\ names.tmp = None

(* The file changes only when a call succeeds: an error, a killed process    *)
(* or a half-written temp file is never visible under its name.              *)
OnlySuccessChanges == [][Held' # Held =>
    \/ \E w \in Writers : report'[w] = "ok" /\ report[w] = "none" /\ Held' = Full(data[w])
    \/ names' = onDisk]_vars

(* The value of a whole file is its first piece. *)
ValueOf(i) == IF i = None THEN None ELSE content[i][1]

value == ValueOf(names.path)
durable == ValueOf(onDisk.path)

Register == INSTANCE DurableRegister

(* atomicWriteFile is one durable register write: the file takes the new    *)
(* value in one step, reaches the disk later, and a power failure falls     *)
(* back to the value that had reached it (atomicWriteFile, loader.go).      *)
ImplementsRegister == Register!Spec
=============================================================================
