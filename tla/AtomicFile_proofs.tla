-------------------------- MODULE AtomicFile_proofs --------------------------
(***************************************************************************)
(* With one writing process at a time the file is whole at every instant,  *)
(* for any values, file lengths, inodes, readers and failures.             *)
(***************************************************************************)
EXTENDS AtomicFile, TLAPS

-----------------------------------------------------------------------------
LEMMA ContentTypes ==
    /\ Empty \in Contents /\ \A d \in Data : Full(d) \in Contents
    /\ \A c \in Contents, K \in SUBSET Pieces : Lost(c, K) \in Contents
  BY DEF Empty, Full, Contents, Lost

LEMMA ReturnType ==
    ASSUME TypeOK, NEW w \in Writers, NEW r \in {"none", "ok", "error"}, Return(w, r)
    PROVE  /\ pc' \in [Writers -> {"idle", "open", "write", "sync", "rename"}]
           /\ fd' \in [Writers -> Inodes \cup {None}] /\ at' \in [Writers -> 1 .. Chunks + 1]
           /\ data' \in [Writers -> Data \cup {None}]
           /\ report' \in [Writers -> {"none", "ok", "error"}]
  BY FileAssumption DEF Return, TypeOK

LEMMA PutType ==
    ASSUME TypeOK, NEW w \in Writers, fd[w] \in Inodes, data[w] \in Data
    PROVE  Put(w) \in [Inodes -> Contents]
<1>1. [k \in Pieces |-> IF k = at[w] THEN data[w]
                        ELSE IF k < at[w] /\ content[fd[w]][k] = End THEN Nul
                        ELSE content[fd[w]][k]] \in Contents
  BY DEF TypeOK, Contents
<1> QED BY <1>1 DEF Put, TypeOK

(* Who holds what: a writer past its open has an inode and a value. *)
Holding == \A w \in Writers :
    /\ pc[w] \in {"write", "sync", "rename"} => fd[w] \in Inodes
    /\ pc[w] # "idle" => data[w] \in Data
    /\ pc[w] = "write" => at[w] <= Chunks
    /\ pc[w] \in {"idle", "open"} => fd[w] = None

TypeInv == TypeOK /\ Holding

LEMMA InitType == Init => TypeInv
<1>1. Empty \in Contents
  BY ContentTypes
<1> QED
  BY <1>1, FileAssumption DEF Init, TypeInv, TypeOK, Holding, NoNames, Names

LEMMA WriterType ==
    ASSUME TypeInv, NEW w \in Writers, Call(w) \/ Running(w) \/ Kill(w)
    PROVE  TypeInv'
<1> USE DEF TypeInv
<1> DEFINE W == {"idle", "open", "write", "sync", "rename"}
<1>0. Chunks \in Nat /\ Chunks >= 1 /\ None \notin Data /\ None \notin Inodes
  BY FileAssumption
<1>1. CASE Call(w)
  BY <1>1, <1>0 DEF Call, TypeOK, Holding, files, readers
<1>2. CASE Open(w)
  <2>1. ASSUME NEW i \in Inodes, Opened(w, i), names' \in Names, pc[w] = "open",
               UNCHANGED <<onDisk, readers>>
        PROVE  TypeInv'
    BY <2>1, <1>0, ContentTypes DEF Opened, TypeOK, Holding, readers
  <2>2. CASE names.tmp # None /\ UNCHANGED names /\ Opened(w, names.tmp)
    <3>1. names.tmp \in Inodes /\ names' \in Names
      BY <2>2 DEF TypeOK, Names
    <3> QED BY <3>1, <2>2, <2>1, <1>2 DEF Open
  <2>3. ASSUME NEW i \in Inodes, names' = [names EXCEPT !.tmp = i], Opened(w, i)
        PROVE  TypeInv'
    <3>1. names' \in Names
      BY <2>3 DEF TypeOK, Names
    <3> QED BY <3>1, <2>3, <2>1, <1>2 DEF Open
  <2>4. CASE UNCHANGED <<names, content, synced>> /\ Return(w, "error")
    BY <2>4, <1>2, <1>0 DEF Open, Return, TypeOK, Holding, readers
  <2> QED BY <1>2, <2>2, <2>3, <2>4 DEF Open
<1>3. CASE Write(w)
  <2>1. fd[w] \in Inodes /\ data[w] \in Data /\ at[w] \in Nat /\ at[w] <= Chunks
    BY <1>3, <1>0 DEF Write, Holding, TypeOK
  <2>2. Put(w) \in [Inodes -> Contents]
    BY <2>1, PutType
  <2>3. CASE content' = Put(w)
    BY <1>3, <2>1, <2>2, <2>3, <1>0 DEF Write, Return, Cleanup, TypeOK, Holding, Names, readers
  <2>4. CASE Cleanup /\ Return(w, "error") /\ UNCHANGED <<content, synced>>
    BY <2>4, <1>3, <1>0 DEF Write, Return, Cleanup, TypeOK, Holding, Names, readers
  <2> QED BY <1>3, <2>3, <2>4 DEF Write
<1>4. CASE Sync(w)
  BY <1>4, <1>0 DEF Sync, Return, Cleanup, TypeOK, Holding, Names, readers
<1>5. CASE Rename(w)
  BY <1>5, <1>0 DEF Rename, Return, Cleanup, TypeOK, Holding, Names, readers
<1>6. CASE Kill(w)
  BY <1>6, <1>0 DEF Kill, Return, TypeOK, Holding, files, readers
<1> QED BY <1>1, <1>2, <1>3, <1>4, <1>5, <1>6 DEF Running

LEMMA ReaderType ==
    ASSUME TypeInv, NEW r \in Readers, ReadOpen(r) \/ Read(r) \/ ReadClose(r)
    PROVE  TypeInv'
<1> USE DEF TypeInv
<1>0. Chunks \in Nat /\ Chunks >= 1
  BY FileAssumption
<1>1. CASE ReadOpen(r)
  BY <1>1, <1>0, ContentTypes DEF ReadOpen, Held, TypeOK, Holding, Names, files, writers
<1>2. CASE Read(r)
  <2>1. rat[r] \in Pieces /\ rfd[r] \in Inodes /\ content[rfd[r]] \in Contents
    BY <1>2, <1>0 DEF Read, TypeOK, Pieces
  <2>2. content[rfd[r]][rat[r]] \in Data \cup {Nul, End}
    BY <2>1 DEF Contents
  <2>3. got' \in [Readers -> Contents]
    BY <1>2, <2>1, <2>2 DEF Read, TypeOK, Contents
  <2> QED BY <1>2, <2>3, <2>1, <1>0 DEF Read, TypeOK, Holding, Pieces, files, writers
<1>3. CASE ReadClose(r)
  BY <1>3 DEF ReadClose, TypeOK, Holding, files, writers
<1> QED BY <1>1, <1>2, <1>3

LEMMA SystemType == TypeInv /\ (Journal \/ Power) => TypeInv'
<1> SUFFICES ASSUME TypeInv PROVE (Journal \/ Power) => TypeInv' OBVIOUS
<1> USE DEF TypeInv
<1>1. ASSUME Journal PROVE TypeInv'
  BY <1>1, ContentTypes DEF Journal, TypeOK, Holding, writers, readers
<1>2. ASSUME Power PROVE TypeInv'
  <2>1. content' \in [Inodes -> Contents] /\ synced' \subseteq Inodes
    BY <1>2, ContentTypes DEF Power, TypeOK
  <2>2. Chunks \in Nat /\ Chunks >= 1
    BY FileAssumption
  <2> QED BY <1>2, <2>1, <2>2, ContentTypes DEF Power, TypeOK, Holding
<1> QED BY <1>1, <1>2

LEMMA StutterType == TypeInv /\ UNCHANGED vars => TypeInv'
  BY DEF TypeInv, TypeOK, Holding, vars

(* Every reachable state has the types atomicWriteFile relies on: offsets    *)
(* stay within the file, names are bound to inodes (loader.go).              *)
THEOREM TypeCorrect == Spec => []TypeOK
<1>1. TypeInv /\ [Next]_vars => TypeInv'
  BY WriterType, ReaderType, SystemType, StutterType DEF Next
<1>2. TypeInv => TypeOK
  BY DEF TypeInv
<1> QED BY <1>1, <1>2, InitType, PTL DEF Spec

-----------------------------------------------------------------------------
(* The temp file is nobody else's: neither the file in place, nor the one    *)
(* the journal has in place, nor one a reader holds.                         *)
Apart ==
    /\ names.tmp # None => names.tmp \notin {names.path, onDisk.path}
    /\ onDisk.tmp # None => onDisk.tmp # onDisk.path
    /\ names.path # None => names.path \in synced /\ Whole(content[names.path])
    /\ onDisk.path # None => onDisk.path \in synced /\ Whole(content[onDisk.path])

(* How far a writer has got is what its temp file holds. *)
Progress == \A w \in Writers :
    /\ pc[w] \in {"write", "sync", "rename"} => fd[w] = names.tmp
    /\ pc[w] = "write" => content[fd[w]] = [k \in Pieces |-> IF k < at[w] THEN data[w] ELSE End]
    /\ pc[w] \in {"sync", "rename"} => content[fd[w]] = Full(data[w])
    /\ pc[w] = "rename" => fd[w] \in synced
    /\ report[w] = "ok" => pc[w] = "idle" /\ Held = Full(data[w]) /\ names.tmp = None

Snapshot == \A r \in Readers : rfd[r] # None =>
    /\ rfd[r] # names.tmp /\ content[rfd[r]] = opened[r]
    /\ \A k \in Pieces : k < rat[r] => got[r][k] = opened[r][k]

WholeInv == TypeInv /\ Apart /\ Progress /\ Snapshot

LEMMA WholeInit == Init => WholeInv
  BY InitType, FileAssumption DEF Init, WholeInv, Apart, Progress, Snapshot, NoNames

LEMMA CallWhole ==
    ASSUME WholeInv, NEW w \in Writers, Call(w) PROVE Apart' /\ Progress' /\ Snapshot'
  BY DEF WholeInv, TypeInv, TypeOK, Holding, Call, Apart, Progress, Snapshot, Held, files, readers

(* Any step that keeps the files, or only drops the temp name, and returns. *)
LEMMA ErrorWhole ==
    ASSUME WholeInv, SingleWriter, NEW w \in Writers, NEW r \in {"none", "error"},
           Return(w, r), names' \in {names, [names EXCEPT !.tmp = None]},
           UNCHANGED <<onDisk, content, synced, readers>>, pc[w] # "idle"
    PROVE  Apart' /\ Progress' /\ Snapshot'
<1> USE DEF WholeInv, TypeInv
<1>1. names'.path = names.path /\ names'.tmp \in {names.tmp, None}
  BY DEF TypeOK, Names
<1>2. Apart'
  BY <1>1 DEF Apart
<1>3. Progress'
  BY <1>1 DEF Progress, SingleWriter, Return, TypeOK
<1>4. Snapshot'
  BY <1>1, FileAssumption DEF Snapshot, readers, TypeOK
<1> QED BY <1>2, <1>3, <1>4

LEMMA OpenedWhole ==
    ASSUME WholeInv, SingleWriter, NEW w \in Writers, NEW i \in Inodes, pc[w] = "open",
           Opened(w, i), names' = [names EXCEPT !.tmp = i], UNCHANGED <<onDisk, readers>>,
           names.tmp = i \/ ~InUse(i)
    PROVE  Apart' /\ Progress' /\ Snapshot'
<1> USE DEF WholeInv, TypeInv
<1>1. names'.path = names.path /\ names'.tmp = i /\ None \notin Inodes
  BY FileAssumption DEF TypeOK, Names
<1>2. i \notin {names.path, onDisk.path} /\ \A r \in Readers : rfd[r] # i
  BY <1>1, FileAssumption DEF Apart, Snapshot, InUse
<1>3. \A j \in Inodes : j # i => content'[j] = content[j] /\ (j \in synced' <=> j \in synced)
  BY DEF Opened, TypeOK
<1>4. Apart'
  BY <1>1, <1>2, <1>3 DEF Apart, TypeOK, Names
<1>5. Progress'
  <2>1. content'[i] = Empty /\ fd'[w] = i /\ at'[w] = 1 /\ pc'[w] = "write" /\ report' = report
    BY DEF Opened, TypeOK
  <2>2. Empty = [k \in Pieces |-> IF k < 1 THEN data'[w] ELSE End]
    BY FileAssumption DEF Empty, Pieces
  <2>3. report[w] # "ok"
    BY DEF Progress
  <2> QED BY <1>1, <2>1, <2>2, <2>3 DEF Progress, SingleWriter
<1>6. Snapshot'
  BY <1>1, <1>2, <1>3 DEF Snapshot, readers, TypeOK
<1> QED BY <1>4, <1>5, <1>6

LEMMA OpenWhole ==
    ASSUME WholeInv, SingleWriter, NEW w \in Writers, Open(w)
    PROVE  Apart' /\ Progress' /\ Snapshot'
<1>1. CASE names.tmp # None /\ UNCHANGED names /\ Opened(w, names.tmp)
  <2>1. names.tmp \in Inodes /\ names' = [names EXCEPT !.tmp = names.tmp]
    BY <1>1 DEF WholeInv, TypeInv, TypeOK, Names
  <2> QED BY <2>1, <1>1, OpenedWhole DEF Open
<1>2. CASE \E i \in Inodes : ~InUse(i) /\ names' = [names EXCEPT !.tmp = i] /\ Opened(w, i)
  BY <1>2, OpenedWhole DEF Open
<1>3. CASE UNCHANGED <<names, content, synced>> /\ Return(w, "error")
  BY <1>3, ErrorWhole DEF Open
<1> QED BY <1>1, <1>2, <1>3 DEF Open

LEMMA WriteWhole ==
    ASSUME WholeInv, SingleWriter, NEW w \in Writers, Write(w)
    PROVE  Apart' /\ Progress' /\ Snapshot'
<1> USE DEF WholeInv, TypeInv
<1>1. CASE Cleanup /\ Return(w, "error") /\ UNCHANGED <<content, synced>>
  BY <1>1, ErrorWhole DEF Write, Cleanup
<1>2. CASE /\ content' = Put(w) /\ synced' = synced \ {fd[w]}
           /\ at' = [at EXCEPT ![w] = @ + 1]
           /\ pc' = [pc EXCEPT ![w] = IF at[w] = Chunks THEN "sync" ELSE "write"]
           /\ UNCHANGED <<names, fd, data, report>>
  <2>1. /\ fd[w] = names.tmp /\ fd[w] \in Inodes /\ fd[w] # None /\ report[w] # "ok"
        /\ at[w] \in Nat /\ at[w] <= Chunks /\ pc[w] = "write" /\ Chunks \in Nat
    <3>1. pc[w] = "write"
      BY DEF Write
    <3>2. fd[w] = names.tmp /\ fd[w] \in Inodes /\ at[w] <= Chunks /\ report[w] # "ok"
      BY <3>1 DEF Progress, Holding
    <3>3. at[w] \in Nat /\ Chunks \in Nat
      BY FileAssumption DEF TypeOK
    <3> QED BY <3>1, <3>2, <3>3, FileAssumption
  <2>2. content'[fd[w]] = [k \in Pieces |-> IF k < at[w] + 1 THEN data[w] ELSE End]
    <3>1. content[fd[w]] = [k \in Pieces |-> IF k < at[w] THEN data[w] ELSE End]
      BY <2>1 DEF Progress
    <3>2. data[w] # End
      BY <2>1, PieceAssumption DEF Holding
    <3>3. content'[fd[w]] = [k \in Pieces |-> IF k = at[w] THEN data[w]
             ELSE IF k < at[w] /\ content[fd[w]][k] = End THEN Nul ELSE content[fd[w]][k]]
      BY <1>2, <2>1 DEF Put, TypeOK
    <3> QED BY <3>1, <3>2, <3>3, <2>1 DEF Pieces
  <2>3. \A j \in Inodes : j # fd[w] => content'[j] = content[j] /\ (j \in synced' <=> j \in synced)
    BY <1>2 DEF Put, TypeOK
  <2>4. Apart'
    BY <1>2, <2>1, <2>3 DEF Write, Apart, TypeOK, Names
  <2>5. at[w] = Chunks => content'[fd[w]] = Full(data[w])
    BY <2>1, <2>2 DEF Full, Pieces
  <2>6. Progress'
    <3>1. at'[w] = at[w] + 1 /\ pc'[w] = (IF at[w] = Chunks THEN "sync" ELSE "write")
      BY <1>2 DEF TypeOK
    <3> QED BY <1>2, <3>1, <2>1, <2>2, <2>5 DEF Progress, SingleWriter
  <2>7. Snapshot'
    BY <1>2, <2>1, <2>3 DEF Write, Snapshot, readers, TypeOK
  <2> QED BY <2>4, <2>6, <2>7
<1> QED BY <1>1, <1>2 DEF Write

LEMMA SyncWhole ==
    ASSUME WholeInv, SingleWriter, NEW w \in Writers, Sync(w)
    PROVE  Apart' /\ Progress' /\ Snapshot'
<1> USE DEF WholeInv, TypeInv
<1>1. CASE Cleanup /\ Return(w, "error") /\ UNCHANGED synced
  BY <1>1, ErrorWhole DEF Sync, Cleanup
<1>2. CASE /\ synced' = synced \cup {fd[w]} /\ pc' = [pc EXCEPT ![w] = "rename"]
           /\ UNCHANGED <<names, fd, at, data, report>>
  <2>1. Apart' /\ Snapshot'
    BY <1>2 DEF Sync, Apart, Snapshot, readers
  <2>2. Progress'
    BY <1>2 DEF Sync, Progress, SingleWriter, TypeOK, Held
  <2> QED BY <2>1, <2>2
<1> QED BY <1>1, <1>2 DEF Sync

LEMMA RenameWhole ==
    ASSUME WholeInv, SingleWriter, NEW w \in Writers, Rename(w)
    PROVE  Apart' /\ Progress' /\ Snapshot'
<1> USE DEF WholeInv, TypeInv
<1>1. CASE Cleanup /\ Return(w, "error")
  BY <1>1, ErrorWhole DEF Rename, Cleanup
<1>2. CASE names.tmp # None /\ names' = [path |-> names.tmp, tmp |-> None] /\ Return(w, "ok")
  <2>1. /\ fd[w] = names.tmp /\ content[names.tmp] = Full(data[w]) /\ names.tmp \in synced
        /\ data[w] \in Data /\ pc[w] = "rename"
    BY <1>2 DEF Rename, Progress, Holding
  <2>2. Apart'
    BY <1>2, <2>1 DEF Rename, Apart, Whole
  <2>3. pc'[w] = "idle" /\ data' = data /\ names'.path # None /\ names'.tmp = None
        /\ names'.path = names.tmp /\ content' = content
    BY <1>2 DEF Return, TypeOK, Rename
  <2>4. Progress'
    BY <2>1, <2>3 DEF Progress, SingleWriter, Held
  <2>5. Snapshot'
    BY <1>2 DEF Rename, Snapshot, readers
  <2> QED BY <2>2, <2>4, <2>5
<1> QED BY <1>1, <1>2 DEF Rename

LEMMA ReaderWhole ==
    ASSUME WholeInv, NEW r \in Readers, ReadOpen(r) \/ Read(r) \/ ReadClose(r)
    PROVE  Apart' /\ Progress' /\ Snapshot'
<1> USE DEF WholeInv, TypeInv
<1>1. UNCHANGED <<files, writers>>
  BY DEF ReadOpen, Read, ReadClose
<1>2. Apart' /\ Progress'
  BY <1>1 DEF Apart, Progress, Held, files, writers
<1>3. Snapshot'
  <2>1. CASE ReadOpen(r)
    BY <2>1, FileAssumption DEF ReadOpen, Snapshot, Apart, Held, files, TypeOK, Pieces
  <2>2. CASE Read(r)
    <3>1. rfd[r] # None /\ content[rfd[r]] = opened[r] /\ rat[r] \in Nat /\ rat[r] \in Pieces
      BY <2>2, FileAssumption DEF Read, Snapshot, TypeOK, Pieces
    <3>2. got'[r] = [got[r] EXCEPT ![rat[r]] = opened[r][rat[r]]] /\ rat'[r] = rat[r] + 1
          /\ got[r] \in [Pieces -> Data \cup {Nul, End}]
          /\ \A q \in Readers : q # r => got'[q] = got[q] /\ rat'[q] = rat[q]
      BY <2>2, <3>1 DEF Read, TypeOK, Contents
    <3>3. \A k \in Pieces : k < rat[r] + 1 => k < rat[r] \/ k = rat[r]
      BY <3>1 DEF Pieces
    <3>4. \A k \in Pieces : k < rat'[r] => got'[r][k] = opened[r][k]
      BY <3>1, <3>2, <3>3 DEF Snapshot
    <3> QED BY <2>2, <3>2, <3>4 DEF Read, Snapshot, files
  <2>3. CASE ReadClose(r)
    BY <2>3 DEF ReadClose, Snapshot, files, TypeOK
  <2> QED BY <2>1, <2>2, <2>3
<1> QED BY <1>2, <1>3

LEMMA SystemWhole ==
    ASSUME WholeInv, Journal \/ Power PROVE Apart' /\ Progress' /\ Snapshot'
<1> USE DEF WholeInv, TypeInv
<1>1. CASE Journal
  <2>1. \A i \in Inodes : ~Freed(i) => content'[i] = content[i] /\ (i \in synced' <=> i \in synced)
    BY <1>1 DEF Journal, TypeOK
  <2>2. names' = names /\ onDisk' = names /\ UNCHANGED <<writers, readers>>
    BY <1>1 DEF Journal
  <2>3. /\ names.path # None => ~Freed(names.path) /\ names.path \in Inodes
        /\ \A w \in Writers : fd[w] # None => ~Freed(fd[w]) /\ fd[w] \in Inodes
        /\ \A r \in Readers : rfd[r] # None => ~Freed(rfd[r]) /\ rfd[r] \in Inodes
    BY DEF Freed, TypeOK, Names
  <2>4. Apart'
    BY <2>1, <2>2, <2>3 DEF Apart
  <2>5. Progress'
    <3>1. Held' = Held
      BY <2>1, <2>2, <2>3 DEF Held
    <3>2. \A w \in Writers : pc[w] \in {"write", "sync", "rename"} => fd[w] # None
      BY FileAssumption DEF Holding
    <3> QED BY <2>1, <2>2, <2>3, <3>1, <3>2 DEF Progress, writers
  <2>6. Snapshot'
    BY <2>1, <2>2, <2>3 DEF Snapshot, readers
  <2> QED BY <2>4, <2>5, <2>6
<1>2. CASE Power
  <2>1. names' = onDisk /\ onDisk' = onDisk
    BY <1>2 DEF Power
  <2>2. onDisk.path # None => content'[onDisk.path] = content[onDisk.path] /\ onDisk.path \in synced'
    BY <1>2 DEF Power, Apart, TypeOK, Names
  <2>3. Apart'
    BY <2>1, <2>2 DEF Apart
  <2>4. Progress' /\ Snapshot'
    BY <1>2 DEF Power, Progress, Snapshot
  <2> QED BY <2>3, <2>4
<1> QED BY <1>1, <1>2

LEMMA WholeStep == ASSUME SingleWriter, WholeInv, [Next]_vars PROVE WholeInv'
<1>1. TypeInv'
  BY WriterType, ReaderType, SystemType, StutterType DEF WholeInv, Next
<1>2. ASSUME NEW w \in Writers, Call(w) \/ Running(w) \/ Kill(w)
      PROVE  Apart' /\ Progress' /\ Snapshot'
  <2>1. Kill(w) => Apart' /\ Progress' /\ Snapshot'
    BY ErrorWhole DEF Kill, files
  <2> QED BY <1>2, <2>1, CallWhole, OpenWhole, WriteWhole, SyncWhole, RenameWhole DEF Running
<1>3. CASE UNCHANGED vars
  <2>1. Apart' /\ Snapshot'
    BY <1>3 DEF WholeInv, vars, Apart, Snapshot
  <2>2. Progress'
    BY <1>3 DEF WholeInv, vars, Progress, Held
  <2> QED BY <1>1, <2>1, <2>2 DEF WholeInv
<1> QED BY <1>1, <1>2, <1>3, ReaderWhole, SystemWhole DEF Next, WholeInv

(* graph.json, graph.lock and manifest.json are never torn while one process *)
(* at a time writes them: not after a failed call, a kill, or a power cut.   *)
THEOREM FileIsWhole == SingleWriter => (Spec => []PathIsWhole)
<1> SUFFICES ASSUME SingleWriter PROVE Spec => []PathIsWhole OBVIOUS
<1>1. WholeInv /\ [Next]_vars => WholeInv'
  BY WholeStep
<1>2. WholeInv => PathIsWhole
  BY DEF WholeInv, Apart, PathIsWhole
<1> QED BY <1>1, <1>2, WholeInit, PTL DEF Spec

(* A successful write is visible under its name and leaves no temp file.     *)
THEOREM ReportTrue == SingleWriter => (Spec => []ReportIsTrue)
<1> SUFFICES ASSUME SingleWriter PROVE Spec => []ReportIsTrue OBVIOUS
<1>1. WholeInv /\ [Next]_vars => WholeInv'
  BY WholeStep
<1>2. WholeInv => ReportIsTrue
  BY DEF WholeInv, Progress, ReportIsTrue
<1> QED BY <1>1, <1>2, WholeInit, PTL DEF Spec

(* A reader gets the file it opened, whatever is renamed over it meanwhile.  *)
THEOREM ReadSnapshot == SingleWriter => (Spec => []ReadIsSnapshot)
<1> SUFFICES ASSUME SingleWriter PROVE Spec => []ReadIsSnapshot OBVIOUS
<1>1. WholeInv /\ [Next]_vars => WholeInv'
  BY WholeStep
<1>2. WholeInv => ReadIsSnapshot
  BY DEF WholeInv, Snapshot, ReadIsSnapshot
<1> QED BY <1>1, <1>2, WholeInit, PTL DEF Spec

-----------------------------------------------------------------------------
(* What each step does to the register. *)
LEMMA WriterRegister ==
    ASSUME WholeInv, SingleWriter, NEW w \in Writers, Call(w) \/ Running(w) \/ Kill(w)
    PROVE  Register!Write \/ UNCHANGED <<value, durable>>
<1> USE DEF WholeInv, TypeInv
<1>1. CASE Rename(w)
  <2>1. CASE names.tmp # None /\ names' = [path |-> names.tmp, tmp |-> None]
    <3>1. content[names.tmp] = Full(data[w]) /\ data[w] \in Data /\ 1 \in Pieces
      <4>1. pc[w] = "rename"
        BY <1>1 DEF Rename
      <4>2. 1 \in Pieces
        BY FileAssumption DEF Pieces
      <4> QED BY <4>1, <4>2 DEF Progress, Holding
    <3> QED BY <1>1, <2>1, <3>1 DEF Rename, Register!Write, value, durable, ValueOf, Full
  <2>2. CASE Cleanup
    BY <1>1, <2>2 DEF Rename, Cleanup, value, durable, ValueOf, TypeOK, Names
  <2> QED BY <1>1, <2>1, <2>2 DEF Rename
<1>2. ASSUME NEW i \in Inodes \cup {None}, names'.path = names.path, UNCHANGED onDisk,
             \A j \in Inodes : j # i => content'[j] = content[j],
             i # None => i \notin {names.path, onDisk.path}
      PROVE  UNCHANGED <<value, durable>>
  BY <1>2 DEF value, durable, ValueOf, TypeOK, Names
<1>3. CASE Call(w) \/ Kill(w) \/ Sync(w)
  <2>1. names'.path = names.path /\ UNCHANGED <<onDisk, content>>
    BY <1>3 DEF Call, Kill, Sync, Cleanup, files, TypeOK, Names
  <2> QED BY <2>1, <1>2
<1>4. CASE Open(w)
  <2>1. ASSUME NEW i \in Inodes, names' = [names EXCEPT !.tmp = i], Opened(w, i),
               names.tmp = i \/ ~InUse(i)
        PROVE  UNCHANGED <<value, durable>>
    <3>1. names'.path = names.path /\ UNCHANGED onDisk
          /\ \A j \in Inodes : j # i => content'[j] = content[j]
      BY <1>4, <2>1 DEF Open, Opened, TypeOK, Names
    <3>2. i \notin {names.path, onDisk.path}
      BY <2>1, FileAssumption DEF InUse, Apart
    <3> QED BY <3>1, <3>2, <1>2
  <2>2. names.tmp # None => names.tmp \in Inodes /\ names = [names EXCEPT !.tmp = names.tmp]
    BY DEF TypeOK, Names
  <2>3. CASE UNCHANGED <<names, content, synced>>
    BY <1>4, <2>3, <1>2 DEF Open
  <2> QED BY <1>4, <2>1, <2>2, <2>3 DEF Open
<1>5. CASE Write(w)
  <2>1. names'.path = names.path /\ UNCHANGED onDisk
    BY <1>5 DEF Write, Cleanup, TypeOK, Names
  <2>2. fd[w] = names.tmp /\ fd[w] \in Inodes /\ fd[w] \notin {names.path, onDisk.path}
    BY <1>5, FileAssumption DEF Write, Progress, Holding, Apart
  <2>3. \A j \in Inodes : j # fd[w] => content'[j] = content[j]
    BY <1>5 DEF Write, Put, TypeOK
  <2> QED BY <2>1, <2>2, <2>3, <1>2
<1> QED BY <1>1, <1>3, <1>4, <1>5 DEF Running

LEMMA SystemRegister ==
    ASSUME WholeInv, Journal \/ Power PROVE Register!Persist \/ Register!Fail
<1> USE DEF WholeInv, TypeInv
<1>1. CASE Journal
  <2>1. names.path # None => content'[names.path] = content[names.path]
    BY <1>1 DEF Journal, Freed, TypeOK, Names
  <2> QED BY <1>1, <2>1 DEF Journal, Register!Persist, value, durable, ValueOf
<1>2. CASE Power
  <2>1. onDisk.path # None => content'[onDisk.path] = content[onDisk.path]
    BY <1>2 DEF Power, Apart, TypeOK, Names
  <2> QED BY <1>2, <2>1 DEF Power, Register!Fail, value, durable, ValueOf
<1> QED BY <1>1, <1>2

(* atomicWriteFile is a durable register while one process at a time writes: *)
(* one step to the new value, whatever fails, and back to the persisted one  *)
(* after a power cut.                                                        *)
THEOREM FileIsRegister == SingleWriter => (Spec => ImplementsRegister)
<1> SUFFICES ASSUME SingleWriter PROVE Spec => ImplementsRegister OBVIOUS
<1>1. Init => Register!Init
  BY DEF Init, Register!Init, value, durable, ValueOf, NoNames
<1>2. WholeInv /\ [Next]_vars => [Register!Next]_<<value, durable>>
  <2> SUFFICES ASSUME WholeInv, [Next]_vars PROVE [Register!Next]_<<value, durable>> OBVIOUS
  <2>1. ASSUME NEW r \in Readers, ReadOpen(r) \/ Read(r) \/ ReadClose(r)
        PROVE  UNCHANGED <<value, durable>>
    BY <2>1 DEF ReadOpen, Read, ReadClose, files, value, durable, ValueOf
  <2>2. UNCHANGED vars => UNCHANGED <<value, durable>>
    BY DEF vars, value, durable, ValueOf
  <2> QED BY <2>1, <2>2, WriterRegister, SystemRegister DEF Next, Register!Next
<1>3. WholeInv /\ [Next]_vars => WholeInv'
  BY WholeStep
<1> QED BY <1>1, <1>2, <1>3, WholeInit, PTL DEF Spec, ImplementsRegister, Register!Spec
=============================================================================
