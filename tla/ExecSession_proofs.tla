------------------------- MODULE ExecSession_proofs -------------------------
(***************************************************************************)
(* Proofs about execution sessions, for any number of sessions, callers,   *)
(* closers, tests, edits, calls and slots, and every set of faults.        *)
(***************************************************************************)
EXTENDS ExecSession, FiniteSetTheorems, TLAPS

(* The places between compileTestBinary's hash of the inputs and its result. *)
Keyed == {"cache", "compile", "join", "build", "store", "publish", "slot", "exec"}

(* A caller at those places has a key, and one that is to run a binary has it. *)
Equipped ==
    \A c \in Callers : /\ at[c] \in Keyed => job[c].key \in Hashes
                       /\ at[c] \in {"slot", "exec"} => job[c].bin.file # 0

TypeInv == TypeOK /\ Equipped

LEMMA MaxFileType == MaxFile \in Nat
<1>1. Cardinality(Callers) \in Nat
  BY ConstantsAssumption, FS_CardinalityType
<1> QED BY <1>1, ConstantsAssumption DEF MaxFile

LEMMA Nones == NoBinary \in Binaries /\ Unknown \in [hash : Hashes \cup {NoHash}, gen : 0..MaxGen]
<1>1. 0 \in 0..MaxFile /\ 0 \in 0..MaxGen
  BY MaxFileType, ConstantsAssumption
<1> QED BY <1>1 DEF NoBinary, Binaries, Unknown

LEMMA JobType ==
    ASSUME NEW kind \in {"test", "record", "collect"}, NEW t \in Tests, NEW g \in 0..MaxGen
    PROVE  NewJob(kind, t, g) \in Jobs
<1>1. 0 \in 0..MaxGen
  BY ConstantsAssumption
<1> QED BY <1>1, Nones DEF NewJob, Jobs

(* Writing one session, or one caller's job, leaves well-typed tables. *)
LEMMA WriteSession ==
    ASSUME sess \in [Sessions -> Fields], NEW s \in Sessions, NEW v \in Fields,
           sess' = [sess EXCEPT ![s] = v]
    PROVE  sess' \in [Sessions -> Fields]
OBVIOUS

LEMMA WriteJob ==
    ASSUME job \in [Callers -> Jobs], NEW c \in Callers, NEW j \in Jobs,
           job' = [job EXCEPT ![c] = j]
    PROVE  job' \in [Callers -> Jobs]
OBVIOUS

(* What one field may be given. *)
LEMMA FieldTypes ==
    ASSUME NEW f \in Fields
    PROVE  /\ \A m \in Callers \cup {Nobody} : [f EXCEPT !.snapMu = m] \in Fields
           /\ \A p \in Dirs : [f EXCEPT !.owned = @ \cup {p}] \in Fields
           /\ \A p : [f EXCEPT !.owned = @ \ {p}] \in Fields
           /\ \A t \in Tests, m \in Callers \cup {Nobody} : [f EXCEPT !.running[t] = m] \in Fields
           /\ \A h \in Hashes, m \in Callers \cup {Nobody} : [f EXCEPT !.building[h] = m] \in Fields
           /\ \A h \in Hashes, b \in Binaries : [f EXCEPT !.binaries[h] = b] \in Fields
           /\ \A t \in Tests, e \in [hash : Hashes \cup {NoHash}, gen : 0..MaxGen] :
                 [f EXCEPT !.running[t] = Nobody, !.verdicts[t] = e] \in Fields
           /\ \A e \in [hash : Hashes \cup {NoHash}, gen : 0..MaxGen] :
                 [f EXCEPT !.snapMu = Nobody, !.snapshot = e] \in Fields
BY DEF Fields

LEMMA JobTypes ==
    ASSUME NEW j \in Jobs
    PROVE  /\ \A h \in Hashes : [j EXCEPT !.hash = h] \in Jobs /\ [j EXCEPT !.key = h] \in Jobs
           /\ \A g \in 0..MaxGen : [j EXCEPT !.res = g] \in Jobs
           /\ \A b \in Binaries : [j EXCEPT !.bin = b] \in Jobs
           /\ \A e \in [hash : Hashes \cup {NoHash}, gen : 0..MaxGen] : [j EXCEPT !.got = e] \in Jobs
           /\ \A b \in Binaries, g \in 0..MaxGen : [j EXCEPT !.bin = b, !.res = g] \in Jobs
BY DEF Jobs

LEMMA ResultZero == ASSUME NEW j \in Jobs PROVE [j EXCEPT !.res = 0] \in Jobs
<1>1. 0 \in 0..MaxGen
  BY ConstantsAssumption
<1> QED BY <1>1, JobTypes

(* The places and names a step of caller c writes about. *)
LEMMA CallerTypes ==
    ASSUME TypeOK, NEW c \in Callers
    PROVE  /\ SessionOf[c] \in Sessions /\ sess[SessionOf[c]] \in Fields /\ job[c] \in Jobs
           /\ TempDir(c) \in Dirs /\ CompileDir(SessionOf[c]) \in Dirs
           /\ src \in Gens /\ Hash[src] \in Hashes
<1>1. SessionOf[c] \in Sessions /\ 0 \in 0..MaxCalls
  BY ConstantsAssumption
<1>2. calls[c] \in 0..MaxCalls /\ src \in Gens
  BY DEF TypeOK
<1> QED BY <1>1, <1>2 DEF TypeOK, TempDir, CompileDir, Dirs, Hashes

(* Emptying the cache for a new hash keeps the session well-typed. *)
LEMMA SyncedType ==
    ASSUME NEW f \in Fields, NEW h \in Hashes \cup {NoHash}
    PROVE  Synced(f, h) \in Fields
<1>1. [k \in Hashes |-> NoBinary] \in [Hashes -> Binaries]
  BY Nones
<1> QED BY <1>1 DEF Synced, Fields

LEMMA InitType == Init => TypeInv
<1> SUFFICES ASSUME Init PROVE TypeInv OBVIOUS
<1>1. NoJob \in Jobs
  BY JobType, ConstantsAssumption DEF NoJob
<1>2. NewSession \in Fields
  BY Nones DEF NewSession, Fields
<1> QED BY <1>1, <1>2, MaxFileType, ConstantsAssumption
        DEF Init, TypeInv, TypeOK, Equipped, Keyed, Gens, Steps

LEMMA EditType == TypeInv /\ Edit => TypeInv'
BY ConstantsAssumption DEF TypeInv, TypeOK, Equipped, Keyed, Edit, Gens

LEMMA EnterType ==
    ASSUME TypeInv, NEW c \in Callers
    PROVE  Begin(c) \/ Return(c) \/ LockSnapshot(c) => TypeInv'
<1> USE CallerTypes DEF TypeInv
<1>1. ASSUME Begin(c) PROVE TypeInv'
  <2>1. job' \in [Callers -> Jobs]
    <3>1. \A kind \in Kinds, t \in Tests : NewJob(kind, t, src) \in Jobs
      <4>1. src \in 0..MaxGen
        BY ConstantsAssumption DEF TypeOK, Gens
      <4> QED BY <4>1, JobType, ConstantsAssumption
    <3> QED BY <3>1, <1>1, WriteJob DEF Begin, TypeOK
  <2>2. calls' \in [Callers \cup Closers -> 0..MaxCalls]
    BY <1>1, ConstantsAssumption DEF Begin, TypeOK
  <2>3. /\ at' \in [Callers \cup Closers -> Steps \cup {"wait", "remove"}]
        /\ \A d \in Callers \ {c} : at'[d] = at[d] /\ job'[d] = job[d]
        /\ at'[c] \notin Keyed
    BY <1>1 DEF Begin, TypeOK, Go, Steps, Keyed
  <2> QED BY <2>1, <2>2, <2>3, <1>1 DEF Begin, TypeOK, Equipped, Keyed
<1>2. ASSUME Return(c) PROVE TypeInv'
  <2>1. job' \in [Callers -> Jobs]
    BY JobType, WriteJob, <1>2, ConstantsAssumption DEF Return, NoJob, TypeOK
  <2> QED BY <2>1, <1>2 DEF Return, TypeOK, Equipped, Keyed, Go, Steps
<1>3. ASSUME LockSnapshot(c) PROVE TypeInv'
  <2>1. sess' \in [Sessions -> Fields]
    <3>1. sess' = [sess EXCEPT ![SessionOf[c]] = [sess[SessionOf[c]] EXCEPT !.snapMu = c]]
      BY <1>3 DEF LockSnapshot, TypeOK
    <3> QED BY <3>1, FieldTypes, WriteSession DEF TypeOK
  <2> QED BY <2>1, <1>3 DEF LockSnapshot, TypeOK, Equipped, Keyed, Go, Steps
<1> QED BY <1>1, <1>2, <1>3

LEMMA AskType ==
    ASSUME TypeInv, NEW c \in Callers
    PROVE  HashInputs(c) \/ LookupVerdict(c) \/ LookupNothing(c) \/ LookupSnapshot(c) => TypeInv'
<1> DEFINE s == SessionOf[c]
<1> USE CallerTypes DEF TypeInv
<1>1. ASSUME HashInputs(c) PROVE TypeInv'
  <2>1. job' = [job EXCEPT ![c] = [job[c] EXCEPT !.hash = Hash[src]]]
    BY <1>1 DEF HashInputs, TypeOK
  <2>2. job' \in [Callers -> Jobs]
    BY <2>1, JobTypes, WriteJob DEF TypeOK
  <2> QED BY <2>2, <1>1 DEF HashInputs, TypeOK, Equipped, Keyed, Go, Steps
<1>2. ASSUME LookupVerdict(c) PROVE TypeInv'
  <2>1. sess' \in [Sessions -> Fields]
    BY <1>2, SyncedType, WriteSession DEF LookupVerdict, TypeOK, Jobs
  <2>2. sess[s].verdicts[job[c].test].gen \in 0..MaxGen
    BY DEF TypeOK, Jobs, Fields
  <2>3. job' \in [Callers -> Jobs]
    BY <1>2, <2>2, JobTypes, WriteJob DEF LookupVerdict, Answer, TypeOK
  <2> QED BY <2>1, <2>3, <1>2 DEF LookupVerdict, Answer, TypeOK, Equipped, Keyed, Go, Steps
<1>3. ASSUME LookupNothing(c) PROVE TypeInv'
  <2>1. sess' \in [Sessions -> Fields]
    BY <1>3, SyncedType, WriteSession DEF LookupNothing, TypeOK, Jobs
  <2> QED BY <2>1, <1>3 DEF LookupNothing, TypeOK, Equipped, Keyed, Go, Steps
<1>4. ASSUME LookupSnapshot(c) PROVE TypeInv'
  <2>1. sess' \in [Sessions -> Fields]
    <3>1. \/ sess' = sess
          \/ sess' = [sess EXCEPT ![s] = [sess[s] EXCEPT !.snapMu = Nobody]]
      BY <1>4 DEF LookupSnapshot, TypeOK
    <3> QED BY <3>1, FieldTypes, WriteSession DEF TypeOK
  <2>2. sess[s].snapshot.gen \in 0..MaxGen
    BY DEF Fields
  <2>3. job' \in [Callers -> Jobs]
    BY <1>4, <2>2, JobTypes, WriteJob DEF LookupSnapshot, Answer, TypeOK
  <2> QED BY <2>1, <2>3, <1>4 DEF LookupSnapshot, Answer, TypeOK, Equipped, Keyed, Go, Steps
<1> QED BY <1>1, <1>2, <1>3, <1>4

LEMMA FlightType ==
    ASSUME TypeInv, NEW c \in Callers
    PROVE  MakeTempDir(c) \/ OwnTempDir(c) \/ TakeFlight(c) \/ Shared(c) \/ HashKey(c) => TypeInv'
<1> DEFINE s == SessionOf[c]
<1> USE CallerTypes DEF TypeInv
<1>1. ASSUME MakeTempDir(c) PROVE TypeInv'
  BY <1>1 DEF MakeTempDir, TypeOK, Equipped, Keyed, Go, Steps
<1>2. ASSUME OwnTempDir(c) PROVE TypeInv'
  <2>1. sess' \in [Sessions -> Fields]
    <3>1. sess' = [sess EXCEPT ![s] = [sess[s] EXCEPT !.owned = @ \cup {TempDir(c)}]]
      BY <1>2 DEF OwnTempDir, TypeOK
    <3> QED BY <3>1, FieldTypes, WriteSession DEF TypeOK
  <2> QED BY <2>1, <1>2 DEF OwnTempDir, TypeOK, Equipped, Keyed, Go, Steps
<1>3. ASSUME TakeFlight(c) PROVE TypeInv'
  <2>1. sess' \in [Sessions -> Fields]
    <3>1. \/ sess' = sess
          \/ sess' = [sess EXCEPT ![s] = [sess[s] EXCEPT !.running[job[c].test] = c]]
      BY <1>3 DEF TakeFlight, TypeOK
    <3> QED BY <3>1, FieldTypes, WriteSession DEF TypeOK, Jobs
  <2>2. sess[s].verdicts[job[c].test].gen \in 0..MaxGen
    BY DEF TypeOK, Jobs, Fields
  <2>3. job' \in [Callers -> Jobs]
    BY <1>3, <2>2, JobTypes, WriteJob DEF TakeFlight, Answer, TypeOK
  <2> QED BY <2>1, <2>3, <1>3 DEF TakeFlight, Answer, TypeOK, Equipped, Keyed, Go, Steps
<1>4. ASSUME Shared(c) PROVE TypeInv'
  <2>1. job' \in [Callers -> Jobs]
    <3>1. job[c].got.gen \in 0..MaxGen
      BY DEF Jobs
    <3> QED BY <1>4, <3>1, JobTypes, WriteJob DEF Shared, Answer, TypeOK
  <2> QED BY <2>1, <1>4 DEF Shared, Answer, TypeOK, Equipped, Keyed, Go, Steps
<1>5. ASSUME HashKey(c) PROVE TypeInv'
  <2>1. job' = [job EXCEPT ![c] = [job[c] EXCEPT !.key = Hash[src]]]
    BY <1>5 DEF HashKey, TypeOK
  <2>2. job' \in [Callers -> Jobs]
    BY <2>1, JobTypes, WriteJob DEF TypeOK
  <2>3. job'[c].key = Hash[src]
    BY <2>1 DEF TypeOK, Jobs
  <2> QED BY <2>1, <2>2, <2>3, <1>5 DEF HashKey, TypeOK, Equipped, Keyed, Go, Steps
<1> QED BY <1>1, <1>2, <1>3, <1>4, <1>5

(* What a caller is left with when it is handed a binary. *)
LEMMA CompiledType ==
    ASSUME TypeInv, NEW c \in Callers, NEW bin \in Binaries, job[c].key \in Hashes, Compiled(c, bin)
    PROVE  /\ job' \in [Callers -> Jobs]
           /\ at' \in [Callers \cup Closers -> Steps \cup {"wait", "remove"}]
           /\ Equipped'
<1>1. (IF bin.file = 0 THEN bin.gen ELSE 0) \in 0..MaxGen
  BY ConstantsAssumption DEF Binaries
<1>2. job' = [job EXCEPT ![c] = [job[c] EXCEPT !.bin = bin,
                                   !.res = IF bin.file = 0 THEN bin.gen ELSE 0]]
  BY DEF Compiled, TypeInv, TypeOK
<1>3. job' \in [Callers -> Jobs]
  BY <1>1, <1>2, JobTypes, WriteJob, CallerTypes DEF TypeInv, TypeOK
<1>4. at' = [at EXCEPT ![c] = IF bin.file = 0 THEN "finish" ELSE "slot"]
  BY DEF Compiled, Go
<1>5. job'[c].key = job[c].key /\ job'[c].bin = bin /\ \A d \in Callers \ {c} : job'[d] = job[d]
  BY <1>2, CallerTypes DEF TypeInv, TypeOK, Jobs
<1> QED BY <1>3, <1>4, <1>5 DEF TypeInv, TypeOK, Equipped, Keyed, Steps

LEMMA CompileType ==
    ASSUME TypeInv, NEW c \in Callers
    PROVE  LookupBinary(c) \/ TakeCompile(c) \/ Build(c) \/ StoreBinary(c) => TypeInv'
<1> DEFINE s == SessionOf[c]
<1> USE CallerTypes DEF TypeInv
<1>1. ASSUME LookupBinary(c) PROVE TypeInv'
  <2> DEFINE synced == Synced(sess[s], job[c].key)
  <2>0. job[c].key \in Hashes
    BY <1>1 DEF LookupBinary, Equipped, Keyed
  <2>1. synced \in Fields
    BY <2>0, SyncedType
  <2>2. sess' \in [Sessions -> Fields] /\ synced.binaries[job[c].key] \in Binaries
    BY <1>1, <2>0, <2>1, WriteSession DEF LookupBinary, TypeOK, Fields
  <2>3. CASE Compiled(c, synced.binaries[job[c].key])
    BY <1>1, <2>0, <2>2, <2>3, CompiledType DEF LookupBinary, TypeOK
  <2>4. CASE Go(c, "compile") /\ UNCHANGED job
    BY <1>1, <2>0, <2>2, <2>4 DEF LookupBinary, TypeOK, Equipped, Keyed, Go, Steps
  <2> QED BY <1>1, <2>3, <2>4 DEF LookupBinary
<1>2. ASSUME TakeCompile(c) PROVE TypeInv'
  <2> DEFINE h == job[c].key
  <2>0. h \in Hashes
    BY <1>2 DEF TakeCompile, Equipped, Keyed
  <2>1. sess' \in [Sessions -> Fields]
    <3>1. \/ sess' = sess
          \/ sess' = [sess EXCEPT ![s] = [sess[s] EXCEPT !.building[h] = c]]
      BY <1>2 DEF TakeCompile, TypeOK
    <3> QED BY <3>1, <2>0, FieldTypes, WriteSession DEF TypeOK
  <2>2. CASE Compiled(c, sess[s].binaries[h])
    <3>1. sess[s].binaries[h] \in Binaries
      BY <2>0 DEF Fields
    <3> QED BY <1>2, <2>0, <2>1, <2>2, <3>1, CompiledType DEF TakeCompile, TypeOK
  <2>3. CASE (Go(c, "join") \/ Go(c, "build")) /\ UNCHANGED job
    BY <1>2, <2>0, <2>1, <2>3 DEF TakeCompile, TypeOK, Equipped, Keyed, Go, Steps
  <2> QED BY <1>2, <2>2, <2>3 DEF TakeCompile
<1>3. ASSUME Build(c) PROVE TypeInv'
  <2>1. sess' \in [Sessions -> Fields]
    <3>1. sess' = [sess EXCEPT ![s] = [sess[s] EXCEPT !.owned = @ \cup {CompileDir(s)}]]
      BY <1>3 DEF Build, TypeOK
    <3> QED BY <3>1, FieldTypes, WriteSession DEF TypeOK
  <2>2. seq' \in 1..MaxFile /\ src \in 0..MaxGen
    BY <1>3, MaxFileType, ConstantsAssumption DEF Build, TypeOK, Gens
  <2>3. image' \in [1..MaxFile -> 0..MaxGen]
    BY <1>3, <2>2 DEF Build, TypeOK, BinaryName
  <2>4. PICK b \in Binaries : job' = [job EXCEPT ![c] = [job[c] EXCEPT !.bin = b]]
    <3>1. [file |-> seq + 1, gen |-> src] \in Binaries /\ [file |-> 0, gen |-> src] \in Binaries
      BY <1>3, <2>2, MaxFileType DEF Binaries, Build
    <3> QED BY <1>3, <3>1, Nones DEF Build, TypeOK, BinaryName
  <2>5. job' \in [Callers -> Jobs]
    BY <2>4, JobTypes, WriteJob DEF TypeOK
  <2>7. job'[c].key = job[c].key
    BY <2>4 DEF TypeOK, Jobs
  <2>6. seq' \in 0..MaxFile
    BY <2>2
  <2> QED BY <2>1, <2>3, <2>4, <2>5, <2>6, <2>7, <1>3 DEF Build, TypeOK, Equipped, Keyed, Go, Steps
<1>4. ASSUME StoreBinary(c) PROVE TypeInv'
  <2>1. sess' \in [Sessions -> Fields]
    <3>1. \/ sess' = sess
          \/ sess' = [sess EXCEPT ![s] = [sess[s] EXCEPT !.binaries[job[c].key] = job[c].bin]]
      BY <1>4 DEF StoreBinary, TypeOK
    <3>2. job[c].key \in Hashes /\ job[c].bin \in Binaries
      BY <1>4 DEF StoreBinary, Equipped, Keyed, Jobs
    <3> QED BY <3>1, <3>2, FieldTypes, WriteSession DEF TypeOK
  <2> QED BY <2>1, <1>4 DEF StoreBinary, TypeOK, Equipped, Keyed, Go, Steps
<1> QED BY <1>1, <1>2, <1>3, <1>4

LEMMA PublishType ==
    ASSUME TypeInv, NEW c \in Callers
    PROVE  PublishBinary(c) \/ GiveUp(c) \/ TakeSlot(c) \/ Exec(c) => TypeInv'
<1> DEFINE s == SessionOf[c]
<1> USE CallerTypes DEF TypeInv
<1>1. ASSUME PublishBinary(c) PROVE TypeInv'
  <2> DEFINE bin == job[c].bin
             all == Joined(c) \cup {c}
             res == IF bin.file = 0 THEN bin.gen ELSE 0
  <2>0. job[c].key \in Hashes
    BY <1>1 DEF PublishBinary, Equipped, Keyed
  <2>1. sess' \in [Sessions -> Fields]
    <3>1. sess' = [sess EXCEPT ![s] = [sess[s] EXCEPT !.building[job[c].key] = Nobody]]
      BY <1>1 DEF PublishBinary, TypeOK
    <3> QED BY <3>1, <2>0, FieldTypes, WriteSession DEF TypeOK
  <2>2. bin \in Binaries /\ res \in 0..MaxGen
    BY ConstantsAssumption DEF Jobs, Binaries
  <2>3. \A w \in all : w \in Callers /\ job[w].key = job[c].key
    BY DEF Joined
  <2>4. \A w \in Callers : IF w \in all THEN job'[w] = [job[w] EXCEPT !.bin = bin, !.res = res]
                                        ELSE job'[w] = job[w]
    BY <1>1 DEF PublishBinary
  <2>5. \A w \in Callers : job'[w] \in Jobs
    <3> SUFFICES ASSUME NEW w \in Callers PROVE job'[w] \in Jobs
      OBVIOUS
    <3>1. job[w] \in Jobs
      BY DEF TypeOK
    <3>2. CASE w \in all
      <4>1. job'[w] = [job[w] EXCEPT !.bin = bin, !.res = res]
        BY <2>4, <3>2
      <4>2. \A b \in Binaries, g \in 0..MaxGen : [job[w] EXCEPT !.bin = b, !.res = g] \in Jobs
        BY <3>1, JobTypes
      <4>3. [job[w] EXCEPT !.bin = bin, !.res = res] \in Jobs
        BY <2>2, <4>2
      <4> QED BY <4>1, <4>3
    <3> QED BY <2>4, <3>1, <3>2
  <2>6. job' \in [Callers -> Jobs]
    BY <1>1, <2>5 DEF PublishBinary
  <2>7. /\ at' \in [Callers \cup Closers -> Steps \cup {"wait", "remove"}]
        /\ \A w \in Callers : at'[w] = IF w \notin all THEN at[w]
                                       ELSE IF bin.file = 0 THEN "finish" ELSE "slot"
    BY <1>1 DEF PublishBinary, TypeOK, Steps
  <2>8. \A w \in all : job'[w].bin = bin /\ job'[w].key = job[c].key
    <3> SUFFICES ASSUME NEW w \in all
                 PROVE  job'[w].bin = bin /\ job'[w].key = job[c].key
      OBVIOUS
    <3>1. job[w] \in Jobs /\ job'[w] = [job[w] EXCEPT !.bin = bin, !.res = res]
      BY <2>3, <2>4 DEF TypeOK
    <3> QED BY <2>3, <3>1 DEF Jobs
  <2>9. Equipped'
    BY <2>0, <2>3, <2>4, <2>7, <2>8 DEF Equipped, Keyed
  <2> QED BY <2>1, <2>6, <2>7, <2>9, <1>1 DEF PublishBinary, TypeOK
<1>2. ASSUME GiveUp(c) PROVE TypeInv'
  <2>1. job' \in [Callers -> Jobs]
    <3>1. job' = [job EXCEPT ![c] = [job[c] EXCEPT !.res = 0]]
      BY <1>2 DEF GiveUp, TypeOK
    <3> QED BY <3>1, ResultZero, WriteJob DEF TypeOK
  <2> QED BY <2>1, <1>2 DEF GiveUp, TypeOK, Equipped, Keyed, Go, Steps
<1>3. ASSUME TakeSlot(c) PROVE TypeInv'
  BY <1>3 DEF TakeSlot, TypeOK, Equipped, Keyed, Go, Steps
<1>4. ASSUME Exec(c) PROVE TypeInv'
  <2>1. job[c].bin.file \in 1..MaxFile
    BY <1>4, MaxFileType DEF Exec, Equipped, Jobs, Binaries
  <2>2. image[job[c].bin.file] \in 0..MaxGen /\ 0 \in 0..MaxGen
    BY <2>1, ConstantsAssumption DEF TypeOK
  <2>3. job' \in [Callers -> Jobs]
    BY <1>4, <2>2, JobTypes, WriteJob DEF Exec, TypeOK
  <2> QED BY <2>3, <1>4 DEF Exec, TypeOK, Equipped, Keyed, Go, Steps
<1> QED BY <1>1, <1>2, <1>3, <1>4

LEMMA FinishType ==
    ASSUME TypeInv, NEW c \in Callers
    PROVE  FinishTest(c) \/ FinishRecord(c) \/ FinishCollect(c) => TypeInv'
<1> DEFINE s == SessionOf[c]
<1> USE CallerTypes DEF TypeInv
<1>1. ASSUME FinishTest(c) PROVE TypeInv'
  <2> DEFINE t == job[c].test
             entry == [hash |-> job[c].hash, gen |-> job[c].res]
  <2>1. entry \in [hash : Hashes \cup {NoHash}, gen : 0..MaxGen] /\ t \in Tests
    BY DEF Jobs
  <2>2. sess' \in [Sessions -> Fields]
    <3> DEFINE e == IF entry.gen = 0 THEN sess[s].verdicts[t] ELSE entry
               v == [sess[s] EXCEPT !.running[t] = Nobody, !.verdicts[t] = e]
    <3>1. sess' = [sess EXCEPT ![s] = v]
      BY <1>1 DEF FinishTest, TypeOK
    <3>2. e \in [hash : Hashes \cup {NoHash}, gen : 0..MaxGen]
      BY <2>1 DEF Fields
    <3>3. v \in Fields
      BY <2>1, <3>2, FieldTypes
    <3> QED BY <3>1, <3>3, WriteSession DEF TypeOK
  <2>3. \A w \in Callers : job'[w] = IF w \in Waiting(c) THEN [job[w] EXCEPT !.got = entry]
                                                         ELSE job[w]
    BY <1>1 DEF FinishTest
  <2>4. job' \in [Callers -> Jobs]
    <3>1. \A w \in Callers : job'[w] \in Jobs
      <4> SUFFICES ASSUME NEW w \in Callers PROVE job'[w] \in Jobs
        OBVIOUS
      <4>1. job[w] \in Jobs
        BY DEF TypeOK
      <4>2. [job[w] EXCEPT !.got = entry] \in Jobs
        BY <2>1, <4>1, JobTypes
      <4> QED BY <2>3, <4>1, <4>2
    <3> QED BY <1>1, <3>1 DEF FinishTest
  <2>5. /\ at' \in [Callers \cup Closers -> Steps \cup {"wait", "remove"}]
        /\ \A w \in Callers : at'[w] \in {"return", "awake"} \/ at'[w] = at[w]
    BY <1>1 DEF FinishTest, TypeOK, Steps
  <2>6. \A w \in Callers : job'[w].key = job[w].key /\ job'[w].bin = job[w].bin
    BY <2>3 DEF TypeOK, Jobs
  <2>7. Equipped'
    BY <2>5, <2>6 DEF Equipped, Keyed
  <2> QED BY <2>2, <2>4, <2>5, <2>7, <1>1 DEF FinishTest, TypeOK
<1>2. ASSUME FinishRecord(c) PROVE TypeInv'
  <2>1. sess' \in [Sessions -> Fields]
    <3>1. \/ sess' = sess
          \/ sess' = [sess EXCEPT ![s] = [sess[s] EXCEPT !.owned = @ \ {TempDir(c)}]]
      BY <1>2 DEF FinishRecord, TypeOK
    <3> QED BY <3>1, FieldTypes, WriteSession DEF TypeOK
  <2>2. job' \in [Callers -> Jobs]
    <3>1. job' = job \/ job' = [job EXCEPT ![c] = [job[c] EXCEPT !.res = 0]]
      BY <1>2 DEF FinishRecord, TypeOK
    <3> QED BY <3>1, ResultZero, WriteJob DEF TypeOK
  <2> QED BY <2>1, <2>2, <1>2 DEF FinishRecord, TypeOK, Equipped, Keyed, Go, Steps
<1>3. ASSUME FinishCollect(c) PROVE TypeInv'
  <2>1. sess' \in [Sessions -> Fields]
    <3> DEFINE v == [sess[s] EXCEPT !.snapMu = Nobody,
                                    !.snapshot = [hash |-> job[c].hash, gen |-> job[c].res]]
    <3>1. \/ sess' = [sess EXCEPT ![s] = v]
          \/ sess' = [sess EXCEPT ![s] = [sess[s] EXCEPT !.snapMu = Nobody]]
      BY <1>3 DEF FinishCollect, TypeOK
    <3>2. v \in Fields
      <4>1. [hash |-> job[c].hash, gen |-> job[c].res] \in [hash : Hashes \cup {NoHash}, gen : 0..MaxGen]
        BY DEF Jobs
      <4> QED BY <4>1, FieldTypes
    <3> QED BY <3>1, <3>2, FieldTypes, WriteSession DEF TypeOK
  <2>2. job' \in [Callers -> Jobs]
    <3>1. job' = job \/ job' = [job EXCEPT ![c] = [job[c] EXCEPT !.res = 0]]
      BY <1>3 DEF FinishCollect, TypeOK
    <3> QED BY <3>1, ResultZero, WriteJob DEF TypeOK
  <2> QED BY <2>1, <2>2, <1>3 DEF FinishCollect, TypeOK, Equipped, Keyed, Go, Steps
<1> QED BY <1>1, <1>2, <1>3

LEMMA CloseType ==
    ASSUME TypeInv, NEW k \in Closers
    PROVE  CloseBegin(k) \/ CloseStep(k) => TypeInv'
<1> DEFINE s == SessionOf[k]
<1>0. s \in Sessions /\ sess[s] \in Fields
  BY ConstantsAssumption DEF TypeInv, TypeOK
<1> USE DEF TypeInv
<1>1. ASSUME CloseBegin(k) PROVE TypeInv'
  <2>1. sess' \in [Sessions -> Fields]
    <3> DEFINE v == [sess[s] EXCEPT !.closeMu = k, !.closing = TRUE]
    <3>1. sess' = [sess EXCEPT ![s] = v]
      BY <1>0, <1>1 DEF CloseBegin, TypeOK
    <3>2. v \in Fields
      BY <1>0 DEF Fields
    <3> QED BY <1>0, <3>1, <3>2, WriteSession DEF TypeOK
  <2>2. calls' \in [Callers \cup Closers -> 0..MaxCalls]
    BY <1>1, ConstantsAssumption DEF CloseBegin, TypeOK
  <2> QED BY <2>1, <2>2, <1>1 DEF CloseBegin, TypeOK, Equipped, Keyed, Go, Steps
<1>2. ASSUME CloseClear(k) PROVE TypeInv'
  <2>1. sess' \in [Sessions -> Fields]
    <3> DEFINE v == [sess[s] EXCEPT !.binaries = [h \in Hashes |-> NoBinary],
                                    !.verdicts = [t \in Tests |-> Unknown],
                                    !.snapshot = Unknown, !.lastHash = NoHash]
    <3>1. sess' = [sess EXCEPT ![s] = v]
      BY <1>0, <1>2 DEF CloseClear, TypeOK
    <3>2. v \in Fields
      BY <1>0, Nones DEF Fields
    <3> QED BY <1>0, <3>1, <3>2, WriteSession DEF TypeOK
  <2>2. left' \in [Closers -> SUBSET Dirs]
    BY <1>0, <1>2 DEF CloseClear, TypeOK, Fields
  <2> QED BY <2>1, <2>2, <1>2 DEF CloseClear, TypeOK, Equipped, Keyed, Go, Steps
<1>3. ASSUME CloseRemove(k) PROVE TypeInv'
  <2>1. PICK path \in left[k] :
            /\ left' = [left EXCEPT ![k] = @ \ {path}]
            /\ \/ /\ disk' = disk \ {path}
                  /\ sess' = [sess EXCEPT ![s].owned = @ \ {path}]
               \/ UNCHANGED <<disk, sess>>
    BY <1>3 DEF CloseRemove
  <2>2. sess' \in [Sessions -> Fields]
    <3>1. \/ sess' = sess
          \/ sess' = [sess EXCEPT ![s] = [sess[s] EXCEPT !.owned = @ \ {path}]]
      BY <1>0, <2>1 DEF TypeOK
    <3> QED BY <1>0, <3>1, FieldTypes, WriteSession DEF TypeOK
  <2> QED BY <2>1, <2>2, <1>3 DEF CloseRemove, TypeOK, Equipped, Keyed
<1>4. ASSUME CloseEnd(k) PROVE TypeInv'
  <2>1. sess' \in [Sessions -> Fields]
    <3> DEFINE v == [sess[s] EXCEPT !.closeMu = Nobody]
    <3>1. sess' = [sess EXCEPT ![s] = v]
      BY <1>0, <1>4 DEF CloseEnd, TypeOK
    <3>2. v \in Fields
      BY <1>0 DEF Fields
    <3> QED BY <1>0, <3>1, <3>2, WriteSession DEF TypeOK
  <2> QED BY <2>1, <1>4 DEF CloseEnd, TypeOK, Equipped, Keyed, Go, Steps
<1> QED BY <1>1, <1>2, <1>3, <1>4 DEF CloseStep

LEMMA NextType == TypeInv /\ [Next]_vars => TypeInv'
<1> SUFFICES ASSUME TypeInv, [Next]_vars PROVE TypeInv' OBVIOUS
<1>1. ASSUME NEW c \in Callers, Begin(c) \/ Step(c) PROVE TypeInv'
  BY <1>1, EnterType, AskType, FlightType, CompileType, PublishType, FinishType DEF Step
<1>2. CASE UNCHANGED vars
  BY <1>2 DEF vars, TypeInv, TypeOK, Equipped
<1> QED BY <1>1, <1>2, EditType, CloseType DEF Next

\* Every variable keeps its type, and a caller that is to run a binary has one.
THEOREM TypeCorrect == Spec => []TypeOK
<1>1. TypeInv => TypeOK
  BY DEF TypeInv
<1> QED BY <1>1, InitType, NextType, PTL DEF Spec
----------------------------------------------------------------------------
(* A binary, verdict or snapshot of generation g filed under hash h was made of
   sources that existed, and that were no older than those hashed. *)
Since(h, g) == g # 0 => g <= src /\ \A f \in Gens : Hash[f] = h => f <= g

(* A binary somebody holds is still in its file. *)
InItsFile(bin) == bin.file # 0 => bin.file <= seq /\ image[bin.file] = bin.gen

(* What a caller knows, by the place it has come to. *)
CallInv(c) ==
    /\ job[c].start <= src
    /\ \A g \in Gens : Hash[g] = job[c].hash => job[c].start <= g /\ g <= src
    /\ \A g \in Gens : Hash[g] = job[c].key =>
          g <= src /\ \A f \in Gens : Hash[f] = job[c].hash => f <= g
    /\ at[c] \in {"snapLock", "hash"} => job[c].key = NoHash
    /\ at[c] \notin {"idle", "snapLock", "hash", "return"} => job[c].hash \in Hashes
    /\ at[c] \in {"store", "publish", "slot", "exec"} =>
          Since(job[c].key, job[c].bin.gen) /\ InItsFile(job[c].bin)
    /\ at[c] = "awake" => Since(job[c].got.hash, job[c].got.gen)
    /\ at[c] = "finish" => Since(job[c].hash, job[c].res)
    /\ at[c] = "return" /\ job[c].res # 0 => job[c].start <= job[c].res

(* What a session keeps. *)
SessionInv(s) ==
    /\ \A h \in Hashes : Since(h, sess[s].binaries[h].gen) /\ InItsFile(sess[s].binaries[h])
    /\ \A t \in Tests : Since(sess[s].verdicts[t].hash, sess[s].verdicts[t].gen)
    /\ Since(sess[s].snapshot.hash, sess[s].snapshot.gen)
    /\ sess[s].snapshot.gen # 0 => Hash[sess[s].snapshot.gen] = sess[s].snapshot.hash

FreshInv == (\A c \in Callers : CallInv(c)) /\ (\A s \in Sessions : SessionInv(s))

(* The sources only move forward and files are only added. *)
Forward == src' >= src /\ seq' >= seq /\ \A f \in 1..seq : image'[f] = image[f]

(* A call whose caller does nothing keeps what it knows. *)
LEMMA StillCall ==
    ASSUME TypeOK, TypeOK', Forward, NEW c \in Callers, CallInv(c), at'[c] = at[c], job'[c] = job[c]
    PROVE  CallInv(c)'
<1> DEFINE j == job[c]
<1>1. j \in Jobs /\ src \in Nat /\ src' \in Nat /\ src' >= src /\ MaxGen \in Nat
  BY ConstantsAssumption DEF TypeOK, Gens, Forward
<1>2. j.start \in Nat /\ j.bin \in Binaries /\ j.bin.gen \in 0..MaxGen
      /\ j.got.gen \in 0..MaxGen /\ j.res \in 0..MaxGen
  BY <1>1 DEF Jobs, Binaries
<1>3. /\ Since(j.key, j.bin.gen) => Since(j.key, j.bin.gen)'
      /\ Since(j.got.hash, j.got.gen) => Since(j.got.hash, j.got.gen)'
      /\ Since(j.hash, j.res) => Since(j.hash, j.res)'
  BY <1>1, <1>2, ConstantsAssumption DEF Since, Gens
<1>4. InItsFile(j.bin) => InItsFile(j.bin)'
  <2>1. j.bin.file \in Nat /\ seq \in Nat /\ seq' \in Nat
    BY <1>2, MaxFileType DEF Binaries, TypeOK
  <2> QED BY <2>1 DEF InItsFile, Forward
<1> QED BY <1>1, <1>2, <1>3, <1>4 DEF CallInv, Gens

LEMMA StillSession ==
    ASSUME TypeOK, TypeOK', Forward, NEW s \in Sessions, SessionInv(s),
           sess'[s].binaries = sess[s].binaries, sess'[s].verdicts = sess[s].verdicts,
           sess'[s].snapshot = sess[s].snapshot
    PROVE  SessionInv(s)'
<1>1. sess[s] \in Fields /\ src' >= src
  BY DEF TypeOK, Forward
<1>2. ASSUME NEW h \in Hashes
      PROVE  (Since(h, sess[s].binaries[h].gen) /\ InItsFile(sess[s].binaries[h]))'
  <2>1. sess[s].binaries[h] \in Binaries /\ sess[s].binaries[h].gen \in 0..MaxGen
    BY <1>1 DEF Fields, Binaries
  <2>2. Since(h, sess[s].binaries[h].gen) /\ InItsFile(sess[s].binaries[h])
    BY DEF SessionInv
  <2>3. src \in Nat /\ src' \in Nat /\ seq \in Nat /\ seq' \in Nat /\ sess[s].binaries[h].file \in Nat
    BY <2>1, MaxFileType, ConstantsAssumption DEF TypeOK, Gens, Binaries
  <2> QED BY <2>1, <2>2, <2>3, ConstantsAssumption DEF Since, InItsFile, Forward, Gens
<1>3. ASSUME NEW t \in Tests
      PROVE  Since(sess[s].verdicts[t].hash, sess[s].verdicts[t].gen)'
  <2>1. sess[s].verdicts[t].gen \in 0..MaxGen
    BY <1>1 DEF Fields
  <2>2. Since(sess[s].verdicts[t].hash, sess[s].verdicts[t].gen)
    BY DEF SessionInv
  <2> QED BY <1>1, <2>1, <2>2, ConstantsAssumption DEF Since, TypeOK, Gens
<1>4. Since(sess[s].snapshot.hash, sess[s].snapshot.gen)'
  <2>1. sess[s].snapshot.gen \in 0..MaxGen
    BY <1>1 DEF Fields
  <2>2. Since(sess[s].snapshot.hash, sess[s].snapshot.gen)
    BY DEF SessionInv
  <2> QED BY <1>1, <2>1, <2>2, ConstantsAssumption DEF Since, TypeOK, Gens
<1> QED BY <1>2, <1>3, <1>4 DEF SessionInv

(* A step that keeps the invariant where it acts keeps it. *)
LEMMA Elsewhere ==
    ASSUME TypeOK, TypeOK', FreshInv, Forward, NEW C \in SUBSET Callers,
           \A c \in C : CallInv(c)',
           \A c \in Callers \ C : at'[c] = at[c] /\ job'[c] = job[c],
           \A s \in Sessions :
               \/ SessionInv(s)'
               \/ /\ sess'[s].binaries = sess[s].binaries /\ sess'[s].verdicts = sess[s].verdicts
                  /\ sess'[s].snapshot = sess[s].snapshot
    PROVE  FreshInv'
<1>1. \A c \in Callers \ C : CallInv(c)'
  BY StillCall DEF FreshInv
<1>2. \A s \in Sessions : SessionInv(s)'
  BY StillSession DEF FreshInv
<1> QED BY <1>1, <1>2 DEF FreshInv

\* Every edit writes content that was never there before.
EveryEditIsNew == \A f, g \in Gens : Hash[f] = Hash[g] => f = g

LEMMA FreshInit == Init => FreshInv
<1> SUFFICES ASSUME Init PROVE FreshInv OBVIOUS
<1>1. \A f \in Gens : Hash[f] # NoHash
  BY ConstantsAssumption DEF Hashes
<1>2. ASSUME NEW c \in Callers PROVE CallInv(c)
  BY <1>1 DEF Init, NoJob, NewJob, CallInv, InItsFile, Since, NoBinary, Unknown
<1>3. ASSUME NEW s \in Sessions PROVE SessionInv(s)
  BY DEF Init, NewSession, SessionInv, InItsFile, Since, NoBinary, Unknown
<1> QED BY <1>2, <1>3 DEF FreshInv

LEMMA FreshEdit == TypeInv /\ TypeInv' /\ FreshInv /\ Edit => FreshInv'
<1> SUFFICES ASSUME TypeInv, TypeInv', FreshInv, Edit PROVE FreshInv' OBVIOUS
<1>1. Forward
  BY MaxFileType, ConstantsAssumption DEF Edit, Forward, TypeInv, TypeOK, Gens
<1>2. at' = at /\ job' = job /\ sess' = sess
  BY DEF Edit
<1> QED
  <2> DEFINE C == {}
  <2>1. C \in SUBSET Callers /\ \A c \in C : CallInv(c)'
    OBVIOUS
  <2> HIDE DEF C
  <2> QED BY <1>1, <1>2, <2>1, Elsewhere DEF TypeInv

(* The steps at which the sources and the compiled files stay. *)
LEMMA Still ==
    ASSUME TypeOK, UNCHANGED <<src, seq, image>>
    PROVE  Forward
BY MaxFileType, ConstantsAssumption DEF Forward, TypeOK, Gens

(* A step of one caller that writes no cache. *)
LEMMA OneCaller ==
    ASSUME TypeInv, TypeInv', FreshInv, NEW c \in Callers, UNCHANGED <<src, seq, image>>,
           CallInv(c)',
           \A d \in Callers \ {c} : at'[d] = at[d] /\ job'[d] = job[d],
           \A s \in Sessions :
               \/ SessionInv(s)'
               \/ /\ sess'[s].binaries = sess[s].binaries /\ sess'[s].verdicts = sess[s].verdicts
                  /\ sess'[s].snapshot = sess[s].snapshot
    PROVE  FreshInv'
<1>1. Forward
  BY Still DEF TypeInv
<1> DEFINE C == {c}
<1>2. C \in SUBSET Callers /\ (\A d \in C : CallInv(d)')
      /\ \A d \in Callers \ C : at'[d] = at[d] /\ job'[d] = job[d]
  OBVIOUS
<1> HIDE DEF C
<1> QED BY <1>1, <1>2, Elsewhere DEF TypeInv

(* A step that gives one caller another place. *)
LEMMA Moved ==
    ASSUME TypeInv, NEW c \in Callers, NEW step, Go(c, step)
    PROVE  /\ at'[c] = step
           /\ \A d \in Callers \ {c} : at'[d] = at[d]
BY DEF Go, TypeInv, TypeOK

LEMMA EnterFresh ==
    ASSUME TypeInv, TypeInv', FreshInv, NEW c \in Callers
    PROVE  Begin(c) \/ Return(c) \/ LockSnapshot(c) => FreshInv'
<1>0. CallInv(c) /\ job[c] \in Jobs /\ job'[c] \in Jobs /\ \A g \in Gens : Hash[g] # NoHash
  BY ConstantsAssumption DEF FreshInv, TypeInv, TypeOK, Hashes
<1>1. ASSUME Begin(c) PROVE FreshInv'
  <2>1. CASE at' = at /\ job' = job
    <3>1. CallInv(c)'
      BY <1>0, <1>1, <2>1 DEF Begin, CallInv, Since, InItsFile
    <3> QED BY <1>1, <2>1, <3>1, OneCaller DEF Begin
  <2>2. CASE \E kind \in Kinds, t \in Tests :
                /\ job' = [job EXCEPT ![c] = NewJob(kind, t, src)]
                /\ Go(c, IF kind = "collect" THEN "snapLock" ELSE "hash")
    <3>1. /\ at'[c] \in {"snapLock", "hash"}
          /\ \A d \in Callers \ {c} : at'[d] = at[d]
      BY <2>2, Moved
    <3>2. PICK kind \in Kinds, t \in Tests : job' = [job EXCEPT ![c] = NewJob(kind, t, src)]
      BY <2>2
    <3>3. /\ job'[c] = NewJob(kind, t, src)
          /\ \A d \in Callers \ {c} : job'[d] = job[d]
      BY <3>2 DEF TypeInv, TypeOK
    <3>4. CallInv(c)'
      BY <1>0, <1>1, <3>1, <3>3, ConstantsAssumption
         DEF Begin, CallInv, NewJob, TypeInv, TypeOK, Gens
    <3> QED BY <1>1, <3>1, <3>3, <3>4, OneCaller DEF Begin
  <2> QED BY <1>1, <2>1, <2>2 DEF Begin
<1>2. ASSUME Return(c) PROVE FreshInv'
  <2>1. /\ at'[c] = "idle" /\ job'[c] = NoJob
        /\ \A d \in Callers \ {c} : at'[d] = at[d] /\ job'[d] = job[d]
    BY <1>2, Moved DEF Return, TypeInv, TypeOK
  <2>2. CallInv(c)'
    BY <1>0, <1>2, <2>1, ConstantsAssumption
       DEF Return, CallInv, NoJob, NewJob, TypeInv, TypeOK, Gens
  <2> QED BY <1>2, <2>1, <2>2, OneCaller DEF Return
<1>3. ASSUME LockSnapshot(c) PROVE FreshInv'
  <2>1. /\ at'[c] = "hash" /\ at[c] = "snapLock"
        /\ \A d \in Callers \ {c} : at'[d] = at[d]
    BY <1>3, Moved DEF LockSnapshot
  <2>2. CallInv(c)'
    BY <1>0, <1>3, <2>1 DEF LockSnapshot, CallInv
  <2>3. \A s \in Sessions : /\ sess'[s].binaries = sess[s].binaries
                            /\ sess'[s].verdicts = sess[s].verdicts
                            /\ sess'[s].snapshot = sess[s].snapshot
    BY <1>3 DEF LockSnapshot, TypeInv, TypeOK, Fields
  <2> QED BY <1>3, <2>1, <2>2, <2>3, OneCaller DEF LockSnapshot
<1> QED BY <1>1, <1>2, <1>3

(* An answer from what a session keeps, or from what another caller left. *)
LEMMA Answered ==
    ASSUME TypeInv, TypeInv', FreshInv, NEW c \in Callers, NEW g \in 0..MaxGen,
           UNCHANGED src, Answer(c, g), job[c].hash \in Hashes, Since(job[c].hash, g)
    PROVE  /\ CallInv(c)'
           /\ \A d \in Callers \ {c} : at'[d] = at[d] /\ job'[d] = job[d]
<1>0. CallInv(c) /\ job[c] \in Jobs
  BY DEF FreshInv, TypeInv, TypeOK
<1>1. /\ at'[c] = "return"
      /\ \A d \in Callers \ {c} : at'[d] = at[d]
  BY Moved DEF Answer
<1>2. /\ job'[c] = [job[c] EXCEPT !.res = g]
      /\ \A d \in Callers \ {c} : job'[d] = job[d]
  BY DEF Answer, TypeInv, TypeOK
<1>3. /\ job'[c].res = g /\ job'[c].start = job[c].start
      /\ job'[c].hash = job[c].hash /\ job'[c].key = job[c].key
  BY <1>0, <1>2 DEF Jobs
<1>4. g # 0 => job[c].start <= g
  <2>1. PICK f \in Gens : Hash[f] = job[c].hash
    BY DEF Hashes
  <2>2. job[c].start \in Nat /\ f \in Nat
    BY <1>0, ConstantsAssumption DEF Jobs, Gens
  <2> QED BY <1>0, <2>1, <2>2 DEF CallInv, Since
<1>5. CallInv(c)'
  BY <1>0, <1>1, <1>3, <1>4 DEF CallInv
<1> QED BY <1>1, <1>2, <1>5

(* What is cached was fresh for its hash. *)
LEMMA Cached ==
    ASSUME TypeInv, FreshInv, NEW c \in Callers
    PROVE  /\ CallInv(c) /\ job[c] \in Jobs /\ SessionOf[c] \in Sessions
           /\ SessionInv(SessionOf[c]) /\ sess[SessionOf[c]] \in Fields
           /\ sess[SessionOf[c]].verdicts[job[c].test].gen \in 0..MaxGen
           /\ sess[SessionOf[c]].snapshot.gen \in 0..MaxGen
           /\ src \in Gens /\ Hash[src] \in Hashes
           /\ Since(sess[SessionOf[c]].verdicts[job[c].test].hash,
                    sess[SessionOf[c]].verdicts[job[c].test].gen)
<1>1. CallInv(c) /\ job[c] \in Jobs /\ SessionOf[c] \in Sessions
      /\ SessionInv(SessionOf[c]) /\ sess[SessionOf[c]] \in Fields
      /\ src \in Gens /\ Hash[src] \in Hashes
  BY CallerTypes DEF FreshInv, TypeInv
<1> QED BY <1>1 DEF SessionInv, Fields, Jobs

(* Emptying a cache of binaries, or not, keeps what is known of a session. *)
LEMMA SyncedFresh ==
    ASSUME TypeInv, FreshInv, NEW s \in Sessions, NEW h \in Hashes \cup {NoHash},
           UNCHANGED <<src, seq, image>>, sess' = [sess EXCEPT ![s] = Synced(sess[s], h)]
    PROVE  /\ SessionInv(s)'
           /\ \A r \in Sessions \ {s} : sess'[r] = sess[r]
<1>1. sess[s] \in Fields /\ SessionInv(s)
  BY DEF FreshInv, TypeInv, TypeOK
<1>2. sess'[s] = Synced(sess[s], h) /\ \A r \in Sessions \ {s} : sess'[r] = sess[r]
  BY DEF TypeInv, TypeOK
<1>3. /\ sess'[s].verdicts = sess[s].verdicts /\ sess'[s].snapshot = sess[s].snapshot
      /\ sess'[s].binaries \in {sess[s].binaries, [k \in Hashes |-> NoBinary]}
  BY <1>1, <1>2 DEF Synced, Fields
<1> QED BY <1>1, <1>2, <1>3 DEF SessionInv, Since, InItsFile, NoBinary

LEMMA AskFresh ==
    ASSUME EveryEditIsNew, TypeInv, TypeInv', FreshInv, NEW c \in Callers
    PROVE  HashInputs(c) \/ LookupVerdict(c) \/ LookupNothing(c) \/ LookupSnapshot(c) => FreshInv'
<1> DEFINE s == SessionOf[c]
<1>0. CallInv(c) /\ job[c] \in Jobs /\ s \in Sessions /\ SessionInv(s) /\ sess[s] \in Fields
      /\ src \in Gens /\ Hash[src] \in Hashes /\ \A g \in Gens : Hash[g] # NoHash
  BY Cached, ConstantsAssumption DEF Hashes
<1>1. ASSUME HashInputs(c) PROVE FreshInv'
  <2>1. /\ at'[c] = "lookup" /\ at[c] = "hash"
        /\ \A d \in Callers \ {c} : at'[d] = at[d] /\ job'[d] = job[d]
        /\ job'[c] = [job[c] EXCEPT !.hash = Hash[src]]
    BY <1>1, Moved DEF HashInputs, TypeInv, TypeOK
  <2>2. /\ job'[c].hash = Hash[src] /\ job'[c].key = NoHash /\ job'[c].start = job[c].start
    BY <1>0, <2>1 DEF Jobs, CallInv
  <2>3. CallInv(c)'
    BY <1>0, <1>1, <2>1, <2>2, ConstantsAssumption
       DEF CallInv, HashInputs, EveryEditIsNew, Gens
  <2> QED BY <1>1, <2>1, <2>3, OneCaller DEF HashInputs
<1>2. ASSUME LookupVerdict(c) PROVE FreshInv'
  <2>1. SessionInv(s)' /\ \A r \in Sessions \ {s} : sess'[r] = sess[r]
    BY <1>0, <1>2, SyncedFresh DEF LookupVerdict, Jobs
  <2>2. job[c].hash \in Hashes
    BY <1>0, <1>2 DEF LookupVerdict, CallInv
  <2>3. CASE sess[s].verdicts[job[c].test].hash = job[c].hash
    BY <1>2, <2>1, <2>2, <2>3, Cached, Answered, OneCaller DEF LookupVerdict
  <2>4. CASE sess[s].verdicts[job[c].test].hash # job[c].hash
    <3>1. /\ at'[c] = "flight" /\ job' = job
          /\ \A d \in Callers \ {c} : at'[d] = at[d]
      BY <1>2, <2>4, Moved DEF LookupVerdict
    <3>2. CallInv(c)'
      BY <1>0, <1>2, <2>2, <3>1 DEF CallInv, LookupVerdict
    <3> QED BY <1>2, <2>1, <3>1, <3>2, OneCaller DEF LookupVerdict
  <2> QED BY <2>3, <2>4
<1>3. ASSUME LookupNothing(c) PROVE FreshInv'
  <2>1. SessionInv(s)' /\ \A r \in Sessions \ {s} : sess'[r] = sess[r]
    BY <1>0, <1>3, SyncedFresh DEF LookupNothing, Jobs
  <2>2. /\ at'[c] = "mkdir" /\ at[c] = "lookup" /\ job' = job
        /\ \A d \in Callers \ {c} : at'[d] = at[d]
    BY <1>3, Moved DEF LookupNothing
  <2>3. CallInv(c)'
    BY <1>0, <1>3, <2>2 DEF CallInv, LookupNothing
  <2> QED BY <1>3, <2>1, <2>2, <2>3, OneCaller DEF LookupNothing
<1>4. ASSUME LookupSnapshot(c) PROVE FreshInv'
  <2>1. job[c].hash \in Hashes
    BY <1>0, <1>4 DEF LookupSnapshot, CallInv
  <2>2. CASE sess[s].snapshot.hash = job[c].hash
    <3>1. \A r \in Sessions : /\ sess'[r].binaries = sess[r].binaries
                              /\ sess'[r].verdicts = sess[r].verdicts
                              /\ sess'[r].snapshot = sess[r].snapshot
      <4>1. sess' = [sess EXCEPT ![s] = [sess[s] EXCEPT !.snapMu = Nobody]]
        BY <1>4, <2>2 DEF LookupSnapshot, TypeInv, TypeOK
      <4> QED BY <1>0, <4>1 DEF TypeInv, TypeOK, Fields
    <3>2. Since(job[c].hash, sess[s].snapshot.gen)
      BY <1>0, <2>2 DEF SessionInv
    <3> QED BY <1>4, <2>1, <2>2, <3>1, <3>2, Cached, Answered, OneCaller DEF LookupSnapshot
  <2>3. CASE sess[s].snapshot.hash # job[c].hash
    <3>1. /\ at'[c] = "key" /\ job' = job /\ sess' = sess
          /\ \A d \in Callers \ {c} : at'[d] = at[d]
      BY <1>4, <2>3, Moved DEF LookupSnapshot
    <3>2. CallInv(c)'
      BY <1>0, <1>4, <2>1, <3>1 DEF CallInv, LookupSnapshot
    <3> QED BY <1>4, <3>1, <3>2, OneCaller DEF LookupSnapshot
  <2> QED BY <2>2, <2>3
<1> QED BY <1>1, <1>2, <1>3, <1>4

LEMMA FlightFresh ==
    ASSUME EveryEditIsNew, TypeInv, TypeInv', FreshInv, NEW c \in Callers
    PROVE  MakeTempDir(c) \/ OwnTempDir(c) \/ TakeFlight(c) \/ Shared(c) \/ HashKey(c) => FreshInv'
<1> DEFINE s == SessionOf[c]
<1>0. CallInv(c) /\ job[c] \in Jobs /\ s \in Sessions /\ SessionInv(s) /\ sess[s] \in Fields
      /\ src \in Gens /\ Hash[src] \in Hashes /\ \A g \in Gens : Hash[g] # NoHash
  BY Cached, ConstantsAssumption DEF Hashes
<1>1. ASSUME MakeTempDir(c) PROVE FreshInv'
  <2>1. /\ at'[c] = "own" /\ at[c] = "mkdir" /\ job' = job /\ sess' = sess
        /\ \A d \in Callers \ {c} : at'[d] = at[d]
    BY <1>1, Moved DEF MakeTempDir
  <2>2. CallInv(c)'
    BY <1>0, <1>1, <2>1 DEF CallInv, MakeTempDir
  <2> QED BY <1>1, <2>1, <2>2, OneCaller DEF MakeTempDir
<1>2. ASSUME OwnTempDir(c) PROVE FreshInv'
  <2>1. /\ at'[c] = "key" /\ at[c] = "own" /\ job' = job
        /\ \A d \in Callers \ {c} : at'[d] = at[d]
    BY <1>2, Moved DEF OwnTempDir
  <2>2. CallInv(c)'
    BY <1>0, <1>2, <2>1 DEF CallInv, OwnTempDir
  <2>3. \A r \in Sessions : /\ sess'[r].binaries = sess[r].binaries
                            /\ sess'[r].verdicts = sess[r].verdicts
                            /\ sess'[r].snapshot = sess[r].snapshot
    <3>1. sess' = [sess EXCEPT ![s] = [sess[s] EXCEPT !.owned = @ \cup {TempDir(c)}]]
      BY <1>2 DEF OwnTempDir, TypeInv, TypeOK
    <3> QED BY <1>0, <3>1 DEF TypeInv, TypeOK, Fields
  <2> QED BY <1>2, <2>1, <2>2, <2>3, OneCaller DEF OwnTempDir
<1>3. ASSUME TakeFlight(c) PROVE FreshInv'
  <2>1. job[c].hash \in Hashes
    BY <1>0, <1>3 DEF TakeFlight, CallInv
  <2>2. CASE sess[s].verdicts[job[c].test].hash = job[c].hash
    BY <1>3, <2>1, <2>2, Cached, Answered, OneCaller DEF TakeFlight
  <2>3. CASE sess[s].verdicts[job[c].test].hash # job[c].hash
    <3>1. /\ at'[c] \in {"await", "key"} /\ at[c] = "flight" /\ job' = job
          /\ \A d \in Callers \ {c} : at'[d] = at[d]
      BY <1>3, <2>3, Moved DEF TakeFlight
    <3>2. CallInv(c)'
      BY <1>0, <1>3, <3>1 DEF CallInv, TakeFlight
    <3>3. \A r \in Sessions : /\ sess'[r].binaries = sess[r].binaries
                              /\ sess'[r].verdicts = sess[r].verdicts
                              /\ sess'[r].snapshot = sess[r].snapshot
      <4>1. \/ sess' = sess
            \/ sess' = [sess EXCEPT ![s] = [sess[s] EXCEPT !.running[job[c].test] = c]]
        BY <1>3 DEF TakeFlight, TypeInv, TypeOK
      <4>2. ASSUME sess' = [sess EXCEPT ![s] = [sess[s] EXCEPT !.running[job[c].test] = c]],
                   NEW r \in Sessions
            PROVE  /\ sess'[r].binaries = sess[r].binaries /\ sess'[r].verdicts = sess[r].verdicts
                   /\ sess'[r].snapshot = sess[r].snapshot
        BY <1>0, <4>2 DEF TypeInv, TypeOK, Fields
      <4> QED BY <4>1, <4>2
    <3> QED BY <1>3, <3>1, <3>2, <3>3, OneCaller DEF TakeFlight
  <2> QED BY <2>2, <2>3
<1>4. ASSUME Shared(c) PROVE FreshInv'
  <2>1. job[c].hash \in Hashes /\ Since(job[c].got.hash, job[c].got.gen)
        /\ job[c].got.gen \in 0..MaxGen
    BY <1>0, <1>4 DEF Shared, CallInv, Jobs
  <2>2. CASE job[c].got.hash = job[c].hash
    BY <1>4, <2>1, <2>2, Answered, OneCaller DEF Shared
  <2>3. CASE job[c].got.hash # job[c].hash
    <3>1. /\ at'[c] = "flight" /\ at[c] = "awake" /\ job' = job
          /\ \A d \in Callers \ {c} : at'[d] = at[d]
      BY <1>4, <2>3, Moved DEF Shared
    <3>2. CallInv(c)'
      BY <1>0, <1>4, <3>1 DEF CallInv, Shared
    <3> QED BY <1>4, <3>1, <3>2, OneCaller DEF Shared
  <2> QED BY <2>2, <2>3
<1>5. ASSUME HashKey(c) PROVE FreshInv'
  <2>1. /\ at'[c] = "cache" /\ at[c] = "key"
        /\ \A d \in Callers \ {c} : at'[d] = at[d] /\ job'[d] = job[d]
        /\ job'[c] = [job[c] EXCEPT !.key = Hash[src]]
    BY <1>5, Moved DEF HashKey, TypeInv, TypeOK
  <2>2. /\ job'[c].key = Hash[src] /\ job'[c].hash = job[c].hash /\ job'[c].start = job[c].start
    BY <1>0, <2>1 DEF Jobs
  <2>3. CallInv(c)'
    <3>1. \A g \in Gens : Hash[g] = Hash[src] => g = src
      BY <1>0 DEF EveryEditIsNew
    <3>2. job[c].hash \in Hashes
      BY <1>0, <2>1 DEF CallInv
    <3> QED BY <1>0, <1>5, <2>1, <2>2, <3>1, <3>2, ConstantsAssumption DEF CallInv, HashKey, Gens
  <2> QED BY <1>5, <2>1, <2>3, OneCaller DEF HashKey
<1> QED BY <1>1, <1>2, <1>3, <1>4, <1>5

(* A result made of a binary that is fresh for the key is fresh for the hash. *)
LEMMA KeyAfterHash ==
    ASSUME TypeInv, FreshInv, NEW c \in Callers, job[c].key \in Hashes, NEW g \in 0..MaxGen,
           Since(job[c].key, g)
    PROVE  Since(job[c].hash, g)
<1>1. CallInv(c) /\ g \in Nat
  BY ConstantsAssumption DEF FreshInv
<1>2. PICK k \in Gens : Hash[k] = job[c].key
  BY DEF Hashes
<1> QED BY <1>1, <1>2, ConstantsAssumption DEF CallInv, Since, Gens

(* What a caller knows when it is handed a fresh binary. *)
LEMMA CompiledFresh ==
    ASSUME TypeInv, TypeInv', FreshInv, NEW c \in Callers, NEW bin \in Binaries,
           at[c] \in Keyed, UNCHANGED <<src, seq, image>>, Since(job[c].key, bin.gen), InItsFile(bin),
           at'[c] = (IF bin.file = 0 THEN "finish" ELSE "slot"),
           job'[c] = [job[c] EXCEPT !.bin = bin, !.res = IF bin.file = 0 THEN bin.gen ELSE 0]
    PROVE  CallInv(c)'
<1> DEFINE res == IF bin.file = 0 THEN bin.gen ELSE 0
<1>1. CallInv(c) /\ job[c] \in Jobs /\ job[c].key \in Hashes /\ bin.gen \in 0..MaxGen
  BY DEF FreshInv, TypeInv, TypeOK, Equipped, Binaries
<1>2. /\ job'[c].bin = bin /\ job'[c].res = res /\ job'[c].start = job[c].start
      /\ job'[c].hash = job[c].hash /\ job'[c].key = job[c].key
  BY <1>1 DEF Jobs
<1>3. Since(job[c].hash, bin.gen)
  BY <1>1, KeyAfterHash
<1>4. Since(job[c].hash, res) /\ job[c].hash \in Hashes
  BY <1>1, <1>3 DEF Since, CallInv, Keyed
<1> QED BY <1>1, <1>2, <1>4 DEF CallInv, Since, InItsFile

LEMMA CompileFresh ==
    ASSUME EveryEditIsNew, TypeInv, TypeInv', FreshInv, NEW c \in Callers
    PROVE  LookupBinary(c) \/ TakeCompile(c) \/ Build(c) \/ StoreBinary(c) => FreshInv'
<1> DEFINE s == SessionOf[c]
<1>0. CallInv(c) /\ job[c] \in Jobs /\ s \in Sessions /\ SessionInv(s) /\ sess[s] \in Fields
      /\ src \in Gens /\ Hash[src] \in Hashes /\ (at[c] \in Keyed => job[c].key \in Hashes)
  BY Cached DEF TypeInv, Equipped
<1>c. ASSUME NEW bin \in Binaries, Compiled(c, bin)
      PROVE  /\ at'[c] = (IF bin.file = 0 THEN "finish" ELSE "slot")
             /\ job'[c] = [job[c] EXCEPT !.bin = bin, !.res = IF bin.file = 0 THEN bin.gen ELSE 0]
             /\ \A d \in Callers \ {c} : at'[d] = at[d] /\ job'[d] = job[d]
  BY <1>c, Moved DEF Compiled, TypeInv, TypeOK
<1>1. ASSUME LookupBinary(c) PROVE FreshInv'
  <2> DEFINE synced == Synced(sess[s], job[c].key)
             h == job[c].key
  <2>0. h \in Hashes /\ at[c] = "cache"
    BY <1>0, <1>1 DEF LookupBinary, Keyed
  <2>1. SessionInv(s)' /\ \A r \in Sessions \ {s} : sess'[r] = sess[r]
    BY <1>0, <1>1, <2>0, SyncedFresh DEF LookupBinary
  <2>2. CASE Compiled(c, synced.binaries[h])
    <3>1. synced \in Fields /\ sess'[s] = synced
      BY <1>0, <1>1, <2>0, SyncedType DEF LookupBinary, TypeInv, TypeOK
    <3>2. synced.binaries[h] \in Binaries
      BY <2>0, <3>1 DEF Fields
    <3>3. Since(h, synced.binaries[h].gen) /\ InItsFile(synced.binaries[h])
      BY <1>1, <2>0, <2>1, <3>1 DEF SessionInv, Since, InItsFile, LookupBinary
    <3>4. CallInv(c)'
      BY <1>1, <2>0, <2>2, <3>2, <3>3, <1>c, CompiledFresh DEF LookupBinary, Keyed
    <3> QED BY <1>1, <1>c, <2>1, <2>2, <3>2, <3>4, OneCaller DEF LookupBinary
  <2>3. CASE Go(c, "compile") /\ UNCHANGED job
    <3>1. at'[c] = "compile" /\ \A d \in Callers \ {c} : at'[d] = at[d]
      BY <2>3, Moved
    <3>2. CallInv(c)'
      BY <1>0, <1>1, <2>0, <2>3, <3>1 DEF CallInv, LookupBinary
    <3> QED BY <1>1, <2>1, <2>3, <3>1, <3>2, OneCaller DEF LookupBinary
  <2> QED BY <1>1, <2>2, <2>3 DEF LookupBinary
<1>2. ASSUME TakeCompile(c) PROVE FreshInv'
  <2> DEFINE h == job[c].key
  <2>0. h \in Hashes /\ at[c] = "compile"
    BY <1>0, <1>2 DEF TakeCompile, Keyed
  <2>1. \A r \in Sessions : /\ sess'[r].binaries = sess[r].binaries
                            /\ sess'[r].verdicts = sess[r].verdicts
                            /\ sess'[r].snapshot = sess[r].snapshot
    <3>1. \/ sess' = sess
          \/ sess' = [sess EXCEPT ![s] = [sess[s] EXCEPT !.building[h] = c]]
      BY <1>2 DEF TakeCompile, TypeInv, TypeOK
    <3>2. ASSUME sess' = [sess EXCEPT ![s] = [sess[s] EXCEPT !.building[h] = c]],
                 NEW r \in Sessions
          PROVE  /\ sess'[r].binaries = sess[r].binaries /\ sess'[r].verdicts = sess[r].verdicts
                 /\ sess'[r].snapshot = sess[r].snapshot
      BY <1>0, <3>2 DEF TypeInv, TypeOK, Fields
    <3> QED BY <3>1, <3>2
  <2>2. CASE Compiled(c, sess[s].binaries[h])
    <3>1. sess[s].binaries[h] \in Binaries
      BY <1>0, <2>0 DEF Fields
    <3>2. Since(h, sess[s].binaries[h].gen) /\ InItsFile(sess[s].binaries[h])
      BY <1>0, <2>0 DEF SessionInv
    <3>3. CallInv(c)'
      BY <1>2, <2>0, <2>2, <3>1, <3>2, <1>c, CompiledFresh DEF TakeCompile, Keyed
    <3> QED BY <1>2, <1>c, <2>1, <2>2, <3>1, <3>3, OneCaller DEF TakeCompile
  <2>3. CASE (Go(c, "join") \/ Go(c, "build")) /\ UNCHANGED job
    <3>1. at'[c] \in {"join", "build"} /\ \A d \in Callers \ {c} : at'[d] = at[d]
      BY <2>3, Moved
    <3>2. CallInv(c)'
      BY <1>0, <1>2, <2>0, <2>3, <3>1 DEF CallInv, TakeCompile
    <3> QED BY <1>2, <2>1, <2>3, <3>1, <3>2, OneCaller DEF TakeCompile
  <2> QED BY <1>2, <2>2, <2>3 DEF TakeCompile
<1>3. ASSUME Build(c) PROVE FreshInv'
  <2>0. job[c].key \in Hashes /\ at[c] = "build" /\ src' = src
    BY <1>0, <1>3 DEF Build, Keyed
  <2>1. Forward
    BY <1>3, MaxFileType, ConstantsAssumption DEF Build, Forward, TypeInv, TypeOK, BinaryName, Gens
  <2>2. /\ at'[c] = "store"
        /\ \A d \in Callers \ {c} : at'[d] = at[d]
    BY <1>3, Moved DEF Build
  <2>3. PICK b \in Binaries : /\ job' = [job EXCEPT ![c] = [job[c] EXCEPT !.bin = b]]
                              /\ b.gen \in {0, src}
                              /\ b.file # 0 => b.file = seq' /\ image'[b.file] = b.gen
    <3>1. seq' = seq + 1 /\ seq' \in 1..MaxFile /\ src \in 0..MaxGen
      BY <1>3, <1>0, MaxFileType, ConstantsAssumption DEF Build, TypeInv, TypeOK, Gens
    <3>2. [file |-> seq + 1, gen |-> src] \in Binaries /\ [file |-> 0, gen |-> src] \in Binaries
      BY <3>1, MaxFileType DEF Binaries
    <3>3. CASE /\ image' = [image EXCEPT ![seq + 1] = src]
               /\ job' = [job EXCEPT ![c].bin = [file |-> seq + 1, gen |-> src]]
      <4>1. image'[seq + 1] = src
        BY <3>1, <3>3 DEF TypeInv, TypeOK
      <4> QED BY <3>1, <3>2, <3>3, <4>1 DEF TypeInv, TypeOK
    <3>4. CASE job' = [job EXCEPT ![c].bin = [file |-> 0, gen |-> src]]
      BY <3>2, <3>4 DEF TypeInv, TypeOK
    <3>5. CASE job' = [job EXCEPT ![c].bin = NoBinary]
      BY <3>5, Nones DEF TypeInv, TypeOK, NoBinary
    <3> QED BY <1>3, <3>3, <3>4, <3>5 DEF Build, BinaryName
  <2>4. /\ \A d \in Callers \ {c} : job'[d] = job[d]
        /\ job'[c] = [job[c] EXCEPT !.bin = b]
    BY <2>3 DEF TypeInv, TypeOK
  <2>5. /\ job'[c].bin = b /\ job'[c].key = job[c].key /\ job'[c].hash = job[c].hash
        /\ job'[c].start = job[c].start
    BY <1>0, <2>4 DEF Jobs
  <2>6. Since(job[c].key, b.gen)' /\ InItsFile(b)'
    <3>1. b.file \in Nat /\ seq' \in Nat
      BY <1>3, MaxFileType DEF Build, TypeInv, TypeOK, Binaries
    <3> QED BY <1>0, <2>0, <2>3, <3>1, <2>5, ConstantsAssumption DEF Since, InItsFile, CallInv, Gens
  <2>7. CallInv(c)'
    BY <1>0, <2>0, <2>2, <2>5, <2>6 DEF CallInv, Since, InItsFile
  <2>8. \A r \in Sessions : /\ sess'[r].binaries = sess[r].binaries
                            /\ sess'[r].verdicts = sess[r].verdicts
                            /\ sess'[r].snapshot = sess[r].snapshot
    <3>1. sess' = [sess EXCEPT ![s] = [sess[s] EXCEPT !.owned = @ \cup {CompileDir(s)}]]
      BY <1>3 DEF Build, TypeInv, TypeOK
    <3> QED BY <1>0, <3>1 DEF TypeInv, TypeOK, Fields
  <2> DEFINE C == {c}
  <2>9. C \in SUBSET Callers /\ (\A d \in C : CallInv(d)')
        /\ \A d \in Callers \ C : at'[d] = at[d] /\ job'[d] = job[d]
    BY <2>2, <2>4, <2>7
  <2> HIDE DEF C
  <2> QED BY <2>1, <2>8, <2>9, Elsewhere DEF TypeInv
<1>4. ASSUME StoreBinary(c) PROVE FreshInv'
  <2> DEFINE h == job[c].key
  <2>0. h \in Hashes /\ at[c] = "store"
    BY <1>0, <1>4 DEF StoreBinary, Keyed
  <2>1. /\ at'[c] = "publish" /\ job' = job
        /\ \A d \in Callers \ {c} : at'[d] = at[d]
    BY <1>4, Moved DEF StoreBinary
  <2>2. CallInv(c)'
    BY <1>0, <1>4, <2>0, <2>1 DEF CallInv, StoreBinary, Since, InItsFile
  <2>3. SessionInv(s)' /\ \A r \in Sessions \ {s} : sess'[r] = sess[r]
    <3>1. CASE sess' = sess
      BY <1>0, <1>4, <3>1 DEF SessionInv, StoreBinary, Since, InItsFile
    <3>2. CASE sess' = [sess EXCEPT ![s] = [sess[s] EXCEPT !.binaries[h] = job[c].bin]]
      <4>1. /\ sess'[s] = [sess[s] EXCEPT !.binaries[h] = job[c].bin]
            /\ \A r \in Sessions \ {s} : sess'[r] = sess[r]
        BY <1>0, <3>2 DEF TypeInv, TypeOK
      <4>2. /\ \A k \in Hashes : sess'[s].binaries[k] = IF k = h THEN job[c].bin
                                                                ELSE sess[s].binaries[k]
            /\ sess'[s].verdicts = sess[s].verdicts /\ sess'[s].snapshot = sess[s].snapshot
        BY <1>0, <4>1, <2>0 DEF Fields
      <4>3. Since(h, job[c].bin.gen) /\ InItsFile(job[c].bin)
        BY <1>0, <2>0 DEF CallInv
      <4>4. src' = src /\ image' = image /\ seq' = seq
        BY <1>4 DEF StoreBinary
      <4>5. ASSUME NEW k \in Hashes
            PROVE  (Since(k, sess[s].binaries[k].gen) /\ InItsFile(sess[s].binaries[k]))'
        <5>1. CASE k = h
          BY <4>2, <4>3, <4>4, <5>1 DEF Since, InItsFile
        <5>2. CASE k # h
          BY <1>0, <4>2, <4>4, <5>2 DEF SessionInv, Since, InItsFile
        <5> QED BY <5>1, <5>2
      <4> QED BY <1>0, <4>1, <4>2, <4>4, <4>5 DEF SessionInv, Since
    <3> QED
      <4>1. \/ sess' = sess
            \/ sess' = [sess EXCEPT ![s] = [sess[s] EXCEPT !.binaries[h] = job[c].bin]]
        BY <1>4 DEF StoreBinary, TypeInv, TypeOK
      <4> QED BY <3>1, <3>2, <4>1
  <2> QED BY <1>4, <2>1, <2>2, <2>3, OneCaller DEF StoreBinary
<1> QED BY <1>1, <1>2, <1>3, <1>4

LEMMA PublishFresh ==
    ASSUME TypeInv, TypeInv', FreshInv, NEW c \in Callers
    PROVE  PublishBinary(c) \/ GiveUp(c) \/ TakeSlot(c) \/ Exec(c) => FreshInv'
<1> DEFINE s == SessionOf[c]
<1>0. CallInv(c) /\ job[c] \in Jobs /\ s \in Sessions /\ SessionInv(s) /\ sess[s] \in Fields
      /\ src \in Gens /\ (at[c] \in Keyed => job[c].key \in Hashes)
  BY Cached DEF TypeInv, Equipped
<1>1. ASSUME PublishBinary(c) PROVE FreshInv'
  <2> DEFINE bin == job[c].bin
             all == Joined(c) \cup {c}
  <2>0. at[c] = "publish" /\ job[c].key \in Hashes /\ UNCHANGED <<src, seq, image>>
    BY <1>0, <1>1 DEF PublishBinary, Keyed
  <2>1. bin \in Binaries /\ Since(job[c].key, bin.gen) /\ InItsFile(bin)
    BY <1>0, <2>0 DEF CallInv, Jobs
  <2>2. \A w \in all : w \in Callers /\ at[w] \in Keyed /\ job[w].key = job[c].key
    BY <2>0 DEF Joined, Keyed
  <2>3. \A w \in Callers :
          IF w \in all
          THEN /\ job'[w] = [job[w] EXCEPT !.bin = bin, !.res = IF bin.file = 0 THEN bin.gen ELSE 0]
               /\ at'[w] = (IF bin.file = 0 THEN "finish" ELSE "slot")
          ELSE job'[w] = job[w] /\ at'[w] = at[w]
    BY <1>1 DEF PublishBinary, TypeInv, TypeOK
  <2>4. \A w \in all : CallInv(w)'
    <3> SUFFICES ASSUME NEW w \in all PROVE CallInv(w)'
      OBVIOUS
    <3>1. w \in Callers /\ at[w] \in Keyed /\ Since(job[w].key, bin.gen)
      BY <2>1, <2>2
    <3>2. /\ job'[w] = [job[w] EXCEPT !.bin = bin, !.res = IF bin.file = 0 THEN bin.gen ELSE 0]
          /\ at'[w] = (IF bin.file = 0 THEN "finish" ELSE "slot")
      BY <2>3, <3>1
    <3> HIDE DEF bin, all
    <3> QED BY <2>0, <2>1, <3>1, <3>2, CompiledFresh
  <2>5. \A r \in Sessions : /\ sess'[r].binaries = sess[r].binaries
                            /\ sess'[r].verdicts = sess[r].verdicts
                            /\ sess'[r].snapshot = sess[r].snapshot
    <3>1. sess' = [sess EXCEPT ![s] = [sess[s] EXCEPT !.building[job[c].key] = Nobody]]
      BY <1>1 DEF PublishBinary, TypeInv, TypeOK
    <3> QED BY <1>0, <3>1 DEF TypeInv, TypeOK, Fields
  <2>6. all \in SUBSET Callers /\ \A w \in Callers \ all : at'[w] = at[w] /\ job'[w] = job[w]
    BY <2>2, <2>3
  <2>7. Forward
    BY <2>0, Still DEF TypeInv
  <2> HIDE DEF all
  <2> QED BY <2>4, <2>5, <2>6, <2>7, Elsewhere DEF TypeInv
<1>2. ASSUME GiveUp(c) PROVE FreshInv'
  <2>1. /\ at'[c] = "finish" /\ at[c] \in {"join", "slot"}
        /\ \A d \in Callers \ {c} : at'[d] = at[d] /\ job'[d] = job[d]
        /\ job'[c] = [job[c] EXCEPT !.res = 0]
    BY <1>2, Moved DEF GiveUp, TypeInv, TypeOK
  <2>2. /\ job'[c].hash = job[c].hash /\ job'[c].key = job[c].key
        /\ job'[c].start = job[c].start /\ job'[c].res = 0
    BY <1>0, <2>1 DEF Jobs
  <2>3. CallInv(c)'
    BY <1>0, <1>2, <2>1, <2>2 DEF CallInv, GiveUp, Since
  <2> QED BY <1>2, <2>1, <2>3, OneCaller DEF GiveUp
<1>3. ASSUME TakeSlot(c) PROVE FreshInv'
  <2>1. /\ at'[c] = "exec" /\ at[c] = "slot" /\ job' = job
        /\ \A d \in Callers \ {c} : at'[d] = at[d]
    BY <1>3, Moved DEF TakeSlot
  <2>2. CallInv(c)'
    BY <1>0, <1>3, <2>1 DEF CallInv, TakeSlot, Since, InItsFile
  <2> QED BY <1>3, <2>1, <2>2, OneCaller DEF TakeSlot
<1>4. ASSUME Exec(c) PROVE FreshInv'
  <2>1. at[c] = "exec" /\ job[c].key \in Hashes
    BY <1>0, <1>4 DEF Exec, Keyed
  <2>2. job[c].bin.file # 0 /\ job[c].bin \in Binaries
    BY <1>0, <2>1 DEF TypeInv, Equipped, Jobs
  <2>3. image[job[c].bin.file] = job[c].bin.gen /\ Since(job[c].key, job[c].bin.gen)
    BY <1>0, <2>1, <2>2 DEF CallInv, InItsFile
  <2>4. Since(job[c].hash, job[c].bin.gen) /\ Since(job[c].hash, 0)
    BY <2>1, <2>2, <2>3, KeyAfterHash DEF Binaries, Since
  <2>5. PICK g \in {0, job[c].bin.gen} : job' = [job EXCEPT ![c].res = g]
    BY <1>4, <2>3 DEF Exec
  <2>6. /\ at'[c] = "finish"
        /\ \A d \in Callers \ {c} : at'[d] = at[d] /\ job'[d] = job[d]
        /\ job'[c] = [job[c] EXCEPT !.res = g]
    BY <1>4, <2>5, Moved DEF Exec, TypeInv, TypeOK
  <2>7. /\ job'[c].hash = job[c].hash /\ job'[c].key = job[c].key
        /\ job'[c].start = job[c].start /\ job'[c].res = g
    BY <1>0, <2>6 DEF Jobs
  <2>8. CallInv(c)'
    <3>1. src' = src
      BY <1>4 DEF Exec
    <3>2. Since(job[c].hash, g)
      BY <2>4, <2>5
    <3> QED BY <1>0, <2>1, <2>6, <2>7, <3>1, <3>2 DEF CallInv, Since
  <2> QED BY <1>4, <2>6, <2>8, OneCaller DEF Exec
<1> QED BY <1>1, <1>2, <1>3, <1>4

(* A result that is fresh for the hash is no older than the call. *)
LEMMA AfterStart ==
    ASSUME TypeInv, FreshInv, NEW c \in Callers, at[c] = "finish", job[c].res # 0
    PROVE  job[c].start <= job[c].res
<1>1. CallInv(c) /\ job[c] \in Jobs /\ job[c].hash \in Hashes
  BY Cached DEF CallInv
<1>2. PICK f \in Gens : Hash[f] = job[c].hash
  BY <1>1 DEF Hashes
<1>3. job[c].start \in Nat /\ job[c].res \in Nat /\ f \in Nat
  BY <1>1, ConstantsAssumption DEF Jobs, Gens
<1> QED BY <1>1, <1>2, <1>3 DEF CallInv, Since

LEMMA FinishFresh ==
    ASSUME EveryEditIsNew, TypeInv, TypeInv', FreshInv, NEW c \in Callers
    PROVE  FinishTest(c) \/ FinishRecord(c) \/ FinishCollect(c) => FreshInv'
<1> DEFINE s == SessionOf[c]
<1>0. CallInv(c) /\ job[c] \in Jobs /\ s \in Sessions /\ SessionInv(s) /\ sess[s] \in Fields
      /\ src \in Gens
  BY Cached
<1>r. at[c] = "finish" => Since(job[c].hash, job[c].res) /\ job[c].hash \in Hashes
                          /\ (job[c].res # 0 => job[c].start <= job[c].res)
  BY <1>0, AfterStart DEF CallInv
<1>1. ASSUME FinishTest(c) PROVE FreshInv'
  <2> DEFINE t == job[c].test
             entry == [hash |-> job[c].hash, gen |-> job[c].res]
             all == Waiting(c) \cup {c}
  <2>0. at[c] = "finish" /\ UNCHANGED <<src, seq, image>> /\ t \in Tests
    BY <1>0, <1>1 DEF FinishTest, Jobs
  <2>1. \A w \in Waiting(c) : w \in Callers /\ at[w] = "await"
    BY DEF Waiting
  <2>2. /\ at'[c] = "return" /\ job'[c] = job[c]
        /\ \A w \in Waiting(c) : at'[w] = "awake" /\ job'[w] = [job[w] EXCEPT !.got = entry]
        /\ \A w \in Callers \ all : at'[w] = at[w] /\ job'[w] = job[w]
    BY <1>1, <2>0, <2>1 DEF FinishTest, TypeInv, TypeOK
  <2>3. CallInv(c)'
    BY <1>0, <1>r, <2>0, <2>2 DEF CallInv
  <2>4. ASSUME NEW w \in Waiting(c) PROVE CallInv(w)'
    <3>1. CallInv(w) /\ job[w] \in Jobs /\ at[w] = "await"
      BY <2>1, Cached
    <3>2. /\ job'[w].hash = job[w].hash /\ job'[w].key = job[w].key
          /\ job'[w].start = job[w].start /\ job'[w].got = entry
      BY <2>2, <3>1 DEF Jobs
    <3>3. entry.hash = job[c].hash /\ entry.gen = job[c].res
      OBVIOUS
    <3>4. Since(entry.hash, entry.gen)
      BY <1>r, <2>0, <3>3
    <3> HIDE DEF entry
    <3> QED BY <2>0, <2>2, <3>1, <3>2, <3>4 DEF CallInv, Since
  <2>5. SessionInv(s)' /\ \A r \in Sessions \ {s} : sess'[r] = sess[r]
    <3> DEFINE e == IF entry.gen = 0 THEN sess[s].verdicts[t] ELSE entry
    <3>1. /\ sess'[s] = [sess[s] EXCEPT !.running[t] = Nobody, !.verdicts[t] = e]
          /\ \A r \in Sessions \ {s} : sess'[r] = sess[r]
      BY <1>0, <1>1 DEF FinishTest, TypeInv, TypeOK
    <3>2. Since(e.hash, e.gen)
      <4>1. CASE job[c].res = 0
        BY <1>0, <2>0, <4>1 DEF SessionInv
      <4>2. CASE job[c].res # 0
        BY <1>r, <2>0, <4>2
      <4> QED BY <4>1, <4>2
    <3> HIDE DEF e
    <3>3. /\ sess'[s].binaries = sess[s].binaries /\ sess'[s].snapshot = sess[s].snapshot
          /\ \A u \in Tests : sess'[s].verdicts[u] = IF u = t THEN e ELSE sess[s].verdicts[u]
      BY <1>0, <3>1 DEF Fields
    <3> QED BY <1>0, <2>0, <3>1, <3>2, <3>3 DEF SessionInv, Since, InItsFile
  <2>6. all \in SUBSET Callers /\ \A w \in all : CallInv(w)'
    BY <2>1, <2>3, <2>4
  <2>7. Forward
    BY <2>0, Still DEF TypeInv
  <2> HIDE DEF all
  <2> QED BY <2>2, <2>5, <2>6, <2>7, Elsewhere DEF TypeInv
<1>2. ASSUME FinishRecord(c) PROVE FreshInv'
  <2>1. /\ at'[c] = "return" /\ at[c] = "finish" /\ UNCHANGED <<src, seq, image>>
        /\ \A d \in Callers \ {c} : at'[d] = at[d]
    BY <1>2, Moved DEF FinishRecord
  <2>2. /\ job'[c] \in {job[c], [job[c] EXCEPT !.res = 0]}
        /\ \A d \in Callers \ {c} : job'[d] = job[d]
    BY <1>2 DEF FinishRecord, TypeInv, TypeOK
  <2>3. /\ job'[c].hash = job[c].hash /\ job'[c].key = job[c].key
        /\ job'[c].start = job[c].start /\ job'[c].res \in {0, job[c].res}
    BY <1>0, <2>2 DEF Jobs
  <2>4. CallInv(c)'
    BY <1>0, <1>r, <2>1, <2>3 DEF CallInv
  <2>5. \A r \in Sessions : /\ sess'[r].binaries = sess[r].binaries
                            /\ sess'[r].verdicts = sess[r].verdicts
                            /\ sess'[r].snapshot = sess[r].snapshot
    <3>1. \/ sess' = sess
          \/ sess' = [sess EXCEPT ![s] = [sess[s] EXCEPT !.owned = @ \ {TempDir(c)}]]
      BY <1>2 DEF FinishRecord, TypeInv, TypeOK
    <3>2. ASSUME sess' = [sess EXCEPT ![s] = [sess[s] EXCEPT !.owned = @ \ {TempDir(c)}]],
                 NEW r \in Sessions
          PROVE  /\ sess'[r].binaries = sess[r].binaries /\ sess'[r].verdicts = sess[r].verdicts
                 /\ sess'[r].snapshot = sess[r].snapshot
      BY <1>0, <3>2 DEF TypeInv, TypeOK, Fields
    <3> QED BY <3>1, <3>2
  <2> QED BY <2>1, <2>2, <2>4, <2>5, OneCaller
<1>3. ASSUME FinishCollect(c) PROVE FreshInv'
  <2>1. /\ at'[c] = "return" /\ at[c] = "finish" /\ UNCHANGED <<src, seq, image>>
        /\ \A d \in Callers \ {c} : at'[d] = at[d]
    BY <1>3, Moved DEF FinishCollect
  <2>2. /\ job'[c] \in {job[c], [job[c] EXCEPT !.res = 0]}
        /\ \A d \in Callers \ {c} : job'[d] = job[d]
    BY <1>3 DEF FinishCollect, TypeInv, TypeOK
  <2>3. /\ job'[c].hash = job[c].hash /\ job'[c].key = job[c].key
        /\ job'[c].start = job[c].start /\ job'[c].res \in {0, job[c].res}
    BY <1>0, <2>2 DEF Jobs
  <2>4. CallInv(c)'
    BY <1>0, <1>r, <2>1, <2>3 DEF CallInv
  <2>5. SessionInv(s)' /\ \A r \in Sessions \ {s} : sess'[r] = sess[r]
    <3>1. CASE Hash[src] = job[c].hash
      <4> DEFINE e == [hash |-> job[c].hash, gen |-> job[c].res]
      <4>1. /\ sess'[s] = [sess[s] EXCEPT !.snapMu = Nobody, !.snapshot = e]
            /\ \A r \in Sessions \ {s} : sess'[r] = sess[r]
        BY <1>0, <1>3, <3>1 DEF FinishCollect, TypeInv, TypeOK
      <4>2. e.gen # 0 => Hash[e.gen] = e.hash
        <5>1. job[c].res # 0 => job[c].res = src
          <6>1. job[c].res \in Nat /\ src \in Nat
            BY <1>0, ConstantsAssumption DEF Jobs, Gens
          <6> QED BY <1>0, <1>r, <2>1, <3>1, <6>1 DEF Since
        <5> QED BY <3>1, <5>1
      <4>3. Since(e.hash, e.gen)
        BY <1>r, <2>1
      <4> HIDE DEF e
      <4>4. /\ sess'[s].binaries = sess[s].binaries /\ sess'[s].verdicts = sess[s].verdicts
            /\ sess'[s].snapshot = e
        BY <1>0, <4>1 DEF Fields
      <4> QED BY <1>0, <2>1, <4>1, <4>2, <4>3, <4>4 DEF SessionInv, Since, InItsFile
    <3>2. CASE Hash[src] # job[c].hash
      <4>1. /\ sess'[s] = [sess[s] EXCEPT !.snapMu = Nobody]
            /\ \A r \in Sessions \ {s} : sess'[r] = sess[r]
        BY <1>0, <1>3, <3>2 DEF FinishCollect, TypeInv, TypeOK
      <4>2. /\ sess'[s].binaries = sess[s].binaries /\ sess'[s].verdicts = sess[s].verdicts
            /\ sess'[s].snapshot = sess[s].snapshot
        BY <1>0, <4>1 DEF Fields
      <4> QED BY <1>0, <2>1, <4>1, <4>2 DEF SessionInv, Since, InItsFile
    <3> QED BY <3>1, <3>2
  <2> QED BY <2>1, <2>2, <2>4, <2>5, OneCaller
<1> QED BY <1>1, <1>2, <1>3

LEMMA CloseFresh ==
    ASSUME TypeInv, TypeInv', FreshInv, NEW k \in Closers
    PROVE  CloseBegin(k) \/ CloseStep(k) => FreshInv'
<1> DEFINE s == SessionOf[k]
<1>0. s \in Sessions /\ sess[s] \in Fields /\ k \notin Callers
  BY ConstantsAssumption DEF TypeInv, TypeOK
<1>f. ASSUME UNCHANGED <<src, seq, image, job>>, \A c \in Callers : at'[c] = at[c],
             \A r \in Sessions :
                 \/ SessionInv(r)'
                 \/ /\ sess'[r].binaries = sess[r].binaries /\ sess'[r].verdicts = sess[r].verdicts
                    /\ sess'[r].snapshot = sess[r].snapshot
      PROVE  FreshInv'
  <2> DEFINE C == {}
  <2>1. C \in SUBSET Callers /\ \A c \in C : CallInv(c)'
    OBVIOUS
  <2>2. Forward
    BY <1>f, Still DEF TypeInv
  <2> HIDE DEF C
  <2> QED BY <1>f, <2>1, <2>2, Elsewhere DEF TypeInv
<1>1. ASSUME CloseBegin(k) PROVE FreshInv'
  <2>1. \A r \in Sessions : /\ sess'[r].binaries = sess[r].binaries
                            /\ sess'[r].verdicts = sess[r].verdicts
                            /\ sess'[r].snapshot = sess[r].snapshot
    <3>1. sess' = [sess EXCEPT ![s] = [sess[s] EXCEPT !.closeMu = k, !.closing = TRUE]]
      BY <1>0, <1>1 DEF CloseBegin, TypeInv, TypeOK
    <3> QED BY <1>0, <3>1 DEF TypeInv, TypeOK, Fields
  <2> QED BY <1>0, <1>1, <1>f, <2>1 DEF CloseBegin, Go, TypeInv, TypeOK
<1>2. ASSUME CloseClear(k) PROVE FreshInv'
  <2>1. /\ sess'[s].binaries = [h \in Hashes |-> NoBinary]
        /\ sess'[s].verdicts = [t \in Tests |-> Unknown] /\ sess'[s].snapshot = Unknown
        /\ \A r \in Sessions \ {s} : sess'[r] = sess[r]
    <3> DEFINE v == [sess[s] EXCEPT !.binaries = [h \in Hashes |-> NoBinary],
                                    !.verdicts = [t \in Tests |-> Unknown],
                                    !.snapshot = Unknown, !.lastHash = NoHash]
    <3>1. sess' = [sess EXCEPT ![s] = v]
      BY <1>0, <1>2 DEF CloseClear, TypeInv, TypeOK
    <3>2. /\ v.binaries = [h \in Hashes |-> NoBinary]
          /\ v.verdicts = [t \in Tests |-> Unknown] /\ v.snapshot = Unknown
      BY <1>0 DEF Fields
    <3> HIDE DEF v
    <3> QED BY <1>0, <3>1, <3>2 DEF TypeInv, TypeOK
  <2>2. SessionInv(s)'
    BY <2>1 DEF SessionInv, Since, InItsFile, NoBinary, Unknown
  <2> QED BY <1>0, <1>2, <1>f, <2>1, <2>2 DEF CloseClear, Go, TypeInv, TypeOK
<1>3. ASSUME CloseRemove(k) PROVE FreshInv'
  <2>1. \A r \in Sessions : /\ sess'[r].binaries = sess[r].binaries
                            /\ sess'[r].verdicts = sess[r].verdicts
                            /\ sess'[r].snapshot = sess[r].snapshot
    <3>1. \/ sess' = sess
          \/ \E path : sess' = [sess EXCEPT ![s] = [sess[s] EXCEPT !.owned = @ \ {path}]]
      BY <1>0, <1>3 DEF CloseRemove, TypeInv, TypeOK
    <3>2. ASSUME NEW path, sess' = [sess EXCEPT ![s] = [sess[s] EXCEPT !.owned = @ \ {path}]],
                 NEW r \in Sessions
          PROVE  /\ sess'[r].binaries = sess[r].binaries /\ sess'[r].verdicts = sess[r].verdicts
                 /\ sess'[r].snapshot = sess[r].snapshot
      BY <1>0, <3>2 DEF TypeInv, TypeOK, Fields
    <3> QED BY <3>1, <3>2
  <2> QED BY <1>3, <1>f, <2>1 DEF CloseRemove
<1>4. ASSUME CloseEnd(k) PROVE FreshInv'
  <2>1. \A r \in Sessions : /\ sess'[r].binaries = sess[r].binaries
                            /\ sess'[r].verdicts = sess[r].verdicts
                            /\ sess'[r].snapshot = sess[r].snapshot
    <3>1. sess' = [sess EXCEPT ![s] = [sess[s] EXCEPT !.closeMu = Nobody]]
      BY <1>0, <1>4 DEF CloseEnd, TypeInv, TypeOK
    <3> QED BY <1>0, <3>1 DEF TypeInv, TypeOK, Fields
  <2> QED BY <1>0, <1>4, <1>f, <2>1 DEF CloseEnd, Go, TypeInv, TypeOK
<1> QED BY <1>1, <1>2, <1>3, <1>4 DEF CloseStep

LEMMA FreshStutter == TypeInv /\ FreshInv /\ UNCHANGED vars => FreshInv'
<1> SUFFICES ASSUME TypeInv, FreshInv, UNCHANGED vars PROVE FreshInv' OBVIOUS
<1>1. src' = src /\ seq' = seq /\ image' = image /\ at' = at /\ job' = job /\ sess' = sess
  BY DEF vars
<1>2. \A c \in Callers : CallInv(c)'
  BY <1>1 DEF FreshInv, CallInv, Since, InItsFile
<1>3. \A s \in Sessions : SessionInv(s)'
  BY <1>1 DEF FreshInv, SessionInv, Since, InItsFile
<1> QED BY <1>2, <1>3 DEF FreshInv

LEMMA FreshNext == EveryEditIsNew /\ TypeInv /\ TypeInv' /\ FreshInv /\ [Next]_vars => FreshInv'
<1> SUFFICES ASSUME EveryEditIsNew, TypeInv, TypeInv', FreshInv, [Next]_vars PROVE FreshInv'
  OBVIOUS
<1>1. ASSUME NEW c \in Callers, Begin(c) \/ Step(c) PROVE FreshInv'
  BY <1>1, EnterFresh, AskFresh, FlightFresh, CompileFresh, PublishFresh, FinishFresh DEF Step
<1> QED BY <1>1, FreshEdit, CloseFresh, FreshStutter DEF Next

LEMMA FreshAlways == EveryEditIsNew /\ Spec => [](TypeInv /\ FreshInv)
<1>1. ASSUME EveryEditIsNew PROVE TypeInv /\ FreshInv /\ [Next]_vars => (TypeInv /\ FreshInv)'
  BY <1>1, NextType, FreshNext
<1>2. ASSUME EveryEditIsNew PROVE Spec => [](TypeInv /\ FreshInv)
  <2>1. TypeInv /\ FreshInv /\ [Next]_vars => (TypeInv /\ FreshInv)'
    BY <1>2, <1>1
  <2> QED BY <2>1, InitType, FreshInit, PTL DEF Spec
<1> QED BY <1>2

\* If no edit restores earlier content, no caller is told a verdict on sources older
\* than those on disk when it called.
THEOREM VerdictsAreCurrent == EveryEditIsNew => (Spec => []VerdictIsNotOlder)
<1>1. TypeInv /\ FreshInv => VerdictIsNotOlder
  <2> SUFFICES ASSUME TypeInv, FreshInv, NEW c \in Callers, at[c] = "return", job[c].res # 0
               PROVE  job[c].res >= job[c].start
    BY DEF VerdictIsNotOlder
  <2>1. job[c].start <= job[c].res /\ job[c] \in Jobs
    BY DEF FreshInv, CallInv, TypeInv, TypeOK
  <2>2. job[c].start \in Nat /\ job[c].res \in Nat
    BY <2>1, ConstantsAssumption DEF Jobs
  <2> QED BY <2>1, <2>2
<1> QED BY <1>1, FreshAlways, PTL

\* If no edit restores earlier content, a kept snapshot is of the content it is filed
\* under, whatever changed while its packages were compiled and run.
THEOREM SnapshotsAreTrue == EveryEditIsNew => (Spec => []SnapshotIsOfItsKey)
<1>1. TypeInv /\ FreshInv => SnapshotIsOfItsKey
  BY DEF FreshInv, SessionInv, SnapshotIsOfItsKey
<1> QED BY <1>1, FreshAlways, PTL
----------------------------------------------------------------------------
(* The inductive invariant behind what the sessions promise of flights, files and
   binaries, with no assumption on the contents of the sources: who leads a flight
   is in its table, who runs belongs to a live session, a held binary is in its file
   and its directory is the session's, and a Close that removes has nobody left.   *)
Making == {"key", "cache", "compile", "join", "build", "store", "publish", "slot", "exec",
           "finish"}
Compiling == {"build", "store", "publish"}
Holding == {"store", "publish", "slot", "exec"}

Kept(s, path) == path \in disk /\ path \in sess[s].owned

\* The directories that may ever be a session's.
Belonging(s) == {path \in Dirs : path[1] = s \/ (path[1] \in Callers /\ SessionOf[path[1]] = s)}

\* A binary is in its file, and the file in a directory the session keeps.
Runnable(s, bin) == InItsFile(bin) /\ (bin.file # 0 => Kept(s, CompileDir(s)))

CallerOwns(c) ==
    /\ at[c] \in {"mkdir", "own"} => job[c].kind = "record"
    /\ at[c] \in {"flight", "await", "awake"} => job[c].kind = "test"
    /\ job[c].kind = "test" /\ at[c] \in Making => sess[SessionOf[c]].running[job[c].test] = c
    /\ at[c] \in Compiling => sess[SessionOf[c]].building[job[c].key] = c
    /\ at[c] # "idle" => SessionOf[c] \in live
    /\ at[c] = "own" => TempDir(c) \in disk
    /\ job[c].kind = "record" /\ at[c] \in Making => Kept(SessionOf[c], TempDir(c))
    /\ at[c] \in Holding => Runnable(SessionOf[c], job[c].bin)

SessionOwns(s) ==
    /\ \A h \in Hashes : Runnable(s, sess[s].binaries[h])
    /\ sess[s].owned \subseteq Belonging(s)
    /\ s \notin live => sess[s].closing /\ sess[s].owned = {}

CloserOwns(k) ==
    /\ at[k] # "idle" => sess[SessionOf[k]].closing
    /\ at[k] = "remove" => /\ \A c \in Callers : SessionOf[c] = SessionOf[k] => at[c] = "idle"
                           /\ \A h \in Hashes : sess[SessionOf[k]].binaries[h] = NoBinary
    /\ left[k] \subseteq Belonging(SessionOf[k])

OwnInv ==
    /\ \A c \in Callers : CallerOwns(c)
    /\ \A s \in Sessions : SessionOwns(s)
    /\ \A k \in Closers : CloserOwns(k)
    /\ NothingIsOrphaned

LEMMA OwnInit == Init => OwnInv
<1> SUFFICES ASSUME Init PROVE OwnInv OBVIOUS
<1>1. \A c \in Callers : CallerOwns(c)
  BY DEF Init, CallerOwns, Making, Compiling, Holding
<1>2. \A s \in Sessions : SessionOwns(s)
  BY DEF Init, NewSession, SessionOwns, Runnable, InItsFile, NoBinary
<1>3. \A k \in Closers : CloserOwns(k)
  BY DEF Init, CloserOwns
<1>4. NothingIsOrphaned
  BY DEF Init, NothingIsOrphaned
<1> QED BY <1>1, <1>2, <1>3, <1>4 DEF OwnInv

(* What a step leaves to a session for this invariant. *)
SessionKeeps(r) ==
    /\ sess'[r].running = sess[r].running /\ sess'[r].building = sess[r].building
    /\ sess'[r].owned = sess[r].owned /\ sess'[r].closing = sess[r].closing
    /\ \A h \in Hashes : sess'[r].binaries[h] \in {sess[r].binaries[h], NoBinary}

(* The others stay where they are. *)
OthersStay(c) ==
    /\ \A d \in Callers \ {c} : at'[d] = at[d] /\ job'[d] = job[d] /\ calls'[d] = calls[d]
    /\ \A k \in Closers : at'[k] = at[k] /\ left'[k] = left[k]

(* A caller that stays keeps what it owns when its session does. *)
LEMMA OwnStays ==
    ASSUME NEW d \in Callers, CallerOwns(d),
           at'[d] = at[d], job'[d] = job[d], calls'[d] = calls[d],
           sess[SessionOf[d]].running[job[d].test] = d =>
               sess'[SessionOf[d]].running[job[d].test] = d,
           at[d] \in Compiling /\ sess[SessionOf[d]].building[job[d].key] = d =>
               sess'[SessionOf[d]].building[job[d].key] = d,
           at[d] # "idle" /\ SessionOf[d] \in live => SessionOf[d] \in live',
           TempDir(d) \in disk => TempDir(d) \in disk',
           at[d] # "idle" => \A path \in {TempDir(d), CompileDir(SessionOf[d])} :
               Kept(SessionOf[d], path) => Kept(SessionOf[d], path)',
           InItsFile(job[d].bin) => InItsFile(job[d].bin)'
    PROVE  CallerOwns(d)'
<1>1. TempDir(d)' = TempDir(d)
  BY DEF TempDir
<1> QED BY <1>1 DEF CallerOwns, Runnable, Making, Compiling, Holding

LEMMA QuietStep ==
    ASSUME TypeInv, TypeInv', OwnInv, NEW c \in Callers, at[c] \notin {"idle", "own"},
           UNCHANGED <<disk, image, seq, live>>, OthersStay(c),
           \A r \in Sessions : SessionKeeps(r),
           CallerOwns(c)'
    PROVE  OwnInv'
<1>s. \A p \in Callers \cup Closers : SessionOf[p] \in Sessions
  BY ConstantsAssumption
<1>f. \A bin : InItsFile(bin)' = InItsFile(bin)
  BY DEF InItsFile
<1>1. ASSUME NEW d \in Callers PROVE CallerOwns(d)'
  <2>1. CASE d = c
    BY <2>1
  <2>2. CASE d # c
    <3>1. at'[d] = at[d] /\ job'[d] = job[d] /\ calls'[d] = calls[d] /\ CallerOwns(d)
      BY <2>2 DEF OthersStay, OwnInv
    <3> QED BY <3>1, <1>s, <1>f, OwnStays DEF SessionKeeps, Kept
  <2> QED BY <2>1, <2>2
<1>2. ASSUME NEW r \in Sessions PROVE SessionOwns(r)'
  BY DEF SessionOwns, SessionKeeps, OwnInv, Runnable, InItsFile, Kept, NoBinary
<1>3. ASSUME NEW k \in Closers PROVE CloserOwns(k)'
  BY <1>s DEF CloserOwns, SessionKeeps, OwnInv, OthersStay
<1>4. NothingIsOrphaned'
  <2>1. \A d \in Callers : at[d] = "own" => d # c /\ at'[d] = "own" /\ TempDir(d)' = TempDir(d)
    BY DEF OthersStay, TempDir
  <2> QED BY <2>1 DEF NothingIsOrphaned, OwnInv, SessionKeeps, TypeInv, TypeOK
<1> QED BY <1>1, <1>2, <1>3, <1>4 DEF OwnInv

LEMMA Going ==
    ASSUME TypeInv, NEW c \in Callers, NEW step, Go(c, step), UNCHANGED <<calls, left>>,
           \A d \in Callers \ {c} : job'[d] = job[d]
    PROVE  at'[c] = step /\ OthersStay(c)
BY ConstantsAssumption DEF Go, OthersStay, TypeInv, TypeOK

LEMMA SessionsStay == ASSUME UNCHANGED sess PROVE \A r \in Sessions : SessionKeeps(r)
BY DEF SessionKeeps

LEMMA SyncedKeeps ==
    ASSUME TypeInv, NEW s \in Sessions, NEW h \in Hashes \cup {NoHash},
           sess' = [sess EXCEPT ![s] = Synced(sess[s], h)]
    PROVE  \A r \in Sessions : SessionKeeps(r)
<1>1. sess[s] \in Fields
  BY DEF TypeInv, TypeOK
<1>2. sess'[s] = Synced(sess[s], h) /\ \A r \in Sessions \ {s} : sess'[r] = sess[r]
  BY DEF TypeInv, TypeOK
<1>3. SessionKeeps(s)
  BY <1>1, <1>2 DEF Synced, Fields, SessionKeeps
<1> QED BY <1>2, <1>3 DEF SessionKeeps

LEMMA SnapshotKeeps ==
    ASSUME TypeInv, NEW s \in Sessions, NEW m, NEW e,
           \/ sess' = [sess EXCEPT ![s].snapMu = m]
           \/ sess' = [sess EXCEPT ![s].snapMu = m, ![s].snapshot = e]
    PROVE  \A r \in Sessions : SessionKeeps(r)
<1>1. sess[s] \in Fields
  BY DEF TypeInv, TypeOK
<1>2. \A r \in Sessions \ {s} : sess'[r] = sess[r]
  BY DEF TypeInv, TypeOK
<1>3. \/ sess'[s] = [sess[s] EXCEPT !.snapMu = m]
      \/ sess'[s] = [sess[s] EXCEPT !.snapMu = m, !.snapshot = e]
  BY DEF TypeInv, TypeOK
<1>4. SessionKeeps(s)
  BY <1>1, <1>3 DEF Fields, SessionKeeps
<1> QED BY <1>2, <1>4 DEF SessionKeeps

LEMMA OwnAsk ==
    ASSUME TypeInv, TypeInv', OwnInv, NEW c \in Callers
    PROVE  Return(c) \/ LockSnapshot(c) \/ HashInputs(c) \/ LookupVerdict(c) \/ LookupNothing(c)
              \/ LookupSnapshot(c) \/ Shared(c) \/ HashKey(c) => OwnInv'
<1> DEFINE s == SessionOf[c]
<1>0. CallerOwns(c) /\ s \in Sessions /\ sess[s] \in Fields /\ job[c] \in Jobs
  BY CallerTypes DEF OwnInv, TypeInv
<1>j. \A j : (job' = [job EXCEPT ![c] = j] => job'[c] = j /\ \A d \in Callers \ {c} : job'[d] = job[d])
  BY DEF TypeInv, TypeOK
<1> USE DEF Making, Compiling, Holding
<1>1. ASSUME Return(c) PROVE OwnInv'
  <2>1. /\ at[c] = "return" /\ at'[c] = "idle" /\ OthersStay(c)
        /\ UNCHANGED <<disk, image, seq, live, sess>>
    BY <1>1, <1>j, Going DEF Return
  <2>2. CallerOwns(c)'
    BY <2>1 DEF CallerOwns
  <2> QED BY <2>1, <2>2, SessionsStay, QuietStep
<1>2. ASSUME LockSnapshot(c) PROVE OwnInv'
  <2>1. /\ at[c] = "snapLock" /\ at'[c] = "hash" /\ OthersStay(c)
        /\ UNCHANGED <<disk, image, seq, live>>
    BY <1>2, Going DEF LockSnapshot
  <2>2. \A r \in Sessions : SessionKeeps(r)
    BY <1>0, <1>2, SnapshotKeeps DEF LockSnapshot
  <2>3. CallerOwns(c)'
    BY <1>0, <2>1 DEF CallerOwns
  <2> QED BY <2>1, <2>2, <2>3, QuietStep
<1>3. ASSUME HashInputs(c) PROVE OwnInv'
  <2>1. /\ at[c] = "hash" /\ at'[c] = "lookup" /\ OthersStay(c)
        /\ UNCHANGED <<disk, image, seq, live, sess>>
    BY <1>3, Going DEF HashInputs, TypeInv, TypeOK
  <2>2. CallerOwns(c)'
    BY <1>0, <2>1 DEF CallerOwns
  <2> QED BY <2>1, <2>2, SessionsStay, QuietStep
<1>4. ASSUME LookupVerdict(c) PROVE OwnInv'
  <2>1. /\ at[c] = "lookup" /\ at'[c] \in {"return", "flight"} /\ OthersStay(c)
        /\ UNCHANGED <<disk, image, seq, live>> /\ job'[c].kind = "test"
    BY <1>0, <1>4, Going DEF LookupVerdict, Answer, TypeInv, TypeOK, Jobs
  <2>2. \A r \in Sessions : SessionKeeps(r)
    BY <1>0, <1>4, SyncedKeeps DEF LookupVerdict, Jobs
  <2>3. CallerOwns(c)'
    BY <1>0, <2>1 DEF CallerOwns
  <2> QED BY <2>1, <2>2, <2>3, QuietStep
<1>5. ASSUME LookupNothing(c) PROVE OwnInv'
  <2>1. /\ at[c] = "lookup" /\ at'[c] = "mkdir" /\ OthersStay(c)
        /\ UNCHANGED <<disk, image, seq, live>> /\ job'[c].kind = "record"
    BY <1>5, Going DEF LookupNothing
  <2>2. \A r \in Sessions : SessionKeeps(r)
    BY <1>0, <1>5, SyncedKeeps DEF LookupNothing, Jobs
  <2>3. CallerOwns(c)'
    BY <1>0, <2>1 DEF CallerOwns
  <2> QED BY <2>1, <2>2, <2>3, QuietStep
<1>6. ASSUME LookupSnapshot(c) PROVE OwnInv'
  <2>1. /\ at[c] = "lookup" /\ at'[c] \in {"return", "key"} /\ OthersStay(c)
        /\ UNCHANGED <<disk, image, seq, live>> /\ job'[c].kind = "collect"
    BY <1>0, <1>6, Going DEF LookupSnapshot, Answer, TypeInv, TypeOK, Jobs
  <2>2. \A r \in Sessions : SessionKeeps(r)
    BY <1>0, <1>6, SnapshotKeeps, SessionsStay DEF LookupSnapshot
  <2>3. CallerOwns(c)'
    BY <1>0, <2>1 DEF CallerOwns
  <2> QED BY <2>1, <2>2, <2>3, QuietStep
<1>7. ASSUME Shared(c) PROVE OwnInv'
  <2>1. /\ at[c] = "awake" /\ at'[c] \in {"return", "flight"} /\ OthersStay(c)
        /\ UNCHANGED <<disk, image, seq, live, sess>> /\ job'[c].kind = job[c].kind
    BY <1>0, <1>7, Going DEF Shared, Answer, TypeInv, TypeOK, Jobs
  <2>2. CallerOwns(c)'
    BY <1>0, <2>1 DEF CallerOwns
  <2> QED BY <2>1, <2>2, SessionsStay, QuietStep
<1>8. ASSUME HashKey(c) PROVE OwnInv'
  <2>1. /\ at[c] = "key" /\ at'[c] = "cache" /\ OthersStay(c)
        /\ UNCHANGED <<disk, image, seq, live, sess, calls>>
        /\ job'[c].kind = job[c].kind /\ job'[c].test = job[c].test
    BY <1>0, <1>8, Going DEF HashKey, TypeInv, TypeOK, Jobs
  <2>2. CallerOwns(c)'
    BY <1>0, <2>1 DEF CallerOwns, TempDir, Kept
  <2> QED BY <2>1, <2>2, SessionsStay, QuietStep
<1> QED BY <1>1, <1>2, <1>3, <1>4, <1>5, <1>6, <1>7, <1>8

LEMMA OwnRun ==
    ASSUME TypeInv, TypeInv', OwnInv, NEW c \in Callers
    PROVE  LookupBinary(c) \/ GiveUp(c) \/ TakeSlot(c) \/ Exec(c) \/ FinishCollect(c) => OwnInv'
<1> DEFINE s == SessionOf[c]
<1>0. CallerOwns(c) /\ SessionOwns(s) /\ s \in Sessions /\ sess[s] \in Fields /\ job[c] \in Jobs
  BY CallerTypes DEF OwnInv, TypeInv
<1> USE DEF Making, Compiling, Holding
<1>1. ASSUME LookupBinary(c) PROVE OwnInv'
  <2> DEFINE synced == Synced(sess[s], job[c].key)
  <2>0. job[c].key \in Hashes /\ at[c] = "cache" /\ sess' = [sess EXCEPT ![s] = synced]
    BY <1>1 DEF LookupBinary, TypeInv, Equipped, Keyed
  <2>1. \A r \in Sessions : SessionKeeps(r)
    BY <1>0, <2>0, SyncedKeeps
  <2>2. Runnable(s, synced.binaries[job[c].key])
    <3>1. synced.binaries[job[c].key] \in {sess[s].binaries[job[c].key], NoBinary}
      BY <1>0, <2>0 DEF Synced, Fields
    <3>2. Runnable(s, NoBinary)
      BY DEF Runnable, InItsFile, NoBinary
    <3> QED BY <1>0, <2>0, <3>1, <3>2 DEF SessionOwns
  <2>3. CASE Go(c, "compile") /\ UNCHANGED job
    <3>1. at'[c] = "compile" /\ OthersStay(c) /\ UNCHANGED <<disk, image, seq, live, calls>>
      BY <1>1, <2>3, Going DEF LookupBinary
    <3>2. CallerOwns(c)'
      BY <1>0, <2>0, <2>1, <2>3, <3>1 DEF CallerOwns, SessionKeeps, Kept, TempDir
    <3> QED BY <2>0, <2>1, <3>1, <3>2, QuietStep
  <2>4. ASSUME NEW bin, Compiled(c, bin), bin = synced.binaries[job[c].key] PROVE OwnInv'
    <3>1. /\ at'[c] \in {"finish", "slot"} /\ OthersStay(c)
          /\ UNCHANGED <<disk, image, seq, live, calls>>
      BY <1>1, <2>4, Going DEF LookupBinary, Compiled, TypeInv, TypeOK
    <3>2. job'[c].kind = job[c].kind /\ job'[c].test = job[c].test /\ job'[c].bin = bin
      BY <1>0, <2>4 DEF Compiled, TypeInv, TypeOK, Jobs
    <3>3. Runnable(s, job[c].bin)'
      BY <1>0, <2>1, <2>2, <2>4, <3>1, <3>2 DEF Runnable, InItsFile, Kept, SessionKeeps
    <3>4. CallerOwns(c)'
      BY <1>0, <2>0, <2>1, <3>1, <3>2, <3>3 DEF CallerOwns, SessionKeeps, Kept, TempDir
    <3> QED BY <2>0, <2>1, <3>1, <3>4, QuietStep
  <2> QED BY <1>1, <2>3, <2>4 DEF LookupBinary
<1>2. ASSUME GiveUp(c) PROVE OwnInv'
  <2>1. /\ at[c] \in {"join", "slot"} /\ at'[c] = "finish" /\ OthersStay(c)
        /\ UNCHANGED <<disk, image, seq, live, sess, calls>>
        /\ job'[c].kind = job[c].kind /\ job'[c].test = job[c].test
    BY <1>0, <1>2, Going DEF GiveUp, TypeInv, TypeOK, Jobs
  <2>2. CallerOwns(c)'
    BY <1>0, <2>1 DEF CallerOwns, TempDir, Kept
  <2> QED BY <2>1, <2>2, SessionsStay, QuietStep
<1>3. ASSUME TakeSlot(c) PROVE OwnInv'
  <2>1. /\ at[c] = "slot" /\ at'[c] = "exec" /\ OthersStay(c)
        /\ UNCHANGED <<disk, image, seq, live, sess, calls, job>>
    BY <1>3, Going DEF TakeSlot
  <2>2. CallerOwns(c)'
    BY <1>0, <2>1 DEF CallerOwns, TempDir, Kept, Runnable, InItsFile
  <2> QED BY <2>1, <2>2, SessionsStay, QuietStep
<1>4. ASSUME Exec(c) PROVE OwnInv'
  <2>0. PICK g : job' = [job EXCEPT ![c].res = g]
    BY <1>4 DEF Exec
  <2>1. /\ at[c] = "exec" /\ at'[c] = "finish" /\ OthersStay(c)
        /\ UNCHANGED <<disk, image, seq, live, sess, calls>>
    BY <1>4, <2>0, Going DEF Exec, TypeInv, TypeOK
  <2>3. job'[c].kind = job[c].kind /\ job'[c].test = job[c].test
    BY <1>0, <2>0 DEF TypeInv, TypeOK, Jobs
  <2>2. CallerOwns(c)'
    BY <1>0, <2>1, <2>3 DEF CallerOwns, TempDir, Kept
  <2> QED BY <2>1, <2>2, SessionsStay, QuietStep
<1>5. ASSUME FinishCollect(c) PROVE OwnInv'
  <2>1. /\ at[c] = "finish" /\ at'[c] = "return" /\ OthersStay(c)
        /\ UNCHANGED <<disk, image, seq, live>>
    BY <1>5, Going DEF FinishCollect, TypeInv, TypeOK
  <2>2. \A r \in Sessions : SessionKeeps(r)
    BY <1>0, <1>5, SnapshotKeeps DEF FinishCollect
  <2>3. CallerOwns(c)'
    BY <1>0, <2>1 DEF CallerOwns
  <2> QED BY <2>1, <2>2, <2>3, QuietStep
<1> QED BY <1>1, <1>2, <1>3, <1>4, <1>5

(* A step of one caller that may add a directory, a path, a flight, a compile or a
   binary to its session and takes nothing from anybody. *)
LEMMA OwnStep ==
    ASSUME TypeInv, TypeInv', OwnInv, NEW c \in Callers, at[c] # "idle", OthersStay(c),
           live' = live, calls'[c] = calls[c],
           \A r \in Sessions \ {SessionOf[c]} : sess'[r] = sess[r],
           sess'[SessionOf[c]].closing = sess[SessionOf[c]].closing,
           \A path \in disk : path \in disk',
           \A path \in sess[SessionOf[c]].owned : path \in sess'[SessionOf[c]].owned,
           \A t \in Tests, d \in Callers \ {c} :
               sess[SessionOf[c]].running[t] = d => sess'[SessionOf[c]].running[t] = d,
           \A h \in Hashes, d \in Callers \ {c} :
               sess[SessionOf[c]].building[h] = d => sess'[SessionOf[c]].building[h] = d,
           \A bin \in Binaries : InItsFile(bin) => InItsFile(bin)',
           at[c] = "own" => TempDir(c) \in sess'[SessionOf[c]].owned,
           \A path \in disk' \ disk : \/ path \in sess'[SessionOf[c]].owned
                                      \/ at'[c] = "own" /\ path = TempDir(c),
           CallerOwns(c)', SessionOwns(SessionOf[c])'
    PROVE  OwnInv'
<1> DEFINE s == SessionOf[c]
<1>s. (\A p \in Callers \cup Closers : SessionOf[p] \in Sessions) /\ s \in live
  BY ConstantsAssumption DEF OwnInv, CallerOwns
<1>1. ASSUME NEW d \in Callers, d # c PROVE CallerOwns(d)'
  <2>1. at'[d] = at[d] /\ job'[d] = job[d] /\ calls'[d] = calls[d] /\ CallerOwns(d)
    BY <1>1 DEF OthersStay, OwnInv
  <2>2. job[d].test \in Tests /\ job[d].bin \in Binaries
        /\ (at[d] \in Compiling => job[d].key \in Hashes)
    BY DEF TypeInv, TypeOK, Jobs, Equipped, Keyed, Compiling
  <2> QED BY <1>1, <1>s, <2>1, <2>2, OwnStays DEF Kept
<1>2. ASSUME NEW r \in Sessions PROVE SessionOwns(r)'
  <2>1. CASE r # s
    <3>1. sess'[r] = sess[r] /\ SessionOwns(r) /\ \A h \in Hashes : sess[r].binaries[h] \in Binaries
      BY <2>1 DEF OwnInv, TypeInv, TypeOK, Fields
    <3> QED BY <3>1 DEF SessionOwns, Runnable, Kept
  <2> QED BY <2>1
<1>3. ASSUME NEW k \in Closers PROVE CloserOwns(k)'
  <2>1. at'[k] = at[k] /\ left'[k] = left[k] /\ CloserOwns(k)
        /\ sess'[SessionOf[k]].closing = sess[SessionOf[k]].closing
    BY <1>s DEF OthersStay, OwnInv
  <2>2. SessionOf[k] = s => at[k] # "remove"
    BY <2>1 DEF CloserOwns
  <2>3. SessionOf[k] # s => sess'[SessionOf[k]] = sess[SessionOf[k]]
    BY <1>s
  <2> QED BY <1>s, <2>1, <2>2, <2>3 DEF CloserOwns, OthersStay
<1>4. NothingIsOrphaned'
  <2> SUFFICES ASSUME NEW path \in disk'
               PROVE  \/ \E r \in live' : path \in sess'[r].owned
                      \/ \E d \in Callers : at'[d] = "own" /\ path = TempDir(d)'
                                            /\ SessionOf[d] \in live'
    BY DEF NothingIsOrphaned
  <2>0. live \subseteq Sessions /\ \A d \in Callers : calls'[d] = calls[d] =>
            TempDir(d)' = TempDir(d)
    BY DEF TypeInv, TypeOK, TempDir
  <2>1. CASE path \notin disk
    BY <1>s, <2>0, <2>1
  <2>2. ASSUME NEW r \in live, path \in sess[r].owned PROVE path \in sess'[r].owned
    BY <2>0, <2>2
  <2>3. ASSUME NEW d \in Callers, at[d] = "own", path = TempDir(d), SessionOf[d] \in live
        PROVE  path \in sess'[s].owned \/ (at'[d] = "own" /\ path = TempDir(d)')
    BY <2>0, <2>3 DEF OthersStay
  <2> QED BY <1>s, <2>1, <2>2, <2>3 DEF OwnInv, NothingIsOrphaned
<1> QED BY <1>1, <1>2, <1>3, <1>4 DEF OwnInv

LEMMA OwnClaim ==
    ASSUME TypeInv, TypeInv', OwnInv, NEW c \in Callers
    PROVE  MakeTempDir(c) \/ OwnTempDir(c) \/ TakeFlight(c) \/ TakeCompile(c) => OwnInv'
<1> DEFINE s == SessionOf[c]
<1>0. CallerOwns(c) /\ SessionOwns(s) /\ s \in Sessions /\ sess[s] \in Fields /\ job[c] \in Jobs
      /\ TempDir(c) \in Dirs
  BY CallerTypes DEF OwnInv, TypeInv
<1>i. UNCHANGED <<image, seq>> => \A bin : InItsFile(bin)' = InItsFile(bin)
  BY DEF InItsFile
<1> USE DEF Making, Compiling, Holding
<1>1. ASSUME MakeTempDir(c) PROVE OwnInv'
  <2>1. /\ at[c] = "mkdir" /\ at'[c] = "own" /\ OthersStay(c) /\ disk' = disk \cup {TempDir(c)}
        /\ UNCHANGED <<image, seq, live, sess, job, calls>>
    BY <1>1, Going DEF MakeTempDir
  <2>2. CallerOwns(c)'
    BY <1>0, <2>1 DEF CallerOwns, TempDir
  <2>3. SessionOwns(s)'
    BY <1>0, <1>i, <2>1 DEF SessionOwns, Runnable, Kept
  <2> QED BY <1>i, <2>1, <2>2, <2>3, OwnStep
<1>2. ASSUME OwnTempDir(c) PROVE OwnInv'
  <2>1. /\ at[c] = "own" /\ at'[c] = "key" /\ OthersStay(c)
        /\ UNCHANGED <<disk, image, seq, live, job, calls>>
    BY <1>2, Going DEF OwnTempDir
  <2>2. /\ sess'[s] = [sess[s] EXCEPT !.owned = @ \cup {TempDir(c)}]
        /\ \A r \in Sessions \ {s} : sess'[r] = sess[r]
    BY <1>0, <1>2 DEF OwnTempDir, TypeInv, TypeOK
  <2>3. /\ sess'[s].owned = sess[s].owned \cup {TempDir(c)}
        /\ sess'[s].binaries = sess[s].binaries /\ sess'[s].closing = sess[s].closing
        /\ sess'[s].running = sess[s].running /\ sess'[s].building = sess[s].building
    BY <1>0, <2>2 DEF Fields
  <2>4. CallerOwns(c)'
    BY <1>0, <2>1, <2>3 DEF CallerOwns, TempDir, Kept
  <2>5. SessionOwns(s)'
    <3>1. TempDir(c) \in Belonging(s)
      BY <1>0 DEF TempDir, Belonging
    <3>2. s \in live
      BY <1>0, <2>1 DEF CallerOwns
    <3> QED BY <1>0, <1>i, <2>1, <2>3, <3>1, <3>2 DEF SessionOwns, Runnable, Kept
  <2> QED BY <1>i, <2>1, <2>2, <2>3, <2>4, <2>5, OwnStep
<1>3. ASSUME TakeFlight(c) PROVE OwnInv'
  <2> DEFINE t == job[c].test
  <2>t. t \in Tests /\ at[c] = "flight" /\ job[c].kind = "test"
    BY <1>0, <1>3 DEF TakeFlight, Jobs, CallerOwns
  <2>1. CASE at'[c] # "key"
    <3>1. at'[c] \in {"return", "await"} /\ OthersStay(c)
          /\ UNCHANGED <<disk, image, seq, live, sess>>
      BY <1>3, <2>1, Going DEF TakeFlight, Answer, TypeInv, TypeOK, Go
    <3>2. job'[c].kind = "test"
      BY <1>0, <1>3, <2>t DEF TakeFlight, Answer, TypeInv, TypeOK, Jobs
    <3>3. CallerOwns(c)'
      BY <1>0, <2>t, <3>1, <3>2 DEF CallerOwns
    <3> QED BY <2>t, <3>1, <3>3, SessionsStay, QuietStep
  <2>2. CASE at'[c] = "key"
    <3>1. /\ sess[s].running[t] = Nobody /\ sess' = [sess EXCEPT ![s].running[t] = c]
          /\ OthersStay(c) /\ UNCHANGED <<disk, image, seq, live, job, calls>>
      BY <1>3, <2>2, Going DEF TakeFlight, Answer, TypeInv, TypeOK, Go
    <3>2. /\ sess'[s] = [sess[s] EXCEPT !.running[t] = c]
          /\ \A r \in Sessions \ {s} : sess'[r] = sess[r]
      BY <1>0, <3>1 DEF TypeInv, TypeOK
    <3>3. /\ sess'[s].running[t] = c
          /\ \A u \in Tests \ {t} : sess'[s].running[u] = sess[s].running[u]
          /\ sess'[s].binaries = sess[s].binaries /\ sess'[s].closing = sess[s].closing
          /\ sess'[s].owned = sess[s].owned /\ sess'[s].building = sess[s].building
      BY <1>0, <2>t, <3>2 DEF Fields
    <3>4. CallerOwns(c)'
      BY <1>0, <2>2, <2>t, <3>1, <3>3 DEF CallerOwns
    <3>5. SessionOwns(s)'
      BY <1>0, <1>i, <3>1, <3>3 DEF SessionOwns, Runnable, Kept
    <3>6. \A u \in Tests, d \in Callers \ {c} :
              sess[s].running[u] = d => sess'[s].running[u] = d
      BY <3>1, <3>3, ConstantsAssumption
    <3> QED BY <1>i, <2>t, <3>1, <3>2, <3>3, <3>4, <3>5, <3>6, OwnStep
  <2> QED BY <2>1, <2>2
<1>4. ASSUME TakeCompile(c) PROVE OwnInv'
  <2> DEFINE h == job[c].key
  <2>t. h \in Hashes /\ at[c] = "compile"
    BY <1>4 DEF TakeCompile, TypeInv, Equipped, Keyed
  <2>1. CASE Go(c, "join") /\ UNCHANGED <<job, sess>>
    <3>1. at'[c] = "join" /\ OthersStay(c) /\ UNCHANGED <<disk, image, seq, live, calls>>
      BY <1>4, <2>1, Going DEF TakeCompile
    <3>2. CallerOwns(c)'
      BY <1>0, <2>1, <2>t, <3>1 DEF CallerOwns, Kept, TempDir
    <3> QED BY <2>1, <2>t, <3>1, <3>2, SessionsStay, QuietStep
  <2>2. ASSUME NEW bin, bin = sess[s].binaries[h], Compiled(c, bin), UNCHANGED sess
        PROVE  OwnInv'
    <3>1. /\ at'[c] \in {"finish", "slot"} /\ OthersStay(c)
          /\ UNCHANGED <<disk, image, seq, live, calls>>
      BY <1>4, <2>2, Going DEF TakeCompile, Compiled, TypeInv, TypeOK
    <3>2. job'[c].kind = job[c].kind /\ job'[c].test = job[c].test /\ job'[c].bin = bin
      BY <1>0, <2>2 DEF Compiled, TypeInv, TypeOK, Jobs
    <3>3. Runnable(s, job[c].bin)'
      BY <1>0, <2>2, <2>t, <3>1, <3>2 DEF Runnable, InItsFile, Kept, SessionOwns
    <3>4. CallerOwns(c)'
      BY <1>0, <2>2, <2>t, <3>1, <3>2, <3>3 DEF CallerOwns, Kept, TempDir
    <3> QED BY <2>2, <2>t, <3>1, <3>4, SessionsStay, QuietStep
  <2>3. CASE Go(c, "build") /\ sess[s].building[h] = Nobody
             /\ sess' = [sess EXCEPT ![s].building[h] = c] /\ UNCHANGED job
    <3>1. at'[c] = "build" /\ OthersStay(c) /\ UNCHANGED <<disk, image, seq, live, calls>>
      BY <1>4, <2>3, Going DEF TakeCompile
    <3>2. /\ sess'[s] = [sess[s] EXCEPT !.building[h] = c]
          /\ \A r \in Sessions \ {s} : sess'[r] = sess[r]
      BY <1>0, <2>3 DEF TypeInv, TypeOK
    <3>3. /\ sess'[s].building[h] = c
          /\ \A k \in Hashes \ {h} : sess'[s].building[k] = sess[s].building[k]
          /\ sess'[s].binaries = sess[s].binaries /\ sess'[s].closing = sess[s].closing
          /\ sess'[s].owned = sess[s].owned /\ sess'[s].running = sess[s].running
      BY <1>0, <2>t, <3>2 DEF Fields
    <3>4. CallerOwns(c)'
      BY <1>0, <2>3, <2>t, <3>1, <3>3 DEF CallerOwns, Kept, TempDir
    <3>5. SessionOwns(s)'
      BY <1>0, <1>i, <3>1, <3>3 DEF SessionOwns, Runnable, Kept
    <3>6. \A k \in Hashes, d \in Callers \ {c} :
              sess[s].building[k] = d => sess'[s].building[k] = d
      BY <2>3, <3>3, ConstantsAssumption
    <3> QED BY <1>i, <2>t, <3>1, <3>2, <3>3, <3>4, <3>5, <3>6, OwnStep
  <2> QED BY <1>4, <2>1, <2>2, <2>3 DEF TakeCompile
<1> QED BY <1>1, <1>2, <1>3, <1>4

(* A build writes a file of its own number: what was in its file stays there. *)
LEMMA BuildKeepsFiles ==
    ASSUME TypeInv, NEW c \in Callers, Build(c), NEW bin \in Binaries, InItsFile(bin)
    PROVE  InItsFile(bin)'
<1>1. seq \in Nat /\ seq' = seq + 1 /\ bin.file \in Nat
  BY MaxFileType DEF Build, TypeInv, TypeOK, Binaries
<1>2. \A f \in 1..MaxFile : f # seq + 1 => image'[f] = image[f]
  BY DEF Build, BinaryName, TypeInv, TypeOK
<1>3. bin.file \in 0..MaxFile
  BY DEF Binaries
<1> QED BY <1>1, <1>2, <1>3, MaxFileType DEF InItsFile

LEMMA OwnBuild ==
    ASSUME TypeInv, TypeInv', OwnInv, NEW c \in Callers
    PROVE  Build(c) \/ StoreBinary(c) => OwnInv'
<1> DEFINE s == SessionOf[c]
           h == job[c].key
<1>0. CallerOwns(c) /\ SessionOwns(s) /\ s \in Sessions /\ sess[s] \in Fields /\ job[c] \in Jobs
      /\ CompileDir(s) \in Dirs
  BY CallerTypes DEF OwnInv, TypeInv
<1> USE DEF Making, Compiling, Holding
<1>1. ASSUME Build(c) PROVE OwnInv'
  <2>1. /\ h \in Hashes /\ at[c] = "build" /\ UNCHANGED <<live, calls, left>>
        /\ disk' = disk \cup {CompileDir(s)}
    BY <1>1 DEF Build, TypeInv, Equipped, Keyed
  <2>2. PICK b \in Binaries : /\ job' = [job EXCEPT ![c].bin = b]
                              /\ b.file # 0 => b.file = seq' /\ image'[b.file] = b.gen
    <3>1. seq' = seq + 1 /\ seq' \in 1..MaxFile /\ src \in 0..MaxGen
      BY <1>1, MaxFileType, ConstantsAssumption DEF Build, TypeInv, TypeOK, Gens
    <3>2. [file |-> seq + 1, gen |-> src] \in Binaries /\ [file |-> 0, gen |-> src] \in Binaries
      BY <3>1, MaxFileType DEF Binaries
    <3>3. CASE /\ image' = [image EXCEPT ![seq + 1] = src]
               /\ job' = [job EXCEPT ![c].bin = [file |-> seq + 1, gen |-> src]]
      <4>1. image'[seq + 1] = src
        BY <3>1, <3>3 DEF TypeInv, TypeOK
      <4> QED BY <3>1, <3>2, <3>3, <4>1
    <3>4. CASE job' = [job EXCEPT ![c].bin = [file |-> 0, gen |-> src]]
      BY <3>2, <3>4
    <3>5. CASE job' = [job EXCEPT ![c].bin = NoBinary]
      BY <3>5, Nones DEF NoBinary
    <3> QED BY <1>1, <3>3, <3>4, <3>5 DEF Build, BinaryName
  <2>3. job'[c] = [job[c] EXCEPT !.bin = b] /\ \A d \in Callers \ {c} : job'[d] = job[d]
    BY <2>2 DEF TypeInv, TypeOK
  <2>4. /\ job'[c].bin = b /\ job'[c].key = h /\ job'[c].kind = job[c].kind
        /\ job'[c].test = job[c].test
    BY <1>0, <2>3 DEF Jobs
  <2>5. at'[c] = "store" /\ OthersStay(c)
    BY <1>1, <2>1, <2>3, Going DEF Build
  <2>6. /\ sess'[s] = [sess[s] EXCEPT !.owned = @ \cup {CompileDir(s)}]
        /\ \A r \in Sessions \ {s} : sess'[r] = sess[r]
    BY <1>0, <1>1 DEF Build, TypeInv, TypeOK
  <2>7. /\ sess'[s].owned = sess[s].owned \cup {CompileDir(s)}
        /\ sess'[s].binaries = sess[s].binaries /\ sess'[s].closing = sess[s].closing
        /\ sess'[s].running = sess[s].running /\ sess'[s].building = sess[s].building
    BY <1>0, <2>6 DEF Fields
  <2>8. Kept(s, CompileDir(s))'
    BY <2>1, <2>7 DEF Kept, CompileDir
  <2>9. InItsFile(b)'
    <3>1. seq' \in Nat
      BY <1>1, MaxFileType DEF Build, TypeInv, TypeOK
    <3> QED BY <2>2, <3>1 DEF InItsFile
  <2>10. CallerOwns(c)'
    <3>1. Runnable(s, job[c].bin)'
      BY <2>4, <2>8, <2>9 DEF Runnable, InItsFile
    <3>2. TempDir(c)' = TempDir(c)
      BY <2>1 DEF TempDir
    <3> QED BY <1>0, <2>1, <2>4, <2>5, <2>7, <3>1, <3>2 DEF CallerOwns, Kept
  <2>11. SessionOwns(s)'
    <3>1. CompileDir(s) \in Belonging(s) /\ s \in live
      BY <1>0, <2>1 DEF CompileDir, Belonging, CallerOwns
    <3>2. ASSUME NEW k \in Hashes PROVE Runnable(s, sess[s].binaries[k])'
      <4>1. sess[s].binaries[k] \in Binaries
        BY <1>0 DEF Fields
      <4>2. InItsFile(sess[s].binaries[k])'
        <5>1. InItsFile(sess[s].binaries[k])
          BY <1>0 DEF SessionOwns, Runnable
        <5>2. \A v \in Binaries : InItsFile(v) => InItsFile(v)'
          BY <1>1, BuildKeepsFiles
        <5> QED BY <2>7, <4>1, <5>1, <5>2 DEF InItsFile
      <4> QED BY <2>8, <4>2 DEF Runnable
    <3> QED BY <1>0, <2>1, <2>7, <3>1, <3>2 DEF SessionOwns
  <2>12. \A v \in Binaries : InItsFile(v) => InItsFile(v)'
    BY <1>1, BuildKeepsFiles
  <2> QED BY <2>1, <2>5, <2>6, <2>7, <2>10, <2>11, <2>12, OwnStep
<1>2. ASSUME StoreBinary(c) PROVE OwnInv'
  <2>1. /\ h \in Hashes /\ at[c] = "store" /\ at'[c] = "publish" /\ OthersStay(c)
        /\ UNCHANGED <<disk, image, seq, live, job, calls>>
    BY <1>2, Going DEF StoreBinary, TypeInv, Equipped, Keyed
  <2>2. /\ sess'[s] = IF job[c].bin.gen = 0 THEN sess[s]
                      ELSE [sess[s] EXCEPT !.binaries[h] = job[c].bin]
        /\ \A r \in Sessions \ {s} : sess'[r] = sess[r]
    BY <1>0, <1>2 DEF StoreBinary, TypeInv, TypeOK
  <2>3. /\ sess'[s].owned = sess[s].owned /\ sess'[s].closing = sess[s].closing
        /\ sess'[s].running = sess[s].running /\ sess'[s].building = sess[s].building
        /\ \A k \in Hashes : sess'[s].binaries[k] \in {sess[s].binaries[k], job[c].bin}
    BY <1>0, <2>1, <2>2 DEF Fields
  <2>4. \A v : InItsFile(v)' = InItsFile(v)
    BY <2>1 DEF InItsFile
  <2>5. CallerOwns(c)'
    BY <1>0, <2>1, <2>3 DEF CallerOwns, TempDir, Kept, Runnable, InItsFile
  <2>6. SessionOwns(s)'
    BY <1>0, <2>1, <2>3 DEF SessionOwns, CallerOwns, Runnable, InItsFile, Kept
  <2> QED BY <2>1, <2>2, <2>3, <2>4, <2>5, <2>6, OwnStep
<1> QED BY <1>1, <1>2

(* A step that moves callers on and touches no file, no path and no cached binary. *)
LEMMA HandStep ==
    ASSUME TypeInv, TypeInv', OwnInv, UNCHANGED <<disk, image, seq, live, calls, left>>,
           \A k \in Closers : at'[k] = at[k],
           \A d \in Callers : at[d] \in {"idle", "own"} => at'[d] = at[d],
           \A r \in Sessions : /\ sess'[r].owned = sess[r].owned
                               /\ sess'[r].closing = sess[r].closing
                               /\ sess'[r].binaries = sess[r].binaries,
           \A d \in Callers : CallerOwns(d)'
    PROVE  OwnInv'
<1>s. \A p \in Callers \cup Closers : SessionOf[p] \in Sessions
  BY ConstantsAssumption
<1>2. ASSUME NEW r \in Sessions PROVE SessionOwns(r)'
  BY DEF SessionOwns, OwnInv, Runnable, InItsFile, Kept
<1>3. ASSUME NEW k \in Closers PROVE CloserOwns(k)'
  BY <1>s DEF CloserOwns, OwnInv
<1>4. NothingIsOrphaned'
  <2>1. \A d \in Callers : TempDir(d)' = TempDir(d)
    BY DEF TempDir
  <2> QED BY <2>1 DEF NothingIsOrphaned, OwnInv, TypeInv, TypeOK
<1> QED BY <1>2, <1>3, <1>4 DEF OwnInv

LEMMA OwnPublish ==
    ASSUME TypeInv, TypeInv', OwnInv, NEW c \in Callers, PublishBinary(c)
    PROVE  OwnInv'
<1> DEFINE s == SessionOf[c]
           h == job[c].key
           bin == job[c].bin
           all == Joined(c) \cup {c}
<1>0. /\ CallerOwns(c) /\ s \in Sessions /\ sess[s] \in Fields /\ job[c] \in Jobs
      /\ at[c] = "publish" /\ h \in Hashes /\ c \notin Joined(c)
  BY CallerTypes DEF OwnInv, TypeInv, PublishBinary, Joined, Equipped, Keyed
<1> USE DEF Making, Compiling, Holding
<1>1. UNCHANGED <<disk, image, seq, live, calls, left>>
  BY DEF PublishBinary
<1>2. /\ \A k \in Closers : at'[k] = at[k]
      /\ \A w \in Callers \ all : at'[w] = at[w] /\ job'[w] = job[w]
      /\ \A w \in all : w \in Callers /\ at[w] \in {"join", "publish"} /\ SessionOf[w] = s
      /\ \A w \in all : at'[w] \in {"finish", "slot"}
  <2>1. DOMAIN at = Callers \cup Closers /\ all \subseteq Callers
    BY DEF TypeInv, TypeOK, Joined
  <2>2. \A w \in all : at[w] \in {"join", "publish"} /\ SessionOf[w] = s
    BY <1>0 DEF Joined
  <2>3. /\ \A p \in Callers \cup Closers : at'[p] = IF p \notin all THEN at[p]
                                    ELSE IF bin.file = 0 THEN "finish" ELSE "slot"
        /\ \A w \in Callers \ all : job'[w] = job[w]
    BY <2>1 DEF PublishBinary
  <2> HIDE DEF all
  <2> QED BY <2>1, <2>2, <2>3, ConstantsAssumption
<1>3. \A w \in all : job'[w].bin = bin /\ job'[w].kind = job[w].kind /\ job'[w].test = job[w].test
  <2> SUFFICES ASSUME NEW w \in all
               PROVE  job'[w].bin = bin /\ job'[w].kind = job[w].kind /\ job'[w].test = job[w].test
    OBVIOUS
  <2>1. job[w] \in Jobs /\ job'[w] = [job[w] EXCEPT !.bin = bin,
                                        !.res = IF bin.file = 0 THEN bin.gen ELSE 0]
    BY <1>2 DEF PublishBinary, TypeInv, TypeOK
  <2> QED BY <2>1 DEF Jobs
<1>4. /\ sess'[s] = [sess[s] EXCEPT !.building[h] = Nobody]
      /\ \A r \in Sessions \ {s} : sess'[r] = sess[r]
  BY <1>0 DEF PublishBinary, TypeInv, TypeOK
<1>5. /\ sess'[s].owned = sess[s].owned /\ sess'[s].closing = sess[s].closing
      /\ sess'[s].binaries = sess[s].binaries /\ sess'[s].running = sess[s].running
      /\ \A k \in Hashes \ {h} : sess'[s].building[k] = sess[s].building[k]
  BY <1>0, <1>4 DEF Fields
<1>6. \A v : InItsFile(v)' = InItsFile(v)
  BY <1>1 DEF InItsFile
<1>7. \A d \in Callers : TempDir(d)' = TempDir(d)
  BY <1>1 DEF TempDir
<1>8. ASSUME NEW w \in all PROVE CallerOwns(w)'
  <2>1. CallerOwns(w) /\ w \in Callers /\ at[w] \in {"join", "publish"} /\ SessionOf[w] = s
        /\ at'[w] \in {"finish", "slot"}
    BY <1>2 DEF OwnInv
  <2>2. Runnable(s, bin)'
    <3>1. job'[c].bin = bin
      BY <1>3
    <3> QED BY <1>0, <1>1, <1>5, <3>1 DEF CallerOwns, Runnable, InItsFile, Kept
  <2>3. Runnable(s, job[w].bin)'
    BY <1>3, <2>2 DEF Runnable, InItsFile
  <2> QED BY <1>1, <1>3, <1>5, <1>7, <2>1, <2>3 DEF CallerOwns, Kept
<1>9. ASSUME NEW d \in Callers \ all PROVE CallerOwns(d)'
  <2>1. CallerOwns(d) /\ SessionOf[d] \in Sessions /\ at'[d] = at[d] /\ job'[d] = job[d]
        /\ d # c /\ job[d].test \in Tests /\ (at[d] \in Compiling => job[d].key \in Hashes)
    BY <1>2, ConstantsAssumption DEF OwnInv, TypeInv, TypeOK, Jobs, Equipped, Keyed
  <2>2. at[d] \in Compiling /\ sess[SessionOf[d]].building[job[d].key] = d =>
            sess'[SessionOf[d]].building[job[d].key] = d
    BY <1>0, <1>4, <1>5, <2>1 DEF CallerOwns
  <2>3. sess'[SessionOf[d]].running = sess[SessionOf[d]].running
        /\ sess'[SessionOf[d]].owned = sess[SessionOf[d]].owned
    BY <1>4, <1>5, <2>1
  <2> QED BY <1>1, <1>6, <2>1, <2>2, <2>3, OwnStays DEF Kept
<1> HIDE DEF all
<1>10. \A d \in Callers : CallerOwns(d)'
  BY <1>8, <1>9
<1>11. \A d \in Callers : at[d] \in {"idle", "own"} => at'[d] = at[d]
  BY <1>2
<1>12. \A r \in Sessions : /\ sess'[r].owned = sess[r].owned /\ sess'[r].closing = sess[r].closing
                           /\ sess'[r].binaries = sess[r].binaries
  BY <1>4, <1>5
<1> QED BY <1>1, <1>2, <1>10, <1>11, <1>12, HandStep

LEMMA OwnFinishTest ==
    ASSUME TypeInv, TypeInv', OwnInv, NEW c \in Callers, FinishTest(c)
    PROVE  OwnInv'
<1> DEFINE s == SessionOf[c]
           t == job[c].test
           entry == [hash |-> job[c].hash, gen |-> job[c].res]
<1>0. /\ CallerOwns(c) /\ s \in Sessions /\ sess[s] \in Fields /\ job[c] \in Jobs /\ t \in Tests
      /\ at[c] = "finish" /\ job[c].kind = "test" /\ c \notin Waiting(c)
  BY CallerTypes DEF OwnInv, TypeInv, FinishTest, Waiting, Jobs
<1> USE DEF Making, Compiling, Holding
<1>1. UNCHANGED <<disk, image, seq, live, calls, left>>
  BY DEF FinishTest
<1>2. /\ \A k \in Closers : at'[k] = at[k]
      /\ \A w \in Callers \ (Waiting(c) \cup {c}) : at'[w] = at[w] /\ job'[w] = job[w]
      /\ at'[c] = "return" /\ job'[c] = job[c]
      /\ \A w \in Waiting(c) : w \in Callers /\ at[w] = "await" /\ at'[w] = "awake"
                               /\ SessionOf[w] = s
  BY <1>0, ConstantsAssumption DEF FinishTest, Waiting, TypeInv, TypeOK
<1>3. \A w \in Waiting(c) : job'[w].kind = job[w].kind
  <2> SUFFICES ASSUME NEW w \in Waiting(c) PROVE job'[w].kind = job[w].kind
    OBVIOUS
  <2>1. job[w] \in Jobs /\ job'[w] = [job[w] EXCEPT !.got = entry]
    BY <1>2 DEF FinishTest, TypeInv, TypeOK
  <2> QED BY <2>1 DEF Jobs
<1>4. PICK e : /\ sess'[s] = [sess[s] EXCEPT !.running[t] = Nobody, !.verdicts[t] = e]
               /\ \A r \in Sessions \ {s} : sess'[r] = sess[r]
  <2> DEFINE e == IF entry.gen = 0 THEN sess[s].verdicts[t] ELSE entry
             v == [sess[s] EXCEPT !.running[t] = Nobody, !.verdicts[t] = e]
  <2>0. sess \in [Sessions -> Fields] /\ s \in Sessions /\ sess[s] \in Fields /\ t \in Tests
    BY <1>0 DEF TypeInv, TypeOK
  <2>1. sess' = [sess EXCEPT ![s] = v]
    BY <2>0 DEF FinishTest
  <2> QED BY <1>0, <2>1 DEF TypeInv, TypeOK
<1>5. /\ sess'[s].owned = sess[s].owned /\ sess'[s].closing = sess[s].closing
      /\ sess'[s].binaries = sess[s].binaries /\ sess'[s].building = sess[s].building
      /\ \A u \in Tests \ {t} : sess'[s].running[u] = sess[s].running[u]
  BY <1>0, <1>4 DEF Fields
<1>6. \A v : InItsFile(v)' = InItsFile(v)
  BY <1>1 DEF InItsFile
<1>7. ASSUME NEW w \in Waiting(c) PROVE CallerOwns(w)'
  <2>1. CallerOwns(w) /\ at[w] = "await" /\ at'[w] = "awake" /\ w \in Callers
    BY <1>2 DEF OwnInv
  <2> QED BY <1>1, <1>3, <2>1 DEF CallerOwns
<1>8. CallerOwns(c)'
  BY <1>0, <1>1, <1>2 DEF CallerOwns
<1>9. ASSUME NEW d \in Callers \ (Waiting(c) \cup {c}) PROVE CallerOwns(d)'
  <2>1. CallerOwns(d) /\ SessionOf[d] \in Sessions /\ at'[d] = at[d] /\ job'[d] = job[d]
        /\ d # c /\ job[d].test \in Tests
    BY <1>2, ConstantsAssumption DEF OwnInv, TypeInv, TypeOK, Jobs
  <2>2. sess[SessionOf[d]].running[job[d].test] = d =>
            \/ sess'[SessionOf[d]].running[job[d].test] = d
            \/ SessionOf[d] = s /\ job[d].test = t
    BY <1>4, <1>5, <2>1
  <2>3. sess'[SessionOf[d]].building = sess[SessionOf[d]].building
        /\ sess'[SessionOf[d]].owned = sess[SessionOf[d]].owned
    BY <1>4, <1>5, <2>1
  <2>4. sess[s].running[t] = c
    BY <1>0 DEF CallerOwns
  <2> QED BY <1>1, <1>6, <2>1, <2>2, <2>3, <2>4, OwnStays DEF Kept
<1>10. \A d \in Callers : CallerOwns(d)'
  BY <1>7, <1>8, <1>9
<1>11. \A d \in Callers : at[d] \in {"idle", "own"} => at'[d] = at[d]
  BY <1>0, <1>2
<1>12. \A r \in Sessions : /\ sess'[r].owned = sess[r].owned /\ sess'[r].closing = sess[r].closing
                           /\ sess'[r].binaries = sess[r].binaries
  BY <1>4, <1>5
<1> QED BY <1>1, <1>2, <1>10, <1>11, <1>12, HandStep

(* The directories of different owners are different. *)
LEMMA OwnNames ==
    ASSUME TypeInv, NEW c \in Callers
    PROVE  /\ \A d \in Callers \ {c} : TempDir(d) # TempDir(c)
           /\ \A s \in Sessions : CompileDir(s) # TempDir(c)
BY ConstantsAssumption DEF TempDir, CompileDir

LEMMA OwnFinishRecord ==
    ASSUME TypeInv, TypeInv', OwnInv, NEW c \in Callers, FinishRecord(c)
    PROVE  OwnInv'
<1> DEFINE s == SessionOf[c]
           path == TempDir(c)
<1>0. CallerOwns(c) /\ SessionOwns(s) /\ s \in Sessions /\ sess[s] \in Fields /\ job[c] \in Jobs
  BY CallerTypes DEF OwnInv, TypeInv
<1>s. \A p \in Callers \cup Closers : SessionOf[p] \in Sessions
  BY ConstantsAssumption
<1>1. /\ at[c] = "finish" /\ at'[c] = "return" /\ OthersStay(c)
      /\ UNCHANGED <<image, seq, live, calls>>
  BY Going DEF FinishRecord, TypeInv, TypeOK
<1>2. CallerOwns(c)'
  BY <1>0, <1>1 DEF CallerOwns, Making, Compiling, Holding
<1>3. CASE UNCHANGED <<disk, sess>>
  BY <1>1, <1>2, <1>3, SessionsStay, QuietStep
<1>4. CASE disk' = disk \ {path} /\ sess' = [sess EXCEPT ![s].owned = @ \ {path}]
  <2>1. /\ sess'[s] = [sess[s] EXCEPT !.owned = @ \ {path}]
        /\ \A r \in Sessions \ {s} : sess'[r] = sess[r]
    BY <1>0, <1>4 DEF TypeInv, TypeOK
  <2>2. \A r \in Sessions :
            /\ sess'[r].owned \in {sess[r].owned, sess[r].owned \ {path}}
            /\ sess'[r].closing = sess[r].closing /\ sess'[r].binaries = sess[r].binaries
            /\ sess'[r].running = sess[r].running /\ sess'[r].building = sess[r].building
    BY <1>0, <2>1 DEF Fields
  <2>3. \A r \in Sessions : \A q : q # path /\ Kept(r, q) => Kept(r, q)'
    BY <1>4, <2>2 DEF Kept
  <2>4. \A v : InItsFile(v)' = InItsFile(v)
    BY <1>1 DEF InItsFile
  <2>5. ASSUME NEW d \in Callers, d # c PROVE CallerOwns(d)'
    <3>1. at'[d] = at[d] /\ job'[d] = job[d] /\ calls'[d] = calls[d] /\ CallerOwns(d)
      BY <1>1, <2>5 DEF OthersStay, OwnInv
    <3>2. TempDir(d) # path /\ CompileDir(SessionOf[d]) # path
      BY <1>s, <2>5, OwnNames
    <3> QED BY <1>1, <1>4, <1>s, <2>2, <2>3, <2>4, <3>1, <3>2, OwnStays
  <2>6. ASSUME NEW r \in Sessions PROVE SessionOwns(r)'
    <3>1. CompileDir(r) # path /\ SessionOwns(r)
      BY OwnNames DEF OwnInv
    <3> QED BY <1>1, <2>2, <2>3, <2>4, <3>1 DEF SessionOwns, Runnable
  <2>7. ASSUME NEW k \in Closers PROVE CloserOwns(k)'
    <3>1. at'[k] = at[k] /\ left'[k] = left[k] /\ CloserOwns(k)
      BY <1>1 DEF OthersStay, OwnInv
    <3>2. \A d \in Callers : at[d] = "idle" => at'[d] = "idle"
      BY <1>1 DEF OthersStay
    <3> QED BY <1>s, <2>2, <3>1, <3>2 DEF CloserOwns
  <2>8. NothingIsOrphaned'
    <3>1. \A d \in Callers : at[d] = "own" => d # c /\ at'[d] = "own" /\ TempDir(d)' = TempDir(d)
      BY <1>1 DEF OthersStay, TempDir
    <3> QED BY <1>1, <1>4, <2>2, <3>1 DEF NothingIsOrphaned, OwnInv, TypeInv, TypeOK
  <2> QED BY <1>2, <2>5, <2>6, <2>7, <2>8 DEF OwnInv
<1> QED BY <1>3, <1>4 DEF FinishRecord

LEMMA OwnBegin ==
    ASSUME TypeInv, TypeInv', OwnInv, NEW c \in Callers, Begin(c)
    PROVE  OwnInv'
<1> DEFINE s == SessionOf[c]
<1>0. s \in Sessions /\ SessionOwns(s) /\ at[c] = "idle"
  BY CallerTypes DEF OwnInv, TypeInv, Begin
<1>s. \A p \in Callers \cup Closers : SessionOf[p] \in Sessions
  BY ConstantsAssumption
<1>1. UNCHANGED <<disk, image, seq, live, sess, left>>
  BY DEF Begin
<1>2. \/ at'[c] = "idle"
      \/ at'[c] \in {"snapLock", "hash"} /\ ~ sess[s].closing
  BY <1>0 DEF Begin, Go, TypeInv, TypeOK
<1>3. OthersStay(c)
  BY ConstantsAssumption DEF Begin, Go, OthersStay, TypeInv, TypeOK
<1>4. CallerOwns(c)'
  <2>1. ~ sess[s].closing => s \in live
    BY <1>0 DEF SessionOwns
  <2> QED BY <1>1, <1>2, <2>1 DEF CallerOwns, Making, Compiling, Holding
<1>5. ASSUME NEW d \in Callers, d # c PROVE CallerOwns(d)'
  <2>1. at'[d] = at[d] /\ job'[d] = job[d] /\ calls'[d] = calls[d] /\ CallerOwns(d)
    BY <1>3, <1>5 DEF OthersStay, OwnInv
  <2> QED BY <1>1, <2>1, OwnStays DEF Kept, InItsFile
<1>6. ASSUME NEW r \in Sessions PROVE SessionOwns(r)'
  BY <1>1 DEF SessionOwns, OwnInv, Runnable, InItsFile, Kept
<1>7. ASSUME NEW k \in Closers PROVE CloserOwns(k)'
  <2>1. at'[k] = at[k] /\ left'[k] = left[k] /\ CloserOwns(k)
    BY <1>3 DEF OthersStay, OwnInv
  <2>2. ASSUME NEW d \in Callers, SessionOf[d] = SessionOf[k], at[k] = "remove"
        PROVE  at'[d] = "idle"
    BY <1>2, <1>3, <2>1, <2>2 DEF CloserOwns, OthersStay
  <2> QED BY <1>1, <2>1, <2>2 DEF CloserOwns
<1>8. NothingIsOrphaned'
  <2>1. \A d \in Callers : at[d] = "own" => d # c /\ at'[d] = "own" /\ TempDir(d)' = TempDir(d)
    BY <1>0, <1>3 DEF OthersStay, TempDir
  <2> QED BY <1>1, <2>1 DEF NothingIsOrphaned, OwnInv
<1> QED BY <1>4, <1>5, <1>6, <1>7, <1>8 DEF OwnInv

LEMMA OwnSame ==
    ASSUME OwnInv, UNCHANGED <<disk, image, seq, live, sess, at, job, calls, left>>
    PROVE  OwnInv'
<1>1. \A c \in Callers : TempDir(c)' = TempDir(c)
  BY DEF TempDir
<1>2. \A c \in Callers : CallerOwns(c)'
  BY <1>1 DEF OwnInv, CallerOwns, Runnable, InItsFile, Kept
<1>3. \A s \in Sessions : SessionOwns(s)'
  BY DEF OwnInv, SessionOwns, Runnable, InItsFile, Kept
<1>4. \A k \in Closers : CloserOwns(k)'
  BY DEF OwnInv, CloserOwns
<1>5. NothingIsOrphaned'
  BY <1>1 DEF OwnInv, NothingIsOrphaned
<1> QED BY <1>2, <1>3, <1>4, <1>5 DEF OwnInv

(* A step of Close: the callers stay; what it takes from disk is its own session's,
   and then that session has no user and no cached binary. *)
LEMMA CloseOwnStep ==
    ASSUME TypeInv, TypeInv', OwnInv, NEW k \in Closers, NEW q,
           UNCHANGED <<image, seq, job>>,
           \A d \in Callers : at'[d] = at[d] /\ calls'[d] = calls[d],
           \A r \in Sessions : /\ sess'[r].running = sess[r].running
                               /\ sess'[r].building = sess[r].building
                               /\ sess[r].closing => sess'[r].closing
                               /\ sess'[r].owned \in {sess[r].owned, sess[r].owned \ {q}}
                               /\ \A h \in Hashes :
                                     sess'[r].binaries[h] \in {sess[r].binaries[h], NoBinary},
           \A r \in Sessions \ {SessionOf[k]} : r \in live => r \in live',
           live' \subseteq live,
           SessionOf[k] \in live \ live' =>
               sess'[SessionOf[k]].closing /\ sess'[SessionOf[k]].owned = {},
           UNCHANGED disk \/ disk' = disk \ {q},
           \A r \in Sessions : sess'[r].owned # sess[r].owned => disk' = disk \ {q},
           disk' # disk \/ live' # live \/ (\E r \in Sessions : sess'[r].owned # sess[r].owned) =>
               /\ at[k] = "remove"
               /\ q \in Belonging(SessionOf[k]),
           \A m \in Closers : CloserOwns(m)'
    PROVE  OwnInv'
<1> DEFINE s == SessionOf[k]
<1>s. \A p \in Callers \cup Closers : SessionOf[p] \in Sessions
  BY ConstantsAssumption
<1>f. \A v : InItsFile(v)' = InItsFile(v)
  BY DEF InItsFile
<1>t. \A d \in Callers : TempDir(d)' = TempDir(d)
  BY DEF TempDir
<1>c. CloserOwns(k) /\ live \subseteq Sessions
  BY DEF OwnInv, TypeInv, TypeOK
<1>1. ASSUME disk' # disk \/ live' # live \/ (\E r \in Sessions : sess'[r].owned # sess[r].owned)
      PROVE  /\ \A d \in Callers : at[d] # "idle" => SessionOf[d] # s
             /\ \A h \in Hashes : sess[s].binaries[h] = NoBinary
             /\ \A r \in Sessions \ {s} : q # CompileDir(r)
             /\ \A d \in Callers : SessionOf[d] # s => q # TempDir(d)
  <2>1. at[k] = "remove" /\ (q[1] = s \/ (q[1] \in Callers /\ SessionOf[q[1]] = s))
    BY <1>1 DEF Belonging
  <2>2. /\ \A r \in Sessions \ {s} : q # CompileDir(r)
        /\ \A d \in Callers : SessionOf[d] # s => q # TempDir(d)
    BY <1>s, <2>1, ConstantsAssumption DEF CompileDir, TempDir
  <2> QED BY <1>c, <2>1, <2>2 DEF CloserOwns
<1>2. ASSUME NEW d \in Callers PROVE CallerOwns(d)'
  <2>1. CallerOwns(d) /\ SessionOf[d] \in Sessions
    BY <1>s DEF OwnInv
  <2>2. at[d] # "idle" /\ TempDir(d) \in disk => TempDir(d) \in disk'
    BY <1>1
  <2>3. at[d] # "idle" /\ SessionOf[d] \in live => SessionOf[d] \in live'
    BY <1>1, <1>s
  <2>4. at[d] # "idle" => \A path \in {TempDir(d), CompileDir(SessionOf[d])} :
            Kept(SessionOf[d], path) => Kept(SessionOf[d], path)'
    BY <1>1, <2>1 DEF Kept
  <2>5. CASE at[d] = "idle"
    BY <2>5 DEF CallerOwns, Making, Compiling, Holding
  <2>6. CASE at[d] # "idle"
    BY <1>f, <2>1, <2>2, <2>3, <2>4, <2>6, OwnStays
  <2> QED BY <2>5, <2>6
<1>3. ASSUME NEW r \in Sessions PROVE SessionOwns(r)'
  <2>1. SessionOwns(r)
    BY DEF OwnInv
  <2>2. r \notin live' => sess'[r].closing /\ sess'[r].owned = {}
    BY <2>1 DEF SessionOwns
  <2>3. ASSUME NEW h \in Hashes PROVE Runnable(r, sess[r].binaries[h])'
    <3>1. CASE sess'[r].binaries[h] = NoBinary
      BY <3>1 DEF Runnable, InItsFile, NoBinary
    <3>2. CASE sess'[r].binaries[h] # NoBinary
      <4>1. sess'[r].binaries[h] = sess[r].binaries[h] /\ Runnable(r, sess[r].binaries[h])
        BY <2>1, <3>2 DEF SessionOwns
      <4>2. Kept(r, CompileDir(r)) => Kept(r, CompileDir(r))'
        BY <1>1, <3>2, <4>1 DEF Kept, CompileDir
      <4> QED BY <1>f, <4>1, <4>2 DEF Runnable, InItsFile
    <3> QED BY <3>1, <3>2
  <2> QED BY <2>1, <2>2, <2>3 DEF SessionOwns
<1>4. NothingIsOrphaned'
  <2> SUFFICES ASSUME NEW path \in disk'
               PROVE  \/ \E r \in live' : path \in sess'[r].owned
                      \/ \E d \in Callers : at'[d] = "own" /\ path = TempDir(d)'
                                            /\ SessionOf[d] \in live'
    BY DEF NothingIsOrphaned
  <2>1. path \in disk /\ (disk' # disk => path # q)
    OBVIOUS
  <2>2. ASSUME NEW r \in live, path \in sess[r].owned
        PROVE  r \in live' /\ path \in sess'[r].owned
    <3>1. r \in Sessions /\ path \in sess'[r].owned
      BY <1>c, <2>1, <2>2
    <3> QED BY <2>2, <3>1
  <2>3. ASSUME NEW d \in Callers, at[d] = "own", path = TempDir(d), SessionOf[d] \in live
        PROVE  at'[d] = "own" /\ path = TempDir(d)' /\ SessionOf[d] \in live'
    BY <1>1, <1>s, <1>t, <2>3
  <2> QED BY <2>1, <2>2, <2>3 DEF OwnInv, NothingIsOrphaned
<1> QED BY <1>2, <1>3, <1>4 DEF OwnInv

(* A Close that stays keeps what it knows of its session. *)
LEMMA CloserStays ==
    ASSUME NEW m \in Closers, CloserOwns(m), at'[m] = at[m], left'[m] \subseteq left[m],
           sess[SessionOf[m]].closing => sess'[SessionOf[m]].closing,
           \A h \in Hashes : sess[SessionOf[m]].binaries[h] = NoBinary =>
                              sess'[SessionOf[m]].binaries[h] = NoBinary,
           \A d \in Callers : at[d] = "idle" => at'[d] = "idle"
    PROVE  CloserOwns(m)'
BY DEF CloserOwns, Belonging

LEMMA OwnClose ==
    ASSUME TypeInv, TypeInv', OwnInv, NEW k \in Closers
    PROVE  CloseBegin(k) \/ CloseStep(k) => OwnInv'
<1> DEFINE s == SessionOf[k]
<1>0. /\ CloserOwns(k) /\ s \in Sessions /\ sess[s] \in Fields /\ SessionOwns(s)
      /\ \A p \in Callers \cup Closers : SessionOf[p] \in Sessions
      /\ k \notin Callers /\ NoBinary \in Binaries
  BY ConstantsAssumption, Nones DEF OwnInv, TypeInv, TypeOK
<1>b. \A r \in Sessions, h \in Hashes : sess'[r] = sess[r] =>
          sess'[r].binaries[h] \in {sess[r].binaries[h], NoBinary}
  OBVIOUS
<1>m. \A m \in Closers \ {k} : CloserOwns(m)
  BY DEF OwnInv
<1>1. ASSUME CloseBegin(k) PROVE OwnInv'
  <2>1. /\ at[k] = "idle" /\ at' = [at EXCEPT ![k] = "wait"] /\ left' = left
        /\ UNCHANGED <<disk, image, seq, live, job>>
        /\ sess' = [sess EXCEPT ![s].closeMu = k, ![s].closing = TRUE]
    BY <1>1 DEF CloseBegin, Go
  <2>2. /\ \A p \in Callers \cup Closers : p # k => at'[p] = at[p]
        /\ at'[k] = "wait" /\ \A d \in Callers : calls'[d] = calls[d]
    BY <1>0, <1>1, <2>1 DEF CloseBegin, TypeInv, TypeOK
  <2>3. /\ sess'[s] = [sess[s] EXCEPT !.closeMu = k, !.closing = TRUE]
        /\ \A r \in Sessions \ {s} : sess'[r] = sess[r]
    BY <1>0, <2>1 DEF TypeInv, TypeOK
  <2>4. /\ sess'[s].owned = sess[s].owned /\ sess'[s].closing
        /\ sess'[s].running = sess[s].running /\ sess'[s].building = sess[s].building
        /\ sess'[s].binaries = sess[s].binaries
    BY <1>0, <2>3 DEF Fields
  <2>5. ASSUME NEW m \in Closers PROVE CloserOwns(m)'
    <3>1. CASE m = k
      BY <1>0, <2>1, <2>2, <2>4, <3>1 DEF CloserOwns
    <3>2. CASE m # k
      <4>1. /\ sess[SessionOf[m]].closing => sess'[SessionOf[m]].closing
            /\ sess'[SessionOf[m]].binaries = sess[SessionOf[m]].binaries
        BY <1>0, <2>3, <2>4
      <4> QED BY <1>0, <1>m, <2>1, <2>2, <3>2, <4>1, CloserStays
    <3> QED BY <3>1, <3>2
  <2> QED BY <1>0, <2>1, <2>2, <2>3, <2>4, <2>5, CloseOwnStep
<1>2. ASSUME CloseClear(k) PROVE OwnInv'
  <2>1. /\ at[k] = "wait" /\ at' = [at EXCEPT ![k] = "remove"]
        /\ left' = [left EXCEPT ![k] = sess[s].owned] /\ UsersOf(s) = {}
        /\ UNCHANGED <<disk, image, seq, live, job, calls>>
    BY <1>2 DEF CloseClear, Go
  <2>2. /\ \A p \in Callers \cup Closers : p # k => at'[p] = at[p]
        /\ at'[k] = "remove"
        /\ left'[k] = sess[s].owned /\ \A m \in Closers \ {k} : left'[m] = left[m]
    BY <1>0, <2>1 DEF TypeInv, TypeOK
  <2>3. /\ sess'[s] = [sess[s] EXCEPT !.binaries = [h \in Hashes |-> NoBinary],
                                      !.verdicts = [t \in Tests |-> Unknown],
                                      !.snapshot = Unknown, !.lastHash = NoHash]
        /\ \A r \in Sessions \ {s} : sess'[r] = sess[r]
    BY <1>0, <1>2 DEF CloseClear, TypeInv, TypeOK
  <2>4. /\ sess'[s].owned = sess[s].owned /\ sess'[s].closing = sess[s].closing
        /\ sess'[s].running = sess[s].running /\ sess'[s].building = sess[s].building
        /\ \A h \in Hashes : sess'[s].binaries[h] = NoBinary
    BY <1>0, <2>3 DEF Fields
  <2>5. ASSUME NEW m \in Closers PROVE CloserOwns(m)'
    <3>1. CASE m = k
      <4>1. \A c \in Callers : SessionOf[c] = s => at'[c] = "idle"
        BY <1>0, <2>1, <2>2 DEF UsersOf
      <4> QED BY <1>0, <2>1, <2>2, <2>4, <3>1, <4>1 DEF CloserOwns, SessionOwns
    <3>2. CASE m # k
      <4>1. /\ sess'[SessionOf[m]].closing = sess[SessionOf[m]].closing
            /\ \A h \in Hashes : sess[SessionOf[m]].binaries[h] = NoBinary =>
                                  sess'[SessionOf[m]].binaries[h] = NoBinary
        BY <1>0, <2>3, <2>4
      <4>2. at'[m] = at[m] /\ left'[m] = left[m] /\ \A d \in Callers : at'[d] = at[d]
        BY <1>0, <2>2, <3>2
      <4> QED BY <1>m, <3>2, <4>1, <4>2, CloserStays
    <3> QED BY <3>1, <3>2
  <2>6. \A r \in Sessions : \A h \in Hashes :
            sess'[r].binaries[h] \in {sess[r].binaries[h], NoBinary}
    BY <1>b, <2>3, <2>4
  <2> QED BY <1>0, <2>1, <2>2, <2>3, <2>4, <2>5, <2>6, CloseOwnStep
<1>3. ASSUME CloseRemove(k) PROVE OwnInv'
  <2>1. PICK q \in left[k] :
            /\ left' = [left EXCEPT ![k] = @ \ {q}]
            /\ \/ disk' = disk \ {q} /\ sess' = [sess EXCEPT ![s].owned = @ \ {q}]
               \/ UNCHANGED <<disk, sess>>
    BY <1>3 DEF CloseRemove
  <2>2. /\ at[k] = "remove" /\ UNCHANGED <<image, seq, live, at, job, calls>>
        /\ q \in Belonging(s)
    BY <1>0, <1>3 DEF CloseRemove, CloserOwns
  <2>3. \A m \in Closers : left'[m] \subseteq left[m]
    BY <2>1 DEF TypeInv, TypeOK
  <2>4. /\ \A r \in Sessions \ {s} : sess'[r] = sess[r]
        /\ sess'[s] \in {sess[s], [sess[s] EXCEPT !.owned = @ \ {q}]}
        /\ sess'[s] = sess[s] \/ disk' = disk \ {q}
    BY <1>0, <2>1 DEF TypeInv, TypeOK
  <2>5. /\ sess'[s].owned \in {sess[s].owned, sess[s].owned \ {q}}
        /\ sess'[s].closing = sess[s].closing /\ sess'[s].binaries = sess[s].binaries
        /\ sess'[s].running = sess[s].running /\ sess'[s].building = sess[s].building
    BY <1>0, <2>4 DEF Fields
  <2>6. ASSUME NEW m \in Closers PROVE CloserOwns(m)'
    <3>1. CloserOwns(m) /\ SessionOf[m] \in Sessions
      BY <1>0 DEF OwnInv
    <3>2. sess'[SessionOf[m]].closing = sess[SessionOf[m]].closing
          /\ sess'[SessionOf[m]].binaries = sess[SessionOf[m]].binaries
      BY <2>4, <2>5, <3>1
    <3> QED BY <2>2, <2>3, <3>1, <3>2 DEF CloserOwns, Belonging
  <2>7. \A r \in Sessions : /\ sess'[r].running = sess[r].running
                            /\ sess'[r].building = sess[r].building
                            /\ sess'[r].closing = sess[r].closing
                            /\ sess'[r].binaries = sess[r].binaries
                            /\ sess'[r].owned \in {sess[r].owned, sess[r].owned \ {q}}
                            /\ sess'[r].owned # sess[r].owned => disk' = disk \ {q}
    BY <2>4, <2>5
  <2>8. UNCHANGED disk \/ disk' = disk \ {q}
    BY <2>1
  <2> QED BY <1>0, <2>2, <2>6, <2>7, <2>8, CloseOwnStep
<1>4. ASSUME CloseEnd(k) PROVE OwnInv'
  <2>1. /\ at[k] = "remove" /\ at' = [at EXCEPT ![k] = "idle"] /\ left' = left
        /\ UNCHANGED <<disk, image, seq, job, calls>>
        /\ live' = IF sess[s].owned = {} THEN live \ {s} ELSE live
    BY <1>4 DEF CloseEnd, Go
  <2>2. /\ \A p \in Callers \cup Closers : p # k => at'[p] = at[p]
        /\ at'[k] = "idle"
    BY <1>0, <2>1 DEF TypeInv, TypeOK
  <2>3. /\ sess'[s] = [sess[s] EXCEPT !.closeMu = Nobody]
        /\ \A r \in Sessions \ {s} : sess'[r] = sess[r]
    BY <1>0, <1>4 DEF CloseEnd, TypeInv, TypeOK
  <2>4. /\ sess'[s].owned = sess[s].owned /\ sess'[s].closing = sess[s].closing
        /\ sess'[s].running = sess[s].running /\ sess'[s].building = sess[s].building
        /\ sess'[s].binaries = sess[s].binaries
    BY <1>0, <2>3 DEF Fields
  <2>5. ASSUME NEW m \in Closers PROVE CloserOwns(m)'
    <3>1. CASE m = k
      BY <1>0, <2>1, <2>2, <3>1 DEF CloserOwns
    <3>2. CASE m # k
      <4>1. /\ sess'[SessionOf[m]].closing = sess[SessionOf[m]].closing
            /\ sess'[SessionOf[m]].binaries = sess[SessionOf[m]].binaries
        BY <1>0, <2>3, <2>4
      <4>2. at'[m] = at[m] /\ left'[m] = left[m] /\ \A d \in Callers : at'[d] = at[d]
        BY <1>0, <2>1, <2>2, <3>2
      <4> QED BY <1>m, <3>2, <4>1, <4>2, CloserStays
    <3> QED BY <3>1, <3>2
  <2>6. s \in live \ live' => sess'[s].closing /\ sess'[s].owned = {}
    BY <1>0, <2>1, <2>4 DEF CloserOwns
  <2>7. live' \subseteq live /\ (\A r \in Sessions \ {s} : r \in live => r \in live')
    BY <2>1
  <2> DEFINE q == CompileDir(s)
  <2>8. q \in Belonging(s) /\ UNCHANGED disk
    BY <1>0, <2>1, ConstantsAssumption DEF CompileDir, Belonging, Dirs
  <2>9. \A r \in Sessions : /\ sess'[r].running = sess[r].running
                            /\ sess'[r].building = sess[r].building
                            /\ sess'[r].closing = sess[r].closing
                            /\ sess'[r].binaries = sess[r].binaries
                            /\ sess'[r].owned = sess[r].owned
    BY <2>3, <2>4
  <2> HIDE DEF q
  <2> QED BY <1>0, <2>1, <2>2, <2>5, <2>6, <2>7, <2>8, <2>9, CloseOwnStep
<1> QED BY <1>1, <1>2, <1>3, <1>4 DEF CloseStep

LEMMA OwnNext == TypeInv /\ TypeInv' /\ OwnInv /\ [Next]_vars => OwnInv'
<1> SUFFICES ASSUME TypeInv, TypeInv', OwnInv, [Next]_vars PROVE OwnInv'
  OBVIOUS
<1>1. CASE Edit \/ UNCHANGED vars
  BY <1>1, OwnSame DEF Edit, vars
<1>2. ASSUME NEW c \in Callers, Begin(c) \/ Step(c) PROVE OwnInv'
  BY <1>2, OwnBegin, OwnAsk, OwnRun, OwnClaim, OwnBuild, OwnPublish, OwnFinishTest,
     OwnFinishRecord DEF Step
<1>3. ASSUME NEW k \in Closers, CloseBegin(k) \/ CloseStep(k) PROVE OwnInv'
  BY <1>3, OwnClose
<1> QED BY <1>1, <1>2, <1>3 DEF Next

LEMMA OwnAlways == Spec => [](TypeInv /\ OwnInv)
<1>1. Init => TypeInv /\ OwnInv
  BY InitType, OwnInit
<1>2. TypeInv /\ OwnInv /\ [Next]_vars => TypeInv' /\ OwnInv'
  BY NextType, OwnNext
<1> QED BY <1>1, <1>2, PTL DEF Spec

\* No stampede: of the callers that ask one session for one test at most one compiles
\* for it or runs it, and at most one compiles a key, however the sources change.
THEOREM OneAtATime == Spec => []NoStampede
<1>1. TypeInv /\ OwnInv => NoStampede
  <2> SUFFICES ASSUME TypeInv, OwnInv, NEW c \in Callers, NEW d \in Callers, c # d,
                      SessionOf[c] = SessionOf[d]
               PROVE  /\ ~ /\ job[c].kind = "test" /\ job[d].kind = "test"
                           /\ job[c].test = job[d].test /\ {at[c], at[d]} \subseteq Making
                      /\ ~ /\ job[c].key = job[d].key
                           /\ {at[c], at[d]} \subseteq Compiling
    BY DEF NoStampede, Making, Compiling
  <2>1. CallerOwns(c) /\ CallerOwns(d)
    BY DEF OwnInv
  <2> QED BY <2>1 DEF CallerOwns
<1> QED BY <1>1, OwnAlways, PTL

\* The binary a caller is about to run, or runs, holds what was compiled for it: no
\* later compile of the package writes over the file.
THEOREM HeldBinariesStay == Spec => []HeldBinaryIsUntouched
<1>1. TypeInv /\ OwnInv => HeldBinaryIsUntouched
  BY DEF TypeInv, Equipped, OwnInv, CallerOwns, Holding, Runnable, InItsFile,
         HeldBinaryIsUntouched
<1> QED BY <1>1, OwnAlways, PTL

\* A caller never loses its files: the compile directory while it holds a binary, its
\* own directory while it records, both owned by its session until it has left.
THEOREM FilesOutliveTheirUsers == Spec => []UsersKeepTheirFiles
<1>1. TypeInv /\ OwnInv => UsersKeepTheirFiles
  <2> SUFFICES ASSUME TypeInv, OwnInv, NEW c \in Callers
               PROVE  /\ at[c] \in {"slot", "exec"} => Kept(SessionOf[c], CompileDir(SessionOf[c]))
                      /\ job[c].kind = "record" /\ at[c] \in Making => Kept(SessionOf[c], TempDir(c))
    BY DEF UsersKeepTheirFiles, Kept, Making
  <2>1. CallerOwns(c) /\ (at[c] \in {"slot", "exec"} => job[c].bin.file # 0)
    BY DEF OwnInv, TypeInv, Equipped
  <2> QED BY <2>1 DEF CallerOwns, Holding, Runnable
<1> QED BY <1>1, OwnAlways, PTL

\* No directory is orphaned: one that exists is owned by a session that a later Close
\* still finds, or its maker is about to register it.
THEOREM DirectoriesHaveOwners == Spec => []NothingIsOrphaned
<1>1. TypeInv /\ OwnInv => NothingIsOrphaned
  BY DEF OwnInv
<1> QED BY <1>1, OwnAlways, PTL
----------------------------------------------------------------------------
(* A released session has no verdict and no snapshot, nor has one being released. *)
Emptied(s) == sess[s].snapshot = Unknown /\ \A t \in Tests : sess[s].verdicts[t] = Unknown

ClearInv ==
    \A s \in Sessions :
        (s \notin live \/ \E k \in Closers : SessionOf[k] = s /\ at[k] = "remove") => Emptied(s)

(* A caller's step writes its own session, and that one is neither released nor being
   released. *)
LEMMA StepsStayInside ==
    ASSUME TypeInv, NEW c \in Callers, Begin(c) \/ Step(c)
    PROVE  /\ live' = live /\ \A k \in Closers : at'[k] = at[k]
           /\ sess' = sess \/ at[c] # "idle"
           /\ \A r \in Sessions \ {SessionOf[c]} : sess'[r] = sess[r]
<1>0. DOMAIN at = Callers \cup Closers /\ DOMAIN sess = Sessions /\ c \notin Closers
      /\ SessionOf[c] \in Sessions
  BY ConstantsAssumption DEF TypeInv, TypeOK
<1> DEFINE Goal == /\ live' = live /\ \A k \in Closers : at'[k] = at[k]
                   /\ sess' = sess \/ at[c] # "idle"
                   /\ \A r \in Sessions \ {SessionOf[c]} : sess'[r] = sess[r]
<1>1. CASE Begin(c) \/ Return(c) \/ HashInputs(c) \/ MakeTempDir(c) \/ Shared(c) \/ HashKey(c)
           \/ GiveUp(c) \/ TakeSlot(c) \/ Exec(c)
  BY <1>0, <1>1 DEF Begin, Return, HashInputs, MakeTempDir, Shared, HashKey, GiveUp, TakeSlot,
                    Exec, Go, Answer
<1>2. CASE LockSnapshot(c) \/ LookupVerdict(c) \/ LookupNothing(c) \/ LookupSnapshot(c)
           \/ OwnTempDir(c)
  BY <1>0, <1>2 DEF LockSnapshot, LookupVerdict, LookupNothing, LookupSnapshot, OwnTempDir,
                    Go, Answer
<1>3. CASE TakeFlight(c) \/ LookupBinary(c) \/ TakeCompile(c) \/ Build(c) \/ StoreBinary(c)
  BY <1>0, <1>3 DEF TakeFlight, LookupBinary, TakeCompile, Build, StoreBinary, Go, Answer,
                    Compiled
<1>4. CASE PublishBinary(c) \/ FinishTest(c)
  BY <1>0, <1>4, ConstantsAssumption DEF PublishBinary, FinishTest, Joined, Waiting
<1>5. CASE FinishRecord(c) \/ FinishCollect(c)
  BY <1>0, <1>5 DEF FinishRecord, FinishCollect, Go
<1> QED BY <1>1, <1>2, <1>3, <1>4, <1>5 DEF Step

LEMMA ClearNext ==
    ASSUME TypeInv, OwnInv, ClearInv, [Next]_vars
    PROVE  ClearInv' /\ live' \subseteq live
<1>s. \A p \in Callers \cup Closers : SessionOf[p] \in Sessions
  BY ConstantsAssumption
<1>1. CASE Edit \/ UNCHANGED vars
  BY <1>1 DEF Edit, vars, ClearInv, Emptied
<1>2. ASSUME NEW c \in Callers, Begin(c) \/ Step(c) PROVE ClearInv' /\ live' \subseteq live
  <2>1. /\ live' = live /\ \A k \in Closers : at'[k] = at[k]
        /\ sess' = sess \/ at[c] # "idle"
        /\ \A r \in Sessions \ {SessionOf[c]} : sess'[r] = sess[r]
    BY <1>2, StepsStayInside
  <2>2. at[c] # "idle" => /\ SessionOf[c] \in live
                          /\ \A k \in Closers : SessionOf[k] = SessionOf[c] => at[k] # "remove"
    BY DEF OwnInv, CallerOwns, CloserOwns
  <2> QED BY <1>s, <2>1, <2>2 DEF ClearInv, Emptied
<1>3. ASSUME NEW k \in Closers, CloseBegin(k) \/ CloseStep(k)
      PROVE  ClearInv' /\ live' \subseteq live
  <2> DEFINE s == SessionOf[k]
  <2>0. DOMAIN at = Callers \cup Closers /\ DOMAIN sess = Sessions /\ s \in Sessions
        /\ sess[s] \in Fields
    BY <1>s DEF TypeInv, TypeOK
  <2>1. /\ \A r \in Sessions \ {s} : sess'[r] = sess[r]
        /\ \A p \in Closers \ {k} : at'[p] = at[p]
    BY <1>3, <2>0 DEF CloseBegin, CloseStep, CloseClear, CloseRemove, CloseEnd, Go
  <2>2. CASE CloseClear(k)
    <3>1. Emptied(s)' /\ live' = live
      <4>1. sess'[s] = [sess[s] EXCEPT !.binaries = [h \in Hashes |-> NoBinary],
                                       !.verdicts = [t \in Tests |-> Unknown],
                                       !.snapshot = Unknown, !.lastHash = NoHash]
        BY <2>0, <2>2 DEF CloseClear
      <4> QED BY <2>0, <2>2, <4>1 DEF Emptied, Fields, CloseClear, Unknown
    <3> QED BY <1>s, <2>1, <3>1 DEF ClearInv, Emptied
  <2>3. CASE CloseBegin(k) \/ CloseRemove(k) \/ CloseEnd(k)
    <3>1. sess'[s].snapshot = sess[s].snapshot /\ sess'[s].verdicts = sess[s].verdicts
      <4>1. CASE CloseBegin(k)
        BY <2>0, <4>1 DEF CloseBegin, Fields
      <4>2. CASE CloseRemove(k)
        <5>1. PICK q : sess'[s] = sess[s] \/ sess'[s] = [sess[s] EXCEPT !.owned = @ \ {q}]
          BY <2>0, <4>2 DEF CloseRemove
        <5> QED BY <2>0, <5>1 DEF Fields
      <4>3. CASE CloseEnd(k)
        BY <2>0, <4>3 DEF CloseEnd, Fields
      <4> QED BY <2>3, <4>1, <4>2, <4>3
    <3>2. /\ live' \subseteq live /\ \A r \in Sessions \ {s} : r \in live => r \in live'
          /\ at'[k] = "remove" \/ live' # live => at[k] = "remove"
      BY <2>0, <2>3 DEF CloseBegin, CloseRemove, CloseEnd, Go
    <3> QED BY <1>s, <2>0, <2>1, <3>1, <3>2 DEF ClearInv, Emptied
  <2> QED BY <1>3, <2>2, <2>3 DEF CloseStep
<1> QED BY <1>1, <1>2, <1>3 DEF Next

\* Release is final: once Close has forgotten a session it is never registered again,
\* nobody uses it, it owns no directory and answers from no cache.
THEOREM ReleaseIsFinal == Spec => ReleasedIsFinal
<1>1. Init => ClearInv
  BY DEF Init, NewSession, ClearInv, Emptied
<1>2. TypeInv /\ OwnInv /\ ClearInv /\ [Next]_vars => ClearInv'
  BY ClearNext
<1>3. TypeInv /\ OwnInv /\ ClearInv /\ OwnInv' /\ ClearInv' /\ [Next]_vars =>
          [\A s \in Sessions : s \notin live =>
              /\ s \notin live' /\ UsersOf(s)' = {} /\ sess'[s].owned = {}
              /\ sess'[s].snapshot = Unknown
              /\ \A t \in Tests : sess'[s].verdicts[t] = Unknown]_vars
  <2> SUFFICES ASSUME TypeInv, OwnInv, ClearInv, OwnInv', ClearInv', [Next]_vars,
                      NEW s \in Sessions, s \notin live
               PROVE  /\ s \notin live' /\ UsersOf(s)' = {} /\ sess'[s].owned = {}
                      /\ sess'[s].snapshot = Unknown
                      /\ \A t \in Tests : sess'[s].verdicts[t] = Unknown
    OBVIOUS
  <2>1. s \notin live'
    BY ClearNext
  <2>2. \A c \in Callers : at'[c] # "idle" => SessionOf[c] # s
    BY <2>1 DEF OwnInv, CallerOwns
  <2>3. sess'[s].owned = {}
    BY <2>1 DEF OwnInv, SessionOwns
  <2>4. Emptied(s)'
    BY <2>1 DEF ClearInv
  <2> QED BY <2>1, <2>2, <2>3, <2>4 DEF UsersOf, Emptied, Unknown
<1> QED BY <1>1, <1>2, <1>3, OwnAlways, PTL DEF Spec, ReleasedIsFinal
=============================================================================
