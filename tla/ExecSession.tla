---------------------------- MODULE ExecSession ----------------------------
(***************************************************************************)
(* The execution sessions of internal/gate: goroutines that ask a session  *)
(* for the verdict of a verified_by test, share compiled binaries and      *)
(* verdicts through two single-flight tables, run at most Slots test       *)
(* processes across all sessions, and own temporary directories that Close *)
(* removes once every user has left.  The sources change under them.       *)
(*                                                                         *)
(* All tests are of one package, so one hash covers them.  Source content  *)
(* is abstracted to the generation that wrote it: Hash[g] is the content   *)
(* hash of generation g.  A verdict or a binary is the generation of the   *)
(* bytes it was made from, 0 standing for an infrastructure error (the     *)
(* code's Err); a compile failure is a verdict with no binary (file = 0).  *)
(***************************************************************************)
EXTENDS Integers, FiniteSets

CONSTANTS
    Sessions, Callers, Closers,
    SessionOf,      \* the session each caller and each closer works on
    Kinds,          \* the entry points the callers use: "test", "record", "collect"
    Tests,          \* the test names of the package
    MaxGen,         \* bound on source edits
    Hash,           \* generation -> content hash
    Slots,          \* capacity of globalExecSlots
    MaxCalls,       \* bound on calls per caller and on Close calls per closer
    Faults,         \* which of "build", "wait", "exec", "remove" may fail
    NoHash, Nobody

Gens == 1..MaxGen
Hashes == {Hash[g] : g \in Gens}
CompileDir(s) == <<s, 0>>                         \* hotam-compile-*
Dirs == (Sessions \cup Callers) \X (0..MaxCalls)
MaxFile == MaxCalls * Cardinality(Callers)
NoBinary == [file |-> 0, gen |-> 0]
Binaries == [file : 0..MaxFile, gen : 0..MaxGen]

ASSUME ConstantsAssumption ==
    /\ SessionOf \in [Callers \cup Closers -> Sessions]
    /\ Kinds \subseteq {"test", "record", "collect"}
    /\ MaxGen \in Nat \ {0}
    /\ MaxCalls \in Nat
    /\ Slots \in Nat
    /\ IsFiniteSet(Callers)
    /\ DOMAIN Hash = Gens
    /\ NoHash \notin Hashes
    /\ Nobody \notin Callers \cup Closers
    /\ Callers \cap Closers = {} /\ Sessions \cap Callers = {}
    /\ Tests # {}

VARIABLES
    src,        \* the generation of the sources on disk
    disk,       \* the temporary directories that exist
    image,      \* file number of a compiled binary -> the generation in it
    seq,        \* compileBinarySeq
    slots,      \* the callers holding an execution slot
    live,       \* executionSessions: the registered owners
    sess,       \* session -> its fields (see Fields)
    at,         \* caller or closer -> the step it is at
    job,        \* caller -> the call it is making (see Jobs)
    calls,      \* caller or closer -> calls made so far
    left        \* closer -> the owned paths it has yet to try to remove

vars == <<src, disk, image, seq, slots, live, sess, at, job, calls, left>>

\* The fields of ExecutionSession that outlive a step.
Fields ==
    [closing  : BOOLEAN,
     owned    : SUBSET Dirs,
     binaries : [Hashes -> Binaries],             \* compileCache, NoBinary where absent
     building : [Hashes -> Callers \cup {Nobody}],\* compileInFlight: who compiles the key
     lastHash : Hashes \cup {NoHash},             \* compileModuleHash
     verdicts : [Tests -> [hash : Hashes \cup {NoHash}, gen : 0..MaxGen]], \* runCache
     running  : [Tests -> Callers \cup {Nobody}], \* inFlightCalls: who runs the key
     snapMu   : Callers \cup {Nobody},            \* the holder of snapshotMu
     snapshot : [hash : Hashes \cup {NoHash}, gen : 0..MaxGen],
     closeMu  : Closers \cup {Nobody}]

\* One call.  start: the generation when it was made; hash: what hashPackageInputs
\* returned; key: the hash of the compile key; got: what the caller it waits for left.
Jobs ==
    [kind  : {"test", "record", "collect"}, test : Tests, start : 0..MaxGen,
     hash  : Hashes \cup {NoHash}, key : Hashes \cup {NoHash},
     bin   : Binaries, res : 0..MaxGen,
     got   : [hash : Hashes \cup {NoHash}, gen : 0..MaxGen]]

Unknown == [hash |-> NoHash, gen |-> 0]

NewSession ==
    [closing |-> FALSE, owned |-> {}, binaries |-> [h \in Hashes |-> NoBinary],
     building |-> [h \in Hashes |-> Nobody], lastHash |-> NoHash,
     verdicts |-> [t \in Tests |-> Unknown], running |-> [t \in Tests |-> Nobody],
     snapMu |-> Nobody, snapshot |-> Unknown, closeMu |-> Nobody]

NewJob(kind, t, start) ==
    [kind |-> kind, test |-> t, start |-> start, hash |-> NoHash, key |-> NoHash,
     bin |-> NoBinary, res |-> 0, got |-> Unknown]
NoJob == NewJob("test", CHOOSE t \in Tests : TRUE, 0)

Init ==
    /\ src = 1 /\ disk = {} /\ image = [f \in 1..MaxFile |-> 0] /\ seq = 0
    /\ slots = {} /\ live = Sessions
    /\ sess = [s \in Sessions |-> NewSession]
    /\ at = [p \in Callers \cup Closers |-> "idle"]
    /\ job = [c \in Callers |-> NoJob]
    /\ calls = [p \in Callers \cup Closers |-> 0]
    /\ left = [k \in Closers |-> {}]

----------------------------------------------------------------------------
TempDir(c) == <<c, calls[c]>>                     \* MkdirTemp: a fresh name per call
UsersOf(s) == {c \in Callers : SessionOf[c] = s /\ at[c] # "idle"}
Go(p, step) == at' = [at EXCEPT ![p] = step]

\* Return to the caller with a result: users.Done has still to run.
Answer(c, gen) ==
    /\ Go(c, "return")
    /\ job' = [job EXCEPT ![c].res = gen]

----------------------------------------------------------------------------
(* The sources *)

Edit ==
    /\ src < MaxGen
    /\ src' = src + 1
    /\ UNCHANGED <<disk, image, seq, slots, live, sess, at, job, calls, left>>

----------------------------------------------------------------------------
(* Entering and leaving a session *)

\* begin(): refused once Close has set closing.
Begin(c) ==
    /\ at[c] = "idle"
    /\ calls[c] < MaxCalls
    /\ calls' = [calls EXCEPT ![c] = @ + 1]
    /\ \E kind \in Kinds, t \in Tests :
          IF sess[SessionOf[c]].closing
          THEN UNCHANGED <<at, job>>
          ELSE /\ job' = [job EXCEPT ![c] = NewJob(kind, t, src)]
               /\ Go(c, IF kind = "collect" THEN "snapLock" ELSE "hash")
    /\ UNCHANGED <<src, disk, image, seq, slots, live, sess, left>>

Return(c) ==
    /\ at[c] = "return"
    /\ Go(c, "idle")
    /\ job' = [job EXCEPT ![c] = NoJob]
    /\ UNCHANGED <<src, disk, image, seq, slots, live, sess, calls, left>>

LockSnapshot(c) ==
    LET s == SessionOf[c] IN
    /\ at[c] = "snapLock"
    /\ sess[s].snapMu = Nobody
    /\ sess' = [sess EXCEPT ![s].snapMu = c]
    /\ Go(c, "hash")
    /\ UNCHANGED <<src, disk, image, seq, slots, live, job, calls, left>>

----------------------------------------------------------------------------
(* What the call is about: hash the inputs, look for an answer *)

\* hashPackageInputs (hashExecutionInputs for a snapshot).
HashInputs(c) ==
    /\ at[c] = "hash"
    /\ Go(c, "lookup")
    /\ job' = [job EXCEPT ![c].hash = Hash[src]]
    /\ UNCHANGED <<src, disk, image, seq, slots, live, sess, calls, left>>

\* syncCompileCacheToHash: a different hash than the last one seen empties the cache.
Synced(fields, h) ==
    [fields EXCEPT
        !.binaries = IF fields.lastHash \in {NoHash, h} THEN @ ELSE [k \in Hashes |-> NoBinary],
        !.lastHash = h]

LookupVerdict(c) ==
    LET s == SessionOf[c]
        cached == sess[s].verdicts[job[c].test]
    IN  /\ at[c] = "lookup" /\ job[c].kind = "test"
        /\ sess' = [sess EXCEPT ![s] = Synced(@, job[c].hash)]
        /\ IF cached.hash = job[c].hash
           THEN Answer(c, cached.gen)
           ELSE Go(c, "flight") /\ UNCHANGED job
        /\ UNCHANGED <<src, disk, image, seq, slots, live, calls, left>>

\* The recording path has no verdict cache: sync, then a directory of its own.
LookupNothing(c) ==
    /\ at[c] = "lookup" /\ job[c].kind = "record"
    /\ sess' = [sess EXCEPT ![SessionOf[c]] = Synced(@, job[c].hash)]
    /\ Go(c, "mkdir")
    /\ UNCHANGED <<src, disk, image, seq, slots, live, job, calls, left>>

LookupSnapshot(c) ==
    LET s == SessionOf[c] IN
    /\ at[c] = "lookup" /\ job[c].kind = "collect"
    /\ IF sess[s].snapshot.hash = job[c].hash
       THEN /\ Answer(c, sess[s].snapshot.gen)
            /\ sess' = [sess EXCEPT ![s].snapMu = Nobody]
       ELSE Go(c, "key") /\ UNCHANGED <<job, sess>>
    /\ UNCHANGED <<src, disk, image, seq, slots, live, calls, left>>

MakeTempDir(c) ==
    /\ at[c] = "mkdir"
    /\ disk' = disk \cup {TempDir(c)}
    /\ Go(c, "own")
    /\ UNCHANGED <<src, image, seq, slots, live, sess, job, calls, left>>

OwnTempDir(c) ==
    /\ at[c] = "own"
    /\ sess' = [sess EXCEPT ![SessionOf[c]].owned = @ \cup {TempDir(c)}]
    /\ Go(c, "key")
    /\ UNCHANGED <<src, disk, image, seq, slots, live, job, calls, left>>

----------------------------------------------------------------------------
(* singleflightRun: one execution per test at a time *)

\* Variant: the table of running tests is written, not read.
TakeFlight_Alone(c) ==
    LET s == SessionOf[c]
        t == job[c].test
    IN  /\ at[c] = "flight"
        /\ sess' = [sess EXCEPT ![s].running[t] = c]
        /\ Go(c, "key")
        /\ UNCHANGED <<src, disk, image, seq, slots, live, job, calls, left>>

TakeFlight(c) ==
    LET s == SessionOf[c]
        t == job[c].test
        cached == sess[s].verdicts[t]
    IN  /\ at[c] = "flight"
        /\ \/ /\ cached.hash = job[c].hash
              /\ Answer(c, cached.gen)
              /\ UNCHANGED sess
           \/ /\ cached.hash # job[c].hash
              /\ sess[s].running[t] # Nobody
              /\ Go(c, "await")
              /\ UNCHANGED <<job, sess>>
           \/ /\ cached.hash # job[c].hash
              /\ sess[s].running[t] = Nobody
              /\ sess' = [sess EXCEPT ![s].running[t] = c]
              /\ Go(c, "key")
              /\ UNCHANGED job
        /\ UNCHANGED <<src, disk, image, seq, slots, live, calls, left>>

\* Variant: any finished execution of the test is shared.
Shared_AnyHash(c) ==
    /\ at[c] = "awake"
    /\ Answer(c, job[c].got.gen)
    /\ UNCHANGED <<src, disk, image, seq, slots, live, sess, calls, left>>

\* <-existing.done: the same hash shares the result, another one starts over.
Shared(c) ==
    /\ at[c] = "awake"
    /\ IF job[c].got.hash = job[c].hash
       THEN Answer(c, job[c].got.gen)
       ELSE Go(c, "flight") /\ UNCHANGED job
    /\ UNCHANGED <<src, disk, image, seq, slots, live, sess, calls, left>>

----------------------------------------------------------------------------
(* compileTestBinary *)

\* It hashes the inputs again.
HashKey(c) ==
    /\ at[c] = "key"
    /\ job' = [job EXCEPT ![c].key = Hash[src]]
    /\ Go(c, "cache")
    /\ UNCHANGED <<src, disk, image, seq, slots, live, sess, calls, left>>

\* What follows a binary: the slot, or the end when there is none to run.
Compiled(c, bin) ==
    /\ job' = [job EXCEPT ![c].bin = bin, ![c].res = IF bin.file = 0 THEN bin.gen ELSE 0]
    /\ Go(c, IF bin.file = 0 THEN "finish" ELSE "slot")

LookupBinary(c) ==
    LET s == SessionOf[c]
        synced == Synced(sess[s], job[c].key)
    IN  /\ at[c] = "cache"
        /\ sess' = [sess EXCEPT ![s] = synced]
        /\ IF synced.binaries[job[c].key] # NoBinary
           THEN Compiled(c, synced.binaries[job[c].key])
           ELSE Go(c, "compile") /\ UNCHANGED job
        /\ UNCHANGED <<src, disk, image, seq, slots, live, calls, left>>

TakeCompile(c) ==
    LET s == SessionOf[c]
        h == job[c].key
    IN  /\ at[c] = "compile"
        /\ \/ /\ sess[s].binaries[h] # NoBinary
              /\ Compiled(c, sess[s].binaries[h])
              /\ UNCHANGED sess
           \/ /\ sess[s].binaries[h] = NoBinary /\ sess[s].building[h] # Nobody
              /\ Go(c, "join")
              /\ UNCHANGED <<job, sess>>
           \/ /\ sess[s].binaries[h] = NoBinary /\ sess[s].building[h] = Nobody
              /\ sess' = [sess EXCEPT ![s].building[h] = c]
              /\ Go(c, "build")
              /\ UNCHANGED job
        /\ UNCHANGED <<src, disk, image, seq, slots, live, calls, left>>

\* Variants: one name per package; the number after the next.
BinaryName_Fixed(n) == 1
BinaryName_Off(n) == n + 1

\* compileBinaryName: the sequence number makes every output file a new one.
BinaryName(n) == n

\* doCompileTestBinary.  A compile error is a result; a timeout or a go command
\* that cannot run is an error.
Build(c) ==
    LET s == SessionOf[c]
        file == BinaryName(seq + 1)
    IN  /\ at[c] = "build"
        /\ seq < MaxFile
        /\ sess' = [sess EXCEPT ![s].owned = @ \cup {CompileDir(s)}]
        /\ disk' = disk \cup {CompileDir(s)}
        /\ seq' = seq + 1
        /\ \/ /\ image' = [image EXCEPT ![file] = src]
              /\ job' = [job EXCEPT ![c].bin = [file |-> file, gen |-> src]]
           \/ /\ job' = [job EXCEPT ![c].bin = [file |-> 0, gen |-> src]]
              /\ UNCHANGED image
           \/ /\ "build" \in Faults
              /\ job' = [job EXCEPT ![c].bin = NoBinary]
              /\ UNCHANGED image
        /\ Go(c, "store")
        /\ UNCHANGED <<src, slots, live, calls, left>>

StoreBinary(c) ==
    /\ at[c] = "store"
    /\ sess' = IF job[c].bin.gen = 0 THEN sess
               ELSE [sess EXCEPT ![SessionOf[c]].binaries[job[c].key] = job[c].bin]
    /\ Go(c, "publish")
    /\ UNCHANGED <<src, disk, image, seq, slots, live, job, calls, left>>

\* The callers that wait for the compile c made.
Joined(c) ==
    {w \in Callers : at[w] = "join" /\ SessionOf[w] = SessionOf[c] /\ job[w].key = job[c].key}

PublishBinary(c) ==
    LET bin == job[c].bin
        all == Joined(c) \cup {c}
    IN  /\ at[c] = "publish"
        /\ sess' = [sess EXCEPT ![SessionOf[c]].building[job[c].key] = Nobody]
        /\ at' = [p \in DOMAIN at |-> IF p \notin all THEN at[p]
                                      ELSE IF bin.file = 0 THEN "finish" ELSE "slot"]
        /\ job' = [w \in Callers |-> IF w \notin all THEN job[w]
                                     ELSE [job[w] EXCEPT !.bin = bin,
                                             !.res = IF bin.file = 0 THEN bin.gen ELSE 0]]
        /\ UNCHANGED <<src, disk, image, seq, slots, live, calls, left>>

\* waitCtx expires while waiting for another caller's compile or for a slot.
GiveUp(c) ==
    /\ "wait" \in Faults
    /\ at[c] \in {"join", "slot"}
    /\ job' = [job EXCEPT ![c].res = 0]
    /\ Go(c, "finish")
    /\ UNCHANGED <<src, disk, image, seq, slots, live, sess, calls, left>>

----------------------------------------------------------------------------
(* The execution *)

TakeSlot(c) ==
    /\ at[c] = "slot"
    /\ Cardinality(slots) < Slots
    /\ slots' = slots \cup {c}
    /\ Go(c, "exec")
    /\ UNCHANGED <<src, disk, image, seq, live, sess, job, calls, left>>

\* Variant: the slot is only given back after a result.
Exec_LeaksSlot(c) ==
    /\ at[c] = "exec"
    /\ \/ job' = [job EXCEPT ![c].res = image[job[c].bin.file]] /\ slots' = slots \ {c}
       \/ /\ "exec" \in Faults
          /\ job' = [job EXCEPT ![c].res = 0]
          /\ UNCHANGED slots
    /\ Go(c, "finish")
    /\ UNCHANGED <<src, disk, image, seq, live, sess, calls, left>>

\* The test process ends, or its deadline does; the deferred release frees the slot.
Exec(c) ==
    /\ at[c] = "exec"
    /\ slots' = slots \ {c}
    /\ \/ job' = [job EXCEPT ![c].res = image[job[c].bin.file]]
       \/ "exec" \in Faults /\ job' = [job EXCEPT ![c].res = 0]
    /\ Go(c, "finish")
    /\ UNCHANGED <<src, disk, image, seq, live, sess, calls, left>>

\* The callers that wait for the execution c made.
Waiting(c) ==
    {w \in Callers : at[w] = "await" /\ SessionOf[w] = SessionOf[c] /\ job[w].test = job[c].test}

\* The end of singleflightRun for its leader: an error is shared with the waiters
\* but not kept.
FinishTest(c) ==
    LET s == SessionOf[c]
        t == job[c].test
        entry == [hash |-> job[c].hash, gen |-> job[c].res]
    IN  /\ at[c] = "finish" /\ job[c].kind = "test"
        /\ sess' = [sess EXCEPT ![s].running[t] = Nobody,
                                ![s].verdicts[t] = IF entry.gen = 0 THEN @ ELSE entry]
        /\ at' = [p \in DOMAIN at |-> IF p = c THEN "return"
                                      ELSE IF p \in Waiting(c) THEN "awake" ELSE at[p]]
        /\ job' = [w \in Callers |-> IF w \in Waiting(c) THEN [job[w] EXCEPT !.got = entry]
                                     ELSE job[w]]
        /\ UNCHANGED <<src, disk, image, seq, slots, live, calls, left>>

\* The deferred removeOwnedPath: a directory that stays keeps its owner, and the
\* call reports the error.
FinishRecord(c) ==
    LET s == SessionOf[c] IN
    /\ at[c] = "finish" /\ job[c].kind = "record"
    /\ \/ /\ disk' = disk \ {TempDir(c)}
          /\ sess' = [sess EXCEPT ![s].owned = @ \ {TempDir(c)}]
          /\ UNCHANGED job
       \/ /\ "remove" \in Faults
          /\ job' = [job EXCEPT ![c].res = 0]
          /\ UNCHANGED <<disk, sess>>
    /\ Go(c, "return")
    /\ UNCHANGED <<src, image, seq, slots, live, calls, left>>

\* Variants: the inputs are not hashed again; the lock is kept on refusal.
FinishCollect_Unconfirmed(c) ==
    LET s == SessionOf[c] IN
    /\ at[c] = "finish" /\ job[c].kind = "collect"
    /\ sess' = [sess EXCEPT ![s].snapMu = Nobody,
                     ![s].snapshot = [hash |-> job[c].hash, gen |-> job[c].res]]
    /\ Go(c, "return")
    /\ UNCHANGED <<src, disk, image, seq, slots, live, job, calls, left>>
FinishCollect_KeepsLock(c) ==
    LET s == SessionOf[c] IN
    /\ at[c] = "finish" /\ job[c].kind = "collect"
    /\ IF Hash[src] = job[c].hash
       THEN /\ sess' = [sess EXCEPT ![s].snapMu = Nobody,
                            ![s].snapshot = [hash |-> job[c].hash, gen |-> job[c].res]]
            /\ UNCHANGED job
       ELSE /\ job' = [job EXCEPT ![c].res = 0]
            /\ UNCHANGED sess
    /\ Go(c, "return")
    /\ UNCHANGED <<src, disk, image, seq, slots, live, calls, left>>

\* The end of the snapshot: the inputs must still hash to what they did.  A run
\* that ended in an error is in the snapshot as such.
FinishCollect(c) ==
    LET s == SessionOf[c] IN
    /\ at[c] = "finish" /\ job[c].kind = "collect"
    /\ IF Hash[src] = job[c].hash
       THEN /\ sess' = [sess EXCEPT ![s].snapMu = Nobody,
                            ![s].snapshot = [hash |-> job[c].hash, gen |-> job[c].res]]
            /\ UNCHANGED job
       ELSE /\ sess' = [sess EXCEPT ![s].snapMu = Nobody]
            /\ job' = [job EXCEPT ![c].res = 0]
    /\ Go(c, "return")
    /\ UNCHANGED <<src, disk, image, seq, slots, live, calls, left>>

----------------------------------------------------------------------------
(* Close *)

\* closeMu, then closing under mu.
CloseBegin(k) ==
    LET s == SessionOf[k] IN
    /\ at[k] = "idle"
    /\ calls[k] < MaxCalls
    /\ sess[s].closeMu = Nobody
    /\ calls' = [calls EXCEPT ![k] = @ + 1]
    /\ sess' = [sess EXCEPT ![s].closeMu = k, ![s].closing = TRUE]
    /\ Go(k, "wait")
    /\ UNCHANGED <<src, disk, image, seq, slots, live, job, left>>

\* Variant: the users are not waited for.
CloseClear_NoWait(k) ==
    LET s == SessionOf[k] IN
    /\ at[k] = "wait"
    /\ sess' = [sess EXCEPT ![s].binaries = [h \in Hashes |-> NoBinary],
                            ![s].verdicts = [t \in Tests |-> Unknown],
                            ![s].snapshot = Unknown, ![s].lastHash = NoHash]
    /\ left' = [left EXCEPT ![k] = sess[s].owned]
    /\ Go(k, "remove")
    /\ UNCHANGED <<src, disk, image, seq, slots, live, job, calls>>

\* users.Wait, the caches are cleared, the owned paths listed.
CloseClear(k) ==
    LET s == SessionOf[k] IN
    /\ at[k] = "wait"
    /\ UsersOf(s) = {}
    /\ sess' = [sess EXCEPT ![s].binaries = [h \in Hashes |-> NoBinary],
                            ![s].verdicts = [t \in Tests |-> Unknown],
                            ![s].snapshot = Unknown, ![s].lastHash = NoHash]
    /\ left' = [left EXCEPT ![k] = sess[s].owned]
    /\ Go(k, "remove")
    /\ UNCHANGED <<src, disk, image, seq, slots, live, job, calls>>

CloseRemove(k) ==
    LET s == SessionOf[k] IN
    /\ at[k] = "remove"
    /\ \E path \in left[k] :
          /\ left' = [left EXCEPT ![k] = @ \ {path}]
          /\ \/ /\ disk' = disk \ {path}
                /\ sess' = [sess EXCEPT ![s].owned = @ \ {path}]
             \/ /\ "remove" \in Faults
                /\ UNCHANGED <<disk, sess>>
    /\ UNCHANGED <<src, image, seq, slots, live, at, job, calls>>

\* Variant: the session is forgotten whatever could not be removed.
CloseEnd_Forgets(k) ==
    LET s == SessionOf[k] IN
    /\ at[k] = "remove" /\ left[k] = {}
    /\ live' = live \ {s}
    /\ sess' = [sess EXCEPT ![s].closeMu = Nobody]
    /\ Go(k, "idle")
    /\ UNCHANGED <<src, disk, image, seq, slots, job, calls, left>>

\* With nothing left owned the session is forgotten; otherwise a later Close retries.
CloseEnd(k) ==
    LET s == SessionOf[k] IN
    /\ at[k] = "remove" /\ left[k] = {}
    /\ live' = IF sess[s].owned = {} THEN live \ {s} ELSE live
    /\ sess' = [sess EXCEPT ![s].closeMu = Nobody]
    /\ Go(k, "idle")
    /\ UNCHANGED <<src, disk, image, seq, slots, job, calls, left>>

----------------------------------------------------------------------------
\* What a call does by itself once begun.
Step(c) ==
    \/ Return(c) \/ LockSnapshot(c) \/ HashInputs(c)
    \/ LookupVerdict(c) \/ LookupNothing(c) \/ LookupSnapshot(c)
    \/ MakeTempDir(c) \/ OwnTempDir(c)
    \/ TakeFlight(c) \/ Shared(c)
    \/ HashKey(c) \/ LookupBinary(c) \/ TakeCompile(c)
    \/ Build(c) \/ StoreBinary(c) \/ PublishBinary(c) \/ GiveUp(c)
    \/ TakeSlot(c) \/ Exec(c)
    \/ FinishTest(c) \/ FinishRecord(c) \/ FinishCollect(c)

CloseStep(k) == CloseClear(k) \/ CloseRemove(k) \/ CloseEnd(k)

Next ==
    \/ Edit
    \/ \E c \in Callers : Begin(c) \/ Step(c)
    \/ \E k \in Closers : CloseBegin(k) \/ CloseStep(k)

Spec == Init /\ [][Next]_vars

\* Every goroutine that has begun runs on, every started Close too; nobody has to
\* call, to close or to edit.
FairSpec ==
    /\ Spec
    /\ \A c \in Callers : WF_vars(Step(c))
    /\ \A k \in Closers : WF_vars(CloseStep(k))

----------------------------------------------------------------------------
(* Properties *)

Steps == {"idle", "snapLock", "hash", "lookup", "flight", "await", "awake", "mkdir", "own",
          "key", "cache", "compile", "join", "build", "store", "publish", "slot", "exec",
          "finish", "return"}

TypeOK ==
    /\ src \in Gens
    /\ disk \subseteq Dirs
    /\ image \in [1..MaxFile -> 0..MaxGen]
    /\ seq \in 0..MaxFile
    /\ slots \subseteq Callers
    /\ live \subseteq Sessions
    /\ sess \in [Sessions -> Fields]
    /\ at \in [Callers \cup Closers -> Steps \cup {"wait", "remove"}]
    /\ job \in [Callers -> Jobs]
    /\ calls \in [Callers \cup Closers -> 0..MaxCalls]
    /\ left \in [Closers -> SUBSET Dirs]

\* No goroutine loses its files under its feet: while a caller holds a compiled
\* binary the session's compile directory exists, while it records its own
\* directory does, and the session owns both (execution_session.go:18-19, Close
\* waits for existing users before it releases anything).
UsersKeepTheirFiles ==
    \A c \in Callers :
        LET s == SessionOf[c]
            Held(path) == path \in disk /\ path \in sess[s].owned
        IN  /\ at[c] \in {"slot", "exec"} => Held(CompileDir(s))
            /\ (job[c].kind = "record"
                 /\ at[c] \in {"key", "cache", "compile", "join", "build", "store",
                               "publish", "slot", "exec", "finish"}) => Held(TempDir(c))

\* No directory is orphaned: whatever is on disk is owned by a session that a later
\* CloseExecutionSessions still finds, or is being registered by its maker
\* (execution_session.go:95-96, failed deletions retain ownership).
NothingIsOrphaned ==
    \A path \in disk :
        \/ \E s \in live : path \in sess[s].owned
        \/ \E c \in Callers : at[c] = "own" /\ path = TempDir(c) /\ SessionOf[c] \in live

\* The binary a test process runs is the one that was compiled for it: no later
\* compile of the same package writes over a file somebody still holds
\* (compile_cache.go:145-146).
HeldBinaryIsUntouched ==
    \A c \in Callers :
        at[c] \in {"slot", "exec"} => image[job[c].bin.file] = job[c].bin.gen

\* No caller is told a verdict on sources older than those on disk when it called
\* (test_exec_slots.go:23-24, a changed hash never shares an older run's verdict).
VerdictIsNotOlder ==
    \A c \in Callers : at[c] = "return" /\ job[c].res # 0 => job[c].res >= job[c].start

\* A kept snapshot is of the content it is filed under, though the sources may have
\* changed while its packages ran (execution_session.go:263-270).
SnapshotIsOfItsKey ==
    \A s \in Sessions :
        sess[s].snapshot.gen # 0 => Hash[sess[s].snapshot.gen] = sess[s].snapshot.hash

\* No stampede: of the callers asking one session for one test, at most one is
\* compiling for it or running it, whatever the sources did meanwhile, and at most
\* one compiles a given key (test_exec.go:449-463, compile_cache.go:72-93).
NoStampede ==
    \A c, d \in Callers : c # d /\ SessionOf[c] = SessionOf[d] =>
        /\ ~ /\ job[c].kind = "test" /\ job[d].kind = "test" /\ job[c].test = job[d].test
             /\ {at[c], at[d]} \subseteq {"key", "cache", "compile", "join", "build", "store",
                                          "publish", "slot", "exec", "finish"}
        /\ ~ /\ job[c].key = job[d].key
             /\ {at[c], at[d]} \subseteq {"build", "store", "publish"}

\* Every call comes back: nobody waits for ever on another caller's compile, on its
\* execution, on a slot or on the snapshot lock.
CallsReturn == \A c \in Callers : at[c] # "idle" ~> at[c] = "idle"

\* A started Close ends: the users it waits for leave and no new one enters.
CloseReturns == \A k \in Closers : at[k] # "idle" ~> at[k] = "idle"

\* A released session answers nothing any more: once Close has forgotten it no step
\* puts a user, a directory or a cached verdict back into it.
ReleasedIsFinal ==
    [][\A s \in Sessions : s \notin live =>
          /\ s \notin live' /\ UsersOf(s)' = {} /\ sess'[s].owned = {}
          /\ sess'[s].snapshot = Unknown
          /\ \A t \in Tests : sess'[s].verdicts[t] = Unknown]_vars
============================================================================
