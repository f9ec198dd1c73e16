---------------------------- MODULE FixtureCache ----------------------------
(***************************************************************************)
(* The on-disk cache of test fixtures (src/internal/gate/fixture_cache.go). *)
(*                                                                         *)
(* A tree of files is published under the hash of its content: a process   *)
(* writes it into a private directory, adds the completeness marker, and   *)
(* renames the directory to the hash.  Whoever finds a marker uses the     *)
(* directory it stands in and refreshes the marker.  Now and then a call   *)
(* sweeps the cache and removes what was not asked for in a week, one file *)
(* at a time.  No lock is taken: processes meet only in the file system,   *)
(* and each can die between two calls it makes to it.                      *)
(*                                                                         *)
(* A directory keeps the identity of the private directory it began as: a  *)
(* removal under way follows the directory it has opened, whatever its     *)
(* name stands for by then.  A process sleeps less than a week: nothing    *)
(* grows old while a call that writes or uses it is under way (Age).       *)
(***************************************************************************)
EXTENDS Naturals

CONSTANTS
    Processes,
    Hashes,      \* the trees asked for, by the hash of their content
    Files,       \* the files of a tree
    Marker,      \* .hotamspec-fixture-complete
    Nothing,     \* no hash, no directory
    MaxCalls,    \* bound: calls made
    MaxCrashes   \* bound: processes that die

ASSUME FixtureAssumption ==
    /\ Marker \notin Files
    /\ Nothing \notin Hashes
    /\ Hashes \intersect Nat = {}
    /\ MaxCalls \in Nat /\ MaxCrashes \in Nat

VARIABLES
    dirs,     \* the cache: names to directories [id, files, old]
    pc,       \* where a process is
    key,      \* the hash it asks for
    call,     \* the number of its call, which names its private directory
    held,     \* the identity of the directory it has been handed
    sweep,    \* the names its sweep has yet to look at
    doomed,   \* the directory its sweep is removing: [name, id]
    calls, crashes,
    struck    \* history: the directories a sweep began to remove, [name, id]

vars == <<dirs, pc, key, call, held, sweep, doomed, calls, crashes, struck>>

Tree == Files \union {Marker}
Private(p) == call[p]
None == [name |-> Nothing, id |-> Nothing]

Drop(name) == [n \in DOMAIN dirs \ {name} |-> dirs[n]]
Renamed(from, to) ==
    [n \in (DOMAIN dirs \ {from}) \union {to} |-> IF n = to THEN dirs[from] ELSE dirs[n]]
Empty(id) == [id |-> id, files |-> {}, old |-> FALSE]

\* fixtureCachePublishedComplete
Complete(name) == name \in DOMAIN dirs /\ Marker \in dirs[name].files

Init ==
    /\ dirs = [n \in {} |-> Nothing]
    /\ pc = [p \in Processes |-> "idle"]
    /\ key = [p \in Processes |-> Nothing]
    /\ call = [p \in Processes |-> 0]
    /\ held = [p \in Processes |-> Nothing]
    /\ sweep = [p \in Processes |-> {}]
    /\ doomed = [p \in Processes |-> None]
    /\ calls = 0
    /\ crashes = 0
    /\ struck = {}

At(p, place) == pc[p] = place
Go(p, place) == pc' = [pc EXCEPT ![p] = place]

Leave(p) ==
    /\ Go(p, "idle")
    /\ key' = [key EXCEPT ![p] = Nothing]
    /\ held' = [held EXCEPT ![p] = Nothing]

-----------------------------------------------------------------------------
(* EnsureContentAddressedFixture *)

Ask(p, h) ==
    /\ At(p, "idle") /\ calls < MaxCalls
    /\ calls' = calls + 1 /\ call' = [call EXCEPT ![p] = calls']
    /\ key' = [key EXCEPT ![p] = h]
    /\ Go(p, IF Complete(h) THEN "hit" ELSE "make")
    /\ UNCHANGED <<dirs, held, sweep, doomed, crashes, struck>>

\* A call that fails stops its test; the deferred removal takes its private copy.
Fail(p) ==
    /\ At(p, "make") \/ At(p, "write") \/ At(p, "mark")
    /\ Leave(p)
    /\ dirs' = Drop(Private(p))
    /\ UNCHANGED <<sweep, doomed, call, calls, crashes, struck>>

MakeTemp(p) ==
    /\ At(p, "make")
    /\ dirs' = [n \in DOMAIN dirs \union {Private(p)} |->
                  IF n = Private(p) THEN Empty(n) ELSE dirs[n]]
    /\ Go(p, "write")
    /\ UNCHANGED <<key, held, sweep, doomed, call, calls, crashes, struck>>

WriteFile(p, f) ==
    /\ At(p, "write") /\ f \notin dirs[Private(p)].files
    /\ dirs' = [dirs EXCEPT ![Private(p)].files = @ \union {f}]
    /\ Go(p, IF Files \subseteq dirs'[Private(p)].files THEN "mark" ELSE "write")
    /\ UNCHANGED <<key, held, sweep, doomed, call, calls, crashes, struck>>

WriteMarker_First(p) ==
    /\ At(p, "mark") \/ At(p, "write")
    /\ dirs' = [dirs EXCEPT ![Private(p)].files = @ \union {Marker}]
    /\ Go(p, "rename")
    /\ UNCHANGED <<key, held, sweep, doomed, call, calls, crashes, struck>>

WriteMarker(p) ==
    /\ At(p, "mark")
    /\ dirs' = [dirs EXCEPT ![Private(p)].files = @ \union {Marker}]
    /\ Go(p, "rename")
    /\ UNCHANGED <<key, held, sweep, doomed, call, calls, crashes, struck>>

\* What stands at the name is handed out.  One call in twenty sweeps the
\* cache before it returns.
Deliver(p) ==
    /\ held' = [held EXCEPT ![p] = IF key[p] \in DOMAIN dirs' THEN dirs'[key[p]].id ELSE Nothing]
    /\ \/ Go(p, "using") /\ UNCHANGED sweep
       \/ Go(p, "sweep") /\ sweep' = [sweep EXCEPT ![p] = DOMAIN dirs']

\* os.Rename fails on a directory that exists, but can replace one that is
\* emptied between its two system calls.
Rename(p) ==
    /\ At(p, "rename")
    /\ \/ /\ key[p] \in DOMAIN dirs
          /\ Go(p, "lost")
          /\ UNCHANGED <<dirs, held, sweep>>
       \/ /\ key[p] \in DOMAIN dirs => dirs[key[p]].files = {}
          /\ dirs' = Renamed(Private(p), key[p])
          /\ Deliver(p)
    /\ UNCHANGED <<key, doomed, call, calls, crashes, struck>>

Lose_Fails(p) ==
    /\ At(p, "lost")
    /\ Go(p, "refused")
    /\ dirs' = Drop(Private(p))
    /\ UNCHANGED <<key, held, sweep, doomed, call, calls, crashes, struck>>

\* The loser of a race uses the winner's directory.
Lose(p) ==
    /\ At(p, "lost")
    /\ IF Complete(key[p])
       THEN Go(p, "using") /\ held' = [held EXCEPT ![p] = dirs[key[p]].id]
       ELSE Go(p, "refused") /\ UNCHANGED held
    /\ dirs' = Drop(Private(p))
    /\ UNCHANGED <<key, sweep, doomed, call, calls, crashes, struck>>

\* touchFixtureCacheHit, which fails in silence when the marker is gone.
Touch(p) ==
    /\ At(p, "hit")
    /\ dirs' = IF Complete(key[p]) THEN [dirs EXCEPT ![key[p]].old = FALSE] ELSE dirs
    /\ Deliver(p)
    /\ UNCHANGED <<key, doomed, call, calls, crashes, struck>>

Finish(p) ==
    /\ At(p, "using") \/ At(p, "refused")
    /\ Leave(p)
    /\ UNCHANGED <<dirs, sweep, doomed, call, calls, crashes, struck>>

-----------------------------------------------------------------------------
(* maybePruneFixtureCache *)

\* A name of the listing is judged by the age of the marker it has now, and
\* removed after that (os.RemoveAll): the directory is opened, its files go one
\* by one, then the name if nothing is left in it.
Judge(p, n) ==
    /\ At(p, "sweep") /\ n \in sweep[p]
    /\ sweep' = [sweep EXCEPT ![p] = @ \ {n}]
    /\ IF Complete(n) /\ dirs[n].old
       THEN Go(p, "open") /\ doomed' = [doomed EXCEPT ![p] = [name |-> n, id |-> Nothing]]
       ELSE UNCHANGED <<pc, doomed>>
    /\ UNCHANGED <<dirs, key, held, call, calls, crashes, struck>>

Open(p) ==
    LET name == doomed[p].name
    IN  /\ At(p, "open")
        /\ IF name \in DOMAIN dirs
           THEN /\ doomed' = [doomed EXCEPT ![p].id = dirs[name].id]
                /\ struck' = struck \union {doomed'[p]}
                /\ Go(p, "unlink")
           ELSE /\ doomed' = [doomed EXCEPT ![p] = None]
                /\ Go(p, "sweep")
                /\ UNCHANGED struck
        /\ UNCHANGED <<dirs, key, held, sweep, call, calls, crashes>>

Remaining(p) ==
    LET d == doomed[p]
    IN  IF d.name \in DOMAIN dirs /\ dirs[d.name].id = d.id THEN dirs[d.name].files ELSE {}

Unlink(p, f) ==
    /\ At(p, "unlink") /\ f \in Remaining(p)
    /\ dirs' = [dirs EXCEPT ![doomed[p].name].files = @ \ {f}]
    /\ UNCHANGED <<pc, key, held, sweep, doomed, call, calls, crashes, struck>>

RemoveDir(p) ==
    LET name == doomed[p].name
    IN  /\ At(p, "unlink") /\ Remaining(p) = {}
        /\ dirs' = IF name \in DOMAIN dirs /\ dirs[name].files = {} THEN Drop(name) ELSE dirs
        /\ doomed' = [doomed EXCEPT ![p] = None]
        /\ Go(p, "sweep")
        /\ UNCHANGED <<key, held, sweep, call, calls, crashes, struck>>

EndSweep(p) ==
    /\ At(p, "sweep") /\ sweep[p] = {}
    /\ Go(p, "using")
    /\ UNCHANGED <<dirs, key, held, sweep, doomed, call, calls, crashes, struck>>

-----------------------------------------------------------------------------
(* Time and death *)

\* Whoever writes or uses the directory n.
Concerns(p, n) == ~At(p, "idle") /\ (key[p] = n \/ Private(p) = n)

Age(n) ==
    /\ n \in DOMAIN dirs /\ Marker \in dirs[n].files /\ ~dirs[n].old
    /\ \A p \in Processes : ~Concerns(p, n)
    /\ dirs' = [dirs EXCEPT ![n].old = TRUE]
    /\ UNCHANGED <<pc, key, held, sweep, doomed, call, calls, crashes, struck>>

Crash(p) ==
    /\ ~At(p, "idle") /\ crashes < MaxCrashes
    /\ crashes' = crashes + 1
    /\ Leave(p)
    /\ sweep' = [sweep EXCEPT ![p] = {}]
    /\ doomed' = [doomed EXCEPT ![p] = None]
    /\ UNCHANGED <<dirs, call, calls, struck>>

Call(p) ==
    \/ \E h \in Hashes : Ask(p, h)
    \/ Fail(p) \/ MakeTemp(p) \/ WriteMarker(p) \/ Rename(p) \/ Lose(p) \/ Touch(p)
    \/ \E f \in Files : WriteFile(p, f)

Prune(p) ==
    \/ \E n \in sweep[p] : Judge(p, n)
    \/ Open(p) \/ RemoveDir(p) \/ EndSweep(p)
    \/ \E f \in Tree : Unlink(p, f)

Next ==
    \/ \E p \in Processes : Call(p) \/ Finish(p) \/ Prune(p) \/ Crash(p)
    \/ \E n \in DOMAIN dirs : Age(n)

Spec == Init /\ [][Next]_vars

-----------------------------------------------------------------------------
(* Properties *)

Places == {"idle", "make", "write", "mark", "rename", "lost", "refused",
           "hit", "using", "sweep", "open", "unlink"}
Names == Hashes \union (1 .. calls)

TypeOK ==
    /\ DOMAIN dirs \subseteq Names
    /\ dirs \in [DOMAIN dirs -> [id : 1 .. calls, files : SUBSET Tree, old : BOOLEAN]]
    /\ pc \in [Processes -> Places]
    /\ key \in [Processes -> Hashes \union {Nothing}]
    /\ call \in [Processes -> 0 .. calls]
    /\ held \in [Processes -> (1 .. calls) \union {Nothing}]
    /\ sweep \in [Processes -> SUBSET Names]
    /\ doomed \in [Processes -> [name : Names \union {Nothing}, id : (1 .. calls) \union {Nothing}]]
    /\ calls \in Nat /\ crashes \in Nat
    /\ struck \subseteq [name : Names, id : 1 .. calls]

StruckAt(name) == \E s \in struck : s.name = name

\* A sweep set out to remove what the process holds, or had removed it already.
WasStruck(p) == \E s \in struck : s.name = key[p] /\ held[p] \in {s.id, Nothing}

\* However many processes publish the same tree, and wherever they die, a
\* caller is handed a directory that has all of the tree, and it stays that
\* directory while it is used -- unless a sweep set out to remove that very
\* directory.
HandedOutIsWhole ==
    \A p \in Processes : At(p, "using") /\ ~WasStruck(p) =>
        /\ key[p] \in DOMAIN dirs
        /\ dirs[key[p]].id = held[p]
        /\ dirs[key[p]].files = Tree

\* Losing the race to publish is not a failure: a call whose rename failed
\* gives up only over the remains of a sweep.
LosersAreServed ==
    \A p \in Processes : At(p, "refused") => StruckAt(key[p])
=============================================================================
