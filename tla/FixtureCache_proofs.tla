------------------------ MODULE FixtureCache_proofs ------------------------
(***************************************************************************)
(* For any number of processes, trees, files, calls and deaths: whoever is *)
(* handed a fixture has all of it, and whoever loses the race to publish   *)
(* one is served, but for what a sweep set out to remove.                  *)
(***************************************************************************)
EXTENDS FixtureCache, TLAPS

-----------------------------------------------------------------------------
(* Types *)

Dirs == [id : 1 .. calls, files : SUBSET Tree, old : BOOLEAN]

\* A process inside a call has a hash and a number; one that removes a
\* directory knows its name, and its identity once it has opened it.
Inside ==
    /\ \A p \in Processes : pc[p] # "idle" => key[p] \in Hashes /\ call[p] \in 1 .. calls
    /\ \A p \in Processes : pc[p] \in {"open", "unlink"} => doomed[p].name \in Names
    /\ \A p \in Processes : pc[p] = "unlink" => doomed[p] \in struck
    /\ \A p, q \in Processes : p # q /\ call[p] = call[q] => call[p] = 0

\* The private directories of calls under way: nobody else removes them, and
\* they hold what has been written.
Claims(p) == pc[p] \in {"make", "write", "mark", "rename"}

CopiesAreSafe ==
    \A p \in Processes :
        /\ pc[p] = "make" => Private(p) \notin DOMAIN dirs
        /\ pc[p] \in {"write", "mark", "rename"} =>
              Private(p) \in DOMAIN dirs /\ ~dirs[Private(p)].old
        /\ pc[p] = "mark" => Files \subseteq dirs[Private(p)].files
        /\ pc[p] = "rename" => dirs[Private(p)].files = Tree
        /\ Claims(p) =>
              \A q \in Processes : pc[q] \in {"open", "unlink"} => doomed[q].name # Private(p)

TypeInv == TypeOK /\ Inside /\ CopiesAreSafe

LEMMA TypeInit == Init => TypeInv
<1> SUFFICES ASSUME Init PROVE TypeInv
  OBVIOUS
<1>1. /\ DOMAIN dirs = {} /\ dirs \in [{} -> Dirs]
      /\ calls = 0 /\ crashes = 0 /\ struck = {}
      /\ \A p \in Processes : pc[p] = "idle" /\ call[p] = 0
  BY DEF Init
<1>2. TypeOK
  <2>1. dirs \in [DOMAIN dirs -> Dirs]
    BY <1>1
  <2> QED BY <2>1, <1>1 DEF Init, TypeOK, Places, Names, Dirs, None
<1> QED BY <1>1, <1>2 DEF TypeInv, Inside, CopiesAreSafe, Claims

LEMMA AskType ==
    ASSUME TypeInv, NEW p \in Processes, NEW h \in Hashes, Ask(p, h)
    PROVE  TypeInv'
<1> USE DEF TypeInv
<1>1. calls' = calls + 1 /\ calls \in Nat /\ Names \subseteq Names'
  BY DEF Ask, TypeOK, Names
<1>2. TypeOK'
  BY <1>1 DEF Ask, TypeOK, Go, At, Places, Tree
<1>3. Inside'
  BY <1>1 DEF Ask, Inside, TypeOK, Go, At, Names
<1>4. CopiesAreSafe'
  <2>1. DOMAIN dirs \subseteq Hashes \union (1 .. calls) /\ Hashes \intersect Nat = {}
    BY FixtureAssumption DEF TypeOK, Names
  <2>2. \A q \in Processes \ {p} : pc'[q] = pc[q] /\ call'[q] = call[q]
    BY DEF Ask, Go, TypeOK
  <2>3. /\ pc'[p] \in {"hit", "make"} /\ call'[p] = calls + 1 /\ calls + 1 \notin DOMAIN dirs
        /\ UNCHANGED <<dirs, doomed>>
    BY <1>1, <2>1 DEF Ask, Go, TypeOK
  <2>4. \A q \in Processes : pc'[q] \in {"open", "unlink"} =>
            pc[q] = pc'[q] /\ doomed[q].name \in Names /\ doomed[q].name # calls + 1
    BY <1>1, <2>1, <2>2, <2>3 DEF Inside, Names
  <2> QED BY <2>2, <2>3, <2>4 DEF CopiesAreSafe, Claims, Private
<1> QED BY <1>2, <1>3, <1>4

LEMMA DropType ==
    ASSUME TypeOK, NEW n
    PROVE  Drop(n) \in [DOMAIN Drop(n) -> Dirs] /\ DOMAIN Drop(n) \subseteq DOMAIN dirs
  BY DEF TypeOK, Drop, Dirs

\* What an action that leaves calls, names and other processes alone keeps.
LEMMA LeaveType ==
    ASSUME TypeInv, NEW p \in Processes, Leave(p), pc[p] # "idle",
           UNCHANGED <<call, calls, struck>>,
           dirs' = dirs \/ (dirs' = Drop(Private(p))),
           sweep' \in [Processes -> SUBSET Names],
           \/ UNCHANGED doomed
           \/ doomed' = [doomed EXCEPT ![p] = None],
           crashes' \in Nat
    PROVE  TypeInv'
<1> USE DEF TypeInv
<1>1. TypeOK'
  <2>1. DOMAIN dirs' \subseteq DOMAIN dirs /\ dirs' \in [DOMAIN dirs' -> Dirs]
    BY DropType DEF TypeOK, Dirs
  <2>2. Dirs' = Dirs /\ Names' = Names
    BY DEF Dirs, Names
  <2>3. doomed' \in [Processes -> [name : Names \union {Nothing}, id : (1 .. calls) \union {Nothing}]]
    BY DEF TypeOK, None
  <2> QED BY <2>1, <2>2, <2>3 DEF TypeOK, Leave, Go, Places, Dirs
<1>2. Inside'
  BY DEF TypeOK, Inside, Leave, Go, Names
<1>3. CopiesAreSafe'
  BY DEF TypeOK, Inside, CopiesAreSafe, Claims, Leave, Go, Private, Drop
<1> QED BY <1>1, <1>2, <1>3

LEMMA FailType ==
    ASSUME TypeInv, NEW p \in Processes, Fail(p)
    PROVE  TypeInv'
  BY LeaveType DEF TypeInv, TypeOK, Fail, At

LEMMA FinishType ==
    ASSUME TypeInv, NEW p \in Processes, Finish(p)
    PROVE  TypeInv'
  BY LeaveType DEF TypeInv, TypeOK, Finish, At

LEMMA MakeTempType ==
    ASSUME TypeInv, NEW p \in Processes, MakeTemp(p)
    PROVE  TypeInv'
<1> USE DEF TypeInv
<1>1. TypeOK'
  BY DEF MakeTemp, TypeOK, Inside, CopiesAreSafe, Go, At, Private, Names, Places, Tree, Empty
<1>2. Inside'
  BY DEF MakeTemp, TypeOK, Inside, Go, At, Names, Empty
<1>3. CopiesAreSafe'
  BY DEF MakeTemp, TypeOK, Inside, CopiesAreSafe, Claims, Go, At, Private, Names, Empty
<1> QED BY <1>1, <1>2, <1>3

LEMMA WriteFileType ==
    ASSUME TypeInv, NEW p \in Processes, NEW f \in Files, WriteFile(p, f)
    PROVE  TypeInv'
<1> USE DEF TypeInv
<1>1. TypeOK'
  <2>1. /\ Dirs' = Dirs /\ Names' = Names
        /\ dirs \in [DOMAIN dirs -> Dirs] /\ DOMAIN dirs \subseteq Names
    BY DEF WriteFile, TypeOK, Dirs, Names
  <2>2. dirs' \in [DOMAIN dirs -> Dirs] /\ DOMAIN dirs' = DOMAIN dirs
    BY <2>1 DEF WriteFile, Dirs, Tree
  <2> QED BY <2>1, <2>2 DEF WriteFile, TypeOK, Go, Places, Dirs
<1>2. Inside'
  BY DEF WriteFile, TypeOK, Inside, Go, At, Names
<1>3. CopiesAreSafe'
  BY DEF WriteFile, TypeOK, Inside, CopiesAreSafe, Claims, Go, At, Private, Names
<1> QED BY <1>1, <1>2, <1>3

LEMMA WriteMarkerType ==
    ASSUME TypeInv, NEW p \in Processes, WriteMarker(p)
    PROVE  TypeInv'
<1> USE DEF TypeInv
<1>1. TypeOK'
  <2>1. /\ Dirs' = Dirs /\ Names' = Names
        /\ dirs \in [DOMAIN dirs -> Dirs] /\ DOMAIN dirs \subseteq Names
    BY DEF WriteMarker, TypeOK, Dirs, Names
  <2>2. dirs' \in [DOMAIN dirs -> Dirs] /\ DOMAIN dirs' = DOMAIN dirs
    BY <2>1 DEF WriteMarker, Dirs, Tree
  <2> QED BY <2>1, <2>2 DEF WriteMarker, TypeOK, Go, Places, Dirs
<1>2. Inside'
  BY DEF WriteMarker, TypeOK, Inside, Go, At, Names
<1>3. CopiesAreSafe'
  <2>1. /\ Private(p) \in DOMAIN dirs /\ dirs[Private(p)].files \subseteq Tree
        /\ Files \subseteq dirs[Private(p)].files /\ dirs \in [DOMAIN dirs -> Dirs]
    BY DEF WriteMarker, At, CopiesAreSafe, TypeOK, Dirs
  <2>2. DOMAIN dirs' = DOMAIN dirs /\ dirs'[Private(p)].files = Tree
    BY <2>1 DEF WriteMarker, Tree, Dirs
  <2>3. \A n \in DOMAIN dirs : dirs'[n].old = dirs[n].old
                               /\ (n # Private(p) => dirs'[n].files = dirs[n].files)
    BY <2>1 DEF WriteMarker, Dirs
  <2>4. /\ pc[p] = "mark" /\ pc' = [pc EXCEPT ![p] = "rename"]
        /\ UNCHANGED <<call, doomed>> /\ pc \in [Processes -> Places]
    BY DEF WriteMarker, At, Go, TypeOK
  <2>5. \A q \in Processes \ {p} : pc[q] # "idle" => Private(q) # Private(p)
    BY <2>4 DEF Inside, Private
  <2> QED BY <2>1, <2>2, <2>3, <2>4, <2>5 DEF CopiesAreSafe, Claims, Private
<1> QED BY <1>1, <1>2, <1>3

LEMMA JudgeType ==
    ASSUME TypeInv, NEW p \in Processes, NEW n \in sweep[p], Judge(p, n)
    PROVE  TypeInv'
<1> USE DEF TypeInv
<1>1. TypeOK'
  <2>1. n \in Names /\ sweep' \in [Processes -> SUBSET Names]
    BY DEF Judge, TypeOK
  <2>2. doomed' \in [Processes -> [name : Names \union {Nothing}, id : (1 .. calls) \union {Nothing}]]
    BY <2>1 DEF Judge, TypeOK
  <2>3. pc' \in [Processes -> Places]
    BY DEF Judge, TypeOK, Go, Places
  <2> QED BY <2>1, <2>2, <2>3 DEF Judge, TypeOK, Names
<1>2. Inside'
  <2>1. n \in Names /\ pc[p] = "sweep" /\ UNCHANGED <<dirs, key, call, calls, struck>>
    BY DEF Judge, TypeOK, At
  <2>2. CASE UNCHANGED <<pc, doomed>>
    BY <2>1, <2>2 DEF Inside, Names, Claims, Private
  <2>3. CASE /\ pc' = [pc EXCEPT ![p] = "open"] /\ Complete(n) /\ dirs[n].old
             /\ doomed' = [doomed EXCEPT ![p] = [name |-> n, id |-> Nothing]]
    BY <2>1, <2>3 DEF Inside, TypeOK, Names, Claims, Private, Complete
  <2> QED BY <2>2, <2>3 DEF Judge, Go
<1>3. CopiesAreSafe'
  <2>1. n \in Names /\ pc[p] = "sweep" /\ UNCHANGED <<dirs, key, call, calls, struck>>
    BY DEF Judge, TypeOK, At
  <2>2. CASE UNCHANGED <<pc, doomed>>
    BY <2>1, <2>2 DEF CopiesAreSafe, Names, Claims, Private
  <2>3. CASE /\ pc' = [pc EXCEPT ![p] = "open"] /\ Complete(n) /\ dirs[n].old
             /\ doomed' = [doomed EXCEPT ![p] = [name |-> n, id |-> Nothing]]
    BY <2>1, <2>3 DEF CopiesAreSafe, TypeOK, Names, Claims, Private, Complete
  <2> QED BY <2>2, <2>3 DEF Judge, Go
<1> QED BY <1>1, <1>2, <1>3

LEMMA OpenType ==
    ASSUME TypeInv, NEW p \in Processes, Open(p)
    PROVE  TypeInv'
<1> USE DEF TypeInv
<1>1. TypeOK'
  <2>1. /\ doomed[p].name \in Names /\ pc[p] = "open"
        /\ UNCHANGED <<dirs, key, held, sweep, call, calls, crashes>>
    BY DEF Open, Inside, At
  <2>2. CASE doomed[p].name \in DOMAIN dirs
    <3>1. dirs[doomed[p].name].id \in 1 .. calls
      BY <2>2 DEF TypeOK
    <3>2. doomed' \in [Processes -> [name : Names \union {Nothing}, id : (1 .. calls) \union {Nothing}]]
      BY <2>2, <3>1 DEF Open, TypeOK
    <3>3. doomed'[p] = [name |-> doomed[p].name, id |-> dirs[doomed[p].name].id]
      BY <2>2 DEF Open, TypeOK
    <3>4. struck' \subseteq [name : Names, id : 1 .. calls]
      BY <2>1, <2>2, <3>1, <3>3 DEF Open, TypeOK
    <3> QED BY <2>1, <2>2, <3>2, <3>4 DEF Open, TypeOK, Go, Places, Names
  <2>3. CASE doomed[p].name \notin DOMAIN dirs
    <3>1. doomed' \in [Processes -> [name : Names \union {Nothing}, id : (1 .. calls) \union {Nothing}]]
      BY <2>3 DEF Open, TypeOK, None
    <3> QED BY <2>1, <2>3, <3>1 DEF Open, TypeOK, Go, Places, Names
  <2> QED BY <2>2, <2>3
<1>2. Inside'
  <2>1. /\ doomed[p].name \in Names /\ pc[p] = "open"
        /\ UNCHANGED <<dirs, key, held, sweep, call, calls, crashes>>
    BY DEF Open, Inside, At
  <2>2. \A q \in Processes \ {p} : pc'[q] = pc[q] /\ doomed'[q] = doomed[q]
    BY DEF Open, Go, TypeOK
  <2>3. struck \subseteq struck' /\ Names' = Names
    BY <2>1 DEF Open, Names
  <2>4. \/ pc'[p] = "unlink" /\ doomed'[p] \in struck' /\ doomed'[p].name = doomed[p].name
        \/ pc'[p] = "sweep"
    BY DEF Open, Go, TypeOK
  <2> QED BY <2>1, <2>2, <2>3, <2>4 DEF Inside
<1>3. CopiesAreSafe'
  BY DEF Open, TypeOK, Inside, CopiesAreSafe, Claims, Go, At, Private, Names, None
<1> QED BY <1>1, <1>2, <1>3

LEMMA UnlinkType ==
    ASSUME TypeInv, NEW p \in Processes, NEW f \in Tree, Unlink(p, f)
    PROVE  TypeInv'
<1> USE DEF TypeInv
<1>1. TypeOK'
  BY DEF Unlink, TypeOK, Inside, CopiesAreSafe, Go, At, Private, Names, Places, Tree, Remaining
<1>2. Inside'
  BY DEF Unlink, TypeOK, Inside, Go, At, Names, Remaining
<1>3. CopiesAreSafe'
  BY DEF Unlink, TypeOK, Inside, CopiesAreSafe, Claims, Go, At, Private, Names, Remaining
<1> QED BY <1>1, <1>2, <1>3

LEMMA RemoveDirType ==
    ASSUME TypeInv, NEW p \in Processes, RemoveDir(p)
    PROVE  TypeInv'
<1> USE DEF TypeInv
<1>1. TypeOK'
  BY DEF RemoveDir, TypeOK, Inside, CopiesAreSafe, Go, At, Private, Names, Places, Tree, Remaining, Drop, None
<1>2. Inside'
  BY DEF RemoveDir, TypeOK, Inside, Go, At, Names, Remaining, Drop, None
<1>3. CopiesAreSafe'
  BY DEF RemoveDir, TypeOK, Inside, CopiesAreSafe, Claims, Go, At, Private, Names, Remaining, Drop, None
<1> QED BY <1>1, <1>2, <1>3

LEMMA EndSweepType ==
    ASSUME TypeInv, NEW p \in Processes, EndSweep(p)
    PROVE  TypeInv'
<1> USE DEF TypeInv
<1>1. TypeOK'
  BY DEF EndSweep, TypeOK, Inside, CopiesAreSafe, Go, At, Private, Names, Places, Tree
<1>2. Inside'
  BY DEF EndSweep, TypeOK, Inside, Go, At, Names
<1>3. CopiesAreSafe'
  BY DEF EndSweep, TypeOK, Inside, CopiesAreSafe, Claims, Go, At, Private, Names
<1> QED BY <1>1, <1>2, <1>3

LEMMA TouchType ==
    ASSUME TypeInv, NEW p \in Processes, Touch(p)
    PROVE  TypeInv'
<1> USE DEF TypeInv
<1>1. TypeOK'
  <2>1. /\ Dirs' = Dirs /\ Names' = Names
        /\ dirs \in [DOMAIN dirs -> Dirs] /\ DOMAIN dirs \subseteq Names
    BY DEF Touch, TypeOK, Dirs, Names
  <2>2. dirs' \in [DOMAIN dirs -> Dirs] /\ DOMAIN dirs' = DOMAIN dirs
    BY <2>1 DEF Touch, Complete, Dirs
  <2>3. key[p] \in DOMAIN dirs' => dirs'[key[p]].id \in 1 .. calls
    BY <2>2 DEF Dirs
  <2>4. /\ held' \in [Processes -> (1 .. calls) \union {Nothing}]
        /\ sweep' \in [Processes -> SUBSET Names] /\ pc' \in [Processes -> Places]
    <3>1. Deliver(p) /\ DOMAIN dirs' \subseteq Names
      BY <2>1, <2>2 DEF Touch
    <3> QED BY <2>3, <3>1 DEF Deliver, Go, TypeOK, Places
  <2> QED BY <2>1, <2>2, <2>4 DEF Touch, TypeOK, Dirs
<1>2. Inside'
  BY DEF Touch, TypeOK, Inside, Go, At, Names, Deliver, Complete
<1>3. CopiesAreSafe'
  BY DEF Touch, TypeOK, Inside, CopiesAreSafe, Claims, Go, At, Private, Names, Deliver, Complete
<1> QED BY <1>1, <1>2, <1>3

LEMMA LoseType ==
    ASSUME TypeInv, NEW p \in Processes, Lose(p)
    PROVE  TypeInv'
<1> USE DEF TypeInv
<1>1. TypeOK'
  BY DEF Lose, TypeOK, Inside, CopiesAreSafe, Go, At, Private, Names, Places, Tree, Complete, Drop
<1>2. Inside'
  BY DEF Lose, TypeOK, Inside, Go, At, Names, Complete, Drop
<1>3. CopiesAreSafe'
  BY DEF Lose, TypeOK, Inside, CopiesAreSafe, Claims, Go, At, Private, Names, Complete, Drop
<1> QED BY <1>1, <1>2, <1>3

LEMMA RenameType ==
    ASSUME TypeInv, NEW p \in Processes, Rename(p)
    PROVE  TypeInv'
<1> USE DEF TypeInv
<1>1. TypeOK'
  <2>1. /\ Dirs' = Dirs /\ Names' = Names
        /\ dirs \in [DOMAIN dirs -> Dirs] /\ DOMAIN dirs \subseteq Names
    BY DEF Rename, TypeOK, Dirs, Names
  <2>2. CASE UNCHANGED <<dirs, held, sweep>> /\ Go(p, "lost")
    BY <2>1, <2>2 DEF Rename, TypeOK, Go, Places
  <2>3. CASE dirs' = Renamed(Private(p), key[p]) /\ Deliver(p)
    <3>1. Private(p) \in DOMAIN dirs /\ key[p] \in Hashes
      BY DEF Rename, At, CopiesAreSafe, Inside
    <3>2. dirs' \in [DOMAIN dirs' -> Dirs] /\ DOMAIN dirs' \subseteq Names
      BY <2>1, <2>3, <3>1 DEF Renamed, Names
    <3>3. key[p] \in DOMAIN dirs' => dirs'[key[p]].id \in 1 .. calls
      BY <3>2 DEF Dirs
    <3>4. /\ held' \in [Processes -> (1 .. calls) \union {Nothing}]
          /\ sweep' \in [Processes -> SUBSET Names] /\ pc' \in [Processes -> Places]
      BY <2>1, <2>3, <3>2, <3>3 DEF Deliver, Go, TypeOK, Places
    <3> QED BY <2>1, <3>2, <3>4 DEF Rename, TypeOK, Dirs
  <2> QED BY <2>2, <2>3 DEF Rename
<1>2. Inside'
  BY FixtureAssumption DEF Rename, TypeOK, Inside, Go, At, Names, Deliver, Renamed
<1>3. CopiesAreSafe'
  BY FixtureAssumption DEF Rename, TypeOK, Inside, CopiesAreSafe, Claims, Go, At, Private, Names, Deliver, Renamed
<1> QED BY <1>1, <1>2, <1>3

LEMMA AgeType ==
    ASSUME TypeInv, NEW n \in DOMAIN dirs, Age(n)
    PROVE  TypeInv'
<1> USE DEF TypeInv
<1>1. TypeOK'
  BY DEF Age, TypeOK, Names
<1>2. Inside'
  BY DEF Age, Inside, Names
<1>3. CopiesAreSafe'
  BY DEF Age, TypeOK, Inside, CopiesAreSafe, Claims, Concerns, At, Private, Names
<1> QED BY <1>1, <1>2, <1>3

LEMMA CrashType ==
    ASSUME TypeInv, NEW p \in Processes, Crash(p)
    PROVE  TypeInv'
<1>1. /\ sweep' \in [Processes -> SUBSET Names] /\ crashes' \in Nat
      /\ pc[p] # "idle" /\ Leave(p) /\ UNCHANGED <<dirs, call, calls, struck>>
      /\ doomed' = [doomed EXCEPT ![p] = None]
  BY DEF Crash, At, TypeInv, TypeOK
<1> QED BY <1>1, LeaveType

LEMMA TypeStep == TypeInv /\ [Next]_vars => TypeInv'
<1> SUFFICES ASSUME TypeInv, [Next]_vars PROVE TypeInv'
  OBVIOUS
<1>1. ASSUME NEW p \in Processes, Call(p) PROVE TypeInv'
  BY <1>1, AskType, FailType, MakeTempType, WriteFileType, WriteMarkerType, RenameType, LoseType,
     TouchType DEF Call
<1>2. ASSUME NEW p \in Processes, Prune(p) PROVE TypeInv'
  BY <1>2, JudgeType, OpenType, UnlinkType, RemoveDirType, EndSweepType DEF Prune
<1>3. CASE UNCHANGED vars
  BY <1>3 DEF vars, TypeInv, TypeOK, Inside, CopiesAreSafe, Claims, Private, Names
<1> QED BY <1>1, <1>2, <1>3, FinishType, CrashType, AgeType DEF Next

\* Every variable keeps its type, a private directory is nobody else's, and no
\* sweep sets out to remove one that a live call is writing.
THEOREM TypeCorrect == Spec => []TypeOK
<1>1. TypeInv => TypeOK
  BY DEF TypeInv
<1> QED BY <1>1, TypeInit, TypeStep, PTL DEF Spec

-----------------------------------------------------------------------------
(* What is handed out *)

InUse(p) == pc[p] \in {"using", "sweep", "open", "unlink"}
Struck(name) == [name |-> name, id |-> dirs[name].id] \in struck

PublishedIsWhole == \A h \in Hashes \intersect DOMAIN dirs : dirs[h].files = Tree \/ Struck(h)

Served(p) ==
    /\ InUse(p) /\ ~WasStruck(p) => key[p] \in DOMAIN dirs /\ dirs[key[p]].id = held[p]
    /\ pc[p] \in {"hit", "lost"} => key[p] \in DOMAIN dirs \/ StruckAt(key[p])
    /\ pc[p] = "refused" => StruckAt(key[p])

Inv == TypeInv /\ PublishedIsWhole /\ \A p \in Processes : Served(p)

LEMMA InvInit == Init => Inv
  BY TypeInit DEF Init, Inv, PublishedIsWhole, Served, InUse

LEMMA InvImplies == Inv => HandedOutIsWhole /\ LosersAreServed
<1> SUFFICES ASSUME Inv, NEW p \in Processes, At(p, "using"), ~WasStruck(p)
             PROVE  key[p] \in DOMAIN dirs /\ dirs[key[p]].id = held[p] /\ dirs[key[p]].files = Tree
  BY DEF HandedOutIsWhole, LosersAreServed, Inv, Served, At
<1>1. key[p] \in DOMAIN dirs /\ dirs[key[p]].id = held[p] /\ key[p] \in Hashes
  BY DEF Inv, Served, InUse, At, TypeInv, Inside
<1>2. ~Struck(key[p])
  BY <1>1 DEF Struck, WasStruck
<1> QED BY <1>1, <1>2 DEF Inv, PublishedIsWhole

\* A step that takes no directory from its name but one that was struck, and
\* serves whom it moves.
Stays(p) ==
    /\ key'[p] = key[p] /\ held'[p] = held[p]
    /\ pc'[p] = pc[p] \/ (InUse(p) /\ InUse(p)')

LEMMA ServedStep ==
    ASSUME Inv, TypeInv', PublishedIsWhole', struck \subseteq struck',
           \A h \in Hashes \intersect DOMAIN dirs :
              Struck(h) \/ (h \in DOMAIN dirs' /\ dirs'[h].id = dirs[h].id),
           \A p \in Processes : Stays(p) \/ Served(p)'
    PROVE  Inv'
<1> SUFFICES ASSUME NEW p \in Processes, Stays(p) PROVE Served(p)'
  BY DEF Inv
<1>1. Served(p) /\ (pc[p] # "idle" => key[p] \in Hashes)
  BY DEF Inv, TypeInv, Inside
<1>2. StruckAt(key[p]) => StruckAt(key[p])'
  BY DEF StruckAt, Stays
<1>3. WasStruck(p) => WasStruck(p)'
  BY DEF WasStruck, Stays
<1>4. key[p] \in DOMAIN dirs /\ Struck(key[p]) =>
        StruckAt(key[p]) /\ (dirs[key[p]].id = held[p] => WasStruck(p))
  BY DEF Struck, StruckAt, WasStruck
<1>5. CASE InUse(p)
  BY <1>1, <1>3, <1>4, <1>5 DEF Served, InUse, Stays
<1>6. CASE ~InUse(p)
  BY <1>1, <1>2, <1>4, <1>6 DEF Served, InUse, Stays
<1> QED BY <1>5, <1>6

\* Directories named by a hash are left as they are.
LEMMA QuietStep ==
    ASSUME Inv, TypeInv', struck \subseteq struck',
           \A h \in Hashes : h \in DOMAIN dirs' <=> h \in DOMAIN dirs,
           \A h \in Hashes \intersect DOMAIN dirs :
              dirs'[h].id = dirs[h].id /\ dirs'[h].files = dirs[h].files,
           \A p \in Processes : Stays(p) \/ Served(p)'
    PROVE  Inv'
<1>1. PublishedIsWhole'
  BY DEF Inv, PublishedIsWhole, Struck
<1> QED BY <1>1, ServedStep

LEMMA Others ==
    ASSUME TypeOK, NEW p \in Processes, NEW place \in Places, Go(p, place),
           key' = key \/ (\E h \in Hashes \union {Nothing} : key' = [key EXCEPT ![p] = h]),
           held' = held \/ (\E i : held' = [held EXCEPT ![p] = i])
    PROVE  pc'[p] = place /\ \A q \in Processes \ {p} : Stays(q)
  BY DEF TypeOK, Go, Stays

LEMMA CallInv ==
    ASSUME Inv, TypeInv', NEW p \in Processes, Call(p) \/ Finish(p) \/ Crash(p)
    PROVE  Inv'
<1>0. /\ TypeOK /\ Inside /\ CopiesAreSafe /\ Private(p) \notin Hashes
      /\ dirs \in [DOMAIN dirs -> Dirs]
  BY FixtureAssumption DEF Inv, TypeInv, TypeOK, Private, Dirs
<1>1. ASSUME NEW h \in Hashes, Ask(p, h) PROVE Inv'
  <2>1. Go(p, IF Complete(h) THEN "hit" ELSE "make") /\ UNCHANGED <<dirs, struck, held>>
        /\ key' = [key EXCEPT ![p] = h]
    BY <1>1 DEF Ask
  <2>2. \A q \in Processes \ {p} : Stays(q)
    BY <2>1, <1>0, Others DEF Places
  <2>3. Served(p)'
    BY <2>1, <1>0 DEF Served, InUse, Go, TypeOK, Complete
  <2> QED BY <2>1, <2>2, <2>3, QuietStep
<1>2. ASSUME NEW place \in {"idle", "write", "mark", "rename"}, Go(p, place), UNCHANGED struck,
             \/ UNCHANGED dirs
             \/ dirs' = Drop(Private(p))
             \/ dirs' = [n \in DOMAIN dirs \union {Private(p)} |->
                           IF n = Private(p) THEN Empty(n) ELSE dirs[n]]
             \/ \E d : dirs' = [dirs EXCEPT ![Private(p)].files = d],
             key' = key \/ key' = [key EXCEPT ![p] = Nothing],
             held' = held \/ held' = [held EXCEPT ![p] = Nothing]
      PROVE  Inv'
  <2>1. /\ \A h \in Hashes : h \in DOMAIN dirs' <=> h \in DOMAIN dirs
        /\ \A h \in Hashes \intersect DOMAIN dirs :
              dirs'[h].id = dirs[h].id /\ dirs'[h].files = dirs[h].files
    BY <1>0, <1>2 DEF Drop
  <2>2. pc'[p] = place /\ \A q \in Processes \ {p} : Stays(q)
    BY <1>0, <1>2, Others DEF Places
  <2>3. Served(p)'
    BY <2>2 DEF Served, InUse
  <2> QED BY <1>2, <2>1, <2>2, <2>3, QuietStep
<1>3. CASE Fail(p)
  BY <1>2, <1>3 DEF Fail, Leave
<1>4. CASE MakeTemp(p)
  BY <1>2, <1>4 DEF MakeTemp
<1>5. ASSUME NEW f \in Files, WriteFile(p, f) PROVE Inv'
  <2>1. PICK place \in {"mark", "write"} : Go(p, place)
    BY <1>5 DEF WriteFile
  <2> QED BY <1>2, <1>5, <2>1 DEF WriteFile
<1>6. CASE WriteMarker(p)
  BY <1>2, <1>6 DEF WriteMarker
<1>7. CASE Finish(p)
  BY <1>2, <1>7 DEF Finish, Leave
<1>8. CASE Crash(p)
  BY <1>2, <1>8 DEF Crash, Leave
<1>9. CASE Rename(p)
  <2>1. /\ Private(p) \in DOMAIN dirs /\ dirs[Private(p)].files = Tree /\ key[p] \in Hashes
        /\ UNCHANGED <<key, struck>> /\ Tree # {}
    BY <1>0, <1>9 DEF Rename, At, CopiesAreSafe, Inside, Tree
  <2>2. CASE key[p] \in DOMAIN dirs /\ Go(p, "lost") /\ UNCHANGED <<dirs, held, sweep>>
    <3>1. pc'[p] = "lost" /\ \A q \in Processes \ {p} : Stays(q)
      BY <1>0, <2>1, <2>2, Others DEF Places
    <3>2. Served(p)'
      BY <3>1, <2>1, <2>2 DEF Served, InUse
    <3> QED BY <2>1, <2>2, <3>1, <3>2, QuietStep
  <2>3. CASE /\ key[p] \in DOMAIN dirs => dirs[key[p]].files = {}
             /\ dirs' = Renamed(Private(p), key[p])
             /\ Deliver(p)
    <3>1. /\ key[p] \in DOMAIN dirs' /\ dirs'[key[p]] = dirs[Private(p)]
          /\ \A h \in Hashes \ {key[p]} :
                /\ h \in DOMAIN dirs' <=> h \in DOMAIN dirs
                /\ h \in DOMAIN dirs => dirs'[h] = dirs[h]
      BY <1>0, <2>1, <2>3 DEF Renamed
    <3>2. key[p] \in DOMAIN dirs => Struck(key[p])
      BY <2>1, <2>3 DEF Inv, PublishedIsWhole
    <3>3. PublishedIsWhole'
      <4>1. ASSUME NEW h \in Hashes \ {key[p]}, h \in DOMAIN dirs'
            PROVE  dirs'[h].files = Tree \/ Struck(h)'
        <5>1. h \in DOMAIN dirs /\ dirs'[h] = dirs[h]
          BY <3>1, <4>1
        <5> QED BY <2>1, <5>1 DEF Inv, PublishedIsWhole, Struck
      <4> QED BY <2>1, <3>1, <4>1 DEF PublishedIsWhole
    <3>4. PICK place \in {"using", "sweep"} : Go(p, place)
      BY <2>3 DEF Deliver
    <3>5. held' = [held EXCEPT ![p] = dirs'[key[p]].id]
      BY <2>3, <3>1 DEF Deliver
    <3>6. pc'[p] = place /\ \A q \in Processes \ {p} : Stays(q)
      BY <1>0, <2>1, <3>4, <3>5, Others DEF Places
    <3>7. Served(p)'
      BY <1>0, <2>1, <3>1, <3>4, <3>5, <3>6 DEF Served, InUse, TypeOK
    <3>8. ASSUME NEW h \in Hashes \intersect DOMAIN dirs
          PROVE  Struck(h) \/ (h \in DOMAIN dirs' /\ dirs'[h].id = dirs[h].id)
      <4>1. CASE h = key[p]
        BY <3>2, <4>1
      <4>2. CASE h # key[p]
        <5>1. h \in Hashes \ {key[p]} /\ h \in DOMAIN dirs
          BY <4>2
        <5> QED BY <3>1, <5>1
      <4> QED BY <4>1, <4>2
    <3>9. struck \subseteq struck'
      BY <2>1
    <3> QED BY <3>3, <3>6, <3>7, <3>8, <3>9, ServedStep
  <2> QED BY <1>9, <2>2, <2>3 DEF Rename
<1>10. CASE Lose(p)
  <2>1. /\ key[p] \in Hashes /\ pc[p] = "lost" /\ UNCHANGED <<key, struck>> /\ dirs' = Drop(Private(p))
        /\ Served(p) /\ Marker \in Tree
    BY <1>0, <1>10 DEF Lose, At, Inside, Inv, Tree
  <2>2. /\ \A h \in Hashes : h \in DOMAIN dirs' <=> h \in DOMAIN dirs
        /\ \A h \in Hashes \intersect DOMAIN dirs : dirs'[h] = dirs[h]
    BY <1>0, <2>1 DEF Drop
  <2>3. CASE Complete(key[p]) /\ Go(p, "using") /\ held' = [held EXCEPT ![p] = dirs[key[p]].id]
    <3>1. pc'[p] = "using" /\ \A q \in Processes \ {p} : Stays(q)
      BY <1>0, <2>1, <2>3, Others DEF Places
    <3>2. Served(p)'
      BY <1>0, <3>1, <2>1, <2>2, <2>3 DEF Served, InUse, TypeOK, Complete
    <3> QED BY <2>1, <2>2, <3>1, <3>2, QuietStep
  <2>4. CASE ~Complete(key[p]) /\ Go(p, "refused") /\ UNCHANGED held
    <3>1. pc'[p] = "refused" /\ \A q \in Processes \ {p} : Stays(q)
      BY <1>0, <2>1, <2>4, Others DEF Places
    <3>2. StruckAt(key[p])
      <4>1. CASE key[p] \in DOMAIN dirs
        <5>1. dirs[key[p]].files # Tree
          BY <2>1, <2>4, <4>1 DEF Complete
        <5>2. Struck(key[p])
          BY <2>1, <4>1, <5>1 DEF Inv, PublishedIsWhole
        <5> QED BY <5>2 DEF Struck, StruckAt
      <4>2. CASE key[p] \notin DOMAIN dirs
        BY <2>1, <4>2 DEF Served
      <4> QED BY <4>1, <4>2
    <3>3. Served(p)'
      BY <3>1, <3>2, <2>1 DEF Served, InUse, StruckAt
    <3> QED BY <2>1, <2>2, <3>1, <3>3, QuietStep
  <2> QED BY <1>10, <2>3, <2>4 DEF Lose
<1>11. CASE Touch(p)
  <2>1. /\ key[p] \in Hashes /\ pc[p] = "hit" /\ UNCHANGED <<key, struck>> /\ Served(p)
        /\ dirs' = (IF Complete(key[p]) THEN [dirs EXCEPT ![key[p]].old = FALSE] ELSE dirs)
        /\ Deliver(p)
    BY <1>0, <1>11 DEF Touch, At, Inside, Inv
  <2>2. /\ \A h \in Hashes : h \in DOMAIN dirs' <=> h \in DOMAIN dirs
        /\ \A h \in Hashes \intersect DOMAIN dirs :
              dirs'[h].id = dirs[h].id /\ dirs'[h].files = dirs[h].files
    BY <1>0, <2>1 DEF Complete, Dirs
  <2>3. PICK place \in {"using", "sweep"} : Go(p, place)
    BY <2>1 DEF Deliver
  <2>4. held' = [held EXCEPT ![p] = IF key[p] \in DOMAIN dirs' THEN dirs'[key[p]].id ELSE Nothing]
    BY <2>1 DEF Deliver
  <2>5. pc'[p] = place /\ \A q \in Processes \ {p} : Stays(q)
    BY <1>0, <2>1, <2>3, <2>4, Others DEF Places
  <2>6. Served(p)'
    BY <1>0, <2>1, <2>2, <2>3, <2>4, <2>5 DEF Served, InUse, TypeOK, WasStruck, StruckAt
  <2> QED BY <2>1, <2>2, <2>5, <2>6, QuietStep
<1> QED BY <1>1, <1>3, <1>4, <1>5, <1>6, <1>7, <1>8, <1>9, <1>10, <1>11 DEF Call

LEMMA PruneInv ==
    ASSUME Inv, TypeInv', NEW p \in Processes, Prune(p)
    PROVE  Inv'
<1>0. /\ TypeOK /\ Inside /\ dirs \in [DOMAIN dirs -> Dirs] /\ Tree # {}
  BY DEF Inv, TypeInv, TypeOK, Dirs, Tree
<1>1. \A q \in Processes : Stays(q)
  BY <1>0 DEF Prune, Judge, Open, RemoveDir, EndSweep, Unlink, Stays, Go, At, InUse, TypeOK
<1>2. CASE EndSweep(p) \/ Open(p) \/ \E n \in sweep[p] : Judge(p, n)
  <2>1. UNCHANGED dirs /\ struck \subseteq struck'
    BY <1>2 DEF EndSweep, Open, Judge
  <2> QED BY <1>1, <2>1, QuietStep
<1>3. ASSUME NEW f \in Tree, Unlink(p, f) PROVE Inv'
  <2>1. /\ UNCHANGED struck /\ doomed[p] \in struck /\ doomed[p].name \in DOMAIN dirs
        /\ dirs[doomed[p].name].id = doomed[p].id
        /\ dirs' = [dirs EXCEPT ![doomed[p].name].files = @ \ {f}]
    BY <1>0, <1>3 DEF Unlink, Inside, At, Remaining
  <2>2. /\ DOMAIN dirs' = DOMAIN dirs
        /\ \A n \in DOMAIN dirs : dirs'[n].id = dirs[n].id
                                   /\ (n # doomed[p].name => dirs'[n].files = dirs[n].files)
    BY <1>0, <2>1 DEF Dirs
  <2>3. Struck(doomed[p].name)
    BY <1>0, <2>1 DEF Struck, TypeOK
  <2>4. PublishedIsWhole'
    BY <2>1, <2>2, <2>3 DEF Inv, PublishedIsWhole, Struck
  <2> QED BY <1>1, <2>1, <2>2, <2>4, ServedStep
<1>4. CASE RemoveDir(p)
  <2>1. UNCHANGED struck /\ (dirs' = dirs \/ (dirs' = Drop(doomed[p].name) /\ doomed[p].name \in DOMAIN dirs
                                           /\ dirs[doomed[p].name].files = {}))
    BY <1>4 DEF RemoveDir
  <2>2. \A h \in Hashes \intersect DOMAIN dirs :
           Struck(h) \/ (h \in DOMAIN dirs' /\ dirs'[h].id = dirs[h].id)
    BY <1>0, <2>1 DEF Drop, Inv, PublishedIsWhole
  <2>3. PublishedIsWhole'
    BY <2>1 DEF Drop, Inv, PublishedIsWhole, Struck
  <2> QED BY <1>1, <2>1, <2>2, <2>3, ServedStep
<1> QED BY <1>2, <1>3, <1>4 DEF Prune

LEMMA AgeInv ==
    ASSUME Inv, TypeInv', NEW n \in DOMAIN dirs, Age(n)
    PROVE  Inv'
<1>1. dirs \in [DOMAIN dirs -> Dirs] /\ struck' = struck /\ \A q \in Processes : Stays(q)
  BY DEF Inv, TypeInv, TypeOK, Dirs, Age, Stays
<1>2. \A h \in Hashes \intersect DOMAIN dirs :
         dirs'[h].id = dirs[h].id /\ dirs'[h].files = dirs[h].files
  BY <1>1 DEF Age, Dirs
<1> QED BY <1>1, <1>2, QuietStep DEF Age

LEMMA InvStep == Inv /\ [Next]_vars => Inv'
<1> SUFFICES ASSUME Inv, [Next]_vars PROVE Inv'
  OBVIOUS
<1>1. TypeInv'
  BY TypeStep DEF Inv
<1>2. CASE UNCHANGED vars
  BY <1>1, <1>2, QuietStep DEF vars, Stays
<1> QED BY <1>1, <1>2, CallInv, PruneInv, AgeInv DEF Next

\* Whoever is handed a fixture has all of it, for as long as no sweep sets out
\* to remove the very directory it was handed.
THEOREM FixturesAreWhole == Spec => []HandedOutIsWhole
<1>1. Inv => HandedOutIsWhole
  BY InvImplies
<1> QED BY <1>1, InvInit, InvStep, PTL DEF Spec

\* A call that lost the race to publish is refused only where a sweep has been.
THEOREM LosersGetTheWinners == Spec => []LosersAreServed
<1>1. Inv => LosersAreServed
  BY InvImplies
<1> QED BY <1>1, InvInit, InvStep, PTL DEF Spec
=============================================================================
