-------------------------- MODULE SyncDomain_proofs --------------------------
(***************************************************************************)
(* For any code, graph, edits, other landings and failures: what a         *)
(* confirmed sync lands is the code's registry, is what was presented, and *)
(* drops nothing of a journal; what it lands under an open Conflict was    *)
(* acknowledged.  None of these depends on how the registry is computed.   *)
(* Last, the claims that land are those the tests told: what the folds     *)
(* compute is shown by induction.                                          *)
(***************************************************************************)
EXTENDS SyncDomain, WellFoundedInduction, TLAPS

-----------------------------------------------------------------------------
(* Journals *)

LEMMA TrailIsPrefix ==
    ASSUME NEW h, IsTrail(h)
    PROVE  IsPrefix(h, h)
  BY DEF IsPrefix, IsTrail

LEMMA TrailAppend ==
    ASSUME NEW h, IsTrail(h), NEW e
    PROVE  IsTrail(Append(h, e)) /\ IsPrefix(h, Append(h, e)) /\ Last(Append(h, e)) = e
<1> DEFINE S == {h[i] : i \in DOMAIN h}
           T == S \union {e}
<1>1. h \in Seq(S) /\ h \in Seq(T) /\ e \in T
  BY DEF IsTrail
<1>2. Append(h, e) \in Seq(T) /\ Len(Append(h, e)) = Len(h) + 1 /\ Len(h) \in Nat
  BY <1>1
<1>3. \A i \in 1..Len(h) : Append(h, e)[i] = h[i]
  BY <1>1
<1>4. Append(h, e)[Len(h) + 1] = e
  BY <1>1
<1>5. IsTrail(Append(h, e))
  <2>1. DOMAIN Append(h, e) = 1..Len(h) + 1 /\ DOMAIN h = 1..Len(h)
    BY <1>1, <1>2
  <2>2. {Append(h, e)[i] : i \in DOMAIN Append(h, e)} = T
    <3>1. \A i \in DOMAIN Append(h, e) : Append(h, e)[i] \in T
      BY <1>2, <2>1
    <3>2. ASSUME NEW i \in DOMAIN h
          PROVE  i \in DOMAIN Append(h, e) /\ Append(h, e)[i] = h[i]
      BY <1>2, <1>3, <2>1
    <3>3. Len(h) + 1 \in DOMAIN Append(h, e)
      BY <1>2, <2>1
    <3> QED BY <3>1, <3>2, <3>3, <1>4
  <2> QED BY <1>2, <2>2 DEF IsTrail
<1>6. SubSeq(h, 1, Len(h)) = SubSeq(Append(h, e), 1, Len(h))
  BY <1>1, <1>2, <1>3
<1> QED BY <1>2, <1>4, <1>5, <1>6 DEF IsPrefix, Last

LEMMA NodeUpdate ==
    ASSUME NEW n, IsNode(n), NEW b, NEW h
    PROVE  [n EXCEPT !.body = b, !.history = h] = [body |-> b, history |-> h, signoffs |-> n.signoffs]
<1> DEFINE m == [n EXCEPT !.body = b]
<1>1. m = [body |-> b, history |-> n.history, signoffs |-> n.signoffs]
  BY DEF IsNode
<1>2. [n EXCEPT !.body = b, !.history = h] = [m EXCEPT !.history = h]
  BY DEF IsNode
<1>3. m.body = b /\ m.history = n.history /\ m.signoffs = n.signoffs
  BY <1>1
<1> HIDE DEF m
<1> QED BY <1>1, <1>2, <1>3

LEMMA GraphUpdate ==
    ASSUME NEW g, IsGraph(g), NEW r, NEW p
    PROVE  /\ [g EXCEPT !.reqs = r] = [reqs |-> r, people |-> g.people, open |-> g.open]
           /\ [g EXCEPT !.reqs = r, !.people = p] = [reqs |-> r, people |-> p, open |-> g.open]
<1> DEFINE h == [g EXCEPT !.reqs = r]
<1>1. h = [reqs |-> r, people |-> g.people, open |-> g.open]
  BY DEF IsGraph
<1>2. [g EXCEPT !.reqs = r, !.people = p] = [h EXCEPT !.people = p]
  BY DEF IsGraph
<1>3. h.reqs = r /\ h.people = g.people /\ h.open = g.open
  BY <1>1
<1> HIDE DEF h
<1>4. [h EXCEPT !.people = p] = [reqs |-> r, people |-> p, open |-> g.open]
  BY <1>1, <1>3
<1> QED BY <1>1, <1>2, <1>4 DEF h

LEMMA GraphIsPrefix ==
    ASSUME NEW g, IsGraph(g)
    PROVE  AppendOnly(g, g)
  BY TrailIsPrefix DEF AppendOnly, IsGraph, IsNode

-----------------------------------------------------------------------------
(* What a sync makes of a graph *)

LEMMA SyncedIsGraph ==
    ASSUME NEW g, IsGraph(g), NEW reg, NEW people
    PROVE  /\ IsGraph(Synced(g, reg, people))
           /\ Synced(g, reg, people).reqs = Projected(g.reqs, reg)
           /\ Synced(g, reg, people).people = WithPeople(g, people)
           /\ Synced(g, reg, people).open = g.open
<1> DEFINE t == Synced(g, reg, people)
<1>1. t = [reqs |-> Projected(g.reqs, reg), people |-> WithPeople(g, people), open |-> g.open]
  <2>1. t = [g EXCEPT !.reqs = Projected(g.reqs, reg), !.people = WithPeople(g, people)]
    BY DEF Synced
  <2> HIDE DEF t
  <2> QED BY <2>1, GraphUpdate
<1>2. ASSUME NEW id \in DOMAIN g.reqs \union DOMAIN reg
      PROVE  IsNode(Projected(g.reqs, reg)[id])
  <2>1. CASE id \notin DOMAIN reg
    BY <1>2, <2>1 DEF Projected, IsGraph
  <2>2. CASE id \in DOMAIN reg /\ id \notin DOMAIN g.reqs
    <3>1. Projected(g.reqs, reg)[id] = Created(reg[id])
      BY <1>2, <2>2 DEF Projected
    <3>2. IsTrail(<<[by |-> "created"]>>)
      BY DEF IsTrail
    <3> QED BY <3>1, <3>2 DEF Created, IsNode
  <2>3. CASE id \in DOMAIN reg /\ id \in DOMAIN g.reqs
    <3>1. IsNode(g.reqs[id])
      BY <2>3 DEF IsGraph
    <3>2. PICK e : Merged(reg[id], g.reqs[id]) =
                      [g.reqs[id] EXCEPT !.body = reg[id], !.history = Append(@, e)]
      BY DEF Merged
    <3>3. Merged(reg[id], g.reqs[id]) =
             [body |-> reg[id], history |-> Append(g.reqs[id].history, e),
              signoffs |-> g.reqs[id].signoffs]
      BY <3>1, <3>2, NodeUpdate
    <3>4. IsNode(Merged(reg[id], g.reqs[id]))
      BY <3>1, <3>3, TrailAppend DEF IsNode
    <3> QED BY <2>3, <3>1, <3>4 DEF Projected
  <2> QED BY <2>1, <2>2, <2>3
<1>3. /\ DOMAIN Projected(g.reqs, reg) = DOMAIN g.reqs \union DOMAIN reg
      /\ Projected(g.reqs, reg) = [id \in DOMAIN g.reqs \union DOMAIN reg |-> Projected(g.reqs, reg)[id]]
  BY DEF Projected
<1> QED BY <1>1, <1>2, <1>3 DEF IsGraph

\* The bodies of the registry, field for field; the node itself where nothing differs.
LEMMA SyncedIs ==
    ASSUME NEW g, IsGraph(g), NEW reg, NEW people
    PROVE  LET t == Synced(g, reg, people)
           IN  /\ DOMAIN t.reqs = DOMAIN g.reqs \union DOMAIN reg
               /\ \A id \in DOMAIN reg : \A f \in Fields : t.reqs[id].body[f] = reg[id][f]
               /\ \A id \in DOMAIN g.reqs : id \notin DOMAIN reg => t.reqs[id] = g.reqs[id]
               /\ \A id \in DOMAIN g.reqs \intersect DOMAIN reg :
                     Diffs(reg[id], g.reqs[id].body) = {} => t.reqs[id] = g.reqs[id]
               /\ \A id \in DOMAIN reg :
                     t.reqs[id].body = reg[id] \/ (/\ id \in DOMAIN g.reqs
                                                   /\ Diffs(reg[id], g.reqs[id].body) = {}
                                                   /\ t.reqs[id] = g.reqs[id])
<1> DEFINE t == Synced(g, reg, people)
<1>1. t.reqs = Projected(g.reqs, reg)
  BY SyncedIsGraph
<1>2. ASSUME NEW id \in DOMAIN reg
      PROVE  t.reqs[id].body = reg[id] \/ (/\ id \in DOMAIN g.reqs
                                           /\ Diffs(reg[id], g.reqs[id].body) = {}
                                           /\ t.reqs[id] = g.reqs[id])
  <2>1. CASE id \notin DOMAIN g.reqs
    BY <1>1, <1>2, <2>1 DEF Projected, Created
  <2>2. CASE id \in DOMAIN g.reqs
    <3>1. IsNode(g.reqs[id])
      BY <2>2 DEF IsGraph
    <3>2. Merged(reg[id], g.reqs[id]).body = reg[id]
      BY <3>1 DEF Merged, IsNode
    <3> QED BY <1>1, <1>2, <2>2, <3>2 DEF Projected
  <2> QED BY <2>1, <2>2
<1>3. \A id \in DOMAIN reg : \A f \in Fields : t.reqs[id].body[f] = reg[id][f]
  BY <1>2 DEF Diffs
<1> QED BY <1>1, <1>2, <1>3 DEF Projected

\* Acknowledging appends one entry to the journals of the flagged.
LEMMA AckedIs ==
    ASSUME NEW g, IsGraph(g), NEW report, NEW ack
    PROVE  LET t == Acked(g, report, ack)
           IN  /\ IsGraph(t) /\ t.people = g.people /\ t.open = g.open
               /\ DOMAIN t.reqs = DOMAIN g.reqs
               /\ AppendOnly(g, t)
               /\ \A id \in DOMAIN g.reqs :
                     /\ t.reqs[id].body = g.reqs[id].body
                     /\ id \notin Blockers(g, report) => t.reqs[id] = g.reqs[id]
                     /\ id \in Blockers(g, report) =>
                           Last(t.reqs[id].history) = [by |-> "ack", ack |-> ack]
<1> DEFINE e == [by |-> "ack", ack |-> ack]
           F == Blockers(g, report)
           R == [id \in DOMAIN g.reqs |->
                   IF id \in F THEN [g.reqs[id] EXCEPT !.history = Append(@, e)] ELSE g.reqs[id]]
           t == Acked(g, report, ack)
<1>1. t = [reqs |-> R, people |-> g.people, open |-> g.open]
  <2>1. t = [g EXCEPT !.reqs = R]
    BY DEF Acked
  <2> HIDE DEF R, t
  <2> QED BY <2>1, GraphUpdate
<1>2. ASSUME NEW id \in DOMAIN g.reqs
      PROVE  /\ IsNode(R[id]) /\ R[id].body = g.reqs[id].body
             /\ IsPrefix(g.reqs[id].history, R[id].history)
             /\ R[id].signoffs = g.reqs[id].signoffs
             /\ id \notin F => R[id] = g.reqs[id]
             /\ id \in F => Last(R[id].history) = e
  <2>1. IsNode(g.reqs[id])
    BY <1>2 DEF IsGraph
  <2>2. CASE id \notin F
    BY <1>2, <2>1, <2>2, TrailIsPrefix DEF IsNode
  <2>3. CASE id \in F
    <3>1. R[id] = [body |-> g.reqs[id].body, history |-> Append(g.reqs[id].history, e),
                   signoffs |-> g.reqs[id].signoffs]
      BY <1>2, <2>1, <2>3 DEF IsNode
    <3> HIDE DEF R, e, F
    <3> QED BY <2>1, <2>3, <3>1, TrailAppend DEF IsNode
  <2> QED BY <2>2, <2>3
<1>3. DOMAIN R = DOMAIN g.reqs /\ R = [id \in DOMAIN R |-> R[id]]
  OBVIOUS
<1> HIDE DEF R, e, F
<1> QED BY <1>1, <1>2, <1>3 DEF IsGraph, AppendOnly, F, e

-----------------------------------------------------------------------------
(* A run *)

\* From the derivation on, nothing that stands is without an atom.
AtomsKept ==
    manifest.atoms =>
        \A id \in DOMAIN op.before.reqs :
            op.before.reqs[id].body.status # "REJECTED" => id \in DOMAIN op.reg

\* From the judgement on, the token is of this very sync, and it passed.
Judged ==
    /\ op.token.base = op.before
    /\ op.token.report = Report(op.before, op.reg)
    /\ op.token.people = Unknown(op.before, op.people)
    /\ ConfrontPasses(After, op.token.report, op.ack)
    /\ AppendOnly(op.before, After)

AckedGraph == IF HasAck(op.ack) THEN Acked(After, op.token.report, op.ack) ELSE After

Middle == {"dumped", "derived", "judged", "written", "acknowledged"}

Stage ==
    /\ op.at \in Middle \union {"landed"} => IsGraph(op.before)
    /\ op.at \in {"dumped", "derived", "judged"} => graph = op.before
    /\ op.at \in {"derived", "judged", "written", "acknowledged", "landed"} => AtomsKept
    /\ op.at \in {"judged", "written", "acknowledged", "landed"} => Judged
    /\ op.at = "written" => graph = After
    /\ op.at \in {"acknowledged", "landed"} => graph = AckedGraph

Inv == TypeOK /\ Stage

LEMMA EndedType ==
    ASSUME NEW how \in Endings
    PROVE  LET o == Ended(how)
           IN  /\ o = [at |-> o.at, token |-> o.token, ack |-> o.ack, before |-> o.before,
                       hand |-> o.hand, people |-> o.people, reg |-> o.reg, bad |-> o.bad]
               /\ o.at = how /\ o.ack = NoAck
  BY DEF Ended

LEMMA InvInit == Init => Inv
<1> SUFFICES ASSUME Init PROVE Inv
  OBVIOUS
<1>1. op.at = "idle"
  BY EndedType DEF Init, Endings
<1>2. TypeOK
  <2>1. IsGraph(graph)
    BY SyncAssumption DEF Init
  <2>2. /\ op = [at |-> op.at, token |-> op.token, ack |-> op.ack, before |-> op.before,
                 hand |-> op.hand, people |-> op.people, reg |-> op.reg, bad |-> op.bad]
        /\ op.ack = NoAck
    BY EndedType DEF Init, Endings
  <2>3. edits \in 0..MaxEdits /\ lands \in 0..MaxLands /\ runs \in 0..MaxRuns
    BY SyncAssumption DEF Init
  <2>4. manifest \in Manifests /\ code \in Codes[manifest]
    BY DEF Init
  <2> QED BY <1>1, <2>1, <2>2, <2>3, <2>4 DEF TypeOK, Endings
<1> QED BY <1>1, <1>2 DEF Inv, Stage, Middle

\* Every step that ends a run, and every step of the others between runs.
LEMMA Rest ==
    ASSUME Inv, NEW how \in Endings \ {"landed"}, op' = Ended(how), IsGraph(graph'),
           UNCHANGED manifest, code' \in Codes[manifest],
           edits' \in 0..MaxEdits, lands' \in 0..MaxLands, runs' \in 0..MaxRuns
    PROVE  Inv'
<1>1. op'.at = how
  BY EndedType
<1>2. /\ op' = [at |-> op'.at, token |-> op'.token, ack |-> op'.ack, before |-> op'.before,
                hand |-> op'.hand, people |-> op'.people, reg |-> op'.reg, bad |-> op'.bad]
      /\ op'.ack = NoAck
  BY EndedType
<1>3. TypeOK'
  BY <1>1, <1>2 DEF Inv, TypeOK
<1> QED BY <1>1, <1>3 DEF Inv, Stage, Middle, Endings

\* A step of a run that only moves it on.
LEMMA OpUpdate ==
    ASSUME TypeOK, NEW place, NEW x
    PROVE  /\ [op EXCEPT !.at = place] =
                 [at |-> place, token |-> op.token, ack |-> op.ack, before |-> op.before,
                  hand |-> op.hand, people |-> op.people, reg |-> op.reg, bad |-> op.bad]
           /\ [op EXCEPT !.at = place, !.reg = x] =
                 [at |-> place, token |-> op.token, ack |-> op.ack, before |-> op.before,
                  hand |-> op.hand, people |-> op.people, reg |-> x, bad |-> op.bad]
           /\ [op EXCEPT !.at = place, !.bad = x] =
                 [at |-> place, token |-> op.token, ack |-> op.ack, before |-> op.before,
                  hand |-> op.hand, people |-> op.people, reg |-> op.reg, bad |-> x]
<1> DEFINE o == [op EXCEPT !.at = place]
<1>1. o = [at |-> place, token |-> op.token, ack |-> op.ack, before |-> op.before,
           hand |-> op.hand, people |-> op.people, reg |-> op.reg, bad |-> op.bad]
  BY DEF TypeOK
<1>2. /\ [op EXCEPT !.at = place, !.reg = x] = [o EXCEPT !.reg = x]
      /\ [op EXCEPT !.at = place, !.bad = x] = [o EXCEPT !.bad = x]
  BY DEF TypeOK
<1>3. /\ o.at = place /\ o.token = op.token /\ o.ack = op.ack /\ o.before = op.before
      /\ o.hand = op.hand /\ o.people = op.people /\ o.reg = op.reg /\ o.bad = op.bad
  BY <1>1
<1> HIDE DEF o
<1>4. [o EXCEPT !.reg = x] =
         [at |-> place, token |-> op.token, ack |-> op.ack, before |-> op.before,
          hand |-> op.hand, people |-> op.people, reg |-> x, bad |-> op.bad]
  BY <1>1, <1>3
<1>5. [o EXCEPT !.bad = x] =
         [at |-> place, token |-> op.token, ack |-> op.ack, before |-> op.before,
          hand |-> op.hand, people |-> op.people, reg |-> op.reg, bad |-> x]
  BY <1>1, <1>3
<1> QED BY <1>1, <1>2, <1>4, <1>5 DEF o

LEMMA DumpInv ==
    ASSUME Inv, NEW token, NEW ack \in Acks \union {NoAck}, Dump(token, ack)
    PROVE  Inv'
<1>0. runs' \in 0..MaxRuns
  <2>1. runs \in 0..MaxRuns /\ runs < MaxRuns /\ runs' = runs + 1 /\ MaxRuns \in Nat
    BY SyncAssumption DEF Dump, Inv, TypeOK
  <2> QED BY <2>1
<1>1. CASE ~code.builds
  BY <1>0, <1>1, Rest DEF Dump, Inv, TypeOK, Endings
<1>2. CASE code.builds
  <2>1. op' = [at |-> "dumped", token |-> token, ack |-> ack, before |-> graph,
               hand |-> code.hand, people |-> code.people, reg |-> None, bad |-> {}]
    BY <1>2 DEF Dump, Ended
  <2>2. TypeOK'
    <3>1. /\ op' = [at |-> op'.at, token |-> op'.token, ack |-> op'.ack, before |-> op'.before,
                    hand |-> op'.hand, people |-> op'.people, reg |-> op'.reg, bad |-> op'.bad]
          /\ op'.at = "dumped" /\ op'.ack = ack
      BY <2>1
    <3>2. IsGraph(graph')
      BY DEF Dump, Inv, TypeOK
    <3> QED BY <1>0, <3>1, <3>2 DEF Dump, Inv, TypeOK
  <2> QED BY <2>1, <2>2 DEF Dump, Inv, Stage, TypeOK, Middle
<1> QED BY <1>1, <1>2

LEMMA DeriveInv ==
    ASSUME Inv, NEW bad, Derive(bad)
    PROVE  Inv'
<1> DEFINE found == DiscoverAtoms(op.hand, code, bad)
           lost == \E id \in DOMAIN op.before.reqs :
                      /\ op.before.reqs[id].body.status # "REJECTED"
                      /\ id \notin DOMAIN found.reg
           reg == IF manifest.atoms THEN found.reg
                  ELSE IF manifest.full THEN WithDerivedClaims(op.hand, code, bad) ELSE op.hand
<1>1. CASE op' = Ended("refused")
  BY <1>1, Rest DEF Derive, Inv, TypeOK, Endings
<1>2. CASE op' = [op EXCEPT !.at = "derived", !.reg = reg] /\ ~(manifest.atoms /\ lost)
  <2>1. op' = [at |-> "derived", token |-> op.token, ack |-> op.ack, before |-> op.before,
               hand |-> op.hand, people |-> op.people, reg |-> reg, bad |-> op.bad]
    <3> HIDE DEF reg
    <3> QED BY <1>2, OpUpdate DEF Inv
  <2>2. manifest.atoms => reg = found.reg
    OBVIOUS
  <2>3. manifest.atoms =>
           \A id \in DOMAIN op.before.reqs :
              op.before.reqs[id].body.status # "REJECTED" => id \in DOMAIN reg
    BY <1>2, <2>2
  <2> HIDE DEF reg, found
  <2>4. /\ op'.at = "derived" /\ op'.ack = op.ack /\ op'.before = op.before /\ op'.reg = reg
        /\ op' = [at |-> op'.at, token |-> op'.token, ack |-> op'.ack, before |-> op'.before,
                  hand |-> op'.hand, people |-> op'.people, reg |-> op'.reg, bad |-> op'.bad]
    BY <2>1
  <2>5. TypeOK'
    BY <2>4 DEF Derive, Inv, TypeOK
  <2>6. AtomsKept'
    BY <2>3, <2>4 DEF AtomsKept, Derive
  <2> QED BY <2>4, <2>5, <2>6 DEF Derive, Inv, Stage, Middle
<1> QED BY <1>1, <1>2 DEF Derive

LEMMA ShowInv == ASSUME Inv, Show PROVE Inv'
  BY Rest DEF Show, Inv, TypeOK, Endings

LEMMA MoveOn ==
    ASSUME TypeOK, NEW place \in Middle \union {"landed"}, NEW x,
           op' = [op EXCEPT !.at = place] \/ op' = [op EXCEPT !.at = place, !.bad = x],
           UNCHANGED <<manifest, code, edits, lands, runs>>, IsGraph(graph')
    PROVE  /\ TypeOK'
           /\ op'.at = place /\ op'.token = op.token /\ op'.ack = op.ack /\ op'.before = op.before
           /\ op'.people = op.people /\ op'.reg = op.reg
           /\ After' = After /\ AtomsKept' = AtomsKept /\ AckedGraph' = AckedGraph
           /\ Judged => Judged'
<1>1. /\ op'.at = place /\ op'.token = op.token /\ op'.ack = op.ack /\ op'.before = op.before
      /\ op'.people = op.people /\ op'.reg = op.reg
      /\ op' = [at |-> op'.at, token |-> op'.token, ack |-> op'.ack, before |-> op'.before,
                hand |-> op'.hand, people |-> op'.people, reg |-> op'.reg, bad |-> op'.bad]
  BY OpUpdate
<1>2. TypeOK'
  BY <1>1 DEF TypeOK, Middle, Endings
<1>3. After' = After /\ AtomsKept' = AtomsKept
  BY <1>1 DEF After, AtomsKept
<1>4. AckedGraph' = AckedGraph /\ (Judged => Judged')
  BY <1>1, <1>3 DEF AckedGraph, Judged
<1> QED BY <1>1, <1>2, <1>3, <1>4

LEMMA JudgeInv == ASSUME Inv, Judge PROVE Inv'
<1>1. CASE op' = Ended("refused")
  BY <1>1, Rest DEF Judge, Inv, TypeOK, Endings
<1>2. CASE /\ op' = [op EXCEPT !.at = "judged"]
           /\ Hash(op.token) = Hash(Found)
           /\ GatesPass(op.before, After, Found.report, op.ack)
  <2>1. op.at = "derived" /\ graph = op.before /\ AtomsKept /\ IsGraph(op.before)
    BY DEF Judge, Inv, Stage, Middle
  <2>2. Judged
    BY <1>2, <2>1 DEF Hash, Found, GatesPass, Judged
  <2>3. /\ TypeOK' /\ op'.at = "judged" /\ op'.before = op.before /\ graph' = graph
        /\ AtomsKept' /\ Judged'
    BY <1>2, <2>1, <2>2, MoveOn DEF Judge, Inv, TypeOK, Middle
  <2> QED BY <2>1, <2>3 DEF Inv, Stage, Middle
<1> QED BY <1>1, <1>2 DEF Judge

LEMMA AfterIsGraph ==
    ASSUME IsGraph(op.before)
    PROVE  IsGraph(After)
  BY SyncedIsGraph DEF After

LEMMA WriteInv == ASSUME Inv, Write PROVE Inv'
<1>1. /\ op.at = "judged" /\ AtomsKept /\ Judged /\ IsGraph(op.before) /\ IsGraph(graph)
      /\ IsGraph(After)
  BY AfterIsGraph DEF Write, Inv, Stage, Middle, TypeOK
<1>2. CASE graph' = After /\ op' = [op EXCEPT !.at = "written"]
  <2>1. /\ TypeOK' /\ op'.at = "written" /\ op'.before = op.before /\ graph' = After'
        /\ AtomsKept' /\ Judged'
    BY <1>1, <1>2, MoveOn DEF Write, Inv, Middle
  <2> QED BY <1>1, <2>1 DEF Inv, Stage, Middle
<1>3. CASE graph' \in {graph, After} /\ op' = Ended("failed")
  BY <1>1, <1>3, Rest DEF Write, Inv, TypeOK, Endings
<1> QED BY <1>2, <1>3 DEF Write

LEMMA RollBackInv ==
    ASSUME Inv, op.at \in Middle, RollBack, UNCHANGED <<manifest, code, edits, lands, runs>>
    PROVE  Inv'
  BY Rest DEF RollBack, Inv, Stage, TypeOK, Endings

LEMMA AcknowledgeInv == ASSUME Inv, Acknowledge PROVE Inv'
<1>1. /\ op.at = "written" /\ AtomsKept /\ Judged /\ IsGraph(op.before) /\ graph = After
      /\ IsGraph(After)
  BY AfterIsGraph DEF Acknowledge, Inv, Stage, Middle
<1>2. CASE /\ graph' = IF HasAck(op.ack) THEN Acked(graph, op.token.report, op.ack) ELSE graph
           /\ op' = [op EXCEPT !.at = "acknowledged"]
  <2>1. graph' = AckedGraph /\ IsGraph(graph')
    BY <1>1, <1>2, AckedIs DEF AckedGraph
  <2>2. /\ TypeOK' /\ op'.at = "acknowledged" /\ op'.before = op.before /\ graph' = AckedGraph'
        /\ AtomsKept' /\ Judged'
    BY <1>1, <1>2, <2>1, MoveOn DEF Acknowledge, Inv, Middle
  <2> QED BY <1>1, <2>2 DEF Inv, Stage, Middle
<1>3. CASE RollBack
  BY <1>1, <1>3, RollBackInv DEF Acknowledge, Middle
<1> QED BY <1>2, <1>3 DEF Acknowledge

LEMMA VerifyInv == ASSUME Inv, NEW bad, Verify(bad) PROVE Inv'
<1>1. /\ op.at = "acknowledged" /\ AtomsKept /\ Judged /\ IsGraph(op.before)
      /\ graph = AckedGraph /\ IsGraph(graph)
  BY DEF Verify, Inv, Stage, Middle, TypeOK
<1>2. CASE op' = [op EXCEPT !.at = "landed", !.bad = bad] /\ UNCHANGED graph
  <2>1. /\ TypeOK' /\ op'.at = "landed" /\ op'.before = op.before /\ graph' = AckedGraph'
        /\ AtomsKept' /\ Judged'
    BY <1>1, <1>2, MoveOn DEF Verify, Inv, Middle
  <2> QED BY <1>1, <2>1 DEF Inv, Stage, Middle
<1>3. CASE RollBack
  BY <1>1, <1>3, RollBackInv DEF Verify, Middle
<1> QED BY <1>2, <1>3 DEF Verify

LEMMA SignedOffIs ==
    ASSUME NEW n, IsNode(n), NEW x
    PROVE  SignedOff(n, x) = [body |-> n.body, history |-> Append(n.history, [by |-> "land"]),
                              signoffs |-> n.signoffs \union {x}]
<1> DEFINE h == Append(n.history, [by |-> "land"])
           k == [n EXCEPT !.history = h]
<1> HIDE DEF h
<1>1. k = [body |-> n.body, history |-> h, signoffs |-> n.signoffs]
  BY DEF IsNode
<1>2. k.body = n.body /\ k.history = h /\ k.signoffs = n.signoffs
  BY <1>1
<1>3. SignedOff(n, x) = [k EXCEPT !.signoffs = n.signoffs \union {x}]
  BY DEF SignedOff, IsNode, h
<1> HIDE DEF k
<1> QED BY <1>1, <1>2, <1>3 DEF h

LEMMA LandOtherInv ==
    ASSUME Inv, LandOther
    PROVE  Inv' /\ AppendOnly(graph, graph') /\ graph'.people = graph.people
<1>1. IsGraph(graph)
  BY DEF Inv, TypeOK
<1>2. ASSUME NEW id \in DOMAIN graph.reqs,
             graph' = [graph EXCEPT !.reqs[id] = SignedOff(@, lands')]
      PROVE  IsGraph(graph') /\ AppendOnly(graph, graph') /\ graph'.people = graph.people
  <2> DEFINE n == graph.reqs[id]
             m == [body |-> n.body, history |-> Append(n.history, [by |-> "land"]),
                   signoffs |-> n.signoffs \union {lands'}]
             R == [i \in DOMAIN graph.reqs |-> IF i = id THEN m ELSE graph.reqs[i]]
  <2>1. IsNode(n)
    BY <1>1 DEF IsGraph
  <2>2. IsNode(m) /\ IsPrefix(n.history, m.history)
    BY <2>1, TrailAppend DEF IsNode
  <2>3. graph' = [reqs |-> R, people |-> graph.people, open |-> graph.open]
    <3>1. SignedOff(n, lands') = m
      BY <2>1, SignedOffIs
    <3>2. [graph.reqs EXCEPT ![id] = m] = R
      BY <1>1 DEF IsGraph
    <3>3. graph' = [graph EXCEPT !.reqs = [graph.reqs EXCEPT ![id] = SignedOff(n, lands')]]
      BY <1>2
    <3> HIDE DEF R, m, n
    <3> QED BY <1>1, <3>1, <3>2, <3>3, GraphUpdate
  <2>4. DOMAIN R = DOMAIN graph.reqs /\ R[id] = m /\ R = [i \in DOMAIN R |-> R[i]]
        /\ \A i \in DOMAIN R : i # id => R[i] = graph.reqs[i]
    OBVIOUS
  <2> HIDE DEF R, m, n
  <2>5. \A i \in DOMAIN R : IsNode(R[i]) /\ IsPrefix(graph.reqs[i].history, R[i].history)
                                       /\ graph.reqs[i].signoffs \subseteq R[i].signoffs
    BY <1>1, <2>2, <2>4, TrailIsPrefix DEF IsGraph, IsNode, m, n
  <2> QED BY <1>1, <2>3, <2>4, <2>5 DEF IsGraph, AppendOnly
<1>3. ASSUME NEW c \in Carriers,
             graph' = [graph EXCEPT !.open = IF c \in @ THEN @ \ {c} ELSE @ \union {c}]
      PROVE  IsGraph(graph') /\ AppendOnly(graph, graph') /\ graph'.people = graph.people
  <2> DEFINE O == IF c \in graph.open THEN graph.open \ {c} ELSE graph.open \union {c}
  <2>1. graph' = [graph EXCEPT !.open = O] /\ O \subseteq Carriers
    BY <1>1, <1>3 DEF IsGraph
  <2> HIDE DEF O
  <2>2. graph' = [reqs |-> graph.reqs, people |-> graph.people, open |-> O]
    BY <1>1, <2>1 DEF IsGraph
  <2>3. graph'.reqs = graph.reqs /\ graph'.people = graph.people /\ graph'.open = O
    BY <2>2
  <2>4. IsGraph(graph')
    BY <1>1, <2>1, <2>2, <2>3 DEF IsGraph
  <2>5. AppendOnly(graph, graph')
    BY <1>1, <2>3, GraphIsPrefix DEF AppendOnly
  <2> QED BY <2>3, <2>4, <2>5
<1>4. IsGraph(graph') /\ AppendOnly(graph, graph') /\ graph'.people = graph.people
  BY <1>2, <1>3 DEF LandOther
<1>5. lands' \in 0..MaxLands
  <2>1. lands \in 0..MaxLands /\ lands < MaxLands /\ lands' = lands + 1 /\ MaxLands \in Nat
    BY SyncAssumption DEF LandOther, Inv, TypeOK
  <2> QED BY <2>1
<1>6. Inv'
  BY <1>4, <1>5, Rest DEF LandOther, Inv, TypeOK, Endings
<1> QED BY <1>4, <1>6

LEMMA EditCodeInv == ASSUME Inv, EditCode PROVE Inv'
<1>1. edits' \in 0..MaxEdits
  <2>1. edits \in 0..MaxEdits /\ edits < MaxEdits /\ edits' = edits + 1 /\ MaxEdits \in Nat
    BY SyncAssumption DEF EditCode, Inv, TypeOK
  <2> QED BY <2>1
<1>2. TypeOK'
  BY <1>1 DEF EditCode, Inv, TypeOK
<1>3. After' = After /\ AtomsKept' = AtomsKept /\ AckedGraph' = AckedGraph /\ Judged' = Judged
  BY DEF EditCode, After, AtomsKept, AckedGraph, Judged
<1> QED BY <1>2, <1>3 DEF EditCode, Inv, Stage

LEMMA InvStep == Inv /\ [Next]_vars => Inv'
<1> SUFFICES ASSUME Inv, [Next]_vars PROVE Inv'
  OBVIOUS
<1>1. CASE Present
  BY <1>1, DumpInv DEF Present
<1>2. ASSUME NEW ack \in Acks, Confirm(ack) PROVE Inv'
  BY <1>2, DumpInv DEF Confirm
<1>3. ASSUME NEW bad \in SUBSET Flaky, Derive(bad) \/ Verify(bad) PROVE Inv'
  BY <1>3, DeriveInv, VerifyInv
<1>4. CASE Crash
  BY <1>4, Rest DEF Crash, Inv, TypeOK, Endings
<1>5. CASE UNCHANGED vars
  <2>1. After' = After /\ AtomsKept' = AtomsKept /\ AckedGraph' = AckedGraph /\ Judged' = Judged
    BY <1>5 DEF vars, After, AtomsKept, AckedGraph, Judged
  <2> QED BY <1>5, <2>1 DEF vars, Inv, TypeOK, Stage
<1> QED BY <1>1, <1>2, <1>3, <1>4, <1>5, ShowInv, JudgeInv, WriteInv, AcknowledgeInv, EditCodeInv,
           LandOtherInv DEF Next

\* Graphs keep their shape and runs theirs.
THEOREM TypeCorrect == Spec => []TypeOK
<1>1. Inv => TypeOK
  BY DEF Inv
<1> QED BY <1>1, InvInit, InvStep, PTL DEF Spec

-----------------------------------------------------------------------------
(* What has landed *)

\* The landed graph against the synced one: bodies, people and Conflicts are
\* the same; the journals are those of the acknowledgement.
LEMMA LandedIs ==
    ASSUME Inv, Landed
    PROVE  /\ IsGraph(op.before) /\ AtomsKept /\ Judged
           /\ graph.people = After.people /\ graph.open = After.open
           /\ DOMAIN graph.reqs = DOMAIN After.reqs
           /\ \A id \in DOMAIN After.reqs :
                 /\ graph.reqs[id].body = After.reqs[id].body
                 /\ id \notin Blockers(After, op.token.report) => graph.reqs[id] = After.reqs[id]
           /\ HasAck(op.ack) =>
                 \A id \in DOMAIN After.reqs \intersect Blockers(After, op.token.report) :
                    Last(graph.reqs[id].history) = [by |-> "ack", ack |-> op.ack]
<1>1. IsGraph(op.before) /\ AtomsKept /\ Judged /\ graph = AckedGraph
  BY DEF Landed, Inv, Stage
<1>2. IsGraph(After)
  BY <1>1, AfterIsGraph
<1>3. CASE HasAck(op.ack)
  <2>1. graph = Acked(After, op.token.report, op.ack)
    BY <1>1, <1>3 DEF AckedGraph
  <2> QED BY <1>1, <1>2, <2>1, AckedIs
<1>4. CASE ~HasAck(op.ack)
  BY <1>1, <1>4 DEF AckedGraph
<1> QED BY <1>3, <1>4

LEMMA AfterIs ==
    ASSUME IsGraph(op.before)
    PROVE  /\ DOMAIN After.reqs = DOMAIN op.before.reqs \union DOMAIN op.reg
           /\ \A id \in DOMAIN op.reg : \A f \in Fields : After.reqs[id].body[f] = op.reg[id][f]
           /\ \A id \in DOMAIN op.before.reqs : id \notin DOMAIN op.reg =>
                 After.reqs[id] = op.before.reqs[id]
           /\ \A id \in DOMAIN op.before.reqs \intersect DOMAIN op.reg :
                 Diffs(op.reg[id], op.before.reqs[id].body) = {} => After.reqs[id] = op.before.reqs[id]
           /\ After.people = WithPeople(op.before, op.people)
           /\ After.open = op.before.open
  BY SyncedIs, SyncedIsGraph DEF After

\* A landed sync leaves the graph saying what the code said, through the
\* derivation, the projection and the acknowledgement (property LandedIsCode).
THEOREM SyncLandsTheCode == Spec => []LandedIsCode
<1>1. Inv => LandedIsCode
  <2> SUFFICES ASSUME Inv, Landed
               PROVE  /\ \A id \in DOMAIN op.reg :
                            id \in DOMAIN graph.reqs /\
                            \A f \in Fields : graph.reqs[id].body[f] = op.reg[id][f]
                      /\ DOMAIN op.people \subseteq DOMAIN graph.people
                      /\ manifest.atoms =>
                            \A id \in DOMAIN graph.reqs :
                               graph.reqs[id].body.status # "REJECTED" => id \in DOMAIN op.reg
    BY DEF LandedIsCode
  <2>1. IsGraph(op.before)
    BY LandedIs
  <2>2. \A id \in DOMAIN op.reg :
           id \in DOMAIN graph.reqs /\ \A f \in Fields : graph.reqs[id].body[f] = op.reg[id][f]
    BY <2>1, LandedIs, AfterIs
  <2>3. DOMAIN op.people \subseteq DOMAIN graph.people
    BY <2>1, LandedIs, AfterIs DEF WithPeople
  <2>4. ASSUME manifest.atoms, NEW id \in DOMAIN graph.reqs,
               graph.reqs[id].body.status # "REJECTED", id \notin DOMAIN op.reg
        PROVE  FALSE
    <3>1. id \in DOMAIN op.before.reqs /\ graph.reqs[id].body = op.before.reqs[id].body
      BY <2>1, <2>4, LandedIs, AfterIs
    <3> QED BY <2>4, <3>1, LandedIs DEF AtomsKept
  <2> QED BY <2>2, <2>3, <2>4
<1> QED BY <1>1, InvInit, InvStep, PTL DEF Spec

\* Whatever was edited or landed since the dry run, a landed sync changes what
\* was presented and nothing else (property OnlyPresentedChanges).
THEOREM OnlyThePresentedLands == Spec => []OnlyPresentedChanges
<1>1. Inv => OnlyPresentedChanges
  <2> SUFFICES ASSUME Inv, Landed PROVE OnlyPresentedChanges
    BY DEF OnlyPresentedChanges
  <2> DEFINE old == op.before.reqs
             report == Report(op.before, op.reg)
  <2>1. /\ IsGraph(op.before) /\ op.token.base = op.before /\ op.token.report = report
        /\ op.token.people = Unknown(op.before, op.people)
    BY LandedIs DEF Judged
  <2>2. /\ report.added = DOMAIN op.reg \ DOMAIN old
        /\ DOMAIN report.changed =
              {id \in DOMAIN op.reg \intersect DOMAIN old : Diffs(op.reg[id], old[id].body) # {}}
        /\ \A id \in DOMAIN report.changed :
              /\ DOMAIN report.changed[id] = Diffs(op.reg[id], old[id].body)
              /\ \A f \in DOMAIN report.changed[id] : report.changed[id][f].new = op.reg[id][f]
    BY DEF Report
  <2>3. DOMAIN graph.reqs = DOMAIN old \union report.added
    BY <2>1, <2>2, LandedIs, AfterIs
  <2>4. ASSUME NEW id \in DOMAIN old, NEW f \in Fields
        PROVE  graph.reqs[id].body[f] =
                  IF id \in DOMAIN report.changed /\ f \in DOMAIN report.changed[id]
                  THEN report.changed[id][f].new ELSE old[id].body[f]
    <3>1. graph.reqs[id].body = After.reqs[id].body
      BY <2>1, <2>4, LandedIs, AfterIs
    <3>2. CASE id \notin DOMAIN op.reg
      BY <2>1, <2>2, <2>4, <3>1, <3>2, AfterIs
    <3>3. CASE id \in DOMAIN op.reg
      <4>1. After.reqs[id].body[f] = op.reg[id][f]
        BY <2>1, <3>3, AfterIs
      <4>2. f \in Diffs(op.reg[id], old[id].body) \/ op.reg[id][f] = old[id].body[f]
        BY DEF Diffs
      <4> HIDE DEF old, report
      <4> QED BY <2>2, <2>4, <3>1, <3>3, <4>1, <4>2
    <3> QED BY <3>2, <3>3
  <2>5. ASSUME NEW id \in DOMAIN old, id \notin DOMAIN report.changed
        PROVE  graph.reqs[id] = old[id]
    <3>1. After.reqs[id] = old[id]
      BY <2>1, <2>2, <2>5, AfterIs
    <3>2. id \notin Blockers(After, report)
      BY <2>2, <2>5 DEF Blockers, Confronted
    <3> QED BY <2>1, <3>1, <3>2, LandedIs, AfterIs
  <2>6. \A p \in DOMAIN graph.people :
           graph.people[p] = IF p \in DOMAIN op.before.people THEN op.before.people[p]
                             ELSE op.token.people[p]
    BY <2>1, LandedIs, AfterIs DEF WithPeople, Unknown
  <2> HIDE DEF old, report
  <2> QED BY <2>1, <2>3, <2>4, <2>5, <2>6 DEF OnlyPresentedChanges, old
<1> QED BY <1>1, InvInit, InvStep, PTL DEF Spec

\* A claim that changed under an open Conflict has its acknowledgement on
\* record (property ConflictsAcknowledged).
THEOREM ConflictsAreAcknowledged == Spec => []ConflictsAcknowledged
<1>1. Inv => ConflictsAcknowledged
  <2> SUFFICES ASSUME Inv, Landed,
                      NEW c \in graph.open, NEW id \in DOMAIN op.before.reqs,
                      id \in c.members, c.members # {id},
                      graph.reqs[id].body.claim # op.before.reqs[id].body.claim
               PROVE  /\ Last(graph.reqs[id].history).by = "ack"
                      /\ \/ Last(graph.reqs[id].history).ack.decision
                         \/ \E d \in graph.open : /\ d.id = Last(graph.reqs[id].history).ack.conflict
                                                  /\ id \in d.members
    BY DEF ConflictsAcknowledged
  <2> DEFINE report == op.token.report
  <2>1. /\ IsGraph(op.before) /\ report = Report(op.before, op.reg)
        /\ ConfrontPasses(After, report, op.ack) /\ graph.open = After.open
    BY LandedIs DEF Judged
  <2>2. id \in DOMAIN After.reqs /\ graph.reqs[id].body = After.reqs[id].body
    BY <2>1, LandedIs, AfterIs
  <2>3. id \in Confronted(report)
    <3>1. id \in DOMAIN op.reg /\ op.reg[id].claim # op.before.reqs[id].body.claim
      <4>1. id \in DOMAIN op.reg
        BY <2>1, <2>2, AfterIs
      <4>2. After.reqs[id].body.claim = op.reg[id].claim
        BY <2>1, <4>1, AfterIs DEF Fields
      <4> QED BY <2>2, <4>1, <4>2
    <3>2. "claim" \in Diffs(op.reg[id], op.before.reqs[id].body)
      BY <3>1 DEF Diffs, Fields
    <3>3. id \in DOMAIN report.changed
      BY <2>1, <3>1, <3>2 DEF Report
    <3>4. DOMAIN report.changed[id] = Diffs(op.reg[id], op.before.reqs[id].body)
      BY <2>1, <3>1, <3>2 DEF Report
    <3> QED BY <3>2, <3>3, <3>4 DEF Confronted
  <2>4. PICK hit : hit \in Hits(After, id)
    <3>1. PICK hit \in c.members : hit # id
      OBVIOUS
    <3>2. c \in {d \in After.open : id \in d.members}
      BY <2>1
    <3>3. hit \in Hits(After, id)
      BY <3>1, <3>2 DEF Hits
    <3> QED BY <3>3
  <2>5. id \in Blockers(After, report)
    BY <2>3, <2>4 DEF Blockers
  <2>6. HasAck(op.ack) /\ Covers(After, op.ack, Blockers(After, report))
    BY <2>1, <2>5 DEF ConfrontPasses
  <2>7. Last(graph.reqs[id].history) = [by |-> "ack", ack |-> op.ack]
    BY <2>2, <2>5, <2>6, LandedIs
  <2>8. CASE op.ack.conflict # None
    BY <2>1, <2>4, <2>5, <2>6, <2>7, <2>8 DEF Covers
  <2>9. CASE op.ack.conflict = None
    <3>1. op.ack \in Acks
      BY <2>6 DEF Inv, TypeOK, HasAck
    <3>2. op.ack.decision
      BY <2>6, <2>9, <3>1 DEF Acks, HasAck, NoAck
    <3> QED BY <2>7, <3>2
  <2> QED BY <2>8, <2>9
<1> QED BY <1>1, InvInit, InvStep, PTL DEF Spec

-----------------------------------------------------------------------------
(* Journals *)

Keeps(g, h) ==
    AppendOnly(g, h) /\ \A p \in DOMAIN g.people : p \in DOMAIN h.people /\ h.people[p] = g.people[p]

LEMMA AfterKeeps ==
    ASSUME IsGraph(op.before), AppendOnly(op.before, After)
    PROVE  Keeps(op.before, After)
  BY AfterIs DEF Keeps, WithPeople

\* An acknowledgment extends the journals of the claims it names and leaves the rest alone.
LEMMA AckedKeeps ==
    ASSUME NEW g, IsGraph(g), NEW report, NEW ack
    PROVE  Keeps(g, Acked(g, report, ack))
<1> DEFINE t == Acked(g, report, ack)
<1>1. t.people = g.people
  BY DEF Acked, IsGraph
<1>2. AppendOnly(g, t)
  BY AckedIs DEF AppendOnly
<1> HIDE DEF t
<1>3. Keeps(g, t)
  BY <1>1, <1>2 DEF Keeps
<1> QED BY <1>3 DEF t

\* No step drops or rewrites an entry of a journal, a signoff or a
\* stakeholder but a rollback, which restores the graph of before
\* (property JournalsSurvive).
THEOREM JournalsAreKept == Spec => JournalsSurvive
<1>1. Inv /\ [Next]_vars => [\/ op'.at = "rolled back" /\ graph' = op.before
                             \/ Keeps(graph, graph')]_vars
  <2> SUFFICES ASSUME Inv, Next
               PROVE  (op'.at = "rolled back" /\ graph' = op.before) \/ Keeps(graph, graph')
    OBVIOUS
  <2>1. IsGraph(graph)
    BY DEF Inv, TypeOK
  <2>2. UNCHANGED graph => Keeps(graph, graph')
    BY <2>1, GraphIsPrefix DEF Keeps
  <2>3. RollBack => op'.at = "rolled back" /\ graph' = op.before
    BY EndedType DEF RollBack, Endings
  <2>4. CASE Write
    <3>1. graph = op.before /\ AppendOnly(op.before, After)
      BY <2>4 DEF Write, Inv, Stage, Judged
    <3> QED BY <2>1, <2>2, <2>4, <3>1, AfterKeeps DEF Write
  <2>5. CASE Acknowledge
    <3>1. graph' = Acked(graph, op.token.report, op.ack) => Keeps(graph, graph')
      BY <2>1, AckedKeeps
    <3>2. \/ graph' = Acked(graph, op.token.report, op.ack) \/ UNCHANGED graph
          \/ RollBack
      BY <2>5 DEF Acknowledge
    <3> QED BY <2>2, <2>3, <3>1, <3>2
  <2>6. ASSUME NEW bad, Verify(bad)
        PROVE  (op'.at = "rolled back" /\ graph' = op.before) \/ UNCHANGED graph
    BY <2>3, <2>6 DEF Verify
  <2>7. CASE LandOther
    BY <2>7, LandOtherInv DEF Keeps
  <2> QED BY <2>2, <2>4, <2>5, <2>6, <2>7 DEF Next, Present, Confirm, Dump, Derive, Show, Judge,
             Crash, EditCode
<1> QED BY <1>1, InvInit, InvStep, PTL DEF Spec, JournalsSurvive, Keeps
-----------------------------------------------------------------------------
(* Folds.  The titles of a test and the claim of a requirement are folds of *)
(* sequences, which are defined by recursion over sets of places.  What     *)
(* they are follows by induction: a set of numbers that is not empty has a  *)
(* least one (LeastOf), so a set that is closed upwards has all (UpTo).     *)

LEMMA LeastOf ==
    ASSUME NEW T \in SUBSET Nat, T # {}
    PROVE  \E x \in T : \A y \in T : x <= y
<1>1. PICK x \in T : \A y \in T : <<y, x>> \notin OpToRel(<, Nat)
  BY NatLessThanWellFounded, WFMin
<1>2. ASSUME NEW y \in T
      PROVE  x <= y
  <2>1. y \in Nat /\ x \in Nat
    OBVIOUS
  <2>2. ~(y < x)
    BY <1>1, <2>1 DEF OpToRel
  <2> QED BY ONLY <2>1, <2>2
<1> QED BY <1>2

LEMMA UpTo ==
    ASSUME NEW n \in Nat, NEW P, 0 \in P, \A k \in 1..n : k - 1 \in P => k \in P
    PROVE  \A k \in 0..n : k \in P
<1> DEFINE bad == {k \in 0..n : k \notin P}
<1> SUFFICES ASSUME bad # {} PROVE FALSE
  OBVIOUS
<1>1. bad \in SUBSET Nat
  OBVIOUS
<1>2. PICK k \in bad : \A m \in bad : k <= m
  <2> HIDE DEF bad
  <2> QED BY <1>1, LeastOf
<1>3. k \in 1..n
  OBVIOUS
<1>4. k - 1 \in 0..n /\ ~(k <= k - 1)
  BY <1>3
<1> QED BY <1>2, <1>3, <1>4

LEMMA GreatestOf ==
    ASSUME NEW n \in Nat, NEW s \in SUBSET (1..n), s # {}
    PROVE  Max(s) \in s /\ \A y \in s : Max(s) >= y
<1> DEFINE bounds == {k \in Nat : \A y \in s : k >= y}
<1>1. PICK k \in bounds : \A j \in bounds : k <= j
  <2>1. n \in bounds /\ bounds \in SUBSET Nat
    OBVIOUS
  <2> HIDE DEF bounds
  <2> QED BY <2>1, LeastOf
<1>2. k \in s
  <2>1. ASSUME k \notin s PROVE FALSE
    <3>1. \A y \in s : k >= y /\ y # k /\ y \in Nat /\ y >= 1
      BY <1>1, <2>1
    <3>2. k \in Nat /\ k >= 1
      <4>1. PICK y \in s : TRUE
        OBVIOUS
      <4> QED BY <1>1, <3>1, <4>1
    <3>3. k - 1 \in bounds
      BY <3>1, <3>2
    <3> QED BY <1>1, <3>2, <3>3
  <2> QED BY <2>1
<1>3. \E x \in s : \A y \in s : x >= y
  BY <1>1, <1>2
<1> QED BY <1>3 DEF Max

\* What a fold over the first n places is, for a step given as a function.
FoldOver(g, seq, step, base, n) ==
    \A s \in SUBSET (1..n) :
        g[s] = IF s = {} THEN base ELSE step[g[s \ {Max(s)}], seq[Max(s)]]

\* The function a recursion over the places of a sequence defines is there.
LEMMA FoldExists ==
    ASSUME NEW X, NEW V, NEW base \in V, NEW step \in [V \X X -> V],
           NEW len \in Nat, NEW seq \in [1..len -> X]
    PROVE  \E g \in [SUBSET (1..len) -> V] : FoldOver(g, seq, step, base, len)
<1> DEFINE P(n) == \E g \in [SUBSET (1..n) -> V] : FoldOver(g, seq, step, base, n)
<1>1. P(0)
  <2> DEFINE g == [s \in SUBSET (1..0) |-> base]
  <2>1. 1..0 = {}
    OBVIOUS
  <2>2. g \in [SUBSET (1..0) -> V] /\ FoldOver(g, seq, step, base, 0)
    BY <2>1 DEF FoldOver
  <2> QED BY <2>2
<1>2. ASSUME NEW n \in 1..len, P(n - 1)
      PROVE  P(n)
  <2>1. PICK g \in [SUBSET (1..n-1) -> V] : FoldOver(g, seq, step, base, n - 1)
    BY <1>2
  <2> DEFINE h == [s \in SUBSET (1..n) |-> IF s \subseteq 1..n-1 THEN g[s]
                                           ELSE step[g[s \ {n}], seq[n]]]
  <2>2. seq[n] \in X /\ n \in Nat
    OBVIOUS
  <2>3. ASSUME NEW s \in SUBSET (1..n)
        PROVE  s \ {n} \in SUBSET (1..n-1)
    OBVIOUS
  <2>4. h \in [SUBSET (1..n) -> V]
    <3>1. ASSUME NEW s \in SUBSET (1..n) PROVE h[s] \in V
      <4>1. CASE s \subseteq 1..n-1
        BY <4>1, <2>1
      <4>2. CASE ~(s \subseteq 1..n-1)
        <5>1. g[s \ {n}] \in V
          BY <2>1, <2>3
        <5>2. step[g[s \ {n}], seq[n]] \in V
          BY <5>1, <2>2
        <5> QED BY <4>2, <5>2
      <4> QED BY <4>1, <4>2
    <3> QED BY <3>1
  <2>5. ASSUME NEW s \in SUBSET (1..n)
        PROVE  h[s] = IF s = {} THEN base ELSE step[h[s \ {Max(s)}], seq[Max(s)]]
    <3>1. CASE s \subseteq 1..n-1
      <4>1. h[s] = g[s]
        BY <3>1
      <4>2. g[s] = IF s = {} THEN base ELSE step[g[s \ {Max(s)}], seq[Max(s)]]
        BY <3>1, <2>1 DEF FoldOver
      <4>3. h[s \ {Max(s)}] = g[s \ {Max(s)}]
        BY <3>1
      <4> QED BY <4>1, <4>2, <4>3
    <3>2. CASE ~(s \subseteq 1..n-1)
      <4>1. n \in s
        BY <3>2
      <4>2. Max(s) = n
        <5>1. Max(s) \in s /\ Max(s) >= n
          BY <4>1, <2>2, GreatestOf
        <5>2. Max(s) \in 1..n
          BY <5>1
        <5> HIDE DEF h
        <5> QED BY <5>1, <5>2, <2>2
      <4>3. h[s] = step[g[s \ {n}], seq[n]]
        BY <3>2
      <4>4. h[s \ {n}] = g[s \ {n}]
        BY <2>3
      <4> QED BY <4>1, <4>2, <4>3, <4>4
    <3> QED BY <3>1, <3>2
  <2>6. FoldOver(h, seq, step, base, n)
    <3> HIDE DEF h
    <3> QED BY <2>5 DEF FoldOver
  <2> HIDE DEF h
  <2> QED BY <2>4, <2>6
<1>3. len \in {n \in 0..len : P(n)}
  <2> DEFINE good == {n \in 0..len : P(n)}
  <2> HIDE DEF P
  <2>1. 0 \in good /\ \A n \in 1..len : n - 1 \in good => n \in good
    BY <1>1, <1>2
  <2>2. len \in 0..len
    OBVIOUS
  <2> HIDE DEF good
  <2>3. len \in good
    BY <2>1, <2>2, UpTo
  <2> QED BY <2>3 DEF good
<1> QED BY <1>3

\* What a fold has taken last.
LEMMA Peel ==
    ASSUME NEW n \in Nat, NEW k \in 1..n
    PROVE  /\ 1..k \in SUBSET (1..n) /\ 1..k # {} /\ Max(1..k) = k
           /\ (1..k) \ {k} = 1..k-1
<1>1. 1..k \in SUBSET (1..n) /\ 1..k # {} /\ k \in 1..k
  OBVIOUS
<1>2. Max(1..k) \in 1..k /\ Max(1..k) >= k
  BY <1>1, GreatestOf
<1>3. Max(1..k) = k
  BY <1>2
<1> QED BY <1>1, <1>3

\* The claim a run has told, test by test.
Narration(a, c, bad, tests) ==
    /\ Narrated(c, bad, tests) = a[Len(tests)]
    /\ a[0] = << >>
    /\ \A k \in 1..Len(tests) : a[k] = a[k-1] \o TitlesOf(c, bad, tests[k])

LEMMA NarratedIs ==
    ASSUME NEW c, NEW bad, NEW tests, NEW V, NEW X, tests \in Seq(X),
           \A t \in X : TitlesOf(c, bad, t) \in Seq(V)
    PROVE  \E a \in [0..Len(tests) -> Seq(V)] : Narration(a, c, bad, tests)
<1> DEFINE len == Len(tests)
           step == [p \in Seq(V) \X X |-> p[1] \o TitlesOf(c, bad, p[2])]
           Eq(g) == g = [s \in SUBSET (DOMAIN tests) |-> IF s = {} THEN << >>
                           ELSE g[s \ {Max(s)}] \o TitlesOf(c, bad, tests[Max(s)])]
<1>1. Narrated(c, bad, tests) = (CHOOSE g : Eq(g))[DOMAIN tests]
  BY DEF Narrated, FoldLeft, MapThenFoldSet
<1>2. step \in [Seq(V) \X X -> Seq(V)] /\ << >> \in Seq(V) /\ len \in Nat
      /\ tests \in [1..len -> X] /\ DOMAIN tests = 1..len
  OBVIOUS
<1>3. PICK g \in [SUBSET (1..len) -> Seq(V)] : FoldOver(g, tests, step, << >>, len)
  <2> HIDE DEF step, len
  <2> QED BY <1>2, FoldExists
<1>4. ASSUME NEW s \in SUBSET (1..len), s # {}
      PROVE  g[s] = g[s \ {Max(s)}] \o TitlesOf(c, bad, tests[Max(s)])
  <2>1. Max(s) \in 1..len
    BY <1>2, <1>4, GreatestOf
  <2>2. g[s \ {Max(s)}] \in Seq(V) /\ tests[Max(s)] \in X
    BY <1>2, <2>1
  <2>3. g[s] = step[g[s \ {Max(s)}], tests[Max(s)]]
    BY <1>3, <1>4 DEF FoldOver
  <2> QED BY <2>2, <2>3
<1>5. g[{}] = << >>
  BY <1>3 DEF FoldOver
<1>6. Eq(g)
  <2> HIDE DEF len
  <2>1. ASSUME NEW s \in SUBSET (1..len)
        PROVE  g[s] = IF s = {} THEN << >>
                      ELSE g[s \ {Max(s)}] \o TitlesOf(c, bad, tests[Max(s)])
    BY <1>4, <1>5
  <2> QED BY <1>2, <2>1
<1>7. PICK f : f = (CHOOSE h : Eq(h)) /\ Eq(f)
  <2> HIDE DEF Eq
  <2> QED BY <1>6
<1> HIDE DEF len
<1>8. f[1..0] = << >> /\ \A k \in 1..len : f[1..k] = f[1..k-1] \o TitlesOf(c, bad, tests[k])
  <2>1. f[1..0] = << >>
    <3>1. 1..0 = {} /\ {} \in SUBSET (DOMAIN tests)
      OBVIOUS
    <3> QED BY <1>7, <3>1
  <2>2. ASSUME NEW k \in 1..len
        PROVE  f[1..k] = f[1..k-1] \o TitlesOf(c, bad, tests[k])
    <3>1. /\ 1..k \in SUBSET (1..len) /\ 1..k # {} /\ Max(1..k) = k
          /\ (1..k) \ {k} = 1..k-1
      BY <1>2, Peel
    <3>2. f[1..k] = f[(1..k) \ {Max(1..k)}] \o TitlesOf(c, bad, tests[Max(1..k)])
      BY <1>2, <1>7, <3>1
    <3> QED BY <3>1, <3>2
  <2> QED BY <2>1, <2>2
<1> DEFINE a == [k \in 0..len |-> f[1..k]]
<1>9. a[0] = << >> /\ a[len] = Narrated(c, bad, tests)
      /\ \A k \in 1..len : a[k] = a[k-1] \o TitlesOf(c, bad, tests[k])
  <2> HIDE DEF Eq
  <2>1. \A k \in 1..len : k \in 0..len /\ k - 1 \in 0..len
    BY <1>2
  <2>2. 0 \in 0..len /\ len \in 0..len
    BY <1>2
  <2> QED BY <1>1, <1>2, <1>7, <1>8, <2>1, <2>2
<1>10. \A k \in 0..len : k \in {j \in 0..len : a[j] \in Seq(V)}
  <2> DEFINE P == {j \in 0..len : a[j] \in Seq(V)}
  <2> HIDE DEF a
  <2>1. 0 \in P
    <3>1. 0 \in 0..len
      BY <1>2
    <3> QED BY <1>2, <1>9, <3>1
  <2>2. ASSUME NEW k \in 1..len, k - 1 \in P
        PROVE  k \in P
    <3>1. tests[k] \in X /\ k \in 0..len
      BY <1>2
    <3>2. TitlesOf(c, bad, tests[k]) \in Seq(V) /\ a[k-1] \in Seq(V)
      BY <2>2, <3>1
    <3>3. a[k-1] \o TitlesOf(c, bad, tests[k]) \in Seq(V)
      BY <3>2
    <3> QED BY <1>9, <3>1, <3>3
  <2> HIDE DEF P
  <2>3. \A k \in 0..len : k \in P
    BY <1>2, <2>1, <2>2, UpTo
  <2> QED BY <2>3 DEF P
<1>11. a \in [0..len -> Seq(V)]
  BY <1>10
<1> HIDE DEF a
<1>12. Narration(a, c, bad, tests)
  BY <1>9 DEF Narration, len
<1> QED BY <1>11, <1>12 DEF len
\* The titles of a test are a sequence, whatever is told twice.
LEMMA TitlesAre ==
    ASSUME NEW c, NEW bad, NEW test, NEW U, c.titles[test] \in Seq(U)
    PROVE  TitlesOf(c, bad, test) \in Seq(U)
<1> DEFINE seq == c.titles[test]
           len == Len(seq)
           step == [p \in Seq(U) \X U |-> IF p[2] \in ToSet(p[1]) THEN p[1]
                                          ELSE Append(p[1], p[2])]
           Eq(g) == g = [s \in SUBSET (DOMAIN seq) |-> IF s = {} THEN << >>
                           ELSE IF seq[Max(s)] \in ToSet(g[s \ {Max(s)}]) THEN g[s \ {Max(s)}]
                                ELSE Append(g[s \ {Max(s)}], seq[Max(s)])]
<1>1. TitlesOf(c, bad, test) \in {<< >>, (CHOOSE g : Eq(g))[DOMAIN seq]}
  BY DEF TitlesOf, FoldLeft, MapThenFoldSet
<1>2. step \in [Seq(U) \X U -> Seq(U)] /\ << >> \in Seq(U) /\ len \in Nat
      /\ seq \in [1..len -> U] /\ DOMAIN seq = 1..len
  OBVIOUS
<1>3. PICK g \in [SUBSET (1..len) -> Seq(U)] : FoldOver(g, seq, step, << >>, len)
  <2> HIDE DEF step, len, seq
  <2> QED BY <1>2, FoldExists
<1>4. ASSUME NEW s \in SUBSET (1..len), s # {}
      PROVE  g[s] = IF seq[Max(s)] \in ToSet(g[s \ {Max(s)}]) THEN g[s \ {Max(s)}]
                    ELSE Append(g[s \ {Max(s)}], seq[Max(s)])
  <2>1. Max(s) \in 1..len
    BY <1>2, <1>4, GreatestOf
  <2>2. g[s \ {Max(s)}] \in Seq(U) /\ seq[Max(s)] \in U
    BY <1>2, <2>1
  <2>3. g[s] = step[g[s \ {Max(s)}], seq[Max(s)]]
    BY <1>3, <1>4 DEF FoldOver
  <2> HIDE DEF seq, len
  <2> QED BY <2>2, <2>3
<1>5. g[{}] = << >>
  BY <1>3 DEF FoldOver
<1>6. Eq(g)
  <2> HIDE DEF len, seq
  <2>1. ASSUME NEW s \in SUBSET (1..len)
        PROVE  g[s] = IF s = {} THEN << >>
                      ELSE IF seq[Max(s)] \in ToSet(g[s \ {Max(s)}]) THEN g[s \ {Max(s)}]
                           ELSE Append(g[s \ {Max(s)}], seq[Max(s)])
    BY <1>4, <1>5
  <2> QED BY <1>2, <2>1
<1>7. PICK f : f = (CHOOSE h : Eq(h)) /\ Eq(f)
  <2> HIDE DEF Eq
  <2> QED BY <1>6
<1> HIDE DEF len, seq
<1> DEFINE P == {j \in 0..len : f[1..j] \in Seq(U)}
<1>8. 0 \in P
  <2>1. 1..0 = {} /\ {} \in SUBSET (DOMAIN seq) /\ 0 \in 0..len
    BY <1>2
  <2> QED BY <1>2, <1>7, <2>1
<1>9. ASSUME NEW k \in 1..len, k - 1 \in P
      PROVE  k \in P
  <2>1. /\ 1..k \in SUBSET (1..len) /\ 1..k # {} /\ Max(1..k) = k
        /\ (1..k) \ {k} = 1..k-1
    BY <1>2, Peel
  <2>2. f[1..k-1] \in Seq(U) /\ seq[k] \in U /\ k \in 0..len
    BY <1>2, <1>9
  <2>3. f[1..k] = IF seq[Max(1..k)] \in ToSet(f[(1..k) \ {Max(1..k)}])
                  THEN f[(1..k) \ {Max(1..k)}]
                  ELSE Append(f[(1..k) \ {Max(1..k)}], seq[Max(1..k)])
    BY <1>2, <1>7, <2>1
  <2>4. f[1..k] \in {f[1..k-1], Append(f[1..k-1], seq[k])}
    BY ONLY <2>1, <2>3, Zenon
  <2>5. Append(f[1..k-1], seq[k]) \in Seq(U)
    BY ONLY <2>2
  <2>6. f[1..k] \in Seq(U)
    BY ONLY <2>2, <2>4, <2>5, Zenon
  <2> QED BY <2>2, <2>6
<1>10. f[DOMAIN seq] \in Seq(U)
  <2> HIDE DEF P
  <2>1. len \in P
    <3>1. \A k \in 0..len : k \in P
      BY <1>2, <1>8, <1>9, UpTo
    <3> QED BY <1>2, <3>1
  <2> QED BY <1>2, <2>1 DEF P
<1> QED BY <1>1, <1>2, <1>7, <1>10

\* A claim is what its tests tell, one after the other.
LEMMA NarratedIsFlat ==
    ASSUME NEW c, NEW bad, NEW tests, NEW V, NEW X, tests \in Seq(X), tests # << >>,
           \A t \in X : TitlesOf(c, bad, t) \in Seq(V)
    PROVE  Narrated(c, bad, tests) =
             FlattenSeq([n \in DOMAIN tests |-> TitlesOf(c, bad, tests[n])])
<1>0. PICK a \in [0..Len(tests) -> Seq(V)] : Narration(a, c, bad, tests)
  BY NarratedIs, Zenon
<1>1. /\ Narrated(c, bad, tests) = a[Len(tests)] /\ a[0] = << >>
      /\ \A k \in 1..Len(tests) : a[k] = a[k-1] \o TitlesOf(c, bad, tests[k])
  BY <1>0 DEF Narration
<1> DEFINE len == Len(tests)
           told == [n \in DOMAIN tests |-> TitlesOf(c, bad, tests[n])]
           Eq(g) == g = [i \in 1..Len(told) |-> IF i = 1 THEN told[i] ELSE g[i-1] \o told[i]]
<1>2. len \in Nat \ {0} /\ DOMAIN tests = 1..len
  OBVIOUS
<1>3. \A k \in 1..len : told[k] = TitlesOf(c, bad, tests[k]) /\ told[k] \in Seq(V)
  OBVIOUS
<1>4. told \in Seq(Seq(V)) /\ Len(told) = len
  <2> HIDE DEF len
  <2>1. told \in [1..len -> Seq(V)]
    BY <1>2, <1>3
  <2> HIDE DEF told
  <2> QED BY <1>2, <2>1
<1>5. FlattenSeq(told) = (CHOOSE g : Eq(g))[Len(told)]
  <2> HIDE DEF told
  <2> QED BY <1>2, <1>4 DEF FlattenSeq
<1>a. ASSUME NEW k \in 1..len
      PROVE  a[k] = a[k-1] \o told[k] /\ told[k] \in Seq(V)
  <2>1. a[k] = a[k-1] \o TitlesOf(c, bad, tests[k])
    BY <1>1
  <2>2. told[k] = TitlesOf(c, bad, tests[k]) /\ told[k] \in Seq(V)
    BY <1>3
  <2> HIDE DEF told
  <2> QED BY ONLY <2>1, <2>2, Zenon
<1>b. a[1] = told[1]
  <2>1. 1 \in 1..len /\ 1 - 1 = 0
    BY <1>2
  <2>2. a[1] = a[1-1] \o told[1] /\ told[1] \in Seq(V)
    BY <1>a, <2>1
  <2> HIDE DEF told
  <2>3. << >> \o told[1] = told[1]
    BY ONLY <2>2
  <2> QED BY ONLY <1>1, <2>1, <2>2, <2>3, Zenon
<1> HIDE DEF told, len
<1>6. Eq([i \in 1..len |-> a[i]])
  <2> DEFINE b == [i \in 1..len |-> a[i]]
  <2>1. ASSUME NEW i \in 1..len
        PROVE  b[i] = IF i = 1 THEN told[i] ELSE b[i-1] \o told[i]
    <3>1. CASE i = 1
      BY <1>b, <3>1
    <3>2. CASE i # 1
      <4>1. i - 1 \in 1..len
        BY <1>2, <3>2
      <4>2. b[i] = a[i] /\ b[i-1] = a[i-1] /\ a[i] = a[i-1] \o told[i]
        BY <1>a, <4>1
      <4> QED BY <3>2, <4>2
    <3> QED BY <3>1, <3>2
  <2>2. b = [i \in 1..len |-> b[i]]
    OBVIOUS
  <2> HIDE DEF b
  <2>3. b = [i \in 1..len |-> IF i = 1 THEN told[i] ELSE b[i-1] \o told[i]]
    BY <2>1, <2>2
  <2> QED BY <1>4, <2>3 DEF b
<1>7. PICK f : f = (CHOOSE h : Eq(h)) /\ Eq(f)
  <2> HIDE DEF Eq
  <2> QED BY <1>6
<1> DEFINE P == {j \in 0..len : j = 0 \/ f[j] = a[j]}
<1>8. 0 \in P
  BY <1>2
<1>9. ASSUME NEW k \in 1..len, k - 1 \in P
      PROVE  k \in P
  <2>1. f[k] = IF k = 1 THEN told[k] ELSE f[k-1] \o told[k]
    BY <1>4, <1>7
  <2>2. a[k] = a[k-1] \o told[k] /\ k \in 0..len
    <3>1. k \in 0..len
      BY <1>2
    <3> HIDE DEF Eq, P
    <3> QED BY <1>a, <3>1, Zenon
  <2> HIDE DEF Eq
  <2>3. CASE k = 1
    BY <1>b, <2>1, <2>2, <2>3
  <2>4. CASE k # 1
    <3>1. f[k-1] = a[k-1]
      BY <1>2, <1>9, <2>4
    <3>2. f[k] = a[k]
      BY ONLY <2>1, <2>2, <2>4, <3>1, Zenon
    <3> QED BY <2>2, <3>2
  <2> QED BY <2>3, <2>4
<1>10. f[len] = a[len]
  <2> HIDE DEF P
  <2>1. \A k \in 0..len : k \in P
    BY <1>2, <1>8, <1>9, UpTo
  <2> QED BY <1>2, <2>1 DEF P
<1> HIDE DEF Eq
<1> QED BY <1>1, <1>4, <1>5, <1>7, <1>10 DEF told, len

-----------------------------------------------------------------------------
(* Claims.  Where claims are not those of atoms every body comes of the     *)
(* graph the domain began with or of a registry, and so names known tests.  *)

Known(b) == \A c \in Codes[manifest] : IsBody(b, c)
KnownGraph(g) == \A id \in DOMAIN g.reqs : Known(g.reqs[id].body)
KnownReg(reg) == \A id \in DOMAIN reg : Known(reg[id])

TestsKnown ==
    ~manifest.atoms =>
        /\ KnownGraph(graph)
        /\ op.at \in Middle => KnownGraph(op.before) /\ KnownReg(op.hand)
        /\ op.at \in {"derived", "judged"} => KnownReg(op.reg)

LEMMA KnownDerived ==
    ASSUME NEW reg, KnownReg(reg), NEW c, NEW bad
    PROVE  KnownReg(WithDerivedClaims(reg, c, bad))
<1> DEFINE new == WithDerivedClaims(reg, c, bad)
<1>1. DOMAIN new = DOMAIN reg
  BY DEF WithDerivedClaims
<1>2. ASSUME NEW id \in DOMAIN reg, NEW d \in Codes[manifest]
      PROVE  IsBody(new[id], d)
  <2>1. DOMAIN reg[id] = Fields /\ reg[id].tests \in Seq(DOMAIN d.titles)
    BY <1>2 DEF KnownReg, Known, IsBody
  <2>2. new[id] = reg[id] \/ \E claim : new[id] = [reg[id] EXCEPT !.claim = claim]
    BY DEF WithDerivedClaims
  <2>3. ASSUME NEW claim, new[id] = [reg[id] EXCEPT !.claim = claim]
        PROVE  DOMAIN new[id] = Fields /\ new[id].tests = reg[id].tests
    <3> HIDE DEF new
    <3> QED BY <2>1, <2>3 DEF Fields
  <2> HIDE DEF new
  <2> QED BY <2>1, <2>2, <2>3 DEF IsBody
<1> HIDE DEF new
<1>3. KnownReg(new)
  BY <1>1, <1>2 DEF KnownReg, Known
<1> QED BY <1>3 DEF new

LEMMA KnownSynced ==
    ASSUME NEW g, IsGraph(g), KnownGraph(g), NEW reg, KnownReg(reg), NEW people
    PROVE  KnownGraph(Synced(g, reg, people))
<1> DEFINE t == Synced(g, reg, people)
<1>1. /\ DOMAIN t.reqs = DOMAIN g.reqs \union DOMAIN reg
      /\ \A id \in DOMAIN g.reqs : id \notin DOMAIN reg => t.reqs[id] = g.reqs[id]
      /\ \A id \in DOMAIN reg :
            t.reqs[id].body = reg[id] \/ (id \in DOMAIN g.reqs /\ t.reqs[id] = g.reqs[id])
  BY SyncedIs
<1> HIDE DEF t
<1>2. ASSUME NEW id \in DOMAIN t.reqs
      PROVE  Known(t.reqs[id].body)
  <2>1. t.reqs[id].body \in {reg[id], g.reqs[id].body}
        /\ (t.reqs[id].body # g.reqs[id].body => id \in DOMAIN reg)
        /\ (t.reqs[id].body # reg[id] => id \in DOMAIN g.reqs)
    BY <1>1, <1>2
  <2> QED BY <1>1, <2>1 DEF KnownGraph, KnownReg
<1> QED BY <1>2 DEF KnownGraph, t

LEMMA TestsInit == Init => TestsKnown
<1> SUFFICES ASSUME Init PROVE TestsKnown
  OBVIOUS
<1>1. op.at = "idle"
  BY EndedType DEF Init, Endings
<1>2. KnownGraph(graph)
  BY SyncAssumption DEF Init, KnownGraph, Known
<1> QED BY <1>1, <1>2 DEF TestsKnown, Middle

\* A step that ends a run or is not of one, and leaves known bodies.
LEMMA TestsRest ==
    ASSUME TestsKnown, UNCHANGED manifest, ~manifest.atoms => KnownGraph(graph'),
           NEW how \in Endings, op' = Ended(how)
    PROVE  TestsKnown'
<1>1. op'.at = how
  BY EndedType
<1>2. KnownGraph(graph)' <=> KnownGraph(graph')
  BY DEF KnownGraph, Known
<1> QED BY <1>1, <1>2 DEF TestsKnown, Middle, Endings

LEMMA LandOtherBodies ==
    ASSUME IsGraph(graph), LandOther, KnownGraph(graph)
    PROVE  KnownGraph(graph')
<1>1. ASSUME NEW id \in DOMAIN graph.reqs,
             graph' = [graph EXCEPT !.reqs[id] = SignedOff(@, lands')]
      PROVE  KnownGraph(graph')
  <2> DEFINE n == graph.reqs[id]
             m == SignedOff(n, lands')
  <2>1. IsNode(n)
    BY DEF IsGraph
  <2>2. m.body = n.body
    BY <2>1, SignedOffIs
  <2>3. graph'.reqs = [graph.reqs EXCEPT ![id] = m]
    <3>1. graph' = [graph EXCEPT !.reqs = [graph.reqs EXCEPT ![id] = m]]
      BY <1>1
    <3> HIDE DEF m, n
    <3>2. graph' = [reqs |-> [graph.reqs EXCEPT ![id] = m], people |-> graph.people,
                    open |-> graph.open]
      BY <3>1, GraphUpdate
    <3> QED BY <3>2
  <2> HIDE DEF m
  <2>4. \A i \in DOMAIN graph.reqs : graph'.reqs[i].body = graph.reqs[i].body
    BY <2>2, <2>3
  <2>5. DOMAIN graph'.reqs = DOMAIN graph.reqs
    BY <2>3
  <2> QED BY <2>4, <2>5 DEF KnownGraph
<1>2. ASSUME NEW c, graph' = [graph EXCEPT !.open = IF c \in @ THEN @ \ {c} ELSE @ \union {c}]
      PROVE  KnownGraph(graph')
  <2>1. graph'.reqs = graph.reqs
    BY <1>2 DEF IsGraph
  <2> QED BY <2>1 DEF KnownGraph
<1> QED BY <1>1, <1>2 DEF LandOther

LEMMA AckedBodies ==
    ASSUME NEW g, IsGraph(g), KnownGraph(g), NEW report, NEW ack
    PROVE  KnownGraph(Acked(g, report, ack))
<1>1. PICK t : t = Acked(g, report, ack)
  OBVIOUS
<1>0. IsGraph(g)
  OBVIOUS
<1>2. DOMAIN t.reqs = DOMAIN g.reqs /\ \A id \in DOMAIN g.reqs : t.reqs[id].body = g.reqs[id].body
  <2>1. /\ DOMAIN Acked(g, report, ack).reqs = DOMAIN g.reqs
        /\ \A id \in DOMAIN g.reqs : Acked(g, report, ack).reqs[id].body = g.reqs[id].body
    BY ONLY <1>0, AckedIs DEF Acked
  <2> QED BY ONLY <1>1, <2>1, Zenon
<1>3. KnownGraph(t)
  BY <1>2 DEF KnownGraph
<1> QED BY <1>1, <1>3

\* A step of a run that only moves it on.
LEMMA TestsMove ==
    ASSUME TypeOK, TestsKnown, NEW place \in {"judged", "written", "acknowledged", "landed"}, NEW x,
           op' = [op EXCEPT !.at = place] \/ op' = [op EXCEPT !.at = place, !.bad = x],
           UNCHANGED manifest, op.at \in Middle, place = "judged" => op.at = "derived",
           ~manifest.atoms => KnownGraph(graph')
    PROVE  TestsKnown'
<1>1. op'.at = place /\ op'.before = op.before /\ op'.hand = op.hand /\ op'.reg = op.reg
  BY OpUpdate
<1>2. /\ KnownGraph(graph)' <=> KnownGraph(graph')
      /\ KnownGraph(op.before)' <=> KnownGraph(op.before)
      /\ KnownReg(op.hand)' <=> KnownReg(op.hand)
      /\ KnownReg(op.reg)' <=> KnownReg(op.reg)
  BY <1>1 DEF KnownGraph, KnownReg, Known
<1> QED BY <1>1, <1>2 DEF TestsKnown, Middle

LEMMA TestsDump ==
    ASSUME Inv, TestsKnown, NEW token, NEW ack, Dump(token, ack)
    PROVE  TestsKnown'
<1>1. CASE ~code.builds
  BY <1>1, TestsRest DEF Dump, Endings, TestsKnown
<1>2. CASE code.builds
  <2>1. op' = [at |-> "dumped", token |-> token, ack |-> ack, before |-> graph,
               hand |-> code.hand, people |-> code.people, reg |-> None, bad |-> {}]
    BY <1>2 DEF Dump, Ended
  <2>2. op'.at = "dumped" /\ op'.before = graph /\ op'.hand = code.hand
    BY <2>1
  <2>3. KnownReg(code.hand)
    <3>1. manifest \in Manifests /\ code \in Codes[manifest]
      BY DEF Inv, TypeOK
    <3>2. \A c \in Codes[manifest] : \A d \in Codes[manifest] :
             \A id \in DOMAIN d.hand : IsBody(d.hand[id], c)
      BY <3>1, SyncAssumption
    <3> QED BY <3>1, <3>2 DEF KnownReg, Known
  <2>4. UNCHANGED <<manifest, graph>>
    BY DEF Dump
  <2>5. /\ KnownGraph(graph)' <=> KnownGraph(graph)
        /\ KnownGraph(op.before)' <=> KnownGraph(graph)
        /\ KnownReg(op.hand)' <=> KnownReg(code.hand)
    BY <2>2, <2>4 DEF KnownGraph, KnownReg, Known
  <2> QED BY <2>2, <2>3, <2>4, <2>5 DEF TestsKnown
<1> QED BY <1>1, <1>2

LEMMA TestsDerive ==
    ASSUME Inv, TestsKnown, NEW bad, Derive(bad)
    PROVE  TestsKnown'
<1> DEFINE reg == IF manifest.atoms THEN DiscoverAtoms(op.hand, code, bad).reg
                  ELSE IF manifest.full THEN WithDerivedClaims(op.hand, code, bad) ELSE op.hand
<1>1. CASE op' = Ended("refused")
  BY <1>1, TestsRest DEF Derive, Endings, TestsKnown
<1>2. CASE op' = [op EXCEPT !.at = "derived", !.reg = reg]
  <2>1. op' = [at |-> "derived", token |-> op.token, ack |-> op.ack, before |-> op.before,
               hand |-> op.hand, people |-> op.people, reg |-> reg, bad |-> op.bad]
    <3> HIDE DEF reg
    <3> QED BY <1>2, OpUpdate DEF Inv
  <2>2. ~manifest.atoms => KnownReg(reg)
    <3>1. ~manifest.atoms => KnownReg(op.hand)
      BY DEF Derive, TestsKnown, Middle
    <3> QED BY <3>1, KnownDerived
  <2> HIDE DEF reg
  <2>3. op'.at = "derived" /\ op'.before = op.before /\ op'.hand = op.hand /\ op'.reg = reg
    BY <2>1
  <2>4. UNCHANGED <<manifest, graph>> /\ op.at = "dumped"
    BY DEF Derive
  <2>5. /\ KnownGraph(graph)' <=> KnownGraph(graph)
        /\ KnownGraph(op.before)' <=> KnownGraph(op.before)
        /\ KnownReg(op.hand)' <=> KnownReg(op.hand)
        /\ KnownReg(op.reg)' <=> KnownReg(reg)
    BY <2>3, <2>4 DEF KnownGraph, KnownReg, Known
  <2> QED BY <2>2, <2>3, <2>4, <2>5 DEF TestsKnown, Middle
<1> QED BY <1>1, <1>2 DEF Derive

LEMMA TestsRollBack ==
    ASSUME TestsKnown, op.at \in Middle, RollBack, UNCHANGED manifest
    PROVE  TestsKnown'
  BY TestsRest DEF RollBack, TestsKnown, Endings

LEMMA TestsStep == Inv /\ TestsKnown /\ [Next]_vars => TestsKnown'
<1> SUFFICES ASSUME Inv, TestsKnown, [Next]_vars PROVE TestsKnown'
  OBVIOUS
<1>1. TypeOK /\ IsGraph(graph) /\ (~manifest.atoms => KnownGraph(graph))
  BY DEF Inv, TypeOK, TestsKnown
<1>2. ASSUME NEW token, NEW ack, Dump(token, ack) PROVE TestsKnown'
  BY <1>2, TestsDump
<1>3. ASSUME NEW bad, Derive(bad) PROVE TestsKnown'
  BY <1>3, TestsDerive
<1>4. CASE Show \/ Crash
  <2>1. PICK how \in Endings : op' = Ended(how)
    BY <1>4 DEF Show, Crash, Endings
  <2>2. UNCHANGED <<manifest, graph>>
    BY <1>4 DEF Show, Crash
  <2> QED BY <1>1, <2>1, <2>2, TestsRest
<1>5. CASE Judge
  <2>1. CASE op' = Ended("refused")
    BY <1>1, <1>5, <2>1, TestsRest DEF Judge, Endings
  <2>2. CASE op' = [op EXCEPT !.at = "judged"]
    BY <1>1, <1>5, <2>2, TestsMove DEF Judge, Middle
  <2> QED BY <1>5, <2>1, <2>2 DEF Judge
<1>6. CASE Write
  <2>1. op.at = "judged" /\ IsGraph(op.before) /\ UNCHANGED manifest
    BY <1>6 DEF Write, Inv, Stage, Middle
  <2>2. ~manifest.atoms => KnownGraph(After)
    BY <2>1, KnownSynced DEF TestsKnown, Middle, After
  <2>3. CASE graph' = After /\ op' = [op EXCEPT !.at = "written"]
    BY <1>1, <2>1, <2>2, <2>3, TestsMove DEF Middle
  <2>4. CASE graph' \in {graph, After} /\ op' = Ended("failed")
    BY <1>1, <2>1, <2>2, <2>4, TestsRest DEF Endings
  <2> QED BY <1>6, <2>3, <2>4 DEF Write
<1>7. CASE Acknowledge
  <2>1. op.at = "written" /\ UNCHANGED manifest
    BY <1>7 DEF Acknowledge
  <2>2. CASE /\ graph' = IF HasAck(op.ack) THEN Acked(graph, op.token.report, op.ack) ELSE graph
             /\ op' = [op EXCEPT !.at = "acknowledged"]
    <3>1. ~manifest.atoms => KnownGraph(graph')
      BY <1>1, <2>2, AckedBodies
    <3> QED BY <1>1, <2>1, <2>2, <3>1, TestsMove DEF Middle
  <2>3. CASE RollBack
    BY <2>1, <2>3, TestsRollBack DEF Middle
  <2> QED BY <1>7, <2>2, <2>3 DEF Acknowledge
<1>8. ASSUME NEW bad, Verify(bad) PROVE TestsKnown'
  <2>1. op.at = "acknowledged" /\ UNCHANGED manifest
    BY <1>8 DEF Verify
  <2>2. CASE op' = [op EXCEPT !.at = "landed", !.bad = bad] /\ UNCHANGED graph
    BY <1>1, <2>1, <2>2, TestsMove DEF Middle
  <2>3. CASE RollBack
    BY <2>1, <2>3, TestsRollBack DEF Middle
  <2> QED BY <1>8, <2>2, <2>3 DEF Verify
<1>9. CASE LandOther
  <2>1. op' = Ended("idle") /\ UNCHANGED manifest
    BY <1>9 DEF LandOther
  <2>2. ~manifest.atoms => KnownGraph(graph')
    BY <1>1, <1>9, LandOtherBodies
  <2> QED BY <2>1, <2>2, TestsRest DEF Endings
<1>10. CASE EditCode \/ UNCHANGED vars
  <2>1. UNCHANGED <<manifest, graph, op>>
    BY <1>10 DEF EditCode, vars
  <2> QED BY <2>1 DEF TestsKnown, KnownGraph, KnownReg, Known
<1> QED BY <1>2, <1>3, <1>4, <1>5, <1>6, <1>7, <1>8, <1>9, <1>10 DEF Next, Present, Confirm

\* Only a verification lands.
LEMMA LandsByVerify ==
    ASSUME Inv, Next, Landed', ~Landed
    PROVE  \E bad : Verify(bad) /\ Verifies(graph, bad) /\ op'.bad = bad /\ graph' = graph
<1>1. op'.at = "landed" /\ op.at # "landed"
  BY DEF Landed
<1>2. \A how \in Endings \ {"landed"} : op' # Ended(how)
  BY <1>1, EndedType
<1>3. \A place \in Middle : op' # [op EXCEPT !.at = place]
  BY <1>1, OpUpdate DEF Inv, Middle
<1>4. ASSUME NEW token, NEW ack, Dump(token, ack) PROVE FALSE
  <2>1. op'.at = "dumped" \/ op' = Ended("refused")
    BY <1>4 DEF Dump, Ended
  <2> QED BY <1>1, <1>2, <2>1 DEF Endings
<1>5. ASSUME NEW bad, Derive(bad) PROVE FALSE
  <2>1. \/ op' = Ended("refused")
        \/ \E reg : op' = [op EXCEPT !.at = "derived", !.reg = reg]
    BY <1>5 DEF Derive
  <2>2. ASSUME NEW reg, op' = [op EXCEPT !.at = "derived", !.reg = reg] PROVE FALSE
    BY <1>1, <2>2, OpUpdate DEF Inv
  <2> QED BY <1>2, <2>1, <2>2 DEF Endings
<1>6. ~(Show \/ Judge \/ Write \/ Acknowledge \/ Crash \/ LandOther)
  BY <1>2, <1>3 DEF Show, Judge, Write, Acknowledge, RollBack, Crash, LandOther, Endings, Middle
<1>7. ~EditCode
  BY <1>1 DEF EditCode
<1>8. PICK bad : Verify(bad)
  BY <1>4, <1>5, <1>6, <1>7 DEF Next, Present, Confirm
<1>9. Verifies(graph, bad) /\ op' = [op EXCEPT !.at = "landed", !.bad = bad] /\ graph' = graph
  BY <1>2, <1>8 DEF Verify, RollBack, Endings
<1>10. op'.bad = bad
  BY <1>9, OpUpdate DEF Inv
<1> QED BY <1>8, <1>9, <1>10

\* In a domain whose claims belong to its scenarios a sync lands the claims
\* its tests told in the run that verified them, for any code, however often
\* it was edited and whatever failed on the way (property ClaimsAreNarrated).
THEOREM ClaimsAreTold == Spec => ClaimsAreNarrated
<1> DEFINE told(body, bad) == FlattenSeq([n \in DOMAIN body.tests |->
                                            TitlesOf(code, bad, body.tests[n])])
<1>1. Inv /\ TestsKnown /\ [Next]_vars =>
        [Landed' /\ ~Landed /\ manifest.full /\ manifest.authority /\ ~manifest.atoms =>
           \A id \in DOMAIN graph'.reqs :
              InClaimScope(graph'.reqs[id].body) /\ told(graph'.reqs[id].body, op'.bad) # << >>
                 => graph'.reqs[id].body.claim = told(graph'.reqs[id].body, op'.bad)]_vars
  <2> SUFFICES ASSUME Inv, TestsKnown, Next, Landed', ~Landed, manifest.full,
                      manifest.authority, ~manifest.atoms, NEW id \in DOMAIN graph'.reqs,
                      InClaimScope(graph'.reqs[id].body),
                      told(graph'.reqs[id].body, op'.bad) # << >>
               PROVE  graph'.reqs[id].body.claim = told(graph'.reqs[id].body, op'.bad)
    OBVIOUS
  <2>1. Verifies(graph, op'.bad) /\ graph' = graph
    BY LandsByVerify
  <2> DEFINE body == graph.reqs[id].body
             bad == op'.bad
  <2>2. code \in Codes[manifest] /\ manifest \in Manifests
    BY DEF Inv, TypeOK
  <2>3. body.tests \in Seq(DOMAIN code.titles) /\ body.tests # << >>
    BY <2>1, <2>2 DEF TestsKnown, KnownGraph, Known, IsBody, InClaimScope
  <2> DEFINE V == UNION {{code.titles[t][i] : i \in DOMAIN code.titles[t]} : t \in DOMAIN code.titles}
  <2>4. ASSUME NEW t \in DOMAIN code.titles
        PROVE  TitlesOf(code, bad, t) \in Seq(V)
    <3> DEFINE U == {code.titles[t][i] : i \in DOMAIN code.titles[t]}
    <3>1. code.titles[t] \in Seq(U)
      BY <2>2, SyncAssumption DEF IsTrail
    <3>2. U \subseteq V
      OBVIOUS
    <3> HIDE DEF U, V
    <3>3. code.titles[t] \in Seq(V)
      BY <3>1, <3>2
    <3> QED BY <3>3, TitlesAre
  <2> HIDE DEF V
  <2>5. Narrated(code, bad, body.tests) = told(body, bad)
    <3> HIDE DEF body, bad
    <3> QED BY <2>3, <2>4, NarratedIsFlat
  <2>6. id \notin StaleClaims(graph, bad)
    BY <2>1 DEF Verifies
  <2> QED BY <2>1, <2>5, <2>6 DEF StaleClaims
<1> HIDE DEF told
<1> QED BY <1>1, InvInit, InvStep, TestsInit, TestsStep, PTL DEF Spec, ClaimsAreNarrated, told
=============================================================================
