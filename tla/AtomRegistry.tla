----------------------------- MODULE AtomRegistry -----------------------------
(***************************************************************************)
(* How the requirements of a code-authored domain are read off its code    *)
(* (src/internal/selfspec).  The domain's own registry gives the           *)
(* hand-written entries; its tests give either scenario titles, from which *)
(* a claim is derived, or recorder artifacts ("atoms"), from which whole   *)
(* requirements are discovered and then overridden by the registry.        *)
(*                                                                         *)
(* One state of the code is a record                                       *)
(*   builds   does `go run ./registrydump` succeed within its deadline     *)
(*   hand     the registry: requirement id -> body                         *)
(*   people   the stakeholders it declares: id -> name                     *)
(*   titles   test -> the titles its run records, in order                 *)
(*   failing  the tests that do not pass                                   *)
(*   proves   the tests whose source calls Fact or Holds                   *)
(*   atoms    the artifacts of the package run, in the order they are read *)
(* A claim is the sequence of titles it is joined from.                    *)
(***************************************************************************)
EXTENDS Naturals, Sequences, FiniteSets, SequencesExt

CONSTANTS
    None,      \* no id, no owner, no subject
    Methods,   \* the subjects that are methods of a model type (AtomLinkShaped)
    Director   \* the owner of an atom nothing else gives one

-----------------------------------------------------------------------------
(* Claims from scenarios *)

\* The titles one passing test contributes: a repeated title counts once
\* within a test, and again in another test.
TitlesOf(code, bad, test) ==
    IF test \in code.failing \union bad THEN << >>
    ELSE FoldLeft(LAMBDA seen, t : IF t \in ToSet(seen) THEN seen ELSE Append(seen, t),
                  << >>, code.titles[test])

Narrated(code, bad, tests) ==
    FoldLeft(LAMBDA claim, t : claim \o TitlesOf(code, bad, t), << >>, tests)

InClaimScope(body) == ~body.prose /\ body.tests # << >>

\* DeriveClaimsFromScenarios: what narrates nothing keeps the claim it has.
WithDerivedClaims(reg, code, bad) ==
    [id \in DOMAIN reg |->
        LET claim == Narrated(code, bad, reg[id].tests)
        IN  IF InClaimScope(reg[id]) /\ claim # << >>
            THEN [reg[id] EXCEPT !.claim = claim] ELSE reg[id]]

-----------------------------------------------------------------------------
(* Requirements from atoms *)

Discovered(a) ==
    [claim |-> a.claim, owner |-> Director, status |-> "SETTLED", prose |-> FALSE,
     subject |-> Head(a.subjects), tests |-> <<a.test>>, uses |-> {}, order |-> 0]

\* The registry entries that speak for an artifact: by their first
\* implementation link when they have one, by id otherwise.
Overrides(hand, a) ==
    {id \in DOMAIN hand :
        /\ hand[id].status # "REJECTED"
        /\ IF hand[id].subject # None THEN hand[id].subject = Head(a.subjects) ELSE id = a.id}

Overridden(body, o) ==
    [body EXCEPT !.owner  = IF o.owner # None THEN o.owner ELSE @,
                 !.status = IF o.status # None THEN o.status ELSE @,
                 !.prose  = o.prose,
                 !.uses   = o.uses]

Failed == [ok |-> FALSE, atoms |-> << >>, used |-> {}, evidence |-> {}]

\* The same requirement proved again: its tests are joined, and it keeps the
\* earliest place in the narrative.
Rejoined(old, a, body) ==
    [old EXCEPT !.body.tests = IF a.test \in ToSet(@) THEN @ ELSE Append(@, a.test),
                !.at = IF a.at < @ THEN a.at ELSE @]

Discover(hand, acc, a) ==
    LET speakers == Overrides(hand, a)
        id    == IF speakers = {} THEN a.id ELSE CHOOSE s \in speakers : TRUE
        body  == IF speakers = {} THEN Discovered(a) ELSE Overridden(Discovered(a), hand[id])
        known == {i \in DOMAIN acc.atoms : acc.atoms[i].id = id}
        clash == \/ Cardinality(speakers) > 1
                 \/ (speakers # {} /\ hand[id].claim \notin {<< >>, a.claim})
                 \/ \E i \in known : \/ acc.atoms[i].body.claim # body.claim
                                     \/ acc.atoms[i].body.subject # body.subject
        found == IF known = {} THEN Append(acc.atoms, [id |-> id, at |-> a.at, body |-> body])
                 ELSE [i \in DOMAIN acc.atoms |->
                          IF i \in known THEN Rejoined(acc.atoms[i], a, body) ELSE acc.atoms[i]]
    IN  IF ~acc.ok \/ clash THEN Failed
        ELSE [ok |-> TRUE, atoms |-> found, used |-> acc.used \union speakers,
              evidence |-> acc.evidence \union {<<id, s>> : s \in ToSet(Tail(a.subjects))}]

\* The atom a supporting subject stands for: the last one read with it.
PrimaryOf(atoms, subject) ==
    LET same == {i \in DOMAIN atoms : atoms[i].body.subject = subject}
    IN  atoms[CHOOSE i \in same : \A j \in same : j <= i].id

\* What of the registry stands beside the atoms, and what has to be refused.
Carried(hand, used) == {id \in DOMAIN hand : hand[id].status = "REJECTED" \/ id \notin used}
Unbacked(hand, used, ids) ==
    {id \in Carried(hand, used) :
        id \in ids \/ (hand[id].status # "REJECTED" /\ hand[id].subject \in Methods)}

NoRegistry == [ok |-> FALSE, reg |-> [id \in {} |-> None]]

\* DiscoverAtoms
DiscoverAtoms(hand, code, bad) ==
    LET run   == FoldLeft(LAMBDA acc, a : Discover(hand, acc, a),
                          [Failed EXCEPT !.ok = TRUE], code.atoms)
        ids   == {run.atoms[i].id : i \in DOMAIN run.atoms}
        owns(s) == \E i \in DOMAIN run.atoms : run.atoms[i].body.subject = s
        index(id) == CHOOSE i \in DOMAIN run.atoms : run.atoms[i].id = id
        before(i) == {j \in DOMAIN run.atoms :
                        \/ run.atoms[j].at < run.atoms[i].at
                        \/ (run.atoms[j].at = run.atoms[i].at /\ j <= i)}
        uses(id) == {PrimaryOf(run.atoms, e[2]) : e \in {e \in run.evidence : e[1] = id}}
        carried == Carried(hand, run.used)
    IN  IF \/ (code.failing \union bad) \intersect code.proves # {}
           \/ \E t \in code.proves : \A i \in DOMAIN code.atoms : code.atoms[i].test # t
           \/ ~run.ok
           \/ \E e \in run.evidence : ~owns(e[2])
           \/ Unbacked(hand, run.used, ids) # {}
        THEN NoRegistry
        ELSE [ok |-> TRUE,
              reg |-> [id \in ids \union carried |->
                         IF id \in ids
                         THEN [run.atoms[index(id)].body EXCEPT
                                  !.order = Cardinality(before(index(id))),
                                  !.uses = @ \union uses(id)]
                         ELSE hand[id]]]

\* freshAtomClaim: the tests of a requirement are read in order until one has
\* no atom of it; what the atoms read so far execute to must agree.
AtomsOf(code, id, body, test) ==
    {i \in DOMAIN code.atoms :
        /\ code.atoms[i].test = test
        /\ code.atoms[i].id = id \/ Head(code.atoms[i].subjects) = body.subject}

TestsRead(code, id, body) ==
    {n \in DOMAIN body.tests : \A m \in 1..n : AtomsOf(code, id, body, body.tests[m]) # {}}

ClaimsRead(code, id, body) ==
    {code.atoms[i].claim :
        i \in UNION {AtomsOf(code, id, body, body.tests[n]) : n \in TestsRead(code, id, body)}}

AtomClaimIsStale(code, id, body) ==
    \/ Cardinality(ClaimsRead(code, id, body)) > 1
    \/ /\ TestsRead(code, id, body) = DOMAIN body.tests
       /\ ClaimsRead(code, id, body) # {body.claim}
=============================================================================
