---------------------------- MODULE MCSyncDomain ----------------------------
EXTENDS SyncDomain

CONSTANTS a, b, amy, bob, t1, t2

Body(claim, owner, tests) ==
    [claim |-> claim, owner |-> owner, status |-> "SETTLED", prose |-> FALSE,
     subject |-> "model", tests |-> tests, uses |-> {}, order |-> 0]

Code(hand, people, titles) ==
    [builds |-> TRUE, hand |-> hand, people |-> people, titles |-> titles, failing |-> {},
     proves |-> {}, atoms |-> << >>]

Names == [p \in {amy, bob} |-> p]
Amy == [p \in {amy} |-> p]
Told(x, y) == [t \in {t1, t2} |-> IF t = t1 THEN x ELSE y]
One(body) == [id \in {a} |-> body]
Two(x, y) == [id \in {a, b} |-> IF id = a THEN x ELSE y]

\* Hand-written claims: a requirement is added, reworded, given to somebody new.
SoftCodes ==
    LET none == Told(<< >>, << >>)
        old == Body(<<"old">>, amy, <<t1>>)
    IN  {Code(Two(Body(<<"new">>, amy, <<t1>>), Body(<<"b">>, bob, << >>)), Names, none),
         Code(Two(old, Body(<<"B">>, bob, << >>)), Names, none),
         Code(Two(Body(<<"new">>, amy, <<t1>>), Body(<<"b">>, bob, << >>)), Amy, none),
         [Code(One(old), Amy, none) EXCEPT !.builds = FALSE]}

\* Claims derived from two tests, one of which can fail, repeat a title or
\* be reworded.
FullCodes ==
    LET reg == One(Body(<< >>, amy, <<t1, t2>>))
    IN  {Code(reg, Amy, Told(<<"old">>, <<"and">>)),
         Code(reg, Amy, Told(<<"new", "new">>, <<"new">>)),
         Code(Two(Body(<< >>, amy, <<t1>>), [Body(<<"b">>, amy, <<t2>>) EXCEPT !.status = "DRAFT"]), Amy, Told(<<"new">>, << >>))}

Atom(id, claim, test, subjects, at) ==
    [id |-> id, claim |-> claim, test |-> test, subjects |-> subjects, at |-> at]

\* Two facts, the second of which the first rests on; a renamed method, with
\* and without the rejection the rename calls for; one fact proved twice.
AtomCodes ==
    LET on(hand, atoms) == [Code(hand, Amy, Told(<< >>, << >>)) EXCEPT
                              !.proves = {atoms[n].test : n \in DOMAIN atoms}, !.atoms = atoms]
        empty == [id \in {} |-> None]
        first == Atom(a, <<"a">>, t1, <<"M.a", "M.b">>, 2)
        second == Atom(b, <<"b">>, t2, <<"M.b">>, 1)
    IN  {on(empty, <<first, second>>),
         on(empty, <<Atom(a, <<"a2">>, t1, <<"M.a">>, 1), Atom(a, <<"a2">>, t2, <<"M.a">>, 2)>>),
         on(One([Body(<< >>, amy, << >>) EXCEPT !.status = "REJECTED", !.subject = "M.a"]), <<second>>),
         on(One([Body(<< >>, None, << >>) EXCEPT !.status = None, !.subject = "M.b"]), <<[second EXCEPT !.id = "M.b"]>>)}

Soft == [full |-> FALSE, authority |-> FALSE, atoms |-> FALSE]
Full == [full |-> TRUE, authority |-> FALSE, atoms |-> FALSE]
Derived == [full |-> TRUE, authority |-> TRUE, atoms |-> FALSE]
Atoms == [full |-> TRUE, authority |-> FALSE, atoms |-> TRUE]
MCManifests == {Soft, Full, Derived, Atoms}

MCCodes == [m \in {Soft, Full, Derived, Atoms} |->
    CASE m.atoms -> AtomCodes [] m.full /\ ~m.atoms -> FullCodes [] OTHER -> SoftCodes]

Node(body) == [body |-> body, history |-> <<[by |-> "created"]>>, signoffs |-> {}]
Start(reqs) == [reqs |-> reqs, people |-> Amy, open |-> {}]
Known == Two(Node(Body(<<"old">>, amy, <<t1>>)), Node(Body(<<"b">>, amy, << >>)))
MCGraphs == [m \in {Soft, Full, Derived, Atoms} |->
    {Start([id \in {} |-> None])} \union
    CASE m.atoms -> {}
      [] m.full /\ ~m.atoms -> {Start([id \in {a} |-> Node(Body(<<"old">>, amy, <<t1, t2>>))])}
      [] OTHER -> {Start(Known)}]

MCCarriers == {[id |-> "C1", members |-> {a, b}]}
=============================================================================
