---------------------------- MODULE MCPublication ----------------------------
(***************************************************************************)
(* Instances of Publication: manifests, graphs and files of an author.     *)
(***************************************************************************)
EXTENDS Publication

CONSTANTS own, sib, pkg, low, high

M(profile, langs, atoms) == [profile |-> profile, langs |-> langs, atoms |-> atoms]
Legacy == M(Full, <<>>, FALSE)
Consumer == M("consumer", <<>>, TRUE)
SingleRu == M(Full, <<"ru">>, TRUE)
Multi == M(Full, <<"en", "ru">>, FALSE)
MultiRu == M("consumer", <<"ru", "en">>, TRUE)

AllManifests == {Legacy, SingleRu, Multi, MultiRu}
SharingManifests == {Consumer, Multi, SingleRu}

G(packages, conflicts) == [packages |-> packages, conflicts |-> conflicts]
TwoGraphs == {G({pkg}, FALSE), G({}, TRUE)}
OneGraph == {G({pkg}, TRUE)}

\* the readers find the same on every crystal, settle on a second render, never
\* settle, or measure the root crystal
Embedded == {low, high, None} \X {low, high, None}
Steady == [e \in Embedded |-> low]
Settling == [e \in Embedded |-> IF e[1] = None THEN low ELSE high]
Swinging == [e \in Embedded |-> IF e[1] = low THEN high ELSE low]
Measuring == [e \in Embedded |-> IF e[2] = None THEN low ELSE high]
HandFiles == {Path(own, pkg, "en"), Path(own, "REQUIREMENTS", ""), Path("root", "CLAUDE", "ru"),
              Path(own, "thinking", Foreign)}

\* one domain whose every input changes and whose runs are cut off; the same
\* where the readers never settle; two that share framework/ and the root crystal
MCProjects ==
    LET alone == [domains |-> {own}, marked |-> FALSE, graphs |-> TwoGraphs,
                  manifests |-> AllManifests, readings |-> {Settling}, authored |-> HandFiles,
                  edits |-> 2, faults |-> 1]
    IN  [alone |-> alone,
         unsettled |-> [alone EXCEPT !.readings = {Swinging}, !.edits = 1],
         shared |-> [domains |-> {own, sib}, marked |-> TRUE, graphs |-> OneGraph,
                     manifests |-> SharingManifests, readings |-> {Measuring}, authored |-> {},
                     edits |-> 1, faults |-> 0]]
=============================================================================
