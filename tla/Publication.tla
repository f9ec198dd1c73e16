---------------------------- MODULE Publication ----------------------------
(***************************************************************************)
(* What `hotam gen-spec` and `hotam evidence --write` leave on disk.       *)
(*                                                                         *)
(* A run of gen-spec renders a domain's graph into a staged bundle, writes *)
(* the bundle in parallel, re-renders the files that embed what the checks *)
(* read out of the boot crystal until that stops changing, and then removes*)
(* the generated files which the bundle no longer has.  Between runs the   *)
(* graph, the profile and the languages of the domain change, an author    *)
(* writes files of his own under generated names, and a run may be cut off *)
(* at any point.  Nothing of the previous run is remembered except the     *)
(* files themselves, so what may be overwritten or removed is decided from *)
(* a path's name and a file's first line.                                  *)
(*                                                                         *)
(* A path is a directory ("framework" and "root" are shared by the domains *)
(* of a project), a document and the language of its suffix; "" is no      *)
(* suffix.  A package of the graph stands for its SPEC shard.  Of a file's *)
(* text the model keeps who wrote it and what it was rendered from.        *)
(***************************************************************************)
EXTENDS FiniteSets, Naturals, Sequences

CONSTANTS
    Projects,       \* the projects: name -> what one consists of and goes through, a record of
                    \*   domains, marked  its domains; has it a .hotam-spec-project marker
                    \*   graphs           graphs a domain can have: [packages, conflicts]
                    \*   manifests        [profile, langs, atoms]; langs[1] is the default
                    \*   readings         how the checks can depend on the crystal they read
                    \*   authored         paths at which somebody may put a file of his own
                    \*   edits, faults    bounds: changes made between runs, runs cut off
    Locales,        \* the languages the engine has a catalog for
    Foreign,        \* a suffix that looks like a language and is none of them
    Packages,       \* source packages, one SPEC shard each
    Overrides,      \* values of --profile ("" is none)
    MaxRenders,     \* renders before the fixpoint gives up
    MayFail,        \* bound: the documents whose write may fail
    None            \* no value

VARIABLES
    project,    \* the name of the project
    disk,       \* the generated tree: existing paths to their contents
    graph,      \* graph[d]
    manifest,   \* manifest[d]
    active,     \* the domain whose crystal is the root CLAUDE.md
    reads,      \* what the readers find in what their crystals embed
    run,        \* the gen-spec in progress
    settled,    \* input of the last run, if it succeeded and nothing changed since
    edits, faults

vars == <<project, disk, graph, manifest, active, reads, run, settled, edits, faults>>

Here == Projects[project]

Full == "full"

Path(at, doc, lang) == [at |-> at, doc |-> doc, lang |-> lang]
Drop(f, S) == [x \in DOMAIN f \ S |-> f[x]]
At(p, text) == [x \in {p} |-> text]
Over(f, g) == [x \in DOMAIN f \cup DOMAIN g |-> IF x \in DOMAIN f THEN f[x] ELSE g[x]]

-----------------------------------------------------------------------------
(* Files: by "hand"; "generated"; "notes" for a retired crystal of which     *)
(* only the notes below the marker line were kept; "torn" for one whose     *)
(* write was cut off before its first line was out.                         *)

Text(d, lang, g) ==
    [by |-> "generated", of |-> d, lang |-> lang, graph |-> g,
     verdict |-> None, lists |-> {}, notes |-> FALSE]
Hand == [Text(None, "", None) EXCEPT !.by = "hand"]
NotesOnly == [Hand EXCEPT !.by = "notes", !.notes = TRUE]
Torn == [Hand EXCEPT !.by = "torn"]

\* the banner in the first line, or the title of a report
IsGenerated(p) == p \in DOMAIN disk /\ disk[p].by = "generated"

\* a file with the durable-notes marker line
TemplateShaped(p) == p \in DOMAIN disk /\ disk[p].by \in {"generated", "notes"}

-----------------------------------------------------------------------------
(* The layout of the generated documents.                                   *)

Range(s) == {s[i] : i \in DOMAIN s}
Localized(m) == m.langs # <<>>
Multilingual(m) == Len(m.langs) > 1
LanguagesForViews(m) == IF Localized(m) THEN Range(m.langs) ELSE {""}
Default(m) == IF Localized(m) THEN m.langs[1] ELSE ""
DocumentPath(m, at, doc, l) == Path(at, doc, IF Multilingual(m) THEN l ELSE "")
CrystalPath(m, at, l) ==
    Path(at, "CLAUDE", IF Multilingual(m) /\ l # Default(m) THEN l ELSE "")

Views == {"REQUIREMENTS", "TENSIONS", "CONSTITUTION", "live-state", "REPO-MAP"}
Framework == {"GLOSSARY", "tool"}
ReportDocs == {"EVIDENCE", "page", "evidence.json"}
SpecDocs == {"SPEC"} \cup Packages
CrystalDocs == {"CLAUDE", "AGENTS"}
DomainDocs == Views \cup {"thinking", "graph.json"} \cup SpecDocs \cup ReportDocs

ASSUME PublicationAssumption ==
    /\ Locales \cap {Foreign, ""} = {}
    /\ MaxRenders \in Nat
    /\ None \notin (UNION {Projects[name].domains : name \in DOMAIN Projects}) \X BOOLEAN
                    \X (Overrides \cup UNION {{m.profile : m \in Projects[name].manifests}
                                              : name \in DOMAIN Projects}) \X BOOLEAN
    /\ Packages \cap (Views \cup Framework \cup ReportDocs \cup CrystalDocs
                        \cup {"SPEC", "thinking", "graph.json"}) = {}
    /\ \A name \in DOMAIN Projects :
          LET it == Projects[name]
          IN  /\ it.edits \in Nat /\ it.faults \in Nat
              /\ it.domains \cap {"framework", "root"} = {}
              /\ \A m \in it.manifests : m.langs \in Seq(Locales)
              /\ \A g \in it.graphs : g.packages \subseteq Packages
              /\ \A p \in it.authored : p.lang \in Locales \cup {"", Foreign}

\* the SPEC bundle of the declared layout; a path spec/en/p.md is a shard of
\* a package en/p where languages have no directories
IsSpecPath(m, p) ==
    /\ p.doc \in SpecDocs
    /\ Multilingual(m) => p.lang \in Range(m.langs)
    /\ ~Multilingual(m) /\ p.doc = "SPEC" => p.lang = ""

\* crystals are rendered by default once the project has one
CrystalDir(d) == IF d = active THEN "root" ELSE d
ConventionExists == Here.marked \/ Path("root", "CLAUDE", "") \in DOMAIN disk
Boot(d) == Path(CrystalDir(d), "CLAUDE", "")

\* one reader takes a domain's own crystal before the root's, the other the root's
FoundByReaders(d) ==
    LET local == Path(d, "CLAUDE", "")
        root == Path("root", "CLAUDE", "")
        embedded(p) == IF p \in DOMAIN disk THEN disk[p].verdict ELSE None
    IN  reads[<<embedded(IF local \in DOMAIN disk THEN local ELSE root), embedded(root)>>]

-----------------------------------------------------------------------------
(* What a run renders.                                                      *)

HasContent(doc, g) == doc # "TENSIONS" \/ g.conflicts
ViewDocs(g, profile) ==
    {x \in Views : HasContent(x, g)
                   /\ (profile # Full => x \in {"REQUIREMENTS", "TENSIONS"})}

SpecFiles(d, m, g, l) ==
    {DocumentPath(m, d, "SPEC", l)}
        \cup IF m.atoms \/ Multilingual(m)
             THEN {DocumentPath(m, d, x, l) : x \in g.packages} ELSE {}
BuildSpecDocuments(d, m, g) ==
    LET of(l) == SpecFiles(d, m, g, l)
        all == UNION {of(l) : l \in LanguagesForViews(m)}
    IN  [p \in all |-> Text(d, CHOOSE l \in LanguagesForViews(m) : p \in of(l), g)]

\* the documents the file index of a language lists
RepoMapLists(d, m, g, l, profile, specs) ==
    {DocumentPath(m, d, x, l) : x \in ViewDocs(g, profile) \ {"live-state"}}
    \cup IF Localized(m)
         THEN specs \cap ({DocumentPath(m, d, "SPEC", l)}
                \cup IF m.atoms THEN {DocumentPath(m, d, x, l) : x \in g.packages}
                     ELSE {})
         ELSE specs

LanguageDocs(d, m, g, l, profile, verdict, specs) ==
    LET names == ViewDocs(g, profile)
                    \cup IF profile = Full THEN {"thinking"} \cup Framework ELSE {}
        at(x) == IF x \in Framework THEN "framework" ELSE d
    IN  [p \in {DocumentPath(m, at(x), x, l) : x \in names} |->
            CASE p.doc = "REPO-MAP" ->
                    [Text(d, l, g) EXCEPT !.lists = RepoMapLists(d, m, g, l, profile, specs)]
              [] p.doc = "live-state" -> [Text(d, l, g) EXCEPT !.verdict = verdict]
              [] p.doc \in Framework \cup {"thinking"} -> Text(None, l, None)
              [] OTHER -> Text(d, l, g)]

Merge(fs) == [p \in UNION {DOMAIN f : f \in fs} |->
                 (CHOOSE f \in fs : p \in DOMAIN f)[p]]

BuildReports(d, m, g) ==
    Merge({[p \in {DocumentPath(m, d, x, l) : x \in {"EVIDENCE", "page"}} |-> Text(d, l, g)]
           : l \in LanguagesForViews(m)})
ReportPresent(d) == \E p \in DOMAIN disk : p.at = d /\ p.doc \in ReportDocs

\* the crystal of every language, each keeping the notes its file has; the
\* default one also under the name another agent boots from
Crystals(d, m, g, verdict) ==
    LET dir == CrystalDir(d)
        of(p) == [Text(d, IF p.lang = "" THEN Default(m) ELSE p.lang, g) EXCEPT
                    !.verdict = verdict,
                    !.notes = TemplateShaped(p) /\ disk[p].notes]
    IN  Over(At(Path(dir, "AGENTS", ""), of(Path(dir, "CLAUDE", ""))),
             [p \in {CrystalPath(m, dir, l) : l \in LanguagesForViews(m)} |-> of(p)])

ExistingSpec_AnyLayout(d, m) == {p \in DOMAIN disk : p.at = d /\ p.doc \in SpecDocs /\ IsGenerated(p)}

\* SPEC documents a run that renders none finds for its file index
ExistingSpec(d, m) ==
    IF Localized(m) THEN {p \in DOMAIN disk : p.at = d /\ IsSpecPath(m, p) /\ IsGenerated(p)}
    ELSE {p \in DOMAIN disk : p = Path(d, "SPEC", "")}

Staged(d, spec, profile, crystal, verdict) ==
    LET m == manifest[d]
        g == graph[d]
        specs == IF spec THEN BuildSpecDocuments(d, m, g) ELSE <<>>
        listed == IF spec THEN DOMAIN specs ELSE ExistingSpec(d, m)
    IN  Merge({LanguageDocs(d, m, g, l, profile, verdict, listed) : l \in LanguagesForViews(m)}
        \cup {specs}
        \cup (IF ReportPresent(d) THEN {BuildReports(d, m, g)} ELSE {})
        \cup (IF profile = Full THEN {At(Path(d, "graph.json", ""), Text(d, "", g))} ELSE {})
        \cup (IF crystal THEN {Crystals(d, m, g, verdict)} ELSE {}))

\* destinations that hold something else are refused before the first write
Refused(d, paths) ==
    \E p \in paths \cap DOMAIN disk :
        /\ IF p.doc = "CLAUDE" THEN ~TemplateShaped(p) ELSE ~IsGenerated(p)
        /\ \/ p.doc \in SpecDocs \cup {"EVIDENCE", "page"}
           \/ p.doc = "CLAUDE" /\ p.lang # ""
           \/ Localized(manifest[d]) /\ p.doc \in Views \cup {"thinking"} \cup Framework

-----------------------------------------------------------------------------
(* What a run removes.                                                      *)

Owned_ByName(m, p) == p.doc \in SpecDocs => IsGenerated(p)

\* a stale file is removed if it is the generator's: told by its banner where
\* its name may be an author's too, by its name alone elsewhere
Owned(m, p) ==
    \/ IsGenerated(p)
    \/ /\ p.doc \notin SpecDocs
       /\ p.lang = ""
       /\ Localized(m) => p.doc \notin Views \cup {"GLOSSARY"}

StaleGenFiles(d, m, written, spec) ==
    {p \in DOMAIN disk \ written :
        /\ p.at = d /\ p.doc \in DomainDocs \ ReportDocs
        /\ p.doc \in Packages \/ p.lang # Foreign
        /\ Owned(m, p)
        /\ ~spec => ~IsSpecPath(m, p)}

StaleShards(d, written) ==
    {p \in DOMAIN disk \ written : p.at = d /\ p.doc \in Packages /\ IsGenerated(p)}

\* the shared files go when no domain that owns them is left
HasOtherFullProfile_Active(d) == active # d /\ manifest[active].profile = Full
HasOtherFullProfile(d) == \E e \in Here.domains \ {d} : manifest[e].profile = Full
UsesFullProfile == \E e \in Here.domains : manifest[e].profile = Full
StaleFrameworkFiles(d, m, profile, written) ==
    IF (IF profile = Full THEN HasOtherFullProfile(d) ELSE UsesFullProfile) THEN {}
    ELSE {p \in DOMAIN disk \ written :
            /\ p.at = "framework" /\ p.doc \in Framework
            /\ p.lang # Foreign /\ Owned(m, p)}

\* detail pages are candidates too, but no predicate recognises their names
StaleEvidenceViews(d, m, written) ==
    {p \in DOMAIN disk \ written :
        /\ p.at = d /\ p.doc = "EVIDENCE" /\ IsGenerated(p)
        /\ p \notin {DocumentPath(m, d, "EVIDENCE", l) : l \in LanguagesForViews(m)}}

StaleCrystals(d, crystal, written) ==
    LET dirs == IF crystal THEN {CrystalDir(d)}
                ELSE IF ConventionExists THEN {} ELSE {"root", d}
    IN  {p \in DOMAIN disk \ written :
            p.at \in dirs /\ p.doc = "CLAUDE" /\ p.lang \in Locales /\ TemplateShaped(p)}

-----------------------------------------------------------------------------
(* The checks that compare the tree with a fresh render.                    *)

SpecRequired(d, m) ==
    Multilingual(m) \/ m.atoms
        \/ \E p \in DOMAIN disk : p.at = d /\ IsSpecPath(m, p) /\ IsGenerated(p)

Expected(d) ==
    LET m == manifest[d]
        g == graph[d]
        spec == SpecRequired(d, m)
        specs == IF spec THEN BuildSpecDocuments(d, m, g) ELSE <<>>
        listed == IF spec THEN DOMAIN specs ELSE ExistingSpec(d, m)
    IN  Merge({LanguageDocs(d, m, g, l, m.profile, FoundByReaders(d), listed)
               : l \in LanguagesForViews(m)}
        \cup {specs}
        \cup (IF ReportPresent(d) THEN {BuildReports(d, m, g)} ELSE {}))

Differing(f) == {p \in DOMAIN f : p \notin DOMAIN disk \/ disk[p] # f[p]}

Obsolete(d, expected) ==
    {p \in DOMAIN disk \ expected :
        /\ p.at = d /\ p.doc \in DomainDocs \ {"graph.json", "evidence.json"}
        /\ p.doc \in Packages \/ p.lang # Foreign
        /\ IF p.doc = "EVIDENCE" THEN IsGenerated(p) ELSE Owned(manifest[d], p)}

ObsoleteShared(d, expected) ==
    IF HasOtherFullProfile(d) THEN {}
    ELSE {p \in DOMAIN disk \ expected :
            /\ p.at = "framework" /\ p.doc \in Framework
            /\ p.lang # Foreign /\ Owned(manifest[d], p)}

StaleCrystalFiles(d) ==
    LET all == Crystals(d, manifest[d], graph[d], FoundByReaders(d))
        mine == {q \in DOMAIN all : q.doc = "CLAUDE"}
    IN  IF ConventionExists /\ TemplateShaped(Boot(d))
        THEN Differing([p \in mine |-> all[p]]) ELSE {}

StaleOutputs(d) ==
    LET expected == Expected(d)
    IN  StaleCrystalFiles(d) \cup
        IF Localized(manifest[d])
        THEN Differing(expected) \cup Obsolete(d, DOMAIN expected)
                \cup ObsoleteShared(d, DOMAIN expected)
        ELSE {p \in Differing(expected) \cap DOMAIN disk : p.doc = "live-state"}

-----------------------------------------------------------------------------
Idle == [pc |-> "idle", d |-> None, spec |-> FALSE, profile |-> None, crystal |-> FALSE,
         staged |-> <<>>, verdict |-> None, renders |-> 0, again |-> FALSE, before |-> <<>>]

Init ==
    /\ project \in DOMAIN Projects
    /\ disk = <<>>
    /\ graph \in [Here.domains -> Here.graphs]
    /\ manifest \in [Here.domains -> Here.manifests]
    /\ active \in Here.domains
    /\ reads \in Here.readings
    /\ run = Idle
    /\ settled = None
    /\ edits = 0
    /\ faults = 0

Unchanged == UNCHANGED <<project, graph, manifest, active, reads, edits, faults>>

(* gen-spec renders everything and checks every destination first.          *)
GenSpec(d, includeSpec, override, explicit) ==
    LET m == manifest[d]
        spec == includeSpec \/ Multilingual(m)
        profile == IF override = "" THEN m.profile ELSE override
        crystal == explicit \/ ConventionExists
        verdict == FoundByReaders(d)
        staged == Staged(d, spec, profile, crystal, verdict)
        input == <<d, spec, profile, crystal>>
        again == settled = input
    IN  /\ run.pc = "idle"
        /\ IF Refused(d, DOMAIN staged)
           THEN /\ settled' = None
                /\ UNCHANGED run
           ELSE /\ run' = [pc |-> "publish", d |-> d, spec |-> spec, profile |-> profile,
                           crystal |-> crystal, staged |-> staged, verdict |-> verdict,
                           renders |-> 0, again |-> again,
                           before |-> IF again THEN disk ELSE <<>>]
                /\ settled' = input
        /\ UNCHANGED disk /\ Unchanged

WriteBundle ==
    /\ run.pc = "publish"
    /\ disk' = Over(run.staged, disk)
    /\ run' = [run EXCEPT !.pc = "converge"]
    /\ UNCHANGED settled /\ Unchanged

\* every file has a goroutine of its own: one that fails, before or after it
\* truncated its file, stops no other
WriteBundleFails ==
    /\ run.pc = "publish"
    /\ faults < Here.faults
    /\ \E lost \in {p \in DOMAIN run.staged : p.doc \in MayFail}, torn \in BOOLEAN :
        disk' = LET left == Over(Drop(run.staged, {lost}), disk)
                IN  IF torn THEN Over(At(lost, Torn), left) ELSE left
    /\ run' = Idle
    /\ settled' = None
    /\ faults' = faults + 1
    /\ UNCHANGED <<project, graph, manifest, active, reads, edits>>

ConvergeWithin(limit, embedding) ==
    LET found == FoundByReaders(run.d)
        again == [p \in {q \in DOMAIN run.staged : q.doc \in embedding} |->
                    [run.staged[p] EXCEPT !.verdict = found]]
    IN  /\ run.pc = "converge"
        /\ IF found = run.verdict
           THEN /\ run' = [run EXCEPT !.pc = "crystals"]
                /\ UNCHANGED <<disk, settled>>
           ELSE IF run.renders = limit
           THEN /\ run' = Idle
                /\ settled' = None
                /\ UNCHANGED disk
           ELSE /\ disk' = Over(again, disk)
                /\ run' = [run EXCEPT !.renders = @ + 1, !.verdict = found,
                                      !.staged = Over(again, @)]
                /\ UNCHANGED settled
        /\ Unchanged

Converge_CrystalsOnly == ConvergeWithin(MaxRenders, CrystalDocs)

\* the files that embed what the readers found are rendered again until the
\* readers find on the written crystal what it embeds
Converge == ConvergeWithin(MaxRenders, {"live-state"} \cup CrystalDocs)

Clean(pc, next, stale) ==
    /\ run.pc = pc
    /\ disk' = Drop(disk, stale)
    /\ run' = [run EXCEPT !.pc = next]
    /\ UNCHANGED settled /\ Unchanged

CleanCrystals_DropsNotes ==
    Clean("crystals", "raw", StaleCrystals(run.d, run.crystal, DOMAIN run.staged))

\* of a crystal with notes the notes stay, under the marker line
CleanCrystals ==
    LET stale == StaleCrystals(run.d, run.crystal, DOMAIN run.staged)
        noted == {p \in stale : disk[p].notes}
    IN  /\ run.pc = "crystals"
        /\ disk' = Over([p \in noted |-> NotesOnly], Drop(disk, stale))
        /\ run' = [run EXCEPT !.pc = "raw"]
        /\ UNCHANGED settled /\ Unchanged

CleanRaw ==
    Clean("raw", "spec",
          {p \in {Path(run.d, "evidence.json", "")} :
              IsGenerated(p) /\ \E q \in DOMAIN run.staged : q.doc = "EVIDENCE"})
CleanShards ==
    Clean("spec", "gen", IF run.spec THEN StaleShards(run.d, DOMAIN run.staged) ELSE {})
CleanGenFiles ==
    Clean("gen", "framework",
          StaleGenFiles(run.d, manifest[run.d], DOMAIN run.staged, run.spec))
CleanFramework ==
    Clean("framework", "evidence",
          StaleFrameworkFiles(run.d, manifest[run.d], run.profile, DOMAIN run.staged))
CleanEvidence ==
    Clean("evidence", "finished",
          StaleEvidenceViews(run.d, manifest[run.d], DOMAIN run.staged))

Return ==
    /\ run.pc = "finished"
    /\ run' = Idle
    /\ UNCHANGED <<disk, settled>> /\ Unchanged

\* an error or a crash: what was done stays done
CutOff ==
    /\ run.pc \notin {"idle", "publish", "finished"}
    /\ faults < Here.faults
    /\ run' = Idle
    /\ settled' = None
    /\ faults' = faults + 1
    /\ UNCHANGED <<project, disk, graph, manifest, active, reads, edits>>

-----------------------------------------------------------------------------
(* Between runs.                                                            *)

Edit ==
    /\ run.pc = "idle"
    /\ edits < Here.edits
    /\ edits' = edits + 1
    /\ settled' = None
    /\ UNCHANGED <<project, reads, run, faults>>

\* hotam evidence --write, with --json or without
EvidenceWrite(d, json) ==
    LET reports == BuildReports(d, manifest[d], graph[d])
        raw == Path(d, "evidence.json", "")
        stale == {p \in DOMAIN disk \ DOMAIN reports :
                    /\ p.at = d /\ IsGenerated(p)
                    /\ p.doc \in {"EVIDENCE", "page"} \/ (p = raw /\ ~json)}
    IN  /\ Edit
        /\ ~Refused(d, DOMAIN reports)
        /\ disk' = LET left == Over(reports, Drop(disk, stale))
                   IN  IF json THEN Over(At(raw, Text(d, "", graph[d])), left) ELSE left
        /\ UNCHANGED <<graph, manifest, active>>

ChangeGraph(d) ==
    /\ Edit
    /\ \E g \in Here.graphs \ {graph[d]} : graph' = [graph EXCEPT ![d] = g]
    /\ UNCHANGED <<disk, manifest, active>>

ChangeManifest(d) ==
    /\ Edit
    /\ \E m \in Here.manifests \ {manifest[d]} : manifest' = [manifest EXCEPT ![d] = m]
    /\ UNCHANGED <<disk, graph, active>>

SwitchActive(d) ==
    /\ Edit
    /\ active # d
    /\ active' = d
    /\ UNCHANGED <<disk, graph, manifest>>

Author(p) ==
    /\ Edit
    /\ p \in DOMAIN disk => ~disk[p].notes
    /\ disk' = Over(At(p, Hand), disk)
    /\ UNCHANGED <<graph, manifest, active>>

TakeNotes(p) ==
    /\ Edit
    /\ p.doc \in CrystalDocs /\ TemplateShaped(p)
    /\ disk' = [disk EXCEPT ![p].notes = TRUE]
    /\ UNCHANGED <<graph, manifest, active>>

\* what a cut-off write left is nobody's: gen-spec refuses it until it is gone
RemoveTorn(p) ==
    /\ Edit
    /\ disk[p].by = "torn"
    /\ disk' = Drop(disk, {p})
    /\ UNCHANGED <<graph, manifest, active>>

Next ==
    \/ \E d \in Here.domains, spec, explicit \in BOOLEAN, override \in Overrides :
            GenSpec(d, spec, override, explicit)
    \/ WriteBundle \/ WriteBundleFails \/ Converge \/ CleanCrystals \/ CleanRaw
    \/ CleanShards \/ CleanGenFiles \/ CleanFramework \/ CleanEvidence
    \/ Return \/ CutOff
    \/ \E d \in Here.domains : \/ ChangeGraph(d) \/ ChangeManifest(d) \/ SwitchActive(d)
                          \/ \E json \in BOOLEAN : EvidenceWrite(d, json)
    \/ \E p \in Here.authored : Author(p)
    \/ \E p \in DOMAIN disk : TakeNotes(p) \/ RemoveTorn(p)

Spec == Init /\ [][Next]_vars

-----------------------------------------------------------------------------
(* Properties.                                                              *)

(* disk holds files at paths; a run in progress keeps a staged bundle of    *)
(* generated files (gen_spec.go, genSpecStaged).                            *)
TypeOK ==
    /\ project \in DOMAIN Projects
    /\ \A p \in DOMAIN disk :
        /\ p.lang \in Locales \cup {"", Foreign}
        /\ disk[p].by \in {"hand", "generated", "notes", "torn"}
        /\ disk[p].notes => p.doc \in CrystalDocs /\ TemplateShaped(p)
    /\ graph \in [Here.domains -> Here.graphs] /\ manifest \in [Here.domains -> Here.manifests]
    /\ active \in Here.domains
    /\ \A p \in DOMAIN run.staged : run.staged[p].by = "generated"
    /\ run.renders \in 0..MaxRenders
    /\ edits \in 0..Here.edits /\ faults \in 0..Here.faults

\* names an author may use: those the generator tells by their banner only
Protected(p) ==
    \/ p.lang # ""
    \/ p.doc \in SpecDocs \cup {"EVIDENCE", "page"}
    \/ p.at \in Here.domains /\ Localized(manifest[p.at]) /\ p.doc \in Views

(* No command overwrites or removes a file somebody wrote by hand at such a *)
(* name, whatever profile or languages the domain had before, and whether   *)
(* the run succeeds, gives up or is cut off (validateLocalizedRenderer-     *)
(* Target, validateSpecOutputTargets, cleanupStaleGenFiles).                *)
AuthoredSurvives ==
    [][\A p \in DOMAIN disk : disk[p].by = "hand" /\ Protected(p) =>
          p \in DOMAIN disk' /\ disk'[p].by = "hand"]_vars

(* The notes a maintainer keeps below the marker of a crystal are never     *)
(* lost: not when the crystal is rendered again, not when its language or   *)
(* the crystal itself is retired and comes back (preserveDurableNotesTail). *)
NotesSurvive ==
    [][\A p \in DOMAIN disk : p.doc = "CLAUDE" /\ disk[p].notes =>
          p \in DOMAIN disk' /\ (disk'[p].notes \/ disk'[p].by = "torn")]_vars

(* A run that rendered what the domain requires leaves a tree in which the  *)
(* freshness checks find nothing, detail pages of evidence aside, whatever  *)
(* layout, leftovers and torn runs it started from                          *)
(* (checkLanguageOutputsCurrentStaged).                                     *)
Complete ==
    /\ run.pc = "finished"
    /\ run.profile = manifest[run.d].profile
    /\ run.spec \/ ~SpecRequired(run.d, manifest[run.d])
PublishedIsFresh == Complete => \A p \in StaleOutputs(run.d) : p.doc = "page"

(* gen-spec run again on what it left writes the same tree: what it reads   *)
(* of its own outputs (crystals, spec files, reports) does not feed back    *)
(* (convergeCrystalReaders, evidenceReportBundleState).                     *)
RerunChangesNothing == run.pc = "finished" /\ run.again => disk = run.before

(* In a project with crystals a run in one domain makes nothing of another  *)
(* domain stale, the shared files it writes itself aside, which are in its   *)
(* own language, unless a crystal reader of that domain now finds something *)
(* else: neither the cleanup of framework/ nor that of crystals removes     *)
(* what a sibling owns (projectHasOtherFullProfile,                         *)
(* cleanupStaleLocalizedCrystals).                                          *)
WrittenHere(p) == p.at = "framework" /\ p \in DOMAIN run.staged
OthersStayFresh ==
    [][run.pc # "idle" /\ disk' # disk /\ ConventionExists =>
        \A d \in Here.domains \ {run.d} : FoundByReaders(d)' = FoundByReaders(d) =>
            \A p \in StaleOutputs(d)' \ StaleOutputs(d) : WrittenHere(p)]_vars

=============================================================================
