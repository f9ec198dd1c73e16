------------------------- MODULE Publication_proofs -------------------------
(***************************************************************************)
(* Proofs about Publication, for any projects, packages, languages and     *)
(* bounds: what gen-spec renders, writes and removes spares the files of   *)
(* an author and the notes under the marker line of a crystal (Inv); at    *)
(* every moment of a run the bundle is what rendering its input now would  *)
(* give, so a complete run leaves nothing stale (Course); what a run left  *)
(* is a fixed point of the same run (Again); and a step of a run stays     *)
(* within what its domain owns and nobody else does (Confined).            *)
(***************************************************************************)
EXTENDS Publication, TLAPS

-----------------------------------------------------------------------------
(* Files and bundles                                                        *)

IsFile(t) ==
    t = [by |-> t.by, of |-> t.of, lang |-> t.lang, graph |-> t.graph,
         verdict |-> t.verdict, lists |-> t.lists, notes |-> t.notes]

\* the classes in which a destination with a suffix is looked at before it is written
Looked(p, d) ==
    \/ p.doc \in SpecDocs \cup {"EVIDENCE", "page", "CLAUDE"}
    \/ Localized(manifest[d]) /\ p.doc \in Views \cup {"thinking"} \cup Framework

GoodEntry(p, t, d) ==
    /\ IsFile(t) /\ t.by = "generated"
    /\ p.lang \in Locales \cup {""}
    /\ p.lang # "" => Looked(p, d)
    /\ p.doc \in Views => p.at = d
    /\ t.notes => p.doc \in CrystalDocs
    /\ p.doc = "CLAUDE" /\ TemplateShaped(p) /\ disk[p].notes => t.notes

Good(f, d) == \A p \in DOMAIN f : GoodEntry(p, f[p], d)

LEMMA TextIs ==
    ASSUME NEW d, NEW lang, NEW g
    PROVE  /\ IsFile(Text(d, lang, g)) /\ Text(d, lang, g).by = "generated"
           /\ Text(d, lang, g).notes = FALSE
  BY DEF IsFile, Text

LEMMA TextUpdate ==
    ASSUME NEW t, IsFile(t), NEW x, NEW n
    PROVE  /\ [t EXCEPT !.lists = x] =
                 [by |-> t.by, of |-> t.of, lang |-> t.lang, graph |-> t.graph,
                  verdict |-> t.verdict, lists |-> x, notes |-> t.notes]
           /\ [t EXCEPT !.verdict = x] =
                 [by |-> t.by, of |-> t.of, lang |-> t.lang, graph |-> t.graph,
                  verdict |-> x, lists |-> t.lists, notes |-> t.notes]
           /\ [t EXCEPT !.notes = n] =
                 [by |-> t.by, of |-> t.of, lang |-> t.lang, graph |-> t.graph,
                  verdict |-> t.verdict, lists |-> t.lists, notes |-> n]
<1> DEFINE r == [by |-> t.by, of |-> t.of, lang |-> t.lang, graph |-> t.graph,
                 verdict |-> t.verdict, lists |-> t.lists, notes |-> t.notes]
           s == [by |-> t.by, of |-> t.of, lang |-> t.lang, graph |-> t.graph,
                 verdict |-> x, lists |-> t.lists, notes |-> t.notes]
<1>1. t = r
  BY DEF IsFile
<1>2. [r EXCEPT !.lists = x] =
        [by |-> t.by, of |-> t.of, lang |-> t.lang, graph |-> t.graph,
         verdict |-> t.verdict, lists |-> x, notes |-> t.notes]
  OBVIOUS
<1>3. [r EXCEPT !.verdict = x] = s
  OBVIOUS
<1>4. [r EXCEPT !.notes = n] =
        [by |-> t.by, of |-> t.of, lang |-> t.lang, graph |-> t.graph,
         verdict |-> t.verdict, lists |-> t.lists, notes |-> n]
  OBVIOUS
<1> HIDE DEF r, s
<1>7. [t EXCEPT !.lists = x] = [r EXCEPT !.lists = x]
  BY ONLY <1>1, Zenon
<1>8. [t EXCEPT !.verdict = x] = [r EXCEPT !.verdict = x]
  BY ONLY <1>1, Zenon
<1>9. [t EXCEPT !.notes = n] = [r EXCEPT !.notes = n]
  BY ONLY <1>1, Zenon
<1> QED
  <2>1. [t EXCEPT !.lists = x] =
          [by |-> t.by, of |-> t.of, lang |-> t.lang, graph |-> t.graph,
           verdict |-> t.verdict, lists |-> x, notes |-> t.notes]
    BY ONLY <1>2, <1>7, Zenon
  <2>2. [t EXCEPT !.verdict = x] = s
    BY ONLY <1>3, <1>8, Zenon
  <2>3. [t EXCEPT !.notes = n] =
          [by |-> t.by, of |-> t.of, lang |-> t.lang, graph |-> t.graph,
           verdict |-> t.verdict, lists |-> t.lists, notes |-> n]
    BY ONLY <1>4, <1>9, Zenon
  <2> QED BY ONLY <2>1, <2>2, <2>3, Zenon DEF s

LEMMA TextRenew ==
    ASSUME NEW t, IsFile(t), NEW x, NEW n
    PROVE  [t EXCEPT !.verdict = x, !.notes = n] =
              [by |-> t.by, of |-> t.of, lang |-> t.lang, graph |-> t.graph,
               verdict |-> x, lists |-> t.lists, notes |-> n]
<1> DEFINE r == [by |-> t.by, of |-> t.of, lang |-> t.lang, graph |-> t.graph,
                 verdict |-> t.verdict, lists |-> t.lists, notes |-> t.notes]
<1>1. t = r
  BY DEF IsFile
<1>2. [r EXCEPT !.verdict = x, !.notes = n] =
        [by |-> t.by, of |-> t.of, lang |-> t.lang, graph |-> t.graph,
         verdict |-> x, lists |-> t.lists, notes |-> n]
  <2> DEFINE s == [by |-> t.by, of |-> t.of, lang |-> t.lang, graph |-> t.graph,
                   verdict |-> x, lists |-> t.lists, notes |-> t.notes]
  <2>1. [r EXCEPT !.verdict = x] = s
    OBVIOUS
  <2>2. [s EXCEPT !.notes = n] =
          [by |-> t.by, of |-> t.of, lang |-> t.lang, graph |-> t.graph,
           verdict |-> x, lists |-> t.lists, notes |-> n]
    OBVIOUS
  <2>3. [r EXCEPT !.verdict = x, !.notes = n] = [[r EXCEPT !.verdict = x] EXCEPT !.notes = n]
    OBVIOUS
  <2> HIDE DEF r, s
  <2>4. [[r EXCEPT !.verdict = x] EXCEPT !.notes = n] = [s EXCEPT !.notes = n]
    BY ONLY <2>1, Zenon
  <2>5. [r EXCEPT !.verdict = x, !.notes = n] = [s EXCEPT !.notes = n]
    BY ONLY <2>3, <2>4, Zenon
  <2> QED BY ONLY <2>2, <2>5, Zenon
<1> HIDE DEF r
<1>3. [t EXCEPT !.verdict = x, !.notes = n] = [r EXCEPT !.verdict = x, !.notes = n]
  BY ONLY <1>1, Zenon
<1> QED BY ONLY <1>2, <1>3, Zenon

LEMMA GoodOver ==
    ASSUME NEW f, NEW g, NEW d, Good(f, d), Good(g, d)
    PROVE  Good(Over(f, g), d)
  BY DEF Good, Over

LEMMA GoodEmpty == \A d : Good(<<>>, d)
  BY DEF Good

LEMMA GoodMerge ==
    ASSUME NEW fs, NEW d, \A f \in fs : Good(f, d)
    PROVE  Good(Merge(fs), d)
<1> SUFFICES ASSUME NEW p \in UNION {DOMAIN f : f \in fs}
             PROVE  GoodEntry(p, Merge(fs)[p], d)
  BY DEF Good, Merge
<1> DEFINE h == CHOOSE f \in fs : p \in DOMAIN f
<1>1. h \in fs /\ p \in DOMAIN h
  OBVIOUS
<1>2. Merge(fs)[p] = h[p]
  BY DEF Merge
<1> HIDE DEF h
<1> QED BY <1>1, <1>2 DEF Good

-----------------------------------------------------------------------------
(* What a run renders                                                       *)

LEMMA LanguageIs ==
    ASSUME NEW m, m.langs \in Seq(Locales), NEW l \in LanguagesForViews(m)
    PROVE  /\ l \in Locales \cup {""}
           /\ Multilingual(m) => Localized(m)
           /\ Localized(m) => Default(m) \in Locales
<1> DEFINE langs == m.langs
<1>1. langs \in Seq(Locales) /\ (langs # <<>> => Len(langs) > 0 /\ langs[1] \in Locales)
  OBVIOUS
<1>2. \A i \in DOMAIN langs : langs[i] \in Locales
  BY <1>1
<1>3. Len(langs) > 1 => langs # <<>>
  OBVIOUS
<1>4. l = "" \/ \E i \in DOMAIN langs : l = langs[i]
  BY DEF LanguagesForViews, Range
<1>5. l \in Locales \cup {""}
  BY <1>2, <1>4
<1> QED BY <1>1, <1>3, <1>5 DEF Multilingual, Localized, Default

LEMMA DocumentIs ==
    ASSUME NEW m, m.langs \in Seq(Locales), NEW l \in LanguagesForViews(m), NEW at, NEW doc
    PROVE  \E lang \in Locales \cup {""} :
              /\ DocumentPath(m, at, doc, l) = Path(at, doc, lang)
              /\ lang # "" => Localized(m)
  BY LanguageIs DEF DocumentPath

\* A change to what was read or listed leaves the rest of a file.
LEMMA Reread ==
    ASSUME NEW t, IsFile(t), NEW x
    PROVE  /\ IsFile([t EXCEPT !.verdict = x]) /\ IsFile([t EXCEPT !.lists = x])
           /\ [t EXCEPT !.verdict = x].by = t.by /\ [t EXCEPT !.lists = x].by = t.by
           /\ [t EXCEPT !.verdict = x].notes = t.notes
           /\ [t EXCEPT !.lists = x].notes = t.notes
<1> DEFINE u == [t EXCEPT !.verdict = x]
           v == [t EXCEPT !.lists = x]
<1>1. u = [by |-> t.by, of |-> t.of, lang |-> t.lang, graph |-> t.graph,
           verdict |-> x, lists |-> t.lists, notes |-> t.notes]
  BY TextUpdate
<1>2. v = [by |-> t.by, of |-> t.of, lang |-> t.lang, graph |-> t.graph,
           verdict |-> t.verdict, lists |-> x, notes |-> t.notes]
  BY TextUpdate
<1> HIDE DEF u, v
<1>3. IsFile(u) /\ IsFile(v) /\ u.by = t.by /\ v.by = t.by /\ u.notes = t.notes /\ v.notes = t.notes
  BY <1>1, <1>2 DEF IsFile
<1> QED BY <1>3 DEF u, v

LEMMA LanguageDocsGood ==
    ASSUME NEW d, manifest[d].langs \in Seq(Locales), NEW g, NEW profile, NEW verdict, NEW specs,
           NEW l \in LanguagesForViews(manifest[d])
    PROVE  Good(LanguageDocs(d, manifest[d], g, l, profile, verdict, specs), d)
<1> DEFINE m == manifest[d]
           names == ViewDocs(g, profile)
                      \cup IF profile = Full THEN {"thinking"} \cup Framework ELSE {}
           at(x) == IF x \in Framework THEN "framework" ELSE d
           f == LanguageDocs(d, m, g, l, profile, verdict, specs)
           P == {DocumentPath(m, at(x), x, l) : x \in names}
           lists == RepoMapLists(d, m, g, l, profile, specs)
           a == Text(d, l, g)
           b == Text(None, l, None)
           u == [a EXCEPT !.lists = lists]
           v == [a EXCEPT !.verdict = verdict]
           t(p) == CASE p.doc = "REPO-MAP" -> u
                     [] p.doc = "live-state" -> v
                     [] p.doc \in Framework \cup {"thinking"} -> b
                     [] OTHER -> a
<1>1. f = [p \in P |-> t(p)]
  BY DEF LanguageDocs
<1>2. /\ IsFile(a) /\ a.by = "generated" /\ a.notes = FALSE
      /\ IsFile(b) /\ b.by = "generated" /\ b.notes = FALSE
  BY TextIs
<1> HIDE DEF lists, a, b
<1>3. /\ IsFile(u) /\ u.by = "generated" /\ u.notes = FALSE
      /\ IsFile(v) /\ v.by = "generated" /\ v.notes = FALSE
  BY <1>2, Reread
<1> HIDE DEF u, v
<1> SUFFICES ASSUME NEW p \in P
             PROVE  GoodEntry(p, t(p), d)
  <2> HIDE DEF P, t
  <2> QED BY <1>1 DEF Good
<1>4. IsFile(t(p)) /\ t(p).by = "generated" /\ t(p).notes = FALSE
  BY <1>2, <1>3
<1>5. PICK x \in names : p = DocumentPath(m, at(x), x, l)
  OBVIOUS
<1>6. x \in Views \cup {"thinking"} \cup Framework
  BY DEF ViewDocs
<1>7. m.langs \in Seq(Locales) /\ l \in LanguagesForViews(m)
  OBVIOUS
<1> DEFINE dir == at(x)
<1> HIDE DEF t, m, dir, names
<1>8. PICK lang \in Locales \cup {""} : p = Path(dir, x, lang) /\ (lang # "" => Localized(m))
  <2>1. \E lang \in Locales \cup {""} :
           DocumentPath(m, dir, x, l) = Path(dir, x, lang) /\ (lang # "" => Localized(m))
    BY <1>7, DocumentIs
  <2> QED BY <1>5, <2>1 DEF dir
<1>9. p.at = dir /\ p.doc = x /\ p.lang = lang
  BY <1>8 DEF Path
<1> HIDE DEF P, at
<1> QED BY <1>4, <1>6, <1>8, <1>9 DEF GoodEntry, Looked, Views, Framework, m, dir, at

LEMMA SpecDocumentsGood ==
    ASSUME NEW d, manifest[d].langs \in Seq(Locales), NEW g, g.packages \subseteq Packages
    PROVE  Good(BuildSpecDocuments(d, manifest[d], g), d)
<1> DEFINE m == manifest[d]
           f == BuildSpecDocuments(d, m, g)
<1> SUFFICES ASSUME NEW p \in DOMAIN f
             PROVE  GoodEntry(p, f[p], d)
  BY DEF Good
<1>1. PICK l \in LanguagesForViews(m) : p \in SpecFiles(d, m, g, l)
  BY DEF BuildSpecDocuments
<1>2. PICK x \in {"SPEC"} \cup Packages : p = DocumentPath(m, d, x, l)
  BY <1>1 DEF SpecFiles
<1>3. m.langs \in Seq(Locales)
  OBVIOUS
<1>4. \E k : f[p] = Text(d, k, g)
  BY DEF BuildSpecDocuments
<1>5. IsFile(f[p]) /\ f[p].by = "generated" /\ f[p].notes = FALSE
  BY <1>4, TextIs
<1> HIDE DEF f, m
<1>6. PICK lang \in Locales \cup {""} : p = Path(d, x, lang)
  BY <1>2, <1>3, DocumentIs
<1>7. p.doc = x /\ p.lang = lang
  BY <1>6 DEF Path
<1>8. x \in SpecDocs /\ x \notin Views \cup CrystalDocs
  BY PublicationAssumption DEF SpecDocs, Views, CrystalDocs
<1> QED BY <1>5, <1>7, <1>8 DEF GoodEntry, Looked, CrystalDocs

ReportViews == {"EVIDENCE", "page"}

LEMMA ReportIs ==
    ASSUME NEW d, manifest[d].langs \in Seq(Locales), NEW g,
           NEW p, p \in DOMAIN BuildReports(d, manifest[d], g)
    PROVE  /\ \E x \in ReportViews, lang \in Locales \cup {""} : p = Path(d, x, lang)
           /\ \E k : BuildReports(d, manifest[d], g)[p] = Text(d, k, g)
<1> DEFINE m == manifest[d]
           D(l) == {DocumentPath(m, d, x, l) : x \in {"EVIDENCE", "page"}}
           F(l) == [q \in D(l) |-> Text(d, l, g)]
           fs == {F(l) : l \in LanguagesForViews(m)}
<1>1. BuildReports(d, m, g) = Merge(fs)
  BY DEF BuildReports
<1>2. p \in UNION {DOMAIN f : f \in fs}
  <2> HIDE DEF fs
  <2> QED BY <1>1 DEF Merge
<1>3. PICK l \in LanguagesForViews(m) : p \in D(l)
  BY <1>2
<1>4. PICK x \in ReportViews : p = DocumentPath(m, d, x, l)
  BY <1>3 DEF ReportViews
<1>5. m.langs \in Seq(Locales) /\ l \in LanguagesForViews(m)
  OBVIOUS
<1>6. \E k : Merge(fs)[p] = Text(d, k, g)
  <2> DEFINE h == CHOOSE f \in fs : p \in DOMAIN f
  <2>1. Merge(fs)[p] = h[p]
    <3> HIDE DEF fs
    <3> QED BY <1>2 DEF Merge
  <2>2. h \in fs /\ p \in DOMAIN h
    <3> HIDE DEF fs
    <3> QED BY <1>2
  <2> HIDE DEF h
  <2>3. PICK k \in LanguagesForViews(m) : h = F(k)
    BY <2>2
  <2> QED BY <2>1, <2>2, <2>3
<1> HIDE DEF m, D, F, fs
<1>7. PICK lang \in Locales \cup {""} : p = Path(d, x, lang)
  <2>1. \E lang \in Locales \cup {""} : DocumentPath(m, d, x, l) = Path(d, x, lang)
    BY <1>5, DocumentIs
  <2> QED BY <1>4, <2>1
<1> QED BY <1>1, <1>4, <1>6, <1>7 DEF m

LEMMA ReportsGood ==
    ASSUME NEW d, manifest[d].langs \in Seq(Locales), NEW g
    PROVE  Good(BuildReports(d, manifest[d], g), d)
<1> DEFINE f == BuildReports(d, manifest[d], g)
<1> SUFFICES ASSUME NEW p, p \in DOMAIN f
             PROVE  GoodEntry(p, f[p], d)
  BY DEF Good
<1>1. p.doc \in {"EVIDENCE", "page"} /\ p.lang \in Locales \cup {""}
  <2>1. PICK x \in ReportViews, lang \in Locales \cup {""} : p = Path(d, x, lang)
    BY ReportIs
  <2>2. p.doc = x /\ p.lang = lang
    BY <2>1 DEF Path
  <2> QED BY <2>1, <2>2 DEF ReportViews
<1>2. \E k : f[p] = Text(d, k, g)
  BY ReportIs
<1>3. IsFile(f[p]) /\ f[p].by = "generated" /\ f[p].notes = FALSE
  BY <1>2, TextIs
<1> HIDE DEF f
<1> QED BY <1>1, <1>3 DEF GoodEntry, Looked, Views, CrystalDocs

LEMMA GraphFileGood ==
    ASSUME NEW d, NEW g
    PROVE  Good(At(Path(d, "graph.json", ""), Text(d, "", g)), d)
<1> DEFINE t == Text(d, "", g)
<1>1. IsFile(t) /\ t.by = "generated" /\ t.notes = FALSE
  BY TextIs
<1> HIDE DEF t
<1>2. GoodEntry(Path(d, "graph.json", ""), t, d)
  BY <1>1 DEF GoodEntry, Path, Views, CrystalDocs
<1>3. Good(At(Path(d, "graph.json", ""), t), d)
  BY <1>2 DEF Good, At
<1> QED BY <1>3 DEF t

LEMMA CrystalsGood ==
    ASSUME NEW d, manifest[d].langs \in Seq(Locales), NEW g, NEW verdict
    PROVE  Good(Crystals(d, manifest[d], g, verdict), d)
<1> DEFINE m == manifest[d]
           dir == CrystalDir(d)
           a(p) == Text(d, IF p.lang = "" THEN Default(m) ELSE p.lang, g)
           n(p) == TemplateShaped(p) /\ disk[p].notes
           of(p) == [a(p) EXCEPT !.verdict = verdict, !.notes = n(p)]
           C == {CrystalPath(m, dir, l) : l \in LanguagesForViews(m)}
           agents == Path(dir, "AGENTS", "")
           boot == Path(dir, "CLAUDE", "")
<1>1. ASSUME NEW p
      PROVE  IsFile(of(p)) /\ of(p).by = "generated" /\ of(p).notes = n(p)
  <2> DEFINE b == a(p)
             k == n(p)
             u == [b EXCEPT !.verdict = verdict, !.notes = k]
  <2>1. IsFile(b) /\ b.by = "generated"
    BY TextIs
  <2> HIDE DEF b, k
  <2>2. u = [by |-> b.by, of |-> b.of, lang |-> b.lang, graph |-> b.graph,
             verdict |-> verdict, lists |-> b.lists, notes |-> k]
    BY <2>1, TextRenew
  <2> HIDE DEF u
  <2>3. IsFile(u) /\ u.by = "generated" /\ u.notes = k
    BY <2>1, <2>2 DEF IsFile
  <2> QED BY <2>3 DEF u, b, k
<1>2. Crystals(d, m, g, verdict) = Over(At(agents, of(boot)), [p \in C |-> of(p)])
  BY DEF Crystals
<1>3. ASSUME NEW p \in C
      PROVE  p.doc = "CLAUDE" /\ p.lang \in Locales \cup {""}
  <2>1. PICK l \in LanguagesForViews(m) : p = CrystalPath(m, dir, l)
    OBVIOUS
  <2>2. m.langs \in Seq(Locales) /\ l \in LanguagesForViews(m)
    OBVIOUS
  <2> HIDE DEF m, dir
  <2>3. l \in Locales \cup {""}
    BY <2>2, LanguageIs
  <2> QED BY <2>1, <2>3 DEF CrystalPath, Path
<1>4. agents.doc = "AGENTS" /\ agents.lang = ""
  BY DEF Path
<1> HIDE DEF of, C, agents
<1>5. \A p \in C : GoodEntry(p, of(p), d)
  BY <1>1, <1>3 DEF GoodEntry, Looked, CrystalDocs, Views
<1>6. GoodEntry(agents, of(boot), d)
  BY <1>1, <1>4 DEF GoodEntry, CrystalDocs, Views
<1>7. Good(At(agents, of(boot)), d) /\ Good([p \in C |-> of(p)], d)
  BY <1>5, <1>6 DEF Good, At
<1> QED BY <1>2, <1>7, GoodOver

LEMMA StagedGood ==
    ASSUME NEW d, manifest[d].langs \in Seq(Locales), graph[d].packages \subseteq Packages,
           NEW spec, NEW profile, NEW crystal, NEW verdict
    PROVE  Good(Staged(d, spec, profile, crystal, verdict), d)
<1> DEFINE m == manifest[d]
           g == graph[d]
           specs == IF spec THEN BuildSpecDocuments(d, m, g) ELSE <<>>
           listed == IF spec THEN DOMAIN specs ELSE ExistingSpec(d, m)
           A == {LanguageDocs(d, m, g, l, profile, verdict, listed) : l \in LanguagesForViews(m)}
           B == IF ReportPresent(d) THEN {BuildReports(d, m, g)} ELSE {}
           C == IF profile = Full THEN {At(Path(d, "graph.json", ""), Text(d, "", g))} ELSE {}
           D == IF crystal THEN {Crystals(d, m, g, verdict)} ELSE {}
<1>1. Staged(d, spec, profile, crystal, verdict) = Merge(A \cup {specs} \cup B \cup C \cup D)
  BY DEF Staged
<1>2. \A f \in A : Good(f, d)
  BY LanguageDocsGood
<1>3. Good(specs, d)
  BY SpecDocumentsGood, GoodEmpty
<1>4. (\A f \in B : Good(f, d)) /\ (\A f \in C : Good(f, d)) /\ (\A f \in D : Good(f, d))
  BY ReportsGood, GraphFileGood, CrystalsGood
<1> HIDE DEF A, B, C, D, specs
<1> QED BY <1>1, <1>2, <1>3, <1>4, GoodMerge

-----------------------------------------------------------------------------
(* The invariant                                                            *)

GoodFile(p, t) ==
    /\ IsFile(t)
    /\ p.lang \in Locales \cup {"", Foreign}
    /\ t.by \in {"hand", "generated", "notes", "torn"}
    /\ t.notes => p.doc \in CrystalDocs /\ t.by \in {"generated", "notes"}

IsRun(r) ==
    r = [pc |-> r.pc, d |-> r.d, spec |-> r.spec, profile |-> r.profile, crystal |-> r.crystal,
         staged |-> r.staged, verdict |-> r.verdict, renders |-> r.renders, again |-> r.again,
         before |-> r.before]

Tree == \A p \in DOMAIN disk : GoodFile(p, disk[p])

\* Between the check of the destinations and the end of the rendering a bundle
\* fits the tree: it overwrites no author's file and brings every note along.
Bundle ==
    /\ IsRun(run)
    /\ \A p \in DOMAIN run.staged : run.staged[p].by = "generated"
    /\ run.pc # "idle" => run.d \in Here.domains
    /\ run.pc = "publish" => Good(run.staged, run.d) /\ ~Refused(run.d, DOMAIN run.staged)
    /\ run.pc = "converge" =>
          /\ Good(run.staged, run.d)
          /\ \A p \in DOMAIN run.staged : p \in DOMAIN disk /\ disk[p] = run.staged[p]

Inputs ==
    /\ project \in DOMAIN Projects
    /\ graph \in [Here.domains -> Here.graphs] /\ manifest \in [Here.domains -> Here.manifests]
    /\ active \in Here.domains

Counts ==
    run.renders \in 0..MaxRenders /\ edits \in 0..Here.edits /\ faults \in 0..Here.faults

Inv == Tree /\ Bundle /\ Inputs /\ Counts

\* what the two action properties ask of one step
Spared ==
    \A p \in DOMAIN disk : disk[p].by = "hand" /\ Protected(p) =>
        p \in DOMAIN disk' /\ disk'[p].by = "hand"
NotesKept ==
    \A p \in DOMAIN disk : p.doc = "CLAUDE" /\ disk[p].notes =>
        p \in DOMAIN disk' /\ (disk'[p].notes \/ disk'[p].by = "torn")

LEMMA InvIsType == Inv => TypeOK
  BY DEF Inv, TypeOK, Tree, GoodFile, Bundle, Inputs, Counts, TemplateShaped

LEMMA InvInit == Init => Inv
<1> SUFFICES ASSUME Init PROVE Inv
  OBVIOUS
<1>1. Tree
  BY DEF Init, Tree
<1>2. Bundle
  BY DEF Init, Bundle, IsRun, Idle
<1>3. Inputs
  BY DEF Init, Inputs, Here
<1>4. Counts
  <2>1. project \in DOMAIN Projects
    BY DEF Init
  <2>2. Here.edits \in Nat /\ Here.faults \in Nat
    BY <2>1, PublicationAssumption DEF Here
  <2>3. run.renders = 0 /\ edits = 0 /\ faults = 0
    BY DEF Init, Idle
  <2>4. MaxRenders \in Nat
    BY PublicationAssumption
  <2>5. 0 \in 0..MaxRenders /\ 0 \in 0..Here.edits /\ 0 \in 0..Here.faults
    BY <2>2, <2>4
  <2> QED BY <2>3, <2>5 DEF Counts
<1> QED BY <1>1, <1>2, <1>3, <1>4 DEF Inv

LEMMA OfDomain ==
    ASSUME Inv, NEW d \in Here.domains
    PROVE  /\ manifest[d].langs \in Seq(Locales) /\ graph[d].packages \subseteq Packages
           /\ d # "framework" /\ d # "root"
  BY PublicationAssumption DEF Inv, Inputs, Here

\* A step that leaves the tree alone.
LEMMA Untouched ==
    ASSUME Tree, UNCHANGED disk
    PROVE  Tree' /\ Spared /\ NotesKept
  BY DEF Tree, Spared, NotesKept

LEMMA SameInputs ==
    ASSUME Inputs, UNCHANGED <<project, graph, manifest, active>>
    PROVE  Inputs' /\ Here' = Here
  BY DEF Inputs, Here

LEMMA IdleIs == IsRun(Idle) /\ Idle.pc = "idle" /\ Idle.staged = <<>> /\ Idle.renders = 0
  BY DEF IsRun, Idle

LEMMA IdleBundle ==
    ASSUME run' = Idle
    PROVE  Bundle' /\ run'.renders \in 0..MaxRenders
<1>1. IsRun(run') /\ run'.pc = "idle" /\ run'.staged = <<>> /\ run'.renders = 0
  BY IdleIs
<1>2. Bundle'
  BY <1>1 DEF Bundle
<1>3. MaxRenders \in Nat
  BY PublicationAssumption
<1> QED BY <1>1, <1>2, <1>3

LEMMA OverIs ==
    ASSUME NEW f, NEW g
    PROVE  /\ DOMAIN Over(f, g) = DOMAIN f \cup DOMAIN g
           /\ \A p \in DOMAIN f : Over(f, g)[p] = f[p]
           /\ \A p \in DOMAIN g \ DOMAIN f : Over(f, g)[p] = g[p]
  BY DEF Over

LEMMA DropIs ==
    ASSUME NEW f, NEW S
    PROVE  DOMAIN Drop(f, S) = DOMAIN f \ S /\ \A p \in DOMAIN f \ S : Drop(f, S)[p] = f[p]
  BY DEF Drop

LEMMA AtIs ==
    ASSUME NEW p, NEW t
    PROVE  DOMAIN At(p, t) = {p} /\ At(p, t)[p] = t
  BY DEF At

LEMMA Rewritten ==
    ASSUME NEW t, IsFile(t), NEW x
    PROVE  [t EXCEPT !.by = x] =
              [by |-> x, of |-> t.of, lang |-> t.lang, graph |-> t.graph,
               verdict |-> t.verdict, lists |-> t.lists, notes |-> t.notes]
<1> DEFINE r == [by |-> t.by, of |-> t.of, lang |-> t.lang, graph |-> t.graph,
                 verdict |-> t.verdict, lists |-> t.lists, notes |-> t.notes]
<1>1. t = r
  BY DEF IsFile
<1>2. [r EXCEPT !.by = x] = [by |-> x, of |-> t.of, lang |-> t.lang, graph |-> t.graph,
                             verdict |-> t.verdict, lists |-> t.lists, notes |-> t.notes]
  OBVIOUS
<1> HIDE DEF r
<1>3. [t EXCEPT !.by = x] = [r EXCEPT !.by = x]
  BY ONLY <1>1, Zenon
<1> QED BY ONLY <1>2, <1>3, Zenon

LEMMA HandIs == IsFile(Hand) /\ Hand.by = "hand" /\ Hand.notes = FALSE
<1> DEFINE t == Text(None, "", None)
           h == [t EXCEPT !.by = "hand"]
<1>1. IsFile(t) /\ t.notes = FALSE
  BY TextIs
<1> HIDE DEF t
<1>2. h = [by |-> "hand", of |-> t.of, lang |-> t.lang, graph |-> t.graph,
           verdict |-> t.verdict, lists |-> t.lists, notes |-> t.notes]
  BY <1>1, Rewritten
<1> HIDE DEF h
<1>3. IsFile(h) /\ h.by = "hand" /\ h.notes = FALSE
  BY <1>1, <1>2 DEF IsFile
<1> QED BY <1>3 DEF Hand, h, t

LEMMA TornIs == IsFile(Torn) /\ Torn.by = "torn" /\ Torn.notes = FALSE
<1> DEFINE t == [Hand EXCEPT !.by = "torn"]
<1>1. t = [by |-> "torn", of |-> Hand.of, lang |-> Hand.lang, graph |-> Hand.graph,
           verdict |-> Hand.verdict, lists |-> Hand.lists, notes |-> Hand.notes]
  BY HandIs, Rewritten
<1> HIDE DEF t
<1>2. IsFile(t) /\ t.by = "torn" /\ t.notes = FALSE
  BY <1>1, HandIs DEF IsFile
<1> QED BY <1>2 DEF Torn, t

LEMMA NotesOnlyIs == IsFile(NotesOnly) /\ NotesOnly.by = "notes" /\ NotesOnly.notes = TRUE
<1> DEFINE u == [Hand EXCEPT !.by = "notes"]
           t == [u EXCEPT !.notes = TRUE]
<1>1. u = [by |-> "notes", of |-> Hand.of, lang |-> Hand.lang, graph |-> Hand.graph,
           verdict |-> Hand.verdict, lists |-> Hand.lists, notes |-> Hand.notes]
  BY HandIs, Rewritten
<1>2. NotesOnly = t
  BY Zenon DEF NotesOnly
<1> HIDE DEF u
<1>3. IsFile(u) /\ u.by = "notes"
  BY <1>1 DEF IsFile
<1>4. t = [by |-> u.by, of |-> u.of, lang |-> u.lang, graph |-> u.graph,
           verdict |-> u.verdict, lists |-> u.lists, notes |-> TRUE]
  BY <1>3, TextUpdate
<1> HIDE DEF t
<1>5. IsFile(t) /\ t.by = "notes" /\ t.notes = TRUE
  BY <1>3, <1>4 DEF IsFile
<1> QED BY <1>2, <1>5

\* A bundle that was not refused overwrites no author's file.
LEMMA NotRefused ==
    ASSUME NEW f, NEW d, d # "framework", Good(f, d), ~Refused(d, DOMAIN f),
           NEW p \in DOMAIN f, p \in DOMAIN disk, disk[p].by = "hand", Protected(p)
    PROVE  FALSE
<1>1. GoodEntry(p, f[p], d)
  BY DEF Good
<1>2. ~IsGenerated(p) /\ ~TemplateShaped(p)
  BY DEF IsGenerated, TemplateShaped
<1>3. /\ p.doc \notin SpecDocs \cup {"EVIDENCE", "page"}
      /\ p.doc = "CLAUDE" => p.lang = ""
      /\ Localized(manifest[d]) => p.doc \notin Views \cup {"thinking"} \cup Framework
  BY <1>2 DEF Refused
<1>4. p.lang = ""
  BY <1>1, <1>3 DEF GoodEntry, Looked
<1>5. p.at \in Here.domains /\ Localized(manifest[p.at]) /\ p.doc \in Views
  BY <1>3, <1>4 DEF Protected
<1> QED BY <1>1, <1>3, <1>5 DEF GoodEntry

LEMMA RunMoves ==
    ASSUME NEW r, IsRun(r), NEW x
    PROVE  [r EXCEPT !.pc = x] =
              [pc |-> x, d |-> r.d, spec |-> r.spec, profile |-> r.profile,
               crystal |-> r.crystal, staged |-> r.staged, verdict |-> r.verdict,
               renders |-> r.renders, again |-> r.again, before |-> r.before]
<1> DEFINE q == [pc |-> r.pc, d |-> r.d, spec |-> r.spec, profile |-> r.profile,
                 crystal |-> r.crystal, staged |-> r.staged, verdict |-> r.verdict,
                 renders |-> r.renders, again |-> r.again, before |-> r.before]
<1>1. r = q
  BY DEF IsRun
<1>2. [q EXCEPT !.pc = x] =
        [pc |-> x, d |-> r.d, spec |-> r.spec, profile |-> r.profile,
         crystal |-> r.crystal, staged |-> r.staged, verdict |-> r.verdict,
         renders |-> r.renders, again |-> r.again, before |-> r.before]
  OBVIOUS
<1> HIDE DEF q
<1>3. [r EXCEPT !.pc = x] = [q EXCEPT !.pc = x]
  BY ONLY <1>1, Zenon
<1> QED BY ONLY <1>2, <1>3, Zenon

LEMMA MovedRun ==
    ASSUME IsRun(run), NEW x, run' = [run EXCEPT !.pc = x]
    PROVE  /\ IsRun(run') /\ run'.pc = x /\ run'.d = run.d /\ run'.staged = run.staged
           /\ run'.renders = run.renders
<1> DEFINE r == [pc |-> x, d |-> run.d, spec |-> run.spec, profile |-> run.profile,
                 crystal |-> run.crystal, staged |-> run.staged, verdict |-> run.verdict,
                 renders |-> run.renders, again |-> run.again, before |-> run.before]
<1>1. run' = r
  BY RunMoves
<1>2. IsRun(r) /\ r.pc = x /\ r.d = run.d /\ r.staged = run.staged /\ r.renders = run.renders
  BY DEF IsRun
<1> HIDE DEF r
<1> QED BY <1>1, <1>2

-----------------------------------------------------------------------------
(* The steps of a run                                                       *)

Safe == Inv' /\ Spared /\ NotesKept

LEMMA GenSpecSafe ==
    ASSUME Inv, NEW d \in Here.domains, NEW spec, NEW override, NEW explicit,
           GenSpec(d, spec, override, explicit)
    PROVE  Safe
<1> DEFINE m == manifest[d]
           includes == spec \/ Multilingual(m)
           profile == IF override = "" THEN m.profile ELSE override
           crystal == explicit \/ ConventionExists
           verdict == FoundByReaders(d)
           staged == Staged(d, includes, profile, crystal, verdict)
           input == <<d, includes, profile, crystal>>
           again == settled = input
           next == [pc |-> "publish", d |-> d, spec |-> includes, profile |-> profile,
                    crystal |-> crystal, staged |-> staged, verdict |-> verdict,
                    renders |-> 0, again |-> again, before |-> IF again THEN disk ELSE <<>>]
<1>1. /\ UNCHANGED <<disk, project, graph, manifest, active, edits, faults>>
      /\ UNCHANGED run \/ (~Refused(d, DOMAIN staged) /\ run' = next)
  BY DEF GenSpec, Unchanged
<1>2. Tree' /\ Spared /\ NotesKept
  BY <1>1, Untouched DEF Inv
<1>3. Inputs' /\ Here' = Here
  BY <1>1, SameInputs DEF Inv
<1>4. CASE UNCHANGED run
  <2>1. Bundle' /\ Counts'
    BY <1>1, <1>3, <1>4 DEF Inv, Bundle, Counts, Good, GoodEntry, Looked, Refused, TemplateShaped,
                             IsGenerated
  <2> QED BY <1>2, <1>3, <2>1 DEF Safe, Inv
<1>5. CASE ~Refused(d, DOMAIN staged) /\ run' = next
  <2>1. Good(staged, d)
    BY OfDomain, StagedGood
  <2>2. IsRun(next) /\ next.pc = "publish" /\ next.d = d /\ next.staged = staged /\ next.renders = 0
    <3> HIDE DEF staged, again, includes, profile, crystal, verdict
    <3> QED BY DEF IsRun
  <2> HIDE DEF staged, next
  <2>3. IsRun(run') /\ run'.pc = "publish" /\ run'.d = d /\ run'.staged = staged /\ run'.renders = 0
    BY <1>5, <2>2
  <2>4. Bundle'
    <3>1. run'.staged = staged /\ run'.d = d /\ Good(staged, d) /\ ~Refused(d, DOMAIN staged)
      BY <1>5, <2>1, <2>3
    <3>2. Good(run.staged, run.d)'
      BY <1>1, <3>1 DEF Good, GoodEntry, Looked, TemplateShaped
    <3>3. ~Refused(run.d, DOMAIN run.staged)'
      BY <1>1, <3>1 DEF Refused, TemplateShaped, IsGenerated
    <3>4. \A p \in DOMAIN run'.staged : run'.staged[p].by = "generated"
      BY <3>1 DEF Good, GoodEntry
    <3>5. run'.d \in Here'.domains
      BY <1>3, <2>3
    <3> QED BY <2>3, <3>2, <3>3, <3>4, <3>5 DEF Bundle
  <2>5. Counts'
    <3>1. MaxRenders \in Nat
      BY PublicationAssumption
    <3> QED BY <1>1, <1>3, <2>3, <3>1 DEF Counts, Inv
  <2> QED BY <1>2, <1>3, <2>4, <2>5 DEF Safe, Inv
<1> QED BY <1>1, <1>4, <1>5

LEMMA WriteBundleSafe == ASSUME Inv, WriteBundle PROVE Safe
<1> DEFINE f == run.staged
<1>1. /\ IsRun(run) /\ Good(f, run.d) /\ ~Refused(run.d, DOMAIN f) /\ run.d \in Here.domains
      /\ \A p \in DOMAIN f : f[p].by = "generated"
  BY DEF Inv, Bundle, WriteBundle
<1>2. /\ UNCHANGED <<project, graph, manifest, active, edits, faults>>
      /\ disk' = Over(f, disk) /\ run' = [run EXCEPT !.pc = "converge"]
  BY DEF WriteBundle, Unchanged
<1>3. Inputs' /\ Here' = Here
  BY <1>2, SameInputs DEF Inv
<1>4. /\ IsRun(run') /\ run'.pc = "converge" /\ run'.d = run.d /\ run'.staged = f
      /\ run'.renders = run.renders
  BY <1>1, <1>2, MovedRun
<1> HIDE DEF f
<1>5. /\ DOMAIN disk' = DOMAIN f \cup DOMAIN disk
      /\ \A p \in DOMAIN f : disk'[p] = f[p]
      /\ \A p \in DOMAIN disk \ DOMAIN f : disk'[p] = disk[p]
  BY <1>2 DEF Over
<1>6. \A p \in DOMAIN f : GoodEntry(p, f[p], run.d)
  BY <1>1 DEF Good
<1>7. Tree'
  <2> SUFFICES ASSUME NEW p \in DOMAIN disk' PROVE GoodFile(p, disk'[p])
    BY DEF Tree
  <2>1. CASE p \in DOMAIN f
    BY <1>5, <1>6, <2>1 DEF GoodEntry, GoodFile
  <2>2. CASE p \notin DOMAIN f
    BY <1>5, <2>2 DEF Inv, Tree
  <2> QED BY <2>1, <2>2
<1>8. Spared
  <2>1. run.d # "framework"
    BY <1>1, OfDomain
  <2> QED BY <1>1, <1>5, <2>1, NotRefused DEF Spared
<1>9. NotesKept
  <2> SUFFICES ASSUME NEW p \in DOMAIN disk, p.doc = "CLAUDE", disk[p].notes
               PROVE  p \in DOMAIN disk' /\ (disk'[p].notes \/ disk'[p].by = "torn")
    BY DEF NotesKept
  <2>1. TemplateShaped(p)
    BY DEF Inv, Tree, GoodFile, TemplateShaped
  <2> QED BY <1>5, <1>6, <2>1 DEF GoodEntry
<1>10. Good(run.staged, run.d)'
  <2>1. \A p \in DOMAIN f : TemplateShaped(p)' /\ disk'[p].notes => f[p].notes
    BY <1>5
  <2> QED BY <1>2, <1>4, <1>6, <2>1 DEF Good, GoodEntry, Looked
<1>11. Bundle'
  BY <1>1, <1>3, <1>4, <1>5, <1>10 DEF Bundle
<1>12. Counts'
  BY <1>2, <1>3, <1>4 DEF Inv, Counts
<1> QED BY <1>3, <1>7, <1>8, <1>9, <1>11, <1>12 DEF Safe, Inv

LEMMA WriteBundleFailsSafe == ASSUME Inv, WriteBundleFails PROVE Safe
<1> DEFINE f == run.staged
<1>1. Good(f, run.d) /\ ~Refused(run.d, DOMAIN f) /\ run.d \in Here.domains
  BY DEF Inv, Bundle, WriteBundleFails
<1>2. PICK lost \in DOMAIN f, torn \in BOOLEAN :
        disk' = LET left == Over(Drop(f, {lost}), disk)
                IN  IF torn THEN Over(At(lost, Torn), left) ELSE left
  BY DEF WriteBundleFails
<1>3. /\ UNCHANGED <<project, graph, manifest, active, edits>>
      /\ run' = Idle /\ faults < Here.faults /\ faults' = faults + 1
  BY DEF WriteBundleFails
<1>4. Inputs' /\ Here' = Here
  BY <1>3, SameInputs DEF Inv
<1> HIDE DEF f
<1> DEFINE left == Over(Drop(f, {lost}), disk)
           half == Over(At(lost, Torn), left)
<1>5. /\ DOMAIN left = (DOMAIN f \ {lost}) \cup DOMAIN disk
      /\ \A p \in DOMAIN f \ {lost} : left[p] = f[p]
      /\ \A p \in DOMAIN disk : p \notin DOMAIN f \/ p = lost => left[p] = disk[p]
  BY DEF Over, Drop
<1>6. disk' = left \/ disk' = half
  BY <1>2
<1> HIDE DEF left
<1>7. /\ DOMAIN half = DOMAIN left \cup {lost} /\ half[lost] = Torn
      /\ \A p \in DOMAIN left \ {lost} : half[p] = left[p]
  BY DEF Over, At
<1> HIDE DEF half
<1>8. /\ DOMAIN disk \subseteq DOMAIN disk' /\ DOMAIN disk' \subseteq DOMAIN f \cup DOMAIN disk
      /\ \A p \in DOMAIN disk' :
            \/ p \in DOMAIN f /\ disk'[p] = f[p]
            \/ p \in DOMAIN f /\ disk'[p] = Torn
            \/ p \in DOMAIN disk /\ disk'[p] = disk[p]
  <2>1. lost \in DOMAIN f
    BY <1>2
  <2>2. /\ DOMAIN disk \subseteq DOMAIN left /\ DOMAIN left \subseteq DOMAIN f \cup DOMAIN disk
        /\ \A p \in DOMAIN left :
              \/ p \in DOMAIN f /\ left[p] = f[p]
              \/ p \in DOMAIN disk /\ left[p] = disk[p]
    <3>1. ASSUME NEW p \in DOMAIN left
          PROVE  \/ p \in DOMAIN f /\ left[p] = f[p]
                 \/ p \in DOMAIN disk /\ left[p] = disk[p]
      <4>1. CASE p \in DOMAIN f \ {lost}
        BY <1>5, <4>1
      <4>2. CASE p \in DOMAIN disk /\ (p \notin DOMAIN f \/ p = lost)
        BY <1>5, <4>2
      <4> QED BY <1>5, <3>1, <4>1, <4>2
    <3> QED BY <1>5, <3>1
  <2>3. CASE disk' = left
    BY <2>2, <2>3
  <2>4. CASE disk' = half
    BY <1>7, <2>1, <2>2, <2>4
  <2> QED BY <1>6, <2>3, <2>4
<1>9. \A p \in DOMAIN f : GoodEntry(p, f[p], run.d)
  BY <1>1 DEF Good
<1>10. Tree'
  <2> SUFFICES ASSUME NEW p \in DOMAIN disk' PROVE GoodFile(p, disk'[p])
    BY DEF Tree
  <2>1. CASE p \in DOMAIN f /\ (disk'[p] = f[p] \/ disk'[p] = Torn)
    BY <1>9, <2>1, TornIs DEF GoodEntry, GoodFile
  <2>2. CASE p \in DOMAIN disk /\ disk'[p] = disk[p]
    BY <2>2 DEF Inv, Tree
  <2> QED BY <1>8, <2>1, <2>2
<1>11. Spared
  <2>1. run.d # "framework"
    BY <1>1, OfDomain
  <2>2. \A p \in DOMAIN disk \cap DOMAIN f : ~(disk[p].by = "hand" /\ Protected(p))
    BY <1>1, <2>1, NotRefused
  <2> QED BY <1>8, <2>2 DEF Spared
<1>12. NotesKept
  <2> SUFFICES ASSUME NEW p \in DOMAIN disk, p.doc = "CLAUDE", disk[p].notes
               PROVE  p \in DOMAIN disk' /\ (disk'[p].notes \/ disk'[p].by = "torn")
    BY DEF NotesKept
  <2>1. TemplateShaped(p)
    BY DEF Inv, Tree, GoodFile, TemplateShaped
  <2> QED BY <1>8, <1>9, <2>1, TornIs DEF GoodEntry
<1>13. Bundle' /\ Counts'
  <2>1. Bundle' /\ run'.renders \in 0..MaxRenders
    BY <1>3, IdleBundle
  <2>2. faults' \in 0..Here'.faults
    <3>1. Here.faults \in Nat
      BY PublicationAssumption DEF Inv, Inputs, Here
    <3> QED BY <1>3, <1>4, <3>1 DEF Inv, Counts
  <2> QED BY <1>3, <1>4, <2>1, <2>2 DEF Inv, Counts
<1> QED BY <1>4, <1>10, <1>11, <1>12, <1>13 DEF Safe, Inv

LEMMA RunRenders ==
    ASSUME IsRun(run), NEW v, NEW f,
           run' = [run EXCEPT !.renders = @ + 1, !.verdict = v, !.staged = f]
    PROVE  /\ IsRun(run') /\ run'.pc = run.pc /\ run'.d = run.d /\ run'.staged = f
           /\ run'.renders = run.renders + 1
<1> DEFINE r == run
           s == [pc |-> r.pc, d |-> r.d, spec |-> r.spec, profile |-> r.profile,
                 crystal |-> r.crystal, staged |-> r.staged, verdict |-> r.verdict,
                 renders |-> r.renders, again |-> r.again, before |-> r.before]
           t == [pc |-> r.pc, d |-> r.d, spec |-> r.spec, profile |-> r.profile,
                 crystal |-> r.crystal, staged |-> r.staged, verdict |-> r.verdict,
                 renders |-> r.renders + 1, again |-> r.again, before |-> r.before]
           u == [pc |-> r.pc, d |-> r.d, spec |-> r.spec, profile |-> r.profile,
                 crystal |-> r.crystal, staged |-> r.staged, verdict |-> v,
                 renders |-> r.renders + 1, again |-> r.again, before |-> r.before]
           w == [pc |-> r.pc, d |-> r.d, spec |-> r.spec, profile |-> r.profile,
                 crystal |-> r.crystal, staged |-> f, verdict |-> v,
                 renders |-> r.renders + 1, again |-> r.again, before |-> r.before]
<1>1. r = s
  BY DEF IsRun
<1>2. [s EXCEPT !.renders = @ + 1] = t /\ [t EXCEPT !.verdict = v] = u /\ [u EXCEPT !.staged = f] = w
  OBVIOUS
<1>3. [s EXCEPT !.renders = @ + 1, !.verdict = v, !.staged = f] =
        [[[s EXCEPT !.renders = @ + 1] EXCEPT !.verdict = v] EXCEPT !.staged = f]
  OBVIOUS
<1>4. IsRun(w) /\ w.pc = r.pc /\ w.d = r.d /\ w.staged = f /\ w.renders = r.renders + 1
  BY DEF IsRun
<1> HIDE DEF s, t, u, w, r
<1>5. run' = [s EXCEPT !.renders = @ + 1, !.verdict = v, !.staged = f]
  <2>1. run' = [r EXCEPT !.renders = @ + 1, !.verdict = v, !.staged = f]
    BY Zenon DEF r
  <2> QED BY ONLY <1>1, <2>1, Zenon
<1>6. [[[s EXCEPT !.renders = @ + 1] EXCEPT !.verdict = v] EXCEPT !.staged = f] = w
  BY ONLY <1>2, Zenon
<1>7. run' = w
  BY ONLY <1>3, <1>5, <1>6, Zenon
<1> QED BY <1>4, <1>7 DEF r

\* What a cleanup after the publication removes is no author's and no crystal.
LEMMA CleanSafe ==
    ASSUME Inv, NEW pc, NEW next, NEW stale, Clean(pc, next, stale),
           pc # "idle", next \notin {"publish", "converge"},
           \A p \in stale \cap DOMAIN disk :
              p.doc # "CLAUDE" /\ ~(disk[p].by = "hand" /\ Protected(p))
    PROVE  Safe
<1>1. /\ UNCHANGED <<project, graph, manifest, active, edits, faults>>
      /\ disk' = Drop(disk, stale) /\ run' = [run EXCEPT !.pc = next] /\ run.pc = pc
  BY DEF Clean, Unchanged
<1>2. Inputs' /\ Here' = Here
  BY <1>1, SameInputs DEF Inv
<1>3. IsRun(run)
  BY DEF Inv, Bundle
<1>4. /\ IsRun(run') /\ run'.pc = next /\ run'.d = run.d /\ run'.staged = run.staged
      /\ run'.renders = run.renders
  BY <1>1, <1>3, MovedRun
<1>5. /\ DOMAIN disk' = DOMAIN disk \ stale
      /\ \A p \in DOMAIN disk \ stale : disk'[p] = disk[p]
  BY <1>1 DEF Drop
<1>6. Tree' /\ Spared /\ NotesKept
  BY <1>5 DEF Inv, Tree, Spared, NotesKept
<1>7. Bundle'
  BY <1>1, <1>2, <1>4 DEF Inv, Bundle
<1>8. Counts'
  BY <1>1, <1>2, <1>4 DEF Inv, Counts
<1> QED BY <1>2, <1>6, <1>7, <1>8 DEF Safe, Inv

LEMMA CleanRawSafe == ASSUME Inv, CleanRaw PROVE Safe
<1> DEFINE stale == {p \in {Path(run.d, "evidence.json", "")} :
                        IsGenerated(p) /\ \E q \in DOMAIN run.staged : q.doc = "EVIDENCE"}
<1>1. ASSUME NEW p \in stale
      PROVE  p.doc # "CLAUDE" /\ disk[p].by # "hand"
  <2>1. p = Path(run.d, "evidence.json", "") /\ IsGenerated(p)
    OBVIOUS
  <2>2. p.doc = "evidence.json"
    BY <2>1 DEF Path
  <2>3. disk[p].by = "generated"
    BY <2>1 DEF IsGenerated
  <2> QED BY <2>2, <2>3
<1>2. Clean("raw", "spec", stale)
  BY DEF CleanRaw
<1> HIDE DEF stale
<1> QED BY <1>1, <1>2, CleanSafe

LEMMA CleanShardsSafe == ASSUME Inv, CleanShards PROVE Safe
<1> DEFINE stale == IF run.spec THEN StaleShards(run.d, DOMAIN run.staged) ELSE {}
<1>1. \A p \in stale : p.doc # "CLAUDE" /\ disk[p].by # "hand"
  BY PublicationAssumption DEF StaleShards, IsGenerated, CrystalDocs
<1>2. Clean("spec", "gen", stale)
  BY DEF CleanShards
<1> HIDE DEF stale
<1> QED BY <1>1, <1>2, CleanSafe

LEMMA CleanGenFilesSafe == ASSUME Inv, CleanGenFiles PROVE Safe
<1> DEFINE m == manifest[run.d]
           stale == StaleGenFiles(run.d, m, DOMAIN run.staged, run.spec)
<1>1. run.d # "framework" /\ run.d \in Here.domains
  BY OfDomain DEF Inv, Bundle, CleanGenFiles, Clean
<1>2. ASSUME NEW p \in stale
      PROVE  p.doc # "CLAUDE" /\ ~(disk[p].by = "hand" /\ Protected(p))
  <2>1. p \in DOMAIN disk /\ p.at = run.d /\ p.doc \in DomainDocs \ ReportDocs /\ Owned(m, p)
    BY DEF StaleGenFiles
  <2>2. p.doc # "CLAUDE"
    BY <2>1, PublicationAssumption DEF DomainDocs, SpecDocs, Views, ReportDocs, CrystalDocs
  <2>3. p.doc \notin {"EVIDENCE", "page"}
    BY <2>1 DEF ReportDocs
  <2>4. CASE IsGenerated(p)
    BY <2>2, <2>4 DEF IsGenerated
  <2>5. CASE /\ p.doc \notin SpecDocs /\ p.lang = ""
             /\ Localized(m) => p.doc \notin Views \cup {"GLOSSARY"}
    BY <2>1, <2>2, <2>3, <2>5 DEF Protected
  <2> QED BY <2>1, <2>4, <2>5 DEF Owned
<1>3. Clean("gen", "framework", stale)
  BY DEF CleanGenFiles
<1> HIDE DEF stale
<1> QED BY <1>2, <1>3, CleanSafe

LEMMA CleanFrameworkSafe == ASSUME Inv, CleanFramework PROVE Safe
<1> DEFINE m == manifest[run.d]
           stale == StaleFrameworkFiles(run.d, m, run.profile, DOMAIN run.staged)
<1>1. "framework" \notin Here.domains
  BY OfDomain
<1>2. ASSUME NEW p \in stale
      PROVE  p.doc # "CLAUDE" /\ ~(disk[p].by = "hand" /\ Protected(p))
  <2>1. p \in DOMAIN disk /\ p.at = "framework" /\ p.doc \in Framework /\ Owned(m, p)
    BY DEF StaleFrameworkFiles
  <2>2. p.doc \notin {"CLAUDE", "EVIDENCE", "page"}
    BY <2>1 DEF Framework
  <2>3. CASE IsGenerated(p)
    BY <2>2, <2>3 DEF IsGenerated
  <2>4. CASE p.doc \notin SpecDocs /\ p.lang = ""
    BY <1>1, <2>1, <2>2, <2>4 DEF Protected
  <2> QED BY <2>1, <2>3, <2>4 DEF Owned
<1>3. Clean("framework", "evidence", stale)
  BY DEF CleanFramework
<1> HIDE DEF stale
<1> QED BY <1>2, <1>3, CleanSafe

LEMMA CleanEvidenceSafe == ASSUME Inv, CleanEvidence PROVE Safe
<1> DEFINE stale == StaleEvidenceViews(run.d, manifest[run.d], DOMAIN run.staged)
<1>1. \A p \in stale : p.doc # "CLAUDE" /\ disk[p].by # "hand"
  BY DEF StaleEvidenceViews, IsGenerated
<1>2. Clean("evidence", "finished", stale)
  BY DEF CleanEvidence
<1> HIDE DEF stale
<1> QED BY <1>1, <1>2, CleanSafe

\* A step that ends a run and leaves the tree alone.
LEMMA EndSafe ==
    ASSUME Inv, run' = Idle, UNCHANGED <<project, disk, graph, manifest, active, edits>>,
           faults' \in 0..Here.faults
    PROVE  Safe
<1>1. Inputs' /\ Here' = Here
  BY SameInputs DEF Inv
<1>2. Tree' /\ Spared /\ NotesKept
  BY Untouched DEF Inv
<1>3. Bundle' /\ Counts'
  BY <1>1, IdleBundle DEF Inv, Counts
<1> QED BY <1>1, <1>2, <1>3 DEF Safe, Inv

LEMMA ReturnSafe == ASSUME Inv, Return PROVE Safe
  BY EndSafe DEF Return, Unchanged, Inv, Counts

LEMMA MoreFaults ==
    ASSUME Inv, faults < Here.faults
    PROVE  faults + 1 \in 0..Here.faults
<1>1. Here.faults \in Nat
  BY PublicationAssumption DEF Inv, Inputs, Here
<1> QED BY <1>1 DEF Inv, Counts

LEMMA CutOffSafe == ASSUME Inv, CutOff PROVE Safe
  BY EndSafe, MoreFaults DEF CutOff

\* The render of what the readers found: the same files, with the same notes.
LEMMA ConvergeSafe == ASSUME Inv, Converge PROVE Safe
<1> DEFINE found == FoundByReaders(run.d)
           f == run.staged
           E == {"live-state"} \cup CrystalDocs
           again == [p \in {q \in DOMAIN f : q.doc \in E} |-> [f[p] EXCEPT !.verdict = found]]
<1>1. /\ run.pc = "converge" /\ UNCHANGED <<project, graph, manifest, active, edits, faults>>
      /\ \/ UNCHANGED disk /\ run' = [run EXCEPT !.pc = "crystals"]
         \/ UNCHANGED disk /\ run' = Idle
         \/ /\ run.renders # MaxRenders /\ disk' = Over(again, disk)
            /\ run' = [run EXCEPT !.renders = @ + 1, !.verdict = found,
                                  !.staged = Over(again, @)]
  BY DEF Converge, ConvergeWithin, Unchanged
<1>2. Inputs' /\ Here' = Here
  BY <1>1, SameInputs DEF Inv
<1>3. /\ IsRun(run) /\ Good(f, run.d) /\ run.d \in Here.domains
      /\ \A p \in DOMAIN f : p \in DOMAIN disk /\ disk[p] = f[p] /\ f[p].by = "generated"
  BY <1>1 DEF Inv, Bundle
<1>4. CASE UNCHANGED disk /\ run' = [run EXCEPT !.pc = "crystals"]
  <2>1. /\ IsRun(run') /\ run'.pc = "crystals" /\ run'.d = run.d /\ run'.staged = run.staged
        /\ run'.renders = run.renders
    BY <1>3, <1>4, MovedRun
  <2>2. Bundle' /\ Counts'
    BY <1>1, <1>2, <1>3, <2>1 DEF Inv, Bundle, Counts
  <2>3. Tree' /\ Spared /\ NotesKept
    BY <1>4, Untouched DEF Inv
  <2> QED BY <1>2, <2>2, <2>3 DEF Safe, Inv
<1>5. CASE UNCHANGED disk /\ run' = Idle
  BY <1>1, <1>5, EndSafe DEF Inv, Counts
<1>6. CASE /\ run.renders # MaxRenders /\ disk' = Over(again, disk)
           /\ run' = [run EXCEPT !.renders = @ + 1, !.verdict = found, !.staged = Over(again, @)]
  <2>1. ASSUME NEW p \in DOMAIN again
        PROVE  /\ p \in DOMAIN f /\ IsFile(again[p]) /\ again[p].by = f[p].by
               /\ again[p].notes = f[p].notes
    <3> DEFINE t == f[p]
    <3>1. p \in DOMAIN f /\ again[p] = [t EXCEPT !.verdict = found]
      OBVIOUS
    <3>2. IsFile(t)
      BY <1>3, <3>1 DEF Good, GoodEntry
    <3> HIDE DEF again, found, t
    <3>3. /\ IsFile([t EXCEPT !.verdict = found]) /\ [t EXCEPT !.verdict = found].by = t.by
          /\ [t EXCEPT !.verdict = found].notes = t.notes
      BY <3>2, Reread
    <3>4. IsFile(again[p]) /\ again[p].by = t.by /\ again[p].notes = t.notes
      BY <3>1, <3>3, Zenon
    <3> QED BY <3>1, <3>4 DEF t
  <2> HIDE DEF f, again, found
  <2> DEFINE h == Over(again, f)
  <2>2. /\ DOMAIN h = DOMAIN f
        /\ \A p \in DOMAIN again : h[p] = again[p]
        /\ \A p \in DOMAIN f \ DOMAIN again : h[p] = f[p]
    BY <2>1 DEF Over
  <2>3. /\ DOMAIN disk' = DOMAIN disk
        /\ \A p \in DOMAIN again : disk'[p] = again[p]
        /\ \A p \in DOMAIN disk \ DOMAIN again : disk'[p] = disk[p]
    BY <1>3, <1>6, <2>1 DEF Over
  <2>4. /\ IsRun(run') /\ run'.pc = run.pc /\ run'.d = run.d /\ run'.staged = h
        /\ run'.renders = run.renders + 1
    <3>1. run' = [run EXCEPT !.renders = @ + 1, !.verdict = found, !.staged = h]
      BY <1>6, Zenon DEF f
    <3> HIDE DEF h
    <3> QED BY <1>3, <3>1, RunRenders
  <2> HIDE DEF h
  <2>5. ASSUME NEW p \in DOMAIN f
        PROVE  /\ p \in DOMAIN disk /\ p \in DOMAIN disk' /\ disk'[p] = h[p]
               /\ IsFile(h[p]) /\ h[p].by = "generated" /\ h[p].notes = disk[p].notes
               /\ GoodEntry(p, f[p], run.d)
    <3>1. GoodEntry(p, f[p], run.d) /\ p \in DOMAIN disk /\ disk[p] = f[p] /\ f[p].by = "generated"
      BY <1>3 DEF Good
    <3>2. CASE p \in DOMAIN again
      BY <2>1, <2>2, <2>3, <3>1, <3>2
    <3>3. CASE p \notin DOMAIN again
      BY <2>2, <2>3, <3>1, <3>3 DEF GoodEntry
    <3> QED BY <3>2, <3>3
  <2>6. \A p \in DOMAIN disk \ DOMAIN f : disk'[p] = disk[p]
    BY <2>1, <2>3
  <2>7. Tree'
    <3> SUFFICES ASSUME NEW p \in DOMAIN disk PROVE GoodFile(p, disk'[p])
      BY <2>3 DEF Tree
    <3>1. CASE p \in DOMAIN f
      BY <2>5, <3>1 DEF Inv, Tree, GoodFile
    <3>2. CASE p \notin DOMAIN f
      BY <2>6, <3>2 DEF Inv, Tree
    <3> QED BY <3>1, <3>2
  <2>8. Spared
    BY <1>3, <2>3, <2>6 DEF Spared, f
  <2>9. NotesKept
    BY <2>3, <2>5, <2>6 DEF NotesKept
  <2>10. Good(run.staged, run.d)'
    <3>1. \A p \in DOMAIN h : GoodEntry(p, f[p], run.d) /\ IsFile(h[p]) /\ h[p].by = "generated"
                            /\ disk'[p] = h[p] /\ h[p].notes = f[p].notes
      BY <1>3, <2>2, <2>5 DEF f
    <3> QED BY <1>1, <2>4, <3>1 DEF Good, GoodEntry, Looked
  <2>11. Bundle'
    BY <1>1, <1>2, <1>3, <2>2, <2>4, <2>5, <2>10 DEF Bundle
  <2>12. Counts'
    <3>1. MaxRenders \in Nat /\ run.renders \in 0..MaxRenders
      BY PublicationAssumption DEF Inv, Counts
    <3>2. run'.renders \in 0..MaxRenders
      BY <1>6, <2>4, <3>1
    <3> QED BY <1>1, <1>2, <3>2 DEF Inv, Counts
  <2> QED BY <1>2, <2>7, <2>8, <2>9, <2>11, <2>12 DEF Safe, Inv
<1> QED BY <1>1, <1>4, <1>5, <1>6

\* A retired crystal leaves its notes behind.
LEMMA CleanCrystalsSafe == ASSUME Inv, CleanCrystals PROVE Safe
<1> DEFINE stale == StaleCrystals(run.d, run.crystal, DOMAIN run.staged)
           noted == {p \in stale : disk[p].notes}
<1>1. /\ run.pc = "crystals" /\ UNCHANGED <<project, graph, manifest, active, edits, faults>>
      /\ disk' = Over([p \in noted |-> NotesOnly], Drop(disk, stale))
      /\ run' = [run EXCEPT !.pc = "raw"]
  BY DEF CleanCrystals, Unchanged
<1>2. Inputs' /\ Here' = Here
  BY <1>1, SameInputs DEF Inv
<1>3. IsRun(run)
  BY DEF Inv, Bundle
<1>4. /\ IsRun(run') /\ run'.pc = "raw" /\ run'.d = run.d /\ run'.staged = run.staged
      /\ run'.renders = run.renders
  BY <1>1, <1>3, MovedRun
<1>5. \A p \in stale : p \in DOMAIN disk /\ p.doc = "CLAUDE" /\ disk[p].by # "hand"
  BY DEF StaleCrystals, TemplateShaped
<1>6. noted = {p \in stale : disk[p].notes}
  OBVIOUS
<1> HIDE DEF stale, noted
<1>7. /\ DOMAIN disk' = noted \cup (DOMAIN disk \ stale)
      /\ \A p \in noted : disk'[p] = NotesOnly
      /\ \A p \in DOMAIN disk \ stale : disk'[p] = disk[p]
  BY <1>1, <1>6 DEF Over, Drop
<1>8. Tree'
  <2> SUFFICES ASSUME NEW p \in DOMAIN disk' PROVE GoodFile(p, disk'[p])
    BY DEF Tree
  <2>1. CASE p \in noted
    BY <1>5, <1>6, <1>7, <2>1, NotesOnlyIs DEF Inv, Tree, GoodFile, CrystalDocs
  <2>2. CASE p \in DOMAIN disk \ stale
    BY <1>7, <2>2 DEF Inv, Tree
  <2> QED BY <1>7, <2>1, <2>2
<1>9. Spared
  BY <1>5, <1>7 DEF Spared
<1>10. NotesKept
  BY <1>6, <1>7, NotesOnlyIs DEF NotesKept
<1>11. Bundle' /\ Counts'
  BY <1>1, <1>2, <1>4 DEF Inv, Bundle, Counts
<1> QED BY <1>2, <1>8, <1>9, <1>10, <1>11 DEF Safe, Inv

-----------------------------------------------------------------------------
(* Between runs                                                             *)

LEMMA EditKeeps ==
    ASSUME Inv, Edit
    PROVE  Bundle' /\ Counts' /\ Here' = Here
<1>1. /\ run.pc = "idle" /\ UNCHANGED <<project, run, faults>>
      /\ edits < Here.edits /\ edits' = edits + 1
  BY DEF Edit
<1>2. Here' = Here
  BY <1>1 DEF Here
<1>3. Here.edits \in Nat
  BY PublicationAssumption DEF Inv, Inputs, Here
<1>4. edits' \in 0..Here.edits
  BY <1>1, <1>3 DEF Inv, Counts
<1>5. Counts'
  BY <1>1, <1>2, <1>4 DEF Inv, Counts
<1>6. Bundle'
  BY <1>1, <1>2 DEF Inv, Bundle
<1> QED BY <1>2, <1>5, <1>6

\* A change of what the domains are.
LEMMA ChangeSafe ==
    ASSUME Inv, Edit, UNCHANGED disk, Inputs'
    PROVE  Safe
  BY EditKeeps, Untouched DEF Safe, Inv

LEMMA ChangeGraphSafe == ASSUME Inv, NEW d \in Here.domains, ChangeGraph(d) PROVE Safe
<1>1. Edit /\ UNCHANGED <<disk, manifest, active>>
  BY DEF ChangeGraph
<1>2. PICK g \in Here.graphs : graph' = [graph EXCEPT ![d] = g]
  BY DEF ChangeGraph
<1>3. Here' = Here /\ project' = project
  BY <1>1, EditKeeps DEF Edit
<1>4. graph' \in [Here.domains -> Here.graphs]
  BY <1>2 DEF Inv, Inputs
<1>5. Inputs'
  BY <1>1, <1>3, <1>4 DEF Inv, Inputs
<1> QED BY <1>1, <1>5, ChangeSafe

LEMMA ChangeManifestSafe == ASSUME Inv, NEW d \in Here.domains, ChangeManifest(d) PROVE Safe
<1>1. Edit /\ UNCHANGED <<disk, graph, active>>
  BY DEF ChangeManifest
<1>2. PICK m \in Here.manifests : manifest' = [manifest EXCEPT ![d] = m]
  BY DEF ChangeManifest
<1>3. Here' = Here /\ project' = project
  BY <1>1, EditKeeps DEF Edit
<1>4. manifest' \in [Here.domains -> Here.manifests]
  BY <1>2 DEF Inv, Inputs
<1>5. Inputs'
  BY <1>1, <1>3, <1>4 DEF Inv, Inputs
<1> QED BY <1>1, <1>5, ChangeSafe

LEMMA SwitchActiveSafe == ASSUME Inv, NEW d \in Here.domains, SwitchActive(d) PROVE Safe
<1>1. Edit /\ UNCHANGED <<disk, graph, manifest>> /\ active' = d
  BY DEF SwitchActive
<1>2. Here' = Here /\ project' = project
  BY <1>1, EditKeeps DEF Edit
<1>3. Inputs'
  BY <1>1, <1>2 DEF Inv, Inputs
<1> QED BY <1>1, <1>3, ChangeSafe

\* A change of the files of the tree.
LEMMA FilesSafe ==
    ASSUME Inv, Edit, UNCHANGED <<graph, manifest, active>>, Tree', Spared, NotesKept
    PROVE  Safe
<1>1. Inputs'
  BY SameInputs DEF Inv, Edit
<1> QED BY <1>1, EditKeeps DEF Safe, Inv

LEMMA AuthorSafe ==
    ASSUME Inv, NEW p \in Here.authored, Author(p)
    PROVE  Safe
<1>1. Edit /\ UNCHANGED <<graph, manifest, active>> /\ disk' = Over(At(p, Hand), disk)
  BY DEF Author
<1>2. p \in DOMAIN disk => ~disk[p].notes
  BY DEF Author
<1>3. p.lang \in Locales \cup {"", Foreign}
  BY PublicationAssumption DEF Inv, Inputs, Here
<1>4. /\ DOMAIN disk' = {p} \cup DOMAIN disk /\ disk'[p] = Hand
      /\ \A q \in DOMAIN disk \ {p} : disk'[q] = disk[q]
  BY <1>1 DEF Over, At
<1>5. Tree'
  BY <1>3, <1>4, HandIs DEF Inv, Tree, GoodFile
<1>6. Spared /\ NotesKept
  BY <1>2, <1>4, HandIs DEF Spared, NotesKept
<1> QED BY <1>1, <1>5, <1>6, FilesSafe

LEMMA TakeNotesSafe == ASSUME Inv, NEW p \in DOMAIN disk, TakeNotes(p) PROVE Safe
<1> DEFINE t == disk[p]
           u == [t EXCEPT !.notes = TRUE]
<1>1. /\ Edit /\ UNCHANGED <<graph, manifest, active>> /\ p.doc \in CrystalDocs
      /\ TemplateShaped(p) /\ disk' = [disk EXCEPT ![p] = u]
  BY Zenon DEF TakeNotes
<1>2. GoodFile(p, t) /\ t.by \in {"generated", "notes"}
  BY <1>1 DEF Inv, Tree, TemplateShaped
<1> HIDE DEF t
<1>3. u = [by |-> t.by, of |-> t.of, lang |-> t.lang, graph |-> t.graph,
           verdict |-> t.verdict, lists |-> t.lists, notes |-> TRUE]
  BY <1>2, TextUpdate DEF GoodFile
<1> HIDE DEF u
<1>4. IsFile(u) /\ u.by = t.by /\ u.notes = TRUE
  BY <1>3 DEF IsFile
<1>5. /\ DOMAIN disk' = DOMAIN disk /\ disk'[p] = u
      /\ \A q \in DOMAIN disk \ {p} : disk'[q] = disk[q]
  BY <1>1
<1>6. Tree'
  <2>1. GoodFile(p, u)
    BY <1>1, <1>2, <1>4 DEF GoodFile
  <2> QED BY <1>5, <2>1 DEF Inv, Tree
<1>7. Spared /\ NotesKept
  BY <1>2, <1>4, <1>5 DEF Spared, NotesKept, t
<1> QED BY <1>1, <1>6, <1>7, FilesSafe

LEMMA RemoveTornSafe == ASSUME Inv, NEW p \in DOMAIN disk, RemoveTorn(p) PROVE Safe
<1>1. Edit /\ UNCHANGED <<graph, manifest, active>> /\ disk[p].by = "torn"
  BY DEF RemoveTorn
<1>2. DOMAIN disk' = DOMAIN disk \ {p} /\ \A q \in DOMAIN disk \ {p} : disk'[q] = disk[q]
  BY DEF RemoveTorn, Drop
<1>3. ~disk[p].notes
  BY <1>1 DEF Inv, Tree, GoodFile
<1>4. Tree' /\ Spared /\ NotesKept
  BY <1>1, <1>2, <1>3 DEF Inv, Tree, Spared, NotesKept
<1> QED BY <1>1, <1>4, FilesSafe

LEMMA EvidenceWriteSafe ==
    ASSUME Inv, NEW d \in Here.domains, NEW json \in BOOLEAN, EvidenceWrite(d, json)
    PROVE  Safe
<1> DEFINE f == BuildReports(d, manifest[d], graph[d])
           raw == Path(d, "evidence.json", "")
           t == Text(d, "", graph[d])
           stale == {p \in DOMAIN disk \ DOMAIN f :
                       /\ p.at = d /\ IsGenerated(p)
                       /\ p.doc \in {"EVIDENCE", "page"} \/ (p = raw /\ ~json)}
           left == Over(f, Drop(disk, stale))
<1>1. /\ Edit /\ UNCHANGED <<graph, manifest, active>> /\ ~Refused(d, DOMAIN f)
      /\ disk' = IF json THEN Over(At(raw, t), left) ELSE left
  BY DEF EvidenceWrite
<1>2. Good(f, d) /\ d # "framework"
  BY OfDomain, ReportsGood
<1>3. \A p \in DOMAIN f : p.doc # "CLAUDE"
  <2>1. ASSUME NEW p, p \in DOMAIN f
        PROVE  p.doc # "CLAUDE"
    <3>1. PICK x \in ReportViews, lang \in Locales \cup {""} : p = Path(d, x, lang)
      BY <2>1, OfDomain, ReportIs
    <3>2. p.doc = x
      BY <3>1 DEF Path
    <3> QED BY <3>1, <3>2 DEF ReportViews
  <2> QED BY <2>1
<1>4. raw.doc = "evidence.json" /\ raw.lang = ""
  BY DEF Path
<1>5. ~Protected(raw)
  BY <1>4, PublicationAssumption DEF Protected, SpecDocs, ReportDocs, Views
<1>6. \A p \in stale : p.doc # "CLAUDE" /\ disk[p].by # "hand"
  BY <1>4 DEF IsGenerated
<1>7. IsFile(t) /\ t.by = "generated" /\ t.notes = FALSE
  BY TextIs
<1> HIDE DEF f, raw, t, stale
<1>8. /\ DOMAIN left = DOMAIN f \cup (DOMAIN disk \ stale)
      /\ \A p \in DOMAIN f : left[p] = f[p]
      /\ \A p \in DOMAIN disk : p \notin DOMAIN f /\ p \notin stale => left[p] = disk[p]
  BY DEF Over, Drop
<1> HIDE DEF left
<1>9. /\ DOMAIN disk' = DOMAIN left \/ DOMAIN disk' = DOMAIN left \cup {raw}
      /\ raw \in DOMAIN disk' => disk'[raw] = t \/ (raw \in DOMAIN left /\ disk'[raw] = left[raw])
      /\ \A p \in DOMAIN left : p # raw => disk'[p] = left[p]
  BY <1>1 DEF Over, At
<1>10. \A p \in DOMAIN f : GoodEntry(p, f[p], d)
  BY <1>2 DEF Good
<1>11. Tree'
  <2> SUFFICES ASSUME NEW p \in DOMAIN disk' PROVE GoodFile(p, disk'[p])
    BY DEF Tree
  <2>1. ASSUME p \in DOMAIN left PROVE GoodFile(p, left[p])
    <3>1. CASE p \in DOMAIN f
      BY <1>8, <1>10, <3>1 DEF GoodEntry, GoodFile
    <3>2. CASE p \notin DOMAIN f
      BY <1>8, <2>1, <3>2 DEF Inv, Tree
    <3> QED BY <3>1, <3>2
  <2>2. CASE p = raw
    BY <1>4, <1>7, <1>9, <2>1, <2>2 DEF GoodFile
  <2>3. CASE p # raw
    BY <1>9, <2>1, <2>3
  <2> QED BY <2>2, <2>3
<1>12. Spared
  <2> SUFFICES ASSUME NEW p \in DOMAIN disk, disk[p].by = "hand", Protected(p)
               PROVE  p \in DOMAIN disk' /\ disk'[p] = disk[p]
    BY DEF Spared
  <2>1. p \notin DOMAIN f
    BY <1>1, <1>2, NotRefused
  <2>2. p \notin stale /\ p # raw
    BY <1>5, <1>6
  <2> QED BY <1>8, <1>9, <2>1, <2>2
<1>13. NotesKept
  <2> SUFFICES ASSUME NEW p \in DOMAIN disk, p.doc = "CLAUDE", disk[p].notes
               PROVE  p \in DOMAIN disk' /\ disk'[p] = disk[p]
    BY DEF NotesKept
  <2>1. p \notin DOMAIN f /\ p \notin stale /\ p # raw
    BY <1>3, <1>4, <1>6
  <2> QED BY <1>8, <1>9, <2>1
<1> QED BY <1>1, <1>11, <1>12, <1>13, FilesSafe

-----------------------------------------------------------------------------
(* Theorems                                                                 *)

LEMMA StepSafe == ASSUME Inv, [Next]_vars PROVE Safe
<1>1. CASE UNCHANGED vars
  <2>1. Tree' /\ Spared /\ NotesKept
    BY <1>1, Untouched DEF Inv, vars
  <2>2. Inputs' /\ Here' = Here
    BY <1>1, SameInputs DEF Inv, vars
  <2>3. Bundle' /\ Counts'
    BY <1>1, <2>2 DEF Inv, vars, Bundle, Counts, Good, GoodEntry, Looked, Refused, TemplateShaped,
                      IsGenerated
  <2> QED BY <2>1, <2>2, <2>3 DEF Safe, Inv
<1>2. ASSUME NEW d \in Here.domains, NEW spec \in BOOLEAN, NEW explicit \in BOOLEAN,
             NEW override \in Overrides, GenSpec(d, spec, override, explicit)
      PROVE  Safe
  BY <1>2, GenSpecSafe
<1>3. ASSUME NEW d \in Here.domains,
             \/ ChangeGraph(d) \/ ChangeManifest(d) \/ SwitchActive(d)
             \/ \E json \in BOOLEAN : EvidenceWrite(d, json)
      PROVE  Safe
  BY <1>3, ChangeGraphSafe, ChangeManifestSafe, SwitchActiveSafe, EvidenceWriteSafe
<1>4. ASSUME NEW p \in DOMAIN disk, TakeNotes(p) \/ RemoveTorn(p)
      PROVE  Safe
  BY <1>4, TakeNotesSafe, RemoveTornSafe
<1>5. ASSUME NEW p \in Here.authored, Author(p)
      PROVE  Safe
  BY <1>5, AuthorSafe
<1> QED BY <1>1, <1>2, <1>3, <1>4, <1>5, WriteBundleSafe, WriteBundleFailsSafe, ConvergeSafe,
           CleanCrystalsSafe, CleanRawSafe, CleanShardsSafe, CleanGenFilesSafe,
           CleanFrameworkSafe, CleanEvidenceSafe, ReturnSafe, CutOffSafe DEF Next

LEMMA InvStep == Inv /\ [Next]_vars => Inv'
  BY StepSafe DEF Safe

\* Only generated files are staged, only the generator's or a retired crystal's
\* files hold notes, and every count stays within its bound (invariant TypeOK).
THEOREM TypeCorrect == Spec => []TypeOK
<1>1. Inv => TypeOK
  BY InvIsType
<1> QED BY <1>1, InvInit, InvStep, PTL DEF Spec

\* Whatever the layout was before and however a run ends, no command overwrites
\* or removes an author's file at a name the generator tells by its banner
\* (property AuthoredSurvives; validateLocalizedRendererTarget,
\* validateSpecOutputTargets, cleanupStaleGenFiles).
THEOREM AuthorsAreSpared == Spec => AuthoredSurvives
<1>1. Inv /\ [Next]_vars =>
        [\A p \in DOMAIN disk : disk[p].by = "hand" /\ Protected(p) =>
            p \in DOMAIN disk' /\ disk'[p].by = "hand"]_vars
  BY StepSafe DEF Safe, Spared
<1> QED BY <1>1, InvInit, InvStep, PTL DEF Spec, AuthoredSurvives

\* The notes below the marker line of a crystal outlive every render and every
\* retirement of the crystal; only a write that is cut off loses them
\* (property NotesSurvive; preserveDurableNotesTail).
THEOREM NotesAreKept == Spec => NotesSurvive
<1>1. Inv /\ [Next]_vars =>
        [\A p \in DOMAIN disk : p.doc = "CLAUDE" /\ disk[p].notes =>
            p \in DOMAIN disk' /\ (disk'[p].notes \/ disk'[p].by = "torn")]_vars
  BY StepSafe DEF Safe, NotesKept
<1> QED BY <1>1, InvInit, InvStep, PTL DEF Spec, NotesSurvive


-----------------------------------------------------------------------------
(* A bundle and its parts                                                   *)

\* Where two parts hold the same path they hold the same file.
Apart(fs) == \A f, g \in fs : \A p \in DOMAIN f \cap DOMAIN g : f[p] = g[p]

InDocs(f, X) == \A p \in DOMAIN f : p.doc \in X

LEMMA MergeIs ==
    ASSUME NEW fs, Apart(fs)
    PROVE  /\ DOMAIN Merge(fs) = UNION {DOMAIN f : f \in fs}
           /\ \A f \in fs : \A p \in DOMAIN f : p \in DOMAIN Merge(fs) /\ Merge(fs)[p] = f[p]
           /\ \A p \in DOMAIN Merge(fs) : \E f \in fs : p \in DOMAIN f
<1>1. DOMAIN Merge(fs) = UNION {DOMAIN f : f \in fs}
  BY DEF Merge
<1>2. ASSUME NEW f \in fs, NEW p \in DOMAIN f
      PROVE  p \in DOMAIN Merge(fs) /\ Merge(fs)[p] = f[p]
  <2> DEFINE h == CHOOSE k \in fs : p \in DOMAIN k
  <2>1. h \in fs /\ p \in DOMAIN h
    BY <1>2
  <2>2. p \in UNION {DOMAIN k : k \in fs}
    BY <1>2
  <2>3. Merge(fs)[p] = h[p]
    BY <2>2 DEF Merge
  <2> HIDE DEF h
  <2>4. h[p] = f[p]
    BY <1>2, <2>1 DEF Apart
  <2> QED BY <1>1, <2>2, <2>3, <2>4
<1>3. \A p \in DOMAIN Merge(fs) : \E f \in fs : p \in DOMAIN f
  BY <1>1
<1> QED BY <1>1, <1>2, <1>3

LEMMA UnionApart ==
    ASSUME NEW A, NEW B, NEW X, NEW Y, Apart(A), Apart(B), X \cap Y = {},
           \A f \in A : InDocs(f, X), \A f \in B : InDocs(f, Y)
    PROVE  Apart(A \cup B) /\ \A f \in A \cup B : InDocs(f, X \cup Y)
<1>1. ASSUME NEW f \in A \cup B, NEW g \in A \cup B, NEW p \in DOMAIN f \cap DOMAIN g
      PROVE  f[p] = g[p]
  <2>1. (f \in A => p.doc \in X) /\ (g \in A => p.doc \in X)
        /\ (f \in B => p.doc \in Y) /\ (g \in B => p.doc \in Y)
    BY <1>1 DEF InDocs
  <2>2. (f \in A /\ g \in A) \/ (f \in B /\ g \in B)
    BY <2>1
  <2> QED BY <1>1, <2>2 DEF Apart
<1> QED BY <1>1 DEF Apart, InDocs

LEMMA AloneApart == ASSUME NEW f, NEW A, A = {f} \/ A = {} PROVE Apart(A)
  BY DEF Apart

LEMMA EmptyApart == Apart({})
  BY DEF Apart

\* The files of two languages have no path in common.
LEMMA SameLanguage ==
    ASSUME NEW m, m.langs \in Seq(Locales), NEW l \in LanguagesForViews(m),
           NEW k \in LanguagesForViews(m), NEW a, NEW x, NEW b, NEW y,
           DocumentPath(m, a, x, l) = DocumentPath(m, b, y, k)
    PROVE  l = k
<1> DEFINE langs == m.langs
<1>1. CASE Multilingual(m)
  BY <1>1 DEF DocumentPath, Path
<1>2. CASE ~Multilingual(m)
  <2>1. langs \in Seq(Locales) /\ ~(Len(langs) > 1)
    BY <1>2 DEF Multilingual
  <2>2. CASE langs = <<>>
    BY <2>2 DEF LanguagesForViews, Localized
  <2>3. CASE langs # <<>>
    <3>1. DOMAIN langs = {1}
      BY <2>1, <2>3
    <3>2. \A c \in LanguagesForViews(m) : c = langs[1]
      BY <2>3, <3>1 DEF LanguagesForViews, Localized, Range
    <3> QED BY <3>2
  <2> QED BY <2>2, <2>3
<1> QED BY <1>1, <1>2

LEMMA SomeLanguage ==
    ASSUME NEW m, m.langs \in Seq(Locales)
    PROVE  Default(m) \in LanguagesForViews(m)
<1> DEFINE langs == m.langs
<1>1. langs \in Seq(Locales)
  OBVIOUS
<1>2. langs # <<>> => 1 \in DOMAIN langs
  BY <1>1
<1> QED BY <1>2 DEF Default, LanguagesForViews, Localized, Range

ViewNames == Views \cup {"thinking"} \cup Framework

ViewPath(d, m, l, profile, p) ==
    \E x \in ViewNames :
        /\ p = DocumentPath(m, IF x \in Framework THEN "framework" ELSE d, x, l)
        /\ x \in Framework => profile = Full

LEMMA ViewDocIs ==
    ASSUME NEW d, NEW m, NEW g, NEW l, NEW profile, NEW verdict, NEW specs,
           NEW p \in DOMAIN LanguageDocs(d, m, g, l, profile, verdict, specs)
    PROVE  ViewPath(d, m, l, profile, p)
<1> DEFINE names == ViewDocs(g, profile)
                      \cup IF profile = Full THEN {"thinking"} \cup Framework ELSE {}
           at(x) == IF x \in Framework THEN "framework" ELSE d
           P == {DocumentPath(m, at(x), x, l) : x \in names}
<1>1. DOMAIN LanguageDocs(d, m, g, l, profile, verdict, specs) = P
  BY DEF LanguageDocs
<1>2. PICK x \in names : p = DocumentPath(m, at(x), x, l)
  BY <1>1
<1>3. x \in ViewNames /\ (x \in Framework => profile = Full)
  BY DEF ViewDocs, ViewNames, Views, Framework
<1> QED BY <1>2, <1>3 DEF ViewPath

\* The parts of what a run renders, and of what the checks expect.
ViewParts(d, profile, verdict, listed) ==
    {LanguageDocs(d, manifest[d], graph[d], l, profile, verdict, listed)
        : l \in LanguagesForViews(manifest[d])}
SpecPart(d, spec) == IF spec THEN BuildSpecDocuments(d, manifest[d], graph[d]) ELSE <<>>
Listed(d, spec) == IF spec THEN DOMAIN SpecPart(d, spec) ELSE ExistingSpec(d, manifest[d])
ReportParts(d) == IF ReportPresent(d) THEN {BuildReports(d, manifest[d], graph[d])} ELSE {}
GraphParts(d, profile) ==
    IF profile = Full THEN {At(Path(d, "graph.json", ""), Text(d, "", graph[d]))} ELSE {}
CrystalParts(d, crystal, verdict) ==
    IF crystal THEN {Crystals(d, manifest[d], graph[d], verdict)} ELSE {}
Parts(d, spec, profile, crystal, verdict) ==
    ViewParts(d, profile, verdict, Listed(d, spec)) \cup {SpecPart(d, spec)}
        \cup ReportParts(d) \cup GraphParts(d, profile) \cup CrystalParts(d, crystal, verdict)
ExpectedParts(d) ==
    LET spec == SpecRequired(d, manifest[d])
    IN  ViewParts(d, manifest[d].profile, FoundByReaders(d), Listed(d, spec))
            \cup {SpecPart(d, spec)} \cup ReportParts(d)

LEMMA StagedParts ==
    ASSUME NEW d, NEW spec, NEW profile, NEW crystal, NEW verdict
    PROVE  Staged(d, spec, profile, crystal, verdict) = Merge(Parts(d, spec, profile, crystal, verdict))
  BY DEF Staged, Parts, ViewParts, SpecPart, Listed, ReportParts, GraphParts, CrystalParts

LEMMA ExpectedMerge == ASSUME NEW d PROVE Expected(d) = Merge(ExpectedParts(d))
  BY DEF Expected, ExpectedParts, ViewParts, SpecPart, Listed, ReportParts

\* The names the parts use are kept apart.
LEMMA NamesApart ==
    /\ ViewNames \cap SpecDocs = {}
    /\ (ViewNames \cup SpecDocs) \cap ReportViews = {}
    /\ (ViewNames \cup SpecDocs \cup ReportViews) \cap {"graph.json"} = {}
    /\ (ViewNames \cup SpecDocs \cup ReportViews \cup {"graph.json"}) \cap CrystalDocs = {}
    /\ "evidence.json" \notin ViewNames \cup SpecDocs \cup ReportViews \cup {"graph.json"}
                                \cup CrystalDocs
  BY PublicationAssumption
     DEF ViewNames, Views, Framework, SpecDocs, ReportViews, ReportDocs, CrystalDocs

Settings(d) == manifest[d].langs \in Seq(Locales) /\ graph[d].packages \subseteq Packages

LEMMA ViewsApart ==
    ASSUME NEW d, Settings(d), NEW profile, NEW verdict, NEW listed
    PROVE  /\ Apart(ViewParts(d, profile, verdict, listed))
           /\ \A f \in ViewParts(d, profile, verdict, listed) : InDocs(f, ViewNames)
<1> DEFINE m == manifest[d]
           F(l) == LanguageDocs(d, m, graph[d], l, profile, verdict, listed)
<1>1. \A l, k \in LanguagesForViews(m) : \A p \in DOMAIN F(l) \cap DOMAIN F(k) : l = k
  <2> SUFFICES ASSUME NEW l \in LanguagesForViews(m), NEW k \in LanguagesForViews(m),
                      NEW p \in DOMAIN F(l) \cap DOMAIN F(k)
               PROVE  l = k
    OBVIOUS
  <2>1. ViewPath(d, m, l, profile, p) /\ ViewPath(d, m, k, profile, p)
    BY ViewDocIs
  <2>2. PICK a, x : p = DocumentPath(m, a, x, l)
    BY <2>1 DEF ViewPath
  <2>3. PICK b, y : p = DocumentPath(m, b, y, k)
    BY <2>1 DEF ViewPath
  <2>4. m.langs \in Seq(Locales)
    BY DEF Settings
  <2> HIDE DEF m
  <2> QED BY <2>2, <2>3, <2>4, SameLanguage
<1>2. \A l \in LanguagesForViews(m) : InDocs(F(l), ViewNames)
  <2> SUFFICES ASSUME NEW l \in LanguagesForViews(m), NEW p \in DOMAIN F(l)
               PROVE  p.doc \in ViewNames
    BY DEF InDocs
  <2>1. ViewPath(d, m, l, profile, p)
    BY ViewDocIs
  <2>2. PICK x \in ViewNames :
            p = DocumentPath(m, IF x \in Framework THEN "framework" ELSE d, x, l)
    BY <2>1 DEF ViewPath
  <2>3. p.doc = x
    BY <2>2 DEF DocumentPath, Path
  <2> QED BY <2>3
<1>3. ViewParts(d, profile, verdict, listed) = {F(l) : l \in LanguagesForViews(m)}
  BY DEF ViewParts
<1> HIDE DEF F, m
<1> QED BY <1>1, <1>2, <1>3 DEF Apart

LEMMA SpecPartIs ==
    ASSUME NEW d, Settings(d), NEW spec
    PROVE  /\ InDocs(SpecPart(d, spec), SpecDocs)
           /\ \A p \in DOMAIN SpecPart(d, spec) : p.at = d
<1> DEFINE m == manifest[d]
           g == graph[d]
<1>1. ASSUME NEW p \in DOMAIN BuildSpecDocuments(d, m, g)
      PROVE  p.doc \in SpecDocs /\ p.at = d
  <2>1. PICK l \in LanguagesForViews(m) : p \in SpecFiles(d, m, g, l)
    BY <1>1 DEF BuildSpecDocuments
  <2>2. PICK x \in {"SPEC"} \cup Packages : p = DocumentPath(m, d, x, l)
    BY <2>1 DEF SpecFiles, Settings
  <2> QED BY <2>2 DEF DocumentPath, Path, SpecDocs
<1> QED BY <1>1 DEF SpecPart, InDocs

LEMMA ReportPartsAre ==
    ASSUME NEW d, Settings(d), NEW f \in ReportParts(d)
    PROVE  InDocs(f, ReportViews) /\ \A p \in DOMAIN f : p.at = d
<1>1. f = BuildReports(d, manifest[d], graph[d])
  BY DEF ReportParts
<1> DEFINE g == graph[d]
<1> HIDE DEF g
<1>2. ASSUME NEW p, p \in DOMAIN BuildReports(d, manifest[d], g)
      PROVE  p.doc \in ReportViews /\ p.at = d
  <2>1. manifest[d].langs \in Seq(Locales)
    BY DEF Settings
  <2>2. PICK x \in ReportViews, lang \in Locales \cup {""} : p = Path(d, x, lang)
    BY <1>2, <2>1, ReportIs
  <2>3. p.doc = x /\ p.at = d
    BY <2>2 DEF Path
  <2> QED BY <2>3
<1> QED BY <1>1, <1>2 DEF InDocs, g

CrystalPaths(d) ==
    {CrystalPath(manifest[d], CrystalDir(d), l) : l \in LanguagesForViews(manifest[d])}
Agents(d) == Path(CrystalDir(d), "AGENTS", "")

LEMMA CrystalsDomain ==
    ASSUME NEW d, NEW verdict
    PROVE  /\ DOMAIN Crystals(d, manifest[d], graph[d], verdict) = {Agents(d)} \cup CrystalPaths(d)
           /\ \A p \in CrystalPaths(d) : p.at = CrystalDir(d) /\ p.doc = "CLAUDE"
           /\ Agents(d).at = CrystalDir(d) /\ Agents(d).doc = "AGENTS"
<1>1. DOMAIN Crystals(d, manifest[d], graph[d], verdict) = {Agents(d)} \cup CrystalPaths(d)
  BY DEF Crystals, Over, At, Agents, CrystalPaths
<1>2. Agents(d).at = CrystalDir(d) /\ Agents(d).doc = "AGENTS"
  BY DEF Agents, Path
<1>3. ASSUME NEW p \in CrystalPaths(d)
      PROVE  p.at = CrystalDir(d) /\ p.doc = "CLAUDE"
  <2>1. PICK l : p = CrystalPath(manifest[d], CrystalDir(d), l)
    BY DEF CrystalPaths
  <2> QED BY <2>1 DEF CrystalPath, Path
<1> QED BY <1>1, <1>2, <1>3

LEMMA PartsApart ==
    ASSUME NEW d, Settings(d), NEW spec, NEW profile, NEW crystal, NEW verdict
    PROVE  Apart(Parts(d, spec, profile, crystal, verdict))
<1> DEFINE A == ViewParts(d, profile, verdict, Listed(d, spec))
           S == {SpecPart(d, spec)}
           B == ReportParts(d)
           C == GraphParts(d, profile)
           D == CrystalParts(d, crystal, verdict)
<1>1. Apart(A) /\ \A f \in A : InDocs(f, ViewNames)
  BY ViewsApart
<1>2. Apart(S) /\ \A f \in S : InDocs(f, SpecDocs)
  BY SpecPartIs DEF Apart
<1>3. Apart(B) /\ \A f \in B : InDocs(f, ReportViews)
  BY ReportPartsAre DEF Apart, ReportParts
<1>4. Apart(C) /\ \A f \in C : InDocs(f, {"graph.json"})
  <2> DEFINE q == Path(d, "graph.json", "")
             t == Text(d, "", graph[d])
  <2>1. \A f \in C : f = At(q, t)
    BY DEF GraphParts
  <2>2. q.doc = "graph.json"
    BY DEF Path
  <2> HIDE DEF q, t
  <2>3. InDocs(At(q, t), {"graph.json"})
    <3>1. DOMAIN At(q, t) = {q}
      BY AtIs
    <3> DEFINE h == At(q, t)
    <3> HIDE DEF h
    <3>2. DOMAIN h = {q}
      BY <3>1 DEF h
    <3>3. InDocs(h, {"graph.json"})
      BY <2>2, <3>2 DEF InDocs
    <3> QED BY <3>3 DEF h
  <2> HIDE DEF C
  <2> QED BY <2>1, <2>3 DEF Apart
<1>5. Apart(D) /\ \A f \in D : InDocs(f, CrystalDocs)
  BY CrystalsDomain DEF Apart, CrystalParts, InDocs, CrystalDocs
<1> HIDE DEF A, S, B, C, D
<1>6. Apart(A \cup S) /\ \A f \in A \cup S : InDocs(f, ViewNames \cup SpecDocs)
  BY <1>1, <1>2, UnionApart, NamesApart
<1>7. Apart(A \cup S \cup B) /\ \A f \in A \cup S \cup B : InDocs(f, ViewNames \cup SpecDocs \cup ReportViews)
  BY <1>3, <1>6, UnionApart, NamesApart
<1>8. /\ Apart(A \cup S \cup B \cup C)
      /\ \A f \in A \cup S \cup B \cup C :
            InDocs(f, ViewNames \cup SpecDocs \cup ReportViews \cup {"graph.json"})
  BY <1>4, <1>7, UnionApart, NamesApart
<1>9. Apart(A \cup S \cup B \cup C \cup D)
  BY <1>5, <1>8, UnionApart, NamesApart
<1> QED BY <1>9 DEF Parts, A, S, B, C, D

LEMMA ReportsDomain ==
    ASSUME NEW d, NEW m, NEW g, NEW l \in LanguagesForViews(m), NEW x \in ReportViews
    PROVE  DocumentPath(m, d, x, l) \in DOMAIN BuildReports(d, m, g)
<1> DEFINE D(k) == {DocumentPath(m, d, y, k) : y \in {"EVIDENCE", "page"}}
           F(k) == [q \in D(k) |-> Text(d, k, g)]
           fs == {F(k) : k \in LanguagesForViews(m)}
<1>1. BuildReports(d, m, g) = Merge(fs)
  BY DEF BuildReports
<1>2. DocumentPath(m, d, x, l) \in DOMAIN F(l) /\ F(l) \in fs
  BY DEF ReportViews
<1> HIDE DEF fs, F
<1>3. DOMAIN Merge(fs) = UNION {DOMAIN f : f \in fs}
  BY DEF Merge
<1> QED BY <1>1, <1>2, <1>3

LEMMA StagedHolds ==
    ASSUME NEW d, Settings(d), NEW spec, NEW profile, NEW crystal, NEW verdict
    PROVE  /\ \A part \in Parts(d, spec, profile, crystal, verdict) : \A p \in DOMAIN part :
                /\ p \in DOMAIN Staged(d, spec, profile, crystal, verdict)
                /\ Staged(d, spec, profile, crystal, verdict)[p] = part[p]
           /\ \A p \in DOMAIN Staged(d, spec, profile, crystal, verdict) :
                \E part \in Parts(d, spec, profile, crystal, verdict) : p \in DOMAIN part
<1> DEFINE fs == Parts(d, spec, profile, crystal, verdict)
<1>1. Apart(fs) /\ Staged(d, spec, profile, crystal, verdict) = Merge(fs)
  BY PartsApart, StagedParts
<1> HIDE DEF fs
<1>2. /\ \A part \in fs : \A p \in DOMAIN part : p \in DOMAIN Merge(fs) /\ Merge(fs)[p] = part[p]
      /\ \A p \in DOMAIN Merge(fs) : \E part \in fs : p \in DOMAIN part
  BY <1>1, MergeIs
<1> QED BY <1>1, <1>2 DEF fs

\* Where the files of a bundle lie.
Placed(p, d, spec, profile, crystal, verdict) ==
    \/ /\ p.doc \in ViewNames /\ p.at = IF p.doc \in Framework THEN "framework" ELSE d
       /\ \E part \in ViewParts(d, profile, verdict, Listed(d, spec)) : p \in DOMAIN part
    \/ /\ p.doc \in SpecDocs /\ p.at = d
       /\ spec /\ p \in DOMAIN SpecPart(d, spec)
    \/ /\ p.doc \in ReportViews /\ p.at = d
       /\ ReportPresent(d) /\ p \in DOMAIN BuildReports(d, manifest[d], graph[d])
    \/ /\ p.doc = "graph.json" /\ p.at = d
    \/ /\ p.doc \in CrystalDocs /\ p.at = CrystalDir(d)
       /\ crystal /\ p \in {Agents(d)} \cup CrystalPaths(d)

LEMMA ViewPlaced ==
    ASSUME NEW d, NEW profile, NEW verdict, NEW listed,
           NEW part \in ViewParts(d, profile, verdict, listed), NEW p \in DOMAIN part
    PROVE  /\ p.doc \in ViewNames /\ p.at = IF p.doc \in Framework THEN "framework" ELSE d
           /\ p.doc \in Framework => profile = Full
<1> DEFINE m == manifest[d]
<1>1. PICK l \in LanguagesForViews(m) : part = LanguageDocs(d, m, graph[d], l, profile, verdict, listed)
  BY DEF ViewParts
<1>2. ViewPath(d, m, l, profile, p)
  BY <1>1, ViewDocIs
<1>3. PICK x \in ViewNames :
        /\ p = DocumentPath(m, IF x \in Framework THEN "framework" ELSE d, x, l)
        /\ x \in Framework => profile = Full
  BY <1>2 DEF ViewPath
<1>4. p.doc = x /\ p.at = IF x \in Framework THEN "framework" ELSE d
  BY <1>3 DEF DocumentPath, Path
<1> QED BY <1>3, <1>4

LEMMA StagedPlaced ==
    ASSUME NEW d, Settings(d), NEW spec, NEW profile, NEW crystal, NEW verdict,
           NEW p \in DOMAIN Staged(d, spec, profile, crystal, verdict)
    PROVE  Placed(p, d, spec, profile, crystal, verdict)
<1>1. PICK part \in Parts(d, spec, profile, crystal, verdict) : p \in DOMAIN part
  BY StagedHolds
<1>2. CASE part \in ViewParts(d, profile, verdict, Listed(d, spec))
  BY <1>1, <1>2, ViewPlaced DEF Placed
<1>3. CASE part = SpecPart(d, spec)
  <2>1. spec
    BY <1>1, <1>3 DEF SpecPart
  <2> QED BY <1>1, <1>3, <2>1, SpecPartIs DEF Placed, InDocs
<1>4. CASE part \in ReportParts(d)
  <2>1. ReportPresent(d) /\ part = BuildReports(d, manifest[d], graph[d])
    BY <1>4 DEF ReportParts
  <2>2. p.doc \in ReportViews /\ p.at = d
    BY <1>1, <1>4, ReportPartsAre DEF InDocs
  <2> QED BY <1>1, <2>1, <2>2 DEF Placed
<1>5. CASE part \in GraphParts(d, profile)
  <2> DEFINE q == Path(d, "graph.json", "")
             t == Text(d, "", graph[d])
  <2>1. part = At(q, t)
    BY <1>5 DEF GraphParts
  <2>2. q.doc = "graph.json" /\ q.at = d
    BY DEF Path
  <2> HIDE DEF q, t
  <2>3. DOMAIN At(q, t) = {q}
    BY AtIs
  <2>4. p = q
    BY <1>1, <2>1, <2>3
  <2> QED BY <2>2, <2>4 DEF Placed
<1>6. CASE part \in CrystalParts(d, crystal, verdict)
  <2>1. crystal /\ part = Crystals(d, manifest[d], graph[d], verdict)
    BY <1>6 DEF CrystalParts
  <2>2. p \in {Agents(d)} \cup CrystalPaths(d)
    BY <1>1, <2>1, CrystalsDomain
  <2>3. p.at = CrystalDir(d) /\ p.doc \in CrystalDocs
    BY <2>2, CrystalsDomain DEF CrystalDocs
  <2> QED BY <2>1, <2>2, <2>3 DEF Placed
<1> QED BY <1>1, <1>2, <1>3, <1>4, <1>5, <1>6 DEF Parts

\* Where there are reports the bundle holds the one of the default language.
LEMMA ReportStaged ==
    ASSUME NEW d, Settings(d), NEW spec, NEW profile, NEW crystal, NEW verdict, ReportPresent(d)
    PROVE  \E p \in DOMAIN Staged(d, spec, profile, crystal, verdict) : p.at = d /\ p.doc = "EVIDENCE"
<1> DEFINE m == manifest[d]
           p == DocumentPath(m, d, "EVIDENCE", Default(m))
           part == BuildReports(d, m, graph[d])
<1>1. part \in Parts(d, spec, profile, crystal, verdict)
  BY DEF Parts, ReportParts
<1>2. Default(m) \in LanguagesForViews(m)
  BY SomeLanguage DEF Settings
<1>3. p \in DOMAIN part
  BY <1>2, ReportsDomain DEF ReportViews
<1>4. p.at = d /\ p.doc = "EVIDENCE"
  BY DEF DocumentPath, Path
<1> QED BY <1>1, <1>3, <1>4, StagedHolds

LEMMA BootStaged ==
    ASSUME NEW d, Settings(d)
    PROVE  Boot(d) \in CrystalPaths(d)
<1> DEFINE m == manifest[d]
<1>1. Default(m) \in LanguagesForViews(m)
  BY SomeLanguage DEF Settings
<1>2. CrystalPath(m, CrystalDir(d), Default(m)) = Boot(d)
  BY DEF CrystalPath, Boot
<1> QED BY <1>1, <1>2 DEF CrystalPaths

-----------------------------------------------------------------------------
(* Rendered again: what a run reads of its own outputs                      *)

Noted(p) == TemplateShaped(p) /\ disk[p].notes

CrystalFile(d, verdict, p, noted) ==
    [Text(d, IF p.lang = "" THEN Default(manifest[d]) ELSE p.lang, graph[d]) EXCEPT
        !.verdict = verdict, !.notes = noted]

LEMMA CrystalFileIs ==
    ASSUME NEW d, NEW verdict, NEW p, NEW n
    PROVE  /\ IsFile(CrystalFile(d, verdict, p, n))
           /\ CrystalFile(d, verdict, p, n).by = "generated"
           /\ CrystalFile(d, verdict, p, n).notes = n
           /\ \A v : [CrystalFile(d, verdict, p, n) EXCEPT !.verdict = v] = CrystalFile(d, v, p, n)
<1> DEFINE k == IF p.lang = "" THEN Default(manifest[d]) ELSE p.lang
           g == graph[d]
           t == Text(d, k, g)
           r(v) == [by |-> t.by, of |-> t.of, lang |-> t.lang, graph |-> t.graph,
                    verdict |-> v, lists |-> t.lists, notes |-> n]
<1>1. \A v : CrystalFile(d, v, p, n) = [t EXCEPT !.verdict = v, !.notes = n]
  BY DEF CrystalFile
<1> HIDE DEF k, g
<1>2. IsFile(t) /\ t.by = "generated"
  BY TextIs
<1> HIDE DEF t
<1>3. \A v : [t EXCEPT !.verdict = v, !.notes = n] = r(v)
  BY <1>2, TextRenew
<1>4. \A v : CrystalFile(d, v, p, n) = r(v)
  BY <1>1, <1>3, Zenon
<1>5. \A v : IsFile(r(v)) /\ r(v).by = "generated" /\ r(v).notes = n
  BY <1>2 DEF IsFile
<1>6. \A v : [r(verdict) EXCEPT !.verdict = v] = r(v)
  OBVIOUS
<1> HIDE DEF r
<1>7. \A v : [CrystalFile(d, verdict, p, n) EXCEPT !.verdict = v] = CrystalFile(d, v, p, n)
  BY <1>4, <1>6, Zenon
<1>8. /\ IsFile(CrystalFile(d, verdict, p, n))
      /\ CrystalFile(d, verdict, p, n).by = "generated"
      /\ CrystalFile(d, verdict, p, n).notes = n
  BY <1>4, <1>5, Zenon
<1> QED BY ONLY <1>7, <1>8, Zenon

LEMMA CrystalIs ==
    ASSUME NEW d, NEW verdict
    PROVE  LET f == Crystals(d, manifest[d], graph[d], verdict)
           IN  /\ f[Agents(d)] = CrystalFile(d, verdict, Boot(d), Noted(Boot(d)))
               /\ \A p \in CrystalPaths(d) : f[p] = CrystalFile(d, verdict, p, Noted(p))
<1> DEFINE f == Crystals(d, manifest[d], graph[d], verdict)
           a == At(Agents(d), CrystalFile(d, verdict, Boot(d), Noted(Boot(d))))
           c == [p \in CrystalPaths(d) |-> CrystalFile(d, verdict, p, Noted(p))]
<1>1. f = Over(a, c)
  BY DEF Crystals, CrystalFile, Noted, Agents, Boot, CrystalPaths
<1>2. DOMAIN a = {Agents(d)} /\ a[Agents(d)] = CrystalFile(d, verdict, Boot(d), Noted(Boot(d)))
  BY DEF At
<1>3. DOMAIN c = CrystalPaths(d) /\ \A p \in CrystalPaths(d) : c[p] = CrystalFile(d, verdict, p, Noted(p))
  OBVIOUS
<1>4. Agents(d) \notin CrystalPaths(d)
  BY CrystalsDomain
<1> HIDE DEF a, c, f
<1>5. /\ \A p \in DOMAIN a : Over(a, c)[p] = a[p]
      /\ \A p \in DOMAIN c \ DOMAIN a : Over(a, c)[p] = c[p]
  BY OverIs
<1>6. f[Agents(d)] = a[Agents(d)] /\ \A p \in CrystalPaths(d) : f[p] = c[p]
  BY <1>1, <1>2, <1>3, <1>4, <1>5
<1> QED BY <1>2, <1>3, <1>6 DEF f

LEMMA CrystalsSame ==
    ASSUME NEW d, NEW verdict, Settings(d), UNCHANGED <<manifest, graph, active>>,
           \A p \in CrystalPaths(d) : Noted(p)' <=> Noted(p)
    PROVE  Crystals(d, manifest[d], graph[d], verdict)' = Crystals(d, manifest[d], graph[d], verdict)
<1>1. /\ CrystalPaths(d)' = CrystalPaths(d) /\ Agents(d)' = Agents(d) /\ Boot(d)' = Boot(d)
      /\ CrystalDir(d)' = CrystalDir(d)
  BY DEF CrystalPaths, Agents, Boot, CrystalDir
<1>2. Boot(d) \in CrystalPaths(d)
  BY BootStaged
<1>3. \A p \in CrystalPaths(d) : Noted(p)' = Noted(p)
  BY DEF Noted
<1> DEFINE F(p, n) == [Text(d, IF p.lang = "" THEN Default(manifest[d]) ELSE p.lang, graph[d]) EXCEPT
                          !.verdict = verdict, !.notes = n]
<1>4. Crystals(d, manifest[d], graph[d], verdict) =
        Over(At(Agents(d), F(Boot(d), Noted(Boot(d)))), [p \in CrystalPaths(d) |-> F(p, Noted(p))])
  BY DEF Crystals, Noted, Agents, Boot, CrystalPaths
<1>5. Crystals(d, manifest[d], graph[d], verdict)' =
        Over(At(Agents(d)', F(Boot(d)', (Noted(Boot(d)))')), [p \in CrystalPaths(d)' |-> F(p, Noted(p)')])
  BY DEF Crystals, Noted, Agents, Boot, CrystalPaths
<1> HIDE DEF F
<1>6. \A p \in CrystalPaths(d) : F(p, Noted(p)') = F(p, Noted(p))
  BY <1>3 DEF F
<1> QED BY <1>1, <1>2, <1>4, <1>5, <1>6

LEMMA StagedSame ==
    ASSUME NEW d, NEW spec, NEW profile, NEW crystal, NEW verdict,
           UNCHANGED <<manifest, graph, active>>,
           ReportPresent(d)' <=> ReportPresent(d),
           spec \/ ExistingSpec(d, manifest[d])' = ExistingSpec(d, manifest[d]),
           crystal => Crystals(d, manifest[d], graph[d], verdict)' =
                        Crystals(d, manifest[d], graph[d], verdict)
    PROVE  Staged(d, spec, profile, crystal, verdict)' = Staged(d, spec, profile, crystal, verdict)
<1>1. SpecPart(d, spec)' = SpecPart(d, spec)
  BY DEF SpecPart
<1>2. Listed(d, spec)' = Listed(d, spec)
  BY <1>1 DEF Listed
<1>3. ViewParts(d, profile, verdict, Listed(d, spec))' = ViewParts(d, profile, verdict, Listed(d, spec))
  BY <1>2 DEF ViewParts
<1>4. ReportParts(d)' = ReportParts(d) /\ GraphParts(d, profile)' = GraphParts(d, profile)
  BY DEF ReportParts, GraphParts
<1>5. CrystalParts(d, crystal, verdict)' = CrystalParts(d, crystal, verdict)
  BY DEF CrystalParts
<1>6. Parts(d, spec, profile, crystal, verdict)' = Parts(d, spec, profile, crystal, verdict)
  BY <1>1, <1>3, <1>4, <1>5 DEF Parts
<1> QED BY <1>6, StagedParts DEF Staged, Parts, ViewParts, SpecPart, Listed, ReportParts, GraphParts,
                               CrystalParts

\* A step that leaves the bundle on disk, brings no report of another layout and
\* spares the SPEC documents of a run that renders none, leaves the render the same.
LEMMA Rerendered ==
    ASSUME NEW d, Settings(d), NEW spec, NEW profile, NEW crystal, NEW verdict,
           UNCHANGED <<manifest, graph, active>>,
           \A p \in DOMAIN Staged(d, spec, profile, crystal, verdict) :
              p \in DOMAIN disk' /\ disk'[p] = Staged(d, spec, profile, crystal, verdict)[p],
           \A p \in DOMAIN disk' \ DOMAIN Staged(d, spec, profile, crystal, verdict) :
              p.at = d /\ p.doc \in ReportDocs => p \in DOMAIN disk,
           ~spec => \A p : p.at = d /\ IsSpecPath(manifest[d], p) =>
                        /\ p \in DOMAIN disk' <=> p \in DOMAIN disk
                        /\ p \in DOMAIN disk => disk'[p] = disk[p]
    PROVE  Staged(d, spec, profile, crystal, verdict)' = Staged(d, spec, profile, crystal, verdict)
<1> DEFINE f == Staged(d, spec, profile, crystal, verdict)
           m == manifest[d]
<1>1. ReportPresent(d)' <=> ReportPresent(d)
  <2>1. ASSUME ReportPresent(d) PROVE ReportPresent(d)'
    BY <2>1, ReportStaged DEF ReportPresent, ReportDocs
  <2>2. ASSUME ReportPresent(d)' PROVE ReportPresent(d)
    <3>1. PICK p \in DOMAIN disk' : p.at = d /\ p.doc \in ReportDocs
      BY <2>2 DEF ReportPresent
    <3>2. CASE p \in DOMAIN f
      <4>1. Placed(p, d, spec, profile, crystal, verdict)
        BY <3>2, StagedPlaced
      <4>2. p.doc \notin ViewNames \cup SpecDocs \cup CrystalDocs \cup {"graph.json"}
        BY <3>1, NamesApart DEF ReportDocs, ReportViews
      <4> QED BY <4>1, <4>2 DEF Placed
    <3>3. CASE p \notin DOMAIN f
      BY <3>1, <3>3 DEF ReportPresent
    <3> QED BY <3>2, <3>3
  <2> QED BY <2>1, <2>2
<1>2. spec \/ ExistingSpec(d, m)' = ExistingSpec(d, m)
  <2> SUFFICES ASSUME ~spec PROVE ExistingSpec(d, m)' = ExistingSpec(d, m)
    OBVIOUS
  <2>1. m' = m
    OBVIOUS
  <2>2. CASE Localized(m)
    BY <2>1, <2>2 DEF ExistingSpec, IsGenerated
  <2>3. CASE ~Localized(m)
    <3> DEFINE q == Path(d, "SPEC", "")
    <3>1. q.at = d /\ IsSpecPath(m, q)
      BY <2>3, LanguageIs, SomeLanguage DEF Path, IsSpecPath, SpecDocs, Settings
    <3>2. q \in DOMAIN disk' <=> q \in DOMAIN disk
      BY <3>1
    <3> HIDE DEF q
    <3>3. ExistingSpec(d, m)' = {p \in DOMAIN disk' : p = q} /\ ExistingSpec(d, m) = {p \in DOMAIN disk : p = q}
      BY <2>1, <2>3 DEF ExistingSpec, q
    <3> QED BY <3>2, <3>3
  <2> QED BY <2>2, <2>3
<1>3. ASSUME crystal, NEW p \in CrystalPaths(d) PROVE Noted(p)' <=> Noted(p)
  <2> DEFINE part == Crystals(d, m, graph[d], verdict)
  <2>1. part \in Parts(d, spec, profile, crystal, verdict)
    BY <1>3 DEF Parts, CrystalParts
  <2>2. p \in DOMAIN part /\ part[p] = CrystalFile(d, verdict, p, Noted(p))
    <3>1. p \in DOMAIN part
      BY CrystalsDomain
    <3>2. part[p] = CrystalFile(d, verdict, p, Noted(p))
      BY CrystalIs
    <3> QED BY <3>1, <3>2
  <2> HIDE DEF part
  <2>3. p \in DOMAIN f /\ f[p] = CrystalFile(d, verdict, p, Noted(p))
    <3>1. \A q \in DOMAIN part : q \in DOMAIN f /\ f[q] = part[q]
      BY <2>1, StagedHolds
    <3> HIDE DEF f
    <3> QED BY <2>2, <3>1
  <2>4. p \in DOMAIN disk' /\ disk'[p] = CrystalFile(d, verdict, p, Noted(p))
    BY <2>3
  <2> DEFINE n == Noted(p)
             u == CrystalFile(d, verdict, p, n)
  <2>5. p \in DOMAIN disk' /\ disk'[p] = u
    BY <2>4
  <2> HIDE DEF n
  <2>6. u.by = "generated" /\ u.notes = n
    BY CrystalFileIs
  <2> HIDE DEF u
  <2>7. p \in DOMAIN disk' /\ disk'[p].by = "generated" /\ disk'[p].notes = n
    BY <2>5, <2>6
  <2> QED BY <2>7 DEF Noted, TemplateShaped, n
<1> QED BY <1>1, <1>2, <1>3, StagedSame, CrystalsSame

Embedding == {"live-state"} \cup CrystalDocs

LEMMA ViewEmbeds ==
    ASSUME NEW d, NEW m, NEW g, NEW l, NEW profile, NEW v, NEW w, NEW specs,
           NEW p \in DOMAIN LanguageDocs(d, m, g, l, profile, v, specs)
    PROVE  /\ p \in DOMAIN LanguageDocs(d, m, g, l, profile, w, specs)
           /\ LanguageDocs(d, m, g, l, profile, w, specs)[p] =
                IF p.doc = "live-state"
                THEN [LanguageDocs(d, m, g, l, profile, v, specs)[p] EXCEPT !.verdict = w]
                ELSE LanguageDocs(d, m, g, l, profile, v, specs)[p]
<1> DEFINE names == ViewDocs(g, profile)
                      \cup IF profile = Full THEN {"thinking"} \cup Framework ELSE {}
           at(x) == IF x \in Framework THEN "framework" ELSE d
           P == {DocumentPath(m, at(x), x, l) : x \in names}
           a == Text(d, l, g)
           u == [a EXCEPT !.lists = RepoMapLists(d, m, g, l, profile, specs)]
           b == Text(None, l, None)
           e(x) == [a EXCEPT !.verdict = x]
           t(q, x) == CASE q.doc = "REPO-MAP" -> u
                        [] q.doc = "live-state" -> e(x)
                        [] q.doc \in Framework \cup {"thinking"} -> b
                        [] OTHER -> a
           F(x) == [q \in P |-> t(q, x)]
<1>1. \A x : LanguageDocs(d, m, g, l, profile, x, specs) = F(x)
  BY DEF LanguageDocs
<1>2. [e(v) EXCEPT !.verdict = w] = e(w)
  <2> DEFINE r(x) == [by |-> a.by, of |-> a.of, lang |-> a.lang, graph |-> a.graph,
                      verdict |-> x, lists |-> a.lists, notes |-> a.notes]
  <2>1. IsFile(a)
    BY TextIs
  <2> HIDE DEF a
  <2>2. \A x : [a EXCEPT !.verdict = x] = r(x)
    BY <2>1, TextUpdate
  <2>3. [r(v) EXCEPT !.verdict = w] = r(w)
    OBVIOUS
  <2> HIDE DEF r
  <2> QED BY <2>2, <2>3, Zenon
<1>3. p \in P
  <2> HIDE DEF P, t
  <2> QED BY <1>1
<1> HIDE DEF P, u, e, a, b
<1>4. t(p, w) = IF p.doc = "live-state" THEN [t(p, v) EXCEPT !.verdict = w] ELSE t(p, v)
  <2>1. CASE p.doc = "live-state"
    <3>1. t(p, w) = e(w) /\ t(p, v) = e(v)
      BY <2>1 DEF Framework
    <3> HIDE DEF t
    <3> QED BY <1>2, <2>1, <3>1, Zenon
  <2>2. CASE p.doc # "live-state"
    BY <2>2
  <2> QED BY <2>1, <2>2
<1> HIDE DEF t
<1>5. p \in DOMAIN F(w) /\ F(w)[p] = t(p, w) /\ F(v)[p] = t(p, v)
  BY <1>3
<1> HIDE DEF F
<1>6. /\ p \in DOMAIN LanguageDocs(d, m, g, l, profile, w, specs)
      /\ LanguageDocs(d, m, g, l, profile, w, specs)[p] = t(p, w)
      /\ LanguageDocs(d, m, g, l, profile, v, specs)[p] = t(p, v)
  BY <1>1, <1>5
<1> QED BY <1>4, <1>6, Zenon

LEMMA CrystalEmbeds ==
    ASSUME NEW d, NEW v, NEW w, NEW p \in DOMAIN Crystals(d, manifest[d], graph[d], v)
    PROVE  /\ p \in DOMAIN Crystals(d, manifest[d], graph[d], w)
           /\ Crystals(d, manifest[d], graph[d], w)[p] =
                [Crystals(d, manifest[d], graph[d], v)[p] EXCEPT !.verdict = w]
<1> DEFINE f == Crystals(d, manifest[d], graph[d], v)
           g == Crystals(d, manifest[d], graph[d], w)
<1>1. DOMAIN f = {Agents(d)} \cup CrystalPaths(d) /\ DOMAIN g = {Agents(d)} \cup CrystalPaths(d)
  BY CrystalsDomain
<1>2. PICK q : f[p] = CrystalFile(d, v, q, Noted(q)) /\ g[p] = CrystalFile(d, w, q, Noted(q))
  <2>1. CASE p = Agents(d)
    BY <2>1, CrystalIs
  <2>2. CASE p \in CrystalPaths(d)
    <3>1. f[p] = CrystalFile(d, v, p, Noted(p))
      BY <2>2, CrystalIs
    <3>2. g[p] = CrystalFile(d, w, p, Noted(p))
      BY <2>2, CrystalIs
    <3> QED BY <3>1, <3>2
  <2> QED BY <1>1, <2>1, <2>2
<1>3. [CrystalFile(d, v, q, Noted(q)) EXCEPT !.verdict = w] = CrystalFile(d, w, q, Noted(q))
  BY CrystalFileIs
<1> HIDE DEF f, g
<1>4. g[p] = [f[p] EXCEPT !.verdict = w]
  BY <1>2, <1>3, Zenon
<1> QED BY <1>1, <1>4 DEF f, g

LEMMA EntryEmbeds ==
    ASSUME NEW d, Settings(d), NEW spec, NEW profile, NEW crystal, NEW v, NEW w,
           NEW p \in DOMAIN Staged(d, spec, profile, crystal, v)
    PROVE  /\ p \in DOMAIN Staged(d, spec, profile, crystal, w)
           /\ Staged(d, spec, profile, crystal, w)[p] =
                IF p.doc \in Embedding
                THEN [Staged(d, spec, profile, crystal, v)[p] EXCEPT !.verdict = w]
                ELSE Staged(d, spec, profile, crystal, v)[p]
<1> DEFINE f == Staged(d, spec, profile, crystal, v)
           g == Staged(d, spec, profile, crystal, w)
           F == Parts(d, spec, profile, crystal, v)
           G == Parts(d, spec, profile, crystal, w)
           Embeds(k, h) == /\ p \in DOMAIN h
                           /\ h[p] = IF p.doc \in Embedding THEN [k[p] EXCEPT !.verdict = w] ELSE k[p]
<1>1. PICK part \in F : p \in DOMAIN part
  BY StagedHolds
<1>2. \A k \in F : p \in DOMAIN k => f[p] = k[p]
  BY StagedHolds
<1>3. \A h \in G : p \in DOMAIN h => p \in DOMAIN g /\ g[p] = h[p]
  BY StagedHolds
<1>4. \E h \in G : Embeds(part, h)
  <2>1. CASE part \in ViewParts(d, profile, v, Listed(d, spec))
    <3> DEFINE L(l, x) == LanguageDocs(d, manifest[d], graph[d], l, profile, x, Listed(d, spec))
    <3>1. PICK l \in LanguagesForViews(manifest[d]) : part = L(l, v)
      BY <2>1 DEF ViewParts
    <3>2. L(l, w) \in G
      BY DEF Parts, ViewParts
    <3>3. /\ p \in DOMAIN L(l, w)
          /\ L(l, w)[p] = IF p.doc = "live-state" THEN [L(l, v)[p] EXCEPT !.verdict = w] ELSE L(l, v)[p]
      BY <1>1, <3>1, ViewEmbeds
    <3>4. p.doc \in ViewNames
      BY <1>1, <2>1, ViewPlaced
    <3>5. p.doc \in Embedding <=> p.doc = "live-state"
      BY <3>4, NamesApart DEF Embedding
    <3> HIDE DEF L, G
    <3>6. Embeds(L(l, v), L(l, w))
      BY <3>3, <3>5
    <3> HIDE DEF Embeds
    <3> QED BY <3>1, <3>2, <3>6
  <2>2. CASE part \in {SpecPart(d, spec)} \cup ReportParts(d) \cup GraphParts(d, profile)
    <3>1. part \in G
      BY <2>2 DEF Parts
    <3>2. p.doc \in SpecDocs \cup ReportViews \cup {"graph.json"}
      <4>1. CASE part = SpecPart(d, spec)
        BY <1>1, <4>1, SpecPartIs DEF InDocs
      <4>2. CASE part \in ReportParts(d)
        BY <1>1, <4>2, ReportPartsAre DEF InDocs
      <4>3. CASE part \in GraphParts(d, profile)
        <5> DEFINE q == Path(d, "graph.json", "")
                   t == Text(d, "", graph[d])
        <5>1. part = At(q, t)
          BY <4>3 DEF GraphParts
        <5>2. q.doc = "graph.json"
          BY DEF Path
        <5> HIDE DEF q, t
        <5>3. DOMAIN At(q, t) = {q}
          BY AtIs
        <5> QED BY <1>1, <5>1, <5>2, <5>3
      <4> QED BY <2>2, <4>1, <4>2, <4>3
    <3>3. p.doc \notin Embedding
      BY <3>2, NamesApart DEF Embedding, ViewNames, Views
    <3> HIDE DEF G, F
    <3> QED BY <1>1, <3>1, <3>3
  <2>3. CASE part \in CrystalParts(d, crystal, v)
    <3> DEFINE C(x) == Crystals(d, manifest[d], graph[d], x)
    <3>1. crystal /\ part = C(v)
      BY <2>3 DEF CrystalParts
    <3>2. C(w) \in G
      BY <3>1 DEF Parts, CrystalParts
    <3>3. p \in DOMAIN C(w) /\ C(w)[p] = [C(v)[p] EXCEPT !.verdict = w]
      BY <1>1, <3>1, CrystalEmbeds
    <3>4. p.doc \in Embedding
      BY <1>1, <3>1, CrystalsDomain DEF Embedding, CrystalDocs
    <3> HIDE DEF C, G
    <3>5. Embeds(C(v), C(w))
      BY <3>3, <3>4
    <3> HIDE DEF Embeds
    <3> QED BY <3>1, <3>2, <3>5
  <2> QED BY <1>1, <2>1, <2>2, <2>3 DEF Parts
<1> HIDE DEF f, g, F, G
<1>5. PICK h \in G : Embeds(part, h)
  BY <1>4
<1>6. f[p] = part[p] /\ p \in DOMAIN g /\ g[p] = h[p]
  BY <1>1, <1>2, <1>3, <1>5
<1>7. g[p] = IF p.doc \in Embedding THEN [f[p] EXCEPT !.verdict = w] ELSE f[p]
  BY <1>5, <1>6, Zenon
<1> QED BY <1>6, <1>7 DEF f, g

LEMMA SameFunction ==
    ASSUME NEW f, NEW g, NEW S, f = [x \in S |-> f[x]], g = [x \in S |-> g[x]],
           \A x \in S : f[x] = g[x]
    PROVE  f = g
  OBVIOUS

LEMMA MergeFunction == ASSUME NEW fs PROVE Merge(fs) = [p \in DOMAIN Merge(fs) |-> Merge(fs)[p]]
  BY DEF Merge

LEMMA OverFunction ==
    ASSUME NEW f, NEW g PROVE Over(f, g) = [p \in DOMAIN Over(f, g) |-> Over(f, g)[p]]
  BY DEF Over

\* The render of what the readers found is the bundle with that embedded in it.
LEMMA Reembedded ==
    ASSUME NEW d, Settings(d), NEW spec, NEW profile, NEW crystal, NEW v, NEW w, NEW f,
           f = Staged(d, spec, profile, crystal, v)
    PROVE  Staged(d, spec, profile, crystal, w) =
             Over([p \in {q \in DOMAIN f : q.doc \in Embedding} |-> [f[p] EXCEPT !.verdict = w]], f)
<1> DEFINE g == Staged(d, spec, profile, crystal, w)
           again == [p \in {q \in DOMAIN f : q.doc \in Embedding} |-> [f[p] EXCEPT !.verdict = w]]
           h == Over(again, f)
<1>1. \A p \in DOMAIN f :
        /\ p \in DOMAIN g
        /\ g[p] = IF p.doc \in Embedding THEN [f[p] EXCEPT !.verdict = w] ELSE f[p]
  BY EntryEmbeds
<1>2. DOMAIN g = DOMAIN f
  <2>1. \A p \in DOMAIN g : p \in DOMAIN f
    BY EntryEmbeds
  <2> QED BY <1>1, <2>1
<1>3. g = [p \in DOMAIN g |-> g[p]]
  BY StagedParts, MergeFunction
<1>4. h = [p \in DOMAIN h |-> h[p]]
  BY OverFunction
<1>5. DOMAIN again = {q \in DOMAIN f : q.doc \in Embedding}
      /\ \A p \in DOMAIN again : again[p] = [f[p] EXCEPT !.verdict = w]
  OBVIOUS
<1> HIDE DEF g, again
<1>6. /\ DOMAIN h = DOMAIN again \cup DOMAIN f
      /\ \A p \in DOMAIN again : h[p] = again[p]
      /\ \A p \in DOMAIN f \ DOMAIN again : h[p] = f[p]
  BY DEF Over
<1> HIDE DEF h
<1>7. ASSUME NEW p \in DOMAIN f PROVE h[p] = g[p]
  <2>1. CASE p.doc \in Embedding
    <3>1. p \in DOMAIN again
      BY <1>5, <2>1
    <3>2. h[p] = [f[p] EXCEPT !.verdict = w]
      BY <1>5, <1>6, <3>1, Zenon
    <3>3. g[p] = [f[p] EXCEPT !.verdict = w]
      BY <1>1, <2>1, Zenon
    <3> QED BY <3>2, <3>3, Zenon
  <2>2. CASE p.doc \notin Embedding
    <3>1. p \notin DOMAIN again
      BY <1>5, <2>2
    <3>2. h[p] = f[p]
      BY <1>6, <3>1
    <3>3. g[p] = f[p]
      BY <1>1, <2>2, Zenon
    <3> QED BY <3>2, <3>3, Zenon
  <2> QED BY <2>1, <2>2
<1>8. g = h
  BY <1>2, <1>3, <1>4, <1>5, <1>6, <1>7, SameFunction
<1> QED BY <1>8 DEF g, h, again

-----------------------------------------------------------------------------
(* The course of a run                                                      *)

Laid(f) == \A p \in DOMAIN f : p \in DOMAIN disk /\ disk[p] = f[p]

NotesLeft(d, crystal, f) ==
    \A p \in StaleCrystals(d, crystal, DOMAIN f) : disk[p] = NotesOnly

RawGone(d, f) ==
    (\E q \in DOMAIN f : q.doc = "EVIDENCE") => ~IsGenerated(Path(d, "evidence.json", ""))

\* The bundle is, at every moment, what rendering the run's input now would give.
Rendering ==
    /\ settled = <<run.d, run.spec, run.profile, run.crystal>>
    /\ run.crystal \/ ~ConventionExists
    /\ run.staged = Staged(run.d, run.spec, run.profile, run.crystal, run.verdict)

AfterFramework == {"evidence", "finished"}
AfterGen == {"framework"} \cup AfterFramework
AfterShards == {"gen"} \cup AfterGen
AfterRaw == {"spec"} \cup AfterShards
AfterCrystals == {"raw"} \cup AfterRaw
Converged == {"crystals"} \cup AfterCrystals

Course ==
    run.pc # "idle" =>
        /\ Rendering
        /\ run.pc # "publish" => Laid(run.staged)
        /\ run.pc \in Converged => run.verdict = FoundByReaders(run.d)
        /\ run.pc \in AfterCrystals => NotesLeft(run.d, run.crystal, run.staged)
        /\ run.pc \in AfterRaw => RawGone(run.d, run.staged)
        /\ run.pc \in AfterShards /\ run.spec => StaleShards(run.d, DOMAIN run.staged) = {}
        /\ run.pc \in AfterGen =>
              StaleGenFiles(run.d, manifest[run.d], DOMAIN run.staged, run.spec) = {}
        /\ run.pc \in AfterFramework =>
              StaleFrameworkFiles(run.d, manifest[run.d], run.profile, DOMAIN run.staged) = {}
        /\ run.pc = "finished" =>
              StaleEvidenceViews(run.d, manifest[run.d], DOMAIN run.staged) = {}

Steady(p) ==
    /\ p \in DOMAIN disk' <=> p \in DOMAIN disk
    /\ p \in DOMAIN disk => disk'[p] = disk[p]

Shrinks == DOMAIN disk' \subseteq DOMAIN disk /\ \A p \in DOMAIN disk' : disk'[p] = disk[p]

LEMMA ReadersSame ==
    ASSUME NEW d, UNCHANGED reads, Steady(Path(d, "CLAUDE", "")), Steady(Path("root", "CLAUDE", ""))
    PROVE  FoundByReaders(d)' = FoundByReaders(d)
<1> DEFINE p == Path(d, "CLAUDE", "")
           q == Path("root", "CLAUDE", "")
<1>1. FoundByReaders(d) =
        reads[<<IF (IF p \in DOMAIN disk THEN p ELSE q) \in DOMAIN disk
                THEN disk[IF p \in DOMAIN disk THEN p ELSE q].verdict ELSE None,
                IF q \in DOMAIN disk THEN disk[q].verdict ELSE None>>]
  BY DEF FoundByReaders
<1>2. FoundByReaders(d)' =
        reads'[<<IF (IF p \in DOMAIN disk' THEN p ELSE q) \in DOMAIN disk'
                 THEN disk'[IF p \in DOMAIN disk' THEN p ELSE q].verdict ELSE None,
                 IF q \in DOMAIN disk' THEN disk'[q].verdict ELSE None>>]
  BY DEF FoundByReaders
<1> HIDE DEF p, q
<1>3. Steady(p) /\ Steady(q)
  BY DEF p, q
<1>4. (IF q \in DOMAIN disk' THEN disk'[q].verdict ELSE None)
        = (IF q \in DOMAIN disk THEN disk[q].verdict ELSE None)
  BY <1>3 DEF Steady
<1>5. (IF p \in DOMAIN disk' THEN p ELSE q) = (IF p \in DOMAIN disk THEN p ELSE q)
  BY <1>3 DEF Steady
<1> DEFINE x == IF p \in DOMAIN disk THEN p ELSE q
<1>6. Steady(x)
  BY <1>3
<1> HIDE DEF x
<1>7. (IF x \in DOMAIN disk' THEN disk'[x].verdict ELSE None)
        = (IF x \in DOMAIN disk THEN disk[x].verdict ELSE None)
  BY <1>6 DEF Steady
<1> QED BY <1>1, <1>2, <1>4, <1>5, <1>7 DEF x

LEMMA MovedRest ==
    ASSUME IsRun(run), NEW x, run' = [run EXCEPT !.pc = x]
    PROVE  /\ run'.spec = run.spec /\ run'.profile = run.profile /\ run'.crystal = run.crystal
           /\ run'.verdict = run.verdict /\ run'.again = run.again /\ run'.before = run.before
<1>1. run' = [pc |-> x, d |-> run.d, spec |-> run.spec, profile |-> run.profile,
              crystal |-> run.crystal, staged |-> run.staged, verdict |-> run.verdict,
              renders |-> run.renders, again |-> run.again, before |-> run.before]
  BY RunMoves
<1> QED BY <1>1

\* What a run's steps after the convergence have in common.
LEMMA RenderingKept ==
    ASSUME Inv, run.pc # "idle", Rendering, NEW x, run' = [run EXCEPT !.pc = x],
           UNCHANGED <<project, graph, manifest, active, settled>>,
           \A p \in DOMAIN run.staged : p \in DOMAIN disk' /\ disk'[p] = run.staged[p],
           \A p \in DOMAIN disk' \ DOMAIN run.staged : p \in DOMAIN disk,
           Path("root", "CLAUDE", "") \in DOMAIN disk' /\ ~run.crystal =>
              Path("root", "CLAUDE", "") \in DOMAIN disk,
           ~run.spec => \A p : p.at = run.d /\ IsSpecPath(manifest[run.d], p) => Steady(p)
    PROVE  Rendering' /\ Laid(run.staged)'
<1>1. /\ run'.d = run.d /\ run'.spec = run.spec /\ run'.profile = run.profile
      /\ run'.crystal = run.crystal /\ run'.verdict = run.verdict /\ run'.staged = run.staged
  BY MovedRun, MovedRest DEF Inv, Bundle
<1>2. Settings(run.d)
  BY OfDomain DEF Inv, Bundle, Settings
<1>3. ASSUME NEW d, NEW spec, NEW profile, NEW crystal, NEW v,
             d = run.d, spec = run.spec, profile = run.profile, crystal = run.crystal, v = run.verdict
      PROVE  Staged(d, spec, profile, crystal, v)' = run.staged
  <2>1. run.staged = Staged(d, spec, profile, crystal, v)
    BY <1>3 DEF Rendering
  <2>2. Settings(d)
    BY <1>2, <1>3
  <2>3. ~spec => \A p : p.at = d /\ IsSpecPath(manifest[d], p) =>
                    /\ p \in DOMAIN disk' <=> p \in DOMAIN disk
                    /\ p \in DOMAIN disk => disk'[p] = disk[p]
    BY <1>3 DEF Steady
  <2> QED BY <2>1, <2>2, <2>3, Rerendered
<1>4. Staged(run.d, run.spec, run.profile, run.crystal, run.verdict)' = run.staged
  <2> PICK d, spec, profile, crystal, v :
        d = run.d /\ spec = run.spec /\ profile = run.profile /\ crystal = run.crystal /\ v = run.verdict
    OBVIOUS
  <2>1. Staged(d, spec, profile, crystal, v)' = run.staged
    BY <1>3
  <2>2. d = run'.d /\ spec = run'.spec /\ profile = run'.profile /\ crystal = run'.crystal
        /\ v = run'.verdict
    BY <1>1
  <2> QED BY ONLY <2>1, <2>2, Zenon
<1>5. run.crystal \/ ~ConventionExists'
  BY DEF Rendering, ConventionExists, Here
<1>6. Laid(run.staged)'
  BY <1>1 DEF Laid
<1> QED BY <1>1, <1>4, <1>5, <1>6 DEF Rendering

LEMMA ShrinkStale ==
    ASSUME Shrinks, UNCHANGED <<project, manifest, active>>, NEW d, NEW m, NEW w, NEW spec, NEW profile
    PROVE  /\ StaleShards(d, w)' \subseteq StaleShards(d, w)
           /\ StaleGenFiles(d, m, w, spec)' \subseteq StaleGenFiles(d, m, w, spec)
           /\ StaleFrameworkFiles(d, m, profile, w)' \subseteq StaleFrameworkFiles(d, m, profile, w)
           /\ StaleEvidenceViews(d, m, w)' \subseteq StaleEvidenceViews(d, m, w)
<1>1. \A p \in DOMAIN disk' : p \in DOMAIN disk /\ (IsGenerated(p)' <=> IsGenerated(p))
  BY DEF Shrinks, IsGenerated
<1>2. \A p \in DOMAIN disk' : Owned(m, p)' <=> Owned(m, p)
  BY <1>1 DEF Owned
<1>3. Here' = Here
  BY DEF Here
<1>4. StaleShards(d, w)' \subseteq StaleShards(d, w)
  BY <1>1 DEF StaleShards
<1>5. StaleGenFiles(d, m, w, spec)' \subseteq StaleGenFiles(d, m, w, spec)
  BY <1>1, <1>2 DEF StaleGenFiles
<1>6. StaleFrameworkFiles(d, m, profile, w)' \subseteq StaleFrameworkFiles(d, m, profile, w)
  <2>1. (HasOtherFullProfile(d)' <=> HasOtherFullProfile(d)) /\ (UsesFullProfile' <=> UsesFullProfile)
    BY <1>3 DEF HasOtherFullProfile, UsesFullProfile
  <2>2. CASE IF profile = Full THEN HasOtherFullProfile(d) ELSE UsesFullProfile
    BY <2>1, <2>2 DEF StaleFrameworkFiles
  <2>3. CASE ~(IF profile = Full THEN HasOtherFullProfile(d) ELSE UsesFullProfile)
    BY <1>1, <1>2, <2>1, <2>3 DEF StaleFrameworkFiles
  <2> QED BY <2>2, <2>3
<1>7. StaleEvidenceViews(d, m, w)' \subseteq StaleEvidenceViews(d, m, w)
  BY <1>1 DEF StaleEvidenceViews
<1> QED BY <1>4, <1>5, <1>6, <1>7

LEMMA ShrinkNotes ==
    ASSUME Shrinks, UNCHANGED <<project, active>>, NEW d, NEW crystal, NEW f,
           crystal \/ ~ConventionExists, NotesLeft(d, crystal, f)
    PROVE  NotesLeft(d, crystal, f)'
<1>1. \A p \in DOMAIN disk' : TemplateShaped(p)' <=> TemplateShaped(p)
  BY DEF Shrinks, TemplateShaped
<1>2. ~ConventionExists => ~ConventionExists'
  BY DEF ConventionExists, Here, Shrinks
<1>3. CrystalDir(d)' = CrystalDir(d)
  BY DEF CrystalDir
<1>4. \A p \in StaleCrystals(d, crystal, DOMAIN f)' : p \in StaleCrystals(d, crystal, DOMAIN f)
  <2> DEFINE stale(D) == {p \in DOMAIN disk \ DOMAIN f :
                            p.at \in D /\ p.doc = "CLAUDE" /\ p.lang \in Locales /\ TemplateShaped(p)}
             left(D) == {p \in DOMAIN disk' \ DOMAIN f :
                            p.at \in D /\ p.doc = "CLAUDE" /\ p.lang \in Locales /\ TemplateShaped(p)'}
  <2>1. \A D : left(D) \subseteq stale(D)
    BY <1>1 DEF Shrinks
  <2>4. /\ StaleCrystals(d, crystal, DOMAIN f) =
             stale(IF crystal THEN {CrystalDir(d)} ELSE IF ConventionExists THEN {} ELSE {"root", d})
        /\ StaleCrystals(d, crystal, DOMAIN f)' =
             left(IF crystal THEN {CrystalDir(d)'} ELSE IF ConventionExists' THEN {} ELSE {"root", d})
    BY DEF StaleCrystals
  <2>5. (IF crystal THEN {CrystalDir(d)'} ELSE IF ConventionExists' THEN {} ELSE {"root", d})
          = (IF crystal THEN {CrystalDir(d)} ELSE IF ConventionExists THEN {} ELSE {"root", d})
    BY <1>2, <1>3
  <2> HIDE DEF stale, left
  <2> QED BY <2>1, <2>4, <2>5
<1>5. \A p \in StaleCrystals(d, crystal, DOMAIN f)' : p \in DOMAIN disk'
  BY DEF StaleCrystals
<1> QED BY <1>4, <1>5 DEF NotesLeft, Shrinks

LEMMA ShrinkRaw ==
    ASSUME Shrinks, NEW d, NEW f, RawGone(d, f)
    PROVE  RawGone(d, f)'
  BY DEF Shrinks, RawGone, IsGenerated

\* What the previous steps of a run achieved outlives a cleanup.
Achieved ==
    /\ Rendering /\ Laid(run.staged) /\ run.verdict = FoundByReaders(run.d)
    /\ NotesLeft(run.d, run.crystal, run.staged)
    /\ run.pc \in AfterRaw => RawGone(run.d, run.staged)
    /\ run.pc \in AfterShards /\ run.spec => StaleShards(run.d, DOMAIN run.staged) = {}
    /\ run.pc \in AfterGen => StaleGenFiles(run.d, manifest[run.d], DOMAIN run.staged, run.spec) = {}
    /\ run.pc \in AfterFramework =>
          StaleFrameworkFiles(run.d, manifest[run.d], run.profile, DOMAIN run.staged) = {}

\* neither of the bundle nor a crystal nor a SPEC document the run may not touch
Leftover(stale) ==
    \A p \in stale \cap DOMAIN disk :
        /\ p \notin DOMAIN run.staged /\ p.doc # "CLAUDE"
        /\ ~run.spec => ~(p.at = run.d /\ IsSpecPath(manifest[run.d], p))

LEMMA CleanCourse ==
    ASSUME Inv, Achieved, NEW pc, NEW next, NEW stale, Clean(pc, next, stale), pc # "idle",
           Leftover(stale)
    PROVE  /\ run'.pc = next /\ run'.d = run.d /\ run'.spec = run.spec /\ run'.profile = run.profile
           /\ run'.crystal = run.crystal /\ run'.staged = run.staged
           /\ run'.again = run.again /\ run'.before = run.before /\ run'.verdict = run.verdict
           /\ Rendering' /\ Laid(run.staged)' /\ (run.verdict = FoundByReaders(run.d))'
           /\ NotesLeft(run.d, run.crystal, run.staged)'
           /\ RawGone(run.d, run.staged) => RawGone(run.d, run.staged)'
           /\ StaleShards(run.d, DOMAIN run.staged)' \subseteq StaleShards(run.d, DOMAIN run.staged)
           /\ StaleGenFiles(run.d, manifest[run.d], DOMAIN run.staged, run.spec)'
                \subseteq StaleGenFiles(run.d, manifest[run.d], DOMAIN run.staged, run.spec)
           /\ StaleFrameworkFiles(run.d, manifest[run.d], run.profile, DOMAIN run.staged)'
                \subseteq StaleFrameworkFiles(run.d, manifest[run.d], run.profile, DOMAIN run.staged)
           /\ StaleEvidenceViews(run.d, manifest[run.d], DOMAIN run.staged)'
                \subseteq StaleEvidenceViews(run.d, manifest[run.d], DOMAIN run.staged)
           /\ DOMAIN disk' = DOMAIN disk \ stale /\ Shrinks
<1>1. /\ UNCHANGED <<project, graph, manifest, active, reads, settled>> /\ run.pc = pc
      /\ disk' = Drop(disk, stale) /\ run' = [run EXCEPT !.pc = next]
  BY DEF Clean, Unchanged
<1>2. /\ run'.pc = next /\ run'.d = run.d /\ run'.spec = run.spec /\ run'.profile = run.profile
      /\ run'.crystal = run.crystal /\ run'.staged = run.staged
      /\ run'.again = run.again /\ run'.before = run.before /\ run'.verdict = run.verdict
  BY <1>1, MovedRun, MovedRest DEF Inv, Bundle
<1>3. /\ DOMAIN disk' = DOMAIN disk \ stale
      /\ \A p \in DOMAIN disk \ stale : disk'[p] = disk[p]
  BY <1>1 DEF Drop
<1>4. Shrinks
  BY <1>3 DEF Shrinks
<1>5. \A p \in DOMAIN run.staged : p \in DOMAIN disk' /\ disk'[p] = run.staged[p]
  BY <1>3 DEF Achieved, Laid, Leftover
<1>6. \A p : p.doc = "CLAUDE" => Steady(p)
  BY <1>3 DEF Steady, Leftover
<1>7. ~run.spec => \A p : p.at = run.d /\ IsSpecPath(manifest[run.d], p) => Steady(p)
  BY <1>3 DEF Steady, Leftover
<1>8. Rendering' /\ Laid(run.staged)'
  <2>1. \A p \in DOMAIN disk' : p \in DOMAIN disk
    BY <1>3
  <2> QED BY <1>1, <1>5, <1>7, <2>1, RenderingKept DEF Achieved
<1>9. (run.verdict = FoundByReaders(run.d))'
  <2>1. Path(run.d, "CLAUDE", "").doc = "CLAUDE" /\ Path("root", "CLAUDE", "").doc = "CLAUDE"
    BY DEF Path
  <2>2. ASSUME NEW d, d = run.d PROVE FoundByReaders(d)' = FoundByReaders(d)
    BY <1>1, <1>6, <2>1, <2>2, ReadersSame
  <2> QED BY <1>2, <2>2 DEF Achieved
<1> PICK d, spec, profile, crystal, f, m :
        /\ d = run.d /\ spec = run.spec /\ profile = run.profile /\ crystal = run.crystal
        /\ f = run.staged /\ m = manifest[d]
  OBVIOUS
<1>10. /\ d = run'.d /\ spec = run'.spec /\ profile = run'.profile /\ crystal = run'.crystal
       /\ f = run'.staged /\ m = manifest'[d]
  BY <1>1, <1>2
<1>11. /\ StaleShards(d, DOMAIN f)' \subseteq StaleShards(d, DOMAIN f)
       /\ StaleGenFiles(d, m, DOMAIN f, spec)' \subseteq StaleGenFiles(d, m, DOMAIN f, spec)
       /\ StaleFrameworkFiles(d, m, profile, DOMAIN f)' \subseteq StaleFrameworkFiles(d, m, profile, DOMAIN f)
       /\ StaleEvidenceViews(d, m, DOMAIN f)' \subseteq StaleEvidenceViews(d, m, DOMAIN f)
  BY <1>1, <1>4, ShrinkStale
<1>12. NotesLeft(d, crystal, f)'
  <2>1. NotesLeft(d, crystal, f) /\ (crystal \/ ~ConventionExists)
    BY DEF Achieved, Rendering
  <2> QED BY <1>1, <1>4, <2>1, ShrinkNotes
<1>13. RawGone(d, f) => RawGone(d, f)'
  BY <1>4, ShrinkRaw
<1> QED BY <1>2, <1>3, <1>4, <1>8, <1>9, <1>10, <1>11, <1>12, <1>13

LEMMA CourseAchieved ==
    ASSUME Course, run.pc \in AfterCrystals
    PROVE  Achieved
  BY DEF Course, Achieved, AfterCrystals, AfterRaw, AfterShards, AfterGen, AfterFramework, Converged

LEMMA RunPlaced ==
    ASSUME Inv, Rendering, run.pc # "idle", NEW p \in DOMAIN run.staged
    PROVE  Placed(p, run.d, run.spec, run.profile, run.crystal, run.verdict)
<1>1. Settings(run.d)
  BY OfDomain DEF Inv, Bundle, Settings
<1> QED BY <1>1, StagedPlaced DEF Rendering

LEMMA CleanRawCourse == ASSUME Inv, Course, CleanRaw PROVE Course'
<1> DEFINE raw == Path(run.d, "evidence.json", "")
           stale == {p \in {raw} : IsGenerated(p) /\ \E q \in DOMAIN run.staged : q.doc = "EVIDENCE"}
<1>1. Clean("raw", "spec", stale) /\ run.pc = "raw"
  BY DEF CleanRaw, Clean
<1>2. Achieved
  BY <1>1, CourseAchieved DEF AfterCrystals
<1>3. raw.doc = "evidence.json"
  BY DEF Path
<1>4. raw \notin DOMAIN run.staged
  <2>1. ASSUME raw \in DOMAIN run.staged PROVE FALSE
    <3>1. Placed(raw, run.d, run.spec, run.profile, run.crystal, run.verdict)
      BY <1>1, <1>2, <2>1, RunPlaced DEF Achieved
    <3> HIDE DEF raw
    <3> QED BY <1>3, <3>1, NamesApart DEF Placed
  <2> QED BY <2>1
<1>5. \A p \in stale : p = raw
  OBVIOUS
<1>6. "evidence.json" \notin SpecDocs /\ "evidence.json" # "CLAUDE"
  BY NamesApart
<1>7. Leftover(stale)
  BY <1>3, <1>4, <1>5, <1>6 DEF IsSpecPath, Leftover
<1>8. /\ run'.pc = "spec" /\ run'.d = run.d /\ run'.staged = run.staged
      /\ Rendering' /\ Laid(run.staged)' /\ (run.verdict = FoundByReaders(run.d))'
      /\ NotesLeft(run.d, run.crystal, run.staged)' /\ DOMAIN disk' = DOMAIN disk \ stale /\ Shrinks
  <2> HIDE DEF stale
  <2> QED BY <1>1, <1>2, <1>7, CleanCourse
<1>9. RawGone(run.d, run.staged)'
  <2> PICK d, f : d = run.d /\ f = run.staged
    OBVIOUS
  <2>1. d = run'.d /\ f = run'.staged
    BY <1>8
  <2>2. RawGone(d, f)'
    <3> DEFINE q == Path(d, "evidence.json", "")
    <3>1. q = raw
      OBVIOUS
    <3>2. (\E x \in DOMAIN f : x.doc = "EVIDENCE") /\ IsGenerated(q) => q \in stale
      OBVIOUS
    <3> HIDE DEF q, stale
    <3>3. (\E x \in DOMAIN f : x.doc = "EVIDENCE") => ~IsGenerated(q)'
      BY <1>8, <3>2 DEF Shrinks, IsGenerated
    <3> QED BY <3>3 DEF RawGone, q
  <2> QED BY <2>1, <2>2
<1> QED BY <1>8, <1>9 DEF Course, AfterCrystals, AfterRaw, AfterShards, AfterGen, AfterFramework

LEMMA CleanShardsCourse == ASSUME Inv, Course, CleanShards PROVE Course'
<1> DEFINE stale == IF run.spec THEN StaleShards(run.d, DOMAIN run.staged) ELSE {}
<1>1. Clean("spec", "gen", stale) /\ run.pc = "spec"
  BY DEF CleanShards, Clean
<1>2. Achieved /\ RawGone(run.d, run.staged)
  BY <1>1, CourseAchieved DEF AfterCrystals, AfterRaw, Achieved
<1>3. \A p \in stale : /\ run.spec /\ p \in DOMAIN disk /\ p \notin DOMAIN run.staged /\ p.doc \in Packages
  BY DEF StaleShards
<1>4. "CLAUDE" \notin Packages
  BY PublicationAssumption DEF CrystalDocs
<1>5. run.spec => StaleShards(run.d, DOMAIN run.staged) \subseteq stale
  OBVIOUS
<1> HIDE DEF stale
<1>6. Leftover(stale)
  BY <1>3, <1>4 DEF Leftover
<1>7. /\ run'.pc = "gen" /\ run'.d = run.d /\ run'.staged = run.staged /\ run'.spec = run.spec
      /\ Rendering' /\ Laid(run.staged)' /\ (run.verdict = FoundByReaders(run.d))'
      /\ NotesLeft(run.d, run.crystal, run.staged)'
      /\ RawGone(run.d, run.staged) => RawGone(run.d, run.staged)'
      /\ StaleShards(run.d, DOMAIN run.staged)' \subseteq StaleShards(run.d, DOMAIN run.staged)
      /\ DOMAIN disk' = DOMAIN disk \ stale
  BY <1>1, <1>2, <1>6, CleanCourse
<1>8. run'.spec => StaleShards(run.d, DOMAIN run.staged)' = {}
  <2>1. StaleShards(run.d, DOMAIN run.staged)' \subseteq DOMAIN disk'
    BY DEF StaleShards
  <2> QED BY <1>5, <1>7, <2>1
<1> QED BY <1>2, <1>7, <1>8
        DEF Course, AfterCrystals, AfterRaw, AfterShards, AfterGen, AfterFramework

LEMMA CleanGenFilesCourse == ASSUME Inv, Course, CleanGenFiles PROVE Course'
<1> DEFINE m == manifest[run.d]
           stale == StaleGenFiles(run.d, m, DOMAIN run.staged, run.spec)
<1>1. Clean("gen", "framework", stale) /\ run.pc = "gen"
  BY DEF CleanGenFiles, Clean
<1>2. Achieved /\ RawGone(run.d, run.staged) /\ (run.spec => StaleShards(run.d, DOMAIN run.staged) = {})
  BY <1>1, CourseAchieved DEF AfterCrystals, AfterRaw, AfterShards, Achieved
<1>3. \A p \in stale : /\ p \in DOMAIN disk /\ p \notin DOMAIN run.staged /\ p.doc # "CLAUDE"
                       /\ ~run.spec => ~IsSpecPath(m, p)
  <2>1. "CLAUDE" \notin DomainDocs
    BY PublicationAssumption DEF DomainDocs, SpecDocs, Views, ReportDocs, CrystalDocs
  <2> QED BY <2>1 DEF StaleGenFiles
<1>4. stale = StaleGenFiles(run.d, manifest[run.d], DOMAIN run.staged, run.spec)
  OBVIOUS
<1> HIDE DEF stale
<1>5. Leftover(stale)
  BY <1>3 DEF Leftover
<1>6. /\ run'.pc = "framework" /\ run'.d = run.d /\ run'.staged = run.staged /\ run'.spec = run.spec
      /\ Rendering' /\ Laid(run.staged)' /\ (run.verdict = FoundByReaders(run.d))'
      /\ NotesLeft(run.d, run.crystal, run.staged)'
      /\ RawGone(run.d, run.staged) => RawGone(run.d, run.staged)'
      /\ StaleShards(run.d, DOMAIN run.staged)' \subseteq StaleShards(run.d, DOMAIN run.staged)
      /\ StaleGenFiles(run.d, manifest[run.d], DOMAIN run.staged, run.spec)'
           \subseteq StaleGenFiles(run.d, manifest[run.d], DOMAIN run.staged, run.spec)
      /\ DOMAIN disk' = DOMAIN disk \ stale
  BY <1>1, <1>2, <1>5, CleanCourse
<1>7. StaleGenFiles(run.d, manifest[run.d], DOMAIN run.staged, run.spec)' = {}
  <2>1. StaleGenFiles(run.d, manifest[run.d], DOMAIN run.staged, run.spec)' \subseteq DOMAIN disk'
    BY DEF StaleGenFiles
  <2> QED BY <1>4, <1>6, <2>1
<1>8. run'.spec => StaleShards(run.d, DOMAIN run.staged)' = {}
  BY <1>2, <1>6
<1> QED BY <1>2, <1>6, <1>7, <1>8
        DEF Course, AfterCrystals, AfterRaw, AfterShards, AfterGen, AfterFramework

LEMMA CleanFrameworkCourse == ASSUME Inv, Course, CleanFramework PROVE Course'
<1> DEFINE stale == StaleFrameworkFiles(run.d, manifest[run.d], run.profile, DOMAIN run.staged)
<1>1. Clean("framework", "evidence", stale) /\ run.pc = "framework"
  BY DEF CleanFramework, Clean
<1>2. /\ Achieved /\ RawGone(run.d, run.staged) /\ (run.spec => StaleShards(run.d, DOMAIN run.staged) = {})
      /\ StaleGenFiles(run.d, manifest[run.d], DOMAIN run.staged, run.spec) = {}
  BY <1>1, CourseAchieved DEF AfterCrystals, AfterRaw, AfterShards, AfterGen, Achieved
<1>3. \A p \in stale : /\ p \in DOMAIN disk /\ p \notin DOMAIN run.staged
                       /\ p.doc # "CLAUDE" /\ p.at = "framework"
  BY DEF StaleFrameworkFiles, Framework
<1>4. stale = StaleFrameworkFiles(run.d, manifest[run.d], run.profile, DOMAIN run.staged)
  OBVIOUS
<1> HIDE DEF stale
<1>5. Leftover(stale)
  <2>1. run.d # "framework"
    BY <1>1, OfDomain DEF Inv, Bundle
  <2> QED BY <1>3, <2>1 DEF Leftover
<1>6. /\ run'.pc = "evidence" /\ run'.d = run.d /\ run'.staged = run.staged /\ run'.spec = run.spec
      /\ Rendering' /\ Laid(run.staged)' /\ (run.verdict = FoundByReaders(run.d))'
      /\ NotesLeft(run.d, run.crystal, run.staged)'
      /\ RawGone(run.d, run.staged) => RawGone(run.d, run.staged)'
      /\ StaleShards(run.d, DOMAIN run.staged)' \subseteq StaleShards(run.d, DOMAIN run.staged)
      /\ StaleGenFiles(run.d, manifest[run.d], DOMAIN run.staged, run.spec)'
           \subseteq StaleGenFiles(run.d, manifest[run.d], DOMAIN run.staged, run.spec)
      /\ StaleFrameworkFiles(run.d, manifest[run.d], run.profile, DOMAIN run.staged)'
           \subseteq StaleFrameworkFiles(run.d, manifest[run.d], run.profile, DOMAIN run.staged)
      /\ DOMAIN disk' = DOMAIN disk \ stale
  BY <1>1, <1>2, <1>5, CleanCourse
<1>7. StaleFrameworkFiles(run.d, manifest[run.d], run.profile, DOMAIN run.staged)' = {}
  <2>1. StaleFrameworkFiles(run.d, manifest[run.d], run.profile, DOMAIN run.staged)' \subseteq DOMAIN disk'
    BY DEF StaleFrameworkFiles
  <2> QED BY <1>4, <1>6, <2>1
<1>8. /\ run'.spec => StaleShards(run.d, DOMAIN run.staged)' = {}
      /\ StaleGenFiles(run.d, manifest[run.d], DOMAIN run.staged, run.spec)' = {}
  BY <1>2, <1>6
<1> QED BY <1>2, <1>6, <1>7, <1>8
        DEF Course, AfterCrystals, AfterRaw, AfterShards, AfterGen, AfterFramework

LEMMA CleanEvidenceCourse == ASSUME Inv, Course, CleanEvidence PROVE Course'
<1> DEFINE stale == StaleEvidenceViews(run.d, manifest[run.d], DOMAIN run.staged)
<1>1. Clean("evidence", "finished", stale) /\ run.pc = "evidence"
  BY DEF CleanEvidence, Clean
<1>2. /\ Achieved /\ RawGone(run.d, run.staged) /\ (run.spec => StaleShards(run.d, DOMAIN run.staged) = {})
      /\ StaleGenFiles(run.d, manifest[run.d], DOMAIN run.staged, run.spec) = {}
      /\ StaleFrameworkFiles(run.d, manifest[run.d], run.profile, DOMAIN run.staged) = {}
  BY <1>1, CourseAchieved
     DEF AfterCrystals, AfterRaw, AfterShards, AfterGen, AfterFramework, Achieved
<1>3. \A p \in stale : p \in DOMAIN disk /\ p \notin DOMAIN run.staged /\ p.doc = "EVIDENCE"
  BY DEF StaleEvidenceViews
<1>4. stale = StaleEvidenceViews(run.d, manifest[run.d], DOMAIN run.staged)
  OBVIOUS
<1> HIDE DEF stale
<1>5. Leftover(stale)
  <2>1. "EVIDENCE" \notin SpecDocs
    BY NamesApart DEF ReportViews
  <2> QED BY <1>3, <2>1 DEF Leftover, IsSpecPath
<1>6. /\ run'.pc = "finished" /\ run'.d = run.d /\ run'.staged = run.staged /\ run'.spec = run.spec
      /\ Rendering' /\ Laid(run.staged)' /\ (run.verdict = FoundByReaders(run.d))'
      /\ NotesLeft(run.d, run.crystal, run.staged)'
      /\ RawGone(run.d, run.staged) => RawGone(run.d, run.staged)'
      /\ StaleShards(run.d, DOMAIN run.staged)' \subseteq StaleShards(run.d, DOMAIN run.staged)
      /\ StaleGenFiles(run.d, manifest[run.d], DOMAIN run.staged, run.spec)'
           \subseteq StaleGenFiles(run.d, manifest[run.d], DOMAIN run.staged, run.spec)
      /\ StaleFrameworkFiles(run.d, manifest[run.d], run.profile, DOMAIN run.staged)'
           \subseteq StaleFrameworkFiles(run.d, manifest[run.d], run.profile, DOMAIN run.staged)
      /\ StaleEvidenceViews(run.d, manifest[run.d], DOMAIN run.staged)'
           \subseteq StaleEvidenceViews(run.d, manifest[run.d], DOMAIN run.staged)
      /\ DOMAIN disk' = DOMAIN disk \ stale
  BY <1>1, <1>2, <1>5, CleanCourse
<1>7. StaleEvidenceViews(run.d, manifest[run.d], DOMAIN run.staged)' = {}
  <2>1. StaleEvidenceViews(run.d, manifest[run.d], DOMAIN run.staged)' \subseteq DOMAIN disk'
    BY DEF StaleEvidenceViews
  <2> QED BY <1>4, <1>6, <2>1
<1>8. /\ run'.spec => StaleShards(run.d, DOMAIN run.staged)' = {}
      /\ StaleGenFiles(run.d, manifest[run.d], DOMAIN run.staged, run.spec)' = {}
      /\ StaleFrameworkFiles(run.d, manifest[run.d], run.profile, DOMAIN run.staged)' = {}
  BY <1>2, <1>6
<1> QED BY <1>2, <1>6, <1>7, <1>8
        DEF Course, AfterCrystals, AfterRaw, AfterShards, AfterGen, AfterFramework

\* A crystal of a retired language keeps its notes alone.
LEMMA CleanCrystalsCourse == ASSUME Inv, Course, CleanCrystals PROVE Course'
<1> DEFINE stale == StaleCrystals(run.d, run.crystal, DOMAIN run.staged)
           noted == {p \in stale : disk[p].notes}
<1>1. /\ run.pc = "crystals" /\ UNCHANGED <<project, graph, manifest, active, reads, settled>>
      /\ disk' = Over([p \in noted |-> NotesOnly], Drop(disk, stale))
      /\ run' = [run EXCEPT !.pc = "raw"]
  BY DEF CleanCrystals, Unchanged
<1>2. Rendering /\ Laid(run.staged) /\ run.verdict = FoundByReaders(run.d)
  BY <1>1 DEF Course, Converged
<1>3. \A p \in stale : /\ p \in DOMAIN disk /\ p \notin DOMAIN run.staged
                       /\ p.doc = "CLAUDE" /\ p.lang # ""
  BY PublicationAssumption DEF StaleCrystals
<1>4. noted \subseteq stale
  OBVIOUS
<1>5. stale = StaleCrystals(run.d, run.crystal, DOMAIN run.staged)
  OBVIOUS
<1> HIDE DEF stale, noted
<1>6. /\ DOMAIN disk' = noted \cup (DOMAIN disk \ stale)
      /\ \A p \in noted : disk'[p] = NotesOnly
      /\ \A p \in DOMAIN disk \ stale : disk'[p] = disk[p]
  BY <1>1, <1>4 DEF Over, Drop
<1>7. /\ run'.pc = "raw" /\ run'.d = run.d /\ run'.spec = run.spec /\ run'.profile = run.profile
      /\ run'.crystal = run.crystal /\ run'.verdict = run.verdict /\ run'.staged = run.staged
  BY <1>1, MovedRun, MovedRest DEF Inv, Bundle
<1>8. \A p : p.doc # "CLAUDE" \/ p.lang = "" => Steady(p)
  BY <1>3, <1>4, <1>6 DEF Steady
<1>9. Rendering' /\ Laid(run.staged)'
  <2>1. \A p \in DOMAIN run.staged : p \in DOMAIN disk' /\ disk'[p] = run.staged[p]
    BY <1>2, <1>3, <1>6 DEF Laid
  <2>2. \A p \in DOMAIN disk' : p \in DOMAIN disk
    BY <1>3, <1>4, <1>6
  <2>3. ~run.spec => \A p : p.at = run.d /\ IsSpecPath(manifest[run.d], p) => Steady(p)
    BY <1>8, NamesApart DEF IsSpecPath, CrystalDocs
  <2> QED BY <1>1, <1>2, <2>1, <2>2, <2>3, RenderingKept
<1>10. (run.verdict = FoundByReaders(run.d))'
  <2>1. Path(run.d, "CLAUDE", "").lang = "" /\ Path("root", "CLAUDE", "").lang = ""
    BY DEF Path
  <2>2. ASSUME NEW d, d = run.d PROVE FoundByReaders(d)' = FoundByReaders(d)
    BY <1>1, <1>8, <2>1, <2>2, ReadersSame
  <2> QED BY <1>2, <1>7, <2>2
<1>11. NotesLeft(run.d, run.crystal, run.staged)'
  <2> PICK d, crystal, f : d = run.d /\ crystal = run.crystal /\ f = run.staged
    OBVIOUS
  <2>1. d = run'.d /\ crystal = run'.crystal /\ f = run'.staged
    BY <1>7
  <2>2. NotesLeft(d, crystal, f)'
    <3>1. ASSUME NEW p \in StaleCrystals(d, crystal, DOMAIN f)'
          PROVE  p \in noted
      <4>1. p \in DOMAIN disk' /\ p \notin DOMAIN f /\ p.doc = "CLAUDE" /\ p.lang \in Locales
            /\ TemplateShaped(p)'
        BY DEF StaleCrystals
      <4>2. ASSUME p \notin stale PROVE p \in StaleCrystals(d, crystal, DOMAIN f)
        <5>1. p \in DOMAIN disk /\ disk'[p] = disk[p] /\ TemplateShaped(p)
          BY <1>4, <1>6, <4>1, <4>2 DEF TemplateShaped
        <5>2. ConventionExists' <=> ConventionExists
          <6>1. Path("root", "CLAUDE", "").lang = ""
            BY DEF Path
          <6> QED BY <1>1, <1>8, <6>1 DEF ConventionExists, Here, Steady
        <5>3. CrystalDir(d)' = CrystalDir(d)
          BY <1>1 DEF CrystalDir
        <5>4. p.at \in IF crystal THEN {CrystalDir(d)} ELSE IF ConventionExists THEN {} ELSE {"root", d}
          <6>1. p.at \in IF crystal THEN {CrystalDir(d)'} ELSE IF ConventionExists' THEN {} ELSE {"root", d}
            BY <3>1 DEF StaleCrystals
          <6> QED BY <5>2, <5>3, <6>1
        <5> QED BY <4>1, <5>1, <5>4 DEF StaleCrystals
      <4>3. p \in stale
        BY <1>5, <4>2
      <4> QED BY <1>6, <4>1, <4>3
    <3> QED BY <1>6, <3>1 DEF NotesLeft
  <2> QED BY <2>1, <2>2
<1> QED BY <1>7, <1>9, <1>10, <1>11
        DEF Course, AfterCrystals, AfterRaw, AfterShards, AfterGen, AfterFramework

\* Which files of a bundle an option of the run brings.
LEMMA StagedByOption ==
    ASSUME Inv, Rendering, run.pc # "idle", NEW p \in DOMAIN run.staged
    PROVE  /\ p.doc \in CrystalDocs => run.crystal /\ p.at = CrystalDir(run.d)
           /\ p.doc \in SpecDocs => run.spec /\ p.at = run.d
           /\ p.doc \in ViewNames \cup SpecDocs \cup ReportViews \cup {"graph.json"} \cup CrystalDocs
           /\ p.doc \notin Framework \cup CrystalDocs => p.at = run.d
           /\ p.doc \in Framework => p.at = "framework"
<1>1. Placed(p, run.d, run.spec, run.profile, run.crystal, run.verdict)
  BY RunPlaced
<1>2. Framework \subseteq ViewNames
  BY DEF ViewNames
<1> QED BY <1>1, <1>2, NamesApart DEF Placed

LEMMA WriteBundleCourse == ASSUME Inv, Course, WriteBundle PROVE Course'
<1> DEFINE f == run.staged
<1>1. /\ run.pc = "publish" /\ UNCHANGED <<project, graph, manifest, active, reads, settled>>
      /\ disk' = Over(f, disk) /\ run' = [run EXCEPT !.pc = "converge"]
  BY DEF WriteBundle, Unchanged
<1>2. Rendering
  BY <1>1 DEF Course
<1>3. /\ DOMAIN disk' = DOMAIN f \cup DOMAIN disk
      /\ \A p \in DOMAIN f : disk'[p] = f[p]
      /\ \A p \in DOMAIN disk \ DOMAIN f : disk'[p] = disk[p]
  BY <1>1 DEF Over
<1>4. \A p : p \notin DOMAIN f => Steady(p)
  BY <1>3 DEF Steady
<1>5. ~run.spec => \A p : p.at = run.d /\ IsSpecPath(manifest[run.d], p) => Steady(p)
  <2> SUFFICES ASSUME ~run.spec, NEW p, IsSpecPath(manifest[run.d], p) PROVE p \notin DOMAIN f
    BY <1>4
  <2>1. p.doc \in SpecDocs
    BY DEF IsSpecPath
  <2> QED BY <1>1, <1>2, <2>1, StagedByOption
<1>6. Path("root", "CLAUDE", "") \in DOMAIN disk' /\ ~run.crystal => Path("root", "CLAUDE", "") \in DOMAIN disk
  <2> DEFINE q == Path("root", "CLAUDE", "")
  <2>1. q.doc \in CrystalDocs
    BY DEF Path, CrystalDocs
  <2>2. q \in DOMAIN f => run.crystal
    BY <1>1, <1>2, <2>1, StagedByOption
  <2> HIDE DEF q
  <2> QED BY <1>3, <2>2 DEF q
<1>7. Rendering' /\ Laid(run.staged)'
  BY <1>1, <1>2, <1>3, <1>5, <1>6, RenderingKept
<1>8. run'.pc = "converge"
  BY <1>1, MovedRun DEF Inv, Bundle
<1> QED BY <1>7, <1>8
        DEF Course, Converged, AfterCrystals, AfterRaw, AfterShards, AfterGen, AfterFramework

LEMMA RunRendersRest ==
    ASSUME IsRun(run), NEW v, NEW f,
           run' = [run EXCEPT !.renders = @ + 1, !.verdict = v, !.staged = f]
    PROVE  /\ run'.spec = run.spec /\ run'.profile = run.profile /\ run'.crystal = run.crystal
           /\ run'.verdict = v /\ run'.again = run.again /\ run'.before = run.before
<1> DEFINE s == [run EXCEPT !.renders = @ + 1]
           t == [s EXCEPT !.verdict = v]
<1>1. run = [pc |-> run.pc, d |-> run.d, spec |-> run.spec, profile |-> run.profile,
             crystal |-> run.crystal, staged |-> run.staged, verdict |-> run.verdict,
             renders |-> run.renders, again |-> run.again, before |-> run.before]
  BY DEF IsRun
<1>2. DOMAIN run = {"pc", "d", "spec", "profile", "crystal", "staged", "verdict", "renders", "again",
                    "before"}
  BY <1>1
<1> QED BY <1>2

\* The render of what the readers found is laid where the old one was.
LEMMA RenderAgainCourse ==
    ASSUME Inv, Course, run.pc = "converge", NEW found, NEW again,
           UNCHANGED <<project, graph, manifest, active, reads, settled>>,
           again = [p \in {q \in DOMAIN run.staged : q.doc \in Embedding} |->
                      [run.staged[p] EXCEPT !.verdict = found]],
           disk' = Over(again, disk),
           run' = [run EXCEPT !.renders = @ + 1, !.verdict = found, !.staged = Over(again, @)]
    PROVE  Course'
<1> DEFINE f == run.staged
           h == Over(again, f)
<1>1. Rendering /\ Laid(f) /\ Settings(run.d)
  BY OfDomain DEF Course, Inv, Bundle, Settings
<1>2. DOMAIN again = {q \in DOMAIN f : q.doc \in Embedding}
  OBVIOUS
<1>3. again = [p \in {q \in DOMAIN f : q.doc \in Embedding} |-> [f[p] EXCEPT !.verdict = found]]
  OBVIOUS
<1>4. IsRun(run) /\ run' = [run EXCEPT !.renders = @ + 1, !.verdict = found, !.staged = h]
  BY Zenon DEF Inv, Bundle
<1> HIDE DEF f
<1>5. /\ DOMAIN h = DOMAIN f
      /\ \A p \in DOMAIN again : h[p] = again[p]
      /\ \A p \in DOMAIN f \ DOMAIN again : h[p] = f[p]
  BY <1>2 DEF Over
<1>6. /\ DOMAIN disk' = DOMAIN disk
      /\ \A p \in DOMAIN again : disk'[p] = again[p]
      /\ \A p \in DOMAIN disk \ DOMAIN again : disk'[p] = disk[p]
  BY <1>1, <1>2 DEF Over, Laid
<1> HIDE DEF h
<1>7. \A p \in DOMAIN h : p \in DOMAIN disk' /\ disk'[p] = h[p]
  <2> SUFFICES ASSUME NEW p \in DOMAIN h PROVE p \in DOMAIN disk' /\ disk'[p] = h[p]
    OBVIOUS
  <2>1. p \in DOMAIN f /\ p \in DOMAIN disk /\ disk[p] = f[p]
    BY <1>1, <1>5 DEF Laid
  <2>2. CASE p \in DOMAIN again
    BY <1>5, <1>6, <2>1, <2>2
  <2>3. CASE p \notin DOMAIN again
    BY <1>5, <1>6, <2>1, <2>3
  <2> QED BY <2>2, <2>3
<1>8. /\ run'.pc = "converge" /\ run'.d = run.d /\ run'.staged = h
      /\ run'.spec = run.spec /\ run'.profile = run.profile /\ run'.crystal = run.crystal
      /\ run'.verdict = found
  <2>1. run'.pc = run.pc /\ run'.d = run.d /\ run'.staged = h
    BY ONLY <1>4, RunRenders
  <2>2. /\ run'.spec = run.spec /\ run'.profile = run.profile /\ run'.crystal = run.crystal
        /\ run'.verdict = found
    BY ONLY <1>4, RunRendersRest
  <2> QED BY <2>1, <2>2
<1>9. \A p : p.doc \in SpecDocs => Steady(p)
  <2>1. SpecDocs \cap Embedding = {}
    BY NamesApart DEF Embedding, ViewNames, Views
  <2> QED BY <1>2, <1>6, <2>1 DEF Steady
<1>10. Rendering'
  <2> PICK d, spec, profile, crystal :
        d = run.d /\ spec = run.spec /\ profile = run.profile /\ crystal = run.crystal
    OBVIOUS
  <2>1. Staged(d, spec, profile, crystal, found) = h
    <3>1. Settings(d) /\ f = Staged(d, spec, profile, crystal, run.verdict)
      BY <1>1 DEF Rendering, f
    <3> QED BY <1>3, <3>1, Reembedded DEF h
  <2> DEFINE g == Staged(d, spec, profile, crystal, found)
  <2>2. g' = g
    <3>1. \A p \in DOMAIN g : p \in DOMAIN disk' /\ disk'[p] = g[p]
      BY <1>7, <2>1
    <3>2. \A p \in DOMAIN disk' \ DOMAIN g : p.at = d /\ p.doc \in ReportDocs => p \in DOMAIN disk
      BY <1>6
    <3>3. ~spec => \A p : p.at = d /\ IsSpecPath(manifest[d], p) =>
                    /\ p \in DOMAIN disk' <=> p \in DOMAIN disk
                    /\ p \in DOMAIN disk => disk'[p] = disk[p]
      BY <1>9 DEF Steady, IsSpecPath
    <3>4. Settings(d)
      BY <1>1
    <3> QED BY <3>1, <3>2, <3>3, <3>4, Rerendered
  <2>3. g' = run'.staged
    BY <1>8, <2>1, <2>2
  <2>4. d = run'.d /\ spec = run'.spec /\ profile = run'.profile /\ crystal = run'.crystal
        /\ found = run'.verdict
    BY <1>8
  <2>5. Staged(run.d, run.spec, run.profile, run.crystal, run.verdict)' = run'.staged
    BY ONLY <2>3, <2>4, Zenon DEF g
  <2>6. run'.crystal \/ ~ConventionExists'
    BY <1>1, <1>6, <1>8 DEF Rendering, ConventionExists, Here
  <2>7. settled' = <<run'.d, run'.spec, run'.profile, run'.crystal>>
    BY <1>1, <1>8 DEF Rendering
  <2> QED BY <2>5, <2>6, <2>7 DEF Rendering
<1>11. Laid(run.staged)'
  BY <1>7, <1>8 DEF Laid
<1> QED BY <1>8, <1>10, <1>11
        DEF Course, Converged, AfterCrystals, AfterRaw, AfterShards, AfterGen, AfterFramework

LEMMA IdleCourse == ASSUME run'.pc = "idle" PROVE Course'
  BY DEF Course

LEMMA ConvergeCourse == ASSUME Inv, Course, Converge PROVE Course'
<1> DEFINE found == FoundByReaders(run.d)
           again == [p \in {q \in DOMAIN run.staged : q.doc \in Embedding} |->
                        [run.staged[p] EXCEPT !.verdict = found]]
<1>1. /\ run.pc = "converge" /\ UNCHANGED <<project, graph, manifest, active, reads>>
      /\ \/ /\ found = run.verdict /\ run' = [run EXCEPT !.pc = "crystals"]
            /\ UNCHANGED <<disk, settled>>
         \/ run' = Idle
         \/ /\ disk' = Over(again, disk) /\ UNCHANGED settled
            /\ run' = [run EXCEPT !.renders = @ + 1, !.verdict = found, !.staged = Over(again, @)]
  BY DEF Converge, ConvergeWithin, Unchanged, Embedding
<1>2. CASE /\ found = run.verdict /\ run' = [run EXCEPT !.pc = "crystals"]
           /\ UNCHANGED <<disk, settled>>
  <2>1. Rendering /\ Laid(run.staged)
    BY <1>1 DEF Course
  <2>2. Rendering' /\ Laid(run.staged)'
    <3>1. \A p \in DOMAIN run.staged : p \in DOMAIN disk' /\ disk'[p] = run.staged[p]
      BY <1>2, <2>1 DEF Laid
    <3>2. \A p : Steady(p)
      BY <1>2 DEF Steady
    <3> QED BY <1>1, <1>2, <2>1, <3>1, <3>2, RenderingKept
  <2>3. run'.pc = "crystals" /\ run'.d = run.d /\ run'.verdict = run.verdict
    BY <1>2, MovedRun, MovedRest DEF Inv, Bundle
  <2>4. (run.verdict = FoundByReaders(run.d))'
    <3>1. ASSUME NEW d, d = run.d PROVE FoundByReaders(d)' = FoundByReaders(d)
      BY <1>1, <1>2, ReadersSame DEF Steady
    <3> QED BY <1>2, <2>3, <3>1
  <2> QED BY <2>2, <2>3, <2>4
          DEF Course, AfterCrystals, AfterRaw, AfterShards, AfterGen, AfterFramework
<1>3. CASE run' = Idle
  BY <1>3, IdleIs, IdleCourse
<1>4. CASE /\ disk' = Over(again, disk) /\ UNCHANGED settled
           /\ run' = [run EXCEPT !.renders = @ + 1, !.verdict = found, !.staged = Over(again, @)]
  <2>1. again = [p \in {q \in DOMAIN run.staged : q.doc \in Embedding} |->
                      [run.staged[p] EXCEPT !.verdict = found]]
    OBVIOUS
  <2> HIDE DEF again, found
  <2> QED BY <1>1, <1>4, <2>1, RenderAgainCourse
<1> QED BY <1>1, <1>2, <1>3, <1>4

\* What a render reads, and nothing else, decides what it is.
LEMMA RenderReads ==
    ASSUME NEW d, NEW spec, NEW profile, NEW crystal, NEW verdict,
           UNCHANGED <<disk, manifest, graph, active>>
    PROVE  Staged(d, spec, profile, crystal, verdict)' = Staged(d, spec, profile, crystal, verdict)
<1>1. ReportPresent(d)' <=> ReportPresent(d)
  BY DEF ReportPresent
<1>2. ExistingSpec(d, manifest[d])' = ExistingSpec(d, manifest[d])
  BY DEF ExistingSpec, IsGenerated
<1>3. Crystals(d, manifest[d], graph[d], verdict)' = Crystals(d, manifest[d], graph[d], verdict)
  BY DEF Crystals, CrystalDir, TemplateShaped
<1> QED BY <1>1, <1>2, <1>3, StagedSame

LEMMA GenSpecCourse ==
    ASSUME Inv, NEW d \in Here.domains, NEW includeSpec, NEW override, NEW explicit,
           GenSpec(d, includeSpec, override, explicit)
    PROVE  Course'
<1> DEFINE m == manifest[d]
           spec == includeSpec \/ Multilingual(m)
           profile == IF override = "" THEN m.profile ELSE override
           crystal == explicit \/ ConventionExists
           verdict == FoundByReaders(d)
           staged == Staged(d, spec, profile, crystal, verdict)
           input == <<d, spec, profile, crystal>>
           again == settled = input
           next == [pc |-> "publish", d |-> d, spec |-> spec, profile |-> profile,
                    crystal |-> crystal, staged |-> staged, verdict |-> verdict,
                    renders |-> 0, again |-> again, before |-> IF again THEN disk ELSE <<>>]
<1>1. /\ run.pc = "idle" /\ UNCHANGED <<disk, project, graph, manifest, active, reads>>
      /\ UNCHANGED run \/ (run' = next /\ settled' = input)
  BY DEF GenSpec, Unchanged
<1>2. CASE UNCHANGED run
  BY <1>1, <1>2, IdleCourse
<1>3. CASE run' = next /\ settled' = input
  <2>0. crystal \/ ~ConventionExists
    OBVIOUS
  <2> HIDE DEF spec, profile, crystal, verdict
  <2>1. staged' = staged => Staged(d, spec, profile, crystal, verdict)' = staged
    OBVIOUS
  <2> DEFINE before == IF again THEN disk ELSE <<>>
  <2> HIDE DEF before, again
  <2>2. ASSUME NEW s, NEW q, NEW c, NEW v PROVE Staged(d, s, q, c, v)' = Staged(d, s, q, c, v)
    BY <1>1, RenderReads
  <2> PICK s, q, c, v, t : s = spec /\ q = profile /\ c = crystal /\ v = verdict /\ t = staged
    OBVIOUS
  <2>3. Staged(d, s, q, c, v)' = t
    <3>1. t = Staged(d, s, q, c, v)
      OBVIOUS
    <3> QED BY <2>2, <3>1
  <2> HIDE DEF staged
  <2>4. /\ run'.pc = "publish" /\ run'.d = d /\ run'.spec = s /\ run'.profile = q
        /\ run'.crystal = c /\ run'.verdict = v /\ run'.staged = t
    BY <1>3
  <2>5. settled' = <<run'.d, run'.spec, run'.profile, run'.crystal>>
    BY <1>3, <2>4
  <2>6. run'.crystal \/ ~ConventionExists'
    <3>1. ConventionExists' <=> ConventionExists
      BY <1>1 DEF ConventionExists, Here
    <3>2. run'.crystal = crystal
      BY <2>4
    <3> QED BY <2>0, <3>1, <3>2, Zenon
  <2>7. Staged(run.d, run.spec, run.profile, run.crystal, run.verdict)' = run'.staged
    <3>1. d = run'.d /\ s = run'.spec /\ q = run'.profile /\ c = run'.crystal
          /\ v = run'.verdict /\ t = run'.staged
      BY <2>4
    <3> QED BY ONLY <2>3, <3>1, Zenon
  <2> QED BY <2>4, <2>5, <2>6, <2>7
          DEF Course, Rendering, Converged, AfterCrystals, AfterRaw, AfterShards, AfterGen,
              AfterFramework
<1> QED BY <1>1, <1>2, <1>3

LEMMA StutterCourse == ASSUME Course, UNCHANGED vars PROVE Course'
<1>1. UNCHANGED <<project, disk, graph, manifest, active, reads, run, settled>>
  BY DEF vars
<1>2. ASSUME NEW d, NEW s, NEW q, NEW c, NEW v PROVE Staged(d, s, q, c, v)' = Staged(d, s, q, c, v)
  BY <1>1, RenderReads
<1>3. Staged(run.d, run.spec, run.profile, run.crystal, run.verdict)'
        = Staged(run.d, run.spec, run.profile, run.crystal, run.verdict)
  <2> PICK d, s, q, c, v :
        d = run.d /\ s = run.spec /\ q = run.profile /\ c = run.crystal /\ v = run.verdict
    OBVIOUS
  <2>1. d = run'.d /\ s = run'.spec /\ q = run'.profile /\ c = run'.crystal /\ v = run'.verdict
    BY <1>1
  <2>2. Staged(d, s, q, c, v)' = Staged(d, s, q, c, v)
    BY <1>2
  <2>3. d = run.d /\ s = run.spec /\ q = run.profile /\ c = run.crystal /\ v = run.verdict
    OBVIOUS
  <2> QED BY ONLY <2>1, <2>2, <2>3, Zenon
<1>4. ConventionExists' = ConventionExists /\ \A d : CrystalDir(d)' = CrystalDir(d)
  BY <1>1 DEF ConventionExists, Here, CrystalDir
<1>5. Rendering => Rendering'
  BY <1>1, <1>3, <1>4 DEF Rendering
<1>6. \A p : (IsGenerated(p)' <=> IsGenerated(p)) /\ (TemplateShaped(p)' <=> TemplateShaped(p))
  BY <1>1 DEF IsGenerated, TemplateShaped
<1>7. \A m, p : Owned(m, p)' <=> Owned(m, p)
  BY <1>6 DEF Owned
<1>8. Laid(run.staged)' <=> Laid(run.staged)
  BY <1>1 DEF Laid
<1>9. FoundByReaders(run.d)' = FoundByReaders(run.d)
  BY <1>1 DEF FoundByReaders
<1>10. NotesLeft(run.d, run.crystal, run.staged)' <=> NotesLeft(run.d, run.crystal, run.staged)
  BY <1>1, <1>4, <1>6 DEF NotesLeft, StaleCrystals
<1>11. RawGone(run.d, run.staged)' <=> RawGone(run.d, run.staged)
  BY <1>1, <1>6 DEF RawGone
<1>12. /\ StaleShards(run.d, DOMAIN run.staged)' = StaleShards(run.d, DOMAIN run.staged)
       /\ StaleEvidenceViews(run.d, manifest[run.d], DOMAIN run.staged)'
            = StaleEvidenceViews(run.d, manifest[run.d], DOMAIN run.staged)
  BY <1>1, <1>6 DEF StaleShards, StaleEvidenceViews
<1>13. StaleGenFiles(run.d, manifest[run.d], DOMAIN run.staged, run.spec)'
         = StaleGenFiles(run.d, manifest[run.d], DOMAIN run.staged, run.spec)
  BY <1>1, <1>7 DEF StaleGenFiles
<1>14. StaleFrameworkFiles(run.d, manifest[run.d], run.profile, DOMAIN run.staged)'
         = StaleFrameworkFiles(run.d, manifest[run.d], run.profile, DOMAIN run.staged)
  <2>1. (HasOtherFullProfile(run.d)' <=> HasOtherFullProfile(run.d)) /\ (UsesFullProfile' <=> UsesFullProfile)
    BY <1>1 DEF HasOtherFullProfile, UsesFullProfile, Here
  <2> QED BY <1>1, <1>7, <2>1 DEF StaleFrameworkFiles
<1> QED BY <1>1, <1>5, <1>8, <1>9, <1>10, <1>11, <1>12, <1>13, <1>14 DEF Course

LEMMA CourseInit == Init => Course
  BY IdleIs DEF Init, Course

LEMMA CourseStep == ASSUME Inv, Course, [Next]_vars PROVE Course'
<1>1. ASSUME NEW d \in Here.domains, NEW spec \in BOOLEAN, NEW explicit \in BOOLEAN,
             NEW override \in Overrides, GenSpec(d, spec, override, explicit)
      PROVE  Course'
  BY <1>1, GenSpecCourse
<1>2. ASSUME Edit PROVE Course'
  BY <1>2, IdleCourse DEF Edit
<1>3. ASSUME NEW d \in Here.domains,
             \/ ChangeGraph(d) \/ ChangeManifest(d) \/ SwitchActive(d)
             \/ \E json \in BOOLEAN : EvidenceWrite(d, json)
      PROVE  Edit
  BY <1>3 DEF ChangeGraph, ChangeManifest, SwitchActive, EvidenceWrite
<1>4. ASSUME NEW p, TakeNotes(p) \/ RemoveTorn(p) \/ Author(p)
      PROVE  Edit
  BY <1>4 DEF TakeNotes, RemoveTorn, Author
<1>5. ASSUME WriteBundleFails \/ Return \/ CutOff PROVE Course'
  <2>1. run' = Idle
    BY <1>5 DEF WriteBundleFails, Return, CutOff
  <2> QED BY <2>1, IdleIs, IdleCourse
<1> QED BY <1>1, <1>2, <1>3, <1>4, <1>5, StutterCourse, WriteBundleCourse, ConvergeCourse,
           CleanCrystalsCourse, CleanRawCourse, CleanShardsCourse, CleanGenFilesCourse,
           CleanFrameworkCourse, CleanEvidenceCourse DEF Next

-----------------------------------------------------------------------------
(* What a complete run leaves                                               *)

LEMMA SpecStaged ==
    ASSUME NEW d, Settings(d), NEW spec, spec
    PROVE  \E p \in DOMAIN SpecPart(d, spec) : p.at = d /\ IsSpecPath(manifest[d], p)
<1> DEFINE m == manifest[d]
           l == Default(m)
           p == DocumentPath(m, d, "SPEC", l)
<1>1. l \in LanguagesForViews(m)
  BY SomeLanguage DEF Settings
<1>2. p \in DOMAIN SpecPart(d, spec)
  BY <1>1 DEF SpecPart, BuildSpecDocuments, SpecFiles
<1>3. p.at = d /\ p.doc = "SPEC" /\ p.lang = IF Multilingual(m) THEN l ELSE ""
  BY DEF DocumentPath, Path
<1>4. Multilingual(m) => l \in Range(m.langs)
  <2>1. Multilingual(m) => Localized(m)
    <3> DEFINE langs == m.langs
    <3>1. langs \in Seq(Locales)
      BY DEF Settings
    <3> QED BY <3>1 DEF Multilingual, Localized
  <2> QED BY <1>1, <2>1 DEF LanguagesForViews
<1> HIDE DEF p, l, m
<1>5. IsSpecPath(m, p)
  BY <1>3, <1>4 DEF IsSpecPath, SpecDocs
<1> QED BY <1>2, <1>3, <1>5 DEF m

\* A complete run renders the SPEC documents exactly if the checks require them.
LEMMA SpecAsRequired ==
    ASSUME Inv, Course, Complete
    PROVE  run.spec <=> SpecRequired(run.d, manifest[run.d])
<1>1. Rendering /\ Laid(run.staged) /\ run.pc # "idle" /\ Settings(run.d)
  BY OfDomain DEF Complete, Course, Inv, Bundle, Settings
<1>2. ASSUME run.spec PROVE SpecRequired(run.d, manifest[run.d])
  <2>1. PICK p \in DOMAIN SpecPart(run.d, run.spec) : p.at = run.d /\ IsSpecPath(manifest[run.d], p)
    BY <1>1, <1>2, SpecStaged
  <2>2. p \in DOMAIN run.staged
    BY <1>1, StagedHolds DEF Rendering, Parts
  <2>3. p \in DOMAIN disk /\ disk[p] = run.staged[p] /\ run.staged[p].by = "generated"
    BY <1>1, <2>2 DEF Laid, Inv, Bundle
  <2>4. IsGenerated(p)
    BY <2>3 DEF IsGenerated
  <2> QED BY <2>1, <2>3, <2>4 DEF SpecRequired
<1> QED BY <1>2 DEF Complete

LEMMA ExpectedStaged ==
    ASSUME Inv, Course, Complete
    PROVE  ExpectedParts(run.d) \subseteq Parts(run.d, run.spec, run.profile, run.crystal, run.verdict)
<1>1. run.profile = manifest[run.d].profile /\ run.verdict = FoundByReaders(run.d)
  BY DEF Complete, Course, Converged, AfterCrystals, AfterRaw, AfterShards, AfterGen, AfterFramework
<1> DEFINE needed == SpecRequired(run.d, manifest[run.d])
<1>2. run.spec <=> needed
  BY SpecAsRequired
<1> HIDE DEF needed
<1>3. SpecPart(run.d, needed) = SpecPart(run.d, run.spec)
  BY <1>2 DEF SpecPart
<1>4. Listed(run.d, needed) = Listed(run.d, run.spec)
  BY <1>2, <1>3 DEF Listed
<1>5. ExpectedParts(run.d) = ViewParts(run.d, run.profile, run.verdict, Listed(run.d, needed))
                               \cup {SpecPart(run.d, needed)} \cup ReportParts(run.d)
  BY <1>1 DEF ExpectedParts, needed
<1> QED BY <1>3, <1>4, <1>5 DEF Parts

\* The fresh render of the checks is on disk, file by file.
LEMMA NothingDiffers ==
    ASSUME Inv, Course, Complete
    PROVE  Differing(Expected(run.d)) = {} /\ StaleCrystalFiles(run.d) = {}
<1> DEFINE f == run.staged
           F == Parts(run.d, run.spec, run.profile, run.crystal, run.verdict)
           E == ExpectedParts(run.d)
<1>1. Rendering /\ Laid(f) /\ Settings(run.d) /\ run.verdict = FoundByReaders(run.d)
  BY OfDomain DEF Complete, Course, Inv, Bundle, Settings, Converged, AfterCrystals, AfterRaw,
                  AfterShards, AfterGen, AfterFramework
<1>2. E \subseteq F /\ Expected(run.d) = Merge(E)
  BY ExpectedStaged, ExpectedMerge
<1>3. \A part \in F : \A p \in DOMAIN part : p \in DOMAIN disk /\ disk[p] = part[p]
  <2>1. \A part \in F : \A p \in DOMAIN part : p \in DOMAIN f /\ f[p] = part[p]
    BY <1>1, StagedHolds DEF Rendering
  <2> HIDE DEF F, f
  <2> QED BY <1>1, <2>1 DEF Laid
<1>4. Apart(F)
  BY <1>1, PartsApart
<1>5. Differing(Expected(run.d)) = {}
  <2> HIDE DEF E, F
  <2> SUFFICES ASSUME NEW p \in DOMAIN Merge(E)
               PROVE  p \in DOMAIN disk /\ disk[p] = Merge(E)[p]
    BY <1>2 DEF Differing
  <2>1. Apart(E)
    BY <1>2, <1>4 DEF Apart
  <2>2. PICK part \in E : p \in DOMAIN part
    BY <2>1, MergeIs
  <2>3. Merge(E)[p] = part[p]
    <3>1. \A g \in E : \A q \in DOMAIN g : q \in DOMAIN Merge(E) /\ Merge(E)[q] = g[q]
      BY <2>1, MergeIs
    <3> QED BY <2>2, <3>1
  <2> QED BY <1>2, <1>3, <2>2, <2>3
<1>6. StaleCrystalFiles(run.d) = {}
  <2>1. CASE ConventionExists
    <3>1. run.crystal
      BY <1>1, <2>1 DEF Rendering
    <3> DEFINE all == Crystals(run.d, manifest[run.d], graph[run.d], FoundByReaders(run.d))
               mine == {q \in DOMAIN all : q.doc = "CLAUDE"}
    <3>2. all \in F
      BY <1>1, <3>1 DEF Parts, CrystalParts
    <3>3. StaleCrystalFiles(run.d) \subseteq Differing([p \in mine |-> all[p]])
      BY DEF StaleCrystalFiles
    <3> HIDE DEF all, F
    <3>4. Differing([p \in mine |-> all[p]]) = {}
      BY <1>3, <3>2 DEF Differing
    <3> QED BY <3>3, <3>4
  <2>2. CASE ~ConventionExists
    BY <2>2 DEF StaleCrystalFiles
  <2> QED BY <2>1, <2>2
<1> QED BY <1>5, <1>6

\* A file of the bundle at a name the checks look at is one they expect.
LEMMA StagedExpected ==
    ASSUME Inv, Course, Complete, NEW p \in DOMAIN run.staged,
           p.doc \notin CrystalDocs \cup {"graph.json"}
    PROVE  p \in DOMAIN Expected(run.d)
<1> DEFINE E == ExpectedParts(run.d)
           needed == SpecRequired(run.d, manifest[run.d])
<1>1. Rendering /\ run.pc # "idle"
  BY DEF Complete, Course
<1>2. Placed(p, run.d, run.spec, run.profile, run.crystal, run.verdict)
  BY <1>1, RunPlaced
<1>3. run.profile = manifest[run.d].profile /\ run.verdict = FoundByReaders(run.d)
  BY DEF Complete, Course, Converged, AfterCrystals, AfterRaw, AfterShards, AfterGen, AfterFramework
<1>4. run.spec <=> needed
  BY SpecAsRequired
<1> HIDE DEF needed
<1>5. SpecPart(run.d, needed) = SpecPart(run.d, run.spec)
  BY <1>4 DEF SpecPart
<1>6. Listed(run.d, needed) = Listed(run.d, run.spec)
  BY <1>4, <1>5 DEF Listed
<1>7. E = ViewParts(run.d, run.profile, run.verdict, Listed(run.d, run.spec))
            \cup {SpecPart(run.d, run.spec)} \cup ReportParts(run.d)
  <2>1. E = ViewParts(run.d, run.profile, run.verdict, Listed(run.d, needed))
              \cup {SpecPart(run.d, needed)} \cup ReportParts(run.d)
    BY <1>3 DEF ExpectedParts, needed
  <2> QED BY <1>5, <1>6, <2>1
<1>8. \E part \in E : p \in DOMAIN part
  BY <1>2, <1>7 DEF Placed, ReportParts
<1> HIDE DEF E
<1>9. p \in DOMAIN Merge(E)
  BY <1>8 DEF Merge
<1> QED BY <1>9, ExpectedMerge DEF E

LEMMA NothingObsolete ==
    ASSUME Inv, Course, Complete, NEW p \in Obsolete(run.d, DOMAIN Expected(run.d))
    PROVE  p.doc = "page"
<1> DEFINE m == manifest[run.d]
<1>1. /\ p \in DOMAIN disk /\ p \notin DOMAIN Expected(run.d)
      /\ p.at = run.d /\ p.doc \in DomainDocs \ {"graph.json", "evidence.json"}
      /\ p.doc \in Packages \/ p.lang # Foreign
      /\ IF p.doc = "EVIDENCE" THEN IsGenerated(p) ELSE Owned(m, p)
  BY DEF Obsolete
<1>2. /\ StaleGenFiles(run.d, m, DOMAIN run.staged, run.spec) = {}
      /\ StaleEvidenceViews(run.d, m, DOMAIN run.staged) = {}
  BY DEF Complete, Course, AfterGen, AfterFramework
<1>3. p.doc \notin CrystalDocs \cup {"graph.json"}
  BY <1>1, NamesApart DEF DomainDocs, ViewNames, ReportDocs, ReportViews
<1>4. p \notin DOMAIN run.staged
  BY <1>1, <1>3, StagedExpected
<1>5. CASE p.doc = "EVIDENCE"
  <2>1. p \in {DocumentPath(m, run.d, "EVIDENCE", l) : l \in LanguagesForViews(m)}
    BY <1>1, <1>2, <1>4, <1>5 DEF StaleEvidenceViews
  <2>2. PICK l \in LanguagesForViews(m) : p = DocumentPath(m, run.d, "EVIDENCE", l)
    BY <2>1
  <2>3. ReportPresent(run.d)
    BY <1>1, <1>5 DEF ReportPresent, ReportDocs
  <2> DEFINE part == BuildReports(run.d, m, graph[run.d])
  <2>4. part \in ExpectedParts(run.d)
    BY <2>3 DEF ExpectedParts, ReportParts
  <2>5. p \in DOMAIN part
    BY <2>2, ReportsDomain DEF ReportViews
  <2> HIDE DEF part
  <2>6. p \in DOMAIN Merge(ExpectedParts(run.d))
    BY <2>4, <2>5 DEF Merge
  <2> QED BY <1>1, <2>6, ExpectedMerge
<1>6. CASE p.doc # "EVIDENCE" /\ p.doc # "page"
  <2>1. p.doc \in DomainDocs \ ReportDocs /\ Owned(m, p)
    BY <1>1, <1>6 DEF ReportDocs
  <2>2. ~run.spec /\ IsSpecPath(m, p)
    BY <1>1, <1>2, <1>4, <2>1 DEF StaleGenFiles
  <2>3. IsGenerated(p)
    BY <2>1, <2>2 DEF Owned, IsSpecPath
  <2>4. SpecRequired(run.d, m)
    BY <1>1, <2>2, <2>3 DEF SpecRequired
  <2> QED BY <2>2, <2>4 DEF Complete
<1> QED BY <1>5, <1>6

LEMMA NothingSharedObsolete ==
    ASSUME Inv, Course, Complete
    PROVE  ObsoleteShared(run.d, DOMAIN Expected(run.d)) = {}
<1> DEFINE m == manifest[run.d]
<1> SUFFICES ASSUME ~HasOtherFullProfile(run.d),
                    NEW p \in DOMAIN disk, p \notin DOMAIN Expected(run.d), p.at = "framework",
                    p.doc \in Framework, p.lang # Foreign, Owned(m, p)
             PROVE  FALSE
  BY DEF ObsoleteShared
<1>1. p.doc \notin CrystalDocs \cup {"graph.json"}
  BY NamesApart DEF ViewNames
<1>2. p \notin DOMAIN run.staged
  BY <1>1, StagedExpected
<1>3. StaleFrameworkFiles(run.d, m, run.profile, DOMAIN run.staged) = {}
  BY DEF Complete, Course, AfterFramework
<1>4. run.profile # Full => ~UsesFullProfile
  BY DEF Complete, HasOtherFullProfile, UsesFullProfile
<1> QED BY <1>2, <1>3, <1>4 DEF StaleFrameworkFiles

LEMMA CourseIsFresh == Inv /\ Course => PublishedIsFresh
<1> SUFFICES ASSUME Inv, Course, Complete, NEW p \in StaleOutputs(run.d) PROVE p.doc = "page"
  BY DEF PublishedIsFresh
<1>1. Differing(Expected(run.d)) = {} /\ StaleCrystalFiles(run.d) = {}
  BY NothingDiffers
<1>2. ObsoleteShared(run.d, DOMAIN Expected(run.d)) = {}
  BY NothingSharedObsolete
<1>3. p \in Obsolete(run.d, DOMAIN Expected(run.d))
  BY <1>1, <1>2 DEF StaleOutputs
<1> QED BY <1>3, NothingObsolete

\* A run that rendered what the domain requires leaves nothing the freshness
\* checks would report but detail pages of evidence, from whatever tree it
\* started (invariant PublishedIsFresh; checkLanguageOutputsCurrentStaged).
THEOREM CompleteRunsAreFresh == Spec => []PublishedIsFresh
<1>1. Init => Inv /\ Course
  BY InvInit, CourseInit
<1>2. Inv /\ Course /\ [Next]_vars => (Inv /\ Course)'
  BY InvStep, CourseStep
<1> QED BY <1>1, <1>2, CourseIsFresh, PTL DEF Spec

-----------------------------------------------------------------------------
(* A run on what the same run left                                          *)

\* The bundle is on disk and there is nothing to remove.
Still(d, spec, profile, crystal, f) ==
    /\ Laid(f)
    /\ NotesLeft(d, crystal, f)
    /\ RawGone(d, f)
    /\ spec => StaleShards(d, DOMAIN f) = {}
    /\ StaleGenFiles(d, manifest[d], DOMAIN f, spec) = {}
    /\ StaleFrameworkFiles(d, manifest[d], profile, DOMAIN f) = {}
    /\ StaleEvidenceViews(d, manifest[d], DOMAIN f) = {}

Fixed(d, spec, profile, crystal) ==
    Still(d, spec, profile, crystal, Staged(d, spec, profile, crystal, FoundByReaders(d)))

IsTree == disk = [p \in DOMAIN disk |-> disk[p]]

AgainRun ==
    /\ disk = run.before
    /\ run.verdict = FoundByReaders(run.d)
    /\ Still(run.d, run.spec, run.profile, run.crystal, run.staged)

\* What succeeded and was not disturbed is a fixed point, and a run on it has
\* changed nothing so far.
Again ==
    /\ IsTree
    /\ run.pc = "idle" /\ settled # None =>
          \E d, spec, profile, crystal :
              settled = <<d, spec, profile, crystal>> /\ Fixed(d, spec, profile, crystal)
    /\ run.pc # "idle" /\ run.again => AgainRun

LEMMA StillSame ==
    ASSUME NEW d, NEW spec, NEW profile, NEW crystal, NEW f,
           UNCHANGED <<project, disk, manifest, active>>,
           Still(d, spec, profile, crystal, f)
    PROVE  Still(d, spec, profile, crystal, f)'
<1>1. ConventionExists' = ConventionExists /\ CrystalDir(d)' = CrystalDir(d)
  BY DEF ConventionExists, Here, CrystalDir
<1>2. \A p : (IsGenerated(p)' <=> IsGenerated(p)) /\ (TemplateShaped(p)' <=> TemplateShaped(p))
  BY DEF IsGenerated, TemplateShaped
<1>3. \A m, p : Owned(m, p)' <=> Owned(m, p)
  BY <1>2 DEF Owned
<1>4. Laid(f)' <=> Laid(f)
  BY DEF Laid
<1>5. NotesLeft(d, crystal, f)' <=> NotesLeft(d, crystal, f)
  BY <1>1, <1>2 DEF NotesLeft, StaleCrystals
<1>6. RawGone(d, f)' <=> RawGone(d, f)
  BY <1>2 DEF RawGone
<1>7. /\ StaleShards(d, DOMAIN f)' = StaleShards(d, DOMAIN f)
      /\ StaleEvidenceViews(d, manifest[d], DOMAIN f)' = StaleEvidenceViews(d, manifest[d], DOMAIN f)
  BY <1>2 DEF StaleShards, StaleEvidenceViews
<1>8. StaleGenFiles(d, manifest[d], DOMAIN f, spec)' = StaleGenFiles(d, manifest[d], DOMAIN f, spec)
  BY <1>3 DEF StaleGenFiles
<1>9. StaleFrameworkFiles(d, manifest[d], profile, DOMAIN f)'
        = StaleFrameworkFiles(d, manifest[d], profile, DOMAIN f)
  <2>1. (HasOtherFullProfile(d)' <=> HasOtherFullProfile(d)) /\ (UsesFullProfile' <=> UsesFullProfile)
    BY DEF HasOtherFullProfile, UsesFullProfile, Here
  <2> QED BY <1>3, <2>1 DEF StaleFrameworkFiles
<1> QED BY <1>4, <1>5, <1>6, <1>7, <1>8, <1>9 DEF Still

LEMMA FixedSame ==
    ASSUME NEW d, NEW spec, NEW profile, NEW crystal,
           UNCHANGED <<project, disk, graph, manifest, active, reads>>,
           Fixed(d, spec, profile, crystal)
    PROVE  Fixed(d, spec, profile, crystal)'
<1> PICK v, f : v = FoundByReaders(d) /\ f = Staged(d, spec, profile, crystal, v)
  OBVIOUS
<1>1. v = FoundByReaders(d)'
  BY ReadersSame DEF Steady
<1>2. f = Staged(d, spec, profile, crystal, v)'
  BY RenderReads
<1>3. Still(d, spec, profile, crystal, f)'
  BY StillSame DEF Fixed
<1> QED BY <1>1, <1>2, <1>3 DEF Fixed

\* A step of a run on a fixed point that leaves the tree alone keeps it one.
LEMMA QuietStep ==
    ASSUME AgainRun, UNCHANGED <<project, disk, graph, manifest, active, reads>>,
           run'.d = run.d, run'.spec = run.spec, run'.profile = run.profile,
           run'.crystal = run.crystal, run'.staged = run.staged, run'.verdict = run.verdict,
           run'.before = run.before
    PROVE  AgainRun'
<1> PICK d, spec, profile, crystal, f :
      /\ d = run.d /\ spec = run.spec /\ profile = run.profile /\ crystal = run.crystal
      /\ f = run.staged
  OBVIOUS
<1>1. d = run'.d /\ spec = run'.spec /\ profile = run'.profile /\ crystal = run'.crystal /\ f = run'.staged
  OBVIOUS
<1>2. Still(d, spec, profile, crystal, f)'
  BY StillSame DEF AgainRun
<1>3. FoundByReaders(d)' = FoundByReaders(d)
  BY ReadersSame DEF Steady
<1> QED BY <1>1, <1>2, <1>3 DEF AgainRun

\* A step that moves the run on and, on a fixed point, leaves the tree alone.
LEMMA MovesAgain ==
    ASSUME Inv, Again, run.pc # "idle", NEW x, x # "idle", run' = [run EXCEPT !.pc = x], IsTree',
           UNCHANGED <<project, graph, manifest, active, reads>>,
           run.again /\ AgainRun => disk' = disk
    PROVE  Again'
<1>1. /\ run'.pc = x /\ run'.d = run.d /\ run'.spec = run.spec /\ run'.profile = run.profile
      /\ run'.crystal = run.crystal /\ run'.staged = run.staged /\ run'.verdict = run.verdict
      /\ run'.again = run.again /\ run'.before = run.before
  BY MovedRun, MovedRest DEF Inv, Bundle
<1>2. run.again => AgainRun'
  BY <1>1, QuietStep DEF Again
<1> QED BY <1>1, <1>2 DEF Again

LEMMA CleanAgain ==
    ASSUME Inv, Again, NEW pc, pc # "idle", NEW next, next # "idle", NEW stale,
           Clean(pc, next, stale), AgainRun => stale = {}
    PROVE  Again'
<1>1. /\ run.pc = pc /\ UNCHANGED <<project, graph, manifest, active, reads>>
      /\ disk' = Drop(disk, stale) /\ run' = [run EXCEPT !.pc = next]
  BY DEF Clean, Unchanged
<1>2. IsTree'
  BY <1>1 DEF IsTree, Drop
<1>3. AgainRun => disk' = disk
  BY <1>1 DEF Again, IsTree, Drop
<1> QED BY <1>1, <1>2, <1>3, MovesAgain

LEMMA CleanupsAgain ==
    ASSUME Inv, Again,
           CleanRaw \/ CleanShards \/ CleanGenFiles \/ CleanFramework \/ CleanEvidence
    PROVE  Again'
<1>1. CASE CleanRaw
  <2> DEFINE q == Path(run.d, "evidence.json", "")
             stale == {p \in {q} : IsGenerated(p) /\ \E y \in DOMAIN run.staged : y.doc = "EVIDENCE"}
  <2>1. AgainRun => stale = {}
    BY DEF AgainRun, Still, RawGone
  <2>2. Clean("raw", "spec", stale)
    BY <1>1 DEF CleanRaw
  <2> HIDE DEF stale
  <2> QED BY <2>1, <2>2, CleanAgain
<1>2. CASE CleanShards
  <2> DEFINE stale == IF run.spec THEN StaleShards(run.d, DOMAIN run.staged) ELSE {}
  <2>1. AgainRun => stale = {}
    BY DEF AgainRun, Still
  <2>2. Clean("spec", "gen", stale)
    BY <1>2 DEF CleanShards
  <2> HIDE DEF stale
  <2> QED BY <2>1, <2>2, CleanAgain
<1>3. CASE CleanGenFiles
  <2> DEFINE stale == StaleGenFiles(run.d, manifest[run.d], DOMAIN run.staged, run.spec)
  <2>1. AgainRun => stale = {}
    BY DEF AgainRun, Still
  <2>2. Clean("gen", "framework", stale)
    BY <1>3 DEF CleanGenFiles
  <2> HIDE DEF stale
  <2> QED BY <2>1, <2>2, CleanAgain
<1>4. CASE CleanFramework
  <2> DEFINE stale == StaleFrameworkFiles(run.d, manifest[run.d], run.profile, DOMAIN run.staged)
  <2>1. AgainRun => stale = {}
    BY DEF AgainRun, Still
  <2>2. Clean("framework", "evidence", stale)
    BY <1>4 DEF CleanFramework
  <2> HIDE DEF stale
  <2> QED BY <2>1, <2>2, CleanAgain
<1>5. CASE CleanEvidence
  <2> DEFINE stale == StaleEvidenceViews(run.d, manifest[run.d], DOMAIN run.staged)
  <2>1. AgainRun => stale = {}
    BY DEF AgainRun, Still
  <2>2. Clean("evidence", "finished", stale)
    BY <1>5 DEF CleanEvidence
  <2> HIDE DEF stale
  <2> QED BY <2>1, <2>2, CleanAgain
<1> QED BY <1>1, <1>2, <1>3, <1>4, <1>5

LEMMA WriteBundleAgain == ASSUME Inv, Again, WriteBundle PROVE Again'
<1>1. /\ run.pc = "publish" /\ UNCHANGED <<project, graph, manifest, active, reads>>
      /\ disk' = Over(run.staged, disk) /\ run' = [run EXCEPT !.pc = "converge"]
  BY DEF WriteBundle, Unchanged
<1>2. IsTree'
  BY <1>1, OverFunction DEF IsTree
<1>3. ASSUME AgainRun PROVE disk' = disk
  <2> DEFINE f == run.staged
             h == Over(f, disk)
  <2>1. h = [p \in DOMAIN h |-> h[p]]
    BY OverFunction
  <2>2. DOMAIN h = DOMAIN disk /\ \A p \in DOMAIN disk : h[p] = disk[p]
    <3>1. Laid(f)
      BY <1>3 DEF AgainRun, Still
    <3> HIDE DEF f
    <3> QED BY <3>1 DEF Laid, Over
  <2> HIDE DEF h
  <2>3. h = disk
    BY <2>1, <2>2, SameFunction DEF Again, IsTree
  <2> QED BY <1>1, <2>3 DEF h
<1> QED BY <1>1, <1>2, <1>3, MovesAgain

LEMMA CleanCrystalsAgain == ASSUME Inv, Again, CleanCrystals PROVE Again'
<1> DEFINE stale == StaleCrystals(run.d, run.crystal, DOMAIN run.staged)
           noted == {p \in stale : disk[p].notes}
           h == Over([p \in noted |-> NotesOnly], Drop(disk, stale))
<1>1. /\ run.pc = "crystals" /\ UNCHANGED <<project, graph, manifest, active, reads>>
      /\ disk' = h /\ run' = [run EXCEPT !.pc = "raw"]
  BY DEF CleanCrystals, Unchanged
<1>2. stale \subseteq DOMAIN disk
  BY DEF StaleCrystals
<1>3. AgainRun => \A p \in stale : disk[p] = NotesOnly
  BY DEF AgainRun, Still, NotesLeft
<1>4. noted = {p \in stale : disk[p].notes}
  OBVIOUS
<1> HIDE DEF stale, noted
<1>5. h = [p \in DOMAIN h |-> h[p]]
  BY OverFunction
<1>6. AgainRun => noted = stale
  BY <1>3, <1>4, NotesOnlyIs
<1>7. /\ DOMAIN h = noted \cup (DOMAIN disk \ stale)
      /\ \A p \in noted : h[p] = NotesOnly
      /\ \A p \in (DOMAIN disk \ stale) \ noted : h[p] = disk[p]
  BY DEF Over, Drop
<1> HIDE DEF h
<1>8. ASSUME AgainRun PROVE disk' = disk
  <2>1. DOMAIN h = DOMAIN disk /\ \A p \in DOMAIN disk : h[p] = disk[p]
    BY <1>2, <1>3, <1>6, <1>7, <1>8
  <2> QED BY <1>1, <1>5, <2>1, SameFunction DEF Again, IsTree
<1>9. IsTree'
  BY <1>1, <1>5 DEF IsTree
<1> QED BY <1>1, <1>8, <1>9, MovesAgain

LEMMA ConvergeAgain == ASSUME Inv, Course, Again, Converge PROVE Again'
<1> DEFINE found == FoundByReaders(run.d)
           again == [p \in {q \in DOMAIN run.staged : q.doc \in Embedding} |->
                        [run.staged[p] EXCEPT !.verdict = found]]
<1>1. /\ run.pc = "converge" /\ UNCHANGED <<project, graph, manifest, active, reads>>
      /\ \/ /\ found = run.verdict /\ run' = [run EXCEPT !.pc = "crystals"]
            /\ UNCHANGED <<disk, settled>>
         \/ /\ found # run.verdict /\ run' = Idle /\ settled' = None /\ UNCHANGED disk
         \/ /\ found # run.verdict /\ disk' = Over(again, disk) /\ UNCHANGED settled
            /\ run' = [run EXCEPT !.renders = @ + 1, !.verdict = found, !.staged = Over(again, @)]
  BY DEF Converge, ConvergeWithin, Unchanged, Embedding
<1>2. AgainRun => found = run.verdict
  BY DEF AgainRun
<1> HIDE DEF again, found
<1>3. CASE run' = [run EXCEPT !.pc = "crystals"] /\ UNCHANGED disk
  <2>1. IsTree'
    BY <1>3 DEF Again, IsTree
  <2> QED BY <1>1, <1>3, <2>1, MovesAgain
<1>4. CASE run' = Idle /\ settled' = None /\ UNCHANGED disk
  BY <1>4, IdleIs DEF Again, IsTree
<1>5. CASE /\ found # run.verdict /\ disk' = Over(again, disk)
           /\ run' = [run EXCEPT !.renders = @ + 1, !.verdict = found, !.staged = Over(again, @)]
  <2>1. IsTree'
    BY <1>5, OverFunction DEF IsTree
  <2> DEFINE f == Over(again, run.staged)
  <2>2. IsRun(run) /\ run' = [run EXCEPT !.renders = @ + 1, !.verdict = found, !.staged = f]
    BY <1>5, Zenon DEF Inv, Bundle
  <2> HIDE DEF f
  <2>3. run'.pc = run.pc
    BY ONLY <2>2, RunRenders
  <2>4. run'.again = run.again
    BY ONLY <2>2, RunRendersRest
  <2>5. ~run.again
    BY <1>1, <1>2, <1>5 DEF Again
  <2> QED BY <1>1, <2>1, <2>3, <2>4, <2>5 DEF Again
<1> QED BY <1>1, <1>3, <1>4, <1>5

LEMMA ReturnAgain == ASSUME Inv, Course, Again, Return PROVE Again'
<1>1. /\ run.pc = "finished" /\ run' = Idle
      /\ UNCHANGED <<disk, settled, project, graph, manifest, active, reads>>
  BY DEF Return, Unchanged
<1>2. /\ settled = <<run.d, run.spec, run.profile, run.crystal>>
      /\ run.staged = Staged(run.d, run.spec, run.profile, run.crystal, FoundByReaders(run.d))
      /\ Still(run.d, run.spec, run.profile, run.crystal, run.staged)
  BY <1>1 DEF Course, Rendering, Still, Converged, AfterCrystals, AfterRaw, AfterShards, AfterGen,
              AfterFramework
<1>3. Fixed(run.d, run.spec, run.profile, run.crystal)
  BY <1>2 DEF Fixed
<1> PICK d, spec, profile, crystal :
      d = run.d /\ spec = run.spec /\ profile = run.profile /\ crystal = run.crystal
  OBVIOUS
<1>4. Fixed(d, spec, profile, crystal)'
  BY <1>1, <1>3, FixedSame
<1>5. settled' = <<d, spec, profile, crystal>>
  BY <1>1, <1>2
<1>6. IsTree' /\ run'.pc = "idle"
  BY <1>1, IdleIs DEF Again, IsTree
<1> QED BY <1>4, <1>5, <1>6 DEF Again

LEMMA GenSpecAgain ==
    ASSUME Inv, Again, NEW d \in Here.domains, NEW includeSpec \in BOOLEAN, NEW override \in Overrides,
           NEW explicit \in BOOLEAN, GenSpec(d, includeSpec, override, explicit)
    PROVE  Again'
<1> DEFINE m == manifest[d]
           spec == includeSpec \/ Multilingual(m)
           profile == IF override = "" THEN m.profile ELSE override
           crystal == explicit \/ ConventionExists
           verdict == FoundByReaders(d)
           staged == Staged(d, spec, profile, crystal, verdict)
           input == <<d, spec, profile, crystal>>
           again == settled = input
           before == IF again THEN disk ELSE <<>>
           next == [pc |-> "publish", d |-> d, spec |-> spec, profile |-> profile,
                    crystal |-> crystal, staged |-> staged, verdict |-> verdict,
                    renders |-> 0, again |-> again, before |-> before]
<1>1. /\ run.pc = "idle" /\ UNCHANGED <<disk, project, graph, manifest, active, reads>>
      /\ (UNCHANGED run /\ settled' = None) \/ run' = next
  BY DEF GenSpec, Unchanged
<1>2. IsTree'
  BY <1>1 DEF Again, IsTree
<1>3. CASE UNCHANGED run /\ settled' = None
  BY <1>1, <1>2, <1>3 DEF Again
<1>4. CASE run' = next
  <2>1. input # None
    <3>1. spec \in BOOLEAN /\ crystal \in BOOLEAN
      BY DEF ConventionExists
    <3>2. project \in DOMAIN Projects /\ m \in Here.manifests
      BY DEF Inv, Inputs
    <3> DEFINE P(name) == {n.profile : n \in Projects[name].manifests}
               X == UNION {Projects[name].domains : name \in DOMAIN Projects}
               Y == Overrides \cup UNION {P(name) : name \in DOMAIN Projects}
    <3>3. profile \in Y
      <4>1. m.profile \in P(project)
        BY <3>2 DEF Here
      <4> HIDE DEF P, m
      <4>2. m.profile \in UNION {P(name) : name \in DOMAIN Projects}
        BY <3>2, <4>1
      <4> QED BY <4>2
    <3>4. d \in X
      BY <3>2 DEF Here
    <3>5. None \notin X \X BOOLEAN \X Y \X BOOLEAN
      BY PublicationAssumption
    <3> HIDE DEF spec, crystal, profile, m, X, Y, P
    <3> QED BY <3>1, <3>3, <3>4, <3>5
  <2>2. again => Fixed(d, spec, profile, crystal)
    <3> HIDE DEF spec, crystal, profile, verdict, staged
    <3>1. ASSUME again
          PROVE  \E e, s, q, c : settled = <<e, s, q, c>> /\ Fixed(e, s, q, c)
      BY <1>1, <2>1, <3>1 DEF Again
    <3>2. ASSUME again PROVE Fixed(d, spec, profile, crystal)
      <4>1. PICK e, s, q, c : settled = <<e, s, q, c>> /\ Fixed(e, s, q, c)
        BY <3>1, <3>2
      <4>2. e = d /\ s = spec /\ q = profile /\ c = crystal
        BY <3>2, <4>1
      <4> QED BY <4>1, <4>2
    <3> QED BY <3>2
  <2>3. again => Still(d, spec, profile, crystal, staged)
    BY <2>2 DEF Fixed
  <2>4. again => before = disk
    OBVIOUS
  <2> PICK s, q, c, v, t : s = spec /\ q = profile /\ c = crystal /\ v = verdict /\ t = staged
    OBVIOUS
  <2>5. v = FoundByReaders(d)' /\ (again => Still(d, s, q, c, t)')
    <3>1. FoundByReaders(d)' = FoundByReaders(d)
      BY <1>1, ReadersSame DEF Steady
    <3>2. ASSUME again PROVE Still(d, s, q, c, t)'
      <4>1. Still(d, s, q, c, t)
        BY <2>3, <3>2
      <4> QED BY <1>1, <4>1, StillSame
    <3> QED BY <3>1, <3>2
  <2> HIDE DEF spec, profile, crystal, verdict, staged, again, before
  <2>6. /\ run'.pc = "publish" /\ run'.d = d /\ run'.spec = s /\ run'.profile = q
        /\ run'.crystal = c /\ run'.verdict = v /\ run'.staged = t /\ run'.again = again
        /\ run'.before = before
    BY <1>4
  <2>7. again => AgainRun'
    BY <1>1, <2>4, <2>5, <2>6 DEF AgainRun
  <2> QED BY <1>2, <2>6, <2>7 DEF Again
<1> QED BY <1>1, <1>3, <1>4

LEMMA StutterAgain == ASSUME Again, UNCHANGED vars PROVE Again'
<1>1. UNCHANGED <<project, disk, graph, manifest, active, reads, run, settled>>
  BY DEF vars
<1>2. \A d, spec, profile, crystal :
        Fixed(d, spec, profile, crystal) => Fixed(d, spec, profile, crystal)'
  BY <1>1, FixedSame
<1>3. AgainRun => AgainRun'
  BY <1>1, QuietStep
<1>4. IsTree'
  BY <1>1 DEF Again, IsTree
<1> QED BY <1>1, <1>2, <1>3, <1>4 DEF Again

\* A step after which no run is in progress and none is remembered.
LEMMA ForgetAgain == ASSUME IsTree', run'.pc = "idle", settled' = None PROVE Again'
  BY DEF Again

LEMMA EditAgain ==
    ASSUME Again,
           \/ \E d \in Here.domains : \/ ChangeGraph(d) \/ ChangeManifest(d) \/ SwitchActive(d)
                                      \/ \E json \in BOOLEAN : EvidenceWrite(d, json)
           \/ \E p \in Here.authored : Author(p)
           \/ \E p \in DOMAIN disk : TakeNotes(p) \/ RemoveTorn(p)
    PROVE  Again'
<1>1. Edit
  BY DEF ChangeGraph, ChangeManifest, SwitchActive, EvidenceWrite, Author, TakeNotes, RemoveTorn
<1>2. run'.pc = "idle" /\ settled' = None
  BY <1>1 DEF Edit
<1>3. ASSUME NEW d, ChangeGraph(d) \/ ChangeManifest(d) \/ SwitchActive(d) PROVE IsTree'
  <2>1. UNCHANGED disk
    BY <1>3 DEF ChangeGraph, ChangeManifest, SwitchActive
  <2> QED BY <2>1 DEF Again, IsTree
<1>4. ASSUME NEW d, NEW json, EvidenceWrite(d, json) PROVE IsTree'
  <2>1. \E f, g : disk' = Over(f, g)
    BY <1>4 DEF EvidenceWrite
  <2> QED BY <2>1, OverFunction DEF IsTree
<1>5. ASSUME NEW p, Author(p) PROVE IsTree'
  <2>1. \E f, g : disk' = Over(f, g)
    BY <1>5 DEF Author
  <2> QED BY <2>1, OverFunction DEF IsTree
<1>6. ASSUME NEW p \in DOMAIN disk, TakeNotes(p) \/ RemoveTorn(p) PROVE IsTree'
  BY <1>6 DEF TakeNotes, RemoveTorn, IsTree, Drop
<1>7. IsTree'
  BY <1>3, <1>4, <1>5, <1>6
<1> QED BY <1>2, <1>7, ForgetAgain

LEMMA EndedAgain == ASSUME Again, WriteBundleFails \/ CutOff PROVE Again'
<1>1. run'.pc = "idle" /\ settled' = None
  BY IdleIs DEF WriteBundleFails, CutOff
<1>2. CASE WriteBundleFails
  <2>1. \E f, g : disk' = Over(f, g)
    <3>1. PICK lost, torn :
            disk' = LET left == Over(Drop(run.staged, {lost}), disk)
                    IN  IF torn THEN Over(At(lost, Torn), left) ELSE left
      BY <1>2 DEF WriteBundleFails
    <3> QED BY <3>1
  <2> QED BY <1>1, <2>1, OverFunction, ForgetAgain DEF IsTree
<1>3. CASE CutOff
  BY <1>1, <1>3, ForgetAgain DEF CutOff, Again, IsTree
<1> QED BY <1>2, <1>3

LEMMA AgainInit == Init => Again
<1> SUFFICES ASSUME Init PROVE Again
  OBVIOUS
<1>1. disk = <<>> /\ settled = None /\ run.pc = "idle"
  BY IdleIs DEF Init
<1>2. IsTree
  BY <1>1 DEF IsTree
<1> QED BY <1>1, <1>2 DEF Again

LEMMA AgainStep == ASSUME Inv, Course, Again, [Next]_vars PROVE Again'
<1>1. ASSUME NEW d \in Here.domains, NEW spec \in BOOLEAN, NEW explicit \in BOOLEAN,
             NEW override \in Overrides, GenSpec(d, spec, override, explicit)
      PROVE  Again'
  BY <1>1, GenSpecAgain
<1> QED BY <1>1, StutterAgain, EditAgain, EndedAgain, WriteBundleAgain, ConvergeAgain,
           CleanCrystalsAgain, CleanupsAgain, ReturnAgain DEF Next

\* A run on what the same run left ends with the tree it found: what a run
\* reads of its own outputs does not feed back (invariant RerunChangesNothing;
\* convergeCrystalReaders, evidenceReportBundleState).
THEOREM RerunsChangeNothing == Spec => []RerunChangesNothing
<1>1. Init => Inv /\ Course /\ Again
  BY InvInit, CourseInit, AgainInit
<1>2. Inv /\ Course /\ Again /\ [Next]_vars => (Inv /\ Course /\ Again)'
  BY InvStep, CourseStep, AgainStep
<1>3. Again => RerunChangesNothing
  BY DEF Again, AgainRun, RerunChangesNothing
<1> QED BY <1>1, <1>2, <1>3, PTL DEF Spec

-----------------------------------------------------------------------------
(* What a run makes of the other domains                                    *)

\* The paths at which a step of a run may change the tree: its domain's, those
\* of its crystal, and shared ones which it writes or which nobody else owns.
Touched(p) ==
    \/ p.at = run.d
    \/ p.at = CrystalDir(run.d) /\ p.doc \in CrystalDocs
    \/ p.at = "framework" /\ p \in DOMAIN run.staged
    \/ /\ p.at = "framework" /\ p \notin DOMAIN disk'
       /\ \A e \in Here.domains \ {run.d} : manifest[e].profile # Full

Confined ==
    /\ UNCHANGED <<project, graph, manifest, active>>
    /\ \A p : Steady(p) \/ Touched(p)
    /\ Path("root", "CLAUDE", "") \in DOMAIN disk => Path("root", "CLAUDE", "") \in DOMAIN disk'

LEMMA StagedTouched ==
    ASSUME Inv, Rendering, run.pc # "idle", NEW p \in DOMAIN run.staged
    PROVE  Touched(p)
<1>1. /\ p.doc \in CrystalDocs => p.at = CrystalDir(run.d)
      /\ p.doc \notin Framework \cup CrystalDocs => p.at = run.d
      /\ p.doc \in Framework => p.at = "framework"
  BY StagedByOption
<1> QED BY <1>1 DEF Touched

\* A step that only adds or replaces files of the bundle.
LEMMA WritesConfined ==
    ASSUME Inv, Rendering, run.pc # "idle", UNCHANGED <<project, graph, manifest, active>>,
           DOMAIN disk \subseteq DOMAIN disk', \A p : p \notin DOMAIN run.staged => Steady(p)
    PROVE  Confined
  BY StagedTouched DEF Confined

LEMMA WriteBundleConfined ==
    ASSUME Inv, Rendering, WriteBundle \/ WriteBundleFails
    PROVE  Confined
<1> DEFINE f == run.staged
<1>1. run.pc # "idle" /\ UNCHANGED <<project, graph, manifest, active>>
  BY DEF WriteBundle, WriteBundleFails, Unchanged
<1>2. CASE WriteBundle
  <2>1. disk' = Over(f, disk)
    BY <1>2 DEF WriteBundle
  <2> HIDE DEF f
  <2>2. DOMAIN disk \subseteq DOMAIN disk' /\ \A p : p \notin DOMAIN f => Steady(p)
    BY <2>1 DEF Over, Steady
  <2> QED BY <1>1, <2>2, WritesConfined DEF f
<1>3. CASE WriteBundleFails
  <2>1. PICK lost \in DOMAIN f, torn \in BOOLEAN :
          disk' = LET left == Over(Drop(f, {lost}), disk)
                  IN  IF torn THEN Over(At(lost, Torn), left) ELSE left
    BY <1>3 DEF WriteBundleFails
  <2> HIDE DEF f
  <2> DEFINE left == Over(Drop(f, {lost}), disk)
             half == Over(At(lost, Torn), left)
  <2>2. disk' = left \/ disk' = half
    BY <2>1
  <2>3. /\ DOMAIN left = (DOMAIN f \ {lost}) \cup DOMAIN disk
        /\ \A p \in DOMAIN disk : p \notin DOMAIN f => left[p] = disk[p]
    BY DEF Over, Drop
  <2> HIDE DEF left
  <2>4. /\ DOMAIN half = DOMAIN left \cup {lost}
        /\ \A p \in DOMAIN left \ {lost} : half[p] = left[p]
    BY DEF Over, At
  <2> HIDE DEF half
  <2>5. lost \in DOMAIN f
    BY <2>1
  <2>6. DOMAIN disk \subseteq DOMAIN disk' /\ \A p : p \notin DOMAIN f => Steady(p)
    <3>1. CASE disk' = left
      BY <2>3, <2>5, <3>1 DEF Steady
    <3>2. CASE disk' = half
      BY <2>3, <2>4, <2>5, <3>2 DEF Steady
    <3> QED BY <2>2, <3>1, <3>2
  <2> QED BY <1>1, <2>6, WritesConfined DEF f
<1> QED BY <1>2, <1>3

LEMMA ConvergeConfined ==
    ASSUME Inv, Rendering, Converge
    PROVE  Confined
<1> DEFINE found == FoundByReaders(run.d)
           S == {q \in DOMAIN run.staged : q.doc \in Embedding}
           again == [p \in S |-> [run.staged[p] EXCEPT !.verdict = found]]
<1>1. /\ run.pc # "idle" /\ UNCHANGED <<project, graph, manifest, active>>
      /\ disk' = disk \/ disk' = Over(again, disk)
  BY DEF Converge, ConvergeWithin, Unchanged, Embedding
<1>2. DOMAIN again = S /\ S \subseteq DOMAIN run.staged
  OBVIOUS
<1> HIDE DEF again
<1>3. DOMAIN disk \subseteq DOMAIN disk' /\ \A p : p \notin DOMAIN run.staged => Steady(p)
  BY <1>1, <1>2 DEF Over, Steady
<1> QED BY <1>1, <1>3, WritesConfined

\* A cleanup that removes what it may touch, the crystals of no language aside.
LEMMA CleanConfined ==
    ASSUME NEW pc, NEW next, NEW stale, Clean(pc, next, stale),
           \A p \in stale : /\ p.doc # "CLAUDE"
                            /\ \/ p.at = run.d
                               \/ /\ p.at = "framework"
                                  /\ \A e \in Here.domains \ {run.d} : manifest[e].profile # Full
    PROVE  Confined
<1>1. UNCHANGED <<project, graph, manifest, active>> /\ disk' = Drop(disk, stale)
  BY DEF Clean, Unchanged
<1>2. DOMAIN disk' = DOMAIN disk \ stale /\ \A p \in DOMAIN disk \ stale : disk'[p] = disk[p]
  BY <1>1 DEF Drop
<1>3. \A p : Steady(p) \/ Touched(p)
  <2> SUFFICES ASSUME NEW p, p \in stale PROVE Touched(p)
    BY <1>2 DEF Steady
  <2> QED BY <1>2 DEF Touched
<1>4. Path("root", "CLAUDE", "").doc = "CLAUDE"
  BY DEF Path
<1>5. Path("root", "CLAUDE", "") \in DOMAIN disk => Path("root", "CLAUDE", "") \in DOMAIN disk'
  BY <1>2, <1>4
<1> QED BY <1>1, <1>3, <1>5 DEF Confined

LEMMA CleanupsConfined ==
    ASSUME Inv, CleanRaw \/ CleanShards \/ CleanGenFiles \/ CleanFramework \/ CleanEvidence
    PROVE  Confined
<1>1. CASE CleanRaw
  <2> DEFINE q == Path(run.d, "evidence.json", "")
             stale == {p \in {q} : IsGenerated(p) /\ \E y \in DOMAIN run.staged : y.doc = "EVIDENCE"}
  <2>0. q.doc = "evidence.json" /\ q.at = run.d
    BY DEF Path
  <2>1. \A p \in stale : p.doc # "CLAUDE" /\ p.at = run.d
    <3> HIDE DEF q
    <3> QED BY <2>0
  <2>2. Clean("raw", "spec", stale)
    BY <1>1 DEF CleanRaw
  <2> HIDE DEF stale
  <2> QED BY <2>1, <2>2, CleanConfined
<1>2. CASE CleanShards
  <2> DEFINE stale == IF run.spec THEN StaleShards(run.d, DOMAIN run.staged) ELSE {}
  <2>1. \A p \in stale : p.doc # "CLAUDE" /\ p.at = run.d
    BY PublicationAssumption DEF StaleShards, CrystalDocs
  <2>2. Clean("spec", "gen", stale)
    BY <1>2 DEF CleanShards
  <2> HIDE DEF stale
  <2> QED BY <2>1, <2>2, CleanConfined
<1>3. CASE CleanGenFiles
  <2> DEFINE stale == StaleGenFiles(run.d, manifest[run.d], DOMAIN run.staged, run.spec)
  <2>1. \A p \in stale : p.doc # "CLAUDE" /\ p.at = run.d
    <3>1. "CLAUDE" \notin DomainDocs
      BY PublicationAssumption DEF DomainDocs, SpecDocs, Views, ReportDocs, CrystalDocs
    <3> QED BY <3>1 DEF StaleGenFiles
  <2>2. Clean("gen", "framework", stale)
    BY <1>3 DEF CleanGenFiles
  <2> HIDE DEF stale
  <2> QED BY <2>1, <2>2, CleanConfined
<1>4. CASE CleanFramework
  <2> DEFINE stale == StaleFrameworkFiles(run.d, manifest[run.d], run.profile, DOMAIN run.staged)
  <2>1. ASSUME NEW p \in stale
        PROVE  /\ p.doc # "CLAUDE" /\ p.at = "framework"
               /\ \A e \in Here.domains \ {run.d} : manifest[e].profile # Full
    <3>1. ~(IF run.profile = Full THEN HasOtherFullProfile(run.d) ELSE UsesFullProfile)
      BY DEF StaleFrameworkFiles
    <3>2. ~HasOtherFullProfile(run.d)
      BY <3>1 DEF HasOtherFullProfile, UsesFullProfile
    <3>3. p.at = "framework" /\ p.doc \in Framework
      BY <3>1 DEF StaleFrameworkFiles
    <3> QED BY <3>2, <3>3 DEF HasOtherFullProfile, Framework
  <2>2. Clean("framework", "evidence", stale)
    BY <1>4 DEF CleanFramework
  <2> HIDE DEF stale
  <2> QED BY <2>1, <2>2, CleanConfined
<1>5. CASE CleanEvidence
  <2> DEFINE stale == StaleEvidenceViews(run.d, manifest[run.d], DOMAIN run.staged)
  <2>1. \A p \in stale : p.doc # "CLAUDE" /\ p.at = run.d
    BY DEF StaleEvidenceViews
  <2>2. Clean("evidence", "finished", stale)
    BY <1>5 DEF CleanEvidence
  <2> HIDE DEF stale
  <2> QED BY <2>1, <2>2, CleanConfined
<1> QED BY <1>1, <1>2, <1>3, <1>4, <1>5

LEMMA CleanCrystalsConfined ==
    ASSUME Inv, Rendering, ConventionExists, CleanCrystals
    PROVE  Confined
<1> DEFINE stale == StaleCrystals(run.d, run.crystal, DOMAIN run.staged)
           noted == {p \in stale : disk[p].notes}
<1>1. UNCHANGED <<project, graph, manifest, active>>
      /\ disk' = Over([p \in noted |-> NotesOnly], Drop(disk, stale))
  BY DEF CleanCrystals, Unchanged
<1>2. \A p \in stale : p.at = CrystalDir(run.d) /\ p.doc \in CrystalDocs /\ p.lang # ""
  <2>1. run.crystal
    BY DEF Rendering
  <2> QED BY <2>1, PublicationAssumption DEF StaleCrystals, CrystalDocs
<1>3. noted \subseteq stale
  OBVIOUS
<1> HIDE DEF stale, noted
<1>4. \A p : p \notin stale => Steady(p)
  BY <1>1, <1>3 DEF Over, Drop, Steady
<1>5. \A p : Steady(p) \/ Touched(p)
  BY <1>2, <1>4 DEF Touched
<1>6. Path("root", "CLAUDE", "").lang = ""
  BY DEF Path
<1>7. Path("root", "CLAUDE", "") \in DOMAIN disk => Path("root", "CLAUDE", "") \in DOMAIN disk'
  BY <1>2, <1>4, <1>6 DEF Steady
<1> QED BY <1>1, <1>5, <1>7 DEF Confined

LEMMA StepConfined ==
    ASSUME Inv, Course, [Next]_vars, run.pc # "idle", disk' # disk, ConventionExists
    PROVE  Confined
<1>1. Rendering
  BY DEF Course
<1>2. ASSUME NEW d, NEW spec, NEW override, NEW explicit, GenSpec(d, spec, override, explicit)
      PROVE  FALSE
  BY <1>2 DEF GenSpec
<1>3. ~Edit
  BY DEF Edit
<1>4. ASSUME NEW d,
             \/ ChangeGraph(d) \/ ChangeManifest(d) \/ SwitchActive(d)
             \/ \E json \in BOOLEAN : EvidenceWrite(d, json)
      PROVE  FALSE
  BY <1>3, <1>4 DEF ChangeGraph, ChangeManifest, SwitchActive, EvidenceWrite
<1>5. ASSUME NEW p, TakeNotes(p) \/ RemoveTorn(p) \/ Author(p)
      PROVE  FALSE
  BY <1>3, <1>5 DEF TakeNotes, RemoveTorn, Author
<1>6. ~(Return \/ CutOff \/ UNCHANGED vars)
  BY DEF Return, CutOff, vars
<1> QED BY <1>1, <1>2, <1>4, <1>5, <1>6, WriteBundleConfined, ConvergeConfined, CleanupsConfined,
           CleanCrystalsConfined DEF Next

LEMMA OthersSteady ==
    ASSUME Inv, Confined, run.pc # "idle", NEW e \in Here.domains \ {run.d}, NEW p,
           p.at = e \/ p.at = CrystalDir(e)
    PROVE  Steady(p)
<1>1. /\ e # "framework" /\ e # "root" /\ run.d # "framework" /\ run.d # "root"
  BY OfDomain DEF Inv, Bundle
<1>2. ~Touched(p)
  BY <1>1 DEF Touched, CrystalDir
<1> QED BY <1>2 DEF Confined

\* What the checks expect of another domain is what they expected before.
LEMMA OthersExpected ==
    ASSUME Inv, Confined, run.pc # "idle", NEW e \in Here.domains \ {run.d},
           FoundByReaders(e)' = FoundByReaders(e)
    PROVE  Expected(e)' = Expected(e)
<1>1. UNCHANGED <<graph, manifest>>
  BY DEF Confined
<1>2. \A p : p.at = e => Steady(p)
  BY OthersSteady
<1>3. \A p : p.at = e => (IsGenerated(p)' <=> IsGenerated(p)) /\ (p \in DOMAIN disk' <=> p \in DOMAIN disk)
  BY <1>2 DEF Steady, IsGenerated
<1>4. SpecRequired(e, manifest[e])' <=> SpecRequired(e, manifest[e])
  BY <1>1, <1>3 DEF SpecRequired
<1>5. ReportPresent(e)' <=> ReportPresent(e)
  BY <1>3 DEF ReportPresent
<1>6. ExistingSpec(e, manifest[e])' = ExistingSpec(e, manifest[e])
  <2> DEFINE m == manifest[e]
             q == Path(e, "SPEC", "")
  <2>0. q.at = e
    BY DEF Path
  <2>1. m' = m
    BY <1>1
  <2> HIDE DEF q
  <2>2. CASE Localized(m)
    BY <1>3, <2>1, <2>2 DEF ExistingSpec
  <2>3. CASE ~Localized(m)
    <3>1. q \in DOMAIN disk' <=> q \in DOMAIN disk
      BY <1>3, <2>0
    <3>2. ExistingSpec(e, m)' = {p \in DOMAIN disk' : p = q} /\ ExistingSpec(e, m) = {p \in DOMAIN disk : p = q}
      BY <2>1, <2>3 DEF ExistingSpec, q
    <3> QED BY <3>1, <3>2
  <2> QED BY <2>2, <2>3
<1> DEFINE spec == SpecRequired(e, manifest[e])
<1>7. SpecPart(e, spec)' = SpecPart(e, spec)
  BY <1>1, <1>4 DEF SpecPart
<1>8. Listed(e, spec)' = Listed(e, spec)
  BY <1>4, <1>6, <1>7 DEF Listed
<1>9. ReportParts(e)' = ReportParts(e)
  BY <1>1, <1>5 DEF ReportParts
<1> DEFINE q == manifest[e].profile
           v == FoundByReaders(e)
           l == Listed(e, spec)
<1>10. ViewParts(e, q, v, l)' = ViewParts(e, q, v, l)
  <2>1. q' = q /\ v' = v /\ l' = l
    BY <1>1, <1>8
  <2> HIDE DEF q, v, l
  <2> QED BY <1>1, <2>1 DEF ViewParts
<1>11. ExpectedParts(e)' = ExpectedParts(e)
  BY <1>7, <1>9, <1>10 DEF ExpectedParts
<1> QED BY <1>11, ExpectedMerge DEF Expected, ExpectedParts, ViewParts, SpecPart, Listed, ReportParts

LEMMA ConventionStays ==
    ASSUME Confined, ConventionExists
    PROVE  ConventionExists'
  BY DEF Confined, ConventionExists, Here

LEMMA OthersCrystals ==
    ASSUME Inv, Confined, run.pc # "idle", ConventionExists, NEW e \in Here.domains \ {run.d},
           FoundByReaders(e)' = FoundByReaders(e)
    PROVE  StaleCrystalFiles(e)' = StaleCrystalFiles(e)
<1>1. UNCHANGED <<graph, manifest, active>> /\ Settings(e)
  BY OfDomain DEF Confined, Settings
<1>2. \A p : p.at = CrystalDir(e) => Steady(p)
  BY OthersSteady
<1>3. \A p : p.at = CrystalDir(e) => (TemplateShaped(p)' <=> TemplateShaped(p)) /\ (Noted(p)' <=> Noted(p))
  BY <1>2 DEF Steady, TemplateShaped, Noted
<1> PICK v : v = FoundByReaders(e)
  OBVIOUS
<1> DEFINE all == Crystals(e, manifest[e], graph[e], v)
<1>4. all' = all
  <2>1. \A p \in CrystalPaths(e) : Noted(p)' <=> Noted(p)
    BY <1>3, CrystalsDomain
  <2> QED BY <1>1, <2>1, CrystalsSame
<1>5. \A p \in DOMAIN all : p.at = CrystalDir(e)
  BY CrystalsDomain
<1>6. (TemplateShaped(Boot(e))' <=> TemplateShaped(Boot(e))) /\ ConventionExists'
  <2>1. Boot(e)' = Boot(e) /\ Boot(e).at = CrystalDir(e)
    BY <1>1 DEF Boot, CrystalDir, Path
  <2>2. PICK p : p = Boot(e)
    OBVIOUS
  <2>3. p = Boot(e)' /\ (TemplateShaped(p)' <=> TemplateShaped(p))
    BY <1>3, <2>1, <2>2
  <2> QED BY <2>2, <2>3, ConventionStays
<1> DEFINE kept(a) == [p \in {q \in DOMAIN a : q.doc = "CLAUDE"} |-> a[p]]
<1>7. /\ StaleCrystalFiles(e) = IF ConventionExists /\ TemplateShaped(Boot(e))
                                THEN Differing(kept(all)) ELSE {}
      /\ StaleCrystalFiles(e)' = IF ConventionExists' /\ TemplateShaped(Boot(e))'
                                 THEN Differing(kept(all))' ELSE {}
  <2>1. v = FoundByReaders(e)'
    OBVIOUS
  <2> QED BY <2>1 DEF StaleCrystalFiles
<1> HIDE DEF all
<1>8. Differing(kept(all))' = Differing(kept(all))
  <2> PICK a : a = all
    OBVIOUS
  <2>1. a = all'
    BY <1>4
  <2>2. Differing(kept(a))' = Differing(kept(a))
    <3>1. \A p \in DOMAIN a : Steady(p)
      BY <1>2, <1>5
    <3> QED BY <3>1 DEF Differing, Steady
  <2> QED BY <2>1, <2>2
<1> QED BY <1>6, <1>7, <1>8

LEMMA ExpectedPlaced ==
    ASSUME Inv, NEW e \in Here.domains, NEW p \in DOMAIN Expected(e)
    PROVE  \/ p.at = e
           \/ p.at = "framework" /\ p.doc \in Framework /\ manifest[e].profile = Full
<1>1. Settings(e)
  BY OfDomain DEF Settings
<1>2. PICK part \in ExpectedParts(e) : p \in DOMAIN part
  <2> DEFINE E == ExpectedParts(e)
  <2>1. p \in DOMAIN Merge(E)
    BY ExpectedMerge
  <2> HIDE DEF E
  <2>2. \E part \in E : p \in DOMAIN part
    BY <2>1 DEF Merge
  <2> QED BY <2>2 DEF E
<1> DEFINE spec == SpecRequired(e, manifest[e])
<1>3. CASE part \in ViewParts(e, manifest[e].profile, FoundByReaders(e), Listed(e, spec))
  BY <1>2, <1>3, ViewPlaced
<1>4. CASE part = SpecPart(e, spec)
  BY <1>1, <1>2, <1>4, SpecPartIs
<1>5. CASE part \in ReportParts(e)
  BY <1>1, <1>2, <1>5, ReportPartsAre
<1> QED BY <1>3, <1>4, <1>5 DEF ExpectedParts

LEMMA OthersFresh ==
    ASSUME Inv, Confined, run.pc # "idle", ConventionExists, NEW e \in Here.domains \ {run.d},
           FoundByReaders(e)' = FoundByReaders(e),
           NEW p \in StaleOutputs(e)', p \notin StaleOutputs(e)
    PROVE  WrittenHere(p)
<1>1. /\ UNCHANGED <<project, manifest>> /\ Here' = Here
      /\ manifest'[e] = manifest[e]
  BY DEF Confined, Here
<1>2. StaleCrystalFiles(e)' = StaleCrystalFiles(e)
  BY OthersCrystals
<1> PICK E : E = Expected(e)
  OBVIOUS
<1>3. E = Expected(e)'
  BY OthersExpected
<1> PICK m : m = manifest[e]
  OBVIOUS
<1>4. \A q : Steady(q) => /\ q \in DOMAIN disk' <=> q \in DOMAIN disk
                          /\ IsGenerated(q)' <=> IsGenerated(q)
                          /\ Owned(m, q)' <=> Owned(m, q)
                          /\ q \in Differing(E)' <=> q \in Differing(E)
  <2> SUFFICES ASSUME NEW q, Steady(q)
               PROVE  /\ q \in DOMAIN disk' <=> q \in DOMAIN disk
                      /\ IsGenerated(q)' <=> IsGenerated(q)
                      /\ Owned(m, q)' <=> Owned(m, q)
                      /\ q \in Differing(E)' <=> q \in Differing(E)
    OBVIOUS
  <2>1. (q \in DOMAIN disk' <=> q \in DOMAIN disk) /\ (IsGenerated(q)' <=> IsGenerated(q))
    BY DEF Steady, IsGenerated
  <2>2. Owned(m, q)' <=> Owned(m, q)
    BY <2>1 DEF Owned
  <2>3. q \in Differing(E)' <=> q \in Differing(E)
    BY DEF Steady, Differing
  <2> QED BY <2>1, <2>2, <2>3
<1>5. /\ StaleOutputs(e) = StaleCrystalFiles(e) \cup
            IF Localized(m)
            THEN Differing(E) \cup Obsolete(e, DOMAIN E) \cup ObsoleteShared(e, DOMAIN E)
            ELSE {q \in Differing(E) \cap DOMAIN disk : q.doc = "live-state"}
      /\ StaleOutputs(e)' = StaleCrystalFiles(e)' \cup
            IF Localized(m)
            THEN Differing(E)' \cup Obsolete(e, DOMAIN E)' \cup ObsoleteShared(e, DOMAIN E)'
            ELSE {q \in Differing(E)' \cap DOMAIN disk' : q.doc = "live-state"}
  BY <1>1, <1>3 DEF StaleOutputs
<1>6. ASSUME Steady(p) PROVE p \in StaleOutputs(e)
  <2>1. p \in Obsolete(e, DOMAIN E)' => p \in Obsolete(e, DOMAIN E)
    BY <1>1, <1>4, <1>6 DEF Obsolete
  <2>2. p \in ObsoleteShared(e, DOMAIN E)' => p \in ObsoleteShared(e, DOMAIN E)
    <3>1. HasOtherFullProfile(e)' <=> HasOtherFullProfile(e)
      BY <1>1 DEF HasOtherFullProfile
    <3> QED BY <1>1, <1>4, <1>6, <3>1 DEF ObsoleteShared
  <2> QED BY <1>2, <1>4, <1>5, <1>6, <2>1, <2>2
<1>7. p \notin StaleCrystalFiles(e)'
  BY <1>2, <1>5
<1>8. \/ p \in DOMAIN E /\ (p.at = e \/ (p.at = "framework" /\ m.profile = Full))
      \/ p \in DOMAIN disk' /\ (p.at = e \/ p.at = "framework")
  <2>1. p \in Differing(E)' \/ p \in Obsolete(e, DOMAIN E)' \/ p \in ObsoleteShared(e, DOMAIN E)'
    BY <1>5, <1>7
  <2>2. p \in Differing(E)' => p \in DOMAIN E
    BY DEF Differing
  <2>3. p \in Obsolete(e, DOMAIN E)' => p \in DOMAIN disk' /\ p.at = e
    BY DEF Obsolete
  <2>4. p \in ObsoleteShared(e, DOMAIN E)' => p \in DOMAIN disk' /\ p.at = "framework"
    BY DEF ObsoleteShared
  <2>5. p \in DOMAIN E => p.at = e \/ (p.at = "framework" /\ m.profile = Full)
    BY ExpectedPlaced
  <2> QED BY <2>1, <2>2, <2>3, <2>4, <2>5
<1>9. p.at # e /\ Touched(p)
  BY <1>6, OthersSteady DEF Confined
<1>10. e \in Here.domains \ {run.d} /\ "framework" # run.d /\ "framework" # CrystalDir(run.d)
  BY OfDomain DEF CrystalDir, Inv, Bundle
<1> QED BY <1>8, <1>9, <1>10 DEF Touched, WrittenHere

\* In a project with crystals no step of a run makes a file of another domain
\* stale, unless it is a shared one the run writes itself or that domain's
\* readers now find something else (property OthersStayFresh;
\* projectHasOtherFullProfile, cleanupStaleLocalizedCrystals).
THEOREM OthersAreSpared == Spec => OthersStayFresh
<1>1. Init => Inv /\ Course
  BY InvInit, CourseInit
<1>2. Inv /\ Course /\ [Next]_vars => (Inv /\ Course)'
  BY InvStep, CourseStep
<1>3. Inv /\ Course /\ [Next]_vars =>
        [run.pc # "idle" /\ disk' # disk /\ ConventionExists =>
            \A d \in Here.domains \ {run.d} : FoundByReaders(d)' = FoundByReaders(d) =>
                \A p \in StaleOutputs(d)' \ StaleOutputs(d) : WrittenHere(p)]_vars
  BY StepConfined, OthersFresh
<1> QED BY <1>1, <1>2, <1>3, PTL DEF Spec, OthersStayFresh
=============================================================================
