-------------------------- MODULE SourceClassifier --------------------------
(***************************************************************************)
(* Which sources of a project can import its generated facade              *)
(* (packages/compiler/src/classifier-candidate-shadow.ts, run by           *)
(* classifier-candidate.ts in its "production-proof" mode).                *)
(*                                                                         *)
(* Every module boundary of a project's sources is projected, by the       *)
(* compiler options and the package manifests, to the paths it could mean; *)
(* only a boundary that may mean the facade is resolved by the TypeScript  *)
(* resolver.  When anything about links, manifests or options makes the    *)
(* projection doubtful, the owner falls back: all boundaries are resolved, *)
(* and all of its sources are analyzed.                                    *)
(*                                                                         *)
(* Abstractions: a path is a sequence of names; a relative specifier is    *)
(* written as the path it means from its source; wildcards end a pattern;  *)
(* an observation of the file system stands for its hash; scanning gives   *)
(* the boundaries with their ordinals.  The worlds are one workspace with  *)
(* a package "intl" that holds the facade and three sources in two         *)
(* projects, varied one or two features at a time.                         *)
(***************************************************************************)
EXTENDS Naturals, FiniteSets, Sequences, SequencesExt

CONSTANT Nil   \* no value

VARIABLES
  world,      \* the options, manifests, links and sources of a workspace
  stage,      \* how far the classification has come
  topology,   \* reasons and package scopes found so far, per owner
  projection, \* projected paths and candidates of each boundary
  resolved,   \* the requests: what the resolver said of each boundary
  decided     \* decisions, requiresProgram and mode

classifier == <<world, stage, topology, projection, resolved, decided>>

App == <<"app">>
Gen == <<"app", "gen">>
Src == <<"app", "src">>
Facade == <<"app", "gen", "index.ts">>
SourceA == <<"app", "src", "a.ts">>
SourceC == <<"app", "src", "c.ts">>
SourceB == <<"lib", "b.ts">>
AllSources == {SourceA, SourceB, SourceC}
Projects == {"app", "lib"}
OwnerOf(source) == source[1]
SourcesOf(o) == {s \in AllSources : OwnerOf(s) = o}
Manifested == {<<>>, App, <<"lib">>}

Within(root, path) == IsPrefix(root, path)
DirName(path) == IF path = <<>> THEN <<"..">> ELSE Front(path)
After(prefix, path) == SubSeq(path, Len(prefix) + 1, Len(path))
Nearest(dirs) == CHOOSE d \in dirs : \A e \in dirs : Len(e) <= Len(d)

\* The file system: one directory may be a link.
Canonical(path) ==
  IF world.link # Nil /\ Within(world.link.from, path)
  THEN world.link.to \o After(world.link.from, path) ELSE path

Lexical(path) ==
  IF world.link # Nil /\ world.link.to = Gen /\ Within(world.link.from, path)
  THEN Canonical(path) ELSE path

Exists(path) ==
  Lexical(path) \in {<<>>, App, Gen, Src, <<"lib">>, Facade} \cup AllSources

\* realpath; a path that is not there stands for itself.
CanonicalProjectedPath(path) == IF Exists(path) THEN Canonical(path) ELSE path

----------------------------------------------------------------------------
(* Package manifests                                                       *)

\* How deep lists and conditions are nested in a target.
TargetDepth == 2

\* What a target is made of, as far as it is active: the entries of a list;
\* of conditions, the first that is active.
TargetParts(value, conditions) ==
  CASE value.kind = "list" -> Range(value.entries)
    [] value.kind = "when" ->
         {IF value.condition \in conditions THEN value.then ELSE value.otherwise}
    [] OTHER -> {}

\* The paths a target leaves: itself, none for null, those of its parts; a
\* list must leave one.
PackageTargetProof(value, conditions) ==
  LET parts(v) == TargetParts(v, conditions)
      within[n \in 0..TargetDepth] ==
        IF n = 0 THEN {value}
        ELSE within[n - 1] \cup UNION {parts(v) : v \in within[n - 1]}
      proof[v \in within[TargetDepth]] ==
        LET proofs == {proof[w] : w \in parts(v)}
            targets == IF v.kind = "path" THEN {v}
                       ELSE UNION {p.targets : p \in proofs}
        IN  [ambiguous |-> \/ \E p \in proofs : p.ambiguous
                           \/ v.kind = "list" /\ Cardinality(targets) > 1,
             targets |-> targets]
  IN  proof[value]

ActiveConditions(mode) ==
  {"types", IF mode = "require" THEN "require" ELSE "import"}

\* A path, without its extension, and without a final index.
TargetForms(path) ==
  LET stem == IF path # <<>> /\ Last(path) = "index.ts"
              THEN Append(Front(path), "index") ELSE path
  IN  {path, stem} \cup IF stem # <<>> /\ Last(stem) = "index"
                        THEN {Front(stem)} ELSE {}

\* The first form that a wildcard can stand for the rest of, the directory
\* before the file.
WildcardForm(prefix, forms) ==
  CHOOSE f \in forms :
    /\ Within(prefix, f) /\ f # prefix
    /\ \A g \in forms : Within(prefix, g) /\ g # prefix =>
         Len(f) < Len(g) \/ (Len(f) = Len(g) /\ Last(g) \in {"index.ts", Last(f)})

\* The specifiers that the exports of the facade's package give the facade;
\* t.star says how a target ends: "", "*" or "*.ts".
FacadeSpecifiersFromExports(name, root, exports, conditions) ==
  LET file == After(root, Facade)
      forms == TargetForms(file)
      proof(e) == PackageTargetProof(e.target, conditions)
      named(e, t) ==
        CASE t.star = "" ->
               IF TargetForms(t.path) \cap forms = {} THEN {} ELSE {<<>>}
          [] t.star = "*" /\ e.star /\ Within(t.path, file) ->
               {After(t.path, WildcardForm(t.path, forms))}
          [] t.star = "*.ts" /\ e.star /\ Within(t.path, file) ->
               {After(t.path, Append(Front(file), "index"))}
          [] OTHER -> {}
      ambiguous == \E e \in exports : proof(e).ambiguous
  IN  [ambiguous |-> ambiguous,
       specifiers |-> IF ambiguous THEN {} ELSE
         UNION {{<<name>> \o e.subpath \o wildcard :
                   wildcard \in UNION {named(e, t) : t \in proof(e).targets}} :
                  e \in exports}]

\* The directories from one up that have a manifest.
ManifestsAbove(dir) ==
  {d \in Manifested : Within(d, dir) /\ world.manifests[d] # Nil}

\* bindPackageTopology: one of the directories is a link.
LinkedTopology(dir) ==
  world.link # Nil /\ Within(world.link.from, dir)

\* The package of the facade: the nearest manifest with a name.
FacadePackage ==
  LET named == {d \in ManifestsAbove(Gen) : world.manifests[d].name # Nil}
  IN  IF named = {} THEN Nil ELSE Nearest(named)

FacadeProofs ==
  IF FacadePackage = Nil \/ world.manifests[FacadePackage].exports = Nil
  THEN {}
  ELSE {FacadeSpecifiersFromExports(world.manifests[FacadePackage].name,
          FacadePackage, world.manifests[FacadePackage].exports,
          ActiveConditions(mode)) : mode \in {"import", "require"}}

FacadeSpecifiers ==
  IF FacadePackage = Nil THEN {}
  ELSE IF world.manifests[FacadePackage].exports = Nil
  THEN {<<world.manifests[FacadePackage].name>>}
  ELSE UNION {p.specifiers : p \in FacadeProofs}

----------------------------------------------------------------------------
(* Projections                                                             *)

Matching(patterns, path) ==
  {p \in patterns : IF p.star THEN Within(p.prefix, path) /\ path # p.prefix
                    ELSE path = p.prefix}

\* The exact pattern, or the one with the longest prefix.
Winning(patterns, path) ==
  LET all == Matching(patterns, path)
      exact == {p \in all : ~p.star}
  IN  CHOOSE p \in all : IF exact # {} THEN p \in exact
                         ELSE \A q \in all : Len(p.prefix) >= Len(q.prefix)

\* winningPackageMapTarget, in the imports of a manifest.
WinningPackageMapTarget(imports, path) ==
  IF imports = Nil \/ Matching(imports, path) = {} THEN Nil
  ELSE Winning(imports, path)

\* winningPathSubstitutions
WinningPathSubstitutions(options, path) ==
  LET p == Winning(options.paths, path)
      rest == After(p.prefix, path)
  IN  [n \in DOMAIN p.to |-> p.to[n] \o rest]

\* A path relative to one directory, taken from another.
Rebase(from, to, path) ==
  LET common == LongestCommonPrefix({from, path})
      up == Len(from) - Len(common)
  IN  SubSeq(to, 1, Len(to) - up) \o After(common, path)

\* The positions of the root directories that hold a source.
ContainingRoots(source, options) ==
  {n \in DOMAIN options.rootDirs : Within(options.rootDirs[n], DirName(source))}

\* What a specifier could mean, and why.
ProjectedPaths(source, boundary, options) ==
  LET roots == ContainingRoots(source, options) IN
  IF boundary.form = "relative"
  THEN IF roots = {}
       THEN [paths |-> <<boundary.path>>, kind |-> "relative-direct"]
       ELSE [paths |-> [n \in DOMAIN options.rootDirs |->
                          Rebase(options.rootDirs[Min(roots)],
                                 options.rootDirs[n], boundary.path)],
             kind |-> "relative-root-dirs"]
  ELSE IF Matching(options.paths, boundary.path) # {}
  THEN [paths |-> WinningPathSubstitutions(options, boundary.path),
        kind |-> "tsconfig-paths"]
  ELSE IF options.baseUrl # Nil
  THEN [paths |-> <<options.baseUrl \o boundary.path>>,
        kind |-> "tsconfig-base-url"]
  ELSE [paths |-> <<>>, kind |-> "unmapped-external"]

NearFacade(path) == Within(Gen, path) \/ Within(path, Gen)

\* Mutant: only the first of several paths counts.
CandidateByFirstPath(boundary, paths) ==
  \/ boundary.form = "name" /\ boundary.path \in FacadeSpecifiers
  \/ paths # <<>> /\ NearFacade(Head(paths))

\* A specifier of the facade's package, or a path at or above the facade.
CandidateBySpecifier(boundary, paths) ==
  \/ boundary.form = "name" /\ boundary.path \in FacadeSpecifiers
  \/ \E n \in DOMAIN paths : NearFacade(paths[n])

\* packageImportCandidate: in the nearest manifest, whatever it lists.
PackageImportProof(source, boundary) ==
  LET above == ManifestsAbove(DirName(source))
      matched == IF above = {} THEN Nil
        ELSE WinningPackageMapTarget(world.manifests[Nearest(above)].imports,
                                     boundary.path)
      proof == PackageTargetProof(matched.target,
                                  ActiveConditions(boundary.mode))
      near(t) == IF t.name THEN t.path \in FacadeSpecifiers
        ELSE \E f \in TargetForms(Nearest(above) \o t.path) : NearFacade(f)
  IN  IF matched = Nil THEN [ambiguous |-> FALSE, candidate |-> FALSE]
      ELSE [ambiguous |-> proof.ambiguous,
            candidate |-> ~proof.ambiguous /\ \E t \in proof.targets : near(t)]

Candidate(source, boundary, paths) ==
  \/ boundary.form = "hash" /\ PackageImportProof(source, boundary).candidate
  \/ CandidateBySpecifier(boundary, paths)

Rows(source, boundary, options) ==
  LET projected == ProjectedPaths(source, boundary, options)
      evidence == IF projected.paths = <<>> THEN << <<>> >> ELSE projected.paths
      kind == IF boundary.form = "hash" THEN "package-imports"
              ELSE IF /\ boundary.form = "name"
                      /\ boundary.path \in FacadeSpecifiers
              THEN "facade-package-export" ELSE projected.kind
  IN  [n \in DOMAIN evidence |->
         [canonicalRoot |-> DirName(CanonicalProjectedPath(evidence[n])),
          lexicalRoot |-> DirName(evidence[n]), kind |-> kind]]

----------------------------------------------------------------------------
(* The TypeScript resolver, as far as the facade is concerned (external).  *)

IsFacade(path) == Lexical(path) \in TargetForms(Facade)

ExportsReach(path, mode) ==
  LET manifest == world.manifests[App]
      sub == Tail(path)
      patterns == {[prefix |-> e.subpath, star |-> e.star, target |-> e.target] :
                     e \in manifest.exports}
      e == Winning(patterns, sub)
      reaches(t) ==
        CASE t.star = "" -> App \o t.path = Facade
          [] t.star = "*" -> App \o t.path \o After(e.prefix, sub) = Facade
          [] t.star = "*.ts" -> LET p == App \o t.path \o After(e.prefix, sub)
                                IN  p = Append(Front(Facade), "index")
  IN  /\ Matching(patterns, sub) # {}
      /\ \E t \in PackageTargetProof(e.target, ActiveConditions(mode)).targets :
           reaches(t)

NameReaches(path, mode) ==
  /\ world.manifests[App] # Nil
  /\ Head(path) = world.manifests[App].name
  /\ IF world.manifests[App].exports # Nil THEN ExportsReach(path, mode)
     ELSE Tail(path) = <<>> \/ IsFacade(App \o Tail(path))

HashReaches(source, boundary) ==
  LET scope == Nearest(ManifestsAbove(DirName(source)))
      e == WinningPackageMapTarget(world.manifests[scope].imports, boundary.path)
  IN  /\ ManifestsAbove(DirName(source)) # {}
      /\ e # Nil
      /\ \E t \in PackageTargetProof(e.target,
                                     ActiveConditions(boundary.mode)).targets :
           IF t.name THEN NameReaches(t.path, boundary.mode)
           ELSE scope \o t.path = Facade

IsSource(path) == path \in AllSources

\* Does an import resolve to the facade: by the first substitution that is
\* there, otherwise, unless it is relative, by the manifests.
ResolvesToFacade(source, boundary) ==
  LET projected == ProjectedPaths(source, boundary,
                                  world.options[OwnerOf(source)]).paths
      there == SelectSeq(projected, LAMBDA p : IsFacade(p) \/ IsSource(p))
  IN  IF there # <<>> THEN IsFacade(Head(there))
      ELSE CASE boundary.form = "name" -> NameReaches(boundary.path, boundary.mode)
             [] boundary.form = "hash" -> HashReaches(source, boundary)
             [] OTHER -> FALSE

----------------------------------------------------------------------------
(* The worlds.                                                             *)

Target(path) == [kind |-> "path", path |-> path, star |-> "", name |-> FALSE]
StarTarget(path, star) == [Target(path) EXCEPT !.star = star]
PlainOptions == [paths |-> {}, baseUrl |-> Nil, rootDirs |-> <<>>, doubt |-> Nil]
File == <<"gen", "index.ts">>

OptionChoices ==
  {PlainOptions,
   [PlainOptions EXCEPT !.doubt = "preserve-symlinks"],
   [PlainOptions EXCEPT !.baseUrl = App],
   [PlainOptions EXCEPT !.rootDirs = <<Src, Gen>>],
   [PlainOptions EXCEPT !.paths =
      {[prefix |-> <<"@">>, star |-> TRUE, to |-> <<Src>>],
       [prefix |-> <<"@", "gen">>, star |-> TRUE, to |-> <<Src, Gen>>]}],
   [PlainOptions EXCEPT !.baseUrl = App, !.paths =
      {[prefix |-> <<"@">>, star |-> FALSE,
        to |-> <<Facade, Append(Gen, "index")>>]}]}

ExportChoices ==
  {Nil,
   {[subpath |-> <<>>, star |-> FALSE, target |-> Target(File)]},
   {[subpath |-> <<"m">>, star |-> TRUE, target |-> StarTarget(<<>>, "*")],
    [subpath |-> <<>>, star |-> FALSE, target |-> [kind |-> "null"]]},
   {[subpath |-> <<>>, star |-> TRUE, target |-> StarTarget(<<>>, "*.ts")]},
   {[subpath |-> <<>>, star |-> FALSE, target |->
       [kind |-> "when", condition |-> "require", then |-> Target(File),
        otherwise |-> Target(<<"src", "a.ts">>)]]},
   {[subpath |-> <<>>, star |-> FALSE, target |->
       [kind |-> "list", entries |-> <<Target(<<"src", "a.ts">>), Target(File)>>]]}}

ImportChoices ==
  {Nil,
   {[prefix |-> <<"#m">>, star |-> FALSE, target |-> Target(File)]},
   {[prefix |-> <<"#m">>, star |-> FALSE,
     target |-> [Target(<<"intl">>) EXCEPT !.name = TRUE]]}}

Manifest(name, exports, imports) ==
  [name |-> name, exports |-> exports, imports |-> imports]

ManifestsOf(root, app) ==
  [d \in Manifested |->
     CASE d = <<>> -> root [] d = App -> app [] OTHER -> Nil]

ManifestChoices ==
  {ManifestsOf(root, app) :
     root \in {Nil, Manifest("workspace", Nil, Nil)},
     app \in {Nil} \cup {Manifest("intl", e, i) :
                            e \in ExportChoices, i \in ImportChoices}}

LinkChoices ==
  {Nil, [from |-> Append(Src, "link"), to |-> Gen],
   [from |-> Gen, to |-> <<"store", "gen">>],
   [from |-> App, to |-> <<"store", "app">>]}

Boundary(form, path, mode) == [form |-> form, path |-> path, mode |-> mode]
Specifiers ==
  {Boundary("relative", path, "import") :
     path \in {Append(Gen, "index"), Append(Src, "index"), Append(Src, "c.ts"),
               <<"app", "src", "link", "index">>,
               <<"app", "src", "link", "index.ts">>}}
  \cup {Boundary("name", path, mode) : mode \in {"import", "require"},
          path \in {<<"@">>, <<"@", "gen", "index">>, <<"gen">>, <<"react">>,
                    <<"intl">>, <<"intl", "gen", "index">>,
                    <<"intl", "m", "gen", "index.ts">>}}
  \cup {Boundary("hash", <<"#m">>, "import")}

\* Two or three features of a workspace are varied at a time.
ToFacade == Boundary("relative", Append(Gen, "index"), "import")

WorkspaceOf(option, manifests, link, imports) ==
  [options |-> [o \in Projects |-> IF o = "app" THEN option ELSE PlainOptions],
   manifests |-> manifests, link |-> link,
   imports |-> [s \in AllSources |-> CASE s = SourceA -> imports.a
                                      [] s = SourceB -> imports.b
                                      [] s = SourceC -> imports.c],
   unknown |-> imports.unknown]

PlainManifests == ManifestsOf(Nil, Manifest("intl", Nil, Nil))

OneImport ==
  {[a |-> <<b>>, c |-> c, b |-> <<>>, unknown |-> {}] :
     b \in Specifiers, c \in {<<>>, <<ToFacade>>}}

TwoImports ==
  {[a |-> a, c |-> <<>>, b |-> b, unknown |-> u] :
     a \in {<<>>, <<ToFacade>>,
            <<Boundary("name", <<"react">>, "import"), ToFacade>>},
     b \in {<<>>, <<Boundary("name", <<"intl">>, "import")>>},
     u \in SUBSET {SourceA, SourceB}}

Worlds ==
  {WorkspaceOf(option, PlainManifests, link, i) :
     option \in OptionChoices, link \in LinkChoices, i \in OneImport}
  \cup {WorkspaceOf(PlainOptions, m, Nil, i) : m \in ManifestChoices, i \in OneImport}
  \cup {WorkspaceOf(PlainOptions, m, Nil, i) :
          m \in {n \in ManifestChoices : n[App] \in {Nil, PlainManifests[App]}},
          i \in TwoImports}

----------------------------------------------------------------------------
(* buildMiraiIntlCandidateCheckpointShadow                                 *)

ClassifierInit ==
  /\ world = Nil /\ stage = "idle"
  /\ topology = Nil /\ projection = Nil /\ resolved = Nil /\ decided = Nil

BeginClassification ==
  /\ stage = "idle"
  /\ stage' = "package"
  /\ world' \in Worlds
  /\ UNCHANGED <<topology, projection, resolved, decided>>

Boundaries(s) == DOMAIN world.imports[s]
HashSources(o) ==
  {s \in SourcesOf(o) :
     \E n \in Boundaries(s) : world.imports[s][n].form = "hash"}

\* The package of the facade, with its exports, and links above the facade.
BindFacadePackage ==
  /\ stage = "package"
  /\ stage' = "project"
  /\ topology' = [o \in Projects |->
       [reasons |->
          {r \in {"package-exports-ambiguous", "symlink-boundary-ambiguous"} :
             IF r = "package-exports-ambiguous"
             THEN \E p \in FacadeProofs : p.ambiguous
             ELSE LinkedTopology(Gen)},
        scopes |-> {FacadePackage} \ {Nil}]]
  /\ UNCHANGED <<world, projection, resolved, decided>>

\* ownerReasons: what makes the projections of an owner doubtful.
OwnerReasons(o, rows) ==
  LET options == world.options[o]
      sources == SourcesOf(o)
      all == UNION {{<<s, n>> : n \in Boundaries(s)} : s \in sources}
      imports == {PackageImportProof(x[1], world.imports[x[1]][x[2]]) :
                    x \in {y \in all :
                      world.imports[y[1]][y[2]].form = "hash"}}
      when(reason, doubtful) == IF doubtful THEN {reason} ELSE {}
  IN  ({options.doubt} \ {Nil})
      \cup when("package-imports-ambiguous", \E i \in imports : i.ambiguous)
      \cup when("root-dirs-ambiguous",
                /\ options.rootDirs # <<>>
                /\ \E x \in all : ContainingRoots(x[1], options) = {})
      \cup when("symlink-boundary-ambiguous",
                \/ \E s \in HashSources(o) : LinkedTopology(DirName(s))
                \/ \E x \in all : \E n \in DOMAIN rows[x[1]][x[2]] :
                     rows[x[1]][x[2]][n].canonicalRoot
                       # rows[x[1]][x[2]][n].lexicalRoot)

\* Every boundary is projected; an owner in doubt takes all of them for
\* candidates.  A "#" import binds every manifest above its source.
ProjectBoundaries ==
  LET rows == [s \in AllSources |-> [n \in Boundaries(s) |->
                 Rows(s, world.imports[s][n], world.options[OwnerOf(s)])]]
      reasons == [o \in Projects |->
                    topology[o].reasons \cup OwnerReasons(o, rows)]
  IN  /\ stage = "project"
      /\ stage' = "resolve"
      /\ topology' = [o \in Projects |->
           [reasons |-> reasons[o],
            scopes |-> topology[o].scopes \cup
              UNION {ManifestsAbove(DirName(s)) : s \in HashSources(o)}]]
      /\ projection' = [s \in AllSources |-> [n \in Boundaries(s) |->
           [rows |-> rows[s][n],
            candidate |->
              \/ reasons[OwnerOf(s)] # {}
              \/ Candidate(s, world.imports[s][n],
                   ProjectedPaths(s, world.imports[s][n],
                                  world.options[OwnerOf(s)]).paths)]]]
      /\ UNCHANGED <<world, resolved, decided>>

\* The selected boundaries are resolved.  A target that is gone before its
\* real path is known makes its owner resolve everything.
ResolveSelection ==
  /\ stage = "resolve"
  /\ stage' = "decide"
  /\ \E gone \in BOOLEAN :
       LET lost(s, n) == /\ gone /\ s = SourceA /\ n = 1
                         /\ projection[s][n].candidate
                         /\ ResolvesToFacade(s, world.imports[s][n])
           failed(o) == \E s \in SourcesOf(o) : \E n \in Boundaries(s) : lost(s, n)
           selected(s, n) == failed(OwnerOf(s)) \/ projection[s][n].candidate
       IN  /\ topology' = [o \in Projects |-> [topology[o] EXCEPT !.reasons = @ \cup
                 IF failed(o) THEN {"resolution-mode-ambiguous"} ELSE {}]]
           /\ projection' = [s \in AllSources |-> [n \in Boundaries(s) |->
                [projection[s][n] EXCEPT !.candidate = selected(s, n)]]]
           /\ resolved' = [s \in AllSources |-> [n \in Boundaries(s) |->
                CASE ~selected(s, n) -> "unrequested"
                  [] selected(s, n) /\ lost(s, n) -> "other"
                  [] OTHER -> IF ResolvesToFacade(s, world.imports[s][n])
                              THEN "facade" ELSE "other"]]
  /\ UNCHANGED <<world, decided>>

Decision(s) ==
  IF \E n \in Boundaries(s) : resolved[s][n] = "facade" THEN "facade-present"
  ELSE IF s \in world.unknown THEN "facade-unknown-active"
  ELSE "facade-absent"

\* An owner in doubt has every source analyzed.
Decide ==
  /\ stage = "decide"
  /\ stage' = "sealed"
  /\ decided' = [s \in AllSources |->
       [decision |-> Decision(s),
        requiresProgram |-> \/ topology[OwnerOf(s)].reasons # {}
                            \/ Decision(s) # "facade-absent"]]
  /\ UNCHANGED <<world, topology, projection, resolved>>

ClassifierNext ==
  \/ BeginClassification \/ BindFacadePackage \/ ProjectBoundaries
  \/ ResolveSelection \/ Decide

ClassifierSpec == ClassifierInit /\ [][ClassifierNext]_classifier

----------------------------------------------------------------------------
\* What the projections are known to miss: an unextended path through a
\* directory that is a link; a file of the facade's package by its path, when
\* the package has no exports; a whole file name in place of a wildcard.
ThroughLink(b) ==
  /\ b.form = "relative" /\ world.link # Nil
  /\ Within(world.link.from, b.path) /\ ~Exists(b.path)
DeepImport(b) ==
  /\ b.form = "name" /\ world.manifests[App] # Nil
  /\ Head(b.path) = world.manifests[App].name /\ Len(b.path) > 1
  /\ \/ world.manifests[App].exports = Nil
     \/ Last(b.path) = "index.ts"

(* A source that is left out of the analysis imports the facade nowhere:   *)
(* no mapping of paths, root directories, package exports or imports, and  *)
(* no link leads one of its boundaries there, except those above           *)
(* (classifier-candidate-shadow.ts, "false negative boundaries").          *)
AbsentIsAbsent ==
  stage = "sealed" =>
    \A s \in AllSources : ~decided[s].requiresProgram =>
      \A n \in Boundaries(s) :
        ResolvesToFacade(s, world.imports[s][n]) =>
          ThroughLink(world.imports[s][n]) \/ DeepImport(world.imports[s][n])
=============================================================================
