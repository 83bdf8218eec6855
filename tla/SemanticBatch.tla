---------------------------- MODULE SemanticBatch ----------------------------
(***************************************************************************)
(* The semantic analysis of the sources of one owner                       *)
(* (packages/compiler/src/transform.ts, transformMiraiIntlOwnerBatch, run  *)
(* by analyze-sources.ts in one process or in worker lanes).               *)
(*                                                                         *)
(* Each source is given a sealed closure: the files its analysis may look  *)
(* at and how their imports resolve.  Sources whose closures agree share   *)
(* one TypeScript program; the others, and those that declare globals, get *)
(* programs of their own.  What the program shows of a source decides its  *)
(* diagnostics; its closure's declarations are its evidence, and go into   *)
(* the receipt.                                                            *)
(*                                                                         *)
(* Abstractions: a file is its name, a slice of the generated facade also  *)
(* the namespaces and the contract it declares, which its real name hashes;*)
(* a specifier is the name of the file it means; libraries, triple-slash   *)
(* references, probes, real paths and the limits on providers are left out,*)
(* so that closures disagree over resolutions only.  Sources come largest  *)
(* first, so that one lane and several have them in one order.             *)
(***************************************************************************)
EXTENDS Naturals, FiniteSets, Sequences, SequencesExt

CONSTANT PerWorker  \* minimumSemanticSourcesPerWorker
ASSUME PerWorkerAssumption == PerWorker \in Nat \ {0}

VARIABLES
  owner,    \* the sources and the files they import, and the lanes asked for
  lanes,    \* each lane: its sources, groups of closures, and evidence
  analysis  \* the outcome: evidence by source and reports, or "rejected"

batched == <<owner, lanes, analysis>>

NoOwner == [sources |-> << >>]
Pending == [at |-> "pending"]

BatchInit == owner = NoOwner /\ lanes = << >> /\ analysis = Pending

----------------------------------------------------------------------------
(* Files                                                                   *)

Sources == {"s1", "s2", "s3"}
WholeFacade == {"n1", "n2", "whole"}

\* How a source uses the facade and imports: "needs" are the imports its
\* translation keys depend on, "passes" all others.
Shape == [safe |-> TRUE, facade |-> {}, contract |-> FALSE, needs |-> {},
          passes |-> {}, asks |-> TRUE, declaration |-> FALSE, bad |-> FALSE]

FileNamed(name) == [name |-> name, namespaces |-> {}, contract |-> FALSE]
NoFile == FileNamed("none")
FacadeSlice(namespaces, contract) ==
  [name |-> "facade", namespaces |-> namespaces, contract |-> contract]

DeclarationFile(f) ==
  CASE f.name \in Sources -> owner.sources[f.name].declaration
    [] f.name = "mod" -> owner.mod.declaration
    [] OTHER -> f # NoFile

\* isSemanticInterferenceDeclaration, and what a source does that is not safe.
DeclaresGlobals(f) ==
  CASE f.name \in Sources -> ~owner.sources[f.name].safe
    [] f.name = "mod" -> owner.mod.global
    [] OTHER -> f.name = "types"

InCatalog(f) == f.name \in {"manifest", "schema"}

\* The imports of a file that is not the source of the closure.
ModuleSpecifiers(name) ==
  IF name \in Sources
  THEN LET s == owner.sources[name]
       IN  s.needs \cup s.passes
             \cup (IF s.facade = {} THEN {} ELSE {"facade"})
  ELSE IF name = "mod" THEN owner.mod.imports ELSE {}

\* Everything reached from some files by a successor function.
ReachedFrom(start, next(_)) ==
  LET wave[n \in 0..8] ==
        IF n = 0 THEN [seen |-> start, new |-> start]
        ELSE LET last == wave[n - 1]
                 new == UNION {next(x) : x \in last.new} \ last.seen
             IN  [seen |-> last.seen \cup new, new |-> new]
  IN  wave[8].seen

----------------------------------------------------------------------------
(* Closures: prepareSealedSemanticClosure                                  *)

\* The files reached by a source: its needs, then every import of a provider.
ProvidersOf(s) ==
  LET beyond(name) ==
        IF name = s THEN {}
        ELSE ModuleSpecifiers(name) \ {"facade", "missing"}
  IN  ReachedFrom(owner.sources[s].needs, beyond)

\* The facade slice: of the given namespaces, the whole facade as soon as a
\* provider imports it (upgradeGeneratedFacade).
SliceOf(s, shared) ==
  LET importers == {p \in ProvidersOf(s) \ {s} :
                      "facade" \in ModuleSpecifiers(p)}
      contract == \/ shared.contract
                  \/ \E p \in importers \cap Sources :
                       owner.sources[p].contract
  IN  IF importers # {} THEN FacadeSlice(WholeFacade, contract)
      ELSE IF owner.sources[s].facade # {}
      THEN FacadeSlice(shared.namespaces, contract) ELSE NoFile

FacadeFiles(slice) ==
  IF slice = NoFile THEN {}
  ELSE {slice, FileNamed("manifest")}
         \cup (IF slice.contract THEN {FileNamed("schema")} ELSE {})

Resolution(from, specifier, to) ==
  [from |-> from, specifier |-> specifier, to |-> to]

\* resolveModule: only what a source needs is resolved for it.
OwnResolutions(s, slice) ==
  LET shape == owner.sources[s]
  IN  {Resolution(s, i, FileNamed(i)) : i \in shape.needs}
        \cup {Resolution(s, i, NoFile) : i \in shape.passes}
        \cup (IF shape.facade = {} THEN {}
              ELSE {Resolution(s, "facade", slice)})

ProviderResolutions(providers, slice) ==
  UNION {{Resolution(p, i, CASE i = "facade" -> slice
                             [] i = "missing" -> NoFile
                             [] OTHER -> FileNamed(i)) :
            i \in ModuleSpecifiers(p)} : p \in providers}

AmbientTypes == IF owner.types THEN {FileNamed("types")} ELSE {}

\* semanticCompilerOptions: without dependencies, nothing is resolved.
ClosedOptions(s) ==
  owner.sources[s].facade = {} /\ owner.sources[s].needs = {}

\* Providers with an unresolved import are no roots of a program.
PrepareClosure(s, shared) ==
  LET slice == SliceOf(s, shared)
      providers == ProvidersOf(s)
  IN  [id |-> s, slice |-> slice, closed |-> ClosedOptions(s),
       files |-> {FileNamed(s)} \cup {FileNamed(p) : p \in providers}
                   \cup FacadeFiles(slice) \cup AmbientTypes,
       resolutions |-> OwnResolutions(s, slice)
                         \cup ProviderResolutions(providers \ {s}, slice),
       entryRoots |->
         {FileNamed(p) : p \in {q \in providers \ {s} :
                                   "missing" \notin ModuleSpecifiers(q)}}]

\* cloneInertSemanticClosure, cloneFacadeOnlySemanticClosure: the closure of
\* another source, with the source replaced.
CloneClosure(template, s) ==
  [template EXCEPT
     !.id = s,
     !.files = (@ \ {FileNamed(template.id)}) \cup {FileNamed(s)},
     !.resolutions = {r \in @ : r.from # template.id}
                       \cup OwnResolutions(s, template.slice)]

----------------------------------------------------------------------------
(* Programs: createSealedSemanticGroup.  A group is a sequence of closures.*)

In(group) == Range(group)

\* The files a file leads to.
Targets(group, f) ==
  IF f.name = "facade" THEN FacadeFiles(f) \ {f}
  ELSE {r.to : r \in {x \in UNION {c.resolutions : c \in In(group)} :
                        x.from = f.name}} \ {NoFile}

RootNames(group) ==
  UNION {{FileNamed(c.id)} \cup c.entryRoots \cup ({c.slice} \ {NoFile})
           \cup {f \in c.files : /\ DeclarationFile(f)
                                 /\ DeclaresGlobals(f) \/ InCatalog(f)} :
           c \in In(group)}

\* The compiler options are those of the first closure.
LoadedFiles(group) ==
  IF Head(group).closed THEN RootNames(group)
  ELSE ReachedFrom(RootNames(group), LAMBDA f : Targets(group, f))

Expected(group) ==
  {f \in UNION {c.files : c \in In(group)} : DeclarationFile(f)}

\* "Sealed semantic Program omitted evidence file"; closures disagree.
ProgramFails(group) ==
  \/ ~(Expected(group) \subseteq LoadedFiles(group))
  \/ \E r, q \in UNION {c.resolutions : c \in In(group)} :
       /\ r.from = q.from /\ r.specifier = q.specifier
       /\ r.to # q.to /\ NoFile \notin {r.to, q.to}

\* What the checker sees from a source: what it leads to, and all globals.
SeenFrom(group, s) ==
  LET loaded == LoadedFiles(group)
      seen == ReachedFrom({FileNamed(s)},
                          LAMBDA f : Targets(group, f) \cap loaded)
  IN  seen \cup {f \in loaded : DeclaresGlobals(f)}

\* Mutant: every declaration of the program is evidence.
GroupEvidence(group, c) ==
  LET others == {FileNamed(d.id) : d \in In(group)}
                  \cup {d.slice : d \in {e \in In(group) : e.slice # c.slice}}
  IN  {f.name : f \in Expected(group) \ others}

\* semanticEvidenceRecords: the declarations of its closure that are not
\* sources of the group; the facade stands for its slice.
SemanticEvidenceRecords(group, c) ==
  LET others == {FileNamed(d.id) : d \in In(group)}
                  \cup {d.slice : d \in {e \in In(group) : e.slice # c.slice}}
  IN  {f.name : f \in {x \in c.files : DeclarationFile(x)} \ others}

----------------------------------------------------------------------------
(* The batch of one lane: transformMiraiIntlOwnerBatch                     *)

Inert(s) ==
  owner.sources[s].safe /\ ClosedOptions(s) /\ ~owner.types

NoProgram(s) == Inert(s) /\ ~owner.sources[s].asks

\* A source whose facade import cannot be accepted is not prepared.
ActiveSource(s) == ~Inert(s) /\ ~owner.sources[s].bad

FacadeOnly(s) ==
  /\ ActiveSource(s) /\ owner.sources[s].safe
  /\ owner.sources[s].needs = {} /\ owner.sources[s].facade # {}

\* One slice for all active sources of the batch.
SharedFacade(sources) ==
  LET active == {s \in sources : ActiveSource(s)}
  IN  [namespaces |-> UNION {owner.sources[s].facade : s \in active},
       contract |-> \E s \in active : owner.sources[s].contract]

\* The closures of a batch: programless sources are left out, inert ones are
\* copies of the first, so are those that import the facade only.
PreparedBatch(order) ==
  LET shared == SharedFacade(Range(order))
      inert == SelectSeq(order, LAMBDA s : Inert(s) /\ ~NoProgram(s))
      active == SelectSeq(order, ActiveSource)
      facadeOnly == SelectSeq(order, FacadeOnly)
      like(s, first) ==
        IF s = first THEN PrepareClosure(s, shared)
        ELSE CloneClosure(PrepareClosure(first, shared), s)
  IN  [n \in DOMAIN inert |-> like(inert[n], Head(inert))]
        \o [n \in DOMAIN active |->
              IF FacadeOnly(active[n])
              THEN like(active[n], Head(facadeOnly))
              ELSE PrepareClosure(active[n], shared)]

\* Mutant: sources that declare globals are not isolated.
IsolatedNever(c) == FALSE

Isolated(c) == ~owner.sources[c.id].safe

\* tryFuseSemanticClosure: nothing may be resolved in two ways.
Agrees(group, c) ==
  \A r \in UNION {d.resolutions : d \in In(group)}, q \in c.resolutions :
    r.from = q.from /\ r.specifier = q.specifier =>
      r.to = q.to \/ NoFile \in {r.to, q.to}

\* The first group that agrees takes a closure, or it begins one.
Fuse(groups, c) ==
  LET fits == {n \in DOMAIN groups :
                 ~Isolated(Head(groups[n])) /\ Agrees(groups[n], c)}
      first == CHOOSE n \in fits : \A m \in fits : n <= m
  IN  IF Isolated(c) \/ fits = {} THEN Append(groups, <<c>>)
      ELSE [groups EXCEPT ![first] = Append(@, c)]

----------------------------------------------------------------------------
(* Lanes: catalogSemanticLanes, analyzeSemanticOwner                       *)

LaneCount(requested, count) ==
  LET bound == count \div PerWorker
      less == IF requested < bound THEN requested ELSE bound
  IN  IF less < 1 THEN 1 ELSE less

\* Each source goes to the lane that has the least so far.
Partitions(order, size, count) ==
  LET weight(lane) == FoldSeq(LAMBDA s, sum : size[s] + sum, 0, lane)
      least(all) == CHOOSE n \in 1..count : \A m \in 1..count :
                      \/ weight(all[n]) < weight(all[m])
                      \/ weight(all[n]) = weight(all[m]) /\ n <= m
      put(s, all) == [all EXCEPT ![least(all)] = Append(@, s)]
  IN  FoldLeft(LAMBDA all, s : put(s, all), [n \in 1..count |-> << >>], order)

Lane(order) ==
  [at |-> "started", order |-> order, groups |-> << >>, analysed |-> << >>,
   evidence |-> << >>]

Plain == [Shape EXCEPT !.asks = FALSE]
Asking == [Shape EXCEPT !.passes = {"mod"}]
Naming(n) == [Shape EXCEPT !.facade = {n}]
Keyed(i) == [Shape EXCEPT !.needs = {i}]

Shapes(other) ==
  {Plain, Asking, Naming("n1"), [Naming("n2") EXCEPT !.contract = TRUE],
   [Naming("n1") EXCEPT !.passes = {other}, !.contract = TRUE],
   [Shape EXCEPT !.facade = WholeFacade], [Shape EXCEPT !.bad = TRUE],
   Keyed("mod"), Keyed(other), [Keyed("mod") EXCEPT !.facade = {"n2"}],
   [Keyed(other) EXCEPT !.facade = {"n1"}],
   [Shape EXCEPT !.safe = FALSE, !.asks = FALSE],
   [Asking EXCEPT !.declaration = TRUE]}

ThirdShapes == {Asking, Keyed("s1"), Naming("n1")}

Mod(declaration, global, imports) ==
  [declaration |-> declaration, global |-> global, imports |-> imports]

Mods ==
  {Mod(FALSE, FALSE, {"facade"}), Mod(FALSE, FALSE, {"missing"}),
   Mod(FALSE, TRUE, {"leaf"}), Mod(TRUE, FALSE, {"leaf", "missing"}),
   Mod(TRUE, TRUE, {"facade"})}

BeginAnalysis ==
  /\ owner = NoOwner
  /\ \E one \in Shapes("s2"), two \in Shapes("s1"), three \in ThirdShapes,
        mod \in Mods, types \in BOOLEAN, requested \in 1..2, big \in {1, 3} :
       LET order == <<"s1", "s2", "s3">>
           count == LaneCount(requested, Len(order))
           size == [s \in Sources |-> IF s = "s1" THEN big ELSE 1]
           parts == Partitions(order, size, count)
       IN  /\ count > 1 \/ big = 1
           /\ owner' = [sources |-> [s1 |-> one, s2 |-> two, s3 |-> three],
                        mod |-> mod, types |-> types]
           /\ lanes' = [n \in 1..count |-> Lane(parts[n])]
  /\ UNCHANGED analysis

\* Closures and groups are made before the first program; programless sources
\* are recorded at once.
PrepareBatch(l) ==
  /\ lanes[l].at = "started"
  /\ lanes' = [lanes EXCEPT
       ![l].at = "grouped",
       ![l].groups = FoldLeft(Fuse, << >>, PreparedBatch(lanes[l].order)),
       ![l].evidence =
         [s \in {x \in Range(lanes[l].order) : NoProgram(x)} |-> {}]]
  /\ UNCHANGED <<owner, analysis>>

\* The program of the next group; if it cannot be made, the batch fails.
AnalyseGroup(l) ==
  /\ lanes[l].at = "grouped" /\ lanes[l].groups # << >>
  /\ LET group == Head(lanes[l].groups)
     IN  IF ProgramFails(group)
         THEN lanes' = [lanes EXCEPT ![l].at = "rejected"]
         ELSE lanes' = [lanes EXCEPT
                ![l].groups = Tail(@),
                ![l].analysed = Append(@, group),
                ![l].evidence =
                  [s \in DOMAIN @ \cup {c.id : c \in In(group)} |->
                     IF s \in DOMAIN @ THEN @[s]
                     ELSE SemanticEvidenceRecords(
                            group, CHOOSE c \in In(group) : c.id = s)]]
  /\ UNCHANGED <<owner, analysis>>

\* A worker exits before it answers.
WorkerFails(l) ==
  /\ Len(lanes) > 1 /\ analysis = Pending /\ lanes[l].at # "rejected"
  /\ ~(lanes[l].at = "grouped" /\ lanes[l].groups = << >>)
  /\ lanes' = [lanes EXCEPT ![l].at = "rejected"]
  /\ UNCHANGED <<owner, analysis>>

\* One lane that fails is enough; the other workers are terminated.
RejectAnalysis ==
  /\ analysis = Pending /\ \E l \in DOMAIN lanes : lanes[l].at = "rejected"
  /\ analysis' = [at |-> "rejected"]
  /\ lanes' = << >>
  /\ UNCHANGED owner

\* analyzeLoadedConventionSourceFiles: evidence is put together; the errors
\* are reported, but for accepted exceptions, and so are stale exceptions.
CollectAnalysis(exceptions) ==
  /\ analysis = Pending /\ owner # NoOwner
  /\ \A l \in DOMAIN lanes :
       lanes[l].at = "grouped" /\ lanes[l].groups = << >>
  /\ LET of(s) == CHOOSE l \in DOMAIN lanes : s \in Range(lanes[l].order)
         recorded == UNION {DOMAIN lanes[l].evidence : l \in DOMAIN lanes}
         failed == Sources \ recorded
     IN  analysis' =
           [at |-> "collected",
            evidence |-> [s \in recorded |-> lanes[of(s)].evidence[s]],
            reported |-> failed \ exceptions, stale |-> exceptions \ failed]
  /\ UNCHANGED <<owner, lanes>>

BatchNext ==
  \/ BeginAnalysis
  \/ \E l \in DOMAIN lanes :
       PrepareBatch(l) \/ AnalyseGroup(l) \/ WorkerFails(l)
  \/ RejectAnalysis
  \/ \E exceptions \in {{}, {"s1"}} : CollectAnalysis(exceptions)

BatchSpec == BatchInit /\ [][BatchNext]_batched

----------------------------------------------------------------------------
(* Sharing a program                                                       *)

\* The closure of a source in a program of its own (createProgram).
Alone(s) ==
  <<PrepareClosure(s, [namespaces |-> owner.sources[s].facade,
                       contract |-> owner.sources[s].contract])>>

Names(files) == {f.name : f \in files}

\* The program resolves nothing for a closure that needs it, and one of the
\* providers is therefore not loaded.
Narrowed(group) ==
  /\ Head(group).closed
  /\ \E c \in In(group) : \E f \in c.files :
       f # FileNamed(c.id) /\ "missing" \in ModuleSpecifiers(f.name)

\* Another source of the group takes this one for a provider.
TakenFor(group, s) ==
  \E c \in In(group) : c.id # s /\ FileNamed(s) \in c.files

\* Globals of the providers of another source of the group.
ForeignGlobals(group, s) ==
  UNION {{f \in c.files : f.name # c.id /\ DeclaresGlobals(f)} :
           c \in {d \in In(group) : d.id # s}}

(* The program that a source shares shows it all that a program of its own *)
(* would, and nothing else except the contract's schema, unless an import  *)
(* it passes over is resolved for another source that takes it for a       *)
(* provider, or that one's providers declare globals; it shows less only   *)
(* when its first source needs no resolution (transform.ts:7957-7962,      *)
(* "Safe external modules with compatible sealed ... closures share a      *)
(* checker").                                                              *)
BatchChangesNoView ==
  \A l \in DOMAIN lanes : \A n \in DOMAIN lanes[l].analysed :
    LET group == lanes[l].analysed[n] IN
    \A c \in In(group) :
      LET shared == SeenFrom(group, c.id)
          own == SeenFrom(Alone(c.id), c.id)
          facade == {f \in shared : f.name = "facade"}
      IN  /\ \/ /\ Names(own) \subseteq Names(shared)
                /\ owner.sources[c.id].facade
                     \subseteq UNION {f.namespaces : f \in facade}
             \/ Narrowed(group)
          /\ \/ Names(shared) \subseteq
                  Names(own) \cup {"schema"}
                    \cup Names(ForeignGlobals(group, c.id))
             \/ TakenFor(group, c.id)

(* The evidence of a source is that of its own closure, whatever it shared *)
(* a lane or a program with, but for the schema of the contract, which all *)
(* sources of a lane carry when one needs it, and declarations that are    *)
(* themselves sources of the group; every source has it or is reported, or *)
(* is excepted; and only a program that is narrowed, or a worker that died,*)
(* can take a whole lane with it (transform.ts:5346-5453).                 *)
EvidenceIsItsOwn ==
  /\ \A l \in DOMAIN lanes : \A s \in DOMAIN lanes[l].evidence :
       LET own == SemanticEvidenceRecords(Alone(s), Head(Alone(s)))
           got == lanes[l].evidence[s]
           sharing == UNION {{c.id : c \in In(g)} :
                               g \in {h \in Range(lanes[l].analysed) :
                                        \E c \in In(h) : c.id = s}}
       IN  /\ got \subseteq own \cup {"schema"}
           /\ own \subseteq got \cup sharing
  /\ \A l \in DOMAIN lanes :
       lanes[l].at = "rejected" /\ Len(lanes) = 1 =>
         Narrowed(Head(lanes[l].groups))
  /\ analysis.at = "collected" =>
       {s \in Sources : ~owner.sources[s].bad}
         \subseteq DOMAIN analysis.evidence
=============================================================================
