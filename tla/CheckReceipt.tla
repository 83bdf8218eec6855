---------------------------- MODULE CheckReceipt ----------------------------
(***************************************************************************)
(* The check receipt of a project: the lexical ledger of its sources, the  *)
(* classifier's projections and the semantic closures, brought into one    *)
(* record of tables and references, and the reader that every build, every *)
(* verification and every import has to satisfy                            *)
(* (packages/compiler/src/authorization-snapshot.ts, schema version 3).    *)
(*                                                                         *)
(* The assembly does not run the reader over its result: the projections   *)
(* are "already validated".  So what is written and what can be read are   *)
(* two definitions of the same relation, stated here side by side.         *)
(*                                                                         *)
(* Abstractions: a table is a set and a reference is the value referred    *)
(* to; a hash is the value hashed; canonical order is left out, so         *)
(* "sorted and unique" is "unique"; the evidence of a resolution (probes,  *)
(* real paths) is the directory and the specifier it is about.             *)
(***************************************************************************)
EXTENDS SourceClassifier

VARIABLES
  ledger,   \* the native inputs: semantic closures and exceptions
  receipt,  \* the receipt and the classifier's envelope, as published
  reading   \* "unread", "damaged", "accepted" or "refused"

receipting == <<ledger, receipt, reading>>

ReceiptInit == ClassifierInit /\ ledger = Nil /\ receipt = Nil /\ reading = "unread"

SpecifierOf(s, n) == world.imports[s][n]

----------------------------------------------------------------------------
(* Semantic analysis and the native ledger                                 *)

\* The frontier under which an import was resolved; a provider's is always in
\* the default mode, a classifier's in the mode of its import.
Frontier(o, s, b, mode, found) ==
  [options |-> o, about |-> <<DirName(s), b.form, b.path>>, mode |-> mode,
   resolved |-> found]

FacadeImports(s) == {n \in Boundaries(s) : resolved[s][n] = "facade"}

\* The sources that need the program are analyzed.  A source whose preparation
\* fails has no evidence; its error is dropped by a check exception.
AnalyzeSources ==
  /\ stage = "sealed" /\ ledger = Nil
  /\ \E exceptions \in SUBSET {SourceA} : \E unprepared \in SUBSET exceptions :
       /\ unprepared \subseteq {s \in AllSources : FacadeImports(s) # {}}
       /\ ledger' = [exceptions |-> exceptions,
            closures |->
              {[source |-> s,
                resolutions |->
                  {[from |-> s, frontier |->
                      Frontier(OwnerOf(s), s, SpecifierOf(s, n), "default", "none")] :
                     n \in FacadeImports(s)}] :
                 s \in {t \in AllSources :
                          decided[t].requiresProgram /\ t \notin unprepared}}]
  /\ UNCHANGED <<classifier, receipt, reading>>

\* buildNativeV3ProjectionLedger: closures are of sources, one each.
NativeLedgerAgrees ==
  /\ \A c \in ledger.closures : c.source \in AllSources
  /\ \A c, d \in ledger.closures : c.source = d.source => c = d

----------------------------------------------------------------------------
(* Assembly                                                                *)

\* Mutant: a request for every boundary, candidate or not.
RequestsForAll(s) ==
  {[boundary |-> n, specifier |-> SpecifierOf(s, n),
    frontier |-> Frontier(OwnerOf(s), s, SpecifierOf(s, n),
                          SpecifierOf(s, n).mode, resolved[s][n])] :
     n \in Boundaries(s)}

\* The requests of a source: its boundaries that were resolved.
Requests(s) ==
  {[boundary |-> n, specifier |-> SpecifierOf(s, n),
    frontier |-> Frontier(OwnerOf(s), s, SpecifierOf(s, n),
                          SpecifierOf(s, n).mode, resolved[s][n])] :
     n \in {m \in Boundaries(s) : projection[s][m].candidate}}

ModeOf(o) == IF topology[o].reasons # {} THEN "owner-fallback" ELSE "filtered"

\* The manifest of the facade's package is a control of every index.
IndexControl == {FacadePackage} \ {Nil}

ProjectedRoots(o) ==
  UNION {UNION {{[boundary |-> <<s, n>>, row |-> k,
                  lexicalRoot |-> projection[s][n].rows[k].lexicalRoot,
                  canonicalRoot |-> projection[s][n].rows[k].canonicalRoot,
                  proofKind |-> projection[s][n].rows[k].kind,
                  status |-> IF projection[s][n].candidate
                             THEN "candidate" ELSE "disjoint"] :
                   k \in DOMAIN projection[s][n].rows} :
                 n \in Boundaries(s)} : s \in SourcesOf(o)}

CandidateIndexes ==
  {[owner |-> o, options |-> o, mode |-> ModeOf(o),
    reasons |-> topology[o].reasons, control |-> IndexControl,
    scopes |-> topology[o].scopes, projections |-> ProjectedRoots(o)] :
     o \in Projects}

\* A scope that several owners saw has the controls of all of them.
MergedPackageScopes ==
  {[root |-> root,
    control |-> UNION {i.control : i \in
                         {j \in CandidateIndexes : root \in j.scopes}}] :
     root \in UNION {i.scopes : i \in CandidateIndexes}}

ClassifierBindings ==
  {[source |-> s, owner |-> OwnerOf(s), mode |-> ModeOf(OwnerOf(s)),
    decision |-> decided[s].decision, boundaries |-> Boundaries(s),
    requests |-> Requests(s), unknown |-> s \in world.unknown] :
     s \in AllSources}

Tables ==
  [boundaries |-> UNION {{[source |-> s, ordinal |-> n,
                           specifier |-> SpecifierOf(s, n)] :
                            n \in Boundaries(s)} : s \in AllSources},
   unknown |-> world.unknown,
   scopes |-> MergedPackageScopes,
   frontiers |->
     (UNION {{q.frontier : q \in Requests(s)} : s \in AllSources})
     \cup UNION {{q.frontier : q \in c.resolutions} : c \in ledger.closures}]

ReceiptSources ==
  {[file |-> s, owner |-> OwnerOf(s),
    verdict |-> IF s \in ledger.exceptions THEN "exception" ELSE "accepted",
    closure |-> \E c \in ledger.closures : c.source = s] : s \in AllSources}

\* expectedCountersV3
Counters(r) ==
  [boundaries |-> Cardinality(r.tables.boundaries),
   closures |-> Cardinality(r.closures),
   exceptions |-> Cardinality(r.exceptions),
   frontiers |-> Cardinality(r.tables.frontiers),
   requests |-> Cardinality(UNION {{<<b.source, q>> : q \in b.requests} :
                                     b \in r.bindings}),
   fallbacks |-> Cardinality({i \in r.indexes : i.mode = "owner-fallback"}),
   active |-> Cardinality({b \in r.bindings :
                             b.decision = "facade-unknown-active"})]

RequiresProgram(b) == b.mode = "owner-fallback" \/ b.decision # "facade-absent"

\* persistedClassifierAuthority, of every owner: what the bindings decide.
Envelope(r) ==
  {<<b.source, b.decision, RequiresProgram(b)>> : b \in r.bindings}

\* The counters and the envelope of a receipt are computed from it.
Completed(r) ==
  [sources |-> r.sources, indexes |-> r.indexes, bindings |-> r.bindings,
   closures |-> r.closures, exceptions |-> r.exceptions, tables |-> r.tables,
   counters |-> Counters(r), envelope |-> Envelope(r)]

AssembledReceipt ==
  Completed([sources |-> ReceiptSources, indexes |-> CandidateIndexes,
             bindings |-> ClassifierBindings, closures |-> ledger.closures,
             exceptions |-> ledger.exceptions, tables |-> Tables])

\* projectionOwner: what the assembly itself checks.
ProjectionsAgree ==
  \A o \in Projects :
    /\ \A s \in SourcesOf(o) : \A q \in Requests(s) :
         q.boundary \in Boundaries(s)
    /\ \A p \in ProjectedRoots(o) :
         p.boundary[1] \in SourcesOf(o) /\ p.boundary[2] \in Boundaries(p.boundary[1])
    /\ \A root \in topology[o].scopes : world.manifests[root] # Nil

AssembleReceipt ==
  /\ ledger # Nil /\ receipt = Nil
  /\ NativeLedgerAgrees /\ ProjectionsAgree
  /\ receipt' = AssembledReceipt
  /\ UNCHANGED <<classifier, ledger, reading>>

----------------------------------------------------------------------------
(* The reader                                                              *)

Unique(set, identity(_)) ==
  \A x, y \in set : identity(x) = identity(y) => x = y

The(set, test(_)) == CHOOSE x \in set : test(x)

ReadTables(r) ==
  /\ \A s \in AllSources :
       LET ordinals == {b.ordinal : b \in {c \in r.tables.boundaries : c.source = s}}
       IN  ordinals = 1..Cardinality(ordinals)
  /\ Unique(r.tables.scopes, LAMBDA scope : scope.root)

\* A request agrees with its boundary and with its frontier.
ReadRequest(r, s, q) ==
  /\ q.specifier.mode = q.frontier.mode
  /\ \E b \in r.tables.boundaries :
       b.source = s /\ b.ordinal = q.boundary /\ b.specifier = q.specifier
  /\ q.frontier \in r.tables.frontiers

\* The row is not part of a projection: two that are alike are one too many.
ProjectionIdentity(p) ==
  <<p.boundary, p.lexicalRoot, p.canonicalRoot, p.status, p.proofKind>>

ReadCandidateIndexes(r) ==
  /\ Unique(r.indexes, LAMBDA i : i.owner)
  /\ \A i \in r.indexes :
       /\ Unique(i.projections, ProjectionIdentity)
       /\ \A root \in i.scopes : \E scope \in r.tables.scopes : scope.root = root

ReadProviderClosures(r) ==
  /\ Unique(r.closures, LAMBDA c : c.source)
  /\ \A c \in r.closures : \A q \in c.resolutions : q.frontier \in r.tables.frontiers

\* A binding has the whole ledger of its source, and requests for exactly the
\* boundaries that its index calls candidates.
ReadClassifierBinding(r, b) ==
  LET index == The(r.indexes, LAMBDA i : i.owner = b.owner)
      evidence(n) == {p \in index.projections : p.boundary = <<b.source, n>>}
      own == {c \in r.tables.boundaries : c.source = b.source}
  IN  /\ \E i \in r.indexes : i.owner = b.owner
      /\ b.mode = index.mode
      /\ b.boundaries = {c.ordinal : c \in own}
      /\ b.unknown = (b.source \in r.tables.unknown)
      /\ \A q \in b.requests : ReadRequest(r, b.source, q)
      /\ \A n \in b.boundaries :
           /\ Cardinality({p.proofKind : p \in evidence(n)}) = 1
           /\ Cardinality({p.status : p \in evidence(n)}) = 1
      /\ Unique(b.requests, LAMBDA q : q.boundary)
      /\ {q.boundary : q \in b.requests} =
           {n \in b.boundaries : \E p \in evidence(n) : p.status = "candidate"}

ReadClassifierBindings(r) ==
  /\ Unique(r.bindings, LAMBDA b : b.source)
  /\ \A b \in r.bindings : ReadClassifierBinding(r, b)

\* validatePackageScopeRelationships: the control of a scope has its manifest.
ScopesRelate(r) ==
  \A scope \in r.tables.scopes : scope.root \in scope.control

ExpectedDecision(b) ==
  IF \E q \in b.requests : q.frontier.resolved = "facade" THEN "facade-present"
  ELSE IF b.unknown THEN "facade-unknown-active"
  ELSE "facade-absent"

\* Mutant: a closure that is there is required, a required one may be missing.
SourceRelatesLoosely(r, s) ==
  LET b == The(r.bindings, LAMBDA c : c.source = s.file) IN
  /\ s.owner \in Projects
  /\ \E c \in r.bindings : c.source = s.file
  /\ b.owner = s.owner
  /\ b.decision = ExpectedDecision(b)
  /\ s.closure => RequiresProgram(b)
  /\ s.closure = \E c \in r.closures : c.source = s.file

\* Each source: its owner's index, a decision that follows from the requests,
\* and a closure if and only if it requires the program.
SourceRelates(r, s) ==
  LET b == The(r.bindings, LAMBDA c : c.source = s.file) IN
  /\ s.owner \in Projects
  /\ \E c \in r.bindings : c.source = s.file
  /\ b.owner = s.owner
  /\ \A q \in b.requests : q.frontier.options = s.owner
  /\ b.decision = ExpectedDecision(b)
  /\ s.closure = RequiresProgram(b)
  /\ s.closure = \E c \in r.closures : c.source = s.file
  /\ \A c \in r.closures : c.source = s.file =>
       \A q \in c.resolutions : q.frontier.options = s.owner

SourcesRelate(r) ==
  /\ \A s \in r.sources : SourceRelates(r, s)
  /\ {b.source : b \in r.bindings} \cup {c.source : c \in r.closures}
       \subseteq {s.file : s \in r.sources}

\* Each index: reasons if and only if it falls back, and projections of its
\* own sources that are not at the facade's root when they are disjoint.
IndexRelates(r, i) ==
  /\ i.owner \in Projects /\ i.options = i.owner
  /\ (i.mode = "owner-fallback") = (i.reasons # {})
  /\ \A p \in i.projections :
       /\ \E s \in r.sources : s.file = p.boundary[1] /\ s.owner = i.owner
       /\ p.status = "disjoint" => p.lexicalRoot # Gen /\ p.canonicalRoot # Canonical(Gen)

IndexesRelate(r) ==
  /\ \A i, j \in r.indexes : i.owner = j.owner => i.mode = j.mode
  /\ \A i \in r.indexes : IndexRelates(r, i)

ExceptionsRelate(r) ==
  r.exceptions = {s.file : s \in {t \in r.sources : t.verdict = "exception"}}

\* One import is resolved in one way, and no frontier is left over.  The options
\* of a provider's frontier have another hash than those of a classifier's, so
\* the two are never compared.
EvidenceRelates(r) ==
  LET asked == UNION {{<<b.source, q.specifier.path, q.frontier>> : q \in b.requests} :
                        b \in r.bindings}
      provided == UNION {{<<q.from, q.frontier.about[3], q.frontier>> :
                            q \in c.resolutions} : c \in r.closures}
      all == asked \cup provided
  IN  /\ \A e, f \in asked :
           (e[1] = f[1] /\ e[2] = f[2] /\ e[3].mode = f[3].mode
              /\ e[3].about = f[3].about) => e[3] = f[3]
      /\ {e[3] : e \in all} = r.tables.frontiers

\* assertAuthorizedSourceUniverse: the sources that the projects have.
UniverseIsCurrent(r) ==
  {<<s.file, s.owner>> : s \in r.sources} = {<<s, OwnerOf(s)>> : s \in AllSources}

Accepts(r) ==
  /\ ReadTables(r) /\ ReadCandidateIndexes(r) /\ ReadProviderClosures(r)
  /\ ReadClassifierBindings(r)
  /\ ScopesRelate(r) /\ SourcesRelate(r) /\ IndexesRelate(r)
  /\ ExceptionsRelate(r) /\ EvidenceRelates(r)
  /\ r.counters = Counters(r)
  /\ r.envelope = Envelope(r)
  /\ UniverseIsCurrent(r)

ReadReceipt ==
  /\ receipt # Nil /\ reading \in {"unread", "damaged"}
  /\ reading' = IF Accepts(receipt) THEN "accepted" ELSE "refused"
  /\ UNCHANGED <<classifier, ledger, receipt>>

----------------------------------------------------------------------------
(* One wrong fact, with the hashes and counters completed over it.         *)

Replace(set, x, y) == (set \ {x}) \cup {y}

WithFrontier(r, f, g) ==
  LET swap(q) == IF q.frontier = f THEN [q EXCEPT !.frontier = g] ELSE q
  IN  [r EXCEPT !.tables.frontiers = Replace(@, f, g),
                !.bindings = {[b EXCEPT !.requests = {swap(q) : q \in @}] : b \in @}]

DamagedBindings(r, b) ==
  {[b EXCEPT !.decision = "facade-absent"], [b EXCEPT !.mode = "filtered"],
   [b EXCEPT !.unknown = FALSE]}
  \cup {[b EXCEPT !.requests = @ \ {q}] : q \in b.requests}
  \cup {[b EXCEPT !.owner = o] : o \in Projects}

DamagedIndexes(r, i) ==
  {[i EXCEPT !.mode = "filtered"], [i EXCEPT !.reasons = {}]}
  \cup {[i EXCEPT !.projections = Replace(@, p, [p EXCEPT !.status = "disjoint"])] :
          p \in i.projections}
  \cup {[i EXCEPT !.projections = @ \ {p}] : p \in i.projections}

ClosureDamages(r) ==
  {[r EXCEPT !.closures = @ \ {c}] : c \in r.closures}
  \cup {[r EXCEPT !.closures = @ \ {c}, !.sources =
          {IF s.file = c.source THEN [s EXCEPT !.closure = FALSE] ELSE s : s \in @}] :
          c \in r.closures}

BindingDamages(r) ==
  UNION {{[r EXCEPT !.bindings = Replace(@, b, d)] : d \in DamagedBindings(r, b)} :
           b \in r.bindings}

IndexDamages(r) ==
  UNION {{[r EXCEPT !.indexes = Replace(@, i, d)] : d \in DamagedIndexes(r, i)} :
           i \in r.indexes}

TableDamages(r) ==
  {[r EXCEPT !.tables.unknown = @ \ {s}] : s \in r.tables.unknown}
  \cup {[r EXCEPT !.tables.boundaries = @ \ {b}] : b \in r.tables.boundaries}
  \cup {[r EXCEPT !.sources = @ \ {s}] : s \in r.sources}

FrontierDamages(r) ==
  {WithFrontier(r, f, [f EXCEPT !.resolved = "other"]) : f \in r.tables.frontiers}

Damages(r) ==
  ClosureDamages(r) \cup BindingDamages(r) \cup IndexDamages(r)
    \cup TableDamages(r) \cup FrontierDamages(r)

DamageReceipt ==
  /\ receipt # Nil /\ reading = "unread"
  /\ reading' = "damaged"
  /\ \/ \E r \in Damages(receipt) :
          /\ Completed(r) # receipt
          /\ receipt' = Completed(r)
     \/ \E e \in receipt.envelope :
          /\ e[3]
          /\ receipt' = [receipt EXCEPT !.envelope =
                           Replace(@, e, <<e[1], "facade-absent", FALSE>>)]
  /\ UNCHANGED <<classifier, ledger>>

ReceiptStep == AnalyzeSources \/ AssembleReceipt \/ DamageReceipt \/ ReadReceipt

ReceiptNext == (ClassifierNext /\ UNCHANGED receipting) \/ ReceiptStep

ReceiptSpec == ReceiptInit /\ [][ReceiptNext]_<<classifier, receipting>>

----------------------------------------------------------------------------
Pristine == receipt # Nil /\ receipt = AssembledReceipt

(* What the assembly writes can be read back ("Projection-ledger assembly  *)
(* already validated this exact pair", authorization-snapshot.ts:7537).    *)
AssembledReceiptsReadBack == reading = "refused" => ~Pristine

\* What the assembly lets through and the reader does not: the package scope
\* of a manifest that is no control; two substitutions in one directory; a
\* source with an excepted error and no closure.
UncontrolledScope == \E o \in Projects : ~(topology[o].scopes \subseteq IndexControl)
AlikeProjections ==
  \E s \in AllSources : \E n \in Boundaries(s) :
    \E j, k \in DOMAIN projection[s][n].rows :
      j # k /\ projection[s][n].rows[j] = projection[s][n].rows[k]
MissingClosure ==
  \E s \in AllSources : decided[s].requiresProgram
                        /\ ~\E c \in ledger.closures : c.source = s

(* A receipt that was assembled is refused for these three reasons only:   *)
(* every other relation the reader demands is one the assembly establishes *)
(* (buildIntlCheckReceiptV3FromProjectionLedger, parseIntlCheckReceiptV3). *)
RefusedForKnownCauses ==
  (reading \in {"accepted", "refused"} /\ Pristine) =>
    ((reading = "refused")
       <=> (UncontrolledScope \/ AlikeProjections \/ MissingClosure))

(* No single wrong fact in a receipt hides a source from the analysis: if  *)
(* the receipt is accepted, every source that requires the program has its *)
(* closure, and the envelope says that it requires it                      *)
(* (validateV3Relationships, parseClassifierBindingsV3).                   *)
OneWrongFactHidesNothing ==
  reading = "accepted" =>
    \A s \in AllSources : decided[s].requiresProgram =>
      /\ \E c \in receipt.closures : c.source = s
      /\ \E e \in receipt.envelope : e[1] = s /\ e[3]
=============================================================================
