# Mirai Intl: specifications, model checking and proofs

Mirai Intl compiles locale files into a generated catalog that an application
imports, rewrites the sources that use it, and lets a build trust only what was
checked. Two things are hard to get right here, and hard to test: where
processes, crashes, edits and promises meet; and where long computations are
written twice (a writer and a reader, a compiler and a runtime, an analysis and
a shortcut past it) that must agree on every input.
This directory holds TLA+ modules of those parts, TLC configurations that check
them on small instances, and proofs that TLAPS checks.

Source paths are relative to the repository root.

## 1. The system

### Inventory

| Component | Source | State it keeps | Operations | What makes it hard |
|---|---|---|---|---|
| Publication lock | `packages/compiler/src/writer.ts` 500-1020 | `.publish.lock`, candidates, `.publish.lock.recovering` in the generated root | acquire, release, recover a dead owner's lock, repair for a reader | several processes, kills between any two file-system calls, inode reuse, change times |
| Transactional publication | `writer.ts` 1100-2747, `generation-snapshot.ts` | `builds/`, four control files, a journal and a stage under `.catalog-publication/` | publish, resume, discard, roll back | crash recovery, inputs that change meanwhile, non-atomic removals |
| Generation lifecycle | `lifecycle.ts`, `catalog.ts` 3350-3604 | promise maps `generations`, `activeEnsures`, `processEnsures`; caches `publishedGenerations`, `generationInputCache` | ensure, ensureOnce, regenerate | shared and queued runs, cached judgements of files other processes change |
| i18next controller | `packages/intl-i18next/src/index.ts` 255-460 | active locale, `transitionTail`, `pendingLoads`, generation counter, terminal error | preload, activate, dispose, get translations | asynchronous steps that fail, overlap and are closed in the middle |
| React Provider | `index.ts` 490-605 | ready selection, pending selection, error | mount, select, effect, callback, unmount | effects and callbacks of superseded renders |
| Vite adapter | `vite.ts` | restart promise, discovery chain, locale roots | build start, hot update, transform | single flight, a failed promise that is remembered |
| Next.js adapter | `next.ts`, `next-loader.ts` | a promise per process | compile, load | shares the lifecycle |
| Workspace authority supervisor | `workspace-authority-supervisor.ts`, `workspace-authority.ts` | manifests, root pointer, lease | publish | revalidation before commit, failures after it |
| Package authority | `proof.ts`, `check-receipt.ts` | immutable objects, selector | authorize, publish, verify | selector rename as the only commit point |
| Authority bundles | `authority-bundle.ts` | transfer lock, backup trees | export, import | many renames, verified in the middle, rolled back |
| Snapshots of inputs | `authorization-snapshot.ts`, `source-universe-identity.ts`, `integrity-identity.ts` | observed identities | capture, revalidate | inputs that drift during the capture |
| Classifier | `classifier-*.ts` | finalised transactions | classify, finalise, revalidate | one-shot transactions |
| Transformation | `transform.ts`, `analyze-*.ts` | caches of programs and sources | analyse, transform | cache keys |
| Message compilation | `parser.ts`, `compile.ts`, `compose.ts`, `emit.ts` | none | parse, compile, compose, emit | rules that interact |
| Runtime | `packages/runtime/src/*` | formatter caches, loaded fragments | render, recover, load | recovery, fallback |
| ABI | `packages/abi/src/*` | none | validate, encode | — |
| Commands | `cli.ts`, `verify.ts`, `reporter.ts` | none | generate, check, verify | — |

### How the components interact

* `ensureMiraiIntlCatalog` (lifecycle) waits for the **publication lock**,
  repairs it when its owner is dead, judges the generated root, and otherwise
  calls the **publication**, which takes the lock, writes the root and calls
  back into the lifecycle's input loader at two barriers
  (`beforePayloadInstall`, `afterPointerCommit`).
* Bundler adapters call the lifecycle; the CLI calls it and the proof commands.
* The build proof, the workspace authority and the bundles bind hashes of the
  published root; they read it and never write it, except an import.
* `check --workspace` (**package authority**) classifies the sources of a
  project (**classifier**), analyses those that may use a catalog
  (**transformation**), assembles the outcome into a receipt (**snapshots**) and
  selects it; builds, `verify` and imports read the receipt.
* The **workspace supervisor** commits a pointer to the sets all packages
  select; **bundles** carry those sets to another checkout.
* The compiler emits a **call site** for each message; the analysis rewrites
  `t("key")` to it; the **runtime** renders it through one of two backends.
* At run time the **Provider** drives one **controller**, which drives i18next
  and the application's resource loader.

### What makes each part correct

* Lock: one publisher at a time; a publisher's lock stays until it releases it;
  a dead owner's lock does not stop publication; nobody leaves a lock behind.
* Publication: whoever reads the pointer finds its payload; a root at rest is
  one generation; a failure restores; success means the plan is selected; what
  was interrupted is completed.
* Lifecycle: a run during which nobody edits ends with the current catalog;
  what is reused is selected; concurrent calls share; every run settles.
* Controller: language and active locale agree; loads are shared; activations
  are served in order; nothing takes effect after it is closed.
* Provider: children are shown only in the language they were rendered for; the
  last selection is served.
* Package authority: what is selected can be read and was one moment of the
  inputs; what a build accepts was authorized and held at one moment.
* Workspace authority and bundles: the pointer never moves back, a commit lasts
  and is reported; a bundle is one moment; an import installs all or nothing.
* Adapters: a module and its messages are of one build; no rotation is lost.
* Classifier: a source left out of the analysis cannot reach a catalog; what is
  committed was still true.
* Receipt: what is written can be read; one wrong fact hides no source.
* Transformation: sharing a program changes no outcome; a rewritten call shows
  the message that was meant; what the preflight skips needs no analysis.
* Messages: what is shown is what the translation says, and what compiles can
  be shown.

## 2. Modules

| Module | Models | Composed of |
|---|---|---|
| `PublicationLock` | the lock, one action per file-system call | |
| `PublicationLock_proofs` | its theorems | `PublicationLock` |
| `CatalogSelection` | what a generated root promises its readers (abstract) | |
| `CatalogPublication` | one publisher's work on a root | `CatalogSelection` (refined) |
| `CatalogPublication_proofs` | its theorems | `CatalogPublication` |
| `EnsureLifecycle` | the runs of one process, its caches, beside another publisher and an editor | |
| `EnsureLifecycle_proofs` | its theorems | `EnsureLifecycle` |
| `LocaleSelection` | a queue of locale activations (abstract) | |
| `I18nextController` | one controller | `LocaleSelection` (refined) |
| `I18nextProvider` | one Provider over that controller | `I18nextController` (extended) |
| `I18nextProvider_proofs` | theorems of controller and Provider | `I18nextProvider` |
| `PackageAuthority` | authorizations, reuse and verification of packages | |
| `PackageAuthority_proofs` | its theorems | `PackageAuthority` |
| `WorkspaceAuthority` | supervisors of the workspace pointer | |
| `AuthorityTransfer` | export and import of a bundle | `WorkspaceAuthority` (extended) |
| `AuthorityTransfer_proofs` | theorems of supervisors, exports and imports | `AuthorityTransfer` |
| `BundlerAdapters` | Vite plugin and Next.js loader over rotating builds | |
| `BundlerAdapters_proofs` | its theorems | `BundlerAdapters` |
| `ClassifierTransaction` | concurrent authorizations of project owners | |
| `SourceClassifier` | which sources can reach a facade | |
| `CheckReceipt` | assembly and reading of a receipt | `SourceClassifier` (extended) |
| `SemanticBatch` | sources that share programs, in lanes | |
| `SourceLowering` | the rewriting of one source, and its execution | |
| `SourceAnalysis_proofs` | theorems of transactions, receipts and the lowering | `ClassifierTransaction`, `CheckReceipt`, `SourceLowering` |
| `MessageRendering` | one message from its translations to a call | |
| `MC*` | the instances TLC checks | |

`CatalogPublication` assumes what `PublicationLock` establishes, a single
publisher at a time. `EnsureLifecycle` keeps of a publication its lock, its two
barriers, its commit and its release. `CatalogPublication` lets a barrier see
the inputs of that moment; whether the cache it reads them through does so is
the question of `EnsureLifecycle`. `PackageAuthority` takes a run of the
lifecycle as one step, `BundlerAdapters` a publication as its staging, commit
and removal. `CheckReceipt` extends `SourceClassifier`, whose projections it
assembles. `SourceLowering` ends at the descriptor a call is given;
`MessageRendering` begins there.

The modules up to `ClassifierTransaction` are concurrent: their actions are the
steps of processes or promises. `SourceClassifier`, `CheckReceipt`,
`SemanticBatch`, `SourceLowering` and `MessageRendering` are long computations
as state machines of a few steps: the first chooses an input from a set that
the module defines, the others compute.

### PublicationLock

A process is at a step `pc[p]`; every action is one call of the code
(`link`, `unlink`, `lstat`, a read) or several with nothing observable in
between, and `Crash` can come between any two. Inodes are numbers that are
reused as soon as nothing refers to them, since that is what the checks of
`samePublicationLockInode` (lines 534-554) are exposed to. `aged` says whose
last change is five seconds ago, and `stale` which snapshots hold an outdated
change time. `StartPublish`, `Look`, `Create`, `Link`, `Check`, `Verify`,
`Undo`, `Drop` are `withPublicationFileLock` and `installPublicationLock`;
`Clear*` is `recoverAbandonedRecoveryClaim`; `Rec*` is
`recoverStalePublicationLock`; `Sweep` the repair of a reader; `Rel*` the
release.

`Expiry` says when a recovery claim can become five seconds old: never, only
when its recoverer is gone, or at any time (a process that is paused).

### CatalogPublication

The root is `builds` (each payload directory absent, partial or whole), `ctl`
(the generation each control file names), `journal` and `stage`. A publication
is at a step `pc` that is a journal state of `runPublication` (2316-2643) where
the code has one. `Edit` changes the inputs, `Kill` ends the process, and the
next `Begin` resumes from the journal. With `TornSteps` a kill can also fall
inside a recursive removal or the first write of the journal. `Dir` gives the
payload directory of each input: two inputs may generate the same payload. A
behaviour starts from an empty root, a committed generation with its payload, or
one without it (`Bare`): a checkout that has the generated files and not
`builds/`, which `inspectInitialState` accepts (1755-1760, 1763-1806;
`writer.test.ts` 86-90).

### EnsureLifecycle

`runs` are the runs of `serializeGeneration`, in order; `active` and `once` are
the two promise maps. The run whose turn it is goes through `Judge`, `List`,
`Read`, `Stamp`, `Fast` or `Verify`, and, when it must generate, `Plan`, `Lock`,
`Install`, `Commit`; every loading of inputs is `Read` and, on a miss, `Stamp`,
which is where the code fingerprints what it has read. A fingerprint is kept as
whether it still matches (`matching`), which makes the state finite without
bounds on edits or on the publications of the other process. That process takes
the lock, commits, releases and dies at any time, and so does the editor.
`MidLoad` says whether an edit can fall between `Read` and `Stamp`.

### I18nextController and I18nextProvider

Each asynchronous operation is a record with the step it has reached; every
action is what the code does between two `await`s, the continuation order being
free. `generation` and `disposed` are the guards of `assertGeneration` and
`assertActive`. i18next's `changeLanguage` may succeed or fail, and may have
changed the language before it fails; the resource loader may fail. The
Provider adds React: a render uses the props and state of the moment, an effect
runs some time after the render that asked for it, may run again for the same
selection, and the callbacks of its promises may come after it was cleaned up.

### PackageAuthority

Versions stand for the families of inputs (`src`, `cat`, `tool`), a generated
root for the input it came from, and a hash for what it is the hash of. An
authorization (`proof.ts`) is `Ensure`, `VerifyCatalog`, `ReadSources`,
`ReadToolchain`, `Analyze`, the installation of set, receipt and classifier
authority as immutable objects (`LinkObject`, `UnlinkTemporary`: a kill between
them leaves a file with two names), `Fingerprint*`, and `Commit`, the rename of
the selector. `StartCheck` decides whether the recorded set may be reused by
this runtime; `Complete`, `Select`, the `Compare*` of a first round and the
`Recheck` of a second are a session that verifies packages one by one and then
all of them again. Editors, other processes that regenerate, and kills come
between any two steps; the commit barrier and its rename are one synchronous
section of the code (`proof.ts` 808-935), and nobody acts inside it. `Rejected`
says which sources which runtime's analysis refuses.

### WorkspaceAuthority and AuthorityTransfer

A supervisor describes what the packages select, takes the lease, installs the
manifest under the name of its content, stages the pointer, revalidates and
renames. A kill in the write of the manifest leaves it torn. After the rename
the directory sync, the observer and the release may fail, which must not turn
the commit into an error. The transfer adds an exporter that reads selectors,
hashes, copies and derives everything again from the copy, and importers that
swap trees one rename at a time: all generated trees, then, when one package
after the other has verified with its staged authority (`VerifyStaged`), all
authority trees, then the workspace's, and one package after the other once more
(`VerifyInstalled`); an edit can fall between any two of these verifications.
`recent` is a history variable: the inputs each package has had since the last
tree was installed. Every step may fail or be
killed, is taken back in reverse, and what cannot be taken back stays in the
backup. The two checkouts share the bundle only, so a behaviour follows one.

### BundlerAdapters

`disk` is the generated root (pointer, facade, builds) that another process
rotates; a Vite session is a server with its chain of discoveries, its restart
promise and its cached modules, and a next server that is started beside it; a
Next.js worker is a process with the same caches. `Transform`, `ReadContract`,
`ReadFacade`, `Answer` are the reads a transformation makes at different
moments; `AuthorizeSlice`, `AuthorizeFacade`, `ReadMessages`, `ReadSettles` are
those of the request for the messages.

### ClassifierTransaction, SourceClassifier and CheckReceipt

`ClassifierTransaction` is the one-shot transaction of `classifier-candidate.ts`:
calls seal an input, share the promise of a classification of the same input,
poison the transaction when anything fails, and finalisation waits for what is
under way; the committer validates inputs and projections one by one, beside
edits. `SourceClassifier` is the classification itself: a path is a sequence of
names, and `Worlds` varies compiler options (`paths`, `baseUrl`, `rootDirs`),
package manifests (`exports`, `imports`, conditions, patterns), links, nested
packages and the specifiers of three sources, one or two features at a time.
What TypeScript itself resolves is written from how the code uses it and is
external. `CheckReceipt` assembles the ledger, the projections and the closures
into tables (`AssembledReceipt`) and states every relation the reader demands,
in the reader's order (`ReadTables` to `UniverseIsCurrent`); `Damages` changes
any one fact.

### SemanticBatch

Each source of an owner gets a sealed closure (`PrepareClosure`); `Fuse` groups
sources whose closures agree, `Isolated` ones get programs of their own, and an
import of one source that means another of the group is handed over to it. The
lanes take sources in order; a worker may die. `Alone` is the reference: the
view and the evidence of a source whose program is its own.

### SourceLowering

A source is a sequence of declarations (factories, keys, hooks, conditionals,
destructurings, re-assignments) and uses; the analysis is the sequence of its
passes (`Preflight`, `Bind*`, `RefuseWrapperHooks`, `Visit*`,
`ValidateReferences`), and ends in the calls that are rewritten and the
registries that are emitted. `Run` executes the rewritten source with
`translations.ts`; `Meant` is the reference, which follows the values a variable
had.

### MessageRendering

`WriteMessage` picks a pair of translations (trees of up to two parts with
nested branches) or of structured values; `Compile` is `parser.ts`
(`InferredContract`, `Parses`, `Parity`) and `compile.ts`; `CallMessage` picks a
backend, the emitted or the plain descriptor, whether the catalog registers the
message, strictness, a locale, the resources i18next has, and values of right
and wrong types, and computes what comes back. The four walks over a message
are four operators (`RenderNodes`, `RenderRichNodes`, `RunText`, `RunRich`).
A rendered number or date is a token that names what was formatted, how and in
which locale. `Meaning` is the reference: what ICU says the translation says.

## 3. Runs

| Run | Instance | Shows |
|---|---|---|
| `lock_safety` | 3 processes that publish, repair and die; 4 inodes | `MutualExclusion`, `NothingLeftBehind`, `LiveLockKept` |
| `lock_liveness` | the root after two kills, a publisher and a repairer that may be killed | `PublisherServed` |
| `lock_two_crashes` | the same root, two publishers | `MutualExclusion` does **not** hold |
| `publication_safety` | 4 inputs, two with one payload; an empty root, a committed one, or one without `builds/`; 3 edits or 3 kills, or 2 of each, also inside removals | `SuccessSelectsPlan`; `OneFaultRests`, `FailureRestores` and the refinement `ReadersServed` of behaviours with edits alone or kills alone; `Converges` of behaviours with edits alone or kills between steps |
| `provider` | the controller with 3 activations, 1 preload and 3 locales, used by an application, or by a Provider whose parent selects no locale twice | `LanguageFollowsActive` and the refinement `ServedInOrder` of the controller; `ChildrenInTheirLocale`, `SelectionServed`, `ActivationsSettle` |
| `provider_returns` | the parent returns to an earlier locale | `SelectionServed` does **not** hold |
| `lifecycle` | 2 runs, 2 inputs, 2 attempts | `QuietRunIsCurrent`, `ReturnedIsSelected`, `OnceKeepsLatest`, `RunsSettle` |
| `lifecycle_midload` | the same, an edit between reading and fingerprint | `QuietRunIsCurrent` does **not** hold |
| `authority` | 2 packages, a checking process, a build, 2 edits, 1 kill; or one message | `SelectedComplete`, `CommitsOneMoment`, `SessionSeesOneMoment`, `AcceptedWasAuthorized`; `RenderedAsWritten`, `CompiledMeansRenderable` |
| `value_through_bridge` | the messages of `MessageRendering` alone | `BridgeReadsEmittedValues` does **not** hold |
| `toolchain` | one of six parts at a time | see below |
| `receipt_reads_back` | the workspaces of `SourceClassifier` | `AssembledReceiptsReadBack` does **not** hold |

The parts of `toolchain` share no state while they run; a behaviour follows one
of them and the others rest in one initial state.

| Part | Instance | Shows |
|---|---|---|
| transfer | 2 packages, 2 supervisors, 2 importers, 1 new authorization, 2 edits of the receiver | `CommitLasts`, `PointerMovesForward`, `ArchiveOneMoment`, `ImportKeepsOrder`, `ImportWholeOrNothing` |
| bundler | 2 builds, 2 modules, 1 cached module, 2 changes, 2 reads | `StaleSessionRestarts`, `SlicesMatchTheirImporters` |
| transaction | 2 owners, 2 calls, 2 edits | `HandedOutThenCommitted` |
| receipt | all worlds of `SourceClassifier`, all receipts with one fact changed | `AbsentIsAbsent`, `RefusedForKnownCauses`, `OneWrongFactHidesNothing` |
| batch | 3 sources, 2 lanes, 1 source a worker | `BatchChangesNoView`, `EvidenceIsItsOwn` |
| lowering | up to 3 declarations and 2 uses over a small catalog | `LoweredAsMeant`, `KeysFindTheirMessages`, `PreflightMissesNothing` |

Every property of a passing run has a mutant in `PROJECT.json`: a definition of
the module with the change a plausible bug would make, under which TLC finds
the property violated. Mutants stand next to what they change, marked
`Mutant:`.

### Bounds, and why they are enough

* Lock: a process takes part once. Three processes are a holder or a dead
  owner, a recoverer, and one that interferes with the recovery; four inodes
  let each have a file and one number be reused. The proofs have no bound.
* Publication: four inputs are the selected generation, the one a publication
  installs, the one an edit turns to, and one that shares its payload with
  another; three edits reach both barriers of a
  publication and the one after it, three kills interrupt a publication, its
  resumption and the resumption of that. A behaviour has
  at most two of each (`MaxMixed`) when it has both: one of each already breaks
  the properties that except `Mixed` behaviours (section 4).
* Controller and Provider: three activations are one that is served, one that
  waits for it and one that is requested while either fails; three locales let
  a parent move on twice without returning. `Returning` is false in `provider`
  because returning is the disagreement of `provider_returns`.
* Lifecycle: two runs are one and the one queued behind it; two attempts let a
  wait succeed, and fail. Edits and foreign publications are unbounded.
* Authority: two packages are the fewest a session can read at different
  moments; one kill leaves a partial publication and a later one finds it; two
  edits change a family before and after it is read. `MaxEvents` bounds edits,
  kills and ticks together, which keeps the combinations of two and drops those
  of four.
* Transfer: two packages give the order of trees a middle, two importers
  compete for the lock, two edits of the receiver fall anywhere in an import:
  one behind a verification and one before the next.
* Bundler: two changes are a rotation and one more while its restart is under
  way; one cached module makes the second evict the first.
* Classifier, batch, lowering, messages: the inputs vary one or two features at
  a time. The rules interact in pairs (an alias with a link, a pattern with a
  condition, a nested plural with an offset); combinations of three features
  are not covered. Two locales of unlike plural categories and the numbers 0 to
  2 reach every kind of branch.

### Fairness, and why the code justifies it

* `PublicationLock!Fairness`: a live process makes its next call, a waiting one
  polls again (`waitBeforePublicationLockRetry` is a timer), time passes.
  Nothing obliges a process to start, and a killed one does nothing.
* `CatalogPublication!LiveSpec`: a publication continues until it ends or is
  killed, and somebody publishes again (every build and every dev server does).
* `I18nextController!LiveSpec`, `ProviderLiveSpec`: promises settle, their
  continuations run, and React renders and runs the effects it owes. Weak
  fairness of the whole of `Progress` is enough: nothing there recurs for ever.
* `EnsureLifecycle!LiveSpec`: the run under way makes its next step. Of the
  other process nothing is assumed: it may hold the lock for ever, because the
  attempts of a wait are bounded and their end is a failure.

## 4. Where code and documentation disagree

* `lock_two_crashes`. After a publisher and then a recoverer were killed, a
  process that has judged the abandoned claim by its inode
  (`writer.ts` 701-709) removes the claim another process has since made on the
  same stale lock: the inode is the same, and change times are not compared.
  Both recover, and the unlink of the slower one removes the lock of a live
  publisher. `writer.ts` 925: "the file lock still decides between processes".
* `provider_returns`. The selections `th`, `en`, `th` in quick succession leave
  the activation of `en` queued while the effect finds `th` active and shows the
  children; `en` then becomes active under them (`index.ts` 533-545).
* `lifecycle_midload`. `loadConventionCatalogGenerationInput` fingerprints the
  inputs after it has read them (`catalog.ts` 3476-3479). An edit in between is
  remembered as seen: later runs in which nobody edits reuse the old catalog,
  and both barriers of a publication take the stale input for current.
* `receipt_reads_back`. The assembler returns a receipt with the comment
  "Projection-ledger assembly already validated this exact pair"
  (`authorization-snapshot.ts` 7537), and it is published without being read
  back. Three kinds of workspaces make the reader refuse it: a source with a
  `#` import below a `package.json` that is not the facade's manifest (4237);
  two projected paths in one directory (2948-2960); a source whose preparation
  fails under an accepted exception (`analyze-sources.ts` 792).
  `RefusedForKnownCauses` shows that the instance has no fourth.
* `value_through_bridge`. `emit.ts` 416-421 keeps the emitted renderer for a
  backend other than the precompiled one, which "reads the emitted renderer for
  rich (and structured value) messages alone". The bridge to i18next reads the
  translations of a structured message instead (`backend.ts` 166-171), which
  emitted call sites do not carry: without a registered message nothing is shown.
  `CompiledMeansRenderable` claims nothing of this case.

Further behaviour met on the way, without a run of its own, by component.

Publication (`writer.ts`): a kill after control files were replaced, then an
edit before the resumption reaches its mutation barrier: the discard (1571-1608)
removes payload, stage and journal and keeps the new control files beside the
old pointer, against ADR 0002, "At rest, exactly one selected build exists"
(`OneFaultRests` excepts it); a
kill after the previous payload was removed, then an edit, makes the resumption
roll back (1903-2087) to a pointer whose payload is gone (`RollbackHasTarget`
without its exception); an edit that
keeps the payload makes a discard throw and leaves its journal (1582); a kill
inside a recursive removal (2312) or the first journal write (2421-2425) leaves
state that every later publication refuses; a claim linked to the live lock
between the two snapshots of a release makes the release throw (917-919); a
recoverer with an outdated judgement can leave its claim behind (640-650); a
live recoverer paused for five seconds loses its exclusion (712). From a checkout
without `builds/` the journal remembers no previous generation
(`inspectInitialState` returns none, 1757-1760, and `previousControlsHash` is
taken of one only, 2382-2387), so that the rollback after a late edit
(1974-2001, 2050-2066) deletes all four control files, among them those it found;
`FailureRestores` excepts exactly that end (`before.bare`). There, and where two
inputs share a payload, other inputs cannot discard a stage that would install
the selected payload (1571-1583): each publication refuses it until its own
inputs are back, which `Converges` excepts (`UndiscardedJournal`), as it does
kills inside a removal or the first write of the journal (`TornByKill`).

Authority: a kill between the link of an immutable object and the removal of its
temporary name (`proof.ts` 608) leaves a file with two names that readers accept
and an export refuses; a torn manifest of the workspace is never repaired. An
import verifies one package after the other (`authority-bundle.ts` 568-574 and
593-598), and an edit of one that has been verified, while a later one is, goes
unnoticed: the import succeeds over a checkout that no longer verifies.
`ImportWholeOrNothing` says what is left: each package verified at a moment of
its own since the last tree was installed. What one package has is read in one step
of the model.

Classifier (`ThroughLink` and `DeepImport`, which `AbsentIsAbsent` excepts): a
relative import without extension through a linked directory, a deep import
into the facade's package when it has no `exports`, a pattern of `exports` whose
star stands for a whole file name, and nested `rootDirs` are judged absent
although TypeScript reaches the facade. A revalidation of the projection under
way answers a call that asked for all families.

Batch: options are not compared when sources are fused (`transform.ts`
8333-8338), so that a first source that needs no resolution gives its program
none; an import that one source leaves unresolved is resolved when another
takes that source for a provider; whether evidence carries the contract's schema
depends on the number of lanes; globals that a provider declares reach the whole
program; a declaration file that is itself a source of the program is left out
of the evidence of the others.

Lowering: `const { t: translate } = useAppTranslations()` is refused by the
analysis (6433-6464) but skipped by the preflight, against "false negatives
would be a safety failure" (840); a variable that is assigned a second
translator keeps its first binding, and its calls are silently rewritten to the
wrong namespace; a finite key that begins with the name of its namespace is
taken for an absolute path, by the compiler (6844) and at run time
(`translations.ts` 360, 552); hooks not named `*Translations`, namespace imports
of factories and untyped properties are left as they are; any import named
`useTranslations` is taken for a factory.

Messages (`NotRenderable` lists the first two): dates reach i18next as strings when
the call site carries no translations (`backend.ts` 121-133); a text call site of a portable catalog
has no renderer for the other backend; formatters and currencies of the
application are unknown to i18next (`FormattedByI18next`); parity (`parser.ts`
358-415) never compares the branches of a select across locales.

## 5. Proofs

`PublicationLock_proofs` (any number of processes and inodes, any kills):

* `TypeCorrect`: `Spec => []LockTypeOK`.
* `LeavesNothing`: `NothingLeftBehind`, under no assumption. `LockAccounted`
  lists the steps at which a live process can be the one that the lock names.
* `HoldersOwn`, `LockExcludes`, `LockKept`: `HolderOwnsLock`,
  `MutualExclusion`, `LiveLockKept`, under `ClaimsHold`: `Expiry = "never"`, or
  `"abandoned"` with one process at most that may be killed. With two kills they
  do not hold; `lock_two_crashes` shows why. The inductive invariant `LockInv`
  adds to `HolderOwnsLock`: between its link and its acceptance a process's
  candidate is the lock (`OwnLock`); the owner a recoverer has judged is dead and
  stays so (`JudgedDead`); the lock it is about to unlink belongs to a dead owner
  (`RemovesDead`). As long as nobody is dead or the dead owner's lock is there
  (`Trusted`), at most one process recovers, and while it does its claim exists
  (`OneRecovery`), no claim is old (`NothingAged`), and behind every claim there
  is a live recoverer (`LiveRecoverers`). Once that lock is unlinked, recoverers
  that come late still claim the lock of a live owner, leave that claim and let
  it expire; but then no dead owner is left whose lock could be unlinked.
  `HolderOwnsLock` alone is not inductive: a recoverer about to unlink the lock
  by its name would break it.

`CatalogPublication_proofs` (any inputs, payload directories, edits and kills,
torn steps, edits and kills together):

* `TypeCorrect`: `Spec => []PublicationTypeOK`.
* `SuccessIsSelected`: `Spec => []SuccessSelectsPlan`. The strengthening
  (`SuccessInv`) adds that an outcome is known exactly when the publisher is
  idle (`EndsKnown`, `RunningUntilIdle`); the property then rests on the last
  verification before the journal is removed.

* `FaultRests`, `FailuresRestore` and `ReadersAreServed`: `OneFaultRests`,
  `FailureRestores` (with `RollbackHasTarget`) and the refinement of
  `CatalogSelection`, of behaviours with edits alone or kills alone, any number
  of them, from any of the three kinds of root; with both the code breaks them,
  which is why each excepts `Mixed`.
  They share one invariant, `RootInv`. Without a journal the root is at
  rest (`NoJournal`): empty, one generation, or a checkout without `builds/`
  (`Rest`), which only the last publication can have found and left. With one
  (`JournalTells`), the root is at rest and as the journal remembers it
  (`Remembers`: a checkout without `builds/` as an empty root) while the journal is
  `PREPARED`; after that
  either nothing but the payload and some of the first three control files of
  the new generation are in place and the stage holds the rest (`NotYet`), or the
  new generation is selected (`Done`). `KillsAlone`: every publication is of the
  same inputs, so nothing is discarded or rolled back. `EditsAlone`: a publisher
  leaves at most a journal it could not discard, over the root it found
  (`Unchanged`). `Rollback`: the previous payload stays through a rollback, and
  each control file is the previous or the new one (`Between`); it ends at what the
  journal remembers (`RolledBack`), which is what the publication found, or nothing
  if that had no payload (`PrevIsBefore`). The refinement
  is then proved step by step (`StepSeen`): the rename of the payload is
  `Install`; the rename of the pointer, and its return in a rollback, `Select`;
  its removal `Deselect`; the removal of a payload, whole or its first file,
  `Remove`; every other step is a stutter.

`EnsureLifecycle_proofs` (any inputs, any number of runs and attempts, any edits
and conduct of the other process):

* `TypeCorrect`: `Spec => []LifecycleTypeOK`. The types alone are not inductive:
  `Grounded` adds that a run plans, remembers and publishes only what it has
  loaded, and that the lock and the journal are its own while it publishes.
* `ReturnedSelected`: `ReturnedIsSelected`, from `SelectInv`: a fingerprint of
  the root that still matches vouches for the generation that was taken with it
  (`published`, `receipt`), and from the pointer's commit on the root selects the
  run's plan. `SuccessSettles` says which four steps can end a run well.
* `QuietCurrent`: `QuietRunIsCurrent`, under `MidLoad = FALSE`, from `QuietInv`:
  what the cache holds under matching change times is what is on disk.
  `lifecycle_midload` shows why the assumption is needed.
* `OnceKept`: `OnceKeepsLatest`.

`I18nextProvider_proofs` (any locales, any number of calls, loads and renders;
loads and changes that fail, disposal anywhere):

* `LanguageFollows`: `LanguageFollowsActive`. The property speaks of the moments
  between transitions only; the invariant says of every step of a transition, of
  its rollback and of the initialisation what the language, the loaded bundles
  and the active locale are there.
* `ControllerServes`: the refinement `ServedInOrder` of `LocaleSelection`, step
  by step. The queue of the abstract module is the calls from the first that is
  still open on (`FirstOpen`, `Waiting`); the proof needs that every call behind
  it waits and every call before it has settled.
* `ChildrenInLocale`: `ChildrenInTheirLocale`, under `~Returning`. A locale is
  requested again only after a failure and the last calls are for the selection
  (`CallsForSelections`); what is ready and selected is active, and nothing else
  is requested (`ReadyIsServed`). `provider_returns` shows why the assumption
  is needed.

`PackageAuthority_proofs` (any packages, processes, builds and runtimes; any
edits, regenerations and kills):

* `SelectorsComplete`: `SelectedComplete`. Each step of a publication installs
  an object that the next one names (`Written`); the selector is renamed when
  all of them are there, and nothing removes one.
* `OneMomentCommits`: `CommitsOneMoment`. `seen` records each moment of the
  inputs with its time, and versions only grow: a version that is found unchanged
  was there all the time between (`VersionsPast`, `MomentSeen`). The moment is
  the last look at the catalog and the toolchain, or the regeneration since:
  `Fingerprinted` says that whatever is still found unchanged agreed then.
* `SessionsSeeOneMoment`: `SessionSeesOneMoment`. For a build the moment is the
  one between its two rounds: what the second round finds as the first did was
  so then, for every package (`BetweenRounds`, `Suits`, `Confirmed`).
* `AcceptedAuthorized`: `AcceptedWasAuthorized`, by following an outcome from the
  analysis through the objects, the record and the session.

`AuthorityTransfer_proofs` (any catalogs in any order, supervisors, importers,
authorizations, edits, failures and kills):

* `CommittedLasts`, `PointerForward`: `CommitLasts` and `PointerMovesForward`
  of `WorkspaceAuthority`. From its lease to its release the lease is a run's own
  (`OwnsLease`); a manifest is whole before the pointer that will name it is
  staged (`StagedIsWhole`); and what is about to be committed is neither behind
  the pointer nor ahead of the packages (`CommitsForward`).
* `TransferKeepsWorkspace`: a transfer beside them is a stutter of theirs, which
  carries every theorem about `WorkspaceSpec` over.
* `ArchiveIsOneMoment`: `ArchiveOneMoment`. The first pass over the catalogs
  chooses sets, the last one copies them; from the end of the first on there is
  a moment that is not before any choice and not after any copy (`OneMoment`,
  `Between`), and the validation finds choice and copy equal.
* `ImportIsInOrder`, `ImportIsWholeOrNothing`: `ImportKeepsOrder` and
  `ImportWholeOrNothing`. The invariant (`ReceiverInv`) says where the old and
  the new of each tree are for each number of renames done or taken back:
  `InOrder`, `MovedOnce`, `WhereIs`, `Emptied`, `TakenBack`. Success needs
  `VerifyInv` too: each package of the bundle has had the inputs of its set since
  the last tree was installed, or is yet to be verified (`Noticed`). Edits only
  add to what a package has had (`recent`), so that what was verified stays so,
  and with nothing left to install all of the bundle is in place (`AllInstalled`).

`BundlerAdapters_proofs` (any builds, modules, publications and edits, message
caches of any size):

* `StaleRestarts`: `StaleSessionRestarts`. Not inductive: a transform under way
  may still answer from an older pointer. `StaleIsKnown` includes the requests
  under way; `ServesPublished` and `QuietBefore` say that a catalog is ensured
  anew only while nobody has been answered, the one way a pointer changes
  without a report.
* `SlicesMatch`: `SlicesMatchTheirImporters`. `SlicesFollow` ties the step of a
  slice request to what the module was answered, and `CacheSound` says that the
  message cache holds each read once, which makes forgetting the first
  occurrence of a failed read enough.

`SourceAnalysis_proofs`, transactions (any owners, calls, paths and edits):

* `CommitsWhatIsCurrent`: `HandedOutThenCommitted`. What was handed out is on the
  record (`Recorded`); once the finalisation begins nobody is being authorized
  (`Closed`); under a barrier no identity holds a facade but the committer's
  (`FacadeIsTheCommitters`); and what the committer has looked at so far was
  current at a moment since it began (`Looked`).

`SourceAnalysis_proofs`, receipts (the workspaces of `SourceClassifier`, whatever
is selected, lost, excepted or damaged on the way):

* `ReceiptInvariant`: the receipt is the one that is assembled from the sealed
  classification, or that one with a single fact changed (`OnceWrong`), and the
  verdict of the reader is that of its rules (`ReceiptInv`); every source that
  has the facade, is unknown or whose owner is in doubt requires the program
  (`ClassifierInv`).
* `OneWrongFactIsFound`: `OneWrongFactHidesNothing`. One case for each kind of
  damage: a wrong fact leaves one of the two places that name a source that
  requires the program, and the reader compares it with the other.
* `KnownCausesInvariant`, `RefusalsHaveKnownCauses`: `RefusedForKnownCauses`, an
  equivalence. One lemma for each conjunct of the reader (`TablesAreRead`,
  `IndexesAreRead`, `ClosuresAreRead` and so on). Most follow from how a receipt
  is assembled; three are the known causes; two need what happened before, so
  that the invariant says that the projections of a boundary are of one kind
  (`RowsHold`), that the resolver was asked of candidates only, and that the
  ledger has one closure for each analyzed source (`LedgerInv`). The nearest
  manifest and the first of several roots exist by well-founded choice
  (`WFMin`), not by induction.

`SourceAnalysis_proofs`, lowering:

* `LoweringInvariant`, `PreflightIsSafe`: `PreflightMissesNothing`. In a source
  that syntax shows to be of no concern, no initializer, late assignment or use
  holds a factory or a key (`Unconcerned`, `Unused`). A pass over its
  declarations is a recursive function over their positions; that each of its
  values is the analysis as it was is shown by its least exception
  (`DeclarationsBindNothing`, `KeysBindNothing`, and place by place for a row,
  `DeclarationBindsNothing`). So nothing is ever bound (`NothingFound`), every
  use is left as it stands, and only a wrapper hook can refuse the source.
* `SoundnessInvariant`, `LoweringIsSound`, `KeysAreFoundAtRunTime`:
  `LoweredAsMeant` and `KeysFindTheirMessages`. `SoundInv` says, phase by phase
  (`SoundPhase`), that each bound name is traced to what it was declared with
  (`Traced`, `KeysAreNamed`), that once a pass finds nothing more each name that a
  declaration gives has its place (`AllPlaced`), that registries hold texts of their
  namespaces only (`Registered`), and that each visited use has a replacement that
  follows from what is bound, with all it needs in its registry (`Answered`).
  Neither half of the analysis is enough: that a call shows no other message
  needs that bindings only grow (`Grows`, `PassBinds`); that it shows one at all
  needs the last pass. Then the source runs: the values of the variables agree with
  the bindings after each declaration, if none that the call comes from changes its
  value (`GivenFits`, `AllDeclaredFit`, `EnvironmentsFit`, `CalleesFit`), and each
  kind of use shows what it means (`CallsRun`, `KeyCallsRun`, `FormsRun`). What a
  key is taken for at run time differs from what it means only if it begins with
  the namespace (`KeysAreFound`, `DeferredKeysAreWhole`): the exception of the
  property is needed, and there is no other. `ShowsStays` carries the result on.
  Passes, rows and environments are recursive functions over positions; what holds
  at 0 and is handed on holds everywhere by the least exception (`Climb`).
  The module has no constants: the theorems are about its sources, of which the
  lemmas use only that they can be read (`ReadableSource`: declarations that are
  followed place by place, legible expressions, at most three declarations, keys
  and forms as the uses have them) and the paths of the catalog.

Before each of these proofs TLC checked the invariant on the instance of the
run, but for `SoundInv`, whose parts speak of all patterns and expressions;
there it checked the two properties. Some definitions were written for the
provers as much as for the reader: `Recheck` of `PackageAuthority` returns the
set of next positions instead of choosing the least; the queue of a controller
is a set of call numbers from `FirstOpen` on; the records of calls, reads and
instances are written out field by field; the message cache forgets an entry by
its position; targets of packages and passes over declarations are recursive
functions over a depth or a position, and the damages of a receipt have an
operator for each of its parts.

Assumptions on constants are those of the modules, which TLC evaluates in the
runs: bounds are natural numbers, and names that mean "none" are no members of
the sets they stand beside (`NoInstance` says so of the sessions). Two say more.
`AuthorityConstants`: every package is in the order once, there is a
package, and some runtime accepts the sources nobody edited (a build needs a set
to begin with). `TransferConstants`: a workspace has a catalog and names each
once (`authority-bundle.ts` 132 and 165-172 refuse others).
Beyond `ClaimsHold`, `Mixed`, `MidLoad` and `Returning`, where a theorem names them, nothing
is assumed of when a process acts, fails or dies.

Only model-checked: every liveness property (fairness and ENABLED are out of the
prover's reach), namely `PublisherServed`, `Converges`, `SelectionServed`,
`ActivationsSettle` and `RunsSettle`; `AbsentIsAbsent`, whose resolver and
projection meet only in the particular exports, imports and specifiers of the
workspaces, all of which TLC enumerates; `BatchChangesNoView` and
`EvidenceIsItsOwn`, which close sets of files under operators that are
parameters, which no prover here can instantiate; and the properties of
`MessageRendering`, whose recursive operators follow the nesting of messages:
what they compute for every message is an induction over data.

## 6. Not modelled, and why

* The content of files: hashes, canonical JSON and manifests are the identity of
  a generation. Corruption by others, symbolic links and file modes are refused
  by checks that do not interact with the rest.
* `fsync` and power loss: kills are of processes, not of machines.
* `publicationTurns`, which serialises publishers inside one process.
* The classifier's native scanner and its cache, the V2 projection, and the
  native builder: the model starts from the boundaries a scan gives.
* What TypeScript, Vite, webpack, React, i18next and `Intl` do is modelled from
  how the code uses them and no further.
* Discovery and ownership of catalogs, path confinement, composition of
  namespaces (`compose.ts`), canonical order and JSON, and the emitted
  declarations: pure functions over trees of files and names whose rules do not
  interact with what is modelled; they are next in the plan.
* Limits on the size and depth of values, archives and caches, except
  `maximumCachedModules`.
* The commands, their output and exit codes; the hard-coded literal lint; the
  loading backend for i18next; the React, Node, test and telemetry bindings; the
  meta package and the release scripts.

## 7. Plan

1. Done: lock, publication, lifecycle, controller and Provider, package and
   workspace authority, bundles, adapters, classifier transaction, receipts and
   the lowering (with proofs); batch and messages (model-checked).
2. Proofs of what is model-checked only (section 5): the closures of
   `SemanticBatch` as a function over a number of waves for each of the two
   relations.
3. `compose.ts`, `ownership.ts` and `path-within.ts` as operators checked against
   reference definitions.
4. The subscriptions of the runtime and the loading backend for i18next over
   `I18nextController`.
