-------------------------- MODULE BundlerAdapters --------------------------
(***************************************************************************)
(* The Vite plugin and the Next.js loader over one generated root: which   *)
(* build the modules of a development session are compiled against while   *)
(* another process publishes (packages/compiler/src/vite.ts, next.ts,      *)
(* next-loader.ts, private-module.ts, and the catalog cache of             *)
(* transform.ts).                                                          *)
(*                                                                         *)
(* A module is transformed against the build that current.json selects and *)
(* then imports a slice of that build's messages; the two requests are     *)
(* answered at different moments, from caches that outlive a publication.  *)
(*                                                                         *)
(* Abstractions: a build stands for its hash, its directory and its        *)
(* payload; a publication is its staged build and facade, its commit and   *)
(* the removal of the previous build (CatalogPublication has the rest);    *)
(* events of the same file and environment that nobody has handled yet are *)
(* one event; Vite starts the next server beside the present one and       *)
(* changes over, or keeps the present one when that fails; the events of   *)
(* the next server are handled once it has taken over.  A slice is told by *)
(* the build whose messages it holds, which declarations it holds is left  *)
(* out.                                                                    *)
(***************************************************************************)
EXTENDS Naturals, FiniteSets, Sequences

CONSTANTS Builds,        \* generated builds
          Modules,       \* application modules
          NoBuild,
          CachedModules, \* maximumCachedModules
          MaxChanges,  \* bound on the publications and edits
          MaxReads       \* bound on the reads of message files

ASSUME BundlerConstants ==
  /\ NoBuild \notin Builds
  /\ CachedModules \in Nat \ {0} /\ MaxChanges \in Nat
  /\ MaxReads \in Nat

VARIABLES
  adapter,    \* "vite" or "next"
  disk,       \* the generated root: pointer, facade selector, builds
  writer,     \* the publication under way: its build and step, or NoBuild
  changes,    \* the publications begun and the edits so far
  session,    \* the session that answers requests, and
  nextSession,\*   the one a restart prepares, or NoBuild
  catalog,    \* catalogCache: the build remembered with its pointer, or NoBuild
  requests,   \* the transform of each module: its step and the pointer it read
  served,     \* what each module was compiled against in this session:
              \* contract, facade and slice
  slices,     \* the slice request of each module: its step, or its read
  reads,      \* reads of message files: build and "pending", "done", "failed"
  sources     \* moduleSourceCache: the reads it holds, oldest first

root    == <<disk, writer, changes>>
servers == <<adapter, session, nextSession>>
answers == <<requests, served, slices>>
caches  == <<catalog, reads, sources>>
bundler == <<root, servers, answers, caches>>

\* What a watcher reports: the rotated pointer, to each environment, or an
\* edited input.  Other generated files are suppressed whenever they are
\* reported, and are left out.
Events == {<<"pointer", "client">>, <<"pointer", "ssr">>, <<"input", "client">>}

\* A plugin instance: its phase, the events its watcher has for it, the state
\* of discoveryReady and localeRoots, whether updates wait for it, and
\* restartPromise.
Instances ==
  [phase : {"starting", "ensuring", "serving"}, events : SUBSET Events,
   discovery : {"idle", "loading", "found", "failed"}, waiting : BOOLEAN,
   restart : {"none", "running", "failed"}]

\* NoBuild also stands for the absence of an instance.
ASSUME NoInstance == NoBuild \notin Instances

NewSession(phase) ==
  [phase |-> phase, events |-> {}, discovery |-> "idle", waiting |-> FALSE,
   restart |-> "none"]

Nothing == [contract |-> NoBuild, facade |-> NoBuild, slice |-> NoBuild]
Idle == [at |-> "idle", build |-> NoBuild]

\* hasPublishedCatalog: the pointer, and the build it selects, are there.
HasPublishedCatalog == disk.pointer \in disk.builds

\* The file watchers of both servers report a change.
Notice(kind) ==
  LET told(s) == IF s = NoBuild THEN s
                 ELSE [s EXCEPT !.events =
                         @ \cup {ev \in Events : ev[1] = kind}]
  IN  /\ session' = told(session)
      /\ nextSession' = told(nextSession)

BundlerInit ==
  /\ adapter \in {"vite", "next"}
  /\ \E b \in Builds \cup {NoBuild} :
       \E on \in {{}, {b} \ {NoBuild}} :
         disk = [pointer |-> b, facade |-> b, builds |-> on]
  /\ writer = Idle
  /\ changes = 0
  /\ session = NewSession("starting")
  /\ nextSession = NoBuild
  /\ catalog = NoBuild
  /\ requests = [m \in Modules |-> Idle]
  /\ served = [m \in Modules |-> Nothing]
  /\ slices = [m \in Modules |-> Idle]
  /\ reads = <<>>
  /\ sources = <<>>

-----------------------------------------------------------------------------
(* Another process publishes, or a translator edits a locale file.         *)

StageBuild(b) ==
  /\ writer = Idle /\ b # disk.pointer /\ changes < MaxChanges
  /\ changes' = changes + 1
  /\ writer' = [at |-> "staged", build |-> b]
  /\ disk' = [disk EXCEPT !.builds = @ \cup {b}, !.facade = b]
  /\ UNCHANGED <<servers, answers, caches>>

CommitBuild ==
  /\ writer.at = "staged"
  /\ writer' = [writer EXCEPT !.at = "committed"]
  /\ disk' = [disk EXCEPT !.pointer = writer.build]
  /\ Notice("pointer")
  /\ UNCHANGED <<changes, adapter, answers, caches>>

RemovePrevious ==
  /\ writer.at = "committed"
  /\ writer' = Idle
  /\ disk' = [disk EXCEPT !.builds = {writer.build}]
  /\ UNCHANGED <<changes, servers, answers, caches>>

EditInput ==
  /\ changes < MaxChanges
  /\ changes' = changes + 1
  /\ Notice("input")
  /\ UNCHANGED <<disk, writer, adapter, answers, caches>>

-----------------------------------------------------------------------------
(* The sessions of Vite.                                                   *)

Put(s, old) ==
  IF old = session THEN session' = s /\ UNCHANGED nextSession
                   ELSE nextSession' = s /\ UNCHANGED session

Sessions == {session, nextSession} \ {NoBuild}

\* buildStart: the catalog is validated anew; without a published one it is
\* ensured, which also brings discovery; otherwise the build starts at once.
BuildStart(s) ==
  /\ adapter = "vite" /\ s.phase = "starting"
  /\ catalog' = NoBuild
  /\ IF HasPublishedCatalog
     THEN Put([s EXCEPT !.phase = "serving"], s)
     ELSE Put([s EXCEPT !.phase = "ensuring"], s)
  /\ UNCHANGED <<root, adapter, answers, reads, sources>>

\* ensureMiraiIntlCatalogOnce publishes unless another process has.
Ensured(b) ==
  IF HasPublishedCatalog THEN UNCHANGED disk
  ELSE disk' = [pointer |-> b, facade |-> b, builds |-> {b}]

EnsureFinished(s, b) ==
  /\ s.phase = "ensuring" /\ writer = Idle
  /\ Ensured(b)
  /\ Put([s EXCEPT !.phase = "serving", !.discovery = "found"], s)
  /\ UNCHANGED <<writer, changes, adapter, answers, caches>>

\* configureServer: without locale roots yet, discovery is deferred.
ConfigureServer(s) ==
  /\ adapter = "vite" /\ s.phase = "serving" /\ s.discovery = "idle"
  /\ Put([s EXCEPT !.discovery = "loading"], s)
  /\ UNCHANGED <<root, adapter, answers, caches>>

\* A discovery that ends answers the updates that wait for it; one that fails
\* rejects the chain, and with it every later update that needs discovery.
DiscoveryEnds(s, outcome) ==
  /\ s.discovery = "loading"
  /\ Put([s EXCEPT !.discovery = outcome, !.waiting = FALSE], s)
  /\ UNCHANGED <<root, adapter, answers, caches>>

\* restartForCatalogRotation: one restart at a time per plugin instance.
RestartForCatalogRotation(s, ev) ==
  IF s.restart = "running"
  THEN /\ Put([s EXCEPT !.events = @ \ {ev}], s)
       /\ UNCHANGED catalog
  ELSE /\ catalog' = NoBuild
       /\ session' = [s EXCEPT !.events = @ \ {ev}, !.restart = "running"]
       /\ nextSession' = NewSession("starting")

\* filterHotUpdate: only the rotation of the pointer restarts, and only from
\* the client environment; an input waits for discovery to be told apart.
FilterHotUpdate(s, ev) ==
  /\ adapter = "vite" /\ s.phase = "serving" /\ s = session /\ ev \in s.events
  /\ IF ev[1] = "pointer" /\ ev[2] = "client"
     THEN RestartForCatalogRotation(s, ev)
     ELSE /\ UNCHANGED catalog
          /\ LET rest == [s EXCEPT !.events = @ \ {ev}]
             IN  IF ev[1] = "input" /\ s.discovery \in {"idle", "loading"}
                 THEN Put([rest EXCEPT !.discovery = "loading",
                                       !.waiting = TRUE], s)
                 ELSE Put(rest, s)
  /\ UNCHANGED <<root, adapter, answers, reads, sources>>

\* server.restart(): the next server takes over, with nothing compiled yet.
RestartSucceeds ==
  /\ nextSession # NoBuild /\ nextSession.phase = "serving"
  /\ session' = nextSession
  /\ nextSession' = NoBuild
  /\ requests' = [m \in Modules |-> Idle]
  /\ served' = [m \in Modules |-> Nothing]
  /\ slices' = [m \in Modules |-> Idle]
  /\ UNCHANGED <<root, adapter, caches>>

RestartFails ==
  /\ nextSession # NoBuild
  /\ session' = [session EXCEPT !.restart = "failed"]
  /\ nextSession' = NoBuild
  /\ UNCHANGED <<root, adapter, answers, caches>>

-----------------------------------------------------------------------------
(* Next.js: the loader ensures the catalog once per process; a rebuild       *)
(* follows every change of a file that outputs depend on, and the webpack    *)
(* plugin ensures the catalog before it.                                     *)

MiraiIntlNextLoader(b) ==
  /\ adapter = "next" /\ session.phase = "starting" /\ writer = Idle
  /\ Ensured(b)
  /\ session' = [session EXCEPT !.phase = "serving"]
  /\ UNCHANGED <<writer, changes, adapter, nextSession, answers, caches>>

\* addDependency: every output depends on current.json.
Recompile(ev) ==
  /\ adapter = "next" /\ session.phase = "serving" /\ ev \in session.events
  /\ session' = [session EXCEPT !.events = @ \ {ev}]
  /\ IF ev[1] = "pointer"
     THEN /\ requests' = [m \in Modules |-> Idle]
          /\ served' = [m \in Modules |-> Nothing]
          /\ slices' = [m \in Modules |-> Idle]
     ELSE UNCHANGED answers
  /\ UNCHANGED <<root, adapter, nextSession, caches>>

-----------------------------------------------------------------------------
(* Transforms: loadCurrentCatalog.                                         *)

Answer(m, contract, facade) ==
  served' = [served EXCEPT ![m] = [contract |-> contract, facade |-> facade,
                                   slice |-> NoBuild]]

\* Mutant: a remembered catalog answers until it is invalidated.
TransformRemembered(m) ==
  /\ session.phase = "serving" /\ served[m] = Nothing
  /\ requests[m].at = "idle" /\ disk.pointer # NoBuild
  /\ IF catalog # NoBuild
     THEN /\ Answer(m, catalog, catalog)
          /\ UNCHANGED requests
     ELSE /\ requests' = [requests EXCEPT ![m] =
                           [at |-> "contract", build |-> disk.pointer]]
          /\ UNCHANGED served
  /\ UNCHANGED <<root, servers, slices, caches>>

\* A remembered catalog answers while the bytes of the pointer are the same;
\* otherwise it is read, beginning with the pointer.
Transform(m) ==
  /\ session.phase = "serving" /\ served[m] = Nothing
  /\ requests[m].at = "idle" /\ disk.pointer # NoBuild
  /\ IF catalog = disk.pointer
     THEN /\ Answer(m, catalog, catalog)
          /\ UNCHANGED requests
     ELSE /\ requests' = [requests EXCEPT ![m] =
                           [at |-> "contract", build |-> disk.pointer]]
          /\ UNCHANGED served
  /\ UNCHANGED <<root, servers, slices, caches>>

Refuse(m) ==
  /\ requests' = [requests EXCEPT ![m] = Idle]
  /\ UNCHANGED <<served, catalog>>

\* The contract and the provenance, inside the selected directory.
ReadContract(m) ==
  /\ requests[m].at = "contract"
  /\ IF requests[m].build \in disk.builds
     THEN /\ requests' = [requests EXCEPT ![m].at = "facade"]
          /\ UNCHANGED <<served, catalog>>
     ELSE Refuse(m)
  /\ UNCHANGED <<root, servers, slices, reads, sources>>

\* The facade, whose selector must name the pointer that was read; what was
\* read is remembered, over anything another request remembered since.
ReadFacade(m) ==
  /\ requests[m].at = "facade"
  /\ IF disk.facade = requests[m].build
     THEN /\ Answer(m, requests[m].build, disk.facade)
          /\ catalog' = requests[m].build
          /\ requests' = [requests EXCEPT ![m] = Idle]
     ELSE Refuse(m)
  /\ UNCHANGED <<root, servers, slices, reads, sources>>

-----------------------------------------------------------------------------
(* Slices: authorizePrivateMessageSliceRequest, then the message file.     *)

StopSlice(m) == slices' = [slices EXCEPT ![m] = Idle]

\* The pointer must select the build whose carrier the importer names.
AuthorizeSlice(m) ==
  /\ session.phase = "serving" /\ served[m].contract # NoBuild
  /\ served[m].slice = NoBuild /\ slices[m] = Idle
  /\ disk.pointer = served[m].contract
  /\ slices' = [slices EXCEPT ![m] = [at |-> "facade", build |-> disk.pointer]]
  /\ UNCHANGED <<root, servers, requests, served, caches>>

\* So must the facade, and the selected build must hold its files.
AuthorizeFacade(m) ==
  /\ slices[m].at = "facade"
  /\ IF disk.facade = slices[m].build /\ slices[m].build \in disk.builds
     THEN slices' = [slices EXCEPT ![m].at = "authorized"]
     ELSE StopSlice(m)
  /\ UNCHANGED <<root, servers, requests, served, caches>>

CachedRead(b) == {i \in DOMAIN sources : reads[sources[i]].build = b}

Without(s, i) == SubSeq(s, 1, i - 1) \o SubSeq(s, i + 1, Len(s))

Bounded(s) ==
  IF Len(s) > CachedModules THEN SubSeq(s, 2, Len(s)) ELSE s

\* readPrivateMessagesModule: by the real path, the read that is remembered
\* or a new one; the oldest of too many is dropped.  The path is resolved
\* first, so the build must still be there.
ReadMessages(m) ==
  LET b == slices[m].build
      await(r) == slices' = [slices EXCEPT ![m] =
                               [at |-> "reading", build |-> b, read |-> r]]
  IN  /\ slices[m].at = "authorized"
      /\ \/ /\ b \notin disk.builds
            /\ StopSlice(m)
            /\ UNCHANGED <<reads, sources>>
         \/ /\ b \in disk.builds /\ CachedRead(b) # {}
            /\ \E i \in CachedRead(b) :
                  /\ sources' = Append(Without(sources, i), sources[i])
                  /\ await(sources[i])
            /\ UNCHANGED reads
         \/ /\ b \in disk.builds /\ CachedRead(b) = {}
            /\ Len(reads) < MaxReads
            /\ reads' = Append(reads, [build |-> b, state |-> "pending"])
            /\ sources' = Bounded(Append(sources, Len(reads')))
            /\ await(Len(reads'))
      /\ UNCHANGED <<root, servers, requests, served, catalog>>

\* Mutant: the read stays remembered however it ends.
ReadSettlesKept(r) ==
  /\ reads[r].state = "pending"
  /\ reads' = [reads EXCEPT ![r].state =
                 IF reads[r].build \in disk.builds THEN "done" ELSE "failed"]
  /\ UNCHANGED <<root, servers, answers, catalog, sources>>

\* The read ends: with the messages, or with an error if the build is gone;
\* a failed read is forgotten, unless a newer one took its place.
ReadSettles(r) ==
  /\ reads[r].state = "pending"
  /\ IF reads[r].build \in disk.builds
     THEN /\ reads' = [reads EXCEPT ![r].state = "done"]
          /\ UNCHANGED sources
     ELSE /\ reads' = [reads EXCEPT ![r].state = "failed"]
          /\ \/ \E i \in DOMAIN sources :
                  sources[i] = r /\ sources' = Without(sources, i)
             \/ /\ \A i \in DOMAIN sources : sources[i] # r
                /\ UNCHANGED sources
  /\ UNCHANGED <<root, servers, answers, catalog>>

\* loadPrivateMessageSlice answers with the messages that were read.
LoadSlice(m) ==
  /\ slices[m].at = "reading" /\ reads[slices[m].read].state # "pending"
  /\ IF reads[slices[m].read].state = "done"
     THEN served' = [served EXCEPT ![m].slice = reads[slices[m].read].build]
     ELSE UNCHANGED served
  /\ StopSlice(m)
  /\ UNCHANGED <<root, servers, requests, caches>>

-----------------------------------------------------------------------------
ViteNext ==
  \/ \E s \in Sessions :
       \/ BuildStart(s) \/ ConfigureServer(s)
       \/ \E b \in Builds : EnsureFinished(s, b)
       \/ \E outcome \in {"found", "failed"} : DiscoveryEnds(s, outcome)
       \/ \E ev \in Events : FilterHotUpdate(s, ev)
  \/ RestartSucceeds \/ RestartFails

BundlerNext ==
  \/ \E b \in Builds : StageBuild(b) \/ MiraiIntlNextLoader(b)
  \/ CommitBuild \/ RemovePrevious
  \/ EditInput \/ ViteNext
  \/ \E ev \in Events : Recompile(ev)
  \/ \E m \in Modules :
       \/ Transform(m) \/ ReadContract(m) \/ ReadFacade(m)
       \/ AuthorizeSlice(m) \/ AuthorizeFacade(m)
       \/ ReadMessages(m) \/ LoadSlice(m)
  \/ \E r \in DOMAIN reads : ReadSettles(r)

BundlerSpec == BundlerInit /\ [][BundlerNext]_bundler

-----------------------------------------------------------------------------
(* A session that holds a module of a build other than the selected one is *)
(* about to learn of the rotation, is being restarted, or a restart of it  *)
(* failed (vite.ts:213-230, "transform() and load() cannot observe         *)
(* different current.json generations"): no rotation is lost, whichever    *)
(* environment hears of it first and however restarts and slow transforms  *)
(* fall.                                                                   *)
StaleSessionRestarts ==
  (\E m \in Modules : served[m].contract \notin {NoBuild, disk.pointer})
    => \/ <<"pointer", "client">> \in session.events
       \/ session.restart # "none"

(* A module, its facade types and its slice come from one build, and a     *)
(* read of messages that failed is never answered from the cache again     *)
(* (transform.ts:689-812, private-module.ts:171-278 and 421-473).          *)
SlicesMatchTheirImporters ==
  /\ \A m \in Modules :
       /\ served[m].facade = served[m].contract
       /\ served[m].slice \in {NoBuild, served[m].contract}
  /\ \A i \in DOMAIN sources : reads[sources[i]].state # "failed"
  /\ Len(sources) <= CachedModules
=============================================================================
