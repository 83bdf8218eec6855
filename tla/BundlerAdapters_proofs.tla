----------------------- MODULE BundlerAdapters_proofs -----------------------
(***************************************************************************)
(* Proofs about the bundler adapters, for any builds and modules, any      *)
(* number of publications and edits, and a message cache of any size.      *)
(***************************************************************************)
EXTENDS BundlerAdapters, SequenceTheorems, TLAPS

----------------------------------------------------------------------------
(* The inductive invariant.                                                *)

BuildOrNone == Builds \cup {NoBuild}
Disks == [pointer : BuildOrNone, facade : BuildOrNone, builds : SUBSET Builds]
Writers == [at : {"idle", "staged", "committed"}, build : BuildOrNone]
Requests == [at : {"idle", "contract", "facade"}, build : BuildOrNone]
Answers == [contract : BuildOrNone, facade : BuildOrNone, slice : BuildOrNone]
SliceRequests == [at : {"idle", "facade", "authorized"}, build : BuildOrNone]
                   \cup [at : {"reading"}, build : BuildOrNone, read : Nat]
Reads == [build : BuildOrNone, state : {"pending", "done", "failed"}]

BundlerTypes ==
  /\ disk \in Disks /\ writer \in Writers /\ catalog \in BuildOrNone
  /\ session \in Instances /\ nextSession \in Instances \cup {NoBuild}
  /\ requests \in [Modules -> Requests]
  /\ served \in [Modules -> Answers]
  /\ slices \in [Modules -> SliceRequests]
  /\ reads \in Seq(Reads) /\ sources \in Seq(Nat)

\* The build that is published is on the disk, from its stage on.
PublishesWhole ==
  /\ writer.at # "idle" => writer.build \in disk.builds
  /\ writer.at = "committed" => disk.pointer = writer.build

\* A session that serves has found a catalog, and one always stays.
ServesPublished ==
  session.phase = "serving"
      \/ (nextSession # NoBuild /\ nextSession.phase = "serving")
    => HasPublishedCatalog

\* A session answers nothing before it serves.
QuietBefore ==
  session.phase # "serving" =>
    \A m \in Modules : requests[m].at = "idle" /\ served[m] = Nothing

\* A module that was answered is not being transformed.
AnsweredOnce ==
  \A m \in Modules : requests[m].at # "idle" => served[m] = Nothing

\* What a session holds or is about to hold is of the selected build, or the
\* session knows of a rotation.
KnowsOfRotation ==
  \/ <<"pointer", "client">> \in session.events
  \/ session.restart # "none"

Stale(m) ==
  \/ served[m].contract \notin {NoBuild, disk.pointer}
  \/ requests[m].at # "idle" /\ requests[m].build # disk.pointer

StaleIsKnown == (\E m \in Modules : Stale(m)) => KnowsOfRotation

\* A slice is read for the module as it was answered.
SlicesFollow ==
  \A m \in Modules :
    /\ slices[m].at # "idle" =>
         /\ served[m].contract # NoBuild
         /\ slices[m].build = served[m].contract
    /\ slices[m].at = "reading" =>
         /\ slices[m].read \in DOMAIN reads
         /\ reads[slices[m].read].build = slices[m].build
    /\ served[m].facade = served[m].contract
    /\ served[m].slice \in {NoBuild, served[m].contract}

\* The message cache holds each of its reads once, and none that failed.
CacheSound ==
  /\ Len(sources) <= CachedModules
  /\ \A i \in DOMAIN sources :
       /\ sources[i] \in DOMAIN reads
       /\ reads[sources[i]].state # "failed"
  /\ \A i, j \in DOMAIN sources : sources[i] = sources[j] => i = j

BundlerInv ==
  /\ BundlerTypes /\ PublishesWhole /\ ServesPublished /\ QuietBefore
  /\ AnsweredOnce /\ StaleIsKnown /\ SlicesFollow /\ CacheSound

----------------------------------------------------------------------------
(* Initially nothing is answered, cached or under way.                     *)

LEMMA BundlerBegins == BundlerInit => BundlerInv
<1> SUFFICES ASSUME BundlerInit PROVE BundlerInv
  OBVIOUS
<1> USE BundlerConstants, NoInstance
<1>1. BundlerTypes
  <2>1. disk \in Disks
    BY DEF BundlerInit, Disks, BuildOrNone
  <2>2. writer \in Writers /\ catalog \in BuildOrNone
    BY DEF BundlerInit, Writers, BuildOrNone, Idle
  <2>3. session \in Instances /\ nextSession \in Instances \cup {NoBuild}
    BY DEF BundlerInit, NewSession, Instances
  <2>4. /\ requests \in [Modules -> Requests]
        /\ served \in [Modules -> Answers]
        /\ slices \in [Modules -> SliceRequests]
    BY DEF BundlerInit, Requests, Answers, SliceRequests, BuildOrNone, Idle,
           Nothing
  <2>5. reads \in Seq(Reads) /\ sources \in Seq(Nat)
    BY DEF BundlerInit
  <2> QED
    BY <2>1, <2>2, <2>3, <2>4, <2>5 DEF BundlerTypes
<1>2. PublishesWhole
  BY DEF BundlerInit, PublishesWhole, Idle
<1>3. ServesPublished
  BY DEF BundlerInit, ServesPublished, NewSession
<1>4. QuietBefore /\ AnsweredOnce /\ StaleIsKnown
  BY DEF BundlerInit, QuietBefore, AnsweredOnce, StaleIsKnown, Stale, Idle,
         Nothing
<1>5. SlicesFollow
  BY DEF BundlerInit, SlicesFollow, Idle, Nothing
<1>6. CacheSound
  BY DEF BundlerInit, CacheSound
<1> QED
  BY <1>1, <1>2, <1>3, <1>4, <1>5, <1>6 DEF BundlerInv

----------------------------------------------------------------------------
(* Steps of the sessions: the root, the answers and the message cache are  *)
(* as they were.                                                           *)

\* It is enough that the present session goes on serving and knowing what it
\* knew, and that whoever serves found a catalog.
LEMMA SessionsMove ==
  ASSUME BundlerInv,
         UNCHANGED <<disk, writer, requests, served, slices, reads, sources>>,
         catalog' \in BuildOrNone,
         session' \in Instances,
         nextSession' \in Instances \cup {NoBuild},
         session.phase = "serving" => session'.phase = "serving",
         KnowsOfRotation => KnowsOfRotation',
         session'.phase = "serving"
             \/ (nextSession' # NoBuild /\ nextSession'.phase = "serving")
           => HasPublishedCatalog
  PROVE  BundlerInv'
<1>1. BundlerTypes'
  BY DEF BundlerInv, BundlerTypes
<1>2. PublishesWhole'
  BY DEF BundlerInv, PublishesWhole
<1>3. ServesPublished'
  BY DEF BundlerInv, ServesPublished, HasPublishedCatalog
<1>4. QuietBefore' /\ AnsweredOnce'
  BY DEF BundlerInv, QuietBefore, AnsweredOnce
<1>5. StaleIsKnown'
  BY DEF BundlerInv, StaleIsKnown, Stale
<1>6. SlicesFollow' /\ CacheSound'
  BY DEF BundlerInv, SlicesFollow, CacheSound
<1> QED
  BY <1>1, <1>2, <1>3, <1>4, <1>5, <1>6 DEF BundlerInv

\* Put replaces the one session or the other.
LEMMA PutEither ==
  ASSUME NEW s \in Sessions, NEW t, Put(t, s)
  PROVE  \/ s = session /\ session' = t /\ nextSession' = nextSession
         \/ s = nextSession /\ nextSession' = t /\ session' = session
            /\ nextSession # NoBuild
BY DEF Put, Sessions

\* A session that is put back knowing of the same rotation, and serving only
\* where a catalog is published, disturbs nothing.
LEMMA SessionPut ==
  ASSUME BundlerInv, NEW s \in Sessions, NEW t \in Instances, Put(t, s),
         UNCHANGED <<disk, writer, requests, served, slices, reads, sources>>,
         catalog' \in BuildOrNone,
         s.phase = "serving" => t.phase = "serving",
         <<"pointer", "client">> \in s.events
           => <<"pointer", "client">> \in t.events,
         s.restart = t.restart,
         t.phase = "serving" => HasPublishedCatalog
  PROVE  BundlerInv'
<1> USE NoInstance
<1>1. CASE s = session /\ session' = t /\ nextSession' = nextSession
  <2>1. KnowsOfRotation => KnowsOfRotation'
    BY <1>1 DEF KnowsOfRotation
  <2> QED
    BY <1>1, <2>1, SessionsMove DEF BundlerInv, BundlerTypes, ServesPublished
<1>2. CASE s = nextSession /\ nextSession' = t /\ session' = session
  <2>1. KnowsOfRotation => KnowsOfRotation'
    BY <1>2 DEF KnowsOfRotation
  <2> QED
    BY <1>2, <2>1, SessionsMove DEF BundlerInv, BundlerTypes, ServesPublished
<1> QED
  BY <1>1, <1>2, PutEither

\* The sessions are instances, and one that serves found a catalog.
LEMMA SessionsAre ==
  ASSUME BundlerInv, NEW s \in Sessions
  PROVE  /\ s \in Instances
         /\ s.phase = "serving" => HasPublishedCatalog
BY DEF BundlerInv, BundlerTypes, ServesPublished, Sessions

LEMMA BuildStartPreserves ==
  ASSUME BundlerInv, NEW s \in Sessions, BuildStart(s)
  PROVE  BundlerInv'
<1> USE SessionsAre
<1>1. UNCHANGED <<disk, writer, requests, served, slices, reads, sources>>
  BY DEF BuildStart, root, answers
<1>2. catalog' \in BuildOrNone /\ s.phase = "starting"
  BY DEF BuildStart, BuildOrNone
<1>3. CASE HasPublishedCatalog
  <2> DEFINE t == [s EXCEPT !.phase = "serving"]
  <2>1. Put(t, s)
    BY <1>3 DEF BuildStart
  <2>2. /\ t \in Instances /\ t.events = s.events
        /\ t.restart = s.restart
    BY DEF Instances
  <2> HIDE DEF t
  <2> QED
    BY <1>1, <1>2, <1>3, <2>1, <2>2, SessionPut
<1>4. CASE ~HasPublishedCatalog
  <2> DEFINE t == [s EXCEPT !.phase = "ensuring"]
  <2>1. Put(t, s)
    BY <1>4 DEF BuildStart
  <2>2. /\ t \in Instances /\ t.events = s.events
        /\ t.restart = s.restart /\ t.phase = "ensuring"
    BY DEF Instances
  <2> HIDE DEF t
  <2> QED
    BY <1>1, <1>2, <2>1, <2>2, SessionPut
<1> QED
  BY <1>3, <1>4

LEMMA ConfigureServerPreserves ==
  ASSUME BundlerInv, NEW s \in Sessions, ConfigureServer(s)
  PROVE  BundlerInv'
<1> DEFINE t == [s EXCEPT !.discovery = "loading"]
<1>1. Put(t, s)
  BY DEF ConfigureServer
<1>2. /\ t \in Instances /\ t.events = s.events /\ t.phase = s.phase
      /\ t.restart = s.restart
  BY SessionsAre DEF Instances
<1>3. /\ UNCHANGED <<disk, writer, requests, served, slices, reads, sources>>
      /\ catalog' \in BuildOrNone
  BY DEF ConfigureServer, root, answers, caches, BundlerInv, BundlerTypes
<1> HIDE DEF t
<1> QED
  BY <1>1, <1>2, <1>3, SessionPut, SessionsAre

LEMMA DiscoveryEndsPreserves ==
  ASSUME BundlerInv, NEW s \in Sessions, NEW outcome \in {"found", "failed"},
         DiscoveryEnds(s, outcome)
  PROVE  BundlerInv'
<1> DEFINE t == [s EXCEPT !.discovery = outcome, !.waiting = FALSE]
<1>1. Put(t, s)
  BY DEF DiscoveryEnds
<1>2. /\ t \in Instances /\ t.events = s.events /\ t.phase = s.phase
      /\ t.restart = s.restart
  BY SessionsAre DEF Instances
<1>3. /\ UNCHANGED <<disk, writer, requests, served, slices, reads, sources>>
      /\ catalog' \in BuildOrNone
  BY DEF DiscoveryEnds, root, answers, caches, BundlerInv, BundlerTypes
<1> HIDE DEF t
<1> QED
  BY <1>1, <1>2, <1>3, SessionPut, SessionsAre

\* The rotation of the pointer is dropped from the events only as a restart
\* runs; every other event says nothing of a rotation.
LEMMA FilterHotUpdatePreserves ==
  ASSUME BundlerInv, NEW s \in Sessions, NEW ev \in Events,
         FilterHotUpdate(s, ev)
  PROVE  BundlerInv'
<1> USE NoInstance
<1>1. /\ s \in Instances /\ s = session /\ s.phase = "serving"
      /\ HasPublishedCatalog
      /\ UNCHANGED <<disk, writer, requests, served, slices, reads, sources>>
  BY SessionsAre DEF FilterHotUpdate, root, answers
<1>2. CASE /\ ev = <<"pointer", "client">> /\ s.restart = "running"
  <2> DEFINE t == [s EXCEPT !.events = @ \ {ev}]
  <2>1. Put(t, s) /\ catalog' = catalog
    BY <1>2 DEF FilterHotUpdate, RestartForCatalogRotation
  <2>2. /\ t \in Instances /\ t.phase = s.phase /\ t.restart = "running"
    BY <1>1, <1>2 DEF Instances
  <2> HIDE DEF t
  <2>3. session' = t /\ nextSession' = nextSession
    BY <1>1, <2>1 DEF Put
  <2> QED
    BY <1>1, <2>1, <2>2, <2>3, SessionsMove
    DEF BundlerInv, BundlerTypes, KnowsOfRotation
<1>3. CASE /\ ev = <<"pointer", "client">> /\ s.restart # "running"
  <2> DEFINE t == [s EXCEPT !.events = @ \ {ev}, !.restart = "running"]
  <2>1. /\ catalog' = NoBuild /\ session' = t
        /\ nextSession' = NewSession("starting")
    BY <1>3 DEF FilterHotUpdate, RestartForCatalogRotation
  <2>2. /\ t \in Instances /\ t.phase = s.phase /\ t.restart = "running"
    BY <1>1 DEF Instances
  <2>3. NewSession("starting") \in Instances
    BY DEF Instances, NewSession
  <2> HIDE DEF t
  <2> QED
    BY <1>1, <2>1, <2>2, <2>3, SessionsMove
    DEF KnowsOfRotation, BuildOrNone
<1>4. CASE ev # <<"pointer", "client">>
  <2> DEFINE rest == [s EXCEPT !.events = @ \ {ev}]
             t == [rest EXCEPT !.discovery = "loading", !.waiting = TRUE]
  <2>1. /\ rest \in Instances /\ rest.phase = s.phase
        /\ rest.restart = s.restart /\ rest.events = s.events \ {ev}
    BY <1>1 DEF Instances
  <2>2. /\ t \in Instances /\ t.phase = s.phase
        /\ t.restart = s.restart /\ t.events = s.events \ {ev}
    BY <2>1 DEF Instances
  <2>3. ~(ev[1] = "pointer" /\ ev[2] = "client")
    BY <1>4 DEF Events
  <2>4. (Put(t, s) \/ Put(rest, s)) /\ catalog' = catalog
    BY <2>3 DEF FilterHotUpdate
  <2> HIDE DEF t, rest
  <2>5. catalog' \in BuildOrNone
    BY <2>4 DEF BundlerInv, BundlerTypes
  <2>6. ASSUME Put(t, s) PROVE BundlerInv'
    BY <1>1, <1>4, <2>2, <2>5, <2>6, SessionPut
  <2>7. ASSUME Put(rest, s) PROVE BundlerInv'
    BY <1>1, <1>4, <2>1, <2>5, <2>7, SessionPut
  <2> QED
    BY <2>4, <2>6, <2>7
<1> QED
  BY <1>2, <1>3, <1>4

LEMMA RestartFailsPreserves ==
  ASSUME BundlerInv, RestartFails
  PROVE  BundlerInv'
<1> DEFINE t == [session EXCEPT !.restart = "failed"]
<1>1. /\ UNCHANGED <<disk, writer, requests, served, slices, reads, sources>>
      /\ catalog' \in BuildOrNone
      /\ session' = t /\ nextSession' = NoBuild
  BY DEF RestartFails, root, answers, caches, BundlerInv, BundlerTypes
<1>2. t \in Instances /\ t.phase = session.phase /\ t.restart = "failed"
  BY DEF BundlerInv, BundlerTypes, Instances
<1> HIDE DEF t
<1> QED
  BY <1>1, <1>2, SessionsMove
  DEF KnowsOfRotation, BundlerInv, ServesPublished

\* What the watchers report adds to what each session knows.
LEMMA NoticeAdds ==
  ASSUME BundlerInv, NEW kind, Notice(kind)
  PROVE  /\ session' \in Instances /\ nextSession' \in Instances \cup {NoBuild}
         /\ session'.phase = session.phase
         /\ session'.restart = session.restart
         /\ session'.events =
              session.events \cup {ev \in Events : ev[1] = kind}
         /\ nextSession' # NoBuild =>
              nextSession # NoBuild /\ nextSession'.phase = nextSession.phase
<1> USE NoInstance
<1> DEFINE new == {ev \in Events : ev[1] = kind}
           told(s) == [s EXCEPT !.events = @ \cup new]
<1>1. ASSUME NEW s \in Instances
      PROVE  /\ told(s) \in Instances /\ told(s).phase = s.phase
             /\ told(s).restart = s.restart
             /\ told(s).events = s.events \cup new
  <2>1. new \subseteq Events
    OBVIOUS
  <2> HIDE DEF new
  <2> QED
    BY <2>1 DEF Instances
<1>2. session \in Instances /\ nextSession \in Instances \cup {NoBuild}
  BY DEF BundlerInv, BundlerTypes
<1>3. session' = told(session)
  BY <1>2 DEF Notice
<1>4. \/ nextSession = NoBuild /\ nextSession' = NoBuild
      \/ nextSession \in Instances /\ nextSession' = told(nextSession)
  BY <1>2 DEF Notice
<1> HIDE DEF told
<1> QED
  BY <1>1, <1>2, <1>3, <1>4

LEMMA EditInputPreserves ==
  ASSUME BundlerInv, EditInput
  PROVE  BundlerInv'
<1>1. /\ UNCHANGED <<disk, writer, requests, served, slices, reads, sources>>
      /\ catalog' \in BuildOrNone
      /\ Notice("input")
  BY DEF EditInput, answers, caches, BundlerInv, BundlerTypes
<1> QED
  BY <1>1, NoticeAdds, SessionsMove
  DEF KnowsOfRotation, BundlerInv, ServesPublished

----------------------------------------------------------------------------
(* Steps of the generated root: the answers and the caches are as they     *)
(* were.                                                                   *)

LEMMA RootMoves ==
  ASSUME BundlerInv, UNCHANGED <<answers, caches>>,
         disk' \in Disks, writer' \in Writers,
         session' \in Instances, nextSession' \in Instances \cup {NoBuild},
         session.phase = "serving" => session'.phase = "serving",
         PublishesWhole', ServesPublished', StaleIsKnown'
  PROVE  BundlerInv'
<1>1. BundlerTypes'
  BY DEF BundlerInv, BundlerTypes, answers, caches
<1>2. QuietBefore' /\ AnsweredOnce'
  BY DEF BundlerInv, QuietBefore, AnsweredOnce, answers
<1>3. SlicesFollow' /\ CacheSound'
  BY DEF BundlerInv, SlicesFollow, CacheSound, answers, caches
<1> QED
  BY <1>1, <1>2, <1>3 DEF BundlerInv

LEMMA StageBuildPreserves ==
  ASSUME BundlerInv, NEW b \in Builds, StageBuild(b)
  PROVE  BundlerInv'
<1>1. /\ UNCHANGED <<answers, caches, session, nextSession>>
      /\ session' \in Instances /\ nextSession' \in Instances \cup {NoBuild}
  BY DEF StageBuild, servers, BundlerInv, BundlerTypes
<1>2. disk \in Disks
  BY DEF BundlerInv, BundlerTypes
<1>3. /\ disk' \in Disks /\ disk'.pointer = disk.pointer
      /\ disk'.builds = disk.builds \cup {b}
  BY <1>2 DEF StageBuild, Disks, BuildOrNone
<1>4. /\ writer' \in Writers /\ writer'.at = "staged" /\ writer'.build = b
  BY DEF StageBuild, Writers, BuildOrNone
<1>5. PublishesWhole'
  BY <1>3, <1>4 DEF PublishesWhole
<1>6. ServesPublished'
  BY <1>1, <1>3 DEF BundlerInv, ServesPublished, HasPublishedCatalog
<1>7. StaleIsKnown'
  BY <1>1, <1>3
  DEF BundlerInv, StaleIsKnown, Stale, KnowsOfRotation, answers
<1> QED
  BY <1>1, <1>3, <1>4, <1>5, <1>6, <1>7, RootMoves

\* From its commit on, every session knows of the new build.
LEMMA CommitBuildPreserves ==
  ASSUME BundlerInv, CommitBuild
  PROVE  BundlerInv'
<1>1. /\ UNCHANGED <<answers, caches>> /\ Notice("pointer")
      /\ disk \in Disks /\ writer \in Writers
      /\ writer.build \in disk.builds
  BY DEF CommitBuild, BundlerInv, BundlerTypes, PublishesWhole
<1>2. /\ disk' \in Disks /\ disk'.pointer = writer.build
      /\ disk'.builds = disk.builds
  BY <1>1 DEF CommitBuild, Disks, Writers
<1>3. /\ writer' \in Writers /\ writer'.at = "committed"
      /\ writer'.build = writer.build
  BY <1>1 DEF CommitBuild, Writers
<1>4. PublishesWhole'
  BY <1>1, <1>2, <1>3 DEF PublishesWhole
<1>5. ServesPublished'
  BY <1>1, <1>2 DEF ServesPublished, HasPublishedCatalog
<1>6. /\ session' \in Instances /\ nextSession' \in Instances \cup {NoBuild}
      /\ session'.phase = session.phase
      /\ session'.events =
           session.events \cup {ev \in Events : ev[1] = "pointer"}
  BY <1>1, NoticeAdds
<1>7. <<"pointer", "client">> \in {ev \in Events : ev[1] = "pointer"}
  BY DEF Events
<1>8. StaleIsKnown'
  BY <1>6, <1>7 DEF StaleIsKnown, KnowsOfRotation
<1> QED
  BY <1>1, <1>2, <1>3, <1>4, <1>5, <1>6, <1>8, RootMoves

\* The selected build is the one that stays.
LEMMA RemovePreviousPreserves ==
  ASSUME BundlerInv, RemovePrevious
  PROVE  BundlerInv'
<1>1. /\ UNCHANGED <<answers, caches, session, nextSession>>
      /\ session' \in Instances /\ nextSession' \in Instances \cup {NoBuild}
  BY DEF RemovePrevious, servers, BundlerInv, BundlerTypes
<1>2. /\ disk \in Disks
      /\ disk.pointer = writer.build /\ writer.build \in disk.builds
  BY DEF RemovePrevious, BundlerInv, BundlerTypes, PublishesWhole
<1>3. /\ disk' \in Disks /\ disk'.pointer = disk.pointer
      /\ disk'.builds = {writer.build}
  BY <1>2 DEF RemovePrevious, Disks
<1>4. writer' \in Writers /\ writer'.at = "idle"
  BY DEF RemovePrevious, Writers, Idle, BuildOrNone
<1>5. PublishesWhole'
  BY <1>4 DEF PublishesWhole
<1>6. ServesPublished'
  BY <1>2, <1>3 DEF ServesPublished, HasPublishedCatalog
<1>7. StaleIsKnown'
  BY <1>1, <1>3
  DEF BundlerInv, StaleIsKnown, Stale, KnowsOfRotation, answers
<1> QED
  BY <1>1, <1>3, <1>4, <1>5, <1>6, <1>7, RootMoves

\* A catalog is only ensured anew where none is published, and then no
\* session has answered anything.
LEMMA EnsuredPublishes ==
  ASSUME BundlerInv, NEW b \in Builds, Ensured(b), writer = Idle,
         UNCHANGED <<writer, answers, caches>>,
         session' \in Instances, nextSession' \in Instances \cup {NoBuild},
         session.phase = "serving" => session'.phase = "serving",
         <<"pointer", "client">> \in session.events
           => <<"pointer", "client">> \in session'.events,
         session'.restart = session.restart
  PROVE  BundlerInv'
<1>1. HasPublishedCatalog' /\ disk' \in Disks
  <2>1. CASE HasPublishedCatalog
    BY <2>1 DEF Ensured, HasPublishedCatalog, BundlerInv, BundlerTypes
  <2>2. CASE ~HasPublishedCatalog
    BY <2>2 DEF Ensured, HasPublishedCatalog, Disks, BuildOrNone
  <2> QED
    BY <2>1, <2>2
<1>2. writer' \in Writers /\ PublishesWhole' /\ ServesPublished'
  BY <1>1
  DEF BundlerInv, BundlerTypes, PublishesWhole, ServesPublished, Idle
<1>3. StaleIsKnown'
  <2>1. CASE HasPublishedCatalog
    BY <2>1
    DEF Ensured, BundlerInv, StaleIsKnown, Stale, KnowsOfRotation, answers
  <2>2. CASE ~HasPublishedCatalog
    BY <2>2
    DEF BundlerInv, ServesPublished, QuietBefore, StaleIsKnown, Stale,
        Nothing, answers
  <2> QED
    BY <2>1, <2>2
<1> QED
  BY <1>1, <1>2, <1>3, RootMoves

LEMMA EnsureFinishedPreserves ==
  ASSUME BundlerInv, NEW s \in Sessions, NEW b \in Builds,
         EnsureFinished(s, b)
  PROVE  BundlerInv'
<1> DEFINE t == [s EXCEPT !.phase = "serving", !.discovery = "found"]
<1>1. /\ t \in Instances /\ t.events = s.events /\ t.phase = "serving"
      /\ t.restart = s.restart
  BY SessionsAre DEF Instances
<1>2. /\ Ensured(b) /\ writer = Idle /\ UNCHANGED <<writer, answers, caches>>
      /\ Put(t, s)
  BY DEF EnsureFinished
<1>3. session \in Instances /\ nextSession \in Instances \cup {NoBuild}
  BY DEF BundlerInv, BundlerTypes
<1> HIDE DEF t
<1>4. CASE s = session /\ session' = t /\ nextSession' = nextSession
  BY <1>1, <1>2, <1>3, <1>4, EnsuredPublishes
<1>5. CASE s = nextSession /\ nextSession' = t /\ session' = session
  BY <1>1, <1>2, <1>3, <1>5, EnsuredPublishes
<1> QED
  BY <1>2, <1>4, <1>5, PutEither

LEMMA MiraiIntlNextLoaderPreserves ==
  ASSUME BundlerInv, NEW b \in Builds, MiraiIntlNextLoader(b)
  PROVE  BundlerInv'
<1>1. session \in Instances /\ nextSession \in Instances \cup {NoBuild}
  BY DEF BundlerInv, BundlerTypes
<1>2. /\ session' \in Instances /\ session'.events = session.events
      /\ session'.phase = "serving" /\ session'.restart = session.restart
  BY <1>1 DEF MiraiIntlNextLoader, Instances
<1>3. /\ Ensured(b) /\ writer = Idle /\ UNCHANGED <<writer, answers, caches>>
      /\ nextSession' \in Instances \cup {NoBuild}
  BY <1>1 DEF MiraiIntlNextLoader
<1> QED
  BY <1>2, <1>3, EnsuredPublishes

----------------------------------------------------------------------------
(* A session that begins anew has answered nothing.                        *)

LEMMA AnswersForgotten ==
  ASSUME BundlerInv, UNCHANGED <<disk, writer, caches>>,
         requests' = [m \in Modules |-> Idle],
         served' = [m \in Modules |-> Nothing],
         slices' = [m \in Modules |-> Idle],
         session' \in Instances, nextSession' \in Instances \cup {NoBuild},
         ServesPublished'
  PROVE  BundlerInv'
<1>1. BundlerTypes'
  <2>1. /\ Idle \in Requests /\ Idle \in SliceRequests
        /\ Nothing \in Answers
    BY DEF Idle, Nothing, Requests, SliceRequests, Answers, BuildOrNone
  <2> QED
    BY <2>1 DEF BundlerInv, BundlerTypes, caches
<1>2. PublishesWhole'
  BY DEF BundlerInv, PublishesWhole
<1>3. QuietBefore' /\ AnsweredOnce'
  BY DEF QuietBefore, AnsweredOnce, Idle
<1>4. StaleIsKnown'
  BY DEF StaleIsKnown, Stale, Idle, Nothing
<1>5. SlicesFollow'
  BY DEF SlicesFollow, Idle, Nothing
<1>6. CacheSound'
  BY DEF BundlerInv, CacheSound, caches
<1> QED
  BY <1>1, <1>2, <1>3, <1>4, <1>5, <1>6 DEF BundlerInv

LEMMA RestartSucceedsPreserves ==
  ASSUME BundlerInv, RestartSucceeds
  PROVE  BundlerInv'
<1>1. /\ UNCHANGED <<disk, writer, caches>>
      /\ session' = nextSession /\ nextSession' = NoBuild
      /\ nextSession # NoBuild /\ nextSession.phase = "serving"
      /\ requests' = [m \in Modules |-> Idle]
      /\ served' = [m \in Modules |-> Nothing]
      /\ slices' = [m \in Modules |-> Idle]
  BY DEF RestartSucceeds, root
<1>2. session' \in Instances
  BY <1>1 DEF BundlerInv, BundlerTypes
<1>3. ServesPublished'
  BY <1>1 DEF BundlerInv, ServesPublished, HasPublishedCatalog
<1> QED
  BY <1>1, <1>2, <1>3, AnswersForgotten

LEMMA RecompilePreserves ==
  ASSUME BundlerInv, NEW ev \in Events, Recompile(ev)
  PROVE  BundlerInv'
<1>1. /\ session \in Instances
      /\ nextSession' = nextSession
      /\ nextSession \in Instances \cup {NoBuild}
      /\ UNCHANGED <<disk, writer, catalog, reads, sources>>
      /\ UNCHANGED caches
  BY DEF Recompile, root, caches, BundlerInv, BundlerTypes
<1>2. /\ session' \in Instances /\ session'.phase = session.phase
      /\ session'.restart = session.restart
      /\ session'.events = session.events \ {ev}
  BY <1>1 DEF Recompile, Instances
<1>3. ServesPublished'
  BY <1>1, <1>2 DEF BundlerInv, ServesPublished, HasPublishedCatalog
<1>4. CASE ev[1] = "pointer"
  BY <1>1, <1>2, <1>3, <1>4, AnswersForgotten DEF Recompile
<1>5. CASE ev[1] # "pointer"
  <2>1. UNCHANGED <<requests, served, slices>>
    BY <1>5 DEF Recompile, answers
  <2>2. ev # <<"pointer", "client">>
    BY <1>5
  <2>3. KnowsOfRotation => KnowsOfRotation'
    BY <1>2, <2>2 DEF KnowsOfRotation
  <2>4. catalog' \in BuildOrNone
    BY <1>1 DEF BundlerInv, BundlerTypes
  <2>5. (\/ session'.phase = "serving"
         \/ nextSession' # NoBuild /\ nextSession'.phase = "serving")
        => HasPublishedCatalog
    BY <1>1, <1>2 DEF BundlerInv, ServesPublished
  <2> QED
    BY <1>1, <1>2, <2>1, <2>3, <2>4, <2>5, SessionsMove
<1> QED
  BY <1>4, <1>5

----------------------------------------------------------------------------
(* Sequences: one element less, one more.                                  *)

LEMMA WithoutOne ==
  ASSUME NEW s \in Seq(Nat), NEW i \in DOMAIN s
  PROVE  /\ Without(s, i) \in Seq(Nat)
         /\ Len(Without(s, i)) = Len(s) - 1
         /\ DOMAIN Without(s, i) = 1..(Len(s) - 1)
         /\ \A j \in 1..(Len(s) - 1) :
              Without(s, i)[j] = IF j < i THEN s[j] ELSE s[j + 1]
<1> DEFINE before == SubSeq(s, 1, i - 1)
           after == SubSeq(s, i + 1, Len(s))
<1>1. Len(s) \in Nat /\ i \in 1..Len(s)
  OBVIOUS
<1>2. /\ before \in Seq(Nat) /\ Len(before) = i - 1
      /\ \A j \in 1..(i - 1) : before[j] = s[j]
  BY <1>1
<1>3. /\ after \in Seq(Nat) /\ Len(after) = Len(s) - i
      /\ \A j \in 1..(Len(s) - i) : after[j] = s[i + j]
  BY <1>1
<1> HIDE DEF before, after
<1>4. /\ before \o after \in Seq(Nat)
      /\ Len(before \o after) = Len(s) - 1
  BY <1>1, <1>2, <1>3
<1>5. ASSUME NEW j \in 1..(Len(s) - 1)
      PROVE  (before \o after)[j] = IF j < i THEN s[j] ELSE s[j + 1]
  <2>1. CASE j < i
    <3>1. j \in 1..(i - 1)
      BY <1>1, <2>1
    <3> QED
      BY <1>1, <1>2, <1>3, <2>1, <3>1
  <2>2. CASE ~(j < i)
    <3>1. j - (i - 1) \in 1..(Len(s) - i) /\ i + (j - (i - 1)) = j + 1
      BY <1>1, <2>2
    <3>2. /\ j \in 1..(Len(before) + Len(after))
          /\ ~(j <= Len(before)) /\ j - Len(before) = j - (i - 1)
      BY <1>1, <1>2, <1>3, <2>2
    <3>3. (before \o after)[j] = after[j - Len(before)]
      <4>1. \A k \in 1..(Len(before) + Len(after)) : (before \o after)[k] =
               IF k <= Len(before) THEN before[k] ELSE after[k - Len(before)]
        BY <1>2, <1>3, ConcatProperties, Zenon
      <4> QED
        BY <3>2, <4>1, Zenon
    <3>4. (before \o after)[j] = after[j - (i - 1)]
      BY <3>2, <3>3
    <3>5. after[j - (i - 1)] = s[i + (j - (i - 1))]
      BY <1>3, <3>1
    <3>6. after[j - (i - 1)] = s[j + 1]
      BY <3>1, <3>5
    <3> QED
      BY <2>2, <3>4, <3>6
  <2> QED
    BY <2>1, <2>2
<1>6. DOMAIN (before \o after) = 1..(Len(s) - 1)
  BY <1>4
<1>7. Without(s, i) = before \o after
  BY DEF Without, before, after
<1> QED
  BY <1>4, <1>5, <1>6, <1>7

\* What is left comes from where it was, each element once.
LEMMA WithoutKeeps ==
  ASSUME NEW s \in Seq(Nat), NEW i \in DOMAIN s,
         \A j, k \in DOMAIN s : s[j] = s[k] => j = k
  PROVE  /\ \A j \in DOMAIN Without(s, i) :
              \E k \in DOMAIN s : Without(s, i)[j] = s[k] /\ k # i
         /\ \A j, k \in DOMAIN Without(s, i) :
              Without(s, i)[j] = Without(s, i)[k] => j = k
<1>1. /\ Without(s, i) \in Seq(Nat)
      /\ DOMAIN Without(s, i) = 1..(Len(s) - 1)
      /\ \A j \in 1..(Len(s) - 1) :
           Without(s, i)[j] = IF j < i THEN s[j] ELSE s[j + 1]
  BY WithoutOne
<1>2. Len(s) \in Nat /\ DOMAIN s = 1..Len(s)
  OBVIOUS
<1> DEFINE from(j) == IF j < i THEN j ELSE j + 1
<1>3. ASSUME NEW j \in 1..(Len(s) - 1)
      PROVE  /\ from(j) \in 1..Len(s) /\ from(j) # i
             /\ Without(s, i)[j] = s[from(j)]
  BY <1>1, <1>2
<1>4. ASSUME NEW j \in 1..(Len(s) - 1), NEW k \in 1..(Len(s) - 1),
             from(j) = from(k)
      PROVE  j = k
  BY <1>2, <1>4
<1> HIDE DEF from
<1>5. \A j \in DOMAIN Without(s, i) :
        \E k \in DOMAIN s : Without(s, i)[j] = s[k] /\ k # i
  BY <1>1, <1>2, <1>3
<1>6. ASSUME NEW j \in 1..(Len(s) - 1), NEW k \in 1..(Len(s) - 1),
             Without(s, i)[j] = Without(s, i)[k]
      PROVE  j = k
  <2>1. s[from(j)] = s[from(k)]
    BY <1>3, <1>6
  <2>2. from(j) = from(k)
    BY <1>2, <1>3, <2>1
  <2> QED
    BY <1>4, <2>2
<1> QED
  BY <1>1, <1>5, <1>6

LEMMA Appended ==
  ASSUME NEW S, NEW s \in Seq(S), NEW e \in S
  PROVE  /\ Append(s, e) \in Seq(S) /\ Len(Append(s, e)) = Len(s) + 1
         /\ DOMAIN Append(s, e) = 1..(Len(s) + 1)
         /\ \A j \in DOMAIN s : Append(s, e)[j] = s[j]
         /\ Append(s, e)[Len(s) + 1] = e
OBVIOUS

\* Something new at the end leaves each element once.
LEMMA AppendedOnce ==
  ASSUME NEW s \in Seq(Nat), NEW e \in Nat,
         \A j, k \in DOMAIN s : s[j] = s[k] => j = k,
         \A j \in DOMAIN s : s[j] # e
  PROVE  \A j, k \in DOMAIN Append(s, e) :
           Append(s, e)[j] = Append(s, e)[k] => j = k
<1> DEFINE new == Append(s, e)
<1>1. /\ Len(s) \in Nat /\ DOMAIN s = 1..Len(s)
      /\ DOMAIN new = 1..(Len(s) + 1)
      /\ \A j \in 1..Len(s) : new[j] = s[j]
      /\ new[Len(s) + 1] = e
  BY Appended
<1> HIDE DEF new
<1>2. \A j \in DOMAIN new : j \in 1..Len(s) \/ j = Len(s) + 1
  BY <1>1
<1>3. \A j, k \in DOMAIN new : new[j] = new[k] => j = k
  BY <1>1, <1>2
<1> QED
  BY <1>3 DEF new

\* A cache within its bound loses at most its oldest element.
LEMMA BoundedKeeps ==
  ASSUME NEW s \in Seq(Nat), Len(s) <= CachedModules + 1,
         \A j, k \in DOMAIN s : s[j] = s[k] => j = k
  PROVE  /\ Bounded(s) \in Seq(Nat) /\ Len(Bounded(s)) <= CachedModules
         /\ \A j \in DOMAIN Bounded(s) : \E k \in DOMAIN s :
              Bounded(s)[j] = s[k]
         /\ \A j, k \in DOMAIN Bounded(s) :
              Bounded(s)[j] = Bounded(s)[k] => j = k
<1> USE BundlerConstants
<1>1. CASE Len(s) > CachedModules
  <2> DEFINE rest == SubSeq(s, 2, Len(s))
  <2>1. Len(s) \in Nat /\ DOMAIN s = 1..Len(s) /\ Len(s) >= 1
    BY <1>1
  <2>2. /\ rest \in Seq(Nat) /\ Len(rest) = Len(s) - 1
        /\ DOMAIN rest = 1..(Len(s) - 1)
        /\ \A j \in 1..(Len(s) - 1) : rest[j] = s[j + 1]
    BY <2>1
  <2>3. Bounded(s) = rest
    BY <1>1 DEF Bounded
  <2> HIDE DEF rest
  <2>4. \A j \in DOMAIN rest : j + 1 \in DOMAIN s /\ rest[j] = s[j + 1]
    BY <2>1, <2>2
  <2>5. \A j, k \in DOMAIN rest : rest[j] = rest[k] => j = k
    BY <2>2, <2>4
  <2>6. Len(rest) <= CachedModules
    BY <2>1, <2>2
  <2> QED
    BY <2>2, <2>3, <2>4, <2>5, <2>6
<1>2. CASE ~(Len(s) > CachedModules)
  <2>1. Bounded(s) = s /\ Len(s) <= CachedModules
    BY <1>2 DEF Bounded
  <2> QED
    BY <2>1
<1> QED
  BY <1>1, <1>2

----------------------------------------------------------------------------
(* Transforms.                                                             *)

\* A request of one module moves: it has not been answered, in a session that
\* serves, and reads the selected build or is known to be late.
LEMMA RequestMoves ==
  ASSUME BundlerInv, NEW m \in Modules, NEW r \in Requests,
         requests' = [requests EXCEPT ![m] = r],
         UNCHANGED <<disk, writer, session, nextSession, served, slices,
                     reads, sources>>,
         catalog' \in BuildOrNone,
         r.at # "idle" => /\ served[m] = Nothing /\ session.phase = "serving"
                          /\ r.build = disk.pointer \/ KnowsOfRotation
  PROVE  BundlerInv'
<1>1. requests \in [Modules -> Requests]
  BY DEF BundlerInv, BundlerTypes
<1>2. /\ requests' \in [Modules -> Requests] /\ requests'[m] = r
      /\ \A n \in Modules : n # m => requests'[n] = requests[n]
  BY <1>1
<1>3. BundlerTypes'
  BY <1>2 DEF BundlerInv, BundlerTypes
<1>4. PublishesWhole' /\ ServesPublished'
  BY DEF BundlerInv, PublishesWhole, ServesPublished, HasPublishedCatalog
<1>5. QuietBefore' /\ AnsweredOnce'
  BY <1>2 DEF BundlerInv, QuietBefore, AnsweredOnce
<1>6. StaleIsKnown'
  BY <1>2 DEF BundlerInv, StaleIsKnown, Stale, KnowsOfRotation
<1>7. SlicesFollow' /\ CacheSound'
  BY DEF BundlerInv, SlicesFollow, CacheSound
<1> QED
  BY <1>3, <1>4, <1>5, <1>6, <1>7 DEF BundlerInv

\* One module that had no answer gets one, of one build.
LEMMA AnswerGiven ==
  ASSUME BundlerInv, NEW m \in Modules, NEW b \in BuildOrNone,
         session.phase = "serving", served[m] = Nothing,
         Answer(m, b, b), requests' \in [Modules -> Requests],
         requests'[m].at = "idle",
         \A n \in Modules : n # m => requests'[n] = requests[n],
         UNCHANGED <<disk, writer, session, nextSession, slices, reads,
                     sources>>,
         catalog' \in BuildOrNone,
         b = disk.pointer \/ KnowsOfRotation
  PROVE  BundlerInv'
<1>1. served \in [Modules -> Answers]
  BY DEF BundlerInv, BundlerTypes
<1> DEFINE a == [contract |-> b, facade |-> b, slice |-> NoBuild]
<1>2. a \in Answers
  BY DEF Answers, BuildOrNone
<1>3. /\ served' \in [Modules -> Answers] /\ served'[m] = a
      /\ \A n \in Modules : n # m => served'[n] = served[n]
  BY <1>1, <1>2 DEF Answer
<1>4. a.contract = b /\ a.facade = b /\ a.slice = NoBuild
  OBVIOUS
<1> HIDE DEF a
<1>5. BundlerTypes'
  BY <1>3 DEF BundlerInv, BundlerTypes
<1>6. PublishesWhole' /\ ServesPublished'
  BY DEF BundlerInv, PublishesWhole, ServesPublished, HasPublishedCatalog
<1>7. QuietBefore'
  BY DEF QuietBefore
<1>8. AnsweredOnce'
  BY <1>3 DEF BundlerInv, AnsweredOnce
<1>9. StaleIsKnown'
  BY <1>3, <1>4
  DEF BundlerInv, StaleIsKnown, Stale, KnowsOfRotation
<1>10. SlicesFollow'
  <2>1. slices[m].at = "idle"
    BY DEF BundlerInv, SlicesFollow, Nothing
  <2>2. slices[m].at # "reading"
    BY <2>1
  <2> QED
    BY <1>3, <1>4, <2>1, <2>2 DEF BundlerInv, SlicesFollow
<1>11. CacheSound'
  BY DEF BundlerInv, CacheSound
<1> QED
  BY <1>5, <1>6, <1>7, <1>8, <1>9, <1>10, <1>11 DEF BundlerInv

LEMMA TransformPreserves ==
  ASSUME BundlerInv, NEW m \in Modules, Transform(m)
  PROVE  BundlerInv'
<1>1. /\ UNCHANGED <<disk, writer, session, nextSession, slices, reads,
                     sources>>
      /\ catalog' = catalog /\ catalog \in BuildOrNone
      /\ session.phase = "serving" /\ served[m] = Nothing
      /\ requests[m].at = "idle"
      /\ requests \in [Modules -> Requests] /\ disk \in Disks
  BY DEF Transform, root, servers, caches, BundlerInv, BundlerTypes
<1>2. CASE catalog = disk.pointer
  <2>1. Answer(m, catalog, catalog) /\ requests' = requests
    BY <1>2 DEF Transform
  <2>2. catalog' \in BuildOrNone
    BY <1>1
  <2>3. /\ requests' \in [Modules -> Requests] /\ requests'[m].at = "idle"
        /\ \A n \in Modules : n # m => requests'[n] = requests[n]
    BY <1>1, <2>1
  <2> QED
    BY <1>1, <1>2, <2>1, <2>2, <2>3, AnswerGiven
<1>3. CASE catalog # disk.pointer
  <2> DEFINE r == [at |-> "contract", build |-> disk.pointer]
  <2>1. requests' = [requests EXCEPT ![m] = r] /\ served' = served
    BY <1>3 DEF Transform
  <2>2. r \in Requests /\ r.build = disk.pointer
    BY <1>1 DEF Disks, Requests
  <2> HIDE DEF r
  <2> QED
    BY <1>1, <2>1, <2>2, RequestMoves
<1> QED
  BY <1>2, <1>3

LEMMA RefusePreserves ==
  ASSUME BundlerInv, NEW m \in Modules, Refuse(m),
         UNCHANGED <<disk, writer, session, nextSession, slices, reads,
                     sources>>
  PROVE  BundlerInv'
<1>1. Idle \in Requests /\ Idle.at = "idle"
  BY DEF Idle, Requests, BuildOrNone
<1>2. /\ requests' = [requests EXCEPT ![m] = Idle] /\ served' = served
      /\ catalog' \in BuildOrNone
  BY DEF Refuse, BundlerInv, BundlerTypes
<1> QED
  BY <1>1, <1>2, RequestMoves

\* A request under way is of a module that has no answer, in a session that
\* serves; the build it reads is selected, or the session knows better.
LEMMA RequestUnderWay ==
  ASSUME BundlerInv, NEW m \in Modules, requests[m].at # "idle"
  PROVE  /\ requests[m] \in Requests /\ served[m] = Nothing
         /\ session.phase = "serving"
         /\ requests[m].build = disk.pointer \/ KnowsOfRotation
BY DEF BundlerInv, BundlerTypes, AnsweredOnce, QuietBefore, StaleIsKnown,
       Stale

LEMMA ReadContractPreserves ==
  ASSUME BundlerInv, NEW m \in Modules, ReadContract(m)
  PROVE  BundlerInv'
<1>1. /\ requests[m].at = "contract"
      /\ UNCHANGED <<disk, writer, session, nextSession, slices, reads,
                     sources>>
  BY DEF ReadContract, root, servers
<1>2. CASE requests[m].build \in disk.builds
  <2> DEFINE r == [requests[m] EXCEPT !.at = "facade"]
  <2>1. /\ requests[m] \in Requests /\ served[m] = Nothing
        /\ session.phase = "serving"
        /\ requests[m].build = disk.pointer \/ KnowsOfRotation
    BY <1>1, RequestUnderWay
  <2>2. /\ requests' = [requests EXCEPT ![m] = r] /\ served' = served
        /\ catalog' \in BuildOrNone
    BY <1>2 DEF ReadContract, BundlerInv, BundlerTypes
  <2>3. r \in Requests /\ r.build = requests[m].build
    BY <2>1 DEF Requests
  <2> HIDE DEF r
  <2> QED
    BY <1>1, <2>1, <2>2, <2>3, RequestMoves
<1>3. CASE requests[m].build \notin disk.builds
  BY <1>1, <1>3, RefusePreserves DEF ReadContract
<1> QED
  BY <1>2, <1>3

LEMMA ReadFacadePreserves ==
  ASSUME BundlerInv, NEW m \in Modules, ReadFacade(m)
  PROVE  BundlerInv'
<1>1. /\ requests[m].at = "facade"
      /\ UNCHANGED <<disk, writer, session, nextSession, slices, reads,
                     sources>>
  BY DEF ReadFacade, root, servers
<1>2. CASE disk.facade = requests[m].build
  <2> DEFINE b == requests[m].build
  <2>1. /\ requests[m] \in Requests /\ served[m] = Nothing
        /\ session.phase = "serving"
        /\ b = disk.pointer \/ KnowsOfRotation
    BY <1>1, RequestUnderWay
  <2>2. /\ Answer(m, b, b) /\ catalog' = b
        /\ requests' = [requests EXCEPT ![m] = Idle]
    BY <1>2 DEF ReadFacade
  <2>3. b \in BuildOrNone
    BY <2>1 DEF Requests
  <2>4. Idle \in Requests /\ Idle.at = "idle"
    BY DEF Idle, Requests, BuildOrNone
  <2>5. /\ requests' \in [Modules -> Requests] /\ requests'[m].at = "idle"
        /\ \A n \in Modules : n # m => requests'[n] = requests[n]
    BY <2>2, <2>4 DEF BundlerInv, BundlerTypes
  <2> HIDE DEF b
  <2> QED
    BY <1>1, <2>1, <2>2, <2>3, <2>5, AnswerGiven
<1>3. CASE disk.facade # requests[m].build
  BY <1>1, <1>3, RefusePreserves DEF ReadFacade
<1> QED
  BY <1>2, <1>3

----------------------------------------------------------------------------
(* Slices.                                                                 *)

\* A slice request of one module moves, for the build the module was answered
\* from; the reads only grow.
LEMMA SliceMoves ==
  ASSUME BundlerInv, NEW m \in Modules, NEW sl \in SliceRequests,
         slices' = [slices EXCEPT ![m] = sl],
         UNCHANGED <<disk, writer, session, nextSession, requests, served,
                     catalog>>,
         reads' \in Seq(Reads), sources' \in Seq(Nat), CacheSound',
         \A i \in DOMAIN reads :
           i \in DOMAIN reads' /\ reads'[i].build = reads[i].build,
         sl.at # "idle" => /\ served[m].contract # NoBuild
                           /\ sl.build = served[m].contract,
         sl.at = "reading" => /\ sl.read \in DOMAIN reads'
                              /\ reads'[sl.read].build = sl.build
  PROVE  BundlerInv'
<1>1. slices \in [Modules -> SliceRequests]
  BY DEF BundlerInv, BundlerTypes
<1>2. /\ slices' \in [Modules -> SliceRequests] /\ slices'[m] = sl
      /\ \A n \in Modules : n # m => slices'[n] = slices[n]
  BY <1>1
<1>3. BundlerTypes'
  BY <1>2 DEF BundlerInv, BundlerTypes
<1>4. PublishesWhole' /\ ServesPublished'
  BY DEF BundlerInv, PublishesWhole, ServesPublished, HasPublishedCatalog
<1>5. QuietBefore' /\ AnsweredOnce' /\ StaleIsKnown'
  BY DEF BundlerInv, QuietBefore, AnsweredOnce, StaleIsKnown, Stale,
         KnowsOfRotation
<1>6. SlicesFollow'
  BY <1>2 DEF BundlerInv, SlicesFollow
<1> QED
  BY <1>3, <1>4, <1>5, <1>6 DEF BundlerInv

\* The reads and the message cache stay as they are.
LEMMA SliceSteps ==
  ASSUME BundlerInv, NEW m \in Modules, NEW sl \in SliceRequests,
         slices' = [slices EXCEPT ![m] = sl],
         UNCHANGED <<disk, writer, session, nextSession, requests, served,
                     catalog, reads, sources>>,
         sl.at # "idle" => /\ served[m].contract # NoBuild
                           /\ sl.build = served[m].contract,
         sl.at # "reading"
  PROVE  BundlerInv'
<1>1. /\ reads' \in Seq(Reads) /\ sources' \in Seq(Nat) /\ CacheSound'
      /\ \A i \in DOMAIN reads :
           i \in DOMAIN reads' /\ reads'[i].build = reads[i].build
  BY DEF BundlerInv, BundlerTypes, CacheSound
<1> QED
  BY <1>1, SliceMoves

LEMMA StopSlicePreserves ==
  ASSUME BundlerInv, NEW m \in Modules, StopSlice(m),
         UNCHANGED <<disk, writer, session, nextSession, requests, served,
                     catalog, reads, sources>>
  PROVE  BundlerInv'
<1>1. Idle \in SliceRequests /\ Idle.at = "idle"
  BY DEF Idle, SliceRequests, BuildOrNone
<1> QED
  BY <1>1, SliceSteps DEF StopSlice

LEMMA AuthorizeSlicePreserves ==
  ASSUME BundlerInv, NEW m \in Modules, AuthorizeSlice(m)
  PROVE  BundlerInv'
<1> DEFINE sl == [at |-> "facade", build |-> disk.pointer]
<1>1. /\ UNCHANGED <<disk, writer, session, nextSession, requests, served,
                     catalog, reads, sources>>
      /\ slices' = [slices EXCEPT ![m] = sl]
      /\ served[m].contract # NoBuild /\ disk.pointer = served[m].contract
  BY DEF AuthorizeSlice, root, servers, caches
<1>2. sl \in SliceRequests /\ sl.at = "facade" /\ sl.build = disk.pointer
  BY DEF SliceRequests, BundlerInv, BundlerTypes, Disks
<1> HIDE DEF sl
<1> QED
  BY <1>1, <1>2, SliceSteps

LEMMA AuthorizeFacadePreserves ==
  ASSUME BundlerInv, NEW m \in Modules, AuthorizeFacade(m)
  PROVE  BundlerInv'
<1>1. /\ UNCHANGED <<disk, writer, session, nextSession, requests, served,
                     catalog, reads, sources>>
      /\ slices[m].at = "facade" /\ slices[m] \in SliceRequests
  BY DEF AuthorizeFacade, root, servers, caches, BundlerInv, BundlerTypes
<1>2. CASE disk.facade = slices[m].build /\ slices[m].build \in disk.builds
  <2> DEFINE sl == [slices[m] EXCEPT !.at = "authorized"]
  <2>1. slices' = [slices EXCEPT ![m] = sl]
    BY <1>2 DEF AuthorizeFacade
  <2>2. /\ sl \in SliceRequests /\ sl.at = "authorized"
        /\ sl.build = slices[m].build
    <3>1. slices[m] \in [at : {"idle", "facade", "authorized"},
                         build : BuildOrNone]
      BY <1>1 DEF SliceRequests
    <3> QED
      BY <3>1 DEF SliceRequests
  <2>3. served[m].contract # NoBuild /\ slices[m].build = served[m].contract
    BY <1>1 DEF BundlerInv, SlicesFollow
  <2> HIDE DEF sl
  <2> QED
    BY <1>1, <2>1, <2>2, <2>3, SliceSteps
<1>3. CASE ~(disk.facade = slices[m].build /\ slices[m].build \in disk.builds)
  BY <1>1, <1>3, StopSlicePreserves DEF AuthorizeFacade
<1> QED
  BY <1>2, <1>3

\* A read that is remembered becomes the newest of the cache.
LEMMA CacheRefreshed ==
  ASSUME BundlerInv, NEW i \in DOMAIN sources, reads' = reads,
         sources' = Append(Without(sources, i), sources[i])
  PROVE  sources' \in Seq(Nat) /\ CacheSound'
<1>1. /\ sources \in Seq(Nat) /\ Len(sources) <= CachedModules
      /\ \A j, k \in DOMAIN sources : sources[j] = sources[k] => j = k
      /\ \A j \in DOMAIN sources :
           sources[j] \in DOMAIN reads /\ reads[sources[j]].state # "failed"
  BY DEF BundlerInv, BundlerTypes, CacheSound
<1> DEFINE rest == Without(sources, i)
<1>2. /\ rest \in Seq(Nat) /\ Len(rest) = Len(sources) - 1
      /\ \A j \in DOMAIN rest :
           \E k \in DOMAIN sources : rest[j] = sources[k] /\ k # i
      /\ \A j, k \in DOMAIN rest : rest[j] = rest[k] => j = k
  BY <1>1, WithoutOne, WithoutKeeps
<1>3. sources[i] \in Nat /\ sources' = Append(rest, sources[i])
  BY <1>1
<1> HIDE DEF rest
<1>4. \A j \in DOMAIN rest : rest[j] # sources[i]
  BY <1>1, <1>2
<1>5. /\ sources' \in Seq(Nat) /\ Len(sources') = Len(rest) + 1
      /\ DOMAIN sources' = 1..(Len(rest) + 1)
      /\ \A j \in DOMAIN rest : sources'[j] = rest[j]
      /\ sources'[Len(rest) + 1] = sources[i]
  BY <1>2, <1>3, Appended
<1>6. \A j, k \in DOMAIN sources' : sources'[j] = sources'[k] => j = k
  BY <1>2, <1>3, <1>4, AppendedOnce
<1>7. DOMAIN rest = 1..Len(rest) /\ Len(rest) \in Nat
  BY <1>2
<1>8. \A j \in DOMAIN sources' : \E k \in DOMAIN sources :
        sources'[j] = sources[k]
  <2>1. \A j \in DOMAIN sources' : j \in DOMAIN rest \/ j = Len(rest) + 1
    BY <1>5, <1>7
  <2>2. ASSUME NEW j \in DOMAIN rest
        PROVE  \E k \in DOMAIN sources : sources'[j] = sources[k]
    BY <1>2, <1>5, Zenon
  <2> QED
    BY <1>5, <2>1, <2>2
<1>9. Len(sources') <= CachedModules
  BY <1>1, <1>2, <1>5
<1>10. \A j \in DOMAIN sources' :
         sources'[j] \in DOMAIN reads' /\ reads'[sources'[j]].state # "failed"
  BY <1>1, <1>8
<1> QED
  BY <1>5, <1>6, <1>9, <1>10 DEF CacheSound

\* A new read is remembered, at the cost of the oldest of too many.
LEMMA CacheGrows ==
  ASSUME BundlerInv, NEW r \in Reads, r.state = "pending",
         reads' = Append(reads, r),
         sources' = Bounded(Append(sources, Len(reads')))
  PROVE  sources' \in Seq(Nat) /\ CacheSound'
<1> USE BundlerConstants
<1>1. /\ sources \in Seq(Nat) /\ Len(sources) <= CachedModules
      /\ reads \in Seq(Reads)
      /\ \A j, k \in DOMAIN sources : sources[j] = sources[k] => j = k
      /\ \A j \in DOMAIN sources :
           sources[j] \in DOMAIN reads /\ reads[sources[j]].state # "failed"
  BY DEF BundlerInv, BundlerTypes, CacheSound
<1>2. /\ Len(reads') = Len(reads) + 1 /\ DOMAIN reads' = 1..(Len(reads) + 1)
      /\ Len(reads) \in Nat /\ DOMAIN reads = 1..Len(reads)
      /\ \A j \in DOMAIN reads : reads'[j] = reads[j]
      /\ reads'[Len(reads) + 1] = r
  BY <1>1, Appended
<1> DEFINE new == Len(reads')
           all == Append(sources, new)
<1>3. new \in Nat /\ \A j \in DOMAIN sources : sources[j] # new
  BY <1>1, <1>2
<1>4. new \in DOMAIN reads' /\ reads'[new].state # "failed"
  BY <1>2
<1> HIDE DEF new
<1>5. /\ all \in Seq(Nat) /\ Len(all) = Len(sources) + 1
      /\ DOMAIN all = 1..(Len(sources) + 1)
      /\ \A j \in DOMAIN sources : all[j] = sources[j]
      /\ all[Len(sources) + 1] = new
  BY <1>1, <1>3, Appended
<1>6. \A j, k \in DOMAIN all : all[j] = all[k] => j = k
  BY <1>1, <1>3, AppendedOnce
<1>7. sources' = Bounded(all)
  BY DEF new
<1> HIDE DEF all
<1>8. Len(all) <= CachedModules + 1
  BY <1>1, <1>5
<1>9. /\ sources' \in Seq(Nat) /\ Len(sources') <= CachedModules
      /\ \A j \in DOMAIN sources' :
           \E k \in DOMAIN all : sources'[j] = all[k]
      /\ \A j, k \in DOMAIN sources' : sources'[j] = sources'[k] => j = k
  <2>1. /\ Bounded(all) \in Seq(Nat) /\ Len(Bounded(all)) <= CachedModules
        /\ \A j \in DOMAIN Bounded(all) :
             \E k \in DOMAIN all : Bounded(all)[j] = all[k]
        /\ \A j, k \in DOMAIN Bounded(all) :
             Bounded(all)[j] = Bounded(all)[k] => j = k
    BY <1>5, <1>6, <1>8, BoundedKeeps, Zenon
  <2> QED
    BY <1>7, <2>1, Zenon
<1>10. \A k \in DOMAIN all : k \in DOMAIN sources \/ k = Len(sources) + 1
  BY <1>1, <1>5
<1>11. \A k \in DOMAIN all :
         all[k] \in DOMAIN reads' /\ reads'[all[k]].state # "failed"
  BY <1>1, <1>2, <1>4, <1>5, <1>10
<1> QED
  BY <1>9, <1>11 DEF CacheSound

LEMMA ReadMessagesPreserves ==
  ASSUME BundlerInv, NEW m \in Modules, ReadMessages(m)
  PROVE  BundlerInv'
<1> DEFINE b == slices[m].build
           read(r) == [at |-> "reading", build |-> b, read |-> r]
           await(r) == slices' = [slices EXCEPT ![m] = read(r)]
<1>1. /\ UNCHANGED <<disk, writer, session, nextSession, requests, served,
                     catalog>>
      /\ slices[m].at = "authorized" /\ slices[m] \in SliceRequests
      /\ reads \in Seq(Reads) /\ sources \in Seq(Nat)
  BY DEF ReadMessages, root, servers, BundlerInv, BundlerTypes
<1>2. /\ b \in BuildOrNone /\ served[m].contract # NoBuild
      /\ b = served[m].contract
  BY <1>1 DEF BundlerInv, SlicesFollow, SliceRequests
<1>3. \A r \in Nat : /\ read(r) \in SliceRequests /\ read(r).at = "reading"
                     /\ read(r).build = b /\ read(r).read = r
  BY <1>2 DEF SliceRequests
<1>4. \/ StopSlice(m) /\ UNCHANGED <<reads, sources>>
      \/ /\ \E i \in CachedRead(b) :
               /\ sources' = Append(Without(sources, i), sources[i])
               /\ await(sources[i])
         /\ UNCHANGED reads
      \/ /\ reads' = Append(reads, [build |-> b, state |-> "pending"])
         /\ sources' = Bounded(Append(sources, Len(reads')))
         /\ await(Len(reads'))
  BY DEF ReadMessages
<1> HIDE DEF b
<1>5. ASSUME StopSlice(m), UNCHANGED <<reads, sources>>
      PROVE  BundlerInv'
  BY <1>1, <1>5, StopSlicePreserves
<1>6. ASSUME NEW i \in CachedRead(b), await(sources[i]), reads' = reads,
             sources' = Append(Without(sources, i), sources[i])
      PROVE  BundlerInv'
  <2>1. i \in DOMAIN sources /\ reads[sources[i]].build = b
    BY <1>6 DEF CachedRead
  <2>2. sources[i] \in Nat /\ sources[i] \in DOMAIN reads
    BY <1>1, <2>1 DEF BundlerInv, CacheSound
  <2>3. sources' \in Seq(Nat) /\ CacheSound'
    BY <1>6, <2>1, CacheRefreshed
  <2> DEFINE sl == read(sources[i])
  <2>4. /\ sl \in SliceRequests /\ sl.at = "reading"
        /\ sl.build = b /\ sl.read = sources[i]
        /\ slices' = [slices EXCEPT ![m] = sl]
    BY <1>3, <1>6, <2>2
  <2>5. /\ reads' \in Seq(Reads)
        /\ \A j \in DOMAIN reads :
             j \in DOMAIN reads' /\ reads'[j].build = reads[j].build
        /\ sources[i] \in DOMAIN reads' /\ reads'[sources[i]].build = b
    BY <1>1, <1>6, <2>1, <2>2
  <2> HIDE DEF sl, read
  <2> QED
    BY <1>1, <1>2, <2>3, <2>4, <2>5, SliceMoves
<1>7. ASSUME reads' = Append(reads, [build |-> b, state |-> "pending"]),
             sources' = Bounded(Append(sources, Len(reads'))),
             await(Len(reads'))
      PROVE  BundlerInv'
  <2> DEFINE r == [build |-> b, state |-> "pending"]
             sl == read(Len(reads'))
  <2>1. r \in Reads /\ r.state = "pending" /\ r.build = b
    BY <1>2 DEF Reads
  <2>2. reads' = Append(reads, r)
    BY <1>7
  <2> HIDE DEF r
  <2>3. sources' \in Seq(Nat) /\ CacheSound'
    BY <1>7, <2>1, <2>2, CacheGrows
  <2>4. /\ reads' \in Seq(Reads)
        /\ Len(reads') = Len(reads) + 1 /\ DOMAIN reads' = 1..(Len(reads) + 1)
        /\ Len(reads) \in Nat /\ DOMAIN reads = 1..Len(reads)
        /\ \A j \in DOMAIN reads : reads'[j] = reads[j]
        /\ reads'[Len(reads) + 1] = r
    BY <1>1, <2>1, <2>2, Appended
  <2>5. Len(reads') \in Nat
    BY <2>4
  <2>6. /\ sl \in SliceRequests /\ sl.at = "reading"
        /\ sl.build = b /\ sl.read = Len(reads')
        /\ slices' = [slices EXCEPT ![m] = sl]
    BY <1>3, <1>7, <2>5
  <2> HIDE DEF sl, read
  <2>7. \A j \in DOMAIN reads :
          j \in DOMAIN reads' /\ reads'[j].build = reads[j].build
    BY <2>4
  <2>8. sl.read \in DOMAIN reads' /\ reads'[sl.read].build = sl.build
    BY <2>1, <2>4, <2>6
  <2> QED
    BY <1>1, <1>2, <2>3, <2>4, <2>6, <2>7, <2>8, SliceMoves
<1> QED
  BY <1>4, <1>5, <1>6, <1>7

\* A read that ends keeps its build; one that failed leaves the cache.
LEMMA ReadSettlesPreserves ==
  ASSUME BundlerInv, NEW r \in DOMAIN reads, ReadSettles(r)
  PROVE  BundlerInv'
<1>1. /\ UNCHANGED <<disk, writer, session, nextSession, requests, served,
                     slices, catalog>>
      /\ reads \in Seq(Reads) /\ sources \in Seq(Nat)
      /\ Len(sources) <= CachedModules
      /\ \A j, k \in DOMAIN sources : sources[j] = sources[k] => j = k
      /\ \A j \in DOMAIN sources :
           sources[j] \in DOMAIN reads /\ reads[sources[j]].state # "failed"
  BY DEF ReadSettles, root, servers, answers, BundlerInv, BundlerTypes,
         CacheSound
<1>2. ASSUME NEW st \in {"done", "failed"},
             reads' = [reads EXCEPT ![r].state = st]
      PROVE  /\ reads' \in Seq(Reads) /\ DOMAIN reads' = DOMAIN reads
             /\ \A j \in DOMAIN reads : reads'[j].build = reads[j].build
             /\ reads'[r].state = st
             /\ \A j \in DOMAIN reads : j # r => reads'[j] = reads[j]
  <2> DEFINE new == [reads[r] EXCEPT !.state = st]
  <2>1. reads[r] \in Reads
    BY <1>1
  <2>2. new \in Reads /\ new.build = reads[r].build /\ new.state = st
    BY <2>1 DEF Reads
  <2>3. reads' = [reads EXCEPT ![r] = new]
    BY <1>2
  <2> HIDE DEF new
  <2> QED
    BY <1>1, <2>2, <2>3
<1>3. ASSUME reads' \in Seq(Reads), DOMAIN reads' = DOMAIN reads,
             \A j \in DOMAIN reads : reads'[j].build = reads[j].build,
             sources' \in Seq(Nat), CacheSound'
      PROVE  BundlerInv'
  <2>1. BundlerTypes'
    BY <1>1, <1>3 DEF BundlerInv, BundlerTypes
  <2>2. PublishesWhole' /\ ServesPublished' /\ QuietBefore' /\ AnsweredOnce'
    BY <1>1 DEF BundlerInv, PublishesWhole, ServesPublished,
                HasPublishedCatalog, QuietBefore, AnsweredOnce
  <2>3. StaleIsKnown'
    BY <1>1 DEF BundlerInv, StaleIsKnown, Stale, KnowsOfRotation
  <2>4. SlicesFollow'
    BY <1>1, <1>3 DEF BundlerInv, SlicesFollow
  <2> QED
    BY <1>3, <2>1, <2>2, <2>3, <2>4 DEF BundlerInv
<1>4. CASE reads[r].build \in disk.builds
  <2>1. reads' = [reads EXCEPT ![r].state = "done"] /\ sources' = sources
    BY <1>4 DEF ReadSettles
  <2>2. /\ reads' \in Seq(Reads) /\ DOMAIN reads' = DOMAIN reads
        /\ \A j \in DOMAIN reads : reads'[j].build = reads[j].build
        /\ reads'[r].state = "done"
        /\ \A j \in DOMAIN reads : j # r => reads'[j] = reads[j]
    BY <1>2, <2>1
  <2>3. CacheSound'
    BY <1>1, <2>1, <2>2 DEF CacheSound
  <2> QED
    BY <1>1, <1>3, <2>1, <2>2, <2>3
<1>5. CASE reads[r].build \notin disk.builds
  <2>1. reads' = [reads EXCEPT ![r].state = "failed"]
    BY <1>5 DEF ReadSettles
  <2>2. /\ reads' \in Seq(Reads) /\ DOMAIN reads' = DOMAIN reads
        /\ \A j \in DOMAIN reads : reads'[j].build = reads[j].build
        /\ \A j \in DOMAIN reads : j # r => reads'[j] = reads[j]
    BY <1>2, <2>1
  <2>3. ASSUME NEW i \in DOMAIN sources, sources[i] = r,
               sources' = Without(sources, i)
        PROVE  BundlerInv'
    <3>1. /\ sources' \in Seq(Nat) /\ Len(sources') = Len(sources) - 1
          /\ \A j \in DOMAIN sources' :
               \E k \in DOMAIN sources : sources'[j] = sources[k] /\ k # i
          /\ \A j, k \in DOMAIN sources' : sources'[j] = sources'[k] => j = k
      BY <1>1, <2>3, WithoutOne, WithoutKeeps
    <3>2. \A k \in DOMAIN sources : k # i => sources[k] # r
      BY <1>1, <2>3
    <3>3. Len(sources') <= CachedModules
      BY <1>1, <3>1, BundlerConstants
    <3>4. \A j \in DOMAIN sources' :
            sources'[j] \in DOMAIN reads'
              /\ reads'[sources'[j]].state # "failed"
      BY <1>1, <2>2, <3>1, <3>2
    <3>5. CacheSound'
      BY <3>1, <3>3, <3>4 DEF CacheSound
    <3> QED
      BY <1>3, <2>2, <3>1, <3>5
  <2>4. ASSUME \A i \in DOMAIN sources : sources[i] # r, sources' = sources
        PROVE  BundlerInv'
    <3>1. CacheSound'
      BY <1>1, <2>2, <2>4 DEF CacheSound
    <3> QED
      BY <1>1, <1>3, <2>2, <2>4, <3>1
  <2> QED
    BY <1>5, <2>3, <2>4 DEF ReadSettles
<1> QED
  BY <1>4, <1>5

\* The messages that were read are of the build the module was answered from.
LEMMA LoadSlicePreserves ==
  ASSUME BundlerInv, NEW m \in Modules, LoadSlice(m)
  PROVE  BundlerInv'
<1>1. /\ UNCHANGED <<disk, writer, session, nextSession, requests, catalog,
                     reads, sources>>
      /\ slices[m].at = "reading" /\ StopSlice(m)
      /\ served \in [Modules -> Answers]
      /\ slices \in [Modules -> SliceRequests]
  BY DEF LoadSlice, root, servers, caches, BundlerInv, BundlerTypes
<1> DEFINE b == reads[slices[m].read].build
<1>2. /\ b = served[m].contract /\ served[m].contract # NoBuild
      /\ served[m].facade = served[m].contract
  BY <1>1 DEF BundlerInv, SlicesFollow
<1>3. b \in BuildOrNone
  BY <1>1, <1>2 DEF Answers
<1>4. CASE reads[slices[m].read].state # "done"
  BY <1>1, <1>4, StopSlicePreserves DEF LoadSlice
<1>5. CASE reads[slices[m].read].state = "done"
  <2> DEFINE a == [served[m] EXCEPT !.slice = b]
  <2>1. served' = [served EXCEPT ![m] = a]
    BY <1>5 DEF LoadSlice
  <2>2. /\ a \in Answers /\ a.contract = served[m].contract
        /\ a.facade = served[m].facade /\ a.slice = b
    BY <1>1, <1>3 DEF Answers
  <2> HIDE DEF a, b
  <2>3. /\ served' \in [Modules -> Answers] /\ served'[m] = a
        /\ \A n \in Modules : n # m => served'[n] = served[n]
    BY <1>1, <2>1, <2>2
  <2>4. /\ slices' \in [Modules -> SliceRequests] /\ slices'[m].at = "idle"
        /\ \A n \in Modules : n # m => slices'[n] = slices[n]
    <3>1. Idle \in SliceRequests /\ Idle.at = "idle"
      BY DEF Idle, SliceRequests, BuildOrNone
    <3> QED
      BY <1>1, <3>1 DEF StopSlice
  <2>5. served[m] # Nothing
    BY <1>2 DEF Nothing
  <2>6. BundlerTypes'
    BY <1>1, <2>3, <2>4 DEF BundlerInv, BundlerTypes
  <2>7. PublishesWhole' /\ ServesPublished'
    BY <1>1
    DEF BundlerInv, PublishesWhole, ServesPublished, HasPublishedCatalog
  <2>8. QuietBefore' /\ AnsweredOnce'
    BY <1>1, <2>3, <2>5 DEF BundlerInv, QuietBefore, AnsweredOnce
  <2>9. StaleIsKnown'
    BY <1>1, <2>2, <2>3
    DEF BundlerInv, StaleIsKnown, Stale, KnowsOfRotation
  <2>10. SlicesFollow'
    <3>1. slices'[m].at # "reading"
      BY <2>4
    <3> QED
      BY <1>1, <1>2, <2>2, <2>3, <2>4, <3>1 DEF BundlerInv, SlicesFollow
  <2>11. CacheSound'
    BY <1>1 DEF BundlerInv, CacheSound
  <2> QED
    BY <2>6, <2>7, <2>8, <2>9, <2>10, <2>11 DEF BundlerInv
<1> QED
  BY <1>4, <1>5

----------------------------------------------------------------------------
(* Every step.                                                             *)

LEMMA BundlerKeeps == BundlerInv /\ [BundlerNext]_bundler => BundlerInv'
<1> SUFFICES ASSUME BundlerInv, [BundlerNext]_bundler
             PROVE  BundlerInv'
  OBVIOUS
<1>1. CASE UNCHANGED bundler
  <2>1. /\ UNCHANGED <<disk, writer, requests, served, slices, reads,
                       sources>>
        /\ UNCHANGED <<session, nextSession, catalog>>
    BY <1>1 DEF bundler, root, servers, answers, caches
  <2> QED
    BY <2>1, SessionsMove
    DEF BundlerInv, BundlerTypes, ServesPublished, KnowsOfRotation
<1>2. ASSUME NEW b \in Builds, StageBuild(b) \/ MiraiIntlNextLoader(b)
      PROVE  BundlerInv'
  BY <1>2, StageBuildPreserves, MiraiIntlNextLoaderPreserves
<1>3. CASE CommitBuild \/ RemovePrevious \/ EditInput
  BY <1>3, CommitBuildPreserves, RemovePreviousPreserves, EditInputPreserves
<1>4. CASE ViteNext
  BY <1>4, BuildStartPreserves, ConfigureServerPreserves,
     EnsureFinishedPreserves, DiscoveryEndsPreserves,
     FilterHotUpdatePreserves, RestartSucceedsPreserves,
     RestartFailsPreserves
  DEF ViteNext
<1>5. ASSUME NEW ev \in Events, Recompile(ev)
      PROVE  BundlerInv'
  BY <1>5, RecompilePreserves
<1>6. ASSUME NEW m \in Modules,
             \/ Transform(m) \/ ReadContract(m) \/ ReadFacade(m)
             \/ AuthorizeSlice(m) \/ AuthorizeFacade(m)
             \/ ReadMessages(m) \/ LoadSlice(m)
      PROVE  BundlerInv'
  BY <1>6, TransformPreserves, ReadContractPreserves, ReadFacadePreserves,
     AuthorizeSlicePreserves, AuthorizeFacadePreserves,
     ReadMessagesPreserves, LoadSlicePreserves
<1>7. ASSUME NEW r \in DOMAIN reads, ReadSettles(r)
      PROVE  BundlerInv'
  BY <1>7, ReadSettlesPreserves
<1> QED
  BY <1>1, <1>2, <1>3, <1>4, <1>5, <1>6, <1>7 DEF BundlerNext

\* The invariant holds of every behaviour of publications, sessions and their
\* requests (vite.ts, next-loader.ts, private-module.ts).
THEOREM BundlerHolds == BundlerSpec => []BundlerInv
BY BundlerBegins, BundlerKeeps, PTL DEF BundlerSpec

----------------------------------------------------------------------------
(* What the adapters promise.                                              *)

\* However publications, edits, restarts and slow transforms fall, a session
\* that holds a module of another build than the selected one knows of the
\* rotation: it is about to hear of it, is being restarted, or a restart of
\* it failed (vite.ts:213-230).
THEOREM StaleRestarts == BundlerSpec => []StaleSessionRestarts
<1>1. BundlerInv => StaleSessionRestarts
  BY DEF BundlerInv, StaleIsKnown, Stale, KnowsOfRotation,
         StaleSessionRestarts
<1> QED
  BY <1>1, BundlerHolds, PTL

\* A module, its facade types and its slice are of one build, and the message
\* cache, of whatever size, answers with no read that failed
\* (private-module.ts:171-278 and 421-473).
THEOREM SlicesMatch == BundlerSpec => []SlicesMatchTheirImporters
<1>1. ASSUME BundlerInv PROVE SlicesMatchTheirImporters
  BY <1>1 DEF BundlerInv, SlicesFollow, CacheSound,
              SlicesMatchTheirImporters
<1> QED
  BY <1>1, BundlerHolds, PTL

=============================================================================
