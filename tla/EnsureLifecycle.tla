-------------------------- MODULE EnsureLifecycle --------------------------
(***************************************************************************)
(* How one process of a bundler or of the CLI ensures a generated catalog: *)
(* packages/compiler/src/lifecycle.ts over the generation-input cache of   *)
(* catalog.ts, beside another process that publishes the same root.        *)
(*                                                                         *)
(* Calls share or queue runs.  A run judges the published root, reuses it  *)
(* if it is the one its inputs generate, and otherwise publishes; it loads *)
(* the inputs through a cache that is keyed by the change times of their   *)
(* files, and so do the two barriers inside its publication.               *)
(*                                                                         *)
(* Abstractions: a fingerprint (of the inputs or of the root, its lock     *)
(* files included) is kept as whether it still matches; an input is told   *)
(* from another by its content, not by its identity in memory; a           *)
(* publication is its lock, its commit and its release (CatalogPublication *)
(* has the rest); the inputs are read at one moment; the two fingerprints  *)
(* of a cache hit are one step.                                            *)
(***************************************************************************)
EXTENDS Naturals, Sequences

CONSTANTS Gens,      \* generation inputs
          None,
          MaxRuns,   \* bound on the runs of this process
          Attempts,  \* publicationLockAttempts
          MidLoad    \* an edit can fall between the reading of the inputs and
                     \* the fingerprint the cache remembers them by

ASSUME LifecycleConstants ==
  /\ None \notin Gens
  /\ MaxRuns \in Nat /\ Attempts \in Nat \ {0}
  /\ MidLoad \in BOOLEAN

VARIABLES
  inputs,     \* the generation input on disk
  selected,   \* the generation the root selects, or None
  lock,       \* .publish.lock: "free", "own", "live" (the other process) or
              \* "dead" (it was killed)
  journal,    \* an unfinished publication: its generation and the one it
              \* replaces, or None
  other,      \* what the other process publishes
  cache,      \* generationInputCache: an input, or None
  published,  \* publishedGenerations: a generation, or None
  matching,   \* the fingerprints that still match: of "cache" and
              \* "published", of the root as the run listed it ("listed"),
              \* of the inputs since the run began ("quiet")
  runs,       \* the runs of serializeGeneration, in order
  active,     \* activeEnsures: a run, or 0
  once,       \* processEnsures: a run, or 0
  at,         \* the run under way: its step and what it is about,
  again,      \*   whether a failed judgement was repeated,
  attempt,    \*   the waits for a live lock that it has used,
  receipt,    \*   the generation the root's receipt names,
  got,        \*   the input it loaded last,
  plan        \*   and the generation it publishes

root  == <<selected, lock, journal>>
known == <<cache, published>>
calls == <<runs, active, once>>
local == <<at, again, attempt, receipt, got, plan>>
vars  == <<inputs, root, other, known, matching, calls, local>>

Idle == [step |-> "idle", mode |-> "judge"]

Init ==
  /\ inputs \in Gens
  /\ selected \in Gens \cup {None}
  /\ lock = "free"
  /\ journal = None
  /\ other = None
  /\ cache = None
  /\ published = None
  /\ matching = {}
  /\ runs = <<>>
  /\ active = 0
  /\ once = 0
  /\ at = Idle
  /\ again = FALSE
  /\ attempt = 0
  /\ receipt = None
  /\ got = None
  /\ plan = None

----------------------------------------------------------------------------
(* The calls. *)

Settled(r) == runs[r] \in {"reused", "published", "failed"}

\* serializeGeneration: a run waits for the one before it.
Enqueue ==
  LET n == Len(runs) IN
  /\ n < MaxRuns
  /\ runs' = Append(runs, IF n > 0 /\ ~Settled(n) THEN "behind" ELSE "queued")

\* ensureMiraiIntlCatalog; a call that finds an active run shares it.
Ensure ==
  /\ active = 0
  /\ Enqueue
  /\ active' = Len(runs) + 1
  /\ UNCHANGED <<inputs, root, other, known, matching, once, local>>

EnsureOnce ==
  /\ once = 0
  /\ \/ /\ active = 0
        /\ Enqueue
        /\ active' = Len(runs) + 1
     \/ /\ active # 0
        /\ UNCHANGED <<runs, active>>
  /\ once' = active'
  /\ UNCHANGED <<inputs, root, other, known, matching, local>>

\* regenerateMiraiIntlCatalog
Regenerate ==
  /\ Enqueue
  /\ once' = Len(runs) + 1
  /\ UNCHANGED <<inputs, root, other, known, matching, active, local>>

----------------------------------------------------------------------------
(* The run whose turn it is. *)

Turn(r) ==
  /\ r \in DOMAIN runs
  /\ ~Settled(r)
  /\ \A q \in 1..(r - 1) : Settled(q)

In(r, s, m) == Turn(r) /\ at = [step |-> s, mode |-> m]
Goto(s, m)  == at' = [step |-> s, mode |-> m]

\* Nothing of the run changes but the step it is at.
Onward == UNCHANGED <<calls, again, attempt, receipt, got, plan>>

\* Mutant: a failure forgets whatever run is remembered.
SettleForgetting(r, s) ==
  /\ runs' = [runs EXCEPT ![r] = s]
  /\ active' = IF active = r THEN 0 ELSE active
  /\ once' = IF s = "failed" THEN 0 ELSE once
  /\ at' = Idle /\ again' = FALSE /\ attempt' = 0
  /\ receipt' = None /\ got' = None /\ plan' = None

\* The run ends, and the maps forget it: a failed run is not remembered.
Settle(r, s) ==
  /\ runs' = [runs EXCEPT ![r] = s]
  /\ active' = IF active = r THEN 0 ELSE active
  /\ once' = IF s = "failed" /\ once = r THEN 0 ELSE once
  /\ at' = Idle /\ again' = FALSE /\ attempt' = 0
  /\ receipt' = None /\ got' = None /\ plan' = None

\* Who changes the root makes its fingerprints out of date.
RootChanges == matching' = matching \ {"published", "listed"}

\* A run queued behind one that failed fails with it.
Start(r) ==
  /\ Turn(r) /\ runs[r] \in {"queued", "behind"}
  /\ IF runs[r] = "behind" /\ runs[r - 1] = "failed"
     THEN Settle(r, "failed") /\ UNCHANGED matching
     ELSE /\ runs' = [runs EXCEPT ![r] = "running"]
          /\ matching' = matching \cup {"quiet"}
          /\ Goto("judge", "judge")
          /\ UNCHANGED <<active, once, again, attempt, receipt, got, plan>>
  /\ UNCHANGED <<inputs, root, other, known>>

\* Mutant: the wait has no deadline.
WaitOn(r) ==
  /\ Turn(r) /\ at.step \in {"judge", "lock"} /\ lock = "live"
  /\ attempt' = IF attempt = Attempts - 1 THEN attempt ELSE attempt + 1
  /\ UNCHANGED <<inputs, root, other, known, matching, calls, at, again,
                 receipt, got, plan>>

\* waitBeforePublicationLockRetry: the lock is found with a live owner; the
\* waits of the judgements, and those of the publication, have one deadline.
Wait(r) ==
  /\ Turn(r) /\ at.step \in {"judge", "lock"} /\ lock = "live"
  /\ IF attempt = Attempts - 1
     THEN Settle(r, "failed")
     ELSE attempt' = attempt + 1
          /\ UNCHANGED <<calls, at, again, receipt, got, plan>>
  /\ UNCHANGED <<inputs, root, other, known, matching>>

\* The root is waited for, and a dead owner's lock is recovered.  Nothing
\* published, or a journal, means to generate.
Judge(r) ==
  /\ In(r, "judge", "judge") /\ lock # "live"
  /\ lock' = "free"
  /\ matching' = IF lock = "dead" THEN matching \ {"published"} ELSE matching
  /\ IF selected = None \/ journal # None
     THEN Goto("read", "generate")
     ELSE Goto("list", "judge")
  /\ Onward
  /\ UNCHANGED <<inputs, selected, journal, other, known>>

\* generatedStateFingerprint: the root is listed, perhaps after the other
\* process has begun to publish.  An unchanged root that was verified before
\* needs its inputs only.
List(r) ==
  /\ In(r, "list", "judge")
  /\ matching' = matching \cup {"listed"}
  /\ receipt' = selected
  /\ IF published # None /\ "published" \in matching
     THEN Goto("read", "fast") /\ UNCHANGED published
     ELSE Goto("read", "verify") /\ published' = None
  /\ UNCHANGED <<inputs, root, other, cache, calls, again, attempt, got, plan>>

\* Mutant: the cached input is used whatever became of its files.
ReadCached(r) ==
  /\ Turn(r) /\ at.step = "read"
  /\ IF cache # None
     THEN Goto("loaded", at.mode) /\ got' = cache
     ELSE Goto("stamp", at.mode) /\ got' = inputs
  /\ UNCHANGED <<inputs, root, other, known, matching, calls, again, attempt,
                 receipt, plan>>

\* loadConventionCatalogGenerationInput: the cached input, if its files have
\* the change times it is remembered by; or the files are read.
Read(r) ==
  /\ Turn(r) /\ at.step = "read"
  /\ IF "cache" \in matching
     THEN Goto("loaded", at.mode) /\ got' = cache
     ELSE Goto("stamp", at.mode) /\ got' = inputs
  /\ UNCHANGED <<inputs, root, other, known, matching, calls, again, attempt,
                 receipt, plan>>

\* What was read is remembered by the change times of now.
Stamp(r) ==
  /\ Turn(r) /\ at.step = "stamp"
  /\ cache' = got
  /\ matching' = matching \cup {"cache"}
  /\ Goto("loaded", at.mode)
  /\ Onward
  /\ UNCHANGED <<inputs, root, other, published>>

----------------------------------------------------------------------------
(* judgePublishedGeneration, with the inputs loaded. *)

\* Mutant: the root is not looked at again after the inputs are loaded.
FastUnconfirmed(r) ==
  /\ In(r, "loaded", "fast")
  /\ IF got = published
     THEN Settle(r, "reused")
     ELSE Goto("read", "verify") /\ Onward
  /\ UNCHANGED <<inputs, root, other, known, matching>>

\* The verified root is reused if neither it nor the inputs have changed.
Fast(r) ==
  /\ In(r, "loaded", "fast")
  /\ IF "listed" \in matching /\ got = published
     THEN Settle(r, "reused")
     ELSE Goto("read", "verify") /\ Onward
  /\ UNCHANGED <<inputs, root, other, known, matching>>

\* Every file of the root is verified against the receipt, and the receipt
\* against the inputs.  A root that has changed meanwhile, or was listed in
\* the middle of a publication, may be met in any state of it: it may look
\* like another generation's, and anything else throws.  After a throw a
\* publication that took the lock is waited for, and any other failure is
\* judged once more.
Verify(r) ==
  /\ In(r, "loaded", "verify")
  /\ \/ /\ got # receipt \/ "listed" \notin matching
        /\ Goto("read", "generate")
        /\ Onward
        /\ UNCHANGED <<published, matching>>
     \/ /\ got = receipt /\ "listed" \in matching
        /\ published' = got
        /\ matching' = matching \cup {"published"}
        /\ Settle(r, "reused")
     \/ /\ "listed" \notin matching \/ journal # None
        /\ IF \/ lock = "live" /\ attempt = Attempts - 1
              \/ lock # "live" /\ again
           THEN Settle(r, "failed")
           ELSE /\ Goto("judge", "judge")
                /\ again' = (lock # "live")
                /\ attempt' = IF lock = "live" THEN attempt + 1 ELSE attempt
                /\ UNCHANGED <<calls, receipt, got, plan>>
        /\ UNCHANGED <<published, matching>>
  /\ UNCHANGED <<inputs, root, other, cache>>

\* generateConventionCatalogWithSnapshot: the plan is what was loaded.
Plan(r) ==
  /\ In(r, "loaded", "generate")
  /\ plan' = got
  /\ attempt' = 0
  /\ Goto("lock", "generate")
  /\ UNCHANGED <<inputs, root, other, known, matching, calls, again, receipt,
                 got>>

----------------------------------------------------------------------------
(* The publication, with its two barriers. *)

\* The lock is taken: another generation's journal is refused, a publication
\* that was committed goes to its second barrier, one that is complete ends.
Lock(r) ==
  /\ Turn(r) /\ at.step = "lock" /\ lock \in {"free", "dead"}
  /\ RootChanges
  /\ \/ /\ journal # None /\ journal.gen # plan
        /\ lock' = "free"
        /\ Settle(r, "failed")
        /\ UNCHANGED journal
     \/ /\ journal = None /\ selected = plan
        /\ lock' = "free"
        /\ Settle(r, "published")
        /\ UNCHANGED journal
     \/ /\ IF journal = None THEN selected # plan ELSE journal.gen = plan
        /\ lock' = "own"
        /\ journal' = IF journal = None
                      THEN [gen |-> plan, prior |-> selected] ELSE journal
        /\ Goto("read", IF selected = plan THEN "commit" ELSE "install")
        /\ Onward
  /\ UNCHANGED <<inputs, selected, other, known>>

\* beforePayloadInstall
Install(r) ==
  /\ In(r, "loaded", "install")
  /\ RootChanges
  /\ IF got = plan
     THEN /\ selected' = plan
          /\ Goto("read", "commit")
          /\ Onward
          /\ UNCHANGED <<lock, journal>>
     ELSE /\ lock' = "free"
          /\ journal' = None
          /\ Settle(r, "failed")
          /\ UNCHANGED selected
  /\ UNCHANGED <<inputs, other, known>>

\* afterPointerCommit
Commit(r) ==
  /\ In(r, "loaded", "commit")
  /\ RootChanges
  /\ lock' = "free"
  /\ journal' = None
  /\ IF got = plan
     THEN Settle(r, "published") /\ UNCHANGED selected
     ELSE Settle(r, "failed") /\ selected' = journal.prior
  /\ UNCHANGED <<inputs, other, known>>

Run(r) ==
  \/ Start(r) \/ Wait(r) \/ Judge(r) \/ List(r) \/ Read(r) \/ Stamp(r)
  \/ Fast(r) \/ Verify(r) \/ Plan(r) \/ Lock(r) \/ Install(r) \/ Commit(r)

----------------------------------------------------------------------------
(* The other process, and the editor. *)

Outside == UNCHANGED <<inputs, known, calls, local>>

\* It may have planned before the last edits; it refuses another's journal.
OtherLock ==
  /\ lock \in {"free", "dead"}
  /\ other' \in Gens
  /\ journal # None => journal.gen = other'
  /\ lock' = "live"
  /\ RootChanges
  /\ UNCHANGED <<selected, journal>>
  /\ Outside

OtherCommit ==
  /\ lock = "live" /\ selected # other /\ inputs = other
  /\ selected' = other
  /\ journal' = IF journal = None THEN [gen |-> other, prior |-> selected]
                                  ELSE journal
  /\ RootChanges
  /\ UNCHANGED <<lock, other>>
  /\ Outside

\* It ends: complete, discarded, or rolled back.
OtherRelease ==
  /\ lock = "live"
  /\ lock' = "free"
  /\ journal' = None
  /\ other' = None
  /\ \/ UNCHANGED selected
     \/ journal # None /\ inputs # other /\ selected' = journal.prior
  /\ RootChanges
  /\ Outside

OtherDie ==
  /\ lock = "live"
  /\ lock' = "dead"
  /\ other' = None
  /\ \/ UNCHANGED journal
     \/ journal = None /\ selected # other
        /\ journal' = [gen |-> other, prior |-> selected]
  /\ RootChanges
  /\ UNCHANGED selected
  /\ Outside

Edit ==
  /\ MidLoad \/ at.step # "stamp"
  /\ inputs' \in Gens
  /\ matching' = matching \ {"cache", "quiet"}
  /\ UNCHANGED <<root, other, known, calls, local>>

Next ==
  \/ Ensure \/ EnsureOnce \/ Regenerate
  \/ \E r \in DOMAIN runs : Run(r)
  \/ OtherLock \/ OtherCommit \/ OtherRelease \/ OtherDie
  \/ Edit

Spec == Init /\ [][Next]_vars

\* A run that can go on does; of the other process nothing is assumed.
LiveSpec == Spec /\ WF_vars(\E r \in DOMAIN runs : Run(r))

----------------------------------------------------------------------------
Steps == {"idle", "judge", "list", "read", "stamp", "loaded", "lock"}
Modes == {"judge", "fast", "verify", "generate", "install", "commit"}

\* Every variable keeps its type.
LifecycleTypeOK ==
  /\ inputs \in Gens
  /\ selected \in Gens \cup {None}
  /\ lock \in {"free", "own", "live", "dead"}
  /\ journal \in [gen : Gens, prior : Gens \cup {None}] \cup {None}
  /\ other \in Gens \cup {None}
  /\ cache \in Gens \cup {None}
  /\ published \in Gens \cup {None}
  /\ matching \subseteq {"cache", "published", "listed", "quiet"}
  /\ runs \in Seq({"queued", "behind", "running",
                   "reused", "published", "failed"})
  /\ Len(runs) <= MaxRuns
  /\ active \in 0..Len(runs)
  /\ once \in 0..Len(runs)
  /\ at \in [step : Steps, mode : Modes]
  /\ again \in BOOLEAN
  /\ attempt \in 0..(Attempts - 1)
  /\ receipt \in Gens \cup {None}
  /\ got \in Gens \cup {None}
  /\ plan \in Gens \cup {None}

\* Run r succeeds in this step, with the catalog of the input got.
Succeeds(r) == ~Settled(r) /\ runs'[r] \in {"reused", "published"}

\* A run during which nobody edited ends with the catalog of the inputs it
\* found, whatever the caches hold ("rechecking completed ensures for stale
\* sources").
QuietRunIsCurrent ==
  [][\A r \in DOMAIN runs :
       Succeeds(r) /\ "quiet" \in matching => got = inputs]_vars

\* The root selects the catalog a run returns when the run last looks at it,
\* although a judgement and the loading of its inputs hold no lock.
ReturnedIsSelected ==
  [][\A r \in DOMAIN runs : Succeeds(r) => selected' = got]_vars

\* The run every later ensureMiraiIntlCatalogOnce shares is the last one
\* asked for; it is forgotten only when it has failed itself.
OnceKeepsLatest ==
  [][once' # once =>
       \/ once' = Len(runs')
       \/ once = 0 /\ once' = active
       \/ once' = 0 /\ runs'[once] = "failed"]_vars

\* Every run settles, whatever edits and the other process do to it: "Waits
\* share one budget and fail at its deadline".
RunsSettle ==
  \A r \in 1..MaxRuns : r \in DOMAIN runs ~> r \in DOMAIN runs /\ Settled(r)

=============================================================================
