-------------------------- MODULE PackageAuthority --------------------------
(***************************************************************************)
(* The authority a package's build trusts: how `check --workspace`         *)
(* authorizes the sources of a package (packages/compiler/src/proof.ts)    *)
(* and how builds verify what was authorized (check-receipt.ts), beside    *)
(* people who edit, other processes that regenerate the catalog, and       *)
(* kills.                                                                  *)
(*                                                                         *)
(* An authorization reads the inputs one family after the other, analyses  *)
(* them, installs immutable objects named by their content, reads every    *)
(* family again, and renames the selector over the one before: the only    *)
(* step that makes its result visible.  A verification reads the selector  *)
(* and what it names, compares every family with it, and compares them all *)
(* again before it returns.                                                *)
(*                                                                         *)
(* Abstractions.  A version stands for the bytes of a family of inputs:    *)
(* src (sources, check projects, providers, package manifest, lockfile),   *)
(* cat (configuration and messages of the catalog), tool (compiler,        *)
(* TypeScript, ICU parser); a generated root is the <<cat, tool>> it came  *)
(* from.  An edit makes a version that never existed before.  A hash is    *)
(* what it is the hash of.  Only the V3 selection is modelled, and a run   *)
(* of the lifecycle (EnsureLifecycle) is one step.  Nobody acts inside the *)
(* commit barrier and its rename, which are one synchronous section.       *)
(***************************************************************************)
EXTENDS Naturals, FiniteSets, Sequences

CONSTANTS
  Packages,
  Checks,       \* processes that authorize a package
  Builds,       \* processes that verify every package
  Home,         \* Home[c]: the package process c authorizes
  Runtimes,     \* JavaScript runtimes, which differ in their Intl data
  Order,        \* all packages, each once, in the order a build verifies them
  Rejected,     \* <<src, runtime>>: the analysis reports diagnostics
  None,
  Window,       \* dormantV3CommitWindowMs, in ticks
  MaxEdits,
  MaxRuns, MaxKills, MaxTicks,   \* bounds
  MaxEvents     \* bound on the edits, kills and ticks together

ASSUME AuthorityConstants ==
  /\ Home \in [Checks -> Packages]
  /\ Checks \cap Builds = {}
  /\ Order \in Seq(Packages) /\ Packages = {Order[i] : i \in DOMAIN Order}
  /\ \A i, j \in DOMAIN Order : Order[i] = Order[j] => i = j
  /\ Packages # {}
  /\ None \notin Packages \cup Runtimes
  /\ Rejected \subseteq Nat \X Runtimes
  /\ \E t \in Runtimes : <<0, t>> \notin Rejected
  /\ {Window, MaxEdits, MaxRuns, MaxKills, MaxTicks, MaxEvents} \subseteq Nat

Procs == Checks \cup Builds
Versions == 0..MaxEdits

\* A set binds versions of sources, catalog and toolchain.  It is one of
\* three objects: it names the receipt and the classifier
\* authority by their hashes.
Kinds == {"authority", "receipt", "set"}

VARIABLES
  src, cat, tool, generated,   \* the inputs, and the generated root
  objects,    \* objects[p]: the immutable objects in the store of p
  twice,      \* twice[p]: those a temporary name is still linked to
  selector,   \* selector[p]: the set the selector names, or None
  record,     \* record[p]: the reuse record <<set, runtime>>, or None
  pc, work,   \* the processes
  now, edits, runs, kills,
  seen,       \* history: the inputs at every moment, and when they held
  activated   \* history: <<p, set, runtime>> a full authorization committed

inputs == <<src, cat, tool>>
store  == <<objects, twice, selector, record>>
vars   == <<inputs, generated, store, pc, work, now, edits, runs, kills,
            seen, activated>>

Blank == [src |-> 0, cat |-> 0, tool |-> 0]

\* The local variables of a process: the set it assembles or verifies, the
\* position in its list of packages, the sets it has read, the results, the
\* runtime it runs on, whether the object at hand still has its temporary
\* name, when the run or its fingerprint began, and when that expires.
Idle == [set |-> Blank, named |-> Blank, i |-> 1, read |-> [p \in Packages |-> None],
         ok |-> [p \in Packages |-> FALSE], tool |-> 0, runtime |-> None,
         linked |-> FALSE, began |-> 0, deadline |-> 0, outcome |-> "none"]

Moment == [src |-> src, cat |-> cat, tool |-> tool, generated |-> generated]

\* p's part of the inputs of moment m is what set s binds.
Binds(s, m, p) ==
  m.src[p] = s.src /\ m.cat[p] = s.cat /\ m.tool = s.tool

\* What a catalog is generated from, and what set s says of it.
GenerationInput(p) == <<cat[p], tool>>
Generation(s) == <<s.cat, s.tool>>

Init ==
  /\ src = [p \in Packages |-> 0]
  /\ cat = [p \in Packages |-> 0]
  /\ tool = 0
  /\ generated = [p \in Packages |-> <<0, 0>>]
  /\ objects = [p \in Packages |-> [kind : Kinds, of : {Blank}]]
  /\ twice = [p \in Packages |-> {}]
  /\ selector = [p \in Packages |-> Blank]
  /\ record = [p \in Packages |-> None]
  /\ pc = [q \in Procs |-> "idle"]
  /\ work = [q \in Procs |-> Idle]
  /\ now = 0 /\ edits = 0 /\ runs = 0 /\ kills = 0
  /\ seen = {<<Moment, 0>>}
  /\ activated = {<<p, Blank, t>> : p \in Packages, t \in Runtimes}

----------------------------------------------------------------------------
Goto(q, label) == pc' = [pc EXCEPT ![q] = label]

\* Process q ends its run; of what it knows only a verification is a result.
End(q, outcome) ==
  /\ Goto(q, "idle")
  /\ work' = [work EXCEPT ![q] =
       IF outcome \in {"verified", "reused"} THEN [@ EXCEPT !.outcome = outcome]
       ELSE [Idle EXCEPT !.outcome = outcome]]

World == UNCHANGED <<inputs, generated, now, edits, runs, kills, seen>>
Reading == World /\ UNCHANGED <<store, activated>>

Start(q, label, w) ==
  /\ pc[q] = "idle" /\ runs < MaxRuns
  /\ runs' = runs + 1
  /\ Goto(q, label)
  /\ work' = [work EXCEPT ![q] = w]
  /\ UNCHANGED <<inputs, generated, store, now, edits, kills, seen, activated>>

(* Verification.  The packages are compared one after the other, and all of *)
(* those found good are compared again once the last has been.              *)

\* A build verifies every package in one session, a check its own.
Listed(q) == IF q \in Builds THEN Order ELSE <<Home[q]>>
At(q) == Listed(q)[work[q].i]
Bound(q) == work[q].read[At(q)]

\* A session reads the toolchain once, when it starts.
Toolchain(q) == IF q \in Builds THEN work[q].tool ELSE tool

\* Mutant: what was compared once is not compared again.
RecheckNothing(q, ok, i) == {<<"verified", 1>>}

\* Where the second round goes after the i-th package: on to the next one
\* found good, or to its end when none is left.
Recheck(q, ok, i) ==
  LET good == {j \in i + 1 .. Len(Listed(q)) : ok[Listed(q)[j]]}
  IN  IF good = {} THEN {<<"verified", 1>>}
      ELSE {"recat"} \X {j \in good : \A k \in good : j <= k}

FirstRound(q, result) ==
  LET ok == [work[q].ok EXCEPT ![At(q)] = result]
  IN  \E next \in IF work[q].i < Len(Listed(q))
                   THEN {<<"select", work[q].i + 1>>} ELSE Recheck(q, ok, 0) :
        /\ Goto(q, next[1])
        /\ work' = [work EXCEPT ![q].ok = ok, ![q].i = next[2]]

SecondRound(q, result) ==
  LET ok == [work[q].ok EXCEPT ![At(q)] = result]
  IN  \E next \in Recheck(q, ok, work[q].i) :
        /\ Goto(q, next[1])
        /\ work' = [work EXCEPT ![q].ok = ok, ![q].i = next[2]]

StartBuild(q) ==
  /\ q \in Builds
  /\ Start(q, "select", [Idle EXCEPT !.tool = tool, !.began = now])

\* The selector is read, and everything it names.
Complete(p, s) == [kind : Kinds, of : {s}] \subseteq objects[p]

Select(q) ==
  LET p == At(q) IN
  /\ pc[q] = "select"
  /\ IF selector[p] # None /\ Complete(p, selector[p])
     THEN /\ Goto(q, "cat")
          /\ work' = [work EXCEPT ![q].read[p] = selector[p]]
     ELSE FirstRound(q, FALSE)
  /\ Reading

After == [cat |-> "src", src |-> "gen", recat |-> "resrc", resrc |-> "regen"]

Verdict(q, result) ==
  IF pc[q] \in {"recat", "resrc", "regen"} THEN SecondRound(q, result)
                                           ELSE FirstRound(q, result)

\* One family is compared with the set: the first difference is the verdict.
Compare(q, same) ==
  /\ IF same THEN Goto(q, After[pc[q]]) /\ UNCHANGED work ELSE Verdict(q, FALSE)
  /\ Reading

CompareCatalog(q) ==
  /\ pc[q] \in {"cat", "recat"}
  /\ Compare(q, <<cat[At(q)], Toolchain(q)>> = Generation(Bound(q)))

CompareSources(q) ==
  /\ pc[q] \in {"src", "resrc"}
  /\ Compare(q, src[At(q)] = Bound(q).src)

\* The generated root is the last family of a round.
CompareGenerated(q) ==
  /\ pc[q] \in {"gen", "regen"}
  /\ Verdict(q, generated[At(q)] = Generation(Bound(q)))
  /\ Reading

\* The end of a session: a toolchain that has changed rejects every package.
EndBuild(q) ==
  /\ q \in Builds /\ pc[q] = "verified"
  /\ End(q, IF tool = work[q].tool /\ \A i \in DOMAIN Order : work[q].ok[Order[i]]
            THEN "verified" ELSE "rejected")
  /\ Reading

----------------------------------------------------------------------------
(* Authorization of one package.                                            *)

\* The set of the home package may stand for a full authorization only when
\* the record is the one this runtime would write; then it is verified.
StartCheck(q, t) ==
  /\ q \in Checks
  /\ LET w == [Idle EXCEPT !.runtime = t, !.began = now]
         named == record[Home[q]]
     IN  IF named # None /\ named[2] = t
         THEN Start(q, "select", [w EXCEPT !.named = named[1]])
         ELSE Start(q, "ensure", w)

\* The verified set is reused if it is the one the record names.
Reuse(q) ==
  LET p == Home[q] IN
  /\ q \in Checks /\ pc[q] = "verified"
  /\ IF work[q].ok[p] /\ work[q].named = work[q].read[p]
     THEN End(q, "reused")
     ELSE Goto(q, "ensure") /\ UNCHANGED work
  /\ Reading

\* The lifecycle loads the catalog inputs and makes the root current.
Ensure(q) ==
  LET p == Home[q] IN
  /\ q \in Checks /\ pc[q] = "ensure"
  /\ generated' = [generated EXCEPT ![p] = GenerationInput(p)]
  /\ seen' = seen \cup {<<[Moment EXCEPT !.generated[p] = GenerationInput(p)], now>>}
  /\ Goto(q, "verify")
  /\ work' = [work EXCEPT ![q].set.cat = cat[p]]
  /\ UNCHANGED <<inputs, now, edits, runs, kills, store, activated>>

\* The root on disk must be the one the loaded inputs generate.
VerifyCatalog(q) ==
  /\ q \in Checks /\ pc[q] = "verify"
  /\ IF generated[Home[q]][1] = work[q].set.cat
     THEN Goto(q, "sources") /\ UNCHANGED work
     ELSE End(q, "changed")
  /\ Reading

ReadSources(q) ==
  /\ q \in Checks /\ pc[q] = "sources"
  /\ Goto(q, "toolchain")
  /\ work' = [work EXCEPT ![q].set.src = src[Home[q]]]
  /\ Reading

ReadToolchain(q) ==
  /\ q \in Checks /\ pc[q] = "toolchain"
  /\ Goto(q, "analyze")
  /\ work' = [work EXCEPT ![q].set.tool = tool]
  /\ Reading

\* Mutant: diagnostics are reported and authorized all the same.
AnalyzeLeniently(q) ==
  /\ q \in Checks /\ pc[q] = "analyze"
  /\ Goto(q, "authority")
  /\ UNCHANGED work
  /\ Reading

\* The analysis of what was read: diagnostics end the run.
Analyze(q) ==
  /\ q \in Checks /\ pc[q] = "analyze"
  /\ IF <<work[q].set.src, work[q].runtime>> \in Rejected
     THEN End(q, "diagnostics")
     ELSE Goto(q, "authority") /\ UNCHANGED work
  /\ Reading

\* Mutant: the receipt is installed after the selector.
AfterObjectLate == [authority |-> "set", receipt |-> "set", set |-> "fpInputs"]

AfterObject == [authority |-> "receipt", receipt |-> "set", set |-> "fpInputs"]

\* An object is written under a temporary name and linked under its own ...
LinkObject(q) ==
  LET p == Home[q]
      object == [kind |-> pc[q], of |-> work[q].set]
  IN
  /\ q \in Checks /\ pc[q] \in Kinds /\ ~work[q].linked
  /\ IF object \in objects[p]
     THEN Goto(q, AfterObject[pc[q]]) /\ UNCHANGED <<objects, twice, work>>
     ELSE /\ objects' = [objects EXCEPT ![p] = @ \cup {object}]
          /\ twice' = [twice EXCEPT ![p] = @ \cup {object}]
          /\ work' = [work EXCEPT ![q].linked = TRUE]
          /\ UNCHANGED pc
  /\ World /\ UNCHANGED <<selector, record, activated>>

\* ... and the temporary name is removed.
UnlinkTemporary(q) ==
  /\ q \in Checks /\ pc[q] \in Kinds /\ work[q].linked
  /\ twice' = [twice EXCEPT ![Home[q]] =
                 @ \ {[kind |-> pc[q], of |-> work[q].set]}]
  /\ work' = [work EXCEPT ![q].linked = FALSE,
                          ![q].began = IF pc[q] = "set" THEN now ELSE @]
  /\ Goto(q, AfterObject[pc[q]])
  /\ World /\ UNCHANGED <<objects, selector, record, activated>>

(* The fingerprint: every family is read again.                             *)

Fingerprint(q, same, next) ==
  /\ q \in Checks
  /\ IF same THEN Goto(q, next) /\ UNCHANGED work ELSE End(q, "changed")
  /\ Reading

FingerprintInputs(q) ==
  /\ pc[q] = "fpInputs"
  /\ Fingerprint(q, GenerationInput(Home[q]) = Generation(work[q].set),
                 "fpGenerated")

FingerprintGenerated(q) ==
  /\ pc[q] = "fpGenerated"
  /\ Fingerprint(q, generated[Home[q]] = Generation(work[q].set), "fpSources")

\* Mutant: sources are not read again.
FingerprintTrusted(q) ==
  /\ q \in Checks /\ pc[q] = "fpSources"
  /\ Goto(q, "commit")
  /\ work' = [work EXCEPT ![q].deadline = now + Window]
  /\ Reading

\* When the last family agrees, the commit window opens.
FingerprintSources(q) ==
  /\ q \in Checks /\ pc[q] = "fpSources"
  /\ IF src[Home[q]] = work[q].set.src
     THEN /\ Goto(q, "commit")
          /\ work' = [work EXCEPT ![q].deadline = now + Window]
     ELSE End(q, "changed")
  /\ Reading

\* The commit barrier and the rename of the selector; an identical selector
\* is left in place.
Commit(q) ==
  LET p == Home[q] IN
  /\ q \in Checks /\ pc[q] = "commit"
  /\ IF now >= work[q].deadline
     THEN End(q, "expired") /\ UNCHANGED <<selector, activated>>
     ELSE /\ selector' = [selector EXCEPT ![p] = work[q].set]
          /\ activated' = activated \cup {<<p, work[q].set, work[q].runtime>>}
          /\ Goto(q, "record")
          /\ UNCHANGED work
  /\ World /\ UNCHANGED <<objects, twice, record>>

WriteRecord(q) ==
  /\ q \in Checks /\ pc[q] = "record"
  /\ record' = [record EXCEPT ![Home[q]] = <<work[q].set, work[q].runtime>>]
  /\ End(q, "authorized")
  /\ World /\ UNCHANGED <<objects, twice, selector, activated>>

----------------------------------------------------------------------------
(* The environment.                                                         *)

Happened == edits + kills + now

Witness(m) == seen' = seen \cup {<<m, now>>}

EditSources(p) ==
  /\ edits < MaxEdits /\ Happened < MaxEvents
  /\ edits' = edits + 1
  /\ src' = [src EXCEPT ![p] = edits + 1]
  /\ Witness([Moment EXCEPT !.src[p] = edits + 1])
  /\ UNCHANGED <<cat, tool, generated, store, pc, work, now, runs, kills,
                activated>>

EditCatalog(p) ==
  /\ edits < MaxEdits /\ Happened < MaxEvents
  /\ edits' = edits + 1
  /\ cat' = [cat EXCEPT ![p] = edits + 1]
  /\ Witness([Moment EXCEPT !.cat[p] = edits + 1])
  /\ UNCHANGED <<src, tool, generated, store, pc, work, now, runs, kills,
                activated>>

\* Another compiler is installed.
Upgrade ==
  /\ edits < MaxEdits /\ Happened < MaxEvents
  /\ edits' = edits + 1
  /\ tool' = edits + 1
  /\ Witness([Moment EXCEPT !.tool = edits + 1])
  /\ UNCHANGED <<src, cat, generated, store, pc, work, now, runs, kills,
                activated>>

\* A dev server or another build makes the generated root current.
Regenerate(p) ==
  /\ generated[p] # GenerationInput(p)
  /\ generated' = [generated EXCEPT ![p] = GenerationInput(p)]
  /\ Witness([Moment EXCEPT !.generated[p] = GenerationInput(p)])
  /\ UNCHANGED <<inputs, store, pc, work, now, edits, runs, kills, activated>>

Tick ==
  /\ now < MaxTicks /\ Happened < MaxEvents
  /\ now' = now + 1
  /\ seen' = seen \cup {<<Moment, now + 1>>}
  /\ UNCHANGED <<inputs, generated, store, pc, work, edits, runs, kills,
                activated>>

\* A process that writes is killed (one that only reads leaves nothing).
Kill(q) ==
  /\ q \in Checks /\ pc[q] # "idle" /\ kills < MaxKills
  /\ Happened < MaxEvents
  /\ kills' = kills + 1
  /\ End(q, "killed")
  /\ UNCHANGED <<inputs, generated, store, now, edits, runs, seen, activated>>

Step(q) ==
  \/ Select(q) \/ CompareCatalog(q) \/ CompareSources(q) \/ CompareGenerated(q)
  \/ EndBuild(q) \/ Reuse(q)
  \/ Ensure(q) \/ VerifyCatalog(q) \/ ReadSources(q) \/ ReadToolchain(q)
  \/ Analyze(q) \/ LinkObject(q) \/ UnlinkTemporary(q)
  \/ FingerprintInputs(q) \/ FingerprintGenerated(q) \/ FingerprintSources(q)
  \/ Commit(q) \/ WriteRecord(q)

Next ==
  \/ \E q \in Procs : Step(q) \/ StartBuild(q) \/ Kill(q)
  \/ \E q \in Checks, t \in Runtimes : StartCheck(q, t)
  \/ \E p \in Packages : EditSources(p) \/ EditCatalog(p) \/ Regenerate(p)
  \/ Upgrade \/ Tick

Spec == Init /\ [][Next]_vars

----------------------------------------------------------------------------
\* Whatever the selector names can be read: a reader never meets a selector
\* whose set, receipt or classifier authority is still to be written, after
\* a kill at any step of any number of publications.
SelectedComplete ==
  \A p \in Packages : selector[p] # None => Complete(p, selector[p])

\* The inputs an authorization read one after the other existed together: a
\* set mixes no source of before an edit with a catalog of after it, and it
\* was still true after the analysis, when the fingerprint began.
CommitsOneMoment ==
  [][\A q \in Checks :
       pc[q] = "commit" /\ pc'[q] = "record" =>
         \E e \in seen : /\ Binds(work[q].set, e[1], Home[q])
                        /\ e[1].generated[Home[q]] = Generation(work[q].set)
                        /\ e[2] >= work[q].began]_vars

\* A session that verified every package saw a workspace that existed: there
\* is one moment since it started at which all of them were what their sets
\* bind, though it read them one by one while others edited.
SessionSeesOneMoment ==
  \A q \in Builds :
    work[q].outcome = "verified" =>
      \E e \in seen :
        /\ e[2] >= work[q].began
        /\ \A p \in Packages :
             /\ Binds(work[q].read[p], e[1], p)
             /\ e[1].generated[p] = Generation(work[q].read[p])

\* What stands for an authorization was one: a check that reused a set would
\* have been accepted by the analysis on its own runtime.
ReusedWasAuthorized ==
  \A q \in Checks :
    work[q].outcome = "reused" =>
      /\ <<Home[q], work[q].named, work[q].runtime>> \in activated
      /\ <<work[q].named.src, work[q].runtime>> \notin Rejected

\* No build succeeds on sources every analysis has rejected.
BuildsAcceptedSources ==
  \A q \in Builds :
    work[q].outcome = "verified" =>
      \A p \in Packages : \E t \in Runtimes :
        /\ <<p, work[q].read[p], t>> \in activated
        /\ <<work[q].read[p].src, t>> \notin Rejected

\* What a build verifies or a check reuses was accepted by an analysis.
AcceptedWasAuthorized == ReusedWasAuthorized /\ BuildsAcceptedSources

=============================================================================
