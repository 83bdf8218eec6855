------------------------ MODULE CatalogPublication ------------------------
(***************************************************************************)
(* The journalled publication of a generated catalog root, as implemented  *)
(* by runPublication in packages/compiler/src/writer.ts, together with the *)
(* edits of its inputs and the kills of its process.                       *)
(*                                                                         *)
(* A generated root holds content-addressed payload directories (builds/)  *)
(* and four control files: index.ts, catalog.lock.json, the generation     *)
(* receipt and current.json, the pointer.  A publication stages all of     *)
(* them beside a journal, installs the payload, then the first three       *)
(* control files in any order, then the pointer, and at last removes the   *)
(* previous payload, the stage and the journal.  It rebuilds its inputs    *)
(* once before the payload is installed and once after the pointer is; a   *)
(* difference discards the publication, or rolls it back.                  *)
(*                                                                         *)
(* Publications of one root exclude each other (module PublicationLock),   *)
(* so one run is under way at a time.  Every action is one change of the   *)
(* root; a kill can fall between any two of them, and TornSteps splits the *)
(* changes the file system does not make atomic.                           *)
(*                                                                         *)
(* Abstractions:                                                           *)
(*  - a generation input g determines its payload directory Dir[g]; files  *)
(*    hold the identity they are written from: the facade and the catalog  *)
(*    lock name a payload, the receipt and the pointer a generation input; *)
(*  - hashes are injective, and nobody but the writer edits the root: the  *)
(*    checks against tampering appear where an interrupted publication of  *)
(*    the writer itself can fail them;                                     *)
(*  - a stage is complete or was never declared durable: its controls are  *)
(*    those of journal.gen and its backup is journal.prev;                 *)
(*  - a partial payload is a directory that has lost some of its files, not *)
(*    all of them;                                                         *)
(*  - an empty staging area, and temporary siblings of control files,      *)
(*    carry no state (both are accepted or removed by the next run).       *)
(***************************************************************************)
EXTENDS Naturals, FiniteSets

CONSTANTS Gens,         \* generation inputs
          Dirs,         \* payload directories (content hashes)
          Dir,          \* Dir[g]: the payload generated from g
          None,         \* absent
          Torn,         \* a file that was not completely written
          MaxEdits,     \* bound on the edits of the inputs
          MaxKills,     \* bound on the kills of a publisher
          TornSteps,    \* a kill can fall inside a step the file system does
                        \* not make atomic: a recursive removal, or the
                        \* first write of the journal
          MaxMixed      \* bound on each of them in a behaviour that has both

VARIABLES
  inputs,   \* the generation input on disk (catalogs, config, compiler)
  builds,   \* builds[d]: "absent", "partial" or "whole"
  ctl,      \* the four control files
  journal,  \* the durable journal, None, or Torn (an incomplete file)
  stage,    \* the stage directory, or None
  pc,       \* the step of the publication under way
  plan,     \* the generation it publishes
  resumed,  \* it is completing a rollback it found in the journal
  outcome,  \* how the last publication ended
  before,   \* what the last publication found when it began
  edits, kills

disk == <<builds, ctl, journal, stage>>
vars == <<inputs, disk, pc, plan, resumed, outcome, before, edits, kills>>

----------------------------------------------------------------------------
(* The generated root. *)

Presence == {"absent", "partial", "whole"}

Controls == [index : Dirs \cup {None}, lock : Dirs \cup {None},
             receipt : Gens \cup {None}, current : Gens \cup {None}]

NoControls == [index |-> None, lock |-> None, receipt |-> None,
               current |-> None]

ControlsOf(g) == [index |-> Dir[g], lock |-> Dir[g], receipt |-> g,
                  current |-> g]

\* The journal states that reach the disk (advanceJournal); the others live
\* in the publisher's memory only.
JournalStates == {"PREPARED", "STAGED_DURABLE", "ROLLBACK_REQUIRED",
                  "ROLLBACK_POINTER_REMOVED", "ROLLBACK_CONTROLS_RESTORED"}

Journals == [gen : Gens, prev : Controls, state : JournalStates]

PrevDir(j) == IF j.prev.current = None THEN None ELSE Dir[j.prev.current]

\* What is left of a stage: its payload, and whether its controls and the
\* backup of the previous controls are all there.
Stages == [payload : Presence, controls : BOOLEAN]

ASSUME PublicationConstants ==
  /\ Dir \in [Gens -> Dirs]
  /\ None \notin Gens \cup Dirs /\ None # Torn
  /\ {None, Torn} \cap Journals = {} /\ None \notin Stages
  /\ MaxEdits \in Nat /\ MaxKills \in Nat
  /\ TornSteps \in BOOLEAN /\ MaxMixed \in Nat

FullStage == [payload |-> "whole", controls |-> TRUE]

\* assertKnownBuilds
KnownBuilds(ds) == \A d \in Dirs : builds[d] # "absent" => d \in ds

\* assertPreviousCommittedState: the generation g the pointer selects is
\* the one every other control file names, and its payload is alone and whole.
PreviousCommitted(c, g) ==
  /\ c = ControlsOf(g)
  /\ builds[Dir[g]] = "whole"
  /\ KnownBuilds({Dir[g]})

\* assertCommittedPlan
CommittedPlan(g, prev) ==
  /\ ctl = ControlsOf(g)
  /\ builds[Dir[g]] = "whole"
  /\ KnownBuilds({Dir[g], prev})

\* A checkout without builds/: the control files of a committed generation,
\* and no payload at all.
Bare ==
  /\ ctl.current # None
  /\ ctl = ControlsOf(ctl.current)
  /\ KnownBuilds({})

\* What a publication finds: the control files, and whether they are all of it.
Found == [ctl |-> ctl, bare |-> Bare]

Goto(l) == pc' = l
Memory  == UNCHANGED <<inputs, plan, resumed, before, edits, kills>>

\* The publication throws; the disk stays as the step found it.
Throw ==
  /\ pc' = "idle"
  /\ outcome' = "error"
  /\ UNCHANGED disk

----------------------------------------------------------------------------
\* A root nothing was generated in, a committed generation with its payload,
\* or a checkout that has the generated files and not builds/.
Init ==
  /\ inputs \in Gens
  /\ \/ /\ ctl = NoControls
        /\ builds = [d \in Dirs |-> "absent"]
     \/ \E g \in Gens :
          /\ ctl = ControlsOf(g)
          /\ builds \in { [d \in Dirs |-> IF d = Dir[g] THEN "whole" ELSE "absent"],
                         [d \in Dirs |-> "absent"] }
  /\ journal = None
  /\ stage = None
  /\ pc = "idle"
  /\ plan = inputs
  /\ resumed = FALSE
  /\ outcome = "none"
  /\ before = Found
  /\ edits = 0
  /\ kills = 0

\* A publisher has built its plan from the inputs and holds the lock.
Begin ==
  /\ pc = "idle"
  /\ plan' = inputs
  /\ before' = Found
  /\ outcome' = "running"
  /\ resumed' = FALSE
  /\ Goto("start")
  /\ UNCHANGED <<inputs, disk, edits, kills>>

\* Read the journal: finish a rollback, resume the same generation, or refuse.
ReadJournal ==
  /\ pc = "start"
  /\ UNCHANGED <<inputs, plan, before, edits, kills>>
  /\ \/ /\ journal = None
        /\ IF stage = None THEN Goto("inspect") /\ UNCHANGED <<disk, outcome>>
                           ELSE Throw
        /\ resumed' = FALSE
     \/ /\ journal = Torn
        /\ Throw
        /\ UNCHANGED resumed
     \/ /\ journal \notin {None, Torn}
        /\ journal.state \in {"ROLLBACK_REQUIRED", "ROLLBACK_POINTER_REMOVED",
                              "ROLLBACK_CONTROLS_RESTORED"}
        /\ Goto(journal.state)
        /\ resumed' = TRUE
        /\ UNCHANGED <<disk, outcome>>
     \/ /\ journal \notin {None, Torn}
        /\ journal.state \in {"PREPARED", "STAGED_DURABLE"}
        /\ IF journal.gen = plan
           THEN Goto(journal.state) /\ UNCHANGED <<disk, outcome>>
           ELSE Throw
        /\ UNCHANGED resumed

----------------------------------------------------------------------------
(* inspectInitialState, and the journal's first state. *)

CurrentAbsent ==
  /\ ctl = NoControls
  /\ KnownBuilds({})

\* Another generation is selected: committed, or with its payload completely
\* missing, which counts as nothing.
OtherCommitted ==
  /\ ctl.current \notin {None, plan}
  /\ PreviousCommitted(ctl, ctl.current)

OtherWithoutPayload ==
  /\ ctl.current \notin {None, plan}
  /\ Bare

\* The plan itself is selected; its receipt may be rebuilt if the payload is
\* whole, and a missing receipt also if the payload is missing with it.
SameSelected ==
  /\ ctl.current = plan
  /\ ctl.index = Dir[plan] /\ ctl.lock = Dir[plan]
  /\ builds[Dir[plan]] # "partial"
  /\ KnownBuilds({Dir[plan]})
  /\ ctl.receipt \notin {plan, None} => builds[Dir[plan]] = "whole"

Inspect ==
  /\ pc = "inspect"
  /\ Memory
  /\ \/ /\ CommittedPlan(plan, None)
        /\ Goto("idle")
        /\ outcome' = "unchanged"
        /\ UNCHANGED disk
     \/ /\ ~CommittedPlan(plan, None)
        /\ CurrentAbsent \/ OtherCommitted \/ OtherWithoutPayload \/ SameSelected
        /\ Goto("writeJournal")
        /\ UNCHANGED <<disk, outcome>>
     \/ /\ ~( \/ CommittedPlan(plan, None) \/ CurrentAbsent
              \/ OtherCommitted \/ OtherWithoutPayload \/ SameSelected )
        /\ Throw

\* writeDurableFile creates the journal in place.
WriteJournal ==
  /\ pc = "writeJournal"
  /\ Memory
  /\ UNCHANGED <<builds, ctl, stage, outcome>>
  /\ \/ /\ journal' = [gen |-> plan, state |-> "PREPARED",
                       prev |-> IF OtherCommitted THEN ctl ELSE NoControls]
        /\ Goto("PREPARED")
     \/ /\ TornSteps /\ journal = None
        /\ journal' = Torn
        /\ UNCHANGED pc

----------------------------------------------------------------------------
(* Staging. *)

\* createStage: whatever is left of an earlier stage is removed first.
CreateStage ==
  /\ pc = "PREPARED"
  /\ Memory
  /\ IF journal.prev # NoControls /\ journal.prev # ctl
     THEN /\ stage' = None
          /\ Goto("idle") /\ outcome' = "error"
     ELSE /\ stage' = FullStage
          /\ Goto("persistStaged") /\ UNCHANGED outcome
  /\ UNCHANGED <<builds, ctl, journal>>

PersistStaged ==
  /\ pc = "persistStaged"
  /\ journal' = [journal EXCEPT !.state = "STAGED_DURABLE"]
  /\ Goto("STAGED_DURABLE")
  /\ Memory
  /\ UNCHANGED <<builds, ctl, stage, outcome>>

StagedPayload == IF stage = None THEN "absent" ELSE stage.payload
StagedControls == stage # None /\ stage.controls

\* Mutant: the payload is looked for in the stage only.
StagedInStageOnly ==
  /\ pc = "STAGED_DURABLE"
  /\ Memory
  /\ IF StagedPayload = "whole"
     THEN Goto("recheck") /\ UNCHANGED <<disk, outcome>>
     ELSE Throw

\* A stage whose plan is already committed has only its end left to do;
\* otherwise its payload must be whole, in the stage or installed.
Staged ==
  /\ pc = "STAGED_DURABLE"
  /\ Memory
  /\ \/ /\ CommittedPlan(plan, PrevDir(journal))
        /\ Goto("POINTER_COMMITTED")
        /\ UNCHANGED <<disk, outcome>>
     \/ /\ ~CommittedPlan(plan, PrevDir(journal))
        /\ IF \/ StagedPayload = "whole"
              \/ StagedPayload = "absent" /\ builds[Dir[plan]] = "whole"
           THEN Goto("recheck") /\ UNCHANGED <<disk, outcome>>
           ELSE Throw

\* beforePayloadInstall: the inputs are rebuilt and compared.
Recheck ==
  /\ pc = "recheck"
  /\ Memory
  /\ Goto(IF inputs = plan THEN "install" ELSE "discard")
  /\ UNCHANGED <<disk, outcome>>

----------------------------------------------------------------------------
(* discardUninstalledPublication *)

\* rm -r of a payload directory, one kill away from leaving a part of it.
RemoveBuild(d, next) ==
  \/ /\ builds' = [builds EXCEPT ![d] = "absent"]
     /\ Goto(next)
  \/ /\ TornSteps /\ builds[d] = "whole"
     /\ builds' = [builds EXCEPT ![d] = "partial"]
     /\ UNCHANGED pc

\* rm -r of the stage.
RemoveStage(next) ==
  \/ /\ stage' = None
     /\ Goto(next)
  \/ /\ TornSteps /\ stage = FullStage
     /\ \E s \in Stages \ {FullStage} : stage' = s
     /\ UNCHANGED pc

Discard ==
  /\ pc = "discard"
  /\ Memory
  /\ IF \/ ctl.current # None /\ Dir[ctl.current] = Dir[plan]
        \/ builds[Dir[plan]] = "partial"
     THEN Throw
     ELSE /\ Goto(IF builds[Dir[plan]] = "whole" THEN "discardPayload"
                                                 ELSE "discardStage")
          /\ UNCHANGED <<disk, outcome>>

DiscardPayload ==
  /\ pc = "discardPayload"
  /\ RemoveBuild(Dir[plan], "discardStage")
  /\ Memory
  /\ UNCHANGED <<ctl, journal, stage, outcome>>

DiscardStage ==
  /\ pc = "discardStage"
  /\ Memory
  /\ IF stage = None
     THEN Throw
     ELSE RemoveStage("discardJournal") /\ UNCHANGED <<builds, ctl, journal, outcome>>

DiscardJournal ==
  /\ pc = "discardJournal"
  /\ journal' = None
  /\ Goto("idle") /\ outcome' = "error"
  /\ Memory
  /\ UNCHANGED <<builds, ctl, stage>>

----------------------------------------------------------------------------
(* Installation. *)

\* installPayload: one rename, or nothing if the payload is there already.
InstallPayload ==
  /\ pc = "install"
  /\ Memory
  /\ \/ /\ StagedPayload = "whole" /\ builds[Dir[plan]] = "absent"
        /\ builds' = [builds EXCEPT ![Dir[plan]] = "whole"]
        /\ stage' = [stage EXCEPT !.payload = "absent"]
        /\ Goto("PAYLOAD_INSTALLED")
        /\ UNCHANGED <<ctl, journal, outcome>>
     \/ /\ builds[Dir[plan]] = "whole"
        /\ Goto("PAYLOAD_INSTALLED")
        /\ UNCHANGED <<disk, outcome>>
     \/ /\ builds[Dir[plan]] = "partial"
        /\ Throw

\* installStagedControls: the three files are replaced in parallel, each by
\* a rename; a file missing from the stage must be in place already.
InstallControl(f) ==
  /\ pc = "PAYLOAD_INSTALLED"
  /\ ctl[f] # ControlsOf(plan)[f]
  /\ Memory
  /\ IF StagedControls
     THEN /\ ctl' = [ctl EXCEPT ![f] = ControlsOf(plan)[f]]
          /\ UNCHANGED <<builds, journal, stage, pc, outcome>>
     ELSE Throw

ControlsInstalled ==
  /\ pc = "PAYLOAD_INSTALLED"
  /\ \A f \in {"index", "lock", "receipt"} : ctl[f] = ControlsOf(plan)[f]
  /\ Goto("RECEIPT_INSTALLED")
  /\ Memory
  /\ UNCHANGED <<disk, outcome>>

\* The rename of current.json is the commit point.
InstallPointer ==
  /\ pc = "RECEIPT_INSTALLED"
  /\ Memory
  /\ IF StagedControls \/ ctl.current = plan
     THEN /\ ctl' = [ctl EXCEPT !.current = plan]
          /\ Goto("POINTER_COMMITTED")
          /\ UNCHANGED <<builds, journal, stage, outcome>>
     ELSE Throw

\* Mutant: a late change of the inputs ends like an early one.
CommittedDiscards ==
  /\ pc = "POINTER_COMMITTED"
  /\ Goto(IF inputs = plan THEN "VALIDATED" ELSE "discardStage")
  /\ Memory
  /\ UNCHANGED <<disk, outcome>>

\* afterPointerCommit: the inputs are rebuilt and compared once more.  (The
\* committed plan is verified again at VALIDATED, over an unchanged root.)
Committed ==
  /\ pc = "POINTER_COMMITTED"
  /\ Memory
  /\ \/ /\ ~CommittedPlan(plan, PrevDir(journal))
        /\ Throw
     \/ /\ CommittedPlan(plan, PrevDir(journal))
        /\ inputs = plan
        /\ Goto("VALIDATED")
        /\ UNCHANGED <<disk, outcome>>
     \/ /\ CommittedPlan(plan, PrevDir(journal))
        /\ inputs # plan
        /\ journal' = [journal EXCEPT !.state = "ROLLBACK_REQUIRED"]
        /\ Goto("ROLLBACK_REQUIRED")
        /\ UNCHANGED <<builds, ctl, stage, outcome>>

\* Mutant: the payload published is not told from the previous one.
PreviousEvenIfSelected ==
  IF PrevDir(journal) = None THEN "absent" ELSE builds[PrevDir(journal)]

\* removePreviousPayload: the previous payload must still have the content
\* its name promises.
PreviousPayload ==
  IF PrevDir(journal) \in {None, Dir[plan]} THEN "absent"
                                            ELSE builds[PrevDir(journal)]

\* Mutant: the previous payload stays.
KeepPrevious ==
  /\ pc = "VALIDATED"
  /\ Goto("finishStage")
  /\ Memory
  /\ UNCHANGED <<disk, outcome>>

RemovePrevious ==
  /\ pc = "VALIDATED"
  /\ Memory
  /\ \/ /\ PreviousPayload = "absent"
        /\ Goto("finishStage")
        /\ UNCHANGED <<disk, outcome>>
     \/ /\ PreviousPayload = "whole"
        /\ Goto("removing")
        /\ UNCHANGED <<disk, outcome>>
     \/ /\ PreviousPayload = "partial"
        /\ Throw

RemovePreviousFiles ==
  /\ pc = "removing"
  /\ RemoveBuild(PrevDir(journal), "finishStage")
  /\ Memory
  /\ UNCHANGED <<ctl, journal, stage, outcome>>

FinishStage ==
  /\ pc = "finishStage"
  /\ Memory
  /\ RemoveStage("finishJournal")
  /\ UNCHANGED <<builds, ctl, journal, outcome>>

FinishJournal ==
  /\ pc = "finishJournal"
  /\ journal' = None
  /\ Goto("idle") /\ outcome' = "changed"
  /\ Memory
  /\ UNCHANGED <<builds, ctl, stage>>

----------------------------------------------------------------------------
(* rollbackCommittedPointer; journal.gen is the generation rolled back. *)

\* ROLLBACK_REQUIRED: every control file is still the staged one (the
\* pointer may be gone); the pointer is removed.
RollbackPointer ==
  /\ pc = "ROLLBACK_REQUIRED"
  /\ Memory
  /\ IF /\ StagedControls
        /\ ctl \in {ControlsOf(journal.gen),
                    [ControlsOf(journal.gen) EXCEPT !.current = None]}
     THEN /\ ctl' = [ctl EXCEPT !.current = None]
          /\ Goto("pointerRemoved")
          /\ UNCHANGED <<builds, journal, stage, outcome>>
     ELSE Throw

PersistPointerRemoved ==
  /\ pc = "pointerRemoved"
  /\ journal' = [journal EXCEPT !.state = "ROLLBACK_POINTER_REMOVED"]
  /\ Goto("ROLLBACK_POINTER_REMOVED")
  /\ Memory
  /\ UNCHANGED <<builds, ctl, stage, outcome>>

\* ROLLBACK_POINTER_REMOVED: the previous control files come back one after
\* another, the pointer last; what the backup lacks is removed.
RestoreOrder == <<"index", "lock", "receipt", "current">>

RollbackRestore ==
  /\ pc = "ROLLBACK_POINTER_REMOVED"
  /\ Memory
  /\ \/ /\ ~StagedControls
        /\ Throw
     \/ /\ StagedControls
        /\ \E k \in 1..4 :
             /\ ctl[RestoreOrder[k]] # journal.prev[RestoreOrder[k]]
             /\ \A j \in 1..(k - 1) :
                  ctl[RestoreOrder[j]] = journal.prev[RestoreOrder[j]]
             /\ ctl' = [ctl EXCEPT ![RestoreOrder[k]] =
                                     journal.prev[RestoreOrder[k]]]
        /\ UNCHANGED <<builds, journal, stage, pc, outcome>>
     \/ /\ StagedControls /\ ctl = journal.prev
        /\ journal' = [journal EXCEPT !.state = "ROLLBACK_CONTROLS_RESTORED"]
        /\ Goto("ROLLBACK_CONTROLS_RESTORED")
        /\ UNCHANGED <<builds, ctl, stage, outcome>>

\* ROLLBACK_CONTROLS_RESTORED: the payload rolled back is removed unless it
\* is the previous one too, and the previous generation is verified.
RollbackPayload ==
  /\ pc = "ROLLBACK_CONTROLS_RESTORED"
  /\ Memory
  /\ LET d == Dir[journal.gen] IN
     IF \/ ~StagedControls
        \/ d # PrevDir(journal) /\ builds[d] = "partial"
     THEN Throw
     ELSE /\ Goto(IF d # PrevDir(journal) /\ builds[d] = "whole"
                  THEN "rollbackFiles" ELSE "rollbackVerify")
          /\ UNCHANGED <<disk, outcome>>

RollbackFiles ==
  /\ pc = "rollbackFiles"
  /\ RemoveBuild(Dir[journal.gen], "rollbackVerify")
  /\ Memory
  /\ UNCHANGED <<ctl, journal, stage, outcome>>

RollbackVerify ==
  /\ pc = "rollbackVerify"
  /\ Memory
  /\ IF \/ ctl = NoControls /\ journal.prev = NoControls
        \/ /\ ctl = journal.prev /\ ctl # NoControls
           /\ PreviousCommitted(ctl, ctl.current)
     THEN Goto("rollbackStage") /\ UNCHANGED <<disk, outcome>>
     ELSE Throw

RollbackStage ==
  /\ pc = "rollbackStage"
  /\ RemoveStage("rollbackJournal")
  /\ Memory
  /\ UNCHANGED <<builds, ctl, journal, outcome>>

\* A rollback the run began itself ends it with the error; one it found in
\* the journal is followed by the publication proper.
RollbackJournal ==
  /\ pc = "rollbackJournal"
  /\ journal' = None
  /\ IF resumed THEN Goto("start") /\ UNCHANGED outcome
                ELSE Goto("idle") /\ outcome' = "error"
  /\ Memory
  /\ UNCHANGED <<builds, ctl, stage>>

----------------------------------------------------------------------------
(* The environment. *)

\* Somebody edits a catalog, the configuration or the lockfile.
Edit ==
  /\ edits < MaxEdits
  /\ kills = 0 \/ (edits < MaxMixed /\ kills <= MaxMixed)
  /\ edits' = edits + 1
  /\ inputs' \in Gens \ {inputs}
  /\ UNCHANGED <<disk, pc, plan, resumed, outcome, before, kills>>

\* The publisher is killed; the disk stays as it is.
Kill ==
  /\ pc # "idle"
  /\ kills < MaxKills
  /\ edits = 0 \/ (kills < MaxMixed /\ edits <= MaxMixed)
  /\ kills' = kills + 1
  /\ pc' = "idle"
  /\ outcome' = "killed"
  /\ UNCHANGED <<inputs, disk, plan, resumed, before, edits>>

Publish ==
  \/ ReadJournal \/ Inspect \/ WriteJournal
  \/ CreateStage \/ PersistStaged \/ Staged \/ Recheck
  \/ Discard \/ DiscardPayload \/ DiscardStage \/ DiscardJournal
  \/ InstallPayload \/ (\E f \in {"index", "lock", "receipt"} : InstallControl(f))
  \/ ControlsInstalled \/ InstallPointer \/ Committed
  \/ RemovePrevious \/ RemovePreviousFiles \/ FinishStage \/ FinishJournal
  \/ RollbackPointer \/ PersistPointerRemoved \/ RollbackRestore
  \/ RollbackPayload \/ RollbackFiles \/ RollbackVerify \/ RollbackStage
  \/ RollbackJournal

Next == Begin \/ Publish \/ Edit \/ Kill

Spec == Init /\ [][Next]_vars

\* A publication that began goes on until it ends or is killed, and somebody
\* publishes again after it.
LiveSpec == Spec /\ WF_vars(Begin) /\ WF_vars(Publish)

----------------------------------------------------------------------------
Labels == {"idle", "start", "inspect", "writeJournal", "PREPARED", "persistStaged",
           "STAGED_DURABLE", "recheck", "discard", "discardPayload",
           "discardStage", "discardJournal", "install", "PAYLOAD_INSTALLED",
           "RECEIPT_INSTALLED", "POINTER_COMMITTED", "VALIDATED", "removing",
           "finishStage", "finishJournal", "ROLLBACK_REQUIRED",
           "pointerRemoved", "ROLLBACK_POINTER_REMOVED",
           "ROLLBACK_CONTROLS_RESTORED", "rollbackFiles", "rollbackVerify",
           "rollbackStage", "rollbackJournal"}

\* Every variable keeps its type.
PublicationTypeOK ==
  /\ inputs \in Gens
  /\ builds \in [Dirs -> Presence]
  /\ ctl \in Controls
  /\ journal \in Journals \cup {None, Torn}
  /\ stage \in Stages \cup {None}
  /\ pc \in Labels
  /\ plan \in Gens
  /\ resumed \in BOOLEAN
  /\ outcome \in {"none", "running", "unchanged", "changed", "error", "killed"}
  /\ before \in [ctl : Controls, bare : BOOLEAN]
  /\ edits \in 0..MaxEdits
  /\ kills \in 0..MaxKills

\* The generated root selects g and holds nothing else.
Selects(g) == PreviousCommitted(ctl, g)

\* A behaviour with both edits and kills, in which the code breaks the
\* properties that say so (AtRestOneBuild, and the three after OneFault).
Mixed == edits > 0 /\ kills > 0

\* "At rest, exactly one selected build exists": with no publication under
\* way and no journal to complete, the root is empty, or one generation whose
\* control files agree and whose payload is the only one, or the checkout
\* without builds/ that the last publication found and left alone.
AtRestOneBuild ==
  pc = "idle" /\ journal = None =>
    \/ ctl = NoControls /\ KnownBuilds({})
    \/ ctl.current # None /\ Selects(ctl.current)
    \/ Bare /\ before = Found

\* The same of a behaviour with edits alone, or kills alone.
OneFaultRests == Mixed \/ AtRestOneBuild

\* Every publication, resumption and rollback is, for a reader of the root,
\* a sequence of the steps of CatalogSelection, unless there are both edits
\* and kills: no payload is selected before it is installed, or removed while
\* it is selected.
Selection == INSTANCE CatalogSelection WITH
  selected <- ctl.current,
  installed <- {d \in Dirs : builds[d] = "whole"}

ReadersServed ==
  Selection!Init /\ [][Selection!Next \/ Mixed']_Selection!vars

\* A generation that will be rolled back, because its inputs have changed by
\* the time it is committed, replaced one whose payload still exists.
RollbackHasTarget ==
  /\ ~Mixed
  /\ \/ pc = "POINTER_COMMITTED" /\ inputs # plan
     \/ pc \in {"ROLLBACK_REQUIRED", "pointerRemoved",
               "ROLLBACK_POINTER_REMOVED", "ROLLBACK_CONTROLS_RESTORED"}
  => (journal.prev # NoControls => builds[PrevDir(journal)] = "whole")

\* A publication that failed without leaving a journal has put the control
\* files back as it found them, and what it rolls back to can be restored.
\* The exception is a checkout without builds/: a generation with no payload
\* is no previous generation to inspectInitialState, so that the rollback
\* removes control files it did not write.
FailureRestores ==
  /\ outcome = "error" /\ journal = None /\ ~Mixed =>
       ctl = before.ctl \/ (before.bare /\ ctl = NoControls)
  /\ RollbackHasTarget

\* A publication reports success only over a root that selects what it
\* published, with the journal and the stage gone.
SuccessSelectsPlan ==
  outcome \in {"changed", "unchanged"} =>
    Selects(plan) /\ journal = None /\ stage = None

\* A stage that no other inputs can discard, because the payload it would
\* install is the one already selected (in a checkout without builds/, or
\* shared with the committed generation): every publication refuses it until
\* its own inputs come back.
UndiscardedJournal ==
  /\ journal \notin {None, Torn}
  /\ journal.state = "STAGED_DURABLE" /\ journal.gen # inputs
  /\ ctl.current # None /\ Dir[ctl.current] = Dir[journal.gen]

\* A kill fell inside a step the file system does not make atomic.
TornByKill ==
  \/ journal = Torn
  \/ \E d \in Dirs : builds[d] = "partial"
  \/ stage \notin {None, FullStage, [FullStage EXCEPT !.payload = "absent"]}

\* Once edits and kills stop, publishing again and again ends with the
\* current inputs selected, and nothing left to complete: in a behaviour with
\* edits alone, or kills between the steps.
Converges ==
  [](~Mixed /\ ~TornByKill) =>
    []<>(pc = "idle" /\ ( \/ journal = None /\ stage = None /\ Selects(inputs)
                          \/ UndiscardedJournal ))

=============================================================================
