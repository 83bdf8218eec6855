--------------------- MODULE CatalogPublication_proofs ---------------------
(***************************************************************************)
(* Proofs about the journalled publication, for any generations, payload   *)
(* directories, edits and kills, torn steps included.                      *)
(***************************************************************************)
EXTENDS CatalogPublication, TLAPS

----------------------------------------------------------------------------
(* Types.  Between the journal's first write and its removal the publisher *)
(* works under a journal it has read or written.                           *)

JournalSteps == Labels \ {"idle", "start", "inspect", "writeJournal"}

Journaled ==
  /\ pc \in JournalSteps => journal \in Journals
  /\ pc \in {"inspect", "writeJournal"} => stage = None
  /\ pc = "inspect" => journal = None

TypeInv == PublicationTypeOK /\ Journaled

LEMMA ControlsOfType == \A g \in Gens : ControlsOf(g) \in Controls
BY PublicationConstants DEF ControlsOf, Controls

LEMMA NoControlsType == NoControls \in Controls
BY DEF NoControls, Controls

LEMMA FoundType ==
  ctl \in Controls => Found \in [ctl : Controls, bare : BOOLEAN]
BY DEF Found, Bare, KnownBuilds

LEMMA InitTypes == Init => TypeInv
<1> SUFFICES ASSUME Init PROVE TypeInv
  OBVIOUS
<1> USE PublicationConstants
<1>1. ctl \in Controls /\ builds \in [Dirs -> Presence]
  <2>1. CASE ctl = NoControls /\ builds = [d \in Dirs |-> "absent"]
    BY <2>1, NoControlsType DEF Presence
  <2>2. ASSUME NEW g \in Gens, ctl = ControlsOf(g),
               \/ builds = [d \in Dirs |->
                              IF d = Dir[g] THEN "whole" ELSE "absent"]
               \/ builds = [d \in Dirs |-> "absent"]
        PROVE  ctl \in Controls /\ builds \in [Dirs -> Presence]
    <3>1. ctl \in Controls
      BY <2>2, ControlsOfType
    <3>2. builds \in [Dirs -> Presence]
      BY <2>2 DEF Presence
    <3> QED BY <3>1, <3>2
  <2> QED
    BY <2>1, <2>2 DEF Init
<1>2. /\ inputs \in Gens /\ plan = inputs /\ before = Found
      /\ journal = None /\ stage = None
      /\ pc = "idle" /\ outcome = "none" /\ resumed = FALSE
      /\ edits = 0 /\ kills = 0
  BY DEF Init
<1>3. PublicationTypeOK
  <2>1. edits \in 0..MaxEdits /\ kills \in 0..MaxKills
    BY <1>2
  <2>2. before \in [ctl : Controls, bare : BOOLEAN] /\ plan \in Gens
    BY <1>1, <1>2, FoundType
  <2> QED
    BY <1>1, <1>2, <2>1, <2>2 DEF PublicationTypeOK, Labels
<1>4. Journaled
  BY <1>2 DEF Journaled, JournalSteps
<1> QED
  BY <1>3, <1>4 DEF TypeInv

LEMMA JournalUpdate ==
  ASSUME NEW j \in Journals, NEW s \in JournalStates
  PROVE  [j EXCEPT !.state = s] \in Journals
BY DEF Journals

LEMMA NextTypes == ASSUME TypeInv, [Next]_vars PROVE TypeInv'
<1> USE PublicationConstants DEF TypeInv, PublicationTypeOK, Journaled,
      JournalSteps, Labels, Goto, Memory, Throw, disk, Presence
<1>1. CASE Begin
  BY <1>1, FoundType DEF Begin
<1>2. CASE ReadJournal
  <2>1. pc' \in Labels
    BY <1>2 DEF ReadJournal
  <2>2. PublicationTypeOK'
    <3>1. /\ UNCHANGED <<inputs, plan, before, edits, kills, builds, ctl,
                         journal, stage>>
          /\ resumed' \in BOOLEAN /\ outcome' \in {outcome, "error"}
      BY <1>2 DEF ReadJournal
    <3> QED
      BY <2>1, <3>1
  <2>3. Journaled'
    BY <1>2 DEF ReadJournal
  <2> QED
    BY <2>2, <2>3
<1>3. CASE Inspect
  BY <1>3 DEF Inspect
<1>4. CASE WriteJournal
  BY <1>4, NoControlsType DEF WriteJournal, Journals, JournalStates
<1>5. CASE CreateStage
  <2>1. FullStage \in Stages
    BY DEF FullStage, Stages
  <2>2. stage' \in Stages \cup {None} /\ pc' \in {"idle", "persistStaged"}
    BY <1>5, <2>1 DEF CreateStage
  <2>3. PublicationTypeOK'
    BY <1>5, <2>2 DEF CreateStage
  <2>4. Journaled'
    BY <1>5, <2>2 DEF CreateStage
  <2> QED
    BY <2>3, <2>4
<1>6. CASE PersistStaged
  BY <1>6, JournalUpdate DEF PersistStaged, JournalStates
<1>7. CASE Staged
  BY <1>7 DEF Staged
<1>8. CASE Recheck
  BY <1>8 DEF Recheck
<1>9. CASE Discard
  BY <1>9 DEF Discard
<1>10. CASE DiscardPayload
  BY <1>10 DEF DiscardPayload, RemoveBuild
<1>11. CASE DiscardStage
  BY <1>11 DEF DiscardStage, RemoveStage
<1>12. CASE DiscardJournal
  BY <1>12 DEF DiscardJournal
<1>13. CASE InstallPayload
  BY <1>13 DEF InstallPayload, Stages, StagedPayload
<1>14. ASSUME NEW f \in {"index", "lock", "receipt"}, InstallControl(f)
       PROVE  TypeInv'
  BY <1>14, ControlsOfType DEF InstallControl, Controls
<1>15. CASE ControlsInstalled
  BY <1>15 DEF ControlsInstalled
<1>16. CASE InstallPointer
  BY <1>16 DEF InstallPointer, Controls
<1>17. CASE Committed
  <2>1. /\ UNCHANGED <<inputs, plan, resumed, before, edits, kills, builds,
                       ctl, stage>>
        /\ outcome' \in {outcome, "error"} /\ pc = "POINTER_COMMITTED"
        /\ pc' \in {"idle", "VALIDATED", "ROLLBACK_REQUIRED"}
    BY <1>17 DEF Committed
  <2>2. journal' \in Journals
    <3>1. journal \in Journals
      BY <2>1
    <3>2. \/ journal' = journal
          \/ journal' = [journal EXCEPT !.state = "ROLLBACK_REQUIRED"]
      BY <1>17 DEF Committed
    <3>3. "ROLLBACK_REQUIRED" \in JournalStates
      BY DEF JournalStates
    <3>4. [journal EXCEPT !.state = "ROLLBACK_REQUIRED"] \in Journals
      BY <3>1, <3>3, JournalUpdate, Zenon
    <3> QED
      BY <3>1, <3>2, <3>4, Zenon
  <2> QED
    BY <2>1, <2>2
<1>18. CASE RemovePrevious
  BY <1>18 DEF RemovePrevious
<1>19. CASE RemovePreviousFiles
  BY <1>19 DEF RemovePreviousFiles, RemoveBuild
<1>20. CASE FinishStage
  BY <1>20 DEF FinishStage, RemoveStage
<1>21. CASE FinishJournal
  BY <1>21 DEF FinishJournal
<1>22. CASE RollbackPointer
  BY <1>22 DEF RollbackPointer, Controls
<1>23. CASE PersistPointerRemoved
  BY <1>23, JournalUpdate DEF PersistPointerRemoved, JournalStates
<1>24. CASE RollbackRestore
  BY <1>24, JournalUpdate
  DEF RollbackRestore, JournalStates, RestoreOrder, Controls, Journals
<1>25. CASE RollbackPayload
  BY <1>25 DEF RollbackPayload
<1>26. CASE RollbackFiles
  BY <1>26 DEF RollbackFiles, RemoveBuild
<1>27. CASE RollbackVerify
  BY <1>27 DEF RollbackVerify
<1>28. CASE RollbackStage
  BY <1>28 DEF RollbackStage, RemoveStage
<1>29. CASE RollbackJournal
  BY <1>29 DEF RollbackJournal
<1>30. CASE Edit
  BY <1>30 DEF Edit
<1>31. CASE Kill
  BY <1>31 DEF Kill
<1>32. CASE UNCHANGED vars
  BY <1>32 DEF vars
<1> QED
  BY <1>1, <1>2, <1>3, <1>4, <1>5, <1>6, <1>7, <1>8, <1>9, <1>10, <1>11,
     <1>12, <1>13, <1>14, <1>15, <1>16, <1>17, <1>18, <1>19, <1>20, <1>21,
     <1>22, <1>23, <1>24, <1>25, <1>26, <1>27, <1>28, <1>29, <1>30, <1>31,
     <1>32
  DEF Next, Publish

\* Every variable keeps its type.
THEOREM TypeCorrect == Spec => []PublicationTypeOK
<1>1. TypeInv /\ [Next]_vars => TypeInv'
  BY NextTypes
<1>2. TypeInv => PublicationTypeOK
  BY DEF TypeInv
<1> QED
  BY <1>1, <1>2, InitTypes, PTL DEF Spec

----------------------------------------------------------------------------
(* Success.  From the verification of the committed plan on, the control   *)
(* files and the payload of the plan stay, whatever payload is not the     *)
(* plan's is the previous one until it is removed, and the journal is the  *)
(* last to go; the inputs may change meanwhile, and nothing depends on     *)
(* them any more.                                                          *)

Ending == {"VALIDATED", "removing", "finishStage", "finishJournal"}

PlanSelected ==
  /\ ctl = ControlsOf(plan)
  /\ builds[Dir[plan]] = "whole"

EndsKnown ==
  /\ pc \in Ending => PlanSelected
  /\ pc \in Ending => KnownBuilds({Dir[plan], PrevDir(journal)})
  /\ pc = "removing" => PrevDir(journal) \notin {None, Dir[plan]}
  /\ pc \in {"finishStage", "finishJournal"} => KnownBuilds({Dir[plan]})
  /\ pc = "finishJournal" => stage = None

RunningUntilIdle == pc # "idle" => outcome = "running"

SuccessInv == EndsKnown /\ RunningUntilIdle /\ SuccessSelectsPlan

LEMMA InitSuccess == Init => SuccessInv
BY DEF Init, SuccessInv, EndsKnown, RunningUntilIdle, SuccessSelectsPlan, Ending

\* The steps that end at a label outside Ending, without reporting success.
LEMMA OtherStep ==
  ASSUME SuccessInv, pc' \notin Ending, RunningUntilIdle',
         outcome' \notin {"changed", "unchanged"}
  PROVE  SuccessInv'
BY DEF SuccessInv, EndsKnown, SuccessSelectsPlan, Ending

LEMMA NextSuccess ==
  ASSUME TypeInv, TypeInv', SuccessInv, [Next]_vars PROVE SuccessInv'
<1> USE DEF Goto, Memory, Throw, disk
<1>1. pc # "idle" => outcome = "running"
  BY DEF SuccessInv, RunningUntilIdle
<1>2. CASE Begin
  BY <1>2, OtherStep DEF Begin, Ending, RunningUntilIdle
<1>3. CASE ReadJournal
  <2>1. pc' \notin Ending
    BY <1>3 DEF ReadJournal, Ending
  <2>2. /\ RunningUntilIdle'
        /\ outcome' \notin {"changed", "unchanged"}
    BY <1>3, <1>1 DEF ReadJournal, RunningUntilIdle
  <2> QED
    BY <2>1, <2>2, OtherStep
<1>4. CASE Inspect
  <2>1. CASE CommittedPlan(plan, None) /\ pc' = "idle"
             /\ outcome' = "unchanged" /\ UNCHANGED disk
    <3>1. pc = "inspect" /\ plan' = plan
      BY <1>4 DEF Inspect
    <3>2. journal = None /\ stage = None
      BY <3>1 DEF TypeInv, Journaled
    <3>3. Selects(plan)
      BY <2>1, PublicationConstants
      DEF CommittedPlan, Selects, PreviousCommitted, KnownBuilds
    <3> QED
      BY <2>1, <3>1, <3>2, <3>3
      DEF SuccessInv, EndsKnown, RunningUntilIdle, SuccessSelectsPlan, Ending,
          Selects, PreviousCommitted, KnownBuilds
  <2>2. CASE pc' \in {"idle", "writeJournal"}
             /\ (pc' # "idle" => outcome' = outcome)
             /\ (pc' = "idle" => outcome' = "error")
    BY <1>4, <1>1, <2>2, OtherStep DEF Inspect, Ending, RunningUntilIdle
  <2> QED
    BY <1>4, <2>1, <2>2 DEF Inspect
<1>5. ASSUME \/ WriteJournal \/ CreateStage \/ PersistStaged \/ Staged
             \/ Recheck \/ Discard \/ DiscardPayload \/ DiscardStage
             \/ DiscardJournal \/ InstallPayload
             \/ (\E f \in {"index", "lock", "receipt"} : InstallControl(f))
             \/ ControlsInstalled \/ InstallPointer
             \/ RollbackPointer \/ PersistPointerRemoved \/ RollbackRestore
             \/ RollbackPayload \/ RollbackFiles \/ RollbackVerify
             \/ RollbackStage \/ RollbackJournal \/ Kill
      PROVE  SuccessInv'
  <2>1. /\ pc' \notin Ending
        /\ pc # "idle"
        /\ \/ outcome' = outcome
           \/ pc' = "idle" /\ outcome' \in {"error", "killed"}
    BY <1>5
    DEF WriteJournal, CreateStage, PersistStaged, Staged, Recheck, Discard,
        DiscardPayload, DiscardStage, DiscardJournal, InstallPayload,
        InstallControl, ControlsInstalled, InstallPointer, RollbackPointer,
        PersistPointerRemoved, RollbackRestore, RollbackPayload,
        RollbackFiles, RollbackVerify, RollbackStage, RollbackJournal, Kill,
        RemoveBuild, RemoveStage, Ending
  <2> QED
    BY <1>1, <2>1, OtherStep DEF RunningUntilIdle
<1>6. CASE Committed
  <2>1. CASE CommittedPlan(plan, PrevDir(journal)) /\ pc' = "VALIDATED"
             /\ UNCHANGED <<disk, outcome, plan>>
    BY <1>1, <1>6, <2>1
    DEF Committed, CommittedPlan, SuccessInv, EndsKnown, PlanSelected,
        RunningUntilIdle, SuccessSelectsPlan, Ending, KnownBuilds, PrevDir
  <2>2. CASE \/ pc' = "idle" /\ outcome' = "error"
             \/ pc' = "ROLLBACK_REQUIRED" /\ outcome' = outcome
    BY <1>6, <1>1, <2>2, OtherStep DEF Committed, Ending, RunningUntilIdle
  <2> QED
    BY <1>6, <2>1, <2>2 DEF Committed
<1>7. CASE RemovePrevious
  <2>1. /\ pc = "VALIDATED" /\ outcome = "running"
        /\ PlanSelected /\ KnownBuilds({Dir[plan], PrevDir(journal)})
    BY <1>7, <1>1 DEF RemovePrevious, SuccessInv, EndsKnown, Ending
  <2>2. CASE PreviousPayload = "absent" /\ pc' = "finishStage"
             /\ UNCHANGED <<disk, outcome, plan>>
    <3>1. KnownBuilds({Dir[plan]})
      BY <2>1, <2>2, PublicationConstants
      DEF PreviousPayload, KnownBuilds
    <3> QED
      BY <2>1, <2>2, <3>1
      DEF SuccessInv, EndsKnown, PlanSelected, RunningUntilIdle,
          SuccessSelectsPlan, Ending, KnownBuilds, PrevDir
  <2>3. CASE PreviousPayload = "whole" /\ pc' = "removing"
             /\ UNCHANGED <<disk, outcome, plan>>
    <3>1. PrevDir(journal) \notin {None, Dir[plan]}
      BY <2>3 DEF PreviousPayload
    <3> QED
      BY <2>1, <2>3, <3>1
      DEF SuccessInv, EndsKnown, PlanSelected, RunningUntilIdle,
          SuccessSelectsPlan, Ending, KnownBuilds, PrevDir
  <2>4. CASE pc' = "idle" /\ outcome' = "error"
    BY <2>4, OtherStep DEF Ending, RunningUntilIdle
  <2> QED
    BY <1>7, <2>2, <2>3, <2>4 DEF RemovePrevious
<1>8. CASE RemovePreviousFiles
  <2>1. /\ outcome = "running" /\ PlanSelected
        /\ KnownBuilds({Dir[plan], PrevDir(journal)})
        /\ PrevDir(journal) \notin {None, Dir[plan]}
    BY <1>8, <1>1
    DEF RemovePreviousFiles, SuccessInv, EndsKnown, Ending
  <2>2. /\ UNCHANGED <<ctl, journal, plan, outcome>>
        /\ pc' \in {"removing", "finishStage"}
    BY <1>8 DEF RemovePreviousFiles, RemoveBuild
  <2>3. builds \in [Dirs -> Presence] /\ Dir[plan] \in Dirs
    BY PublicationConstants DEF TypeInv, PublicationTypeOK
  <2>4. /\ builds'[Dir[plan]] = "whole"
        /\ KnownBuilds({Dir[plan], PrevDir(journal)})'
        /\ pc' = "finishStage" => KnownBuilds({Dir[plan]})'
    BY <1>8, <2>1, <2>2, <2>3
    DEF RemovePreviousFiles, RemoveBuild, KnownBuilds, PlanSelected, PrevDir
  <2> QED
    BY <2>1, <2>2, <2>4
    DEF SuccessInv, EndsKnown, PlanSelected, RunningUntilIdle,
        SuccessSelectsPlan, Ending, PrevDir, ControlsOf
<1>9. CASE FinishStage
  BY <1>1, <1>9
  DEF FinishStage, RemoveStage, SuccessInv, EndsKnown, PlanSelected,
      RunningUntilIdle, SuccessSelectsPlan, Ending, KnownBuilds, PrevDir
<1>10. CASE FinishJournal
  <2>1. PlanSelected /\ KnownBuilds({Dir[plan]}) /\ stage = None
    BY <1>10 DEF FinishJournal, SuccessInv, EndsKnown, Ending
  <2> QED
    BY <1>10, <2>1
    DEF FinishJournal, SuccessInv, EndsKnown, PlanSelected, RunningUntilIdle,
        SuccessSelectsPlan, Ending, KnownBuilds, Selects, PreviousCommitted
<1>11. CASE Edit
  BY <1>11
  DEF Edit, SuccessInv, EndsKnown, PlanSelected, RunningUntilIdle,
      SuccessSelectsPlan, Ending, KnownBuilds, PrevDir, Selects,
      PreviousCommitted
<1>12. CASE UNCHANGED vars
  BY <1>12
  DEF vars, SuccessInv, EndsKnown, PlanSelected, RunningUntilIdle,
      SuccessSelectsPlan, Ending, KnownBuilds, PrevDir, Selects,
      PreviousCommitted
<1> QED
  BY <1>2, <1>3, <1>4, <1>5, <1>6, <1>7, <1>8, <1>9, <1>10, <1>11, <1>12
  DEF Next, Publish

\* A publication that reports success leaves a root that selects its plan,
\* with no other payload, no stage and no journal, whatever was killed or
\* edited before, and until the next publication begins.
THEOREM SuccessIsSelected == Spec => []SuccessSelectsPlan
<1>1. TypeInv /\ SuccessInv /\ [Next]_vars => TypeInv' /\ SuccessInv'
  BY NextTypes, NextSuccess
<1>2. Init => TypeInv /\ SuccessInv
  BY InitTypes, InitSuccess
<1>3. SuccessInv => SuccessSelectsPlan
  BY DEF SuccessInv
<1> QED
  BY <1>1, <1>2, <1>3, PTL DEF Spec

----------------------------------------------------------------------------
(* One fault: edits alone, or kills alone.  The root is then one           *)
(* generation at rest, or the publication that its journal names has got   *)
(* to one of few points of it.                                             *)

Mutable == {"index", "lock", "receipt"}
Unfinished == {"idle", "start"}
Preparing == {"PREPARED", "persistStaged"}
Installing == {"STAGED_DURABLE", "recheck", "install", "PAYLOAD_INSTALLED",
               "RECEIPT_INSTALLED", "POINTER_COMMITTED"}
Discarding == {"discard", "discardPayload", "discardStage", "discardJournal"}
Restoring == {"ROLLBACK_REQUIRED", "pointerRemoved",
              "ROLLBACK_POINTER_REMOVED", "ROLLBACK_CONTROLS_RESTORED"}
Restored == {"rollbackVerify", "rollbackStage", "rollbackJournal"}
RollingBack == Restoring \cup {"rollbackFiles"} \cup Restored

\* The root is empty, or one generation with nothing beside it, or a checkout
\* without builds/.
Settled ==
  \/ ctl = NoControls /\ KnownBuilds({})
  \/ ctl.current \in Gens /\ Selects(ctl.current)

Rest == Settled \/ Bare

\* The journal remembers another generation, or none.
RemembersOther ==
  \/ journal.prev = NoControls
  \/ /\ journal.prev.current \in Gens \ {journal.gen}
     /\ journal.prev = ControlsOf(journal.prev.current)

\* The previous payload, if any, is there, and no third one.
TwoPayloads ==
  /\ PrevDir(journal) # None => builds[PrevDir(journal)] = "whole"
  /\ KnownBuilds({Dir[journal.gen], PrevDir(journal)})

PayloadThere == builds[Dir[journal.gen]] = "whole"
ControlsThere == \A f \in Mutable : ctl[f] = ControlsOf(journal.gen)[f]
\* Nothing but the payload and some of the first three control files of the
\* new generation can be in place; the rest of it is staged.
NotYet ==
  /\ TwoPayloads
  /\ stage # None /\ StagedControls
  /\ builds[Dir[journal.gen]] # "partial"
  /\ \/ stage.payload = "whole"
     \/ stage.payload = "absent" /\ PayloadThere

\* The new generation is selected.
Done == CommittedPlan(journal.gen, PrevDir(journal))

\* The journal remembers the root it was written over, a checkout without
\* builds/ as an empty one.
Remembers == journal.prev = IF Bare THEN NoControls ELSE ctl

\* The root is as the publication found it.
Unchanged == Rest /\ Remembers /\ before = Found

\* What the journal remembers is what the publication found.
PrevIsBefore ==
  journal.prev = IF before.bare THEN NoControls ELSE before.ctl

\* The root is back where the journal remembers it.
RolledBack == Settled /\ ctl = journal.prev

NoJournal ==
  /\ journal \notin Journals =>
       Rest /\ stage = None /\ (Bare => before = Found)
  /\ pc = "writeJournal" =>
       journal \notin Journals /\ (ctl.current # plan \/ Bare)

\* What the journal and the step of the publisher say of the root.
JournalTells ==
  journal \in Journals =>
    /\ RemembersOther
    /\ pc \in JournalSteps => journal.gen = plan
    /\ journal.state = "PREPARED" =>
         pc \in Unfinished \cup Preparing /\ Rest /\ Remembers
    /\ pc \in Preparing => journal.state = "PREPARED"
    /\ pc = "persistStaged" => stage = FullStage
    /\ journal.state = "STAGED_DURABLE" /\ pc \in Unfinished => NotYet \/ Done
    /\ pc \in Installing \cup Ending \cup Discarding =>
         journal.state = "STAGED_DURABLE"
    /\ pc = "STAGED_DURABLE" => NotYet \/ Done
    /\ pc \in {"recheck", "install"} => NotYet
    /\ pc \in {"PAYLOAD_INSTALLED", "RECEIPT_INSTALLED"} =>
         NotYet /\ PayloadThere
    /\ pc = "RECEIPT_INSTALLED" => ControlsThere
    /\ pc \in {"POINTER_COMMITTED"} \cup Ending => Done

\* Without edits every publication is of the same inputs: nothing is
\* discarded or rolled back, and what fails leaves its journal.
KillsAlone ==
  edits = 0 =>
    /\ plan = inputs
    /\ journal \in Journals =>
         /\ journal.gen = inputs
         /\ journal.state \in {"PREPARED", "STAGED_DURABLE"}
    /\ pc \notin Discarding \cup RollingBack
    /\ outcome = "error" => journal # None

\* Without kills a publisher leaves at most a journal it could not discard,
\* over the root it found.
EditsAlone ==
  kills = 0 =>
    /\ ~resumed /\ pc # "discardPayload"
    /\ journal = Torn => pc = "writeJournal"
    /\ journal \in Journals /\ pc \in Unfinished =>
         /\ journal.state = "STAGED_DURABLE" /\ stage = FullStage
         /\ Rest /\ Remembers
    /\ pc \in {"start", "inspect", "writeJournal"} => before = Found
    /\ pc \in Preparing \cup Discarding
              \cup {"STAGED_DURABLE", "recheck", "install"} => Unchanged
    /\ pc \in {"STAGED_DURABLE", "recheck", "install", "discard"} =>
         stage = FullStage
    /\ pc = "discardStage" => stage # None
    /\ pc = "discardJournal" => stage = None
    /\ pc \in {"PAYLOAD_INSTALLED", "RECEIPT_INSTALLED", "POINTER_COMMITTED",
               "VALIDATED"} =>
         TwoPayloads /\ StagedControls /\ PrevIsBefore
    /\ outcome = "error" /\ journal = None =>
         ctl = before.ctl \/ (before.bare /\ ctl = NoControls)

\* A rollback goes back to what the publication found.
Rollback ==
  pc \in RollingBack =>
    /\ PrevIsBefore
    /\ pc \notin Restored => TwoPayloads
    /\ pc \in Restoring => StagedControls /\ PayloadThere
    /\ pc = "ROLLBACK_REQUIRED" => ctl = ControlsOf(journal.gen)
    /\ pc \in {"pointerRemoved", "ROLLBACK_POINTER_REMOVED"} =>
         ctl.current \in {None, journal.prev.current}
    /\ pc \in {"ROLLBACK_CONTROLS_RESTORED", "rollbackFiles"} =>
         ctl = journal.prev
    /\ pc = "rollbackFiles" => Dir[journal.gen] # PrevDir(journal)
    /\ pc \in Restored => RolledBack
    /\ pc = "rollbackJournal" => stage = None

RootParts ==
  NoJournal /\ JournalTells /\ KillsAlone /\ EditsAlone /\ Rollback

RootInv == ~Mixed => RootParts


LEMMA OneKind ==
  ASSUME TypeInv PROVE ~Mixed <=> edits = 0 \/ kills = 0
BY DEF TypeInv, PublicationTypeOK, Mixed

LEMMA FullStageType == FullStage \in Stages /\ FullStage # None
<1>1. FullStage \in Stages
  BY DEF FullStage, Stages, Presence
<1> QED
  BY <1>1, PublicationConstants

LEMMA PayloadsType ==
  ASSUME NEW j \in Journals
  PROVE  Dir[j.gen] \in Dirs /\ PrevDir(j) \in Dirs \cup {None}
BY PublicationConstants DEF Journals, Controls, PrevDir

LEMMA FoundFields == Found.ctl = ctl /\ (Found.bare <=> Bare)
BY DEF Found

\* A checkout without builds/ has no payload, so that it is not settled.
LEMMA SettledNotBare == TypeInv /\ Settled => ~Bare
<1> SUFFICES ASSUME TypeInv, Settled, Bare PROVE FALSE
  OBVIOUS
<1>1. ctl.current \in Gens /\ KnownBuilds({})
  BY DEF Bare, TypeInv, PublicationTypeOK, Controls
<1>2. Dir[ctl.current] \in Dirs /\ ctl.current # None
  BY <1>1, PublicationConstants
<1>3. builds[Dir[ctl.current]] = "whole"
  BY <1>2 DEF Settled, Selects, PreviousCommitted, NoControls
<1> QED
  BY <1>1, <1>2, <1>3 DEF KnownBuilds

LEMMA UnchangedPrev == Unchanged => PrevIsBefore
BY FoundFields DEF Unchanged, Remembers, PrevIsBefore

LEMMA InitRoot == Init => RootParts
<1> SUFFICES ASSUME Init PROVE RootParts
  OBVIOUS
<1> USE PublicationConstants
<1>1. /\ plan = inputs /\ before = Found /\ journal = None /\ stage = None
      /\ pc = "idle" /\ outcome = "none" /\ resumed = FALSE
      /\ journal \notin Journals /\ journal # Torn
  BY DEF Init
<1>2. Rest
  <2>1. CASE ctl = NoControls /\ builds = [d \in Dirs |-> "absent"]
    BY <2>1 DEF Rest, Settled, KnownBuilds
  <2>2. ASSUME NEW g \in Gens, ctl = ControlsOf(g),
               builds = [d \in Dirs |->
                           IF d = Dir[g] THEN "whole" ELSE "absent"]
        PROVE  Rest
    <3>1. ctl.current = g
      BY <2>2 DEF ControlsOf
    <3>2. Selects(g)
      BY <2>2 DEF Selects, PreviousCommitted, KnownBuilds
    <3> QED BY <3>1, <3>2 DEF Rest, Settled
  <2>3. ASSUME NEW g \in Gens, ctl = ControlsOf(g),
               builds = [d \in Dirs |-> "absent"]
        PROVE  Rest
    <3>1. ctl.current = g /\ g # None
      BY <2>3 DEF ControlsOf
    <3> QED BY <2>3, <3>1 DEF Rest, Bare, KnownBuilds
  <2> QED BY <2>1, <2>2, <2>3 DEF Init
<1>3. pc \notin JournalSteps \cup Discarding \cup RollingBack
  BY <1>1
  DEF JournalSteps, Discarding, RollingBack, Restoring, Restored
<1> QED
  BY <1>1, <1>2, <1>3
  DEF RootParts, NoJournal, JournalTells, KillsAlone, EditsAlone, Rollback,
      Preparing, Installing, Discarding

\* The steps that leave the payloads, the control files and the journal.
LEMMA SameRoot ==
  ASSUME UNCHANGED <<builds, ctl, journal>>
  PROVE  /\ Settled' <=> Settled
         /\ Bare' <=> Bare
         /\ Found' = Found
         /\ Rest' <=> Rest
         /\ Remembers' <=> Remembers
         /\ RolledBack' <=> RolledBack
         /\ before' = before => (Unchanged' <=> Unchanged)
<1>1. Settled' <=> Settled
  BY DEF Settled, Selects, PreviousCommitted, KnownBuilds
<1>2. Bare' <=> Bare
  BY DEF Bare, KnownBuilds
<1>3. Found' = Found /\ (Rest' <=> Rest)
  BY <1>1, <1>2 DEF Found, Rest
<1>4. (Remembers' <=> Remembers) /\ (RolledBack' <=> RolledBack)
  BY <1>1, <1>2 DEF Remembers, RolledBack
<1>5. before' = before => (Unchanged' <=> Unchanged)
  BY <1>3, <1>4 DEF Unchanged
<1> QED
  BY <1>1, <1>2, <1>3, <1>4, <1>5

\* The steps that change neither the root nor what the journal names.
LEMMA RootKept ==
  ASSUME UNCHANGED <<builds, ctl, stage>>,
         journal'.gen = journal.gen, journal'.prev = journal.prev
  PROVE  /\ Rest' <=> Rest
         /\ Settled' <=> Settled
         /\ Bare' <=> Bare
         /\ Found' = Found
         /\ Remembers' <=> Remembers
         /\ RolledBack' <=> RolledBack
         /\ before' = before => (PrevIsBefore' <=> PrevIsBefore)
         /\ RemembersOther' <=> RemembersOther
         /\ TwoPayloads' <=> TwoPayloads
         /\ PayloadThere' <=> PayloadThere
         /\ ControlsThere' <=> ControlsThere
         /\ NotYet' <=> NotYet
         /\ Done' <=> Done
         /\ StagedControls' <=> StagedControls
         /\ before' = before => (Unchanged' <=> Unchanged)
<1>0. (Bare' <=> Bare) /\ Found' = Found
  <2>1. Bare' <=> Bare
    BY DEF Bare, KnownBuilds
  <2> QED
    BY <2>1 DEF Found
<1>1. (Settled' <=> Settled) /\ (Rest' <=> Rest)
  <2>1. Settled' <=> Settled
    BY DEF Settled, Selects, PreviousCommitted, KnownBuilds
  <2> QED
    BY <1>0, <2>1 DEF Rest
<1>9. /\ Remembers' <=> Remembers
      /\ RolledBack' <=> RolledBack
      /\ before' = before => (PrevIsBefore' <=> PrevIsBefore)
  BY <1>0, <1>1 DEF Remembers, RolledBack, PrevIsBefore
<1>2. RemembersOther' <=> RemembersOther
  BY DEF RemembersOther
<1>3. PrevDir(journal)' = PrevDir(journal)
  BY DEF PrevDir
<1>4. TwoPayloads' <=> TwoPayloads
  BY <1>3 DEF TwoPayloads, KnownBuilds
<1>5. /\ PayloadThere' <=> PayloadThere
      /\ ControlsThere' <=> ControlsThere
      /\ StagedControls' <=> StagedControls
  BY DEF PayloadThere, ControlsThere, StagedControls
<1>6. NotYet' <=> NotYet
  BY <1>4, <1>5 DEF NotYet
<1>7. Done' <=> Done
  BY <1>3 DEF Done, CommittedPlan, KnownBuilds
<1>8. before' = before => (Unchanged' <=> Unchanged)
  BY <1>0, <1>1, <1>9 DEF Unchanged
<1> QED
  BY <1>0, <1>1, <1>2, <1>4, <1>5, <1>6, <1>7, <1>8, <1>9

\* A publication that has staged everything over the root it found.
LEMMA RestIsNotYet ==
  ASSUME TypeInv, journal \in Journals, Rest, Remembers,
         RemembersOther, stage = FullStage
  PROVE  NotYet
<1> USE PublicationConstants
<1>1. journal.gen \in Gens /\ journal.prev \in Controls
  BY DEF Journals
<1>2. builds \in [Dirs -> Presence]
  BY DEF TypeInv, PublicationTypeOK
<1>3. stage # None /\ StagedControls /\ stage.payload = "whole"
  BY FullStageType DEF FullStage, StagedControls
<1>4. TwoPayloads /\ builds[Dir[journal.gen]] # "partial"
  <2>1. CASE KnownBuilds({}) /\ (Bare \/ ctl = NoControls)
    <3>1. journal.prev = NoControls
      BY <2>1 DEF Remembers
    <3> QED
      BY <2>1, <3>1, <1>1, <1>2
      DEF TwoPayloads, KnownBuilds, PrevDir, NoControls
  <2>2. CASE ctl.current \in Gens /\ Selects(ctl.current)
    <3>1. ctl = journal.prev
      BY <2>2, SettledNotBare DEF Remembers, Settled
    <3>2. PrevDir(journal) = Dir[ctl.current]
      BY <2>2, <3>1 DEF PrevDir
    <3> QED
      BY <1>1, <1>2, <2>2, <3>2
      DEF TwoPayloads, Selects, PreviousCommitted, KnownBuilds
  <2> QED
    BY <2>1, <2>2 DEF Rest, Settled, Bare
<1> QED
  BY <1>3, <1>4 DEF NotYet

----------------------------------------------------------------------------
(* RootInv, the actions of each part of a publication in turn.             *)

\* What a step of a publication starts from while there is one fault.
OneFault == TypeInv /\ RootParts /\ ~Mixed

LEMMA StartKeepsRoot ==
  ASSUME OneFault, Begin \/ ReadJournal \/ Inspect \/ WriteJournal
  PROVE  RootParts'
<1> USE PublicationConstants DEF Goto, Memory, disk
<1>1. edits = 0 \/ kills = 0
  BY OneKind DEF OneFault
<1>2. /\ NoJournal /\ JournalTells /\ KillsAlone /\ EditsAlone /\ Rollback
      /\ PublicationTypeOK /\ Journaled
  BY DEF OneFault, RootParts, TypeInv
<1>3. CASE Begin
  <2>1. /\ pc = "idle" /\ pc' = "start" /\ plan' = inputs /\ before' = Found
        /\ outcome' = "running" /\ resumed' = FALSE
        /\ UNCHANGED <<inputs, builds, ctl, journal, stage, edits, kills>>
    BY <1>3 DEF Begin
  <2>2. NoJournal'
    BY <1>2, <2>1, RootKept DEF NoJournal
  <2>3. JournalTells'
    BY <1>2, <2>1, RootKept
    DEF JournalTells, Unfinished, Preparing, Installing, Ending, Discarding,
        JournalSteps
  <2>4. KillsAlone' /\ Rollback'
    BY <1>2, <2>1
    DEF KillsAlone, Rollback, Discarding, RollingBack, Restoring, Restored
  <2>5. EditsAlone'
    BY <1>2, <2>1, RootKept
    DEF EditsAlone, Unfinished, Preparing, Discarding
  <2> QED
    BY <2>2, <2>3, <2>4, <2>5 DEF RootParts
<1>4. CASE ReadJournal
  <2>1. /\ pc = "start"
        /\ UNCHANGED <<inputs, plan, before, edits, kills,
                       builds, ctl, journal, stage>>
    BY <1>4 DEF ReadJournal, Throw
  <2>2. CASE journal = None
    <3>1. stage = None /\ journal \notin Journals
      BY <1>2, <2>2 DEF NoJournal
    <3>2. pc' = "inspect" /\ outcome' = outcome /\ resumed' = FALSE
      BY <1>4, <2>2, <3>1 DEF ReadJournal
    <3> QED
      BY <1>2, <2>1, <2>2, <3>1, <3>2, RootKept
      DEF RootParts, NoJournal, JournalTells, KillsAlone, EditsAlone,
          Rollback, Unfinished, Preparing, Installing, Discarding,
          RollingBack, Restoring, Restored
  <2>3. CASE journal = Torn
    <3>1. kills # 0 /\ journal \notin Journals /\ journal # None
      BY <1>2, <2>1, <2>3 DEF EditsAlone
    <3>2. pc' = "idle" /\ outcome' = "error"
      BY <1>4, <2>3, <3>1 DEF ReadJournal, Throw
    <3> QED
      BY <1>2, <2>1, <2>3, <3>1, <3>2, RootKept
      DEF RootParts, NoJournal, JournalTells, KillsAlone, EditsAlone,
          Rollback, Unfinished, Preparing, Installing, Discarding,
          RollingBack, Restoring, Restored
  <2>4. CASE journal \in Journals
    <3>1. journal \notin {None, Torn}
      BY <2>4
    <3>2. /\ journal.state \in {"PREPARED", "STAGED_DURABLE"}
          /\ kills = 0 => /\ journal.state = "STAGED_DURABLE"
                          /\ stage = FullStage /\ Rest
                          /\ Remembers /\ before = Found
      BY <1>1, <1>2, <2>1, <2>4 DEF KillsAlone, EditsAlone, Unfinished
    <3>3. resumed' = resumed
          /\ IF journal.gen = plan
             THEN pc' = journal.state /\ outcome' = outcome
             ELSE pc' = "idle" /\ outcome' = "error"
      BY <1>4, <3>1, <3>2 DEF ReadJournal, Throw
    <3>4. kills = 0 => Unchanged
      BY <3>2 DEF Unchanged
    <3>5. NoJournal' /\ Rollback'
      BY <2>1, <2>4, <3>2, <3>3
      DEF NoJournal, Rollback, RollingBack, Restoring, Restored
    <3>6. JournalTells'
      BY <1>2, <2>1, <2>4, <3>2, <3>3, RootKept
      DEF JournalTells, Unfinished, Preparing, Installing, Ending,
          Discarding, JournalSteps
    <3>7. KillsAlone'
      BY <1>2, <2>1, <2>4, <3>1, <3>2, <3>3
      DEF KillsAlone, Discarding, RollingBack, Restoring, Restored
    <3>8. EditsAlone'
      BY <1>2, <2>1, <2>4, <3>1, <3>2, <3>3, <3>4, RootKept
      DEF EditsAlone, Unfinished, Preparing, Discarding
    <3> QED
      BY <3>5, <3>6, <3>7, <3>8 DEF RootParts
  <2> QED
    BY <1>2, <2>2, <2>3, <2>4 DEF PublicationTypeOK
<1>5. CASE Inspect
  <2>1. /\ pc = "inspect" /\ journal = None /\ journal \notin Journals
        /\ stage = None /\ Rest /\ (Bare => before = Found)
        /\ UNCHANGED <<inputs, plan, resumed, before, edits, kills,
                       builds, ctl, journal, stage>>
    BY <1>2, <1>5 DEF Inspect, Journaled, NoJournal, Throw
  <2>2. CASE ctl.current = plan /\ ~Bare
    <3>1. CommittedPlan(plan, None)
      BY <1>2, <2>1, <2>2
      DEF PublicationTypeOK, Rest, Settled, Selects, PreviousCommitted,
          CommittedPlan, KnownBuilds, NoControls
    <3>2. pc' = "idle" /\ outcome' = "unchanged"
      BY <1>5, <3>1 DEF Inspect
    <3> QED
      BY <1>2, <2>1, <3>2, RootKept
      DEF RootParts, NoJournal, JournalTells, KillsAlone, EditsAlone,
          Rollback, Unfinished, Preparing, Installing, Discarding,
          RollingBack, Restoring, Restored
  <2>3. CASE ctl.current # plan \/ Bare
    <3>1. /\ ~CommittedPlan(plan, None)
          /\ \/ CurrentAbsent \/ OtherCommitted
             \/ OtherWithoutPayload \/ SameSelected
      <4>1. CASE Bare
        <5>1. /\ plan \in Gens /\ Dir[plan] \in Dirs
              /\ builds[Dir[plan]] = "absent"
          BY <1>2, <4>1 DEF PublicationTypeOK, Bare, KnownBuilds
        <5>2. ~CommittedPlan(plan, None)
          BY <5>1 DEF CommittedPlan
        <5>3. OtherWithoutPayload \/ ctl.current = plan
          BY <4>1 DEF OtherWithoutPayload, Bare
        <5>4. ctl.current = plan => SameSelected
          BY <4>1, <5>1 DEF SameSelected, Bare, ControlsOf, KnownBuilds
        <5> QED
          BY <5>2, <5>3, <5>4
      <4>2. CASE ~Bare
        BY <1>2, <2>1, <2>3, <4>2
        DEF PublicationTypeOK, Rest, Settled, Selects, CommittedPlan,
            ControlsOf, CurrentAbsent, OtherCommitted
      <4> QED
        BY <4>1, <4>2
    <3>2. pc' = "writeJournal" /\ outcome' = outcome
      BY <1>5, <3>1 DEF Inspect
    <3> QED
      BY <1>2, <2>1, <2>3, <3>2, RootKept
      DEF RootParts, NoJournal, JournalTells, KillsAlone, EditsAlone,
          Rollback, Unfinished, Preparing, Installing, Discarding,
          RollingBack, Restoring, Restored
  <2> QED
    BY <2>2, <2>3
<1>6. CASE WriteJournal
  <2>1. /\ pc = "writeJournal" /\ journal \notin Journals
        /\ stage = None /\ Rest /\ (Bare => before = Found)
        /\ ctl.current # plan \/ Bare
        /\ UNCHANGED <<inputs, plan, resumed, before, edits, kills,
                       builds, ctl, stage, outcome>>
    BY <1>2, <1>6 DEF WriteJournal, Journaled, NoJournal
  <2>2. Rest' /\ (Settled' <=> Settled) /\ (Bare' <=> Bare) /\ Found' = Found
    <3>1. Settled' <=> Settled
      BY <2>1 DEF Settled, Selects, PreviousCommitted, KnownBuilds
    <3>2. Bare' <=> Bare
      BY <2>1 DEF Bare, KnownBuilds
    <3> QED
      BY <2>1, <3>1, <3>2 DEF Rest, Found
  <2>3. CASE journal' = Torn /\ pc' = pc
    BY <1>2, <2>1, <2>2, <2>3
    DEF RootParts, NoJournal, JournalTells, KillsAlone, EditsAlone,
        Rollback, Unfinished, Preparing, Installing, Discarding,
        RollingBack, Restoring, Restored
  <2>4. CASE /\ journal' = [gen |-> plan, state |-> "PREPARED",
                            prev |-> IF OtherCommitted THEN ctl ELSE NoControls]
             /\ pc' = "PREPARED"
    <3>1. (IF OtherCommitted THEN ctl ELSE NoControls)
            = IF Bare THEN NoControls ELSE ctl
      <4>1. CASE Bare
        <5>1. ~Settled /\ ctl.current \in Gens
          BY <1>2, <4>1, SettledNotBare
          DEF Bare, PublicationTypeOK, Controls, TypeInv
        <5>2. ~OtherCommitted
          BY <5>1 DEF OtherCommitted, Settled, Selects
        <5> QED
          BY <4>1, <5>2
      <4>2. CASE ~Bare
        BY <1>2, <2>1, <4>2
        DEF PublicationTypeOK, Rest, Settled, Selects, OtherCommitted
      <4> QED
        BY <4>1, <4>2
    <3>2. /\ journal'.gen = plan /\ journal'.state = "PREPARED"
          /\ journal'.prev = IF Bare THEN NoControls ELSE ctl
          /\ Remembers'
      <4>1. /\ journal'.gen = plan /\ journal'.state = "PREPARED"
            /\ journal'.prev = IF Bare THEN NoControls ELSE ctl
        BY <2>4, <3>1
      <4> QED
        BY <2>1, <2>2, <4>1 DEF Remembers
    <3>3. RemembersOther'
      BY <2>1, <3>2
      DEF RemembersOther, Rest, Settled, Selects, PreviousCommitted
    <3>4. journal' \in Journals /\ journal' \notin {None, Torn}
      <4>1. plan \in Gens /\ ctl \in Controls
        BY <1>2 DEF PublicationTypeOK
      <4> QED
        BY <2>4, <3>1, <4>1, NoControlsType DEF Journals, JournalStates
    <3>5. kills = 0 => Unchanged'
      BY <1>2, <2>1, <2>2, <3>2 DEF EditsAlone, Unchanged
    <3> QED
      BY <1>2, <2>1, <2>2, <2>4, <3>2, <3>3, <3>4, <3>5
      DEF RootParts, NoJournal, JournalTells, KillsAlone, EditsAlone,
          Rollback, Unfinished, Preparing, Installing, Discarding,
          RollingBack, Restoring, Restored, Ending
  <2> QED
    BY <1>6, <2>3, <2>4 DEF WriteJournal
<1> QED
  BY <1>3, <1>4, <1>5, <1>6

LEMMA StagingKeepsRoot ==
  ASSUME OneFault, CreateStage \/ PersistStaged \/ Staged \/ Recheck
  PROVE  RootParts'
<1> USE PublicationConstants DEF Goto, Memory, disk
<1>1. edits = 0 \/ kills = 0
  BY OneKind DEF OneFault
<1>2. /\ NoJournal /\ JournalTells /\ KillsAlone /\ EditsAlone /\ Rollback
      /\ PublicationTypeOK /\ Journaled /\ TypeInv
  BY DEF OneFault, RootParts, TypeInv
<1>3. journal \in Journals /\ pc \in JournalSteps
  BY <1>2
  DEF CreateStage, PersistStaged, Staged, Recheck, Journaled, JournalSteps,
      Labels
<1>4. /\ RemembersOther /\ journal.gen = plan
      /\ journal.gen \in Gens /\ journal.prev \in Controls
      /\ journal \notin {None, Torn}
  BY <1>2, <1>3 DEF JournalTells, Journals
<1>5. CASE CreateStage
  <2>1. /\ pc = "PREPARED" /\ journal.state = "PREPARED"
        /\ Rest /\ Remembers
    BY <1>2, <1>3, <1>5 DEF CreateStage, JournalTells, Preparing
  <2>2. /\ stage' = FullStage /\ pc' = "persistStaged"
        /\ UNCHANGED <<inputs, plan, resumed, before, edits, kills,
                       builds, ctl, journal, outcome>>
    BY <1>5, <2>1 DEF CreateStage, Remembers
  <2>3. Rest' /\ Remembers' /\ RemembersOther'
    BY <1>4, <2>1, <2>2, SameRoot DEF RemembersOther
  <2>4. kills = 0 => Unchanged'
    BY <1>2, <2>1, <2>2, SameRoot DEF EditsAlone, Preparing
  <2> QED
    BY <1>2, <1>3, <1>4, <2>1, <2>2, <2>3, <2>4
    DEF RootParts, NoJournal, JournalTells, KillsAlone, EditsAlone,
        Rollback, Unfinished, Preparing, Installing, Discarding,
        RollingBack, Restoring, Restored, Ending
<1>6. CASE PersistStaged
  <2>1. /\ pc = "persistStaged" /\ journal.state = "PREPARED"
        /\ Rest /\ Remembers /\ stage = FullStage
    BY <1>2, <1>3, <1>6 DEF PersistStaged, JournalTells, Preparing
  <2>2. /\ journal' = [journal EXCEPT !.state = "STAGED_DURABLE"]
        /\ pc' = "STAGED_DURABLE"
        /\ UNCHANGED <<inputs, plan, resumed, before, edits, kills,
                       builds, ctl, stage, outcome>>
    BY <1>6 DEF PersistStaged
  <2>3. /\ journal' \in Journals /\ journal' \notin {None, Torn}
        /\ journal'.state = "STAGED_DURABLE"
        /\ journal'.gen = journal.gen /\ journal'.prev = journal.prev
    BY <1>3, <2>2, JournalUpdate DEF Journals, JournalStates
  <2>4. NotYet
    BY <1>2, <1>3, <1>4, <2>1, RestIsNotYet
  <2>5. kills = 0 => Unchanged
    BY <1>2, <2>1 DEF EditsAlone, Preparing
  <2> QED
    BY <1>2, <1>3, <1>4, <2>1, <2>2, <2>3, <2>4, <2>5, RootKept
    DEF RootParts, NoJournal, JournalTells, KillsAlone, EditsAlone,
        Rollback, Unfinished, Preparing, Installing, Discarding,
        RollingBack, Restoring, Restored, Ending
<1>7. CASE Staged
  <2>1. /\ pc = "STAGED_DURABLE" /\ journal.state = "STAGED_DURABLE"
        /\ NotYet \/ Done
        /\ UNCHANGED <<inputs, plan, resumed, before, edits, kills,
                       builds, ctl, journal, stage>>
    BY <1>2, <1>3, <1>7 DEF Staged, Throw, JournalTells, Installing
  <2>2. Done <=> CommittedPlan(plan, PrevDir(journal))
    BY <1>4 DEF Done
  <2>3. CASE Done
    <3>1. pc' = "POINTER_COMMITTED" /\ outcome' = outcome
      BY <1>7, <2>2, <2>3 DEF Staged
    <3>2. kills # 0
      <4>1. ctl.current = journal.gen /\ builds[Dir[journal.gen]] = "whole"
        BY <2>3 DEF Done, CommittedPlan, ControlsOf
      <4>2. journal.prev.current # journal.gen
        BY <1>4 DEF RemembersOther, NoControls
      <4>3. ~Bare
        BY <1>4, <4>1, PayloadsType DEF Bare, KnownBuilds
      <4>4. ~Unchanged
        BY <4>1, <4>2, <4>3 DEF Unchanged, Remembers
      <4> QED
        BY <1>2, <2>1, <4>4 DEF EditsAlone
    <3> QED
      BY <1>2, <1>3, <1>4, <2>1, <2>3, <3>1, <3>2, RootKept
      DEF RootParts, NoJournal, JournalTells, KillsAlone, EditsAlone,
          Rollback, Unfinished, Preparing, Installing, Discarding,
          RollingBack, Restoring, Restored, Ending
  <2>4. CASE ~Done
    <3>1. \/ StagedPayload = "whole"
          \/ StagedPayload = "absent" /\ builds[Dir[plan]] = "whole"
      BY <1>4, <2>1, <2>4 DEF NotYet, StagedPayload, PayloadThere
    <3>2. pc' = "recheck" /\ outcome' = outcome
      BY <1>7, <2>2, <2>4, <3>1 DEF Staged
    <3> QED
      BY <1>2, <1>3, <1>4, <2>1, <2>4, <3>2, RootKept
      DEF RootParts, NoJournal, JournalTells, KillsAlone, EditsAlone,
          Rollback, Unfinished, Preparing, Installing, Discarding,
          RollingBack, Restoring, Restored, Ending
  <2> QED
    BY <2>3, <2>4
<1>8. CASE Recheck
  <2>1. /\ pc = "recheck" /\ journal.state = "STAGED_DURABLE" /\ NotYet
        /\ UNCHANGED <<inputs, plan, resumed, before, edits, kills,
                       builds, ctl, journal, stage, outcome>>
    BY <1>2, <1>3, <1>8 DEF Recheck, JournalTells, Installing
  <2>2. \/ pc' = "install"
        \/ pc' = "discard" /\ edits # 0
    BY <1>2, <1>8 DEF Recheck, KillsAlone
  <2>3. kills = 0 => Unchanged /\ stage = FullStage
    BY <1>2, <2>1 DEF EditsAlone
  <2> QED
    BY <1>2, <1>3, <1>4, <2>1, <2>2, <2>3, RootKept
    DEF RootParts, NoJournal, JournalTells, KillsAlone, EditsAlone,
        Rollback, Unfinished, Preparing, Installing, Discarding,
        RollingBack, Restoring, Restored, Ending
<1> QED
  BY <1>5, <1>6, <1>7, <1>8

LEMMA DiscardKeepsRoot ==
  ASSUME OneFault, Discard \/ DiscardPayload \/ DiscardStage \/ DiscardJournal
  PROVE  RootParts'
<1> USE PublicationConstants DEF Goto, Memory, disk
<1>1. /\ NoJournal /\ JournalTells /\ KillsAlone /\ EditsAlone /\ Rollback
      /\ PublicationTypeOK /\ Journaled /\ TypeInv
  BY DEF OneFault, RootParts, TypeInv
<1>2. pc \in Discarding /\ journal \in Journals
  BY <1>1
  DEF Discard, DiscardPayload, DiscardStage, DiscardJournal, Discarding,
      Journaled, JournalSteps, Labels
<1>3. kills = 0 /\ edits # 0 /\ Unchanged
  BY <1>1, <1>2, OneKind DEF OneFault, KillsAlone, EditsAlone
<1>4. /\ RemembersOther /\ journal.gen = plan
      /\ journal.gen \in Gens /\ journal.prev \in Controls
      /\ journal \notin {None, Torn} /\ journal.state = "STAGED_DURABLE"
  BY <1>1, <1>2 DEF JournalTells, Journals, JournalSteps, Discarding, Labels
<1>5. CASE Discard
  <2>1. /\ pc = "discard" /\ stage = FullStage
        /\ UNCHANGED <<inputs, plan, resumed, before, edits, kills,
                       builds, ctl, journal, stage>>
    BY <1>1, <1>3, <1>5 DEF Discard, Throw, EditsAlone
  <2>2. Rest /\ Remembers
    BY <1>3 DEF Unchanged
  <2>3. NotYet
    BY <1>1, <1>2, <1>4, <2>1, <2>2, RestIsNotYet
  <2>4. CASE pc' = "idle"
    BY <1>1, <1>2, <1>3, <1>4, <2>1, <2>2, <2>3, <2>4, RootKept
    DEF RootParts, NoJournal, JournalTells, KillsAlone, EditsAlone,
        Rollback, Unfinished, Preparing, Installing, Discarding,
        RollingBack, Restoring, Restored, Ending, JournalSteps
  <2>5. CASE pc' # "idle"
    <3>1. /\ ~(ctl.current # None /\ Dir[ctl.current] = Dir[plan])
          /\ outcome' = outcome
          /\ pc' = IF builds[Dir[plan]] = "whole" THEN "discardPayload"
                                                  ELSE "discardStage"
      BY <1>5, <2>5 DEF Discard, Throw
    <3>2. builds[Dir[plan]] # "whole"
      BY <1>1, <2>2, <3>1
      DEF PublicationTypeOK, Rest, Settled, Bare, Selects, PreviousCommitted,
          KnownBuilds
    <3>3. stage # None
      BY <2>1, FullStageType
    <3> QED
      BY <1>1, <1>2, <1>3, <1>4, <2>1, <3>1, <3>2, <3>3, RootKept
      DEF RootParts, NoJournal, JournalTells, KillsAlone, EditsAlone,
          Rollback, Unfinished, Preparing, Installing, Discarding,
          RollingBack, Restoring, Restored, Ending
  <2> QED
    BY <2>4, <2>5
<1>6. CASE DiscardPayload
  BY <1>1, <1>3, <1>6 DEF DiscardPayload, EditsAlone
<1>7. CASE DiscardStage
  <2>1. /\ pc = "discardStage" /\ stage # None
        /\ UNCHANGED <<inputs, plan, resumed, before, edits, kills,
                       builds, ctl, journal, outcome>>
        /\ \/ pc' = "discardJournal" /\ stage' = None
           \/ pc' = "discardStage" /\ stage' \in Stages
    BY <1>1, <1>3, <1>7 DEF DiscardStage, RemoveStage, EditsAlone
  <2>2. RemembersOther' /\ Unchanged'
    BY <1>3, <1>4, <2>1, SameRoot DEF RemembersOther
  <2> QED
    BY <1>1, <1>2, <1>3, <1>4, <2>1, <2>2
    DEF RootParts, NoJournal, JournalTells, KillsAlone, EditsAlone,
        Rollback, Unfinished, Preparing, Installing, Discarding,
        RollingBack, Restoring, Restored, Ending
<1>8. CASE DiscardJournal
  <2>1. /\ pc = "discardJournal" /\ stage = None
        /\ journal' = None /\ pc' = "idle"
        /\ UNCHANGED <<inputs, plan, resumed, before, edits, kills,
                       builds, ctl, stage>>
    BY <1>1, <1>3, <1>8 DEF DiscardJournal, EditsAlone
  <2>2. Rest' /\ before = Found /\ Found' = Found /\ ctl = before.ctl
    <3>1. Settled' <=> Settled
      BY <2>1 DEF Settled, Selects, PreviousCommitted, KnownBuilds
    <3>2. Bare' <=> Bare
      BY <2>1 DEF Bare, KnownBuilds
    <3> QED
      BY <1>3, <2>1, <3>1, <3>2, FoundFields DEF Unchanged, Rest, Found
  <2>3. journal' \notin Journals /\ journal' # Torn
    BY <2>1
  <2> QED
    BY <1>1, <1>3, <2>1, <2>2, <2>3
    DEF RootParts, NoJournal, JournalTells, KillsAlone, EditsAlone,
        Rollback, Unfinished, Preparing, Installing, Discarding,
        RollingBack, Restoring, Restored, Ending
<1> QED
  BY <1>5, <1>6, <1>7, <1>8

LEMMA InstallKeepsRoot ==
  ASSUME OneFault,
         \/ InstallPayload \/ (\E f \in Mutable : InstallControl(f))
         \/ ControlsInstalled \/ InstallPointer
  PROVE  RootParts'
<1> USE PublicationConstants DEF Goto, Memory, disk
<1>1. /\ NoJournal /\ JournalTells /\ KillsAlone /\ EditsAlone /\ Rollback
      /\ PublicationTypeOK /\ Journaled /\ TypeInv
  BY DEF OneFault, RootParts, TypeInv
<1>2. /\ journal \in Journals
      /\ pc \in {"install", "PAYLOAD_INSTALLED", "RECEIPT_INSTALLED"}
  BY <1>1
  DEF InstallPayload, InstallControl, ControlsInstalled, InstallPointer,
      Journaled, JournalSteps, Labels
<1>3. /\ RemembersOther /\ journal.gen = plan
      /\ journal.gen \in Gens /\ journal.prev \in Controls
      /\ journal \notin {None, Torn} /\ journal.state = "STAGED_DURABLE"
      /\ NotYet
      /\ kills = 0 => StagedControls /\ PrevIsBefore
  BY <1>1, <1>2, UnchangedPrev
  DEF JournalTells, Journals, JournalSteps, Installing, Labels, EditsAlone,
      NotYet
<1>4. /\ builds \in [Dirs -> Presence] /\ ctl \in Controls
      /\ stage \in Stages /\ stage # None /\ StagedControls /\ TwoPayloads
      /\ builds[Dir[plan]] # "partial"
  BY <1>1, <1>3 DEF PublicationTypeOK, NotYet
<1>5. CASE InstallPayload
  <2>1. /\ pc = "install" /\ pc' = "PAYLOAD_INSTALLED"
        /\ UNCHANGED <<inputs, plan, resumed, before, edits, kills,
                       ctl, journal, outcome>>
    BY <1>4, <1>5 DEF InstallPayload
  <2>2. \/ UNCHANGED <<builds, stage>> /\ builds[Dir[plan]] = "whole"
        \/ /\ StagedPayload = "whole" /\ builds[Dir[plan]] = "absent"
           /\ builds' = [builds EXCEPT ![Dir[plan]] = "whole"]
           /\ stage' = [stage EXCEPT !.payload = "absent"]
    BY <1>4, <1>5 DEF InstallPayload
  <2>3. PrevDir(journal)' = PrevDir(journal)
    BY <2>1 DEF PrevDir
  <2>4. TwoPayloads' /\ PayloadThere'
    BY <1>2, <1>3, <1>4, <2>1, <2>2, <2>3, PayloadsType
    DEF TwoPayloads, PayloadThere, KnownBuilds
  <2>5. stage' # None /\ StagedControls'
        /\ (stage'.payload \in {"whole", "absent"})
    BY <1>3, <1>4, <2>2 DEF Stages, StagedControls, NotYet, Presence
  <2>6. NotYet' /\ RemembersOther' /\ (PrevIsBefore => PrevIsBefore')
    BY <1>3, <2>1, <2>4, <2>5
    DEF NotYet, PayloadThere, RemembersOther, PrevIsBefore
  <2> QED
    BY <1>1, <1>2, <1>3, <2>1, <2>4, <2>5, <2>6
    DEF RootParts, NoJournal, JournalTells, KillsAlone, EditsAlone,
        Rollback, Unfinished, Preparing, Installing, Discarding,
        RollingBack, Restoring, Restored, Ending
<1>6. ASSUME NEW f \in Mutable, InstallControl(f)
      PROVE  RootParts'
  <2>1. /\ pc = "PAYLOAD_INSTALLED" /\ PayloadThere
        /\ ctl' = [ctl EXCEPT ![f] = ControlsOf(plan)[f]]
        /\ UNCHANGED <<inputs, plan, resumed, before, edits, kills,
                       builds, journal, stage, pc, outcome>>
    BY <1>1, <1>2, <1>4, <1>6 DEF InstallControl, JournalTells
  <2>2. PrevIsBefore => PrevIsBefore'
    BY <2>1 DEF PrevIsBefore
  <2>3. TwoPayloads' /\ PayloadThere' /\ RemembersOther' /\ StagedControls'
    BY <1>3, <1>4, <2>1
    DEF TwoPayloads, PayloadThere, KnownBuilds, PrevDir, RemembersOther,
        StagedControls
  <2>4. NotYet'
    BY <1>3, <2>1, <2>3 DEF NotYet, PayloadThere
  <2> QED
    BY <1>1, <1>2, <1>3, <2>1, <2>2, <2>3, <2>4
    DEF RootParts, NoJournal, JournalTells, KillsAlone, EditsAlone,
        Rollback, Unfinished, Preparing, Installing, Discarding,
        RollingBack, Restoring, Restored, Ending
<1>7. CASE ControlsInstalled
  <2>1. /\ pc = "PAYLOAD_INSTALLED" /\ PayloadThere
        /\ pc' = "RECEIPT_INSTALLED"
        /\ UNCHANGED <<inputs, plan, resumed, before, edits, kills,
                       builds, ctl, journal, stage, outcome>>
    BY <1>1, <1>2, <1>7 DEF ControlsInstalled, JournalTells
  <2>2. ControlsThere
    BY <1>3, <1>7 DEF ControlsInstalled, ControlsThere, Mutable
  <2> QED
    BY <1>1, <1>2, <1>3, <1>4, <2>1, <2>2, RootKept
    DEF RootParts, NoJournal, JournalTells, KillsAlone, EditsAlone,
        Rollback, Unfinished, Preparing, Installing, Discarding,
        RollingBack, Restoring, Restored, Ending
<1>8. CASE InstallPointer
  <2>1. /\ pc = "RECEIPT_INSTALLED" /\ PayloadThere /\ ControlsThere
        /\ ctl' = [ctl EXCEPT !.current = plan]
        /\ pc' = "POINTER_COMMITTED"
        /\ UNCHANGED <<inputs, plan, resumed, before, edits, kills,
                       builds, journal, stage, outcome>>
    BY <1>1, <1>2, <1>4, <1>8 DEF InstallPointer, JournalTells
  <2>2. ctl' = ControlsOf(plan)
    BY <1>3, <1>4, <2>1 DEF ControlsThere, Mutable, Controls, ControlsOf
  <2>3. /\ TwoPayloads' /\ RemembersOther' /\ StagedControls'
        /\ PrevIsBefore => PrevIsBefore'
    BY <1>3, <1>4, <2>1
    DEF TwoPayloads, KnownBuilds, PrevDir, RemembersOther, StagedControls,
        PrevIsBefore
  <2>4. Done'
    BY <1>3, <1>4, <2>1, <2>2
    DEF Done, CommittedPlan, PayloadThere, TwoPayloads, KnownBuilds, PrevDir,
        ControlsOf
  <2> QED
    BY <1>1, <1>2, <1>3, <2>1, <2>3, <2>4
    DEF RootParts, NoJournal, JournalTells, KillsAlone, EditsAlone,
        Rollback, Unfinished, Preparing, Installing, Discarding,
        RollingBack, Restoring, Restored, Ending
<1> QED
  BY <1>5, <1>6, <1>7, <1>8

LEMMA EndKeepsRoot ==
  ASSUME OneFault, SuccessInv,
         \/ Committed \/ RemovePrevious \/ RemovePreviousFiles
         \/ FinishStage \/ FinishJournal
  PROVE  RootParts'
<1> USE PublicationConstants DEF Goto, Memory, disk
<1>1. /\ NoJournal /\ JournalTells /\ KillsAlone /\ EditsAlone /\ Rollback
      /\ PublicationTypeOK /\ Journaled /\ TypeInv /\ EndsKnown
  BY DEF OneFault, RootParts, TypeInv, SuccessInv
<1>2. journal \in Journals /\ pc \in {"POINTER_COMMITTED"} \cup Ending
  BY <1>1
  DEF Committed, RemovePrevious, RemovePreviousFiles, FinishStage,
      FinishJournal, Journaled, JournalSteps, Labels, Ending
<1>3. /\ RemembersOther /\ journal.gen = plan
      /\ journal.gen \in Gens /\ journal.prev \in Controls
      /\ journal \notin {None, Torn} /\ journal.state = "STAGED_DURABLE"
      /\ Done
  BY <1>1, <1>2
  DEF JournalTells, Journals, JournalSteps, Installing, Labels, Ending
<1>4. Done <=> CommittedPlan(plan, PrevDir(journal))
  BY <1>3 DEF Done
<1>5. CASE Committed
  <2>1. /\ pc = "POINTER_COMMITTED"
        /\ UNCHANGED <<inputs, plan, resumed, before, edits, kills,
                       builds, ctl, stage, outcome>>
        /\ \/ pc' = "VALIDATED" /\ UNCHANGED journal
           \/ /\ pc' = "ROLLBACK_REQUIRED" /\ inputs # plan
              /\ journal' = [journal EXCEPT !.state = "ROLLBACK_REQUIRED"]
    BY <1>3, <1>4, <1>5 DEF Committed
  <2>2. CASE pc' = "VALIDATED" /\ UNCHANGED journal
    BY <1>1, <1>2, <1>3, <2>1, <2>2, RootKept
    DEF RootParts, NoJournal, JournalTells, KillsAlone, EditsAlone,
        Rollback, Unfinished, Preparing, Installing, Discarding,
        RollingBack, Restoring, Restored, Ending
  <2>3. CASE /\ pc' = "ROLLBACK_REQUIRED" /\ inputs # plan
             /\ journal' = [journal EXCEPT !.state = "ROLLBACK_REQUIRED"]
    <3>1. /\ journal' \in Journals /\ journal' \notin {None, Torn}
          /\ journal'.state = "ROLLBACK_REQUIRED"
          /\ journal'.gen = journal.gen /\ journal'.prev = journal.prev
      BY <1>2, <2>3, JournalUpdate DEF Journals, JournalStates
    <3>2. edits # 0 /\ kills = 0
      BY <1>1, <2>3, OneKind DEF KillsAlone, OneFault
    <3>3. TwoPayloads /\ StagedControls /\ PrevIsBefore
      BY <1>1, <2>1, <3>2 DEF EditsAlone
    <3>4. PayloadThere /\ ctl = ControlsOf(journal.gen)
      BY <1>3 DEF Done, CommittedPlan, PayloadThere
    <3>5. ctl' = ControlsOf(journal'.gen)
      BY <2>1, <3>1, <3>4 DEF ControlsOf
    <3> QED
      BY <1>1, <1>2, <1>3, <2>1, <2>3, <3>1, <3>2, <3>3, <3>4, <3>5, RootKept
      DEF RootParts, NoJournal, JournalTells, KillsAlone, EditsAlone,
          Rollback, Unfinished, Preparing, Installing, Discarding,
          RollingBack, Restoring, Restored, Ending
  <2> QED
    BY <2>1, <2>2, <2>3
<1>6. CASE RemovePrevious
  <2>1. /\ pc = "VALIDATED"
        /\ UNCHANGED <<inputs, plan, resumed, before, edits, kills,
                       builds, ctl, journal, stage>>
        /\ \/ pc' \in {"removing", "finishStage"} /\ outcome' = outcome
           \/ /\ pc' = "idle" /\ outcome' = "error"
              /\ PreviousPayload = "partial"
    BY <1>6 DEF RemovePrevious, Throw
  <2>2. PreviousPayload = "partial" => kills # 0
    BY <1>1, <2>1 DEF EditsAlone, PreviousPayload, TwoPayloads
  <2> QED
    BY <1>1, <1>2, <1>3, <2>1, <2>2, RootKept
    DEF RootParts, NoJournal, JournalTells, KillsAlone, EditsAlone,
        Rollback, Unfinished, Preparing, Installing, Discarding,
        RollingBack, Restoring, Restored, Ending
<1>7. CASE RemovePreviousFiles
  <2>1. /\ pc = "removing" /\ pc' \in {"removing", "finishStage"}
        /\ \E p \in {"absent", "partial"} :
             builds' = [builds EXCEPT ![PrevDir(journal)] = p]
        /\ UNCHANGED <<inputs, plan, resumed, before, edits, kills,
                       ctl, journal, stage, outcome>>
    BY <1>7 DEF RemovePreviousFiles, RemoveBuild
  <2>2. PrevDir(journal) \notin {None, Dir[plan]}
    BY <1>1, <2>1 DEF EndsKnown
  <2>3. PrevDir(journal)' = PrevDir(journal) /\ RemembersOther'
    BY <1>3, <2>1 DEF PrevDir, RemembersOther
  <2>4. Done'
    BY <1>1, <1>3, <2>1, <2>2, <2>3
    DEF PublicationTypeOK, Done, CommittedPlan, KnownBuilds, ControlsOf
  <2> QED
    BY <1>1, <1>2, <1>3, <2>1, <2>3, <2>4
    DEF RootParts, NoJournal, JournalTells, KillsAlone, EditsAlone,
        Rollback, Unfinished, Preparing, Installing, Discarding,
        RollingBack, Restoring, Restored, Ending
<1>8. CASE FinishStage
  <2>1. /\ pc = "finishStage" /\ pc' \in {"finishStage", "finishJournal"}
        /\ UNCHANGED <<inputs, plan, resumed, before, edits, kills,
                       builds, ctl, journal, outcome>>
    BY <1>8 DEF FinishStage, RemoveStage
  <2>2. Done' /\ RemembersOther'
    BY <1>3, <2>1
    DEF Done, CommittedPlan, KnownBuilds, ControlsOf, PrevDir, RemembersOther
  <2> QED
    BY <1>1, <1>2, <1>3, <2>1, <2>2
    DEF RootParts, NoJournal, JournalTells, KillsAlone, EditsAlone,
        Rollback, Unfinished, Preparing, Installing, Discarding,
        RollingBack, Restoring, Restored, Ending
<1>9. CASE FinishJournal
  <2>1. /\ pc = "finishJournal" /\ pc' = "idle" /\ outcome' = "changed"
        /\ journal' = None
        /\ UNCHANGED <<inputs, plan, resumed, before, edits, kills,
                       builds, ctl, stage>>
    BY <1>9 DEF FinishJournal
  <2>2. PlanSelected /\ KnownBuilds({Dir[plan]}) /\ stage = None
    BY <1>1, <2>1 DEF EndsKnown, Ending
  <2>3. ctl.current = plan /\ Selects(plan)
    BY <2>2 DEF PlanSelected, Selects, PreviousCommitted, ControlsOf
  <2>4. Settled /\ ~Bare
    BY <1>1, <1>3, <2>3, SettledNotBare DEF Settled
  <2>5. Rest' /\ ~Bare' /\ stage' = None /\ journal' \notin Journals
    <3>1. Settled' <=> Settled
      BY <2>1 DEF Settled, Selects, PreviousCommitted, KnownBuilds
    <3>2. Bare' <=> Bare
      BY <2>1 DEF Bare, KnownBuilds
    <3> QED
      BY <2>1, <2>2, <2>4, <3>1, <3>2 DEF Rest
  <2> QED
    BY <1>1, <1>2, <1>3, <2>1, <2>5
    DEF RootParts, NoJournal, JournalTells, KillsAlone, EditsAlone,
        Rollback, Unfinished, Preparing, Installing, Discarding,
        RollingBack, Restoring, Restored, Ending
<1> QED
  BY <1>5, <1>6, <1>7, <1>8, <1>9

LEMMA RollbackKeepsRoot ==
  ASSUME OneFault,
         \/ RollbackPointer \/ PersistPointerRemoved \/ RollbackRestore
         \/ RollbackPayload \/ RollbackFiles \/ RollbackVerify
         \/ RollbackStage \/ RollbackJournal
  PROVE  RootParts'
<1> USE PublicationConstants DEF Goto, Memory, disk
<1>1. /\ NoJournal /\ JournalTells /\ KillsAlone /\ EditsAlone /\ Rollback
      /\ PublicationTypeOK /\ Journaled /\ TypeInv
  BY DEF OneFault, RootParts, TypeInv
<1>2. journal \in Journals /\ pc \in RollingBack
  BY <1>1
  DEF RollbackPointer, PersistPointerRemoved, RollbackRestore,
      RollbackPayload, RollbackFiles, RollbackVerify, RollbackStage,
      RollbackJournal, RollingBack, Restoring, Restored, Journaled,
      JournalSteps, Labels
<1>3. kills = 0 /\ edits # 0 /\ ~resumed
  BY <1>1, <1>2, OneKind DEF OneFault, KillsAlone, EditsAlone
<1>4. /\ RemembersOther /\ journal.gen = plan
      /\ journal.gen \in Gens /\ journal.prev \in Controls
      /\ journal \notin {None, Torn} /\ PrevIsBefore
      /\ journal.state # "PREPARED"
      /\ pc \notin Restored => TwoPayloads
      /\ pc \in Restoring => StagedControls /\ PayloadThere
      /\ pc \in Restored => RolledBack
  BY <1>1, <1>2
  DEF JournalTells, Journals, JournalSteps, Labels, Rollback, RollingBack,
      Restoring, Restored, Unfinished, Preparing
<1>5. /\ builds \in [Dirs -> Presence] /\ ctl \in Controls
  BY <1>1 DEF PublicationTypeOK
<1>6. CASE RollbackPointer
  <2>1. /\ pc = "ROLLBACK_REQUIRED" /\ StagedControls /\ PayloadThere
        /\ ctl = ControlsOf(journal.gen) /\ TwoPayloads
    BY <1>1, <1>4, <1>6
    DEF RollbackPointer, Rollback, RollingBack, Restoring, Restored
  <2>2. /\ ctl' = [ctl EXCEPT !.current = None] /\ pc' = "pointerRemoved"
        /\ UNCHANGED <<inputs, plan, resumed, before, edits, kills,
                       builds, journal, stage, outcome>>
    BY <1>6, <2>1 DEF RollbackPointer
  <2>3. ctl'.current = None
    BY <1>5, <2>2 DEF Controls
  <2>4. /\ RemembersOther' /\ TwoPayloads' /\ StagedControls'
        /\ PayloadThere' /\ PrevIsBefore'
    BY <1>4, <2>1, <2>2
    DEF RemembersOther, TwoPayloads, KnownBuilds, PrevDir, StagedControls,
        PayloadThere, PrevIsBefore
  <2> QED
    BY <1>1, <1>2, <1>3, <1>4, <2>1, <2>2, <2>3, <2>4
    DEF RootParts, NoJournal, JournalTells, KillsAlone, EditsAlone,
        Rollback, Unfinished, Preparing, Installing, Discarding,
        RollingBack, Restoring, Restored, Ending
<1>7. CASE PersistPointerRemoved
  <2>1. /\ pc = "pointerRemoved" /\ pc' = "ROLLBACK_POINTER_REMOVED"
        /\ journal' = [journal EXCEPT !.state = "ROLLBACK_POINTER_REMOVED"]
        /\ UNCHANGED <<inputs, plan, resumed, before, edits, kills,
                       builds, ctl, stage, outcome>>
    BY <1>7 DEF PersistPointerRemoved
  <2>2. /\ journal' \in Journals /\ journal' \notin {None, Torn}
        /\ journal'.state = "ROLLBACK_POINTER_REMOVED"
        /\ journal'.gen = journal.gen /\ journal'.prev = journal.prev
    BY <1>2, <2>1, JournalUpdate DEF Journals, JournalStates
  <2> QED
    BY <1>1, <1>2, <1>3, <1>4, <2>1, <2>2, RootKept
    DEF RootParts, NoJournal, JournalTells, KillsAlone, EditsAlone,
        Rollback, Unfinished, Preparing, Installing, Discarding,
        RollingBack, Restoring, Restored, Ending
<1>8. CASE RollbackRestore
  <2>1. /\ pc = "ROLLBACK_POINTER_REMOVED" /\ StagedControls /\ TwoPayloads
        /\ PayloadThere
        /\ ctl.current \in {None, journal.prev.current}
        /\ UNCHANGED <<inputs, plan, resumed, before, edits, kills,
                       builds, stage, outcome>>
    BY <1>1, <1>4, <1>8
    DEF RollbackRestore, Throw, Rollback, RollingBack, Restoring, Restored
  <2>2. CASE /\ UNCHANGED <<journal, pc>>
             /\ \E k \in 1..4 :
                  ctl' = [ctl EXCEPT ![RestoreOrder[k]] =
                                       journal.prev[RestoreOrder[k]]]
    <3>1. \E f \in Mutable \cup {"current"} :
            ctl' = [ctl EXCEPT ![f] = journal.prev[f]]
      <4>1. PICK k \in 1..4 :
              ctl' = [ctl EXCEPT ![RestoreOrder[k]] =
                                   journal.prev[RestoreOrder[k]]]
        BY <2>2
      <4>2. RestoreOrder[k] \in Mutable \cup {"current"}
        BY DEF RestoreOrder, Mutable
      <4> QED
        BY <4>1, <4>2
    <3>2. ctl'.current \in {None, journal.prev.current}
      BY <1>5, <2>1, <3>1 DEF Mutable, Controls
    <3>3. /\ RemembersOther' /\ TwoPayloads' /\ StagedControls'
        /\ PayloadThere' /\ PrevIsBefore'
      BY <1>4, <2>1, <2>2
      DEF RemembersOther, TwoPayloads, KnownBuilds, PrevDir, StagedControls,
          PayloadThere, PrevIsBefore
    <3> QED
      BY <1>1, <1>2, <1>3, <1>4, <2>1, <2>2, <3>2, <3>3
      DEF RootParts, NoJournal, JournalTells, KillsAlone, EditsAlone,
          Rollback, Unfinished, Preparing, Installing, Discarding,
          RollingBack, Restoring, Restored, Ending
  <2>3. CASE /\ ctl = journal.prev /\ ctl' = ctl
             /\ journal' = [journal EXCEPT
                              !.state = "ROLLBACK_CONTROLS_RESTORED"]
             /\ pc' = "ROLLBACK_CONTROLS_RESTORED"
    <3>1. /\ journal' \in Journals /\ journal' \notin {None, Torn}
          /\ journal'.state = "ROLLBACK_CONTROLS_RESTORED"
          /\ journal'.gen = journal.gen /\ journal'.prev = journal.prev
      BY <1>2, <2>3, JournalUpdate DEF Journals, JournalStates
    <3> QED
      BY <1>1, <1>2, <1>3, <1>4, <2>1, <2>3, <3>1, RootKept
      DEF RootParts, NoJournal, JournalTells, KillsAlone, EditsAlone,
          Rollback, Unfinished, Preparing, Installing, Discarding,
          RollingBack, Restoring, Restored, Ending
  <2> QED
    BY <1>8, <2>1, <2>2, <2>3 DEF RollbackRestore
<1>9. CASE RollbackPayload
  <2>1. /\ pc = "ROLLBACK_CONTROLS_RESTORED" /\ StagedControls /\ TwoPayloads
        /\ PayloadThere /\ ctl = journal.prev
    BY <1>1, <1>4, <1>9
    DEF RollbackPayload, Rollback, RollingBack, Restoring, Restored
  <2>2. /\ pc' = IF Dir[journal.gen] # PrevDir(journal)
                 THEN "rollbackFiles" ELSE "rollbackVerify"
        /\ UNCHANGED <<inputs, plan, resumed, before, edits, kills,
                       builds, ctl, journal, stage, outcome>>
    BY <1>9, <2>1 DEF RollbackPayload, PayloadThere
  <2>3. Dir[journal.gen] = PrevDir(journal) => RolledBack
    BY <1>4, <2>1
    DEF RolledBack, Settled, Selects, PreviousCommitted, TwoPayloads,
        KnownBuilds, PrevDir, RemembersOther, NoControls
  <2> QED
    BY <1>1, <1>2, <1>3, <1>4, <2>1, <2>2, <2>3, RootKept
    DEF RootParts, NoJournal, JournalTells, KillsAlone, EditsAlone,
        Rollback, Unfinished, Preparing, Installing, Discarding,
        RollingBack, Restoring, Restored, Ending
<1>10. CASE RollbackFiles
  <2>1. /\ pc = "rollbackFiles" /\ TwoPayloads /\ ctl = journal.prev
        /\ Dir[journal.gen] # PrevDir(journal)
    BY <1>1, <1>4, <1>10
    DEF RollbackFiles, Rollback, RollingBack, Restoring, Restored
  <2>2. /\ UNCHANGED <<inputs, plan, resumed, before, edits, kills,
                       ctl, journal, stage, outcome>>
        /\ \/ /\ builds' = [builds EXCEPT ![Dir[journal.gen]] = "absent"]
              /\ pc' = "rollbackVerify"
           \/ /\ builds' = [builds EXCEPT ![Dir[journal.gen]] = "partial"]
              /\ pc' = pc
    BY <1>10 DEF RollbackFiles, RemoveBuild
  <2>3. PrevDir(journal)' = PrevDir(journal) /\ RemembersOther' /\ PrevIsBefore'
    BY <1>4, <2>2 DEF PrevDir, RemembersOther, PrevIsBefore
  <2>4. TwoPayloads'
    BY <1>2, <1>4, <1>5, <2>1, <2>2, <2>3, PayloadsType
    DEF TwoPayloads, KnownBuilds
  <2>5. pc' = "rollbackVerify" => RolledBack'
    <3> SUFFICES ASSUME pc' = "rollbackVerify" PROVE RolledBack'
      OBVIOUS
    <3>1. builds' = [builds EXCEPT ![Dir[journal.gen]] = "absent"]
      BY <2>1, <2>2
    <3>2. KnownBuilds({PrevDir(journal)})'
      BY <1>4, <1>5, <2>1, <2>3, <3>1 DEF TwoPayloads, KnownBuilds
    <3>3. CASE journal.prev = NoControls
      <4>1. KnownBuilds({})'
        BY <3>2, <3>3, <2>3 DEF KnownBuilds, PrevDir, NoControls
      <4> QED
        BY <1>4, <2>1, <2>2, <3>3, <4>1 DEF RolledBack, Settled, NoControls
    <3>4. CASE journal.prev # NoControls
      <4>1. /\ ctl'.current \in Gens /\ ctl' = ControlsOf(ctl'.current)
            /\ PrevDir(journal)' = Dir[ctl'.current]
        BY <1>4, <2>1, <2>2, <3>4 DEF RemembersOther, PrevDir
      <4>2. Selects(ctl.current)'
        BY <2>3, <2>4, <3>2, <4>1
        DEF Selects, PreviousCommitted, KnownBuilds, TwoPayloads, ControlsOf
      <4> QED
        BY <1>4, <2>1, <2>2, <4>1, <4>2 DEF RolledBack, Settled
    <3> QED
      BY <3>3, <3>4
  <2> QED
    BY <1>1, <1>2, <1>3, <1>4, <2>1, <2>2, <2>3, <2>4, <2>5
    DEF RootParts, NoJournal, JournalTells, KillsAlone, EditsAlone,
        Rollback, Unfinished, Preparing, Installing, Discarding,
        RollingBack, Restoring, Restored, Ending
<1>11. CASE RollbackVerify
  <2>1. pc = "rollbackVerify" /\ RolledBack
    BY <1>4, <1>11 DEF RollbackVerify, Restored
  <2>2. \/ ctl = NoControls /\ journal.prev = NoControls
        \/ /\ ctl = journal.prev /\ ctl # NoControls
           /\ PreviousCommitted(ctl, ctl.current)
    BY <2>1 DEF RolledBack, Settled, Selects, NoControls
  <2>3. /\ pc' = "rollbackStage"
        /\ UNCHANGED <<inputs, plan, resumed, before, edits, kills,
                       builds, ctl, journal, stage, outcome>>
    BY <1>11, <2>2 DEF RollbackVerify
  <2> QED
    BY <1>1, <1>2, <1>3, <1>4, <2>1, <2>3, RootKept
    DEF RootParts, NoJournal, JournalTells, KillsAlone, EditsAlone,
        Rollback, Unfinished, Preparing, Installing, Discarding,
        RollingBack, Restoring, Restored, Ending
<1>12. CASE RollbackStage
  <2>1. /\ pc = "rollbackStage" /\ RolledBack
        /\ UNCHANGED <<inputs, plan, resumed, before, edits, kills,
                       builds, ctl, journal, outcome>>
        /\ \/ pc' = "rollbackJournal" /\ stage' = None
           \/ pc' = "rollbackStage"
    BY <1>4, <1>12 DEF RollbackStage, RemoveStage, Restored
  <2>2. RolledBack' /\ RemembersOther' /\ PrevIsBefore'
    BY <1>4, <2>1, SameRoot DEF RemembersOther, PrevIsBefore
  <2> QED
    BY <1>1, <1>2, <1>3, <1>4, <2>1, <2>2
    DEF RootParts, NoJournal, JournalTells, KillsAlone, EditsAlone,
        Rollback, Unfinished, Preparing, Installing, Discarding,
        RollingBack, Restoring, Restored, Ending
<1>13. CASE RollbackJournal
  <2>1. /\ pc = "rollbackJournal" /\ RolledBack /\ stage = None
        /\ journal' = None /\ pc' = "idle"
        /\ UNCHANGED <<inputs, plan, resumed, before, edits, kills,
                       builds, ctl, stage>>
    BY <1>1, <1>3, <1>4, <1>13
    DEF RollbackJournal, Rollback, RollingBack, Restored
  <2>2. /\ Rest' /\ ~Bare' /\ journal' \notin Journals /\ journal' # Torn
        /\ ctl = before.ctl \/ (before.bare /\ ctl = NoControls)
    <3>1. Settled' <=> Settled
      BY <2>1 DEF Settled, Selects, PreviousCommitted, KnownBuilds
    <3>2. Bare' <=> Bare
      BY <2>1 DEF Bare, KnownBuilds
    <3>3. Settled /\ ~Bare
      BY <1>1, <2>1, SettledNotBare DEF RolledBack
    <3> QED
      BY <1>4, <2>1, <3>1, <3>2, <3>3 DEF Rest, RolledBack, PrevIsBefore
  <2> QED
    BY <1>1, <1>3, <2>1, <2>2
    DEF RootParts, NoJournal, JournalTells, KillsAlone, EditsAlone,
        Rollback, Unfinished, Preparing, Installing, Discarding,
        RollingBack, Restoring, Restored, Ending
<1> QED
  BY <1>6, <1>7, <1>8, <1>9, <1>10, <1>11, <1>12, <1>13

\* A fault that leaves one kind of them possible: an edit without kills, or
\* a kill without edits.
LEMMA FaultKeepsRoot ==
  ASSUME TypeInv, TypeInv', RootParts, Edit \/ Kill, ~Mixed'
  PROVE  RootParts'
<1> USE PublicationConstants DEF disk
<1>1. /\ NoJournal /\ JournalTells /\ KillsAlone /\ EditsAlone /\ Rollback
      /\ PublicationTypeOK /\ Journaled
  BY DEF RootParts, TypeInv
<1>2. edits' = 0 \/ kills' = 0
  BY DEF TypeInv, PublicationTypeOK, Mixed
<1>3. CASE Edit
  <2>1. /\ edits' # 0 /\ kills' = 0 /\ kills = 0
        /\ UNCHANGED <<builds, ctl, journal, stage, pc, plan, resumed,
                       outcome, before>>
    BY <1>1, <1>2, <1>3 DEF Edit, PublicationTypeOK
  <2>2. NoJournal' /\ JournalTells' /\ Rollback'
    BY <1>1, <2>1, RootKept DEF NoJournal, JournalTells, Rollback
  <2>3. KillsAlone'
    BY <2>1 DEF KillsAlone
  <2>4. EditsAlone'
    BY <1>1, <2>1, RootKept DEF EditsAlone
  <2> QED
    BY <2>2, <2>3, <2>4 DEF RootParts
<1>4. CASE Kill
  <2>1. /\ kills' # 0 /\ edits' = 0 /\ edits = 0
        /\ pc' = "idle" /\ outcome' = "killed"
        /\ UNCHANGED <<inputs, builds, ctl, journal, stage, plan, resumed,
                       before>>
    BY <1>1, <1>2, <1>4 DEF Kill, PublicationTypeOK
  <2>2. /\ pc \notin Discarding \cup RollingBack
        /\ pc = "inspect" => journal = None
        /\ journal \in Journals =>
             journal.state \in {"PREPARED", "STAGED_DURABLE"}
    BY <1>1, <2>1 DEF KillsAlone, Journaled
  <2>3. NoJournal'
    BY <1>1, <2>1, RootKept DEF NoJournal
  <2>4. JournalTells'
    <3> SUFFICES ASSUME journal \in Journals PROVE JournalTells'
      BY <2>1 DEF JournalTells
    <3>1. journal.state = "STAGED_DURABLE" => NotYet \/ Done
      BY <1>1, <2>2
      DEF JournalTells, NoJournal, Unfinished, Preparing, Installing, Ending,
          Discarding, RollingBack, Restoring, Restored, PublicationTypeOK,
          Labels
    <3> QED
      BY <1>1, <2>1, <2>2, <3>1, RootKept
      DEF JournalTells, Unfinished, Preparing, Installing, Ending,
          Discarding, JournalSteps
  <2>5. KillsAlone'
    BY <1>1, <2>1
    DEF KillsAlone, Discarding, RollingBack, Restoring, Restored
  <2>6. EditsAlone' /\ Rollback'
    BY <2>1 DEF EditsAlone, Rollback, RollingBack, Restoring, Restored
  <2> QED
    BY <2>3, <2>4, <2>5, <2>6 DEF RootParts
<1> QED
  BY <1>3, <1>4

LEMMA FaultsCounted ==
  [Next]_vars => edits' \in {edits, edits + 1} /\ kills' \in {kills, kills + 1}
BY DEF Next, Publish, vars, Memory, Begin, ReadJournal, Inspect, WriteJournal,
       CreateStage, PersistStaged, Staged, Recheck, Discard, DiscardPayload,
       DiscardStage, DiscardJournal, InstallPayload, InstallControl,
       ControlsInstalled, InstallPointer, Committed, RemovePrevious,
       RemovePreviousFiles, FinishStage, FinishJournal, RollbackPointer,
       PersistPointerRemoved, RollbackRestore, RollbackPayload, RollbackFiles,
       RollbackVerify, RollbackStage, RollbackJournal, Edit, Kill

LEMMA NextRoot ==
  ASSUME TypeInv, TypeInv', SuccessInv, RootInv, [Next]_vars
  PROVE  RootInv'
<1> SUFFICES ASSUME ~Mixed' PROVE RootParts'
  BY DEF RootInv
<1>1. ~Mixed
  <2>1. edits' \in {edits, edits + 1} /\ kills' \in {kills, kills + 1}
    BY FaultsCounted
  <2> QED
    BY <2>1 DEF Mixed, TypeInv, PublicationTypeOK
<1>2. RootParts /\ OneFault
  BY <1>1 DEF RootInv, OneFault
<1>3. CASE Begin
  BY <1>2, <1>3, StartKeepsRoot
<1>4. CASE Publish
  BY <1>2, <1>4, StartKeepsRoot, StagingKeepsRoot, DiscardKeepsRoot,
     InstallKeepsRoot, EndKeepsRoot, RollbackKeepsRoot
  DEF Publish, Mutable
<1>5. CASE Edit \/ Kill
  BY <1>2, <1>5, FaultKeepsRoot
<1>6. CASE UNCHANGED vars
  <2>1. UNCHANGED <<inputs, builds, ctl, journal, stage, pc, plan, resumed,
                    outcome, before, edits, kills>>
    BY <1>6 DEF vars, disk
  <2> QED
    BY <1>2, <2>1, RootKept
    DEF RootParts, NoJournal, JournalTells, KillsAlone, EditsAlone, Rollback
<1> QED
  BY <1>3, <1>4, <1>5, <1>6 DEF Next

----------------------------------------------------------------------------
(* What RootInv gives.                                                     *)

LEMMA RootAlways == Spec => [](TypeInv /\ SuccessInv /\ RootInv)
<1>1. Init => TypeInv /\ SuccessInv /\ RootInv
  BY InitTypes, InitSuccess, InitRoot DEF RootInv
<1>2. TypeInv /\ SuccessInv /\ RootInv /\ [Next]_vars
        => (TypeInv /\ SuccessInv /\ RootInv)'
  BY NextTypes, NextSuccess, NextRoot
<1> QED
  BY <1>1, <1>2, PTL DEF Spec

LEMMA RootRests == TypeInv /\ RootInv => OneFaultRests
<1> SUFFICES ASSUME RootInv, ~Mixed, pc = "idle", journal = None
             PROVE  \/ ctl = NoControls /\ KnownBuilds({})
                    \/ ctl.current # None /\ Selects(ctl.current)
                    \/ Bare /\ before = Found
  BY DEF OneFaultRests, AtRestOneBuild
<1>1. Rest /\ (Bare => before = Found)
  BY PublicationConstants DEF RootInv, RootParts, NoJournal
<1> QED
  BY <1>1, PublicationConstants DEF Rest, Settled

LEMMA RootRestores == TypeInv /\ RootInv => FailureRestores
<1> SUFFICES ASSUME TypeInv, RootInv, ~Mixed PROVE FailureRestores
  BY DEF FailureRestores, RollbackHasTarget
<1> USE PublicationConstants
<1>1. /\ NoJournal /\ JournalTells /\ KillsAlone /\ EditsAlone /\ Rollback
      /\ edits = 0 \/ kills = 0
  BY OneKind DEF RootInv, RootParts
<1>2. outcome = "error" /\ journal = None =>
        ctl = before.ctl \/ (before.bare /\ ctl = NoControls)
  BY <1>1 DEF KillsAlone, EditsAlone
<1>3. ASSUME \/ pc = "POINTER_COMMITTED" /\ inputs # plan
             \/ pc \in Restoring,
             journal.prev # NoControls
      PROVE  builds[PrevDir(journal)] = "whole"
  <2>1. TwoPayloads
    BY <1>1, <1>3
    DEF KillsAlone, EditsAlone, Rollback, RollingBack, Restoring, Restored
  <2>2. journal \in Journals
    BY <1>3 DEF TypeInv, Journaled, JournalSteps, Labels, Restoring
  <2>3. journal.prev.current \in Gens
    BY <1>1, <1>3, <2>2 DEF JournalTells, RemembersOther
  <2>4. PrevDir(journal) # None
    BY <2>3 DEF PrevDir
  <2> QED
    BY <2>1, <2>4 DEF TwoPayloads
<1>4. RollbackHasTarget
  BY <1>3 DEF RollbackHasTarget, Restoring
<1> QED
  BY <1>2, <1>4 DEF FailureRestores

\* With edits alone or kills alone, a root at rest is empty, or one generation
\* whose control files agree and whose payload is the only one, or a checkout
\* without builds/ that the last publication found and left alone.
THEOREM FaultRests == Spec => []OneFaultRests
BY RootAlways, RootRests, PTL

\* With edits alone or kills alone, a publication that fails without leaving
\* a journal has put the control files back as it found them, or removed those
\* of a checkout without builds/, and a rollback finds the payload it goes
\* back to.
THEOREM FailuresRestore == Spec => []FailureRestores
BY RootAlways, RootRestores, PTL

----------------------------------------------------------------------------
(* What a reader of the root sees, CatalogSelection.                       *)

Whole == {d \in Dirs : builds[d] = "whole"}

LEMMA InitSelects == Init => Selection!Init
<1> SUFFICES ASSUME Init PROVE Selection!Init
  OBVIOUS
<1> USE PublicationConstants
<1>1. CASE ctl = NoControls /\ builds = [d \in Dirs |-> "absent"]
  BY <1>1 DEF Selection!Init, NoControls
<1>2. ASSUME NEW g \in Gens, ctl = ControlsOf(g),
             builds = [d \in Dirs |->
                         IF d = Dir[g] THEN "whole" ELSE "absent"]
      PROVE  Selection!Init
  <2>1. ctl.current = g
    BY <1>2 DEF ControlsOf
  <2>2. {d \in Dirs : builds[d] = "whole"} = {Dir[g]}
    BY <1>2
  <2> QED
    BY <2>1, <2>2 DEF Selection!Init
<1>3. ASSUME NEW g \in Gens, ctl = ControlsOf(g),
             builds = [d \in Dirs |-> "absent"]
      PROVE  Selection!Init
  <2>1. ctl.current = g
    BY <1>3 DEF ControlsOf
  <2>2. {d \in Dirs : builds[d] = "whole"} = {}
    BY <1>3
  <2> QED
    BY <2>1, <2>2 DEF Selection!Init
<1> QED
  BY <1>1, <1>2, <1>3 DEF Init

\* One payload directory changes.
LEMMA BuildChanges ==
  ASSUME builds \in [Dirs -> Presence], NEW d \in Dirs, NEW p,
         builds' = [builds EXCEPT ![d] = p]
  PROVE  Whole' = IF p = "whole" THEN Whole \cup {d} ELSE Whole \ {d}
BY DEF Whole

\* The steps that change neither the pointer nor a payload.
LEMMA NothingSeen ==
  ASSUME UNCHANGED builds, ctl'.current = ctl.current
  PROVE  UNCHANGED Selection!vars
BY DEF Selection!vars

\* A payload is removed that the pointer does not select.
LEMMA RemovalSeen ==
  ASSUME TypeInv, NEW d \in Dirs, NEW p \in {"absent", "partial"},
         builds' = [builds EXCEPT ![d] = p], UNCHANGED ctl,
         ctl.current # None => d # Dir[ctl.current]
  PROVE  [Selection!Next]_Selection!vars
<1>1. Whole' = Whole \ {d} /\ ctl'.current = ctl.current
  BY BuildChanges DEF TypeInv, PublicationTypeOK
<1>2. CASE d \in Whole
  BY <1>1, <1>2 DEF Selection!Next, Selection!Remove, Whole
<1>3. CASE d \notin Whole
  BY <1>1, <1>3 DEF Selection!vars, Whole
<1> QED
  BY <1>2, <1>3

LEMMA StepSeen ==
  ASSUME OneFault, SuccessInv, [Next]_vars
  PROVE  [Selection!Next]_Selection!vars
<1> USE PublicationConstants DEF Goto, Memory, Throw, disk
<1>1. /\ NoJournal /\ JournalTells /\ KillsAlone /\ EditsAlone /\ Rollback
      /\ edits = 0 \/ kills = 0
      /\ PublicationTypeOK /\ Journaled /\ TypeInv /\ EndsKnown
  BY OneKind DEF OneFault, RootParts, TypeInv, SuccessInv
<1>2. /\ ctl \in Controls /\ builds \in [Dirs -> Presence]
      /\ plan \in Gens /\ Dir[plan] \in Dirs
  BY <1>1 DEF PublicationTypeOK
<1>3. pc \in JournalSteps =>
        /\ journal \in Journals /\ journal.gen = plan /\ RemembersOther
        /\ Dir[journal.gen] \in Dirs /\ PrevDir(journal) \in Dirs \cup {None}
  BY <1>1, PayloadsType DEF Journaled, JournalTells
<1>4. CASE UNCHANGED <<builds, ctl>>
  BY <1>4, NothingSeen
<1>5. CASE DiscardPayload
  BY <1>1, <1>5 DEF DiscardPayload, KillsAlone, EditsAlone, Discarding
<1>6. CASE InstallPayload /\ builds' # builds
  <2>1. /\ builds[Dir[plan]] = "absent" /\ UNCHANGED ctl
        /\ builds' = [builds EXCEPT ![Dir[plan]] = "whole"]
    BY <1>6 DEF InstallPayload
  <2>2. Whole' = Whole \cup {Dir[plan]}
    BY <1>2, <2>1, BuildChanges
  <2>3. Dir[plan] \notin Whole /\ ctl'.current = ctl.current
    BY <2>1 DEF Whole
  <2> QED
    BY <1>2, <2>2, <2>3 DEF Selection!Next, Selection!Install, Whole
<1>7. ASSUME NEW f \in Mutable, InstallControl(f)
      PROVE  [Selection!Next]_Selection!vars
  <2>1. UNCHANGED builds /\ ctl'.current = ctl.current
    BY <1>2, <1>7 DEF InstallControl, Mutable, Controls
  <2> QED
    BY <2>1, NothingSeen
<1>8. CASE InstallPointer /\ ctl' # ctl
  <2>1. /\ ctl' = [ctl EXCEPT !.current = plan] /\ UNCHANGED builds
        /\ pc = "RECEIPT_INSTALLED" /\ pc \in JournalSteps
    BY <1>8 DEF InstallPointer, JournalSteps, Labels
  <2>2. Dir[plan] \in Whole
    BY <1>1, <1>2, <1>3, <2>1 DEF JournalTells, PayloadThere, Whole
  <2>3. ctl'.current = plan
    BY <1>2, <2>1 DEF Controls
  <2> QED
    BY <1>2, <2>1, <2>2, <2>3 DEF Selection!Next, Selection!Select, Whole
<1>9. CASE RemovePreviousFiles
  <2>1. /\ pc = "removing" /\ UNCHANGED ctl
        /\ \E p \in {"absent", "partial"} :
             builds' = [builds EXCEPT ![PrevDir(journal)] = p]
    BY <1>9 DEF RemovePreviousFiles, RemoveBuild
  <2>2. PrevDir(journal) \in Dirs \ {Dir[plan]} /\ ctl.current = plan
    BY <1>1, <1>3, <2>1
    DEF EndsKnown, PlanSelected, ControlsOf, Ending, JournalSteps, Labels
  <2> QED
    BY <1>1, <2>1, <2>2, RemovalSeen
<1>10. CASE RollbackPointer /\ ctl' # ctl
  <2>1. ctl' = [ctl EXCEPT !.current = None] /\ UNCHANGED builds
    BY <1>10 DEF RollbackPointer
  <2>2. ctl'.current = None /\ ctl.current # None
    BY <1>2, <1>10, <2>1 DEF Controls
  <2> QED
    BY <2>1, <2>2 DEF Selection!Next, Selection!Deselect
<1>11. CASE RollbackRestore /\ ctl' # ctl
  <2>1. /\ pc = "ROLLBACK_POINTER_REMOVED" /\ UNCHANGED builds
        /\ \E k \in 1..4 :
             ctl' = [ctl EXCEPT ![RestoreOrder[k]] =
                                  journal.prev[RestoreOrder[k]]]
    BY <1>11 DEF RollbackRestore
  <2>2. PICK k \in 1..4 :
          ctl' = [ctl EXCEPT ![RestoreOrder[k]] =
                               journal.prev[RestoreOrder[k]]]
    BY <2>1
  <2>3. TwoPayloads /\ ctl.current \in {None, journal.prev.current}
    BY <1>1, <2>1 DEF Rollback, RollingBack, Restoring, Restored
  <2>4. journal \in Journals /\ journal.prev.current \in Gens \cup {None}
    BY <1>3, <2>1 DEF JournalSteps, Labels, Journals, Controls
  <2>5. ctl'.current \in {ctl.current, journal.prev.current}
    BY <1>2, <2>2 DEF RestoreOrder, Controls
  <2>6. CASE ctl'.current = ctl.current
    BY <2>1, <2>6, NothingSeen
  <2>7. CASE ctl'.current # ctl.current
    <3>1. ctl'.current = journal.prev.current /\ journal.prev.current \in Gens
      BY <2>3, <2>4, <2>5, <2>7
    <3>2. Dir[journal.prev.current] \in Whole
      BY <2>3, <3>1 DEF TwoPayloads, PrevDir, Whole
    <3> QED
      BY <2>1, <3>1, <3>2 DEF Selection!Next, Selection!Select, Whole
  <2> QED
    BY <2>6, <2>7
<1>12. CASE RollbackFiles
  <2>1. /\ pc = "rollbackFiles" /\ UNCHANGED ctl
        /\ \E p \in {"absent", "partial"} :
             builds' = [builds EXCEPT ![Dir[journal.gen]] = p]
    BY <1>12 DEF RollbackFiles, RemoveBuild
  <2>2. ctl = journal.prev /\ Dir[journal.gen] # PrevDir(journal)
    BY <1>1, <2>1 DEF Rollback, RollingBack, Restoring, Restored
  <2>3. ctl.current # None => Dir[journal.gen] # Dir[ctl.current]
    BY <2>2 DEF PrevDir
  <2>4. Dir[journal.gen] \in Dirs
    BY <1>3, <2>1 DEF JournalSteps, Labels
  <2> QED
    BY <1>1, <2>1, <2>3, <2>4, RemovalSeen
<1>13. ASSUME \/ Begin \/ ReadJournal \/ Inspect \/ WriteJournal
              \/ CreateStage \/ PersistStaged \/ Staged \/ Recheck \/ Discard
              \/ DiscardStage \/ DiscardJournal \/ ControlsInstalled
              \/ Committed \/ RemovePrevious \/ FinishStage \/ FinishJournal
              \/ PersistPointerRemoved \/ RollbackPayload \/ RollbackVerify
              \/ RollbackStage \/ RollbackJournal \/ Edit \/ Kill
              \/ UNCHANGED vars
       PROVE  UNCHANGED <<builds, ctl>>
  BY <1>13
  DEF Begin, ReadJournal, Inspect, WriteJournal, CreateStage, PersistStaged,
      Staged, Recheck, Discard, DiscardStage, DiscardJournal,
      ControlsInstalled, Committed, RemovePrevious, FinishStage,
      FinishJournal, PersistPointerRemoved, RollbackPayload, RollbackVerify,
      RollbackStage, RollbackJournal, Edit, Kill, vars
<1>14. InstallPayload => ctl' = ctl
  BY DEF InstallPayload
<1>15. InstallPointer \/ RollbackPointer \/ RollbackRestore => builds' = builds
  BY DEF InstallPointer, RollbackPointer, RollbackRestore
<1> QED
  BY <1>4, <1>5, <1>6, <1>7, <1>8, <1>9, <1>10, <1>11, <1>12, <1>13, <1>14,
     <1>15
  DEF Next, Publish, Mutable

LEMMA NextSeen ==
  TypeInv /\ SuccessInv /\ RootInv /\ [Next]_vars
    => [Selection!Next \/ Mixed']_Selection!vars
<1> SUFFICES ASSUME TypeInv, SuccessInv, RootInv, [Next]_vars
             PROVE  [Selection!Next \/ Mixed']_Selection!vars
  OBVIOUS
<1>1. CASE Mixed
  <2>1. edits \in Nat /\ kills \in Nat /\ edits > 0 /\ kills > 0
    BY <1>1 DEF TypeInv, PublicationTypeOK, Mixed
  <2>2. edits' \in {edits, edits + 1} /\ kills' \in {kills, kills + 1}
    BY FaultsCounted
  <2> QED
    BY <2>1, <2>2 DEF Mixed
<1>2. CASE ~Mixed
  BY <1>2, StepSeen DEF OneFault, RootInv
<1> QED
  BY <1>1, <1>2

\* With edits alone or kills alone, a publication, its resumptions and its
\* rollbacks implement CatalogSelection: whoever reads the pointer finds the
\* payload it names, whole, at every moment once one has been selected.
THEOREM ReadersAreServed == Spec => ReadersServed
<1> DEFINE Step == Selection!Next \/ Mixed'
<1>1. TypeInv /\ SuccessInv /\ RootInv /\ [Next]_vars
        => [Step]_Selection!vars
  BY NextSeen
<1>2. Init => Selection!Init
  BY InitSelects
<1>3. Spec => Selection!Init /\ [][Step]_Selection!vars
  <2> HIDE DEF Step
  <2> QED
    BY <1>1, <1>2, RootAlways, PTL DEF Spec
<1> QED
  BY <1>3 DEF ReadersServed

=============================================================================
